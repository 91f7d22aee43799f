------------------------------ MODULE MCDaemon ------------------------------
(* An instance of the daemon for TLC. *)
EXTENDS Daemon

MCSignals == {"sigint", "sigterm"}
=============================================================================
