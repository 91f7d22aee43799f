------------------------- MODULE ResponseAuthority -------------------------
(***************************************************************************)
(* What the controlled response framework promises, without its commands,  *)
(* processes, rows or failures: there are grounds for a decision before it *)
(* is authorized, authorization before it is announced in the audit trail, *)
(* and announcement before anything of it reaches the firewall or an       *)
(* endpoint, at once or late.  None of the first three is ever taken back. *)
(***************************************************************************)
CONSTANTS Decision, Targets,
          BlockDecisions,   \* decisions whose effect is a pf block
          TargetOf          \* the address each decision is about

VARIABLES grounds, authorized, announced, blocked, fired, pending

authorityVars == <<grounds, authorized, announced, blocked, fired, pending>>

AuthorityInit ==
    /\ grounds \subseteq Decision
    /\ authorized = {} /\ announced = {}
    /\ blocked = {} /\ fired = {} /\ pending = {}

\* New evidence or a new opt-in; evidence once had is not unhad.
GainGrounds ==
    /\ grounds \subseteq grounds' /\ grounds' \subseteq Decision
    /\ UNCHANGED <<authorized, announced, blocked, fired, pending>>

Authorize(d) ==
    /\ d \in grounds
    /\ authorized' = authorized \cup {d}
    /\ UNCHANGED <<grounds, announced, blocked, fired, pending>>

Announce(d) ==
    /\ d \in authorized
    /\ announced' = announced \cup {d}
    /\ UNCHANGED <<grounds, authorized, blocked, fired, pending>>

\* A request may be left pending; only announced decisions have any.
Ask(d) ==
    /\ d \in announced
    /\ pending' = pending \cup {d}
    /\ UNCHANGED <<grounds, authorized, announced, blocked, fired>>

\* An announced decision takes effect, or its block is lifted; a pending
\* request of it may be the one that does it.
Effect(d) ==
    /\ d \in announced
    /\ \/ /\ d \in BlockDecisions
          /\ \/ blocked' = blocked \cup {TargetOf[d]}
             \/ blocked' = blocked \ {TargetOf[d]}
          /\ UNCHANGED fired
       \/ d \notin BlockDecisions /\ fired' = fired \cup {d} /\ UNCHANGED blocked
    /\ \/ UNCHANGED pending
       \/ pending' = pending \ {d}
    /\ UNCHANGED <<grounds, authorized, announced>>

AuthorityNext ==
    \/ GainGrounds
    \/ \E d \in Decision : Authorize(d) \/ Announce(d) \/ Ask(d) \/ Effect(d)

Spec == AuthorityInit /\ [][AuthorityNext]_authorityVars
=============================================================================
