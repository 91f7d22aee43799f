-------------------------- MODULE MCResponseGate --------------------------
(* Small instances of ResponseGate: a pf playbook over a public address,   *)
(* for one triage result or for two of them.                               *)
EXTENDS ResponseGate, TLC

PF == "pf-block-malicious-ip"

OnlyPF == {PF}
OnlyPFOrder == <<PF>>

\* As in its file under playbooks/: page_now, confidence 9.
MCPlaybookAction == [pb \in Playbooks |-> "pf_block_ip"]
MCTrigger == [pb \in Playbooks |-> {"page_now"}]
MCRequired == [pb \in Playbooks |-> 9]

Public == {"203.0.113.7"}

MCScore == [t \in Triages |-> 9]
OneTriage == {"t9"}
TwoTriages == {"t9", "u9"}

\* A rerun without a model, or with another opinion, replaces the row.
MCVerdicts == {[source |-> "llm", action |-> "page_now"],
               [source |-> "local", action |-> "page_now"],
               [source |-> "llm", action |-> "queue_review"]}
\* One at a time, two decisions about one address are enough to watch; here a
\* new evaluation differs by the settings.
OnlyFromModel == {[source |-> "llm", action |-> "page_now"]}
NoTargets == {}
NoFaults == {}
AllFaults == {"abort", "timeout", "refused"}

\* The commands run the same code, so their names can be exchanged.
CommandsAlike == Permutations(Procs)
=============================================================================
