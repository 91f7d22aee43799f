---------------------------- MODULE AlertLedger ----------------------------
(***************************************************************************)
(* What a deduplicated pipeline promises about each alert, whatever fails: *)
(* it is taken at most once, only a taken alert is decided, and none is    *)
(* decided twice.  It does not promise that a taken alert is decided.      *)
(***************************************************************************)
EXTENDS Naturals

CONSTANT Alerts

VARIABLES
    taken,      \* alerts the pipeline has claimed
    decided     \* how many decisions were delivered for each

ledgerVars == <<taken, decided>>

LedgerInit ==
    /\ taken = {}
    /\ decided = [a \in Alerts |-> 0]

Take(a) ==
    /\ a \notin taken
    /\ taken' = taken \cup {a}
    /\ UNCHANGED decided

\* One decision covers all the alerts of a candidate.
Decide(batch) ==
    /\ batch \subseteq taken
    /\ \A a \in batch : decided[a] = 0
    /\ decided' = [a \in Alerts |-> IF a \in batch THEN 1 ELSE decided[a]]
    /\ UNCHANGED taken

LedgerNext ==
    \/ \E a \in Alerts : Take(a)
    \/ \E batch \in SUBSET Alerts : Decide(batch)

LedgerSpec == LedgerInit /\ [][LedgerNext]_ledgerVars
=============================================================================
