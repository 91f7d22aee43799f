----------------------------- MODULE MCPipeline -----------------------------
(* Instances of the pipeline for TLC. *)
EXTENDS Pipeline

CONSTANTS p1, p2

MCOneProc == {p1}
MCTwoProcs == {p1, p2}

\* Events 1 and 2 are about one host, 3 about another; 4 is rejected by the
\* normalizer, and 5 carries the same alert as 1.
MCEvents == 1 .. 5
MCTwoEvents == 1 .. 2
MCAlertIds == 1 .. 3
MCTwoAlerts == 1 .. 2
MCAlertOf == [e \in Events |->
    IF e = 4 THEN Unusable ELSE IF e = 5 THEN 1 ELSE e]
MCEntity == [a \in AlertIds |-> IF a = 3 THEN "web" ELSE "db"]

\* What a source returns: everything, a later part, or an earlier one.
MCBatches == {MCEvents, {1, 2}, {3, 5}}
MCSmallBatches == {{1, 2}, {1}}

MCQueueAndPage == {6, 9}
MCQueueOnly == {6}

MCAllButDedup == {"store", "component", "report", "crash"}
MCDedupOrCrash == {"dedup", "crash"}
=============================================================================
