--------------------------- MODULE MCAlertReader ---------------------------
(* Instances of the alert reader for TLC. *)
EXTENDS AlertReader

CONSTANTS f1, f2

MCTwoFiles == {f1, f2}

\* An alert that is malformed or below the minimum level, and timestamps that
\* are neither in the order of the log nor all different.
MCTime == [a \in AlertIds |-> IF a \in {2, 3} THEN 1 ELSE 2]
MCRelevant == AlertIds \ {3}
MCAllRelevant == AlertIds

MCAnyPieces == {1, 2, 3}
MCBoth == {"rename", "truncate"}
MCNone == {}
MCAppend == {"append"}
MCLineRename == {"line", "rename"}
=============================================================================
