---------------------------- MODULE Calibration ----------------------------
(***************************************************************************)
(* The loop from a decision to a measurement: what the pipeline has queued *)
(* an analyst reviews (run_review.py), the review becomes a labelled case  *)
(* with the events it was about (soc/evaluation.py), and run_eval.py       *)
(* triages the case anew and holds it against its label.                   *)
(***************************************************************************)
EXTENDS Assessment

CONSTANTS
    AnalystScores,      \* scores an analyst may give; NoNumber for none
    MaxReviewed         \* bound on the events of a run that is reviewed

ASSUME CalibrationConstants ==
    AnalystScores \subseteq (1 .. 10) \cup {NoNumber} /\ MaxReviewed \in Nat

VARIABLES
    review,         \* the queue item that was judged, with the judgment
    label,          \* the labelled case it became
    spoke           \* history: whether an evaluation misses more than one point of it

calibration == <<review, label, spoke>>
allVars == <<vars, calibration>>

AnalystVerdicts == {"agree", "too_high", "too_low", "wrong_class"}
NoReview == [result |-> NoResult, verdict |-> "none", score |-> NoNumber]
NoLabel == [min |-> 0, max |-> 0, actions |-> {}]

CalibrationInit ==
    Init /\ review = NoReview /\ label = NoLabel /\ spoke = FALSE

-----------------------------------------------------------------------------
\* The pipeline queues what is routed to review, under the result's own score.
Queued == {item \in ToSet(items) : item.action = "queue_review"}

DisputedStaysIn(r) ==
    LET given == r.score
        was == Clamp(r.result.score)
    IN  CASE given # NoNumber -> <<Clamp(given - 1), Clamp(given + 1)>>
          [] given = NoNumber /\ r.verdict = "too_high" -> <<1, was>>
          [] given = NoNumber /\ r.verdict = "too_low" -> <<was, 10>>
          [] OTHER -> <<Clamp(was - 1), Clamp(was + 1)>>

\* An analyst's score comes first; a direction opens the band to its end.
ExpectedBand(r) ==
    LET given == r.score
        was == Clamp(r.result.score)
    IN  CASE given # NoNumber -> <<Clamp(given - 1), Clamp(given + 1)>>
          [] given = NoNumber /\ r.verdict = "too_high" -> <<1, Clamp(was - 1)>>
          [] given = NoNumber /\ r.verdict = "too_low" -> <<Clamp(was + 1), 10>>
          [] OTHER -> <<Clamp(was - 1), Clamp(was + 1)>>

\* The router's default thresholds, at the two ends of the band.
ActionForScore(score) == ActionAt(score, 8, 4)

LabelOf(r) ==
    LET band == ExpectedBand(r)
    IN  [min |-> band[1], max |-> band[2],
         actions |-> {ActionForScore(band[1]), ActionForScore(band[2])}]

\* The raw events behind the target, oldest first, those without a time before.
Fixture(target) ==
    LET of == {i \in DOMAIN batch : Normalize(batch[i]).id \in target.alerts}
    IN  Sorted(batch, of, [i \in of |-> <<batch[i].collected, batch[i].id>>])

-----------------------------------------------------------------------------
\* The points that an evaluation does not give, which has no inventory and scores
\* a single alert as one (evaluation.py:794): there its user counts for nothing,
\* and what damping takes is not made up for by the least score.
Unmeasured(c) ==
    LET a == c.alerts[1]
        single == Len(c.alerts) = 1
    IN AssetBoost(AssetOf(c)) + Points(single /\ c.user # NoText, 1)
       + Points(single /\ a.severity = "info" /\ FrequencyDamping(a) # 0, 1)

\* run_review.py verdict: of an item that is queued, with or without a score.
\* One point more or less is within the band.
Record(item, verdictOf, score) ==
    /\ use = "pipeline" /\ phase = "done" /\ Len(batch) <= MaxReviewed
    /\ review = NoReview
    /\ review' = [result |-> item.result, verdict |-> verdictOf, score |-> score]
    /\ spoke' = (\/ verdict \in {"malicious", "suspicious"}
                 \/ Unmeasured(item.candidate) > 1)
    /\ UNCHANGED <<vars, label>>

\* list_reviewed_queue_items
Reviewed == {r \in {review} : r # NoReview}

\* run_review.py promote, and then an evaluation of what it wrote.
PromoteReview(item) ==
    /\ use = "pipeline" /\ phase = "done" /\ Fixture(item.result.target) # <<>>
    /\ label' = LabelOf(item)
    /\ use' = "evaluation" /\ engine' \in Engines /\ verdict' = "unknown"
    /\ batch' = Fixture(item.result.target)
    /\ phase' = "start" /\ candidates' = <<>> /\ current' = 1
    /\ fallback' = NoResult /\ asked' = 0 /\ tried' = 0 /\ result' = NoResult
    /\ answer' = NoAnswer
    /\ items' = <<>> /\ notices' = <<>> /\ incidents' = <<>>
    /\ UNCHANGED <<measured, review, spoke>>

CalibrationNext ==
    \/ Next /\ UNCHANGED calibration
    \/ \E item \in Queued, v \in AnalystVerdicts, s \in AnalystScores : Record(item, v, s)
    \/ \E item \in Reviewed : PromoteReview(item)

CalibrationSpec == CalibrationInit /\ [][CalibrationNext]_allVars

-----------------------------------------------------------------------------
(* The outcome of the case.                                                *)

ScoreError(score) == Max({0, label.min - score, score - label.max})

InBand == ScoreError(measured.score) = 0

ActionAgreed == measured.action \in label.actions

Relabelled == phase = "done" /\ label # NoLabel

\* A score that was agreed with, and of which one point at most is not measured, is
\* in its band when it is measured again: its events make the same candidate.
AgreedStaysInBand ==
    /\ Relabelled /\ review.verdict \in {"agree", "wrong_class"} /\ review.score = NoNumber
    /\ review.result.source = "local" /\ engine = "local" /\ ~spoke
    => InBand

\* One that was called too high or too low is not, if it is measured again as it was.
DisputedLeavesBand ==
    /\ Relabelled /\ review.verdict \in {"too_high", "too_low"} /\ review.score = NoNumber
    /\ measured.score = review.result.score
    => ~InBand

\* In the band no action that follows from its score is held against it, though a
\* label has the actions of its two ends only (evaluation.py:613).
BandHasItsActions ==
    Relabelled /\ InBand /\ measured.action = ActionForScore(measured.score) => ActionAgreed

\* What a label says of a score is what the analyst meant.
LabelMeansReview == AgreedStaysInBand /\ DisputedLeavesBand /\ BandHasItsActions
=============================================================================
