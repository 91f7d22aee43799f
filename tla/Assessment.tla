----------------------------- MODULE Assessment -----------------------------
(***************************************************************************)
(* From raw events to decisions: a run of the pipeline (soc/pipeline.py)   *)
(* without what it stores, which module Pipeline has, or one labelled case *)
(* of the evaluation (soc/evaluation.py, run_eval.py).  Both triage with   *)
(* soc/triage.py, locally or over soc/openrouter_client.py; the pipeline   *)
(* then routes, notifies and promotes.                                     *)
(***************************************************************************)
EXTENDS Scoring

CONSTANTS
    Events,         \* raw events that may arrive
    MaxBatch,       \* [engines -> bound on the events of a run]
    Verdicts,       \* what the intelligence providers may say of an address
    ModelScores,    \* scores a model may answer with, as it writes them
    ModelActions,   \* actions it may suggest, "other" for no known one
    ModelErrors,    \* failed exchanges with the model's API
    MaxRetries,     \* max_retries of OpenRouterConfig
    JsonAttempts,   \* max_json_retries + 1 of TriageEngine
    Channels        \* the notification channels that are configured

Engines == {"local", "llm"}

ASSUME AssessmentConstants ==
    /\ MaxRetries \in Nat /\ JsonAttempts \in Nat \ {0}
    /\ MaxBatch \in [Engines -> Nat] /\ ModelScores \subseteq Int
    /\ Verdicts \subseteq {"malicious", "suspicious", "benign", "unknown"}

\* Of events that are the same alert a run has the first, the rest are duplicates.
ASSUME EventConstants ==
    /\ \A e \in Events : EventTyped(e)
    /\ \A d, e \in Events : AlertId(d) = AlertId(e) => d = e

VARIABLES
    use,            \* "pipeline" or "evaluation"
    engine,         \* whether the triage engine has a client
    batch,          \* the events, as fetched
    verdict,        \* what intelligence says of every public address
    phase,          \* where the run is
    candidates,     \* what clustering made of the events
    current,        \* the place of the candidate being triaged
    fallback,       \* its local result, made before the model is asked
    asked, tried,   \* completions asked for, and requests for the last of them
    result,         \* its triage result
    items,          \* what was decided, in order
    notices,        \* the notifications of each decision
    incidents,      \* what was promoted
    measured,       \* the score and action of the case that is evaluated
    answer          \* what the model last said that could be used: history

run == <<use, engine, batch, verdict>>
call == <<fallback, asked, tried, result, answer>>
outcome == <<items, notices, incidents, measured>>
vars == <<run, phase, candidates, current, call, outcome>>

NoResult == [target |-> [index |-> 0, alerts |-> {}], score |-> 0,
             action |-> "mark_likely_benign", source |-> "local", providers |-> {}]
NoAnswer == [score |-> 0, action |-> "other"]
NotMeasured == [score |-> 0, action |-> "other"]

Batches(n) == {s \in BoundedSeq(Events, n) : IsInjective(s)}

Init ==
    /\ use \in {"pipeline", "evaluation"} /\ engine \in Engines
    /\ batch \in Batches(MaxBatch[engine])
    /\ verdict \in IF use = "pipeline" THEN Verdicts ELSE {"unknown"}
    /\ phase = "start" /\ candidates = <<>> /\ current = 1
    /\ fallback = NoResult /\ asked = 0 /\ tried = 0 /\ result = NoResult
    /\ items = <<>> /\ notices = <<>> /\ incidents = <<>>
    /\ measured = NotMeasured /\ answer = NoAnswer

(* ---- the local result ---- *)

Candidate == candidates[current]
Alone == use = "evaluation" /\ Len(batch) = 1

\* to_enrichment_result: only a verdict that escalates keeps its factors.
IntelOf(ip) ==
    [provider |-> "intel", indicator |-> Indicator("ip", ip, {}),
     hint |-> [malicious |-> "high", suspicious |-> "medium",
               benign |-> "info", unknown |-> "info"][verdict],
     factors |-> IF verdict \in {"malicious", "suspicious"} THEN {"reported"} ELSE {},
     words |-> {}]

IndicatorsOf(c) ==
    IF Alone THEN AlertIndicators(c.alerts[1]) ELSE CandidateIndicators(c)

\* The pipeline collects what enrichment raises; intelligence is asked anyway.
EnrichmentsOf(c) ==
    Enrich(IndicatorsOf(c)) \cup
    IF use = "evaluation" THEN {}
    ELSE {IntelOf(i.value) : i \in {x \in CandidateIndicators(c) :
                                        x.type = "ip" /\ x.value \in PublicAddresses}}

\* Only the pipeline has an inventory.
LocalScore(c) ==
    IF Alone THEN ScoreAlert(c.alerts[1], EnrichmentsOf(c))
    ELSE ScoreCandidate(c, EnrichmentsOf(c),
                        IF use = "pipeline" THEN AssetOf(c) ELSE NoAsset)

\* What a result rests on.
ProvidersOf(enrichments) == {e.provider : e \in enrichments}

LocalResult(c) ==
    [target |-> c.id, score |-> LocalScore(c),
     action |-> SuggestedAction(LocalScore(c)), source |-> "local",
     providers |-> ProvidersOf(EnrichmentsOf(c))]

(* ---- the steps of a run ---- *)

Alerts == [i \in DOMAIN batch |-> Normalize(batch[i])]

ClusterAlerts ==
    /\ phase = "start"
    /\ candidates' = IF Alone THEN <<ToCandidate(NewCluster(Alerts[1]), 0)>>
                     ELSE Cluster(Alerts)
    /\ phase' = CASE batch # <<>> -> "triage"
                  [] batch = <<>> /\ use = "pipeline" -> "finish"
                  [] OTHER -> "failed"
    /\ UNCHANGED <<run, current, call, outcome>>

NextCandidate ==
    /\ current' = current + 1
    /\ phase' = IF current = Len(candidates) THEN "finish" ELSE "triage"

\* Assets, enrichment, the local result; without a client that is the result.
StartTriage ==
    /\ phase = "triage"
    /\ IF use = "evaluation" /\ EnrichmentRaises(IndicatorsOf(Candidate))
         THEN phase' = "failed" /\ UNCHANGED call
         ELSE /\ fallback' = LocalResult(Candidate)
              /\ IF engine = "local"
                   THEN /\ phase' = "decided" /\ result' = LocalResult(Candidate)
                        /\ UNCHANGED <<asked, tried>>
                   ELSE /\ phase' = "asked" /\ asked' = 1 /\ tried' = 1
                        /\ UNCHANGED result
              /\ answer' = NoAnswer
    /\ UNCHANGED <<run, candidates, current, outcome>>

\* The client decides from the text of its error, which quotes the body.
ModelRetries(e) ==
    \/ e.kind \in {"network", "timeout"}
    \/ e.kind = "http" /\ (e.marked \/ e.code \in {408, 409, 425, 429, 500, 502, 503, 504})

AskAgain(e) ==
    /\ phase = "asked" /\ tried <= MaxRetries /\ ModelRetries(e)
    /\ tried' = tried + 1
    /\ UNCHANGED <<run, phase, candidates, current, fallback, asked, result, answer, outcome>>

AlwaysFallsBack == TRUE

\* The evaluation builds its engine so that a failed call is no local score.
AllowsFallback == use = "pipeline"

FallbackOrRaise ==
    /\ IF AllowsFallback THEN phase' = "decided" /\ result' = fallback
                         ELSE phase' = "failed" /\ UNCHANGED result
    /\ UNCHANGED <<run, candidates, current, fallback, asked, tried, answer, outcome>>

\* A failure of the client is final here, whatever number of tries is left.
ModelFails(e) ==
    /\ phase = "asked" /\ (tried > MaxRetries \/ ~ModelRetries(e))
    /\ FallbackOrRaise

\* No choices, no message, or no text in the completion.
CompletionEmpty == phase = "asked" /\ FallbackOrRaise

\* Text that is no JSON object or has no readable score: worth another try.
AnswerUnusable ==
    /\ phase = "asked"
    /\ \/ /\ asked < JsonAttempts
          /\ asked' = asked + 1 /\ tried' = 1
          /\ UNCHANGED <<run, phase, candidates, current, fallback, result, answer, outcome>>
       \/ asked = JsonAttempts /\ FallbackOrRaise

\* A score is clamped, an action with no known name follows from the score.
ParseScore(score) == Clamp(score)
ParseAction(action, score) == IF action = "other" THEN SuggestedAction(score) ELSE action

ResultOf(a) ==
    [target |-> Candidate.id, score |-> ParseScore(a.score),
     action |-> ParseAction(a.action, ParseScore(a.score)),
     source |-> "llm", providers |-> fallback.providers]

AnswerUsable(a) ==
    /\ phase = "asked"
    /\ result' = ResultOf(a) /\ answer' = a /\ phase' = "decided"
    /\ UNCHANGED <<run, candidates, current, fallback, asked, tried, outcome>>

\* Anything but an OpenRouterError: the candidate, or the evaluation, is lost.
ModelBreaks ==
    /\ phase = "asked"
    /\ IF use = "pipeline" THEN NextCandidate
       ELSE phase' = "failed" /\ UNCHANGED current
    /\ UNCHANGED <<run, candidates, call, outcome>>

\* The notification is made of the result, so its subject has the suggestion.
\* It goes to each channel, whatever becomes of the others.
NoticeOf(r) ==
    [target |-> r.target, action |-> r.action, source |-> r.source, to |-> Channels]

Decide ==
    /\ phase = "decided"
    /\ LET action == IF use = "pipeline" THEN RoutedAction(result.score) ELSE result.action
       IN items' = Append(items, [candidate |-> Candidate, result |-> result,
                                  action |-> action, answer |-> answer])
    /\ notices' = IF use = "pipeline" THEN Append(notices, NoticeOf(result)) ELSE notices
    /\ NextCandidate
    /\ UNCHANGED <<run, candidates, call, incidents, measured>>

Qualifies(item) == item.result.score >= PromoteAt \/ item.action = "page_now"

Promote ==
    /\ phase = "finish" /\ use = "pipeline"
    /\ incidents' = Group(items, {i \in DOMAIN items : Qualifies(items[i])})
    /\ phase' = "done"
    /\ UNCHANGED <<run, candidates, current, call, items, notices, measured>>

\* A case that became several candidates is scored on its worst.
Measure ==
    /\ phase = "finish" /\ use = "evaluation"
    /\ LET worst == Max({i.result.score : i \in ToSet(items)})
           first == Min({i \in DOMAIN items : items[i].result.score = worst})
       IN measured' = [score |-> worst, action |-> items[first].action]
    /\ phase' = "done"
    /\ UNCHANGED <<run, candidates, current, call, items, notices, incidents>>

Terminated == phase \in {"done", "failed"} /\ UNCHANGED vars

Next ==
    \/ ClusterAlerts \/ StartTriage
    \/ \E e \in ModelErrors : AskAgain(e) \/ ModelFails(e)
    \/ CompletionEmpty \/ AnswerUnusable \/ ModelBreaks
    \/ \E s \in ModelScores, x \in ModelActions : AnswerUsable([score |-> s, action |-> x])
    \/ Decide \/ Promote \/ Measure \/ Terminated

Spec == Init /\ [][Next]_vars

(* ---- properties ---- *)

Owners(a) == {i \in DOMAIN candidates : a \in ToSet(candidates[i].alerts)}

\* Every alert is in exactly one candidate, and no candidate is longer than its
\* limit; each of its alerts but the first shares an entity with one before it,
\* and the next one with a time comes within the window of it (clustering.py:134).
PartitionInTime ==
    phase # "start" =>
        /\ \A a \in ToSet(Alerts) : Cardinality(Owners(a)) = 1
        /\ \A c \in ToSet(candidates) :
               /\ Len(c.alerts) <= MaxAlerts
               /\ \A n \in 2 .. Len(c.alerts) : SharedEntity =>
                      \E m \in 1 .. n - 1 : ~Disjoint(AlertEntities(c.alerts[m]),
                                                     AlertEntities(c.alerts[n]))
               /\ \A n \in 2 .. Len(c.alerts) :
                      c.alerts[n - 1].time # NoNumber =>
                          c.alerts[n].time - c.alerts[n - 1].time <= AlertWindow

\* The same alerts make the same candidates, ids included, in whatever order
\* the source returned them (clustering.py:6 calls the clusters deterministic).
OrderIrrelevant ==
    phase = "triage" /\ current = 1 /\ ~Alone =>
        candidates = Cluster(SetToSeq(ToSet(Alerts)))

IncidentsOf(item) ==
    {i \in DOMAIN incidents : item \in ToSet(incidents[i].items)}

\* What was paged is in exactly one incident, and without a model nothing that
\* is critical is decided on otherwise, however often it fires (triage.py:668).
CriticalReachesIncident ==
    phase = "done" /\ use = "pipeline" =>
        \A item \in ToSet(items) :
            /\ item.action = "page_now" => Cardinality(IncidentsOf(item)) = 1
            /\ /\ item.result.source = "local"
               /\ \E a \in ToSet(item.candidate.alerts) : a.severity = "critical"
               => item.action = "page_now"

\* Firewall activity alone stays below the promotion bar (PLAN.md:376), as long
\* as neither intelligence nor the inventory speaks against it.
FirewallAloneStaysBelow ==
    \A i \in DOMAIN incidents : \A item \in ToSet(incidents[i].items) :
        /\ item.result.source = "local"
        /\ \A a \in ToSet(item.candidate.alerts) : a.source = "openbsd_pf"
        => \/ verdict \in {"malicious", "suspicious"}
           \/ AssetOf(item.candidate).criticality \in {"critical", "high"}

\* A result is labelled with where its score is from: a model's is the score it
\* gave, a local one the one it would have had without a model, also after the
\* model has failed (triage.py:386). An evaluation of a model never measures
\* local scores (run_eval.py:192), and notifications name the same source.
SourceTrue ==
    \A n \in DOMAIN items :
        LET r == items[n].result
        IN /\ r.source = "llm" => r.score = Clamp(items[n].answer.score)
           /\ r.source = "local" =>
                 /\ r.score = LocalScore(items[n].candidate)
                 /\ use = "evaluation" => engine = "local"
           /\ use = "pipeline" => notices[n].source = r.source
=============================================================================
