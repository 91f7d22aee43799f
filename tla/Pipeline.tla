------------------------------ MODULE Pipeline ------------------------------
(***************************************************************************)
(* soc/pipeline.py: one run of SOCPipeline.run_events after another, over  *)
(* the SQLite tables of soc/store.py and the keys of soc/dedup.py, and the *)
(* analyst who records verdicts on the review queue.                       *)
(*                                                                         *)
(* Every call of the store is one transaction, with its foreign keys and   *)
(* cascades; a run may be killed, or a call may raise, between any two.    *)
(* Clustering is by shared entity within one time window, and triage, with *)
(* or without a model, is a choice of score.                               *)
(***************************************************************************)
EXTENDS Integers, Sequences, FiniteSets, FiniteSetsExt

CONSTANTS
    Procs,          \* pipelines that share the database
    Events,         \* raw events, numbered in the order a source yields them
    AlertIds,       \* ids of normalized alerts, in time order
    AlertOf,        \* the alert a raw event normalizes to, or Unusable
    Unusable,       \* an event the normalizer rejects
    Entity,         \* the entity an alert is clustered by
    Batches,        \* the sets of events a source may return to one run
    Scores,         \* scores triage may give
    PageAt,         \* page_threshold
    QueueAt,        \* queue_threshold
    PromoteAt,      \* min_score of incident promotion
    FailFast,       \* --fail-fast
    Faults,         \* which of "store", "dedup", "component", "report",
                    \* "crash" may happen
    MaxFaults,      \* bound on the faults of a behaviour
    MaxExpiries     \* bound on the times all dedup keys reach their TTL

VARIABLES
    dedup,          \* unexpired rows of dedup_keys
    rawEvents,      \* the raw_events table
    alerts,         \* the alerts table: the raw_event_id of each row
    candidates,     \* the incident_candidates table
    links,          \* the candidate_alerts table
    triages,        \* the triage_results table
    routings,       \* the routing_decisions table
    queue,          \* the analyst_queue table
    reviewed,       \* rows of it with a verdict
    incidents,      \* the incidents table, with its candidate links
    run,            \* the run each process is in
    faults, expiries,
    \* What has happened so far, for the properties only:
    happened,       \* kinds of faults there have been
    resaved,        \* alerts whose row has been replaced by a new one
    decided         \* decisions delivered per alert

tables == <<rawEvents, alerts, candidates, links, triages, routings, queue,
            reviewed, incidents>>
bounds == <<faults, expiries, happened, resaved>>
vars == <<dedup, tables, run, bounds, decided>>

\* A stored key is of a raw event or of an alert.
Key == ({"raw"} \X Events) \cup ({"alert"} \X AlertIds)

\* The ids hash what they are made of: a candidate its alerts, with its place
\* in the run; a triage result its target and score; an incident likewise.
Candidate == [index : 1 .. Cardinality(AlertIds), alerts : SUBSET AlertIds]
Triage == [target : Candidate, score : Scores]
Incident == [index : 1 .. Cardinality(AlertIds), members : SUBSET Candidate]

NoRow == 0
NoScore == 0

Run == [pc : {"idle", "checkRaw", "markRaw", "saveRaw", "checkAlert",
              "markAlert", "saveAlert", "saveCandidate", "triage",
              "saveTriage", "saveRouting", "enqueue", "report", "promote"},
        todo : SUBSET Events,        \* events of the batch still to take
        accepted : SUBSET AlertIds,  \* accepted_alerts
        work : Seq(Candidate),       \* candidates still to process
        score : Scores \cup {NoScore},
        items : Seq(Triage),         \* item_results
        due : Seq(Incident)]         \* promoted incidents still to save
IdleRun == [pc |-> "idle", todo |-> {}, accepted |-> {}, work |-> <<>>,
            score |-> NoScore, items |-> <<>>, due |-> <<>>]

ASSUME PipelineConstants ==
    /\ Events \subseteq Nat \ {0} /\ AlertIds \subseteq Nat \ {0}
    /\ IsFiniteSet(AlertIds)
    /\ Unusable \notin AlertIds
    /\ AlertOf \in [Events -> AlertIds \cup {Unusable}]
    /\ Batches \subseteq SUBSET Events
    /\ Scores \subseteq 1 .. 10
    /\ QueueAt \in 1 .. 10 /\ PageAt \in QueueAt .. 10 /\ PromoteAt \in 1 .. 10
    /\ FailFast \in BOOLEAN
    /\ MaxFaults \in Nat /\ MaxExpiries \in Nat

-----------------------------------------------------------------------------
(* The pure part.                                                          *)

\* action_from_score
ActionFor(score) == IF score >= PageAt THEN "page_now"
                    ELSE IF score >= QueueAt THEN "queue_review"
                    ELSE "mark_likely_benign"

\* The place of a in the increasing order of the numbers in S.
Place(a, S) == Cardinality({b \in S : b <= a})

\* AlertClusterer.cluster: the clusters in the order of their first alerts.
FirstsOf(accepted) ==
    {a \in accepted : \A b \in accepted : Entity[b] = Entity[a] => a <= b}
ClustersOf(accepted) ==
    [i \in 1 .. Cardinality(FirstsOf(accepted)) |->
        [index |-> i,
         alerts |-> {b \in accepted : \E a \in FirstsOf(accepted) :
                         Place(a, FirstsOf(accepted)) = i /\ Entity[b] = Entity[a]}]]

\* IncidentPromoter.promote: what qualifies.  Candidates of one run share no
\* entity here, so each incident has one member.
Qualifies(t) == t.score >= PromoteAt \/ ActionFor(t.score) = "page_now"
QualifyingOf(items) == {i \in DOMAIN items : Qualifies(items[i])}
IncidentsOf(items) ==
    [n \in 1 .. Cardinality(QualifyingOf(items)) |->
        [index |-> n,
         members |-> {items[i].target :
             i \in {j \in QualifyingOf(items) : Place(j, QualifyingOf(items)) = n}}]]

-----------------------------------------------------------------------------
Init ==
    /\ dedup = {} /\ rawEvents = {}
    /\ alerts = [a \in AlertIds |-> NoRow]
    /\ candidates = {} /\ links = {} /\ triages = {} /\ routings = {}
    /\ queue = {} /\ reviewed = {} /\ incidents = {}
    /\ run = [p \in Procs |-> IdleRun]
    /\ faults = 0 /\ expiries = 0 /\ happened = {} /\ resaved = {}
    /\ decided = [a \in AlertIds |-> 0]

Idle(p) == run[p].pc = "idle"
At(p, pc) == run[p].pc = pc
Goes(p, state) == run' = [run EXCEPT ![p] = state]
Moves(p, pc) == Goes(p, [run[p] EXCEPT !.pc = pc])

Current(p) == Min(run[p].todo)
CurrentAlert(p) == AlertOf[Current(p)]
CurrentCandidate(p) == Head(run[p].work)
CurrentTriage(p) == [target |-> CurrentCandidate(p), score |-> run[p].score]

\* Where a run goes after an event, after a candidate, and after its last.
AfterEvent(r) == [r EXCEPT !.todo = @ \ {Min(@)}, !.pc = "checkRaw"]
Accepting(r, a) == AfterEvent([r EXCEPT !.accepted = @ \cup {a}])
AfterCandidate(r) ==
    LET rest == [r EXCEPT !.work = Tail(@), !.score = NoScore]
    IN  IF rest.work # <<>> THEN [rest EXCEPT !.pc = "saveCandidate"]
        ELSE IF IncidentsOf(rest.items) = <<>> THEN IdleRun
        ELSE [rest EXCEPT !.pc = "promote", !.due = IncidentsOf(rest.items)]

\* Where a run continues when the call it is at raises: _handle_error either
\* collects the message, and what follows the call is done without it, or
\* ends the run.
Continued(r) ==
    CASE r.pc \in {"checkRaw", "markRaw"}     -> [r EXCEPT !.pc = "saveRaw"]
      [] r.pc = "saveRaw"                     -> [r EXCEPT !.pc = "checkAlert"]
      [] r.pc \in {"checkAlert", "markAlert"} -> [r EXCEPT !.pc = "saveAlert"]
      [] r.pc = "saveAlert"     -> Accepting(r, AlertOf[Min(r.todo)])
      [] r.pc = "saveCandidate" -> [r EXCEPT !.pc = "triage"]
      [] r.pc = "saveTriage"    -> [r EXCEPT !.pc = "saveRouting"]
      [] r.pc = "saveRouting"   ->
            [r EXCEPT !.pc = IF ActionFor(r.score) = "queue_review"
                             THEN "enqueue" ELSE "report"]
      [] r.pc = "enqueue"       -> [r EXCEPT !.pc = "report"]
      [] r.pc = "promote"       ->
            IF Len(r.due) = 1 THEN IdleRun ELSE [r EXCEPT !.due = Tail(@)]
HandleError(p) ==
    Goes(p, IF FailFast THEN IdleRun ELSE Continued(run[p]))

(* ---- intake: one event after another ---- *)

\* A source returns a batch and run_events starts on it.
Start(p, batch) ==
    /\ Idle(p)
    /\ Goes(p, [IdleRun EXCEPT !.pc = "checkRaw", !.todo = batch])
    /\ UNCHANGED <<dedup, tables, bounds, decided>>

\* _should_skip_raw_event: the check, then the mark, are two transactions.
CheckRaw(p) ==
    /\ At(p, "checkRaw") /\ run[p].todo # {}
    /\ IF <<"raw", Current(p)>> \in dedup THEN Goes(p, AfterEvent(run[p]))
                                          ELSE Moves(p, "markRaw")
    /\ UNCHANGED <<dedup, tables, bounds, decided>>

MarkRaw(p) ==
    /\ At(p, "markRaw")
    /\ dedup' = dedup \cup {<<"raw", Current(p)>>}
    /\ Moves(p, "saveRaw")
    /\ UNCHANGED <<tables, bounds, decided>>

SaveRaw(p) ==
    /\ At(p, "saveRaw")
    /\ rawEvents' = rawEvents \cup {Current(p)}
    /\ Moves(p, "checkAlert")
    /\ UNCHANGED <<dedup, alerts, candidates, links, triages, routings, queue,
                   reviewed, incidents, bounds, decided>>

\* The event is normalized, and an alert already seen is skipped.
CheckAlert(p) ==
    /\ At(p, "checkAlert")
    /\ IF CurrentAlert(p) = Unusable
         THEN Goes(p, IF FailFast THEN IdleRun ELSE AfterEvent(run[p]))
         ELSE IF <<"alert", CurrentAlert(p)>> \in dedup
                THEN Goes(p, AfterEvent(run[p]))
                ELSE Moves(p, "markAlert")
    /\ UNCHANGED <<dedup, tables, bounds, decided>>

\* Mutants are named for the mistake they make.
MarkOmitted(p) ==
    /\ At(p, "markAlert")
    /\ Moves(p, "saveAlert")
    /\ UNCHANGED <<dedup, tables, bounds, decided>>

MarkAlert(p) ==
    /\ At(p, "markAlert")
    /\ dedup' = dedup \cup {<<"alert", CurrentAlert(p)>>}
    /\ Moves(p, "saveAlert")
    /\ UNCHANGED <<tables, bounds, decided>>

ErrorSkipsAlert(p) ==
    /\ At(p, "saveAlert")
    /\ IF Current(p) \in rawEvents
         THEN /\ alerts' = [alerts EXCEPT ![CurrentAlert(p)] = Current(p)]
              /\ links' = {l \in links : l[2] # CurrentAlert(p)}
              /\ Goes(p, Accepting(run[p], CurrentAlert(p)))
         ELSE /\ Goes(p, AfterEvent(run[p]))
              /\ UNCHANGED <<alerts, links>>
    /\ UNCHANGED <<dedup, rawEvents, candidates, triages, routings, queue,
                   reviewed, incidents, bounds, decided>>

\* save_alert: INSERT OR REPLACE deletes the row it replaces, and with it, by
\* ON DELETE CASCADE, the alert's links to every candidate.  Without its raw
\* event the foreign key fails.
SaveAlert(p) ==
    /\ At(p, "saveAlert")
    /\ IF Current(p) \in rawEvents
         THEN /\ alerts' = [alerts EXCEPT ![CurrentAlert(p)] = Current(p)]
              /\ links' = {l \in links : l[2] # CurrentAlert(p)}
              /\ resaved' = IF alerts[CurrentAlert(p)] = NoRow THEN resaved
                            ELSE resaved \cup {CurrentAlert(p)}
              /\ Goes(p, Accepting(run[p], CurrentAlert(p)))
         ELSE /\ HandleError(p)
              /\ UNCHANGED <<alerts, links, resaved>>
    /\ UNCHANGED <<dedup, rawEvents, candidates, triages, routings, queue,
                   reviewed, incidents, faults, expiries, happened, decided>>

Cluster(p) ==
    /\ At(p, "checkRaw") /\ run[p].todo = {}
    /\ Goes(p, IF run[p].accepted = {} THEN IdleRun
               ELSE [IdleRun EXCEPT !.pc = "saveCandidate",
                         !.work = ClustersOf(run[p].accepted)])
    /\ UNCHANGED <<dedup, tables, bounds, decided>>

(* ---- _process_candidate ---- *)

LinksOnlyWhenNew(p) ==
    LET c == CurrentCandidate(p) IN
    /\ At(p, "saveCandidate")
    /\ IF \A a \in c.alerts : alerts[a] # NoRow
         THEN /\ candidates' = candidates \cup {c}
              /\ links' = IF c \in candidates THEN links
                                             ELSE links \cup ({c} \X c.alerts)
              /\ Moves(p, "triage")
         ELSE /\ HandleError(p)
              /\ UNCHANGED <<candidates, links>>
    /\ UNCHANGED <<dedup, rawEvents, alerts, triages, routings, queue,
                   reviewed, incidents, bounds, decided>>

\* save_incident_candidate: the row and all its links, in one transaction.
SaveCandidate(p) ==
    LET c == CurrentCandidate(p) IN
    /\ At(p, "saveCandidate")
    /\ IF \A a \in c.alerts : alerts[a] # NoRow
         THEN /\ candidates' = candidates \cup {c}
              /\ links' = links \cup ({c} \X c.alerts)
              /\ Moves(p, "triage")
         ELSE /\ HandleError(p)
              /\ UNCHANGED <<candidates, links>>
    /\ UNCHANGED <<dedup, rawEvents, alerts, triages, routings, queue,
                   reviewed, incidents, bounds, decided>>

\* Enrichment, whose failures are collected, then triage.
TriageCandidate(p, score) ==
    /\ At(p, "triage")
    /\ Goes(p, [run[p] EXCEPT !.pc = "saveTriage", !.score = score])
    /\ UNCHANGED <<dedup, tables, bounds, decided>>

SaveTriage(p) ==
    /\ At(p, "saveTriage")
    /\ triages' = triages \cup {CurrentTriage(p)}
    /\ Moves(p, "saveRouting")
    /\ UNCHANGED <<dedup, rawEvents, alerts, candidates, links, routings,
                   queue, reviewed, incidents, bounds, decided>>

ForeignKeyIgnored(p) ==
    /\ At(p, "saveRouting")
    /\ routings' = routings \cup {CurrentTriage(p)}
    /\ Goes(p, Continued(run[p]))
    /\ UNCHANGED <<dedup, rawEvents, alerts, candidates, links, triages,
                   queue, reviewed, incidents, bounds, decided>>

\* Routing needs its triage result stored; only queue_review is queued.
SaveRouting(p) ==
    /\ At(p, "saveRouting")
    /\ IF CurrentTriage(p) \in triages
         THEN /\ routings' = routings \cup {CurrentTriage(p)}
              /\ Goes(p, Continued(run[p]))
         ELSE /\ HandleError(p)
              /\ UNCHANGED routings
    /\ UNCHANGED <<dedup, rawEvents, alerts, candidates, links, triages,
                   queue, reviewed, incidents, bounds, decided>>

RequeueReplaces(p) ==
    /\ At(p, "enqueue")
    /\ queue' = queue \cup {CurrentTriage(p)}
    /\ reviewed' = reviewed \ {CurrentTriage(p)}
    /\ Moves(p, "report")
    /\ UNCHANGED <<dedup, rawEvents, alerts, candidates, links, triages,
                   routings, incidents, bounds, decided>>

\* enqueue_for_review: ON CONFLICT DO NOTHING.
Enqueue(p) ==
    /\ At(p, "enqueue")
    /\ IF CurrentTriage(p) \in triages
         THEN /\ queue' = queue \cup {CurrentTriage(p)}
              /\ Moves(p, "report")
         ELSE /\ HandleError(p)
              /\ UNCHANGED queue
    /\ UNCHANGED <<dedup, rawEvents, alerts, candidates, links, triages,
                   routings, reviewed, incidents, bounds, decided>>

\* At most 2 is enough to tell "once" from "more than once".
Delivered(batch) ==
    decided' = [a \in AlertIds |->
                   IF a \in batch /\ decided[a] < 2 THEN decided[a] + 1
                                                    ELSE decided[a]]

\* The report is built and written and the notification sent: the decision
\* has been delivered.
Report(p) ==
    /\ At(p, "report")
    /\ Delivered(CurrentCandidate(p).alerts)
    /\ Goes(p, AfterCandidate(
                   [run[p] EXCEPT !.items = Append(@, CurrentTriage(p))]))
    /\ UNCHANGED <<dedup, tables, bounds>>

SaveIncident(p) ==
    /\ At(p, "promote")
    /\ incidents' = incidents \cup {Head(run[p].due)}
    /\ Goes(p, Continued(run[p]))
    /\ UNCHANGED <<dedup, rawEvents, alerts, candidates, links, triages,
                   routings, queue, reviewed, bounds, decided>>

(* ---- what may go wrong ---- *)

Fault(kind) ==
    /\ kind \in Faults
    /\ faults < MaxFaults
    /\ faults' = faults + 1
    /\ happened' = happened \cup {kind}
    /\ UNCHANGED <<dedup, tables, expiries, resaved, decided>>

StoreFails(p) ==
    /\ Fault("store")
    /\ run[p].pc \in {"saveRaw", "saveAlert", "saveCandidate", "saveTriage",
                      "saveRouting", "enqueue", "promote"}
    /\ HandleError(p)

DedupFails(p) ==
    /\ Fault("dedup")
    /\ \/ At(p, "checkRaw") /\ run[p].todo # {}
       \/ At(p, "markRaw") \/ At(p, "markAlert")
       \/ At(p, "checkAlert") /\ CurrentAlert(p) # Unusable
    /\ HandleError(p)

\* Clustering, triage or routing raises: no candidates, or not this one.
ComponentFails(p) ==
    /\ Fault("component")
    /\ \/ /\ At(p, "checkRaw") /\ run[p].todo = {}
          /\ Goes(p, IdleRun)
       \/ /\ At(p, "triage") \/ At(p, "saveRouting")
          /\ Goes(p, IF FailFast THEN IdleRun ELSE AfterCandidate(run[p]))

\* build_candidate_report is called outside of every try.
ReportRaises(p) ==
    /\ Fault("report")
    /\ At(p, "report")
    /\ Goes(p, IdleRun)

Crash(p) ==
    /\ Fault("crash")
    /\ ~Idle(p)
    /\ Goes(p, IdleRun)

\* The time to live of every key passes between two runs.
KeysExpire ==
    /\ expiries < MaxExpiries
    /\ \A p \in Procs : Idle(p)
    /\ dedup # {}
    /\ dedup' = {}
    /\ expiries' = expiries + 1
    /\ UNCHANGED <<tables, run, faults, happened, resaved, decided>>

(* ---- the analyst ---- *)

\* record_analyst_verdict, of an open item or again of a closed one
Review(t) ==
    /\ t \in queue
    /\ reviewed' = reviewed \cup {t}
    /\ UNCHANGED <<dedup, rawEvents, alerts, candidates, links, triages,
                   routings, queue, incidents, run, bounds, decided>>

-----------------------------------------------------------------------------
Step(p) ==
    \/ CheckRaw(p) \/ MarkRaw(p) \/ SaveRaw(p)
    \/ CheckAlert(p) \/ MarkAlert(p) \/ SaveAlert(p)
    \/ Cluster(p) \/ SaveCandidate(p)
    \/ \E score \in Scores : TriageCandidate(p, score)
    \/ SaveTriage(p) \/ SaveRouting(p) \/ Enqueue(p) \/ Report(p)
    \/ SaveIncident(p)

Failure(p) == StoreFails(p) \/ DedupFails(p) \/ ComponentFails(p)
                  \/ ReportRaises(p) \/ Crash(p)

Next ==
    \/ \E p \in Procs :
           \/ \E batch \in Batches : Start(p, batch)
           \/ Step(p)
           \/ Failure(p)
    \/ KeysExpire
    \/ \E t \in queue : Review(t)

\* A run that was started goes on; nothing else is assumed.
Spec == Init /\ [][Next]_vars /\ \A p \in Procs : WF_vars(Step(p))

-----------------------------------------------------------------------------
TypeOK ==
    /\ dedup \subseteq Key
    /\ rawEvents \subseteq Events
    /\ alerts \in [AlertIds -> Events \cup {NoRow}]
    /\ candidates \subseteq Candidate
    /\ links \subseteq candidates \X {a \in AlertIds : alerts[a] # NoRow}
    /\ triages \subseteq Triage /\ routings \subseteq triages
    /\ queue \subseteq triages /\ reviewed \subseteq queue
    /\ incidents \subseteq Incident
    /\ run \in [Procs -> Run]
    /\ faults \in 0 .. MaxFaults /\ happened \subseteq Faults
    /\ expiries \in 0 .. MaxExpiries /\ resaved \subseteq AlertIds
    /\ decided \in [AlertIds -> 0 .. 2]

Quiet == \A p \in Procs : Idle(p)

\* soc/dedup.py describes marking an alert as seen after processing it, so that
\* whatever is marked, and skipped from then on, has been decided on.
SeenMeansDecided ==
    Quiet => \A e \in Events :
        <<"raw", e>> \in dedup /\ AlertOf[e] # Unusable
            => decided[AlertOf[e]] > 0

\* A run or a candidate has ended before its last step.
CutShort == FailFast \/ happened \cap {"crash", "report", "component"} # {}

\* The mark, which makes every later run skip the event, never outlives the
\* work it stands for because of a call of the store or of the dedup service
\* that failed: no row that is missing, and no foreign key that therefore
\* fails, keeps an alert from being decided on.
NothingLost == CutShort \/ SeenMeansDecided

\* An alert that was taken is decided on in the end, although calls of the
\* store fail on the way: errors are collected and the run goes on.
TakenIsDecided ==
    \A a \in AlertIds :
        <<"alert", a>> \in dedup ~> (decided[a] > 0 \/ CutShort)

\* The alerts taken and decided on are a ledger: none is decided on twice or
\* without having been taken, wherever a run is killed or fails.
Ledger == INSTANCE AlertLedger WITH
    Alerts <- AlertIds,
    taken <- {a \in AlertIds : <<"alert", a>> \in dedup}
ImplementsLedger == Ledger!LedgerSpec

\* list_raw_events_for_target finds the raw event of every alert behind each
\* queued decision, so that a reviewed decision can become a labelled case.  As
\* long as no call of the store has failed, a decision loses only links to
\* alerts that a later run has saved again; and such an alert, unless a run was
\* cut short, is linked to the candidate it was last put in.
EvidenceComplete ==
    Quiet /\ "store" \notin happened => \A t \in queue : \A a \in t.target.alerts :
        /\ alerts[a] \in rawEvents
        /\ \/ <<t.target, a>> \in links
           \/ a \in resaved /\ (CutShort \/ \E c \in candidates : <<c, a>> \in links)

\* A rerun never reopens an item of the queue that has a verdict.
VerdictKept == [][reviewed \subseteq reviewed']_vars
=============================================================================
