---------------------------- MODULE LedgerProofs ----------------------------
(***************************************************************************)
(* Proofs about Pipeline for any events, batches, scores and faults.  When *)
(* one pipeline has the database to itself, its keys do not expire and the *)
(* dedup service answers, it implements the ledger of AlertLedger.  And    *)
(* whatever is saved again, the evidence behind a decision is accounted    *)
(* for as long as no call of the store fails.                              *)
(***************************************************************************)
EXTENDS PipelineProofs

\* Without these the ledger is not kept: two pipelines may both find an alert
\* unmarked, and an alert whose mark expired or failed is taken again.
Alone ==
    /\ \A p, q \in Procs : p = q
    /\ MaxExpiries = 0
    /\ "dedup" \notin Faults

Marked(a) == <<"alert", a>> \in dedup

\* Where a run may decide once on each alert in its hands.
Owed(a) == Marked(a) /\ decided[a] = 0
LedgerKept(p) ==
    /\ run[p].pc = "markAlert" => ~Marked(CurrentAlert(p))
    /\ run[p].pc = "saveAlert" => Owed(CurrentAlert(p))
    /\ \A a \in run[p].accepted : Owed(a)
    /\ \A i \in 1 .. Len(run[p].work) : \A a \in run[p].work[i].alerts : Owed(a)
    /\ \A i, j \in 1 .. Len(run[p].work) :
           i # j => run[p].work[i].alerts \cap run[p].work[j].alerts = {}
LedgerInv ==
    /\ \A a \in AlertIds : decided[a] # 0 => Marked(a)
    /\ \A p \in Procs : LedgerKept(p)

\* The raw event of the alert is stored.
Traced(a) == alerts[a] # NoRow /\ alerts[a] \in rawEvents

\* What list_raw_events_for_target needs, unless the alert was saved again.
Evident(c, a) == Traced(a) /\ (<<c, a>> \in links \/ a \in resaved)
EvidenceHeld(p) ==
    /\ run[p].pc \in {"checkAlert", "markAlert", "saveAlert"} => Current(p) \in rawEvents
    /\ \A a \in run[p].accepted : Traced(a)
    /\ \A i \in 1 .. Len(run[p].work) : \A a \in run[p].work[i].alerts : Traced(a)
    /\ run[p].pc \in {"triage"} \cup Scored =>
           \A a \in CurrentCandidate(p).alerts : Evident(CurrentCandidate(p), a)

\* A run that is about to link the alert a to a candidate.
Pending(r, a) ==
    \/ a \in r.accepted
    \/ \E i \in 1 .. Len(r.work) :
           a \in r.work[i].alerts /\ (i > 1 \/ r.pc = "saveCandidate")
Linked(a) == \E c \in candidates : <<c, a>> \in links
Covered(a) == alerts[a] # NoRow => Linked(a) \/ \E p \in Procs : Pending(run[p], a)
EvidenceInv ==
    "store" \notin happened =>
         /\ \A p \in Procs : EvidenceHeld(p)
         /\ \A t \in queue : \A a \in t.target.alerts : Evident(t.target, a)
         /\ CutShort \/ \A a \in AlertIds : Covered(a)

-----------------------------------------------------------------------------
(* Where a run goes.                                                       *)

\* What one step of a run may do with the alerts in its hands.
Follows(r, s) ==
    /\ \/ s.accepted \subseteq r.accepted
       \/ /\ r.pc = "saveAlert"
          /\ s.accepted = r.accepted \cup {AlertOf[Min(r.todo)]}
    /\ \/ s.work \in {r.work, <<>>}
       \/ r.work # <<>> /\ s.work = Tail(r.work)
       \/ s.work = ClustersOf(r.accepted)
    /\ s.pc \in {"checkAlert", "markAlert", "saveAlert"} => s.todo = r.todo
    /\ s.pc = "checkAlert" => r.pc = "saveRaw"
    /\ s.pc = "markAlert" => r.pc = "checkAlert"
    /\ s.pc = "saveAlert" =>
           r.pc = "markAlert" \/ (r.pc = "checkAlert" /\ "dedup" \in Faults)
    /\ s.pc \in {"triage"} \cup Scored => s.work = r.work
    /\ s.pc = "triage" => r.pc = "saveCandidate"
    /\ s.pc \in Scored => r.pc \in {"triage"} \cup Scored

LEMMA IdleFollows ==
  ASSUME NEW r PROVE Follows(r, IdleRun)
BY DEF Follows, IdleRun, Scored

LEMMA EventFollows ==
  ASSUME PipelineConstants, NEW r \in Run, Shape(r), r.pc \in Intake
  PROVE  /\ Follows(r, AfterEvent(r))
         /\ r.pc = "saveAlert" => Follows(r, Accepting(r, AlertOf[Min(r.todo)]))
<1>1. Follows(r, AfterEvent(r))
  BY AfterEventShape DEF Follows, Scored
<1>2. ASSUME r.pc = "saveAlert"
      PROVE  Follows(r, Accepting(r, AlertOf[Min(r.todo)]))
  <2>. DEFINE s == Accepting(r, AlertOf[Min(r.todo)])
  <2>1. AlertOf[Min(r.todo)] \in AlertIds
    BY <1>2, CurrentEvent DEF Shape, Taking
  <2>2. s.pc = "checkRaw" /\ s.accepted = r.accepted \cup {AlertOf[Min(r.todo)]}
        /\ s.work = r.work
    BY <2>1, AcceptingShape
  <2>. HIDE DEF s
  <2>3. QED
    BY <1>2, <2>2 DEF Follows, Scored, s
<1>3. QED
  BY <1>1, <1>2

LEMMA ErrorFollows ==
  ASSUME PipelineConstants, NEW r \in Run, Shape(r),
         r.pc \in {"saveRaw", "saveAlert", "saveCandidate", "saveTriage",
                   "saveRouting", "enqueue", "promote"}
  PROVE  Follows(r, Continued(r))
<1>1. CASE r.pc = "saveAlert"
  BY <1>1, EventFollows DEF Continued, Intake, Taking
<1>2. CASE r.pc = "promote"
  <2>. DEFINE s == [r EXCEPT !.due = Tail(r.due)]
  <2>1. s.pc = "promote" /\ s.accepted = r.accepted /\ s.work = r.work
    BY <1>2 DEF Run
  <2>2. Continued(r) \in {IdleRun, s}
    BY <1>2 DEF Continued
  <2>. HIDE DEF s
  <2>3. Follows(r, s)
    BY <1>2, <2>1 DEF Follows, Scored
  <2>4. QED
    BY <2>2, <2>3, IdleFollows
<1>3. CASE r.pc \in {"saveRaw", "saveCandidate", "saveTriage", "saveRouting", "enqueue"}
  <2>1. PICK to \in {"checkAlert", "triage", "saveRouting", "enqueue", "report"} :
          /\ Continued(r) = [r EXCEPT !.pc = to]
          /\ to = "checkAlert" <=> r.pc = "saveRaw"
          /\ to = "triage" <=> r.pc = "saveCandidate"
    BY <1>3 DEF Continued
  <2>. DEFINE s == [r EXCEPT !.pc = to]
  <2>2. s.pc = to /\ s.todo = r.todo /\ s.accepted = r.accepted /\ s.work = r.work
    BY DEF Run
  <2>. HIDE DEF s
  <2>3. Follows(r, s)
    BY <1>3, <2>1, <2>2 DEF Follows, Scored
  <2>4. QED
    BY <2>1, <2>3 DEF s
<1>4. QED
  BY <1>1, <1>2, <1>3

LEMMA CandidateFollows ==
  ASSUME PipelineConstants, NEW r \in Run, r.work # <<>>, r.accepted = {},
         NEW s, s.work = r.work, s.accepted = {}, s \in Run,
         Len(s.items) + Len(Tail(s.work)) <= Cardinality(AlertIds)
  PROVE  Follows(r, AfterCandidate(s))
<1>. DEFINE d == AfterCandidate(s)
<1>1. /\ d.pc \in {"saveCandidate", "promote", "idle"}
      /\ d.accepted = {} /\ d.work = Tail(s.work)
  BY AfterCandidateShape
<1>. HIDE DEF d
<1>2. QED
  BY <1>1 DEF Follows, Scored, d

\* A step that moves p along its run.
Moved(p) ==
    \/ \E batch \in Batches : Start(p, batch)
    \/ Step(p)
    \/ Failure(p)

LEMMA MovedFollows ==
  ASSUME PipelineConstants, TypeInv, NEW p \in Procs, Moved(p)
  PROVE  Follows(run[p], run'[p])
<1>. DEFINE r == run[p]
<1>1. r \in Run /\ Shape(r) /\ run \in [Procs -> Run]
  BY DEF TypeInv, TypeOK, Shapes
<1>2. /\ r.pc \in Processing => r.work # <<>> /\ r.accepted = {}
      /\ r.work \in Seq(Candidate) /\ r.items \in Seq(Triage)
  BY <1>1 DEF Shape, Run, Intake, Taking, Processing, Scored
<1>3. ASSUME NEW s, Goes(p, s), Follows(r, s)
      PROVE  Follows(r, run'[p])
  BY <1>1, <1>3 DEF Goes
<1>4. ASSUME NEW to, Moves(p, to),
             to = "checkAlert" => r.pc = "saveRaw",
             to = "markAlert" => r.pc = "checkAlert",
             to = "saveAlert" =>
                 r.pc = "markAlert" \/ (r.pc = "checkAlert" /\ "dedup" \in Faults),
             to = "triage" => r.pc = "saveCandidate",
             to \in Scored => r.pc \in {"triage"} \cup Scored
      PROVE  Follows(r, run'[p])
  <2>. DEFINE s == [r EXCEPT !.pc = to]
  <2>1. s.pc = to /\ s.todo = r.todo /\ s.accepted = r.accepted /\ s.work = r.work
    BY <1>1 DEF Run
  <2>2. Goes(p, s)
    BY <1>4 DEF Moves
  <2>. HIDE DEF s
  <2>3. Follows(r, s)
    BY <1>4, <2>1 DEF Follows, Scored
  <2>4. QED
    BY <1>3, <2>2, <2>3
<1>5. ASSUME HandleError(p),
             r.pc \in {"saveRaw", "saveAlert", "saveCandidate", "saveTriage",
                       "saveRouting", "enqueue", "promote"}
      PROVE  Follows(r, run'[p])
  <2>. HIDE DEF r
  <2>1. Follows(r, Continued(r)) /\ Follows(r, IdleRun)
    BY <1>1, <1>5, ErrorFollows, IdleFollows
  <2>2. QED
    BY <1>3, <1>5, <2>1 DEF HandleError, r
<1>6. CASE \E batch \in Batches : Start(p, batch)
  <2>1. PICK batch \in Batches : Start(p, batch)
    BY <1>6
  <2>. DEFINE s == [IdleRun EXCEPT !.pc = "checkRaw", !.todo = batch]
  <2>2. s.pc = "checkRaw" /\ s.accepted = {} /\ s.work = <<>>
    BY DEF IdleRun
  <2>3. Goes(p, s)
    BY <2>1 DEF Start
  <2>. HIDE DEF s
  <2>4. Follows(r, s)
    BY <2>2 DEF Follows, Scored
  <2>5. QED
    BY <1>3, <2>3, <2>4
<1>7. ASSUME Goes(p, AfterEvent(r)), r.pc \in Intake
      PROVE  Follows(r, run'[p])
  <2>. HIDE DEF r
  <2>1. Follows(r, AfterEvent(r))
    BY <1>1, <1>7, EventFollows
  <2>2. QED
    BY <1>3, <1>7, <2>1
<1>8. CASE CheckRaw(p)
  BY <1>4, <1>7, <1>8 DEF CheckRaw, At, Intake, Scored
<1>9. CASE MarkRaw(p) \/ SaveRaw(p) \/ MarkAlert(p)
  BY <1>4, <1>9 DEF MarkRaw, SaveRaw, MarkAlert, At, Scored
<1>10. CASE CheckAlert(p)
  <2>1. Follows(r, IdleRun)
    BY IdleFollows
  <2>2. r.pc = "checkAlert"
        /\ (Goes(p, IdleRun) \/ Goes(p, AfterEvent(r)) \/ Moves(p, "markAlert"))
    BY <1>10 DEF CheckAlert, At
  <2>3. QED
    BY <1>3, <1>4, <1>7, <2>1, <2>2 DEF Intake, Taking, Scored
<1>11. CASE SaveAlert(p)
  <2>1. r.pc = "saveAlert" /\ (Goes(p, Accepting(r, CurrentAlert(p))) \/ HandleError(p))
    BY <1>11 DEF SaveAlert, At
  <2>2. Follows(r, Accepting(r, CurrentAlert(p)))
    BY <1>1, <2>1, EventFollows DEF Intake, Taking, CurrentAlert, Current
  <2>3. QED
    BY <1>3, <1>5, <2>1, <2>2
<1>12. CASE Cluster(p)
  <2>. DEFINE s == [IdleRun EXCEPT !.pc = "saveCandidate", !.work = ClustersOf(r.accepted)]
  <2>1. Goes(p, IdleRun) \/ Goes(p, s)
    BY <1>12 DEF Cluster
  <2>2. s.pc = "saveCandidate" /\ s.accepted = {} /\ s.work = ClustersOf(r.accepted)
    BY DEF IdleRun
  <2>. HIDE DEF s
  <2>3. Follows(r, s)
    BY <2>2 DEF Follows, Scored
  <2>4. QED
    BY <1>3, <2>1, <2>3, IdleFollows
<1>13. CASE SaveCandidate(p)
  BY <1>4, <1>5, <1>13 DEF SaveCandidate, At, Scored
<1>14. CASE \E score \in Scores : TriageCandidate(p, score)
  <2>1. PICK score \in Scores : TriageCandidate(p, score)
    BY <1>14
  <2>. DEFINE s == [r EXCEPT !.pc = "saveTriage", !.score = score]
  <2>2. r.pc = "triage" /\ Goes(p, s)
    BY <2>1 DEF TriageCandidate, At
  <2>3. s.pc = "saveTriage" /\ s.work = r.work /\ s.accepted = r.accepted
    BY <1>1 DEF Run
  <2>. HIDE DEF s
  <2>4. Follows(r, s)
    BY <2>2, <2>3 DEF Follows, Scored
  <2>5. QED
    BY <1>3, <2>2, <2>4
<1>15. CASE SaveTriage(p)
  BY <1>4, <1>15 DEF SaveTriage, At, Scored
<1>16. CASE SaveRouting(p)
  <2>1. r.pc = "saveRouting" /\ (Goes(p, Continued(r)) \/ HandleError(p))
    BY <1>16 DEF SaveRouting, At
  <2>2. Follows(r, Continued(r))
    BY <1>1, <2>1, ErrorFollows
  <2>3. QED
    BY <1>3, <1>5, <2>1, <2>2
<1>17. CASE Enqueue(p)
  BY <1>4, <1>5, <1>17 DEF Enqueue, At, Scored
<1>18. CASE Report(p)
  <2>. DEFINE t == CurrentTriage(p)
              items == Append(r.items, t)
              s == [r EXCEPT !.items = items]
  <2>1. r.pc = "report" /\ Goes(p, AfterCandidate(s))
    BY <1>18 DEF Report, At
  <2>2. r.work # <<>> /\ r.accepted = {} /\ t \in Triage
    BY <1>2, <2>1, CurrentTyped DEF Processing, Scored
  <2>3. items \in Seq(Triage) /\ Len(items) = Len(r.items) + 1
    BY <1>2, <2>2, AppendProperties
  <2>. HIDE DEF t, items
  <2>4. s \in Run /\ s.work = r.work /\ s.accepted = {} /\ s.items = items
    BY <1>1, <2>2, <2>3 DEF Run
  <2>. HIDE DEF s, r
  <2>5. Len(s.items) + Len(Tail(s.work)) <= Cardinality(AlertIds)
    BY <1>1, <2>2, <2>3, <2>4, RoomLeft
  <2>6. Follows(r, AfterCandidate(s))
    BY <1>1, <2>2, <2>4, <2>5, CandidateFollows
  <2>7. QED
    BY <1>3, <2>1, <2>6 DEF r
<1>19. CASE SaveIncident(p)
  <2>1. r.pc = "promote" /\ Goes(p, Continued(r))
    BY <1>19 DEF SaveIncident, At
  <2>2. Follows(r, Continued(r))
    BY <1>1, <2>1, ErrorFollows
  <2>3. QED
    BY <1>3, <2>1, <2>2
<1>20. CASE StoreFails(p)
  BY <1>5, <1>20 DEF StoreFails
<1>21. CASE ComponentFails(p)
  <2>1. \/ Goes(p, IdleRun)
        \/ r.pc \in {"triage", "saveRouting"} /\ Goes(p, AfterCandidate(r))
    BY <1>21 DEF ComponentFails, At
  <2>2. CASE r.pc \in {"triage", "saveRouting"} /\ Goes(p, AfterCandidate(r))
    <3>1. r.work # <<>> /\ r.accepted = {}
      BY <1>2, <2>2 DEF Processing, Scored
    <3>. HIDE DEF r
    <3>2. Follows(r, AfterCandidate(r))
      BY <1>1, <3>1, RoomLeft, CandidateFollows
    <3>3. QED
      BY <1>3, <2>2, <3>2 DEF r
  <2>3. QED
    BY <1>3, <2>1, <2>2, IdleFollows
<1>22. CASE ReportRaises(p) \/ Crash(p)
  BY <1>3, <1>22, IdleFollows DEF ReportRaises, Crash
<1>23. CASE DedupFails(p)
  <2>1. "dedup" \in Faults
        /\ r.pc \in {"checkRaw", "markRaw", "checkAlert", "markAlert"}
    BY <1>23 DEF DedupFails, Fault, At
  <2>2. PICK to \in {"saveRaw", "saveAlert"} :
          /\ Continued(r) = [r EXCEPT !.pc = to]
          /\ to = "saveAlert" => r.pc \in {"checkAlert", "markAlert"}
    BY <2>1 DEF Continued
  <2>3. Goes(p, IdleRun) \/ Moves(p, to)
    BY <1>23, <2>2 DEF DedupFails, HandleError, Moves
  <2>4. QED
    BY <1>3, <1>4, <2>1, <2>2, <2>3, IdleFollows DEF Scored
<1>24. QED
  BY <1>6, <1>8, <1>9, <1>10, <1>11, <1>12, <1>13, <1>14, <1>15, <1>16, <1>17,
     <1>18, <1>19, <1>20, <1>21, <1>22, <1>23 DEF Moved, Step, Failure

-----------------------------------------------------------------------------
(* The ledger.                                                             *)

\* The report of a candidate decides on it and takes it off the run's hands.
LEMMA ReportCourse ==
  ASSUME PipelineConstants, TypeInv, NEW p \in Procs, Report(p)
  PROVE  LET r == run[p] IN
         /\ r.work \in Seq(Candidate) /\ Len(r.work) \in Nat \ {0}
         /\ r.work[1].alerts \subseteq AlertIds
         /\ decided' = [a \in AlertIds |->
                IF a \in r.work[1].alerts /\ decided[a] < 2 THEN decided[a] + 1
                                                          ELSE decided[a]]
         /\ run'[p].pc \in {"saveCandidate", "promote", "idle"}
         /\ run'[p].accepted = {}
         /\ Len(run'[p].work) = Len(r.work) - 1
         /\ \A i \in 1 .. Len(run'[p].work) : run'[p].work[i] = r.work[i + 1]
<1>. DEFINE r == run[p]
            t == CurrentTriage(p)
            items == Append(r.items, t)
            s == [r EXCEPT !.items = items]
<1>1. r \in Run /\ Shape(r) /\ run \in [Procs -> Run] /\ r.pc = "report"
  BY DEF TypeInv, TypeOK, Shapes, Report, At
<1>2. /\ r.work # <<>> /\ r.accepted = {} /\ t \in Triage
      /\ CurrentCandidate(p) = r.work[1] /\ CurrentCandidate(p) \in Candidate
      /\ r.work \in Seq(Candidate) /\ r.items \in Seq(Triage)
  BY <1>1, CurrentTyped DEF Shape, Run, Intake, Taking, Processing, Scored
<1>3. items \in Seq(Triage) /\ Len(items) = Len(r.items) + 1
  BY <1>2, AppendProperties
<1>4. run' = [run EXCEPT ![p] = AfterCandidate(s)]
  BY DEF Report, Goes
<1>. HIDE DEF t, items
<1>5. s \in Run /\ s.work = r.work /\ s.accepted = {} /\ s.items = items
  BY <1>1, <1>2, <1>3 DEF Run
<1>. HIDE DEF s
<1>6. Len(s.items) + Len(Tail(s.work)) <= Cardinality(AlertIds)
  <2>. HIDE DEF r
  <2>1. QED
    BY <1>1, <1>2, <1>3, <1>5, RoomLeft
<1>7. /\ AfterCandidate(s).pc \in {"saveCandidate", "promote", "idle"}
      /\ AfterCandidate(s).accepted = {} /\ AfterCandidate(s).work = Tail(r.work)
  BY <1>2, <1>5, <1>6, AfterCandidateShape
<1>8. run'[p] = AfterCandidate(s)
  BY <1>1, <1>4
<1>9. Len(r.work) \in Nat \ {0} /\ Len(Tail(r.work)) = Len(r.work) - 1
      /\ \A i \in 1 .. Len(Tail(r.work)) : Tail(r.work)[i] = r.work[i + 1]
  BY <1>2, EmptySeq, HeadTailProperties
<1>10. r.work[1].alerts \subseteq AlertIds
  BY <1>2 DEF Candidate
<1>11. Delivered(r.work[1].alerts)
  BY <1>2 DEF Report
<1>12. QED
  BY <1>2, <1>7, <1>8, <1>9, <1>10, <1>11 DEF Delivered

\* Which steps mark an alert, decide on one, or leave these things alone.
LEMMA MovedKeys ==
  ASSUME TypeInv, Alone, NEW p \in Procs, Moved(p)
  PROVE  /\ dedup \subseteq dedup'
         /\ \A a \in AlertIds : Marked(a)' =>
                Marked(a) \/ (MarkAlert(p) /\ a = CurrentAlert(p))
         /\ UNCHANGED decided \/ Report(p)
         /\ run'[p].pc = "markAlert" /\ run[p].pc = "checkAlert" =>
                ~Marked(CurrentAlert(p)) /\ UNCHANGED dedup
         /\ run'[p].pc = "saveAlert" /\ run[p].pc = "markAlert" => MarkAlert(p)
<1>1. run \in [Procs -> Run]
  BY DEF TypeInv, TypeOK
<1>2. \/ UNCHANGED dedup
      \/ MarkRaw(p) /\ dedup' = dedup \cup {<<"raw", Current(p)>>}
      \/ MarkAlert(p) /\ dedup' = dedup \cup {<<"alert", CurrentAlert(p)>>}
  BY DEF Moved, Step, Failure, Start, CheckRaw, MarkRaw, SaveRaw, CheckAlert,
     MarkAlert, SaveAlert, Cluster, SaveCandidate, TriageCandidate, SaveTriage,
     SaveRouting, Enqueue, Report, SaveIncident, StoreFails, DedupFails,
     ComponentFails, ReportRaises, Crash, Fault
<1>3. dedup \subseteq dedup' /\ \A a \in AlertIds : Marked(a)' =>
          Marked(a) \/ (MarkAlert(p) /\ a = CurrentAlert(p))
  BY <1>2 DEF Marked
<1>4. UNCHANGED decided \/ Report(p)
  BY DEF Moved, Step, Failure, Start, CheckRaw, MarkRaw, SaveRaw, CheckAlert,
     MarkAlert, SaveAlert, Cluster, SaveCandidate, TriageCandidate, SaveTriage,
     SaveRouting, Enqueue, SaveIncident, StoreFails, DedupFails,
     ComponentFails, ReportRaises, Crash, Fault
<1>5. ASSUME run[p].pc \in {"checkAlert", "markAlert"}
      PROVE  CheckAlert(p) \/ MarkAlert(p) \/ Goes(p, IdleRun)
  BY <1>5 DEF Alone, Moved, Step, Failure, Start, Idle, CheckRaw, MarkRaw, SaveRaw,
     SaveAlert, Cluster, SaveCandidate, TriageCandidate, SaveTriage, SaveRouting,
     Enqueue, Report, SaveIncident, StoreFails, DedupFails, ComponentFails,
     ReportRaises, Crash, Fault, At
<1>6. Goes(p, IdleRun) => run'[p].pc = "idle"
  BY <1>1 DEF Goes, IdleRun
<1>7. ASSUME run'[p].pc = "markAlert", run[p].pc = "checkAlert"
      PROVE  ~Marked(CurrentAlert(p)) /\ UNCHANGED dedup
  <2>1. CheckAlert(p)
    BY <1>5, <1>6, <1>7 DEF MarkAlert, At
  <2>2. ~Goes(p, AfterEvent(run[p]))
    <3>1. AfterEvent(run[p]).pc = "checkRaw"
      BY <1>1 DEF AfterEvent, Run
    <3>2. QED
      BY <1>1, <1>7, <3>1 DEF Goes
  <2>3. QED
    BY <1>6, <1>7, <2>1, <2>2 DEF CheckAlert, Marked
<1>8. ASSUME run'[p].pc = "saveAlert", run[p].pc = "markAlert"
      PROVE  MarkAlert(p)
  BY <1>5, <1>6, <1>8 DEF CheckAlert, At
<1>9. QED
  BY <1>3, <1>4, <1>7, <1>8

\* Every other step leaves keys, runs and decisions alone.
LEMMA AloneCases ==
  ASSUME TypeInv, Alone, [Next]_vars
  PROVE  \/ \E p \in Procs : Moved(p)
         \/ \E t \in queue : Review(t)
         \/ UNCHANGED vars
<1>1. ~KeysExpire
  BY DEF KeysExpire, Alone, TypeInv, TypeOK
<1>2. QED
  BY <1>1 DEF Next, Moved

LEMMA LedgerStep ==
  ASSUME PipelineConstants, TypeInv, Alone, LedgerInv, [Next]_vars
  PROVE  LedgerInv'
<1>1. CASE UNCHANGED <<dedup, run, decided>>
  BY <1>1 DEF LedgerInv, LedgerKept, Owed, Marked, CurrentAlert, Current
<1>2. ASSUME NEW p \in Procs, Moved(p)
      PROVE  LedgerInv'
  <2>. DEFINE r == run[p]
              s == run'[p]
  <2>1. LedgerKept(p) /\ r \in Run /\ Shape(r) /\ s \in Run
    BY TypeStep, <1>2 DEF LedgerInv, TypeInv, TypeOK, Shapes
  <2>2. Follows(r, s)
    BY <1>2, MovedFollows
  <2>3. /\ r.accepted \subseteq AlertIds /\ r.work \in Seq(Candidate)
        /\ \A i \in 1 .. Len(r.work) : r.work[i].alerts \subseteq AlertIds
    <3>1. r.accepted \subseteq AlertIds /\ r.work \in Seq(Candidate)
      BY <2>1 DEF Run
    <3>2. \A i \in 1 .. Len(r.work) : r.work[i] \in Candidate
      BY <3>1, ElementOfSeq
    <3>3. QED
      BY <3>1, <3>2 DEF Candidate
  <2>4. /\ dedup \subseteq dedup'
        /\ \A a \in AlertIds : Marked(a) => Marked(a)'
    BY <1>2, MovedKeys DEF Marked
  <2>5. CASE UNCHANGED decided
    <3>1. \A a : Owed(a) => Owed(a)'
      BY <2>4, <2>5 DEF Owed, Marked
    <3>2. s.pc = "markAlert" => ~Marked(CurrentAlert(p))'
      BY <1>2, <2>1, <2>2, MovedKeys DEF Follows, Marked, CurrentAlert, Current
    <3>3. s.pc = "saveAlert" => Owed(CurrentAlert(p))'
      <4>1. SUFFICES ASSUME s.pc = "saveAlert" PROVE Owed(CurrentAlert(p))'
        OBVIOUS
      <4>2. MarkAlert(p) /\ r.pc = "markAlert" /\ s.todo = r.todo
        BY <1>2, <2>2, <4>1, MovedKeys DEF Follows, Alone
      <4>3. CurrentAlert(p)' = CurrentAlert(p)
        BY <4>2 DEF CurrentAlert, Current
      <4>4. Marked(CurrentAlert(p))' /\ ~Marked(CurrentAlert(p))
        BY <2>1, <4>2, <4>3 DEF MarkAlert, Marked, LedgerKept
      <4>5. CurrentAlert(p) \in AlertIds
        BY <2>1, <4>2, CurrentEvent DEF Shape, Taking, CurrentAlert, Current
      <4>6. decided[CurrentAlert(p)] = 0
        BY <4>4, <4>5 DEF LedgerInv
      <4>7. QED
        BY <2>5, <4>3, <4>4, <4>6 DEF Owed
    <3>4. \A a \in s.accepted : Owed(a)'
      BY <2>1, <2>2, <3>1 DEF Follows, LedgerKept, CurrentAlert, Current
    <3>5. /\ \A i \in 1 .. Len(s.work) : \A a \in s.work[i].alerts : Owed(a)'
          /\ \A i, j \in 1 .. Len(s.work) :
                i # j => s.work[i].alerts \cap s.work[j].alerts = {}
      <4>1. CASE s.work = r.work
        BY <2>1, <3>1, <4>1 DEF LedgerKept
      <4>2. CASE s.work = <<>>
        BY <4>2, EmptySeq
      <4>3. CASE r.work # <<>> /\ s.work = Tail(r.work)
        <5>1. /\ Len(s.work) = Len(r.work) - 1 /\ Len(r.work) \in Nat
              /\ \A i \in 1 .. Len(s.work) : s.work[i] = r.work[i + 1]
          BY <2>3, <4>3, HeadTailProperties, EmptySeq
        <5>. HIDE DEF r, s
        <5>2. \A i \in 1 .. Len(s.work) : i + 1 \in 1 .. Len(r.work)
          BY <5>1
        <5>3. \A i, j \in 1 .. Len(s.work) : i # j => i + 1 # j + 1
          BY <5>1
        <5>4. /\ \A i \in 1 .. Len(r.work) : \A a \in r.work[i].alerts : Owed(a)
              /\ \A i, j \in 1 .. Len(r.work) :
                    i # j => r.work[i].alerts \cap r.work[j].alerts = {}
          BY <2>1 DEF LedgerKept, r
        <5>5. \A i \in 1 .. Len(s.work) : \A a \in s.work[i].alerts : Owed(a)'
          BY <3>1, <5>1, <5>2, <5>4
        <5>6. ASSUME NEW i \in 1 .. Len(s.work), NEW j \in 1 .. Len(s.work), i # j
              PROVE  s.work[i].alerts \cap s.work[j].alerts = {}
          <6>1. s.work[i] = r.work[i + 1] /\ s.work[j] = r.work[j + 1]
            BY <5>1
          <6>2. QED
            BY <5>2, <5>3, <5>4, <5>6, <6>1
        <5>7. QED
          BY <5>5, <5>6 DEF s
      <4>4. CASE s.work = ClustersOf(r.accepted)
        <5>1. /\ \A i \in 1 .. Len(s.work) : s.work[i].alerts \subseteq r.accepted
              /\ \A i, j \in 1 .. Len(s.work) :
                    i # j => s.work[i].alerts \cap s.work[j].alerts = {}
          <6>. HIDE DEF r, s
          <6>1. QED
            BY <2>3, <4>4, ClustersPartition
        <5>2. QED
          BY <2>1, <3>1, <5>1 DEF LedgerKept
      <4>5. QED
        BY <2>2, <4>1, <4>2, <4>3, <4>4 DEF Follows
    <3>6. LedgerKept(p)'
      BY <3>2, <3>3, <3>4, <3>5 DEF LedgerKept
    <3>7. \A q \in Procs : LedgerKept(q)'
      BY <3>6 DEF Alone
    <3>8. \A a \in AlertIds : decided'[a] # 0 => Marked(a)'
      BY <2>4, <2>5 DEF LedgerInv
    <3>9. QED
      BY <3>7, <3>8 DEF LedgerInv
  <2>6. CASE Report(p)
    <3>. DEFINE first == r.work[1].alerts
    <3>1. /\ Len(r.work) \in Nat \ {0}
          /\ first \subseteq AlertIds
          /\ decided' = [a \in AlertIds |->
                IF a \in first /\ decided[a] < 2 THEN decided[a] + 1 ELSE decided[a]]
          /\ s.pc \in {"saveCandidate", "promote", "idle"} /\ s.accepted = {}
          /\ Len(s.work) = Len(r.work) - 1
          /\ \A i \in 1 .. Len(s.work) : s.work[i] = r.work[i + 1]
      BY <2>6, ReportCourse
    <3>2. UNCHANGED dedup
      BY <2>6 DEF Report
    <3>. HIDE DEF first
    <3>3. \A a \in AlertIds : a \notin first => decided'[a] = decided[a]
      BY <3>1
    <3>4. \A i \in 1 .. Len(s.work) :
            /\ i + 1 \in 1 .. Len(r.work) /\ s.work[i] = r.work[i + 1]
            /\ s.work[i].alerts \cap first = {}
      <4>1. TAKE i \in 1 .. Len(s.work)
      <4>2. i + 1 \in 1 .. Len(r.work) /\ i + 1 # 1 /\ 1 \in 1 .. Len(r.work)
        <5>. HIDE DEF r, s
        <5>1. QED
          BY <3>1
      <4>3. QED
        BY <2>1, <3>1, <4>2 DEF LedgerKept, first
    <3>5. ASSUME NEW i \in 1 .. Len(s.work), NEW a \in s.work[i].alerts
          PROVE  Owed(a)'
      <4>1. a \in AlertIds /\ a \notin first /\ Owed(a)
        BY <2>1, <2>3, <3>4, <3>5 DEF LedgerKept
      <4>2. QED
        BY <3>2, <3>3, <4>1 DEF Owed, Marked
    <3>6. ASSUME NEW i \in 1 .. Len(s.work), NEW j \in 1 .. Len(s.work), i # j
          PROVE  s.work[i].alerts \cap s.work[j].alerts = {}
      <4>1. i + 1 # j + 1 /\ i + 1 \in 1 .. Len(r.work) /\ j + 1 \in 1 .. Len(r.work)
        BY <3>4, <3>6
      <4>2. QED
        BY <2>1, <3>4, <4>1 DEF LedgerKept
    <3>7. LedgerKept(p)'
      BY <3>1, <3>5, <3>6 DEF LedgerKept
    <3>8. \A q \in Procs : LedgerKept(q)'
      BY <3>7 DEF Alone
    <3>9. \A a \in first : Owed(a)
      <4>1. 1 \in 1 .. Len(r.work)
        BY <3>1
      <4>2. QED
        BY <2>1, <4>1 DEF LedgerKept, first
    <3>10. \A a \in AlertIds : decided'[a] # 0 => Marked(a)'
      BY <3>2, <3>3, <3>9 DEF LedgerInv, Owed, Marked
    <3>11. QED
      BY <3>8, <3>10 DEF LedgerInv
  <2>7. QED
    BY <1>2, <2>5, <2>6, MovedKeys
<1>3. QED
  BY <1>1, <1>2, AloneCases DEF Review, vars

LEMMA LedgerInit ==
  ASSUME PipelineConstants, Init
  PROVE  LedgerInv
<1>1. \A p \in Procs : run[p].pc = "idle" /\ run[p].accepted = {} /\ run[p].work = <<>>
  BY DEF Init, IdleRun
<1>2. QED
  BY <1>1 DEF Init, LedgerInv, LedgerKept, Marked

\* A mark takes an alert, a report decides on those of its candidate, and no
\* other step is seen by the ledger.
LEMMA StepImplements ==
  ASSUME PipelineConstants, TypeInv, Alone, LedgerInv, [Next]_vars
  PROVE  [Ledger!LedgerNext]_Ledger!ledgerVars
<1>. DEFINE taken == {a \in AlertIds : <<"alert", a>> \in dedup}
<1>1. CASE UNCHANGED <<dedup, decided>>
  BY <1>1 DEF Ledger!ledgerVars
<1>2. ASSUME NEW p \in Procs, Moved(p)
      PROVE  [Ledger!LedgerNext]_Ledger!ledgerVars
  <2>1. CASE MarkAlert(p)
    <3>1. run[p].pc = "markAlert" /\ LedgerKept(p) /\ run[p] \in Run /\ Shape(run[p])
      BY <2>1 DEF MarkAlert, At, LedgerInv, TypeInv, TypeOK, Shapes
    <3>2. CurrentAlert(p) \in AlertIds /\ CurrentAlert(p) \notin taken
      BY <3>1, CurrentEvent DEF Shape, Taking, CurrentAlert, Current, LedgerKept, Marked
    <3>3. PICK a \in AlertIds : a = CurrentAlert(p)
      BY <3>2
    <3>4. dedup' = dedup \cup {<<"alert", a>>} /\ UNCHANGED decided
      BY <2>1, <3>3 DEF MarkAlert
    <3>5. taken' = taken \cup {a}
      <4>1. PICK old, new : old = taken /\ new = taken'
        OBVIOUS
      <4>2. /\ old \subseteq AlertIds /\ new \subseteq AlertIds
            /\ \A b \in AlertIds : b \in new <=> b \in old \/ b = a
        BY <3>4, <4>1
      <4>3. \A b : b \in new <=> b \in old \cup {a}
        BY <4>2, Zenon
      <4>. HIDE DEF taken
      <4>4. new = old \cup {a}
        BY <4>3, Zenon
      <4>5. QED
        BY <4>1, <4>4
    <3>6. Ledger!Take(a)
      BY <3>2, <3>3, <3>4, <3>5 DEF Ledger!Take
    <3>7. QED
      BY <3>6 DEF Ledger!LedgerNext
  <2>2. CASE Report(p)
    <3>1. PICK batch \in SUBSET AlertIds : batch = run[p].work[1].alerts
      BY <2>2, ReportCourse
    <3>2. /\ Len(run[p].work) \in Nat \ {0}
          /\ decided' = [a \in AlertIds |->
                IF a \in batch /\ decided[a] < 2 THEN decided[a] + 1 ELSE decided[a]]
      BY <2>2, <3>1, ReportCourse
    <3>3. \A a \in batch : a \in taken /\ decided[a] = 0
      <4>1. 1 \in 1 .. Len(run[p].work)
        BY <3>2
      <4>2. \A a \in batch : Owed(a)
        BY <3>1, <4>1 DEF LedgerInv, LedgerKept
      <4>3. \A a \in batch : <<"alert", a>> \in dedup /\ decided[a] = 0
        BY <4>2 DEF Owed, Marked
      <4>4. QED
        BY <4>3
    <3>4. decided' = [a \in AlertIds |-> IF a \in batch THEN 1 ELSE decided[a]]
      <4>1. \A a \in AlertIds : a \in batch => decided[a] < 2 /\ decided[a] + 1 = 1
        <5>1. \A a \in batch : decided[a] = 0
          BY <3>3
        <5>2. QED
          BY <5>1
      <4>. DEFINE next(a) == IF a \in batch /\ decided[a] < 2 THEN decided[a] + 1
                                                          ELSE decided[a]
      <4>2. \A a \in AlertIds : next(a) = IF a \in batch THEN 1 ELSE decided[a]
        BY <4>1
      <4>3. decided' = [a \in AlertIds |-> next(a)]
        BY <3>2
      <4>. HIDE DEF next
      <4>4. QED
        BY <4>2, <4>3
    <3>5. UNCHANGED taken
      BY <2>2 DEF Report
    <3>6. Ledger!Decide(batch)
      BY <3>3, <3>4, <3>5 DEF Ledger!Decide
    <3>7. QED
      BY <3>6 DEF Ledger!LedgerNext
  <2>3. CASE ~MarkAlert(p) /\ ~Report(p)
    <3>1. UNCHANGED taken /\ UNCHANGED decided
      BY <1>2, <2>3, MovedKeys DEF Marked
    <3>2. QED
      BY <3>1 DEF Ledger!ledgerVars
  <2>4. QED
    BY <2>1, <2>2, <2>3
<1>3. QED
  BY <1>1, <1>2, AloneCases DEF Review, vars

\* One pipeline on its database takes each alert at most once, decides only on
\* what it took and on none of it twice, wherever it is killed and whichever calls
\* of the store or components fail (SOCPipeline.run_events and
\* DeduplicationService).
THEOREM PipelineImplementsLedger ==
  ASSUME Alone
  PROVE  Spec => ImplementsLedger
<1>1. Init => TypeInv /\ LedgerInv /\ Ledger!LedgerInit
  <2>1. Init => Ledger!LedgerInit
    BY DEF Init, Ledger!LedgerInit
  <2>2. QED
    BY <2>1, PipelineConstants, TypeInit, LedgerInit
<1>2. TypeInv /\ LedgerInv /\ [Next]_vars => (TypeInv /\ LedgerInv)'
  BY PipelineConstants, TypeStep, LedgerStep
<1>3. TypeInv /\ LedgerInv /\ [Next]_vars => [Ledger!LedgerNext]_Ledger!ledgerVars
  BY PipelineConstants, StepImplements
<1>4. QED
  BY <1>1, <1>2, <1>3, PTL DEF Spec, ImplementsLedger, Ledger!LedgerSpec

-----------------------------------------------------------------------------
(* The evidence behind what is queued.                                     *)

\* Which steps change what the evidence consists of.
LEMMA MovedEvidence ==
  ASSUME TypeInv, NEW p \in Procs, Moved(p)
  PROVE  /\ rawEvents \subseteq rawEvents' /\ happened \subseteq happened'
         /\ candidates \subseteq candidates' /\ resaved \subseteq resaved'
         /\ UNCHANGED alerts \/ SaveAlert(p)
         /\ UNCHANGED links \/ SaveAlert(p) \/ SaveCandidate(p)
         /\ UNCHANGED queue \/ Enqueue(p)
         /\ "store" \notin happened' =>
               /\ run[p].pc = "saveRaw" => SaveRaw(p) \/ Goes(p, IdleRun)
               /\ run[p].pc = "saveAlert" => SaveAlert(p) \/ Goes(p, IdleRun)
               /\ run[p].pc = "saveCandidate" => SaveCandidate(p) \/ Goes(p, IdleRun)
<1>1. /\ rawEvents \subseteq rawEvents' /\ happened \subseteq happened'
      /\ candidates \subseteq candidates' /\ resaved \subseteq resaved'
  <2>1. CASE \/ \E batch \in Batches : Start(p, batch)
             \/ Step(p)
    BY <2>1 DEF Step, tables, bounds, Start, CheckRaw, MarkRaw, SaveRaw,
       CheckAlert, MarkAlert, SaveAlert, Cluster, SaveCandidate, TriageCandidate,
       SaveTriage, SaveRouting, Enqueue, Report, SaveIncident
  <2>2. CASE Failure(p)
    BY <2>2 DEF Failure, tables, StoreFails, DedupFails, ComponentFails,
       ReportRaises, Crash, Fault
  <2>3. QED
    BY <2>1, <2>2 DEF Moved
<1>2. CASE Failure(p)
  <2>1. UNCHANGED <<alerts, links, queue>>
    BY <1>2 DEF Failure, tables, StoreFails, DedupFails, ComponentFails,
       ReportRaises, Crash, Fault
  <2>2. "store" \notin happened' /\ run[p].pc \in {"saveRaw", "saveAlert", "saveCandidate"}
            => Goes(p, IdleRun)
    BY <1>2
    DEF Failure, StoreFails, DedupFails, ComponentFails, ReportRaises, Crash, Fault, At
  <2>3. QED
    BY <1>1, <2>1, <2>2
<1>3. CASE \/ \E batch \in Batches : Start(p, batch)
           \/ Step(p)
  <2>1. UNCHANGED alerts \/ SaveAlert(p)
    BY <1>3 DEF Step, tables, Start, CheckRaw, MarkRaw, SaveRaw,
       CheckAlert, MarkAlert, Cluster, SaveCandidate, TriageCandidate,
       SaveTriage, SaveRouting, Enqueue, Report, SaveIncident
  <2>2. UNCHANGED links \/ SaveAlert(p) \/ SaveCandidate(p)
    BY <1>3 DEF Step, tables, Start, CheckRaw, MarkRaw, SaveRaw,
       CheckAlert, MarkAlert, Cluster, TriageCandidate,
       SaveTriage, SaveRouting, Enqueue, Report, SaveIncident
  <2>3. UNCHANGED queue \/ Enqueue(p)
    BY <1>3 DEF Step, tables, Start, CheckRaw, MarkRaw, SaveRaw,
       CheckAlert, MarkAlert, SaveAlert, Cluster, SaveCandidate, TriageCandidate,
       SaveTriage, SaveRouting, Report, SaveIncident
  <2>4. run[p].pc \in {"saveRaw", "saveAlert", "saveCandidate"}
            => SaveRaw(p) \/ SaveAlert(p) \/ SaveCandidate(p)
    BY <1>3 DEF Step, Start, Idle, CheckRaw, MarkRaw, CheckAlert, MarkAlert, Cluster,
       TriageCandidate, SaveTriage, SaveRouting, Enqueue, Report, SaveIncident, At
  <2>5. /\ SaveRaw(p) => run[p].pc = "saveRaw"
        /\ SaveAlert(p) => run[p].pc = "saveAlert"
        /\ SaveCandidate(p) => run[p].pc = "saveCandidate"
    BY DEF SaveRaw, SaveAlert, SaveCandidate, At
  <2>6. QED
    BY <1>1, <2>1, <2>2, <2>3, <2>4, <2>5
<1>4. QED
  BY <1>2, <1>3 DEF Moved

\* Unless the run is cut short, an alert it is about to link stays so until it is
\* linked.
LEMMA PendingStays ==
  ASSUME PipelineConstants, TypeInv, NEW p \in Procs, Moved(p), EvidenceHeld(p),
         ~CutShort', "store" \notin happened',
         NEW a \in AlertIds, Pending(run[p], a)
  PROVE  Pending(run'[p], a) \/ Linked(a)'
<1>. DEFINE r == run[p]
<1>1. /\ r \in Run /\ Shape(r) /\ run \in [Procs -> Run]
      /\ r.accepted \in SUBSET AlertIds /\ r.work \in Seq(Candidate)
  BY DEF TypeInv, TypeOK, Shapes, Run
<1>2. r.accepted # {} \/ r.work # <<>>
  BY EmptySeq DEF Pending
<1>3. r.pc \in Intake \cup Processing
  BY <1>1, <1>2 DEF Shape
<1>4. HandleError(p) => Goes(p, Continued(r))
  BY DEF HandleError, CutShort
<1>5. ASSUME NEW s, Goes(p, s), r.pc # "saveCandidate",
             r.accepted \subseteq s.accepted, s.work = r.work
      PROVE  Pending(run'[p], a)
  BY <1>1, <1>5 DEF Goes, Pending
<1>6. ASSUME NEW to, Moves(p, to), r.pc # "saveCandidate"
      PROVE  Pending(run'[p], a)
  <2>. DEFINE s == [r EXCEPT !.pc = to]
  <2>1. s.accepted = r.accepted /\ s.work = r.work /\ Goes(p, s)
    BY <1>1, <1>6 DEF Run, Moves
  <2>. HIDE DEF s
  <2>2. QED
    BY <1>5, <1>6, <2>1
<1>7. ASSUME NEW s \in Run, Goes(p, AfterCandidate(s)), r.pc # "saveCandidate",
             s.work = r.work, s.accepted = {}, r.work # <<>>, r.accepted = {},
             Len(s.items) + Len(Tail(s.work)) <= Cardinality(AlertIds)
      PROVE  Pending(run'[p], a)
  <2>. DEFINE d == AfterCandidate(s)
              L == Len(r.work)
  <2>1. d.work = Tail(r.work) /\ Shape(d) /\ d.pc \in {"saveCandidate", "promote", "idle"}
    BY <1>7, AfterCandidateShape
  <2>2. PICK i \in 1 .. L : i > 1 /\ a \in r.work[i].alerts
    BY <1>7 DEF Pending
  <2>3. /\ Len(Tail(r.work)) = L - 1 /\ L \in Nat
        /\ \A j \in 1 .. Len(Tail(r.work)) : Tail(r.work)[j] = r.work[j + 1]
    BY <1>1, <1>7, HeadTailProperties, EmptySeq
  <2>. HIDE DEF L, r, d
  <2>4. i - 1 \in 1 .. Len(d.work) /\ d.work[i - 1] = r.work[i]
    BY <2>1, <2>2, <2>3
  <2>5. d.pc = "saveCandidate"
    <3>1. d.work # <<>>
      BY <2>4
    <3>2. QED
      BY <2>1, <3>1 DEF Shape, Processing, Scored
  <2>6. Pending(d, a)
    BY <2>2, <2>4, <2>5 DEF Pending
  <2>7. QED
    BY <1>1, <1>7, <2>6 DEF Goes, d
<1>8. \A batch \in Batches : ~Start(p, batch)
  BY <1>3 DEF Start, Idle, Intake, Taking, Processing, Scored
<1>9. ASSUME Goes(p, AfterEvent(r)), r.pc \in Intake
      PROVE  Pending(run'[p], a)
  <2>1. AfterEvent(r).accepted = r.accepted /\ AfterEvent(r).work = r.work
    BY <1>1, <1>9, AfterEventShape
  <2>2. QED
    BY <1>5, <1>9, <2>1 DEF Intake, Taking
<1>10. CASE CheckRaw(p)
  BY <1>6, <1>9, <1>10 DEF CheckRaw, At, Intake
<1>11. CASE MarkRaw(p) \/ SaveRaw(p) \/ MarkAlert(p) \/ SaveTriage(p)
  BY <1>6, <1>11 DEF MarkRaw, SaveRaw, MarkAlert, SaveTriage, At
<1>12. CASE CheckAlert(p)
  <2>1. r.pc = "checkAlert" /\ (Goes(p, AfterEvent(r)) \/ Moves(p, "markAlert"))
    BY <1>12 DEF CheckAlert, At, CutShort
  <2>2. QED
    BY <1>6, <1>9, <2>1 DEF Intake, Taking
<1>13. CASE SaveAlert(p)
  <2>1. r.pc = "saveAlert" /\ Goes(p, Accepting(r, CurrentAlert(p)))
    BY <1>4, <1>13 DEF SaveAlert, At, Continued, CurrentAlert, Current
  <2>2. CurrentAlert(p) \in AlertIds
    BY <1>1, <2>1, CurrentEvent DEF Shape, Taking, CurrentAlert, Current
  <2>3. /\ Accepting(r, CurrentAlert(p)).accepted = r.accepted \cup {CurrentAlert(p)}
        /\ Accepting(r, CurrentAlert(p)).work = r.work
    BY <1>1, <2>1, <2>2, AcceptingShape DEF Intake, Taking
  <2>4. QED
    BY <1>5, <2>1, <2>3
<1>14. CASE Cluster(p)
  <2>1. r.pc = "checkRaw" /\ r.work = <<>>
    BY <1>1, <1>14 DEF Cluster, At, Shape, Processing, Scored
  <2>2. a \in r.accepted
    BY <2>1, EmptySeq DEF Pending
  <2>. DEFINE s == [IdleRun EXCEPT !.pc = "saveCandidate", !.work = ClustersOf(r.accepted)]
  <2>3. Goes(p, s)
    BY <1>14, <2>2 DEF Cluster
  <2>4. s.pc = "saveCandidate" /\ s.work = ClustersOf(r.accepted)
    BY DEF IdleRun
  <2>. HIDE DEF s
  <2>5. \E i \in 1 .. Len(s.work) : a \in s.work[i].alerts
    <3>. HIDE DEF r
    <3>1. QED
      BY <1>1, <2>2, <2>4, ClustersPartition
  <2>6. Pending(s, a)
    BY <2>4, <2>5 DEF Pending
  <2>7. QED
    BY <1>1, <2>3, <2>6 DEF Goes
<1>15. CASE SaveCandidate(p)
  <2>. DEFINE c == CurrentCandidate(p)
  <2>1. r.pc = "saveCandidate" /\ r.work # <<>> /\ c = r.work[1] /\ r.accepted = {}
    BY <1>1, <1>15, CurrentTyped DEF SaveCandidate, At, Shape, Processing, Intake, Taking, Scored
  <2>2. 1 \in 1 .. Len(r.work)
    BY <1>1, <2>1, EmptySeq
  <2>3. \A b \in c.alerts : alerts[b] # NoRow
    BY <2>1, <2>2 DEF EvidenceHeld, Traced
  <2>4. /\ candidates' = candidates \cup {c} /\ links' = links \cup ({c} \X c.alerts)
        /\ Moves(p, "triage")
    BY <1>15, <2>3 DEF SaveCandidate
  <2>5. PICK i \in 1 .. Len(r.work) : a \in r.work[i].alerts
    BY <2>1 DEF Pending
  <2>6. CASE i = 1
    <3>1. <<c, a>> \in links' /\ c \in candidates'
      BY <2>1, <2>4, <2>5, <2>6
    <3>2. QED
      BY <3>1 DEF Linked
  <2>7. CASE i # 1
    <3>. DEFINE s == [r EXCEPT !.pc = "triage"]
    <3>1. s.work = r.work /\ run'[p] = s
      BY <1>1, <2>4 DEF Run, Moves, Goes
    <3>. HIDE DEF s
    <3>2. i > 1
      BY <2>7
    <3>3. QED
      BY <2>5, <3>1, <3>2 DEF Pending
  <2>8. QED
    BY <2>6, <2>7
<1>16. CASE \E score \in Scores : TriageCandidate(p, score)
  <2>1. PICK score \in Scores : TriageCandidate(p, score)
    BY <1>16
  <2>. DEFINE s == [r EXCEPT !.pc = "saveTriage", !.score = score]
  <2>2. r.pc = "triage" /\ Goes(p, s) /\ s.work = r.work /\ s.accepted = r.accepted
    BY <1>1, <2>1 DEF TriageCandidate, At, Run
  <2>. HIDE DEF s
  <2>3. QED
    BY <1>5, <2>2
<1>17. ASSUME Goes(p, Continued(r)),
              r.pc \in {"checkRaw", "markRaw", "checkAlert", "markAlert",
                        "saveRouting", "enqueue"}
       PROVE  Pending(run'[p], a)
  <2>1. \E to : Continued(r) = [r EXCEPT !.pc = to]
    BY <1>17 DEF Continued
  <2>2. QED
    BY <1>6, <1>17, <2>1 DEF Moves
<1>18. CASE SaveRouting(p) \/ Enqueue(p)
  BY <1>4, <1>6, <1>17, <1>18 DEF SaveRouting, Enqueue, At
<1>19. CASE Report(p)
  <2>. DEFINE t == CurrentTriage(p)
              items == Append(r.items, t)
              s == [r EXCEPT !.items = items]
  <2>1. r.pc = "report" /\ Goes(p, AfterCandidate(s))
    BY <1>19 DEF Report, At
  <2>2. r.work # <<>> /\ r.accepted = {} /\ t \in Triage /\ r.items \in Seq(Triage)
    BY <1>1, <2>1, CurrentTyped DEF Shape, Run, Processing, Scored, Intake, Taking
  <2>3. items \in Seq(Triage) /\ Len(items) = Len(r.items) + 1
    BY <2>2, AppendProperties
  <2>. HIDE DEF t, items
  <2>4. s \in Run /\ s.work = r.work /\ s.accepted = {} /\ s.items = items
    BY <1>1, <2>2, <2>3 DEF Run
  <2>. HIDE DEF s
  <2>5. Len(s.items) + Len(Tail(s.work)) <= Cardinality(AlertIds)
    <3>. HIDE DEF r
    <3>1. QED
      BY <1>1, <2>2, <2>3, <2>4, RoomLeft
  <2>6. QED
    BY <1>7, <2>1, <2>2, <2>4, <2>5
<1>20. ~SaveIncident(p)
  BY <1>3 DEF SaveIncident, At, Intake, Taking, Processing, Scored
<1>21. CASE DedupFails(p)
  BY <1>4, <1>17, <1>21 DEF DedupFails, At
<1>22. ~StoreFails(p) /\ ~ComponentFails(p) /\ ~ReportRaises(p) /\ ~Crash(p)
  BY DEF StoreFails, ComponentFails, ReportRaises, Crash, Fault, CutShort
<1>23. QED
  BY <1>8, <1>10, <1>11, <1>12, <1>13, <1>14, <1>15, <1>16, <1>18, <1>19, <1>20,
     <1>21, <1>22 DEF Moved, Step, Failure

LEMMA OthersStay ==
  ASSUME TypeInv, NEW p \in Procs, Moved(p), NEW q \in Procs, q # p
  PROVE  run'[q] = run[q]
<1>1. \E d : run' = [run EXCEPT ![p] = d]
  BY DEF Moved, Step, Failure, Start, CheckRaw, MarkRaw, SaveRaw, CheckAlert,
     MarkAlert, SaveAlert, Cluster, SaveCandidate, TriageCandidate, SaveTriage,
     SaveRouting, Enqueue, Report, SaveIncident, StoreFails, DedupFails,
     ComponentFails, ReportRaises, Crash, HandleError, Moves, Goes
<1>2. QED
  BY <1>1 DEF TypeInv, TypeOK

\* A run's evidence is not disturbed by another run that saves its alerts again.
LEMMA EvidenceStep ==
  ASSUME PipelineConstants, TypeInv, EvidenceInv, [Next]_vars
  PROVE  EvidenceInv'
<1>. DEFINE Queued == \A t \in queue : \A a \in t.target.alerts : Evident(t.target, a)
<1>1. CASE UNCHANGED <<rawEvents, alerts, candidates, links, queue, happened, resaved, run>>
  BY <1>1 DEF EvidenceInv, EvidenceHeld, Evident, Traced, Current, CurrentCandidate,
              Covered, Linked, CutShort
<1>2. ASSUME NEW p \in Procs, Moved(p), "store" \notin happened'
      PROVE  /\ \A q \in Procs : EvidenceHeld(q)'
             /\ Queued'
             /\ CutShort' \/ \A a \in AlertIds : Covered(a)'
  <2>. DEFINE r == run[p]
              s == run'[p]
  <2>1. /\ r \in Run /\ Shape(r) /\ run \in [Procs -> Run]
        /\ \A q \in Procs : EvidenceHeld(q)
        /\ Queued /\ "store" \notin happened
        /\ CutShort \/ \A a \in AlertIds : Covered(a)
    BY <1>2, MovedEvidence DEF TypeInv, TypeOK, Shapes, EvidenceInv
  <2>2. /\ Follows(r, s) /\ s \in Run /\ Shape(s) /\ TypeInv'
    BY <1>2, MovedFollows, TypeStep DEF TypeInv, TypeOK, Shapes
  <2>3. Goes(p, IdleRun) => s = IdleRun
    BY <2>1 DEF Goes
  <2>4. IdleRun.pc = "idle" /\ IdleRun.accepted = {}
    BY DEF IdleRun
  <2>5. r.accepted \subseteq AlertIds /\ r.work \in Seq(Candidate)
    BY <2>1 DEF Run
  <2>6. r.pc = "saveAlert" =>
          /\ CurrentAlert(p) \in AlertIds /\ Current(p) \in rawEvents
          /\ Current(p) # NoRow
    BY <2>1, CurrentEvent
    DEF Shape, Taking, CurrentAlert, Current, EvidenceHeld, PipelineConstants, NoRow
  <2>7. SaveAlert(p) =>
          /\ r.pc = "saveAlert"
          /\ alerts' = [alerts EXCEPT ![CurrentAlert(p)] = Current(p)]
          /\ links' = {l \in links : l[2] # CurrentAlert(p)}
          /\ alerts[CurrentAlert(p)] # NoRow => CurrentAlert(p) \in resaved'
          /\ Goes(p, Accepting(r, CurrentAlert(p)))
          /\ UNCHANGED <<rawEvents, queue>>
    BY <2>6 DEF SaveAlert, At
  <2>8. alerts \in [AlertIds -> Events \cup {NoRow}]
    BY DEF TypeInv, TypeOK
  <2>9. ASSUME NEW a \in AlertIds, Traced(a)
        PROVE  Traced(a)'
    BY <1>2, <2>6, <2>7, <2>8, <2>9, MovedEvidence DEF Traced
  <2>10. ASSUME NEW a \in AlertIds, SaveAlert(p), a = CurrentAlert(p)
         PROVE  Traced(a)'
    BY <2>6, <2>7, <2>8, <2>10 DEF Traced
  <2>11. ASSUME NEW a \in AlertIds, NEW l \in links, l[2] = a,
                ~(SaveAlert(p) /\ a = CurrentAlert(p))
         PROVE  l \in links'
    <3>1. SaveCandidate(p) => links \subseteq links'
      BY DEF SaveCandidate
    <3>2. QED
      BY <1>2, <2>7, <2>11, <3>1, MovedEvidence
  <2>12. ASSUME NEW c, NEW a \in AlertIds, Evident(c, a)
         PROVE  Evident(c, a)'
    <3>1. Traced(a) /\ Traced(a)' /\ resaved \subseteq resaved'
      BY <1>2, <2>9, <2>12, MovedEvidence DEF Evident
    <3>2. CASE a \in resaved
      BY <3>1, <3>2 DEF Evident
    <3>3. CASE <<c, a>> \in links /\ ~(SaveAlert(p) /\ a = CurrentAlert(p))
      <4>1. <<c, a>> \in links'
        BY <2>11, <3>3
      <4>2. QED
        BY <3>1, <4>1 DEF Evident
    <3>4. CASE SaveAlert(p) /\ a = CurrentAlert(p)
      BY <2>7, <3>1, <3>4 DEF Evident, Traced
    <3>5. QED
      BY <2>12, <3>2, <3>3, <3>4 DEF Evident
  <2>13. \A q \in Procs : \A i \in 1 .. Len(run[q].work) :
             run[q].work[i] \in Candidate /\ run[q].work[i].alerts \subseteq AlertIds
    <3>1. ASSUME NEW q \in Procs
          PROVE  \A i \in 1 .. Len(run[q].work) : run[q].work[i] \in Candidate
      <4>1. run[q].work \in Seq(Candidate)
        BY <2>1 DEF Run
      <4>2. QED
        BY <4>1, ElementOfSeq
    <3>2. QED
      BY <3>1 DEF Candidate
  <2>14. ASSUME NEW q \in Procs, q # p
         PROVE  EvidenceHeld(q)'
    <3>1. run'[q] = run[q] /\ EvidenceHeld(q) /\ run[q] \in Run
      BY <1>2, <2>1, <2>14, OthersStay
    <3>2. run[q].accepted \subseteq AlertIds
      BY <3>1 DEF Run
    <3>3. run[q].pc \in {"triage"} \cup Scored => CurrentCandidate(q).alerts \subseteq AlertIds
      BY CurrentTyped DEF Processing, Candidate
    <3>4. /\ \A a \in run'[q].accepted : Traced(a)'
          /\ \A i \in 1 .. Len(run'[q].work) : \A a \in run'[q].work[i].alerts : Traced(a)'
      BY <2>9, <2>13, <3>1, <3>2 DEF EvidenceHeld
    <3>5. run'[q].pc \in {"triage"} \cup Scored =>
            \A a \in CurrentCandidate(q)'.alerts : Evident(CurrentCandidate(q), a)'
      BY <2>12, <3>1, <3>3 DEF EvidenceHeld, CurrentCandidate
    <3>6. run'[q].pc \in {"checkAlert", "markAlert", "saveAlert"} =>
            Current(q)' \in rawEvents'
      BY <1>2, <3>1, MovedEvidence DEF EvidenceHeld, Current
    <3>7. QED
      BY <3>4, <3>5, <3>6 DEF EvidenceHeld
  <2>15. s.pc \in {"checkAlert", "markAlert", "saveAlert"} => Current(p)' \in rawEvents'
    <3>1. CASE s.pc = "checkAlert"
      <4>1. r.pc = "saveRaw" /\ s.todo = r.todo
        BY <2>2, <3>1 DEF Follows
      <4>2. SaveRaw(p)
        BY <1>2, <2>3, <2>4, <3>1, <4>1, MovedEvidence
      <4>3. QED
        BY <4>1, <4>2 DEF SaveRaw, Current
    <3>2. CASE s.pc \in {"markAlert", "saveAlert"}
      <4>1. r.pc \in {"checkAlert", "markAlert"} /\ s.todo = r.todo
        BY <2>2, <3>2 DEF Follows
      <4>2. QED
        BY <1>2, <2>1, <4>1, MovedEvidence DEF EvidenceHeld, Current
    <3>3. QED
      BY <3>1, <3>2
  <2>16. \A a \in s.accepted : Traced(a)'
    <3>1. CASE s.accepted \subseteq r.accepted
      BY <2>1, <2>5, <2>9, <3>1 DEF EvidenceHeld
    <3>2. CASE r.pc = "saveAlert" /\ s.accepted = r.accepted \cup {CurrentAlert(p)}
      <4>1. SaveAlert(p)
        BY <1>2, <2>3, <2>4, <3>2, MovedEvidence
      <4>2. QED
        BY <2>1, <2>5, <2>6, <2>9, <2>10, <3>2, <4>1 DEF EvidenceHeld
    <3>3. QED
      BY <2>2, <3>1, <3>2 DEF Follows, CurrentAlert, Current
  <2>17. \A i \in 1 .. Len(s.work) : \A a \in s.work[i].alerts : Traced(a)'
    <3>1. \A i \in 1 .. Len(r.work) : \A a \in r.work[i].alerts : Traced(a)'
      BY <2>1, <2>9, <2>13 DEF EvidenceHeld
    <3>2. CASE s.work = r.work
      BY <3>1, <3>2
    <3>3. CASE s.work = <<>>
      BY <3>3, EmptySeq
    <3>4. CASE r.work # <<>> /\ s.work = Tail(r.work)
      <4>1. /\ Len(s.work) = Len(r.work) - 1 /\ Len(r.work) \in Nat
            /\ \A i \in 1 .. Len(s.work) : s.work[i] = r.work[i + 1]
        BY <2>5, <3>4, HeadTailProperties, EmptySeq
      <4>2. \A i \in 1 .. Len(s.work) : i + 1 \in 1 .. Len(r.work)
        <5>. HIDE DEF r, s
        <5>1. QED
          BY <4>1
      <4>3. QED
        BY <3>1, <4>1, <4>2
    <3>5. CASE s.work = ClustersOf(r.accepted)
      <4>1. \A i \in 1 .. Len(s.work) : s.work[i].alerts \subseteq r.accepted
        <5>. HIDE DEF r, s
        <5>1. QED
          BY <2>5, <3>5, ClustersPartition
      <4>2. QED
        BY <2>1, <2>5, <2>9, <4>1 DEF EvidenceHeld
    <3>6. QED
      BY <2>2, <3>2, <3>3, <3>4, <3>5 DEF Follows
  <2>18. s.pc \in {"triage"} \cup Scored =>
           \A a \in CurrentCandidate(p)'.alerts : Evident(CurrentCandidate(p), a)'
    <3>1. SUFFICES ASSUME s.pc \in {"triage"} \cup Scored,
                          NEW a \in CurrentCandidate(p).alerts
                   PROVE  Evident(CurrentCandidate(p), a)'
      BY <2>2 DEF Follows, CurrentCandidate
    <3>2. CurrentCandidate(p)' = CurrentCandidate(p)
      BY <2>2, <3>1 DEF Follows, CurrentCandidate
    <3>3. CASE s.pc = "triage"
      <4>1. r.pc = "saveCandidate" /\ SaveCandidate(p)
        BY <1>2, <2>2, <2>3, <2>4, <3>3, MovedEvidence DEF Follows
      <4>2. CurrentCandidate(p) = r.work[1] /\ r.work # <<>>
        BY <2>1, <4>1, CurrentTyped DEF Shape, Processing
      <4>3. 1 \in 1 .. Len(r.work)
        BY <2>5, <4>2, EmptySeq
      <4>4. \A b \in CurrentCandidate(p).alerts : b \in AlertIds /\ Traced(b)
        BY <2>1, <2>13, <4>2, <4>3 DEF EvidenceHeld
      <4>5. <<CurrentCandidate(p), a>> \in links'
        BY <3>1, <4>1, <4>4 DEF SaveCandidate, Traced
      <4>6. Traced(a)'
        BY <2>9, <3>1, <4>4
      <4>7. QED
        BY <3>2, <4>5, <4>6 DEF Evident
    <3>4. CASE s.pc \in Scored
      <4>1. r.pc \in {"triage"} \cup Scored
        BY <2>2, <3>4 DEF Follows
      <4>2. a \in AlertIds /\ Evident(CurrentCandidate(p), a)
        BY <2>1, <3>1, <4>1, CurrentTyped DEF EvidenceHeld, Processing, Candidate
      <4>3. QED
        BY <2>12, <3>2, <4>2 DEF Evident
    <3>5. QED
      BY <3>1, <3>3, <3>4
  <2>19. EvidenceHeld(p)'
    BY <2>15, <2>16, <2>17, <2>18 DEF EvidenceHeld
  <2>20. Queued'
    <3>1. ASSUME NEW t \in queue, NEW a \in t.target.alerts
          PROVE  Evident(t.target, a)'
      <4>1. t.target \in Candidate
        BY DEF TypeInv, TypeOK, Triage
      <4>2. a \in AlertIds /\ Evident(t.target, a)
        BY <2>1, <4>1 DEF Candidate
      <4>3. QED
        BY <2>12, <4>2
    <3>2. CASE UNCHANGED queue
      BY <3>1, <3>2
    <3>3. CASE Enqueue(p)
      <4>1. PICK c \in Candidate :
              /\ r.pc = "enqueue" /\ queue' \subseteq queue \cup {CurrentTriage(p)}
              /\ CurrentTriage(p).target = c
              /\ \A a \in c.alerts : Evident(c, a)
        <5>1. r.pc = "enqueue" /\ queue' \subseteq queue \cup {CurrentTriage(p)}
              /\ CurrentTriage(p).target = CurrentCandidate(p)
          BY <3>3 DEF Enqueue, At, CurrentTriage
        <5>2. /\ CurrentCandidate(p) \in Candidate
              /\ \A a \in CurrentCandidate(p).alerts : Evident(CurrentCandidate(p), a)
          BY <2>1, <5>1, CurrentTyped DEF EvidenceHeld, Processing, Scored
        <5>3. QED
          BY <5>1, <5>2
      <4>2. \A a \in c.alerts : Evident(c, a)'
        BY <2>12, <4>1 DEF Candidate
      <4>3. QED
        BY <3>1, <4>1, <4>2
    <3>4. QED
      BY <1>2, <3>2, <3>3, MovedEvidence
  <2>21. ASSUME ~CutShort', NEW a \in AlertIds, alerts'[a] # NoRow
         PROVE  Linked(a)' \/ \E q \in Procs : Pending(run'[q], a)
    <3>1. CASE SaveAlert(p) /\ a = CurrentAlert(p)
      <4>1. s = Accepting(r, a) /\ r.pc = "saveAlert"
        BY <2>1, <2>7, <3>1 DEF Goes
      <4>2. a \in s.accepted
        <5>. HIDE DEF r, s
        <5>1. r \in Run /\ Shape(r) /\ r.pc \in Intake
          BY <2>1, <4>1 DEF Intake, Taking
        <5>2. QED
          BY <4>1, <5>1, AcceptingShape
      <4>3. QED
        BY <4>2 DEF Pending
    <3>2. CASE ~(SaveAlert(p) /\ a = CurrentAlert(p))
      <4>1. alerts[a] # NoRow
        BY <1>2, <2>6, <2>7, <2>8, <2>21, <3>2, MovedEvidence
      <4>2. Linked(a) \/ \E q \in Procs : Pending(run[q], a)
        BY <1>2, <2>1, <2>21, <4>1, OnlyMore DEF Covered, Moved, Next
      <4>3. CASE Linked(a)
        <5>1. PICK c \in candidates : <<c, a>> \in links
          BY <4>3 DEF Linked
        <5>2. <<c, a>> \in links' /\ c \in candidates'
          BY <1>2, <2>11, <3>2, <5>1, MovedEvidence
        <5>3. QED
          BY <5>2 DEF Linked
      <4>4. CASE Pending(run[p], a)
        BY <1>2, <2>1, <2>21, <4>4, PendingStays
      <4>5. ASSUME NEW q \in Procs, q # p, Pending(run[q], a)
            PROVE  Pending(run'[q], a)
        BY <1>2, <4>5, OthersStay
      <4>6. QED
        BY <4>2, <4>3, <4>4, <4>5
    <3>3. QED
      BY <3>1, <3>2
  <2>22. QED
    BY <2>14, <2>19, <2>20, <2>21 DEF Covered
<1>3. ASSUME NEW p \in Procs, Moved(p)
      PROVE  EvidenceInv'
  BY <1>2, <1>3 DEF EvidenceInv
<1>4. QED
  BY <1>1, <1>3 DEF Next, Moved, KeysExpire, Review, vars, tables, bounds

\* For any number of pipelines on one database, however often keys expire and
\* whichever calls of the dedup service fail, as long as no call of the store
\* has: a queued decision loses its link only to an alert that was saved again,
\* and unless a run was cut short that alert is linked to a later candidate
\* (list_raw_events_for_target, save_alert, soc/store.py).
THEOREM EvidenceIsComplete == Spec => []EvidenceComplete
<1>1. Init => TypeInv /\ EvidenceInv
  <2>1. Init => EvidenceInv
    BY DEF Init, IdleRun, EvidenceInv, EvidenceHeld, Covered, Scored
  <2>2. QED
    BY <2>1, PipelineConstants, TypeInit
<1>2. TypeInv /\ EvidenceInv /\ [Next]_vars => (TypeInv /\ EvidenceInv)'
  BY PipelineConstants, TypeStep, EvidenceStep
<1>3. TypeInv /\ EvidenceInv => EvidenceComplete
  <2>1. SUFFICES ASSUME TypeInv, EvidenceInv, Quiet, "store" \notin happened,
                        NEW t \in queue, NEW a \in t.target.alerts
                 PROVE  /\ alerts[a] \in rawEvents
                        /\ \/ <<t.target, a>> \in links
                           \/ a \in resaved /\ (CutShort \/ Linked(a))
    BY DEF EvidenceComplete, Linked
  <2>2. a \in AlertIds
    BY <2>1 DEF TypeInv, TypeOK, Triage, Candidate
  <2>3. Traced(a) /\ (<<t.target, a>> \in links \/ a \in resaved)
    BY <2>1 DEF EvidenceInv, Evident
  <2>4. \A p \in Procs : run[p].accepted = {} /\ run[p].work = <<>>
    BY <2>1 DEF Quiet, Idle, TypeInv, Shapes, Shape, Intake, Taking, Processing, Scored
  <2>5. \A p \in Procs : ~Pending(run[p], a)
    BY <2>4, EmptySeq DEF Pending
  <2>6. CutShort \/ Linked(a)
    BY <2>1, <2>2, <2>3, <2>5 DEF EvidenceInv, Covered, Traced
  <2>7. QED
    BY <2>3, <2>6 DEF Traced
<1>4. QED
  BY <1>1, <1>2, <1>3, PTL DEF Spec
=============================================================================
