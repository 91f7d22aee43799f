--------------------------- MODULE PipelineProofs ---------------------------
(***************************************************************************)
(* Proofs about Pipeline for any events, batches, scores and thresholds,   *)
(* any faults and any number of them.                                      *)
(***************************************************************************)
EXTENDS Pipeline, FiniteSetTheorems, SequenceTheorems, TLAPS

Taking == {"markRaw", "saveRaw", "checkAlert", "markAlert", "saveAlert"}
Intake == {"checkRaw"} \cup Taking
Scored == {"saveTriage", "saveRouting", "enqueue", "report"}
Processing == {"saveCandidate", "triage"} \cup Scored

\* What a run holds at each point, and what it has let go of.
Shape(r) ==
    /\ r.pc \in Taking => r.todo # {}
    /\ r.pc \in {"markAlert", "saveAlert"} => AlertOf[Min(r.todo)] # Unusable
    /\ r.pc \notin Intake => r.accepted = {}
    /\ r.pc \in Processing <=> r.work # <<>>
    /\ r.pc \in Scored => r.score \in Scores
    /\ r.pc = "promote" => r.due # <<>>
    /\ Len(r.items) + Len(r.work) <= Cardinality(AlertIds)
Shapes == \A p \in Procs : Shape(run[p])

TypeInv == TypeOK /\ Shapes

\* A run that will decide on the alert a unless it is cut short, and one that
\* will see to the event e.
Carries(r, a) ==
    \/ r.pc = "saveAlert" /\ a = AlertOf[Min(r.todo)]
    \/ a \in r.accepted
    \/ \E i \in 1 .. Len(r.work) : a \in r.work[i].alerts
Handles(r, e) ==
    /\ r.pc \in {"saveRaw", "checkAlert", "markAlert", "saveAlert"}
    /\ e = Min(r.todo)

\* What p has in hand is still in hand after the step, or decided, or marked by
\* another; and a mark that the step makes is of something in hand.
DropsNothing(p) ==
    /\ \A a \in AlertIds :
           Carries(run[p], a) => Carries(run'[p], a) \/ decided'[a] > 0
    /\ \A e \in Events : Handles(run[p], e) =>
           \/ Handles(run'[p], e)
           \/ AlertOf[e] = Unusable
           \/ Carries(run'[p], AlertOf[e])
           \/ <<"alert", AlertOf[e]>> \in dedup
    /\ \A a \in AlertIds : <<"alert", a>> \in dedup' =>
           <<"alert", a>> \in dedup \/ Carries(run'[p], a)
    /\ \A e \in Events : <<"raw", e>> \in dedup' =>
           <<"raw", e>> \in dedup \/ Handles(run'[p], e)

\* Every step of p leads to a run of the right shape, and drops nothing unless
\* it cuts the run short.
StepsWell(p) ==
    /\ \E s \in Run : Shape(s) /\ run' = [run EXCEPT ![p] = s]
    /\ CutShort' \/ DropsNothing(p)

-----------------------------------------------------------------------------
(* The operators of the model.                                             *)

\* A set of numbers that is not empty has a least one.
LEMMA LeastExists ==
  ASSUME NEW S \in SUBSET Nat, S # {}
  PROVE  \E x \in S : \A y \in S : x <= y
<1>1. \E x \in S : \A y \in S : ~ (<<y, x>> \in OpToRel(<, Nat))
  BY NatLessThanWellFounded, WFMin
<1>2. ASSUME NEW x \in S, NEW y \in S, ~ (<<y, x>> \in OpToRel(<, Nat))
      PROVE  x <= y
  <2>1. x \in Nat /\ y \in Nat
    OBVIOUS
  <2>2. ~ (y < x)
    BY <1>2, <2>1 DEF OpToRel
  <2>3. QED
    BY <2>1, <2>2
<1>3. QED
  BY <1>1, <1>2

LEMMA MinOf ==
  ASSUME NEW S \in SUBSET Nat, S # {}
  PROVE  Min(S) \in S /\ \A y \in S : Min(S) <= y
BY LeastExists DEF Min

\* Places run from 1 to the size of the set, in the order of the numbers.
LEMMA PlaceInRange ==
  ASSUME NEW S \in SUBSET Nat, IsFiniteSet(S), NEW a \in S
  PROVE  Place(a, S) \in 1 .. Cardinality(S)
<1>. DEFINE upTo == {b \in S : b <= a}
<1>1. IsFiniteSet(upTo) /\ Cardinality(upTo) <= Cardinality(S)
  BY FS_Subset
<1>2. Cardinality(upTo) \in Nat /\ Cardinality(S) \in Nat
  BY <1>1, FS_CardinalityType
<1>3. a \in upTo
  OBVIOUS
<1>4. Cardinality(upTo) # 0
  BY <1>1, <1>3, FS_EmptySet
<1>5. QED
  BY <1>1, <1>2, <1>4 DEF Place

LEMMA ClustersType ==
  ASSUME PipelineConstants, NEW accepted \in SUBSET AlertIds
  PROVE  /\ FirstsOf(accepted) \subseteq accepted
         /\ IsFiniteSet(FirstsOf(accepted))
         /\ Cardinality(FirstsOf(accepted)) \in 0 .. Cardinality(AlertIds)
         /\ ClustersOf(accepted) \in Seq(Candidate)
         /\ Len(ClustersOf(accepted)) = Cardinality(FirstsOf(accepted))
<1>1. FirstsOf(accepted) \subseteq accepted
  BY DEF FirstsOf
<1>2. /\ IsFiniteSet(FirstsOf(accepted))
      /\ Cardinality(FirstsOf(accepted)) <= Cardinality(AlertIds)
  BY <1>1, FS_Subset DEF PipelineConstants
<1>3. Cardinality(FirstsOf(accepted)) \in Nat /\ Cardinality(AlertIds) \in Nat
  BY <1>2, FS_CardinalityType DEF PipelineConstants
<1>. DEFINE n == Cardinality(FirstsOf(accepted))
            cluster(i) == [index |-> i,
                           alerts |-> {b \in accepted : \E a \in FirstsOf(accepted) :
                               Place(a, FirstsOf(accepted)) = i /\ Entity[b] = Entity[a]}]
<1>4. ASSUME NEW i \in 1 .. n
      PROVE  cluster(i) \in Candidate
  <2>. DEFINE members == {b \in accepted : \E a \in FirstsOf(accepted) :
                              Place(a, FirstsOf(accepted)) = i /\ Entity[b] = Entity[a]}
  <2>1. members \in SUBSET AlertIds
    OBVIOUS
  <2>2. i \in 1 .. Cardinality(AlertIds)
    BY <1>2, <1>3
  <2>. HIDE DEF members
  <2>3. [index |-> i, alerts |-> members] \in Candidate
    BY <2>1, <2>2 DEF Candidate
  <2>4. QED
    BY <2>3 DEF members
<1>5. ClustersOf(accepted) = [i \in 1 .. n |-> cluster(i)]
  BY DEF ClustersOf
<1>6. [i \in 1 .. n |-> cluster(i)] \in [1 .. n -> Candidate]
  BY <1>4
<1>7. n \in Nat
  BY <1>3
<1>. HIDE DEF n, cluster
<1>8. ClustersOf(accepted) \in Seq(Candidate) /\ Len(ClustersOf(accepted)) = n
  BY <1>5, <1>6, <1>7
<1>9. QED
  BY <1>1, <1>2, <1>3, <1>8 DEF n

\* Every accepted alert is in exactly one cluster.
LEMMA ClustersPartition ==
  ASSUME PipelineConstants, NEW accepted \in SUBSET AlertIds
  PROVE  LET work == ClustersOf(accepted) IN
         /\ \A i \in 1 .. Len(work) : work[i].alerts \subseteq accepted
         /\ \A i, j \in 1 .. Len(work) :
                i # j => work[i].alerts \cap work[j].alerts = {}
         /\ \A a \in accepted : \E i \in 1 .. Len(work) : a \in work[i].alerts
<1>. DEFINE work == ClustersOf(accepted)
            firsts == FirstsOf(accepted)
<1>1. Len(work) = Cardinality(firsts) /\ firsts \subseteq accepted
      /\ IsFiniteSet(firsts)
  BY ClustersType
<1>2. accepted \subseteq Nat /\ firsts \subseteq Nat
  BY <1>1 DEF PipelineConstants
<1>3. \A i \in 1 .. Len(work) :
         work[i].alerts = {b \in accepted : \E a \in firsts :
                              Place(a, firsts) = i /\ Entity[b] = Entity[a]}
  BY <1>1 DEF ClustersOf
<1>4. ASSUME NEW i \in 1 .. Len(work), NEW j \in 1 .. Len(work), i # j,
             NEW b \in work[i].alerts, b \in work[j].alerts
      PROVE  FALSE
  <2>1. PICK a \in firsts : Place(a, firsts) = i /\ Entity[b] = Entity[a]
    BY <1>3, <1>4
  <2>2. PICK c \in firsts : Place(c, firsts) = j /\ Entity[b] = Entity[c]
    BY <1>3, <1>4
  <2>3. a <= c /\ c <= a
    BY <1>1, <2>1, <2>2 DEF FirstsOf
  <2>4. a = c
    BY <1>2, <2>3
  <2>5. QED
    BY <1>4, <2>1, <2>2, <2>4
<1>5. ASSUME NEW b \in accepted
      PROVE  \E i \in 1 .. Len(work) : b \in work[i].alerts
  <2>. DEFINE group == {c \in accepted : Entity[c] = Entity[b]}
  <2>1. PICK a \in group : \A c \in group : a <= c
    BY <1>2, LeastExists
  <2>2. a \in firsts
    BY <2>1 DEF FirstsOf
  <2>3. Place(a, firsts) \in 1 .. Len(work)
    BY <1>1, <1>2, <2>2, PlaceInRange
  <2>4. b \in work[Place(a, firsts)].alerts
    BY <1>3, <2>1, <2>2, <2>3
  <2>5. QED
    BY <2>3, <2>4
<1>6. \A i \in 1 .. Len(work) : work[i].alerts \subseteq accepted
  BY <1>3
<1>. HIDE DEF work
<1>7. QED
  BY <1>4, <1>5, <1>6 DEF work

\* No more incidents than items.
LEMMA IncidentsType ==
  ASSUME PipelineConstants, NEW items \in Seq(Triage),
         Len(items) <= Cardinality(AlertIds)
  PROVE  IncidentsOf(items) \in Seq(Incident)
<1>. DEFINE qualifying == QualifyingOf(items)
            n == Cardinality(qualifying)
            incident(k) == [index |-> k,
                members |-> {items[i].target :
                    i \in {j \in qualifying : Place(j, qualifying) = k}}]
<1>1. Len(items) \in Nat /\ DOMAIN items = 1 .. Len(items)
  BY LenProperties
<1>2. qualifying \subseteq 1 .. Len(items)
  BY <1>1 DEF QualifyingOf
<1>3. IsFiniteSet(1 .. Len(items)) /\ Cardinality(1 .. Len(items)) = Len(items)
  <2>. DEFINE last == Len(items)
  <2>1. last \in Nat
    BY <1>1
  <2>. HIDE DEF last
  <2>2. /\ IsFiniteSet(1 .. last)
        /\ Cardinality(1 .. last) = IF 1 > last THEN 0 ELSE last - 1 + 1
    BY <2>1, FS_Interval
  <2>3. Cardinality(1 .. last) = last
    BY <2>1, <2>2
  <2>4. QED
    BY <2>2, <2>3 DEF last
<1>4. IsFiniteSet(qualifying) /\ n <= Len(items)
  <2>. HIDE DEF qualifying
  <2>1. IsFiniteSet(qualifying) /\ Cardinality(qualifying) <= Cardinality(1 .. Len(items))
    BY <1>2, <1>3, FS_Subset
  <2>2. QED
    BY <1>3, <2>1
<1>5. n \in Nat /\ Cardinality(AlertIds) \in Nat
  BY <1>4, FS_CardinalityType DEF PipelineConstants
<1>6. ASSUME NEW i \in 1 .. Len(items)
      PROVE  items[i].target \in Candidate
  <2>1. items[i] \in Triage
    BY ElementOfSeq
  <2>2. QED
    BY <2>1 DEF Triage
<1>7. ASSUME NEW k \in 1 .. n
      PROVE  incident(k) \in Incident
  <2>. DEFINE targets == {items[i].target :
                   i \in {j \in qualifying : Place(j, qualifying) = k}}
  <2>1. targets \in SUBSET Candidate
    BY <1>2, <1>6
  <2>2. k \in 1 .. Cardinality(AlertIds)
    BY <1>1, <1>4, <1>5
  <2>. HIDE DEF targets
  <2>3. [index |-> k, members |-> targets] \in Incident
    BY <2>1, <2>2 DEF Incident
  <2>4. QED
    BY <2>3 DEF targets
<1>8. [k \in 1 .. n |-> incident(k)] \in [1 .. n -> Incident]
  BY <1>7
<1>9. IncidentsOf(items) = [k \in 1 .. n |-> incident(k)]
  BY DEF IncidentsOf
<1>. HIDE DEF n, incident
<1>10. QED
  BY <1>5, <1>8, <1>9

-----------------------------------------------------------------------------
(* Where a run goes.                                                       *)

LEMMA IdleShape ==
  ASSUME PipelineConstants
  PROVE  IdleRun \in Run /\ Shape(IdleRun)
<1>1. <<>> \in Seq(Candidate) /\ <<>> \in Seq(Triage) /\ <<>> \in Seq(Incident)
      /\ Len(<<>>) = 0
  BY EmptySeq
<1>2. Cardinality(AlertIds) \in Nat
  BY FS_CardinalityType DEF PipelineConstants
<1>3. IdleRun \in Run
  BY <1>1 DEF IdleRun, Run
<1>4. Shape(IdleRun)
  BY <1>1, <1>2 DEF IdleRun, Shape, Intake, Taking, Processing, Scored
<1>5. QED
  BY <1>3, <1>4

\* The event at hand is one of the batch.
LEMMA CurrentEvent ==
  ASSUME PipelineConstants, NEW r \in Run, r.todo # {}
  PROVE  /\ Min(r.todo) \in r.todo /\ Min(r.todo) \in Events
         /\ AlertOf[Min(r.todo)] # Unusable => AlertOf[Min(r.todo)] \in AlertIds
<1>1. r.todo \in SUBSET Events
  BY DEF Run
<1>2. r.todo \in SUBSET Nat
  BY <1>1 DEF PipelineConstants
<1>3. Min(r.todo) \in r.todo
  BY <1>2, MinOf
<1>4. QED
  BY <1>1, <1>3 DEF PipelineConstants

LEMMA AfterEventShape ==
  ASSUME PipelineConstants, NEW r \in Run, Shape(r), r.pc \in Intake
  PROVE  /\ AfterEvent(r) \in Run /\ Shape(AfterEvent(r))
         /\ AfterEvent(r).pc = "checkRaw"
         /\ AfterEvent(r).accepted = r.accepted
         /\ AfterEvent(r).work = r.work
<1>1. AfterEvent(r) = [r EXCEPT !.todo = r.todo \ {Min(r.todo)}, !.pc = "checkRaw"]
  BY DEF AfterEvent
<1>2. AfterEvent(r) \in Run
  <2>. DEFINE later == r.todo \ {Min(r.todo)}
  <2>1. later \in SUBSET Events
    BY DEF Run
  <2>. HIDE DEF later
  <2>2. [r EXCEPT !.todo = later, !.pc = "checkRaw"] \in Run
    BY <2>1 DEF Run
  <2>3. QED
    BY <1>1, <2>2 DEF later
<1>3. /\ AfterEvent(r).pc = "checkRaw"
      /\ AfterEvent(r).accepted = r.accepted
      /\ AfterEvent(r).work = r.work
      /\ AfterEvent(r).items = r.items
  BY <1>1 DEF Run
<1>. DEFINE s == AfterEvent(r)
<1>. HIDE DEF s
<1>4. /\ s.pc = "checkRaw" /\ s.work = r.work /\ s.items = r.items
  BY <1>3 DEF s
<1>5. Shape(s)
  BY <1>4 DEF Shape, Intake, Taking, Processing, Scored
<1>6. QED
  BY <1>2, <1>3, <1>5 DEF s

LEMMA AcceptingShape ==
  ASSUME PipelineConstants, NEW r \in Run, Shape(r), r.pc \in Intake,
         NEW a \in AlertIds
  PROVE  /\ Accepting(r, a) \in Run /\ Shape(Accepting(r, a))
         /\ Accepting(r, a).pc = "checkRaw"
         /\ Accepting(r, a).accepted = r.accepted \cup {a}
         /\ Accepting(r, a).work = r.work
<1>. DEFINE s == [r EXCEPT !.accepted = r.accepted \cup {a}]
<1>1. Accepting(r, a) = AfterEvent(s)
  BY DEF Accepting
<1>2. s \in Run
  BY DEF Run
<1>3. /\ s.pc = r.pc /\ s.todo = r.todo /\ s.work = r.work /\ s.items = r.items
      /\ s.accepted = r.accepted \cup {a}
  BY DEF Run
<1>. HIDE DEF s
<1>4. Shape(s)
  BY <1>3 DEF Shape, Intake, Taking, Processing, Scored
<1>5. QED
  BY <1>1, <1>2, <1>3, <1>4, AfterEventShape

\* After a candidate comes the next, or the first incident, or nothing.
LEMMA AfterCandidateShape ==
  ASSUME PipelineConstants, NEW r \in Run, r.work # <<>>, r.accepted = {},
         Len(r.items) + Len(Tail(r.work)) <= Cardinality(AlertIds)
  PROVE  /\ AfterCandidate(r) \in Run /\ Shape(AfterCandidate(r))
         /\ AfterCandidate(r).pc \in {"saveCandidate", "promote", "idle"}
         /\ AfterCandidate(r).accepted = {}
         /\ AfterCandidate(r).work = Tail(r.work)
<1>. DEFINE rest == [r EXCEPT !.work = Tail(r.work), !.score = NoScore]
            next == [rest EXCEPT !.pc = "saveCandidate"]
            due == IncidentsOf(rest.items)
            last == [rest EXCEPT !.pc = "promote", !.due = due]
<1>1. /\ r.work \in Seq(Candidate) /\ r.items \in Seq(Triage)
      /\ Tail(r.work) \in Seq(Candidate)
      /\ Len(Tail(r.work)) \in Nat /\ Len(r.items) \in Nat
      /\ Cardinality(AlertIds) \in Nat
  <2>1. r.work \in Seq(Candidate) /\ r.items \in Seq(Triage)
    BY DEF Run
  <2>2. Tail(r.work) \in Seq(Candidate)
    BY <2>1, HeadTailProperties
  <2>3. QED
    BY <2>1, <2>2, LenProperties, FS_CardinalityType DEF PipelineConstants
<1>2. rest \in Run
  BY <1>1 DEF Run
<1>3. /\ rest.work = Tail(r.work) /\ rest.items = r.items /\ rest.accepted = {}
  BY DEF Run
<1>4. AfterCandidate(r) = IF rest.work # <<>> THEN next
                          ELSE IF IncidentsOf(rest.items) = <<>> THEN IdleRun ELSE last
  BY DEF AfterCandidate
<1>. HIDE DEF rest
<1>5. CASE rest.work # <<>>
  <2>1. next \in Run /\ next.pc = "saveCandidate" /\ next.work = rest.work
        /\ next.accepted = {} /\ next.items = r.items
    BY <1>2, <1>3 DEF Run
  <2>. HIDE DEF next
  <2>2. Shape(next)
    BY <1>3, <1>5, <2>1 DEF Shape, Intake, Taking, Processing, Scored
  <2>3. QED
    BY <1>3, <1>4, <1>5, <2>1, <2>2
<1>6. CASE rest.work = <<>> /\ IncidentsOf(rest.items) = <<>>
  <2>1. IdleRun.pc = "idle" /\ IdleRun.accepted = {} /\ IdleRun.work = <<>>
    BY DEF IdleRun
  <2>2. QED
    BY <1>3, <1>4, <1>6, <2>1, IdleShape
<1>7. CASE rest.work = <<>> /\ IncidentsOf(rest.items) # <<>>
  <2>1. due \in Seq(Incident) /\ due # <<>>
    <3>. DEFINE m == Len(r.items)
                n == Len(Tail(r.work))
                k == Cardinality(AlertIds)
    <3>0. m \in Nat /\ n \in Nat /\ k \in Nat /\ m + n <= k
      BY <1>1
    <3>. HIDE DEF m, n, k
    <3>1. m <= k
      BY <3>0
    <3>2. IncidentsOf(r.items) \in Seq(Incident)
      BY <1>1, <3>1, IncidentsType DEF m, k
    <3>3. QED
      BY <1>3, <1>7, <3>2
  <2>. HIDE DEF due
  <2>2. last \in Run /\ last.pc = "promote" /\ last.work = rest.work
        /\ last.accepted = {} /\ last.items = r.items
        /\ last.due = due
    BY <1>2, <1>3, <2>1 DEF Run
  <2>. HIDE DEF last
  <2>3. Shape(last)
    BY <1>3, <1>7, <2>1, <2>2 DEF Shape, Intake, Taking, Processing, Scored
  <2>4. AfterCandidate(r) = last
    BY <1>4, <1>7 DEF last, due
  <2>5. QED
    BY <1>3, <2>2, <2>3, <2>4
<1>8. QED
  BY <1>5, <1>6, <1>7

\* An error that is collected loses nothing the run has in hand.
LEMMA ContinuedShape ==
  ASSUME PipelineConstants, NEW r \in Run, Shape(r),
         r.pc \in (Intake \cup Processing \cup {"promote"}) \ {"triage", "report"},
         r.pc = "checkRaw" => r.todo # {},
         r.pc = "checkAlert" => AlertOf[Min(r.todo)] # Unusable
  PROVE  /\ Continued(r) \in Run /\ Shape(Continued(r))
         /\ \A a \in AlertIds : Carries(r, a) => Carries(Continued(r), a)
         /\ \A e \in Events : Handles(r, e) =>
                Handles(Continued(r), e) \/ Carries(Continued(r), AlertOf[e])
<1>1. CASE r.pc \in (Intake \cup Processing) \ {"triage", "report", "saveAlert"}
  <2>. DEFINE to == CASE r.pc \in {"checkRaw", "markRaw"} -> "saveRaw"
                      [] r.pc = "saveRaw" -> "checkAlert"
                      [] r.pc \in {"checkAlert", "markAlert"} -> "saveAlert"
                      [] r.pc = "saveCandidate" -> "triage"
                      [] r.pc = "saveTriage" -> "saveRouting"
                      [] r.pc = "saveRouting" ->
                           IF ActionFor(r.score) = "queue_review" THEN "enqueue" ELSE "report"
                      [] r.pc = "enqueue" -> "report"
              s == [r EXCEPT !.pc = to]
  <2>1. /\ r.pc \in {"checkRaw", "markRaw"} => to = "saveRaw"
        /\ r.pc = "saveRaw" => to = "checkAlert"
        /\ r.pc \in {"checkAlert", "markAlert"} => to = "saveAlert"
        /\ r.pc = "saveCandidate" => to = "triage"
        /\ r.pc = "saveTriage" => to = "saveRouting"
        /\ r.pc = "saveRouting" => to \in {"enqueue", "report"}
        /\ r.pc = "enqueue" => to = "report"
    BY <1>1 DEF Intake, Taking, Processing, Scored
  <2>2. Continued(r) = s
    BY <1>1 DEF Continued, Intake, Taking, Processing, Scored
  <2>. HIDE DEF to
  <2>3. s \in Run
    BY <1>1, <2>1 DEF Run, Intake, Taking, Processing, Scored
  <2>4. /\ s.pc = to /\ s.todo = r.todo /\ s.accepted = r.accepted
        /\ s.work = r.work /\ s.items = r.items /\ s.score = r.score
    BY DEF Run
  <2>. HIDE DEF s
  <2>5. Shape(s)
    BY <1>1, <2>1, <2>4 DEF Shape, Intake, Taking, Processing, Scored
  <2>6. \A a \in AlertIds : Carries(r, a) => Carries(s, a)
    BY <1>1, <2>4 DEF Carries
  <2>7. \A e \in Events : Handles(r, e) => Handles(s, e)
    BY <1>1, <2>1, <2>4 DEF Handles
  <2>8. QED
    BY <2>2, <2>3, <2>5, <2>6, <2>7
<1>2. CASE r.pc = "saveAlert"
  <2>. DEFINE a == AlertOf[Min(r.todo)]
              s == Accepting(r, a)
  <2>1. Continued(r) = s
    BY <1>2 DEF Continued
  <2>2. a \in AlertIds
    BY <1>2, CurrentEvent DEF Shape, Taking
  <2>3. /\ s \in Run /\ Shape(s)
        /\ s.accepted = r.accepted \cup {a} /\ s.work = r.work
    BY <1>2, <2>2, AcceptingShape DEF Intake, Taking
  <2>. HIDE DEF s
  <2>4. \A b \in AlertIds : Carries(r, b) => Carries(s, b)
    BY <1>2, <2>3 DEF Carries
  <2>5. \A e \in Events : Handles(r, e) => Carries(s, AlertOf[e])
    BY <2>3 DEF Handles, Carries
  <2>6. QED
    BY <2>1, <2>3, <2>4, <2>5
<1>3. CASE r.pc = "promote"
  <2>. DEFINE s == [r EXCEPT !.due = Tail(r.due)]
  <2>1. r.due \in Seq(Incident) /\ r.due # <<>>
    BY <1>3 DEF Run, Shape
  <2>2. Tail(r.due) \in Seq(Incident) /\ Len(Tail(r.due)) = Len(r.due) - 1
        /\ Len(r.due) \in Nat \ {0}
    BY <2>1, HeadTailProperties, EmptySeq
  <2>3. Continued(r) = IF Len(r.due) = 1 THEN IdleRun ELSE s
    BY <1>3 DEF Continued
  <2>4. r.work = <<>> /\ r.accepted = {}
    BY <1>3 DEF Shape, Intake, Taking, Processing, Scored
  <2>5. \A a \in AlertIds : ~Carries(r, a)
    BY <1>3, <2>4 DEF Carries
  <2>6. \A e \in Events : ~Handles(r, e)
    BY <1>3 DEF Handles
  <2>7. CASE Len(r.due) = 1
    BY <2>3, <2>5, <2>6, <2>7, IdleShape
  <2>8. CASE Len(r.due) # 1
    <3>1. s \in Run /\ s.pc = "promote" /\ s.accepted = {} /\ s.work = <<>>
          /\ s.items = r.items /\ s.due = Tail(r.due)
      BY <1>3, <2>2, <2>4 DEF Run
    <3>2. Tail(r.due) # <<>>
      <4>1. Len(r.due) - 1 # 0
        BY <2>2, <2>8
      <4>2. Len(Tail(r.due)) # 0
        BY <2>2, <4>1
      <4>3. QED
        BY <4>2, EmptySeq
    <3>. HIDE DEF s
    <3>3. Shape(s)
      BY <1>3, <2>4, <3>1, <3>2 DEF Shape, Intake, Taking, Processing, Scored
    <3>4. QED
      BY <2>3, <2>5, <2>6, <2>8, <3>1, <3>3
  <2>9. QED
    BY <2>7, <2>8
<1>4. QED
  BY <1>1, <1>2, <1>3

LEMMA MoveShape ==
  ASSUME NEW r \in Run, Shape(r), NEW to \in Intake \cup Processing,
         to \in Intake => r.pc \in Intake,
         to \in Processing <=> r.pc \in Processing,
         to \in Taking => r.todo # {},
         to \in {"markAlert", "saveAlert"} => AlertOf[Min(r.todo)] # Unusable,
         to \in Scored => r.score \in Scores
  PROVE  LET s == [r EXCEPT !.pc = to] IN
         /\ s \in Run /\ Shape(s)
         /\ s.pc = to /\ s.todo = r.todo /\ s.accepted = r.accepted
         /\ s.work = r.work
<1>. DEFINE s == [r EXCEPT !.pc = to]
<1>1. s \in Run
  BY DEF Run, Intake, Taking, Processing, Scored
<1>2. /\ s.pc = to /\ s.todo = r.todo /\ s.accepted = r.accepted
      /\ s.work = r.work /\ s.items = r.items /\ s.score = r.score
  BY DEF Run
<1>. HIDE DEF s
<1>3. Shape(s)
  BY <1>2 DEF Shape, Intake, Taking, Processing, Scored
<1>4. QED
  BY <1>1, <1>2, <1>3 DEF s

\* There are never more items and candidates than alerts.
LEMMA RoomLeft ==
  ASSUME PipelineConstants, NEW r \in Run, Shape(r), r.work # <<>>
  PROVE  /\ Len(r.items) + Len(Tail(r.work)) <= Cardinality(AlertIds)
         /\ Len(r.items) + 1 + Len(Tail(r.work)) <= Cardinality(AlertIds)
<1>. DEFINE m == Len(r.items)
            n == Len(r.work)
            k == Cardinality(AlertIds)
<1>1. r.work \in Seq(Candidate) /\ r.items \in Seq(Triage)
  BY DEF Run
<1>2. m \in Nat /\ n \in Nat \ {0} /\ k \in Nat /\ m + n <= k /\ Len(Tail(r.work)) = n - 1
  BY <1>1, LenProperties, EmptySeq, HeadTailProperties, FS_CardinalityType
  DEF PipelineConstants, Shape
<1>. HIDE DEF m, n, k
<1>3. m + (n - 1) <= k /\ m + 1 + (n - 1) <= k
  BY <1>2
<1>4. QED
  BY <1>2, <1>3 DEF m, k

-----------------------------------------------------------------------------
(* What each step does to its run.                                         *)

\* Where only the place in the run changes.
LEMMA MovesWell ==
  ASSUME TypeInv, NEW p \in Procs, NEW to \in Intake \cup Processing,
         Moves(p, to),
         to \in Intake => run[p].pc \in Intake,
         to \in Processing <=> run[p].pc \in Processing,
         to \in Taking => run[p].todo # {},
         to \in {"markAlert", "saveAlert"} => CurrentAlert(p) # Unusable,
         to \in Scored => run[p].score \in Scores
  PROVE  /\ \E s \in Run : Shape(s) /\ run' = [run EXCEPT ![p] = s]
         /\ run'[p].pc = to /\ run'[p].todo = run[p].todo
         /\ run'[p].accepted = run[p].accepted /\ run'[p].work = run[p].work
<1>. DEFINE r == run[p]
            s == [r EXCEPT !.pc = to]
<1>1. r \in Run /\ Shape(r)
  BY DEF TypeInv, TypeOK, Shapes
<1>2. run' = [run EXCEPT ![p] = s] /\ run'[p] = s
  BY DEF Moves, Goes, TypeInv, TypeOK
<1>3. to \in {"markAlert", "saveAlert"} => AlertOf[Min(r.todo)] # Unusable
  BY DEF CurrentAlert, Current
<1>. HIDE DEF r
<1>4. /\ s \in Run /\ Shape(s)
      /\ s.pc = to /\ s.todo = r.todo /\ s.accepted = r.accepted
      /\ s.work = r.work
  BY <1>1, <1>3, MoveShape DEF r
<1>. HIDE DEF s
<1>5. QED
  BY <1>2, <1>4 DEF r

\* A call that raises.
LEMMA ErrorWell ==
  ASSUME PipelineConstants, TypeInv, NEW p \in Procs, HandleError(p),
         run[p].pc \in (Intake \cup Processing \cup {"promote"})
                           \ {"triage", "report"},
         run[p].pc = "checkRaw" => run[p].todo # {},
         run[p].pc = "checkAlert" => CurrentAlert(p) # Unusable,
         dedup' = dedup
  PROVE  StepsWell(p)
<1>. DEFINE r == run[p]
<1>1. r \in Run /\ Shape(r)
  BY DEF TypeInv, TypeOK, Shapes
<1>2. CASE FailFast
  <2>1. run' = [run EXCEPT ![p] = IdleRun]
    BY <1>2 DEF HandleError, Goes
  <2>2. CutShort'
    BY <1>2 DEF CutShort
  <2>3. QED
    BY <2>1, <2>2, IdleShape DEF StepsWell
<1>3. CASE ~FailFast
  <2>. DEFINE s == Continued(r)
  <2>1. run' = [run EXCEPT ![p] = s]
    BY <1>3 DEF HandleError, Goes
  <2>2. run'[p] = s
    BY <2>1 DEF TypeInv, TypeOK
  <2>. HIDE DEF r
  <2>3. /\ s \in Run /\ Shape(s)
        /\ \A a \in AlertIds : Carries(r, a) => Carries(s, a)
        /\ \A e \in Events : Handles(r, e) => Handles(s, e) \/ Carries(s, AlertOf[e])
    BY <1>1, ContinuedShape DEF r, CurrentAlert, Current
  <2>. HIDE DEF s
  <2>4. DropsNothing(p)
    BY <2>2, <2>3 DEF DropsNothing, r
  <2>5. QED
    BY <2>1, <2>3, <2>4 DEF StepsWell
<1>4. QED
  BY <1>2, <1>3

\* The intake of an event.
LEMMA IntakeWell ==
  ASSUME PipelineConstants, TypeInv, NEW p \in Procs,
         \/ CheckRaw(p) \/ MarkRaw(p) \/ SaveRaw(p)
         \/ CheckAlert(p) \/ MarkAlert(p) \/ SaveAlert(p)
  PROVE  StepsWell(p)
<1>. DEFINE r == run[p]
<1>1. r \in Run /\ Shape(r) /\ run \in [Procs -> Run]
  BY DEF TypeInv, TypeOK, Shapes
<1>2. r.pc \in Intake => r.work = <<>>
  BY <1>1 DEF Shape, Intake, Taking, Processing, Scored
<1>3. /\ r.pc \in Taking => r.todo # {}
      /\ r.todo # {} => Current(p) \in Events
      /\ r.todo # {} /\ CurrentAlert(p) # Unusable => CurrentAlert(p) \in AlertIds
      /\ r.pc \in {"markAlert", "saveAlert"} => CurrentAlert(p) # Unusable
  BY <1>1, CurrentEvent DEF Current, CurrentAlert, Shape
<1>4. ASSUME Goes(p, AfterEvent(r)), r.pc \in Intake
      PROVE  /\ \E s \in Run : Shape(s) /\ run' = [run EXCEPT ![p] = s]
             /\ run'[p].accepted = r.accepted /\ run'[p].work = r.work
  <2>1. run' = [run EXCEPT ![p] = AfterEvent(r)] /\ run'[p] = AfterEvent(r)
    BY <1>1, <1>4 DEF Goes
  <2>. HIDE DEF r
  <2>2. QED
    BY <1>1, <1>4, <2>1, AfterEventShape
<1>5. CASE CheckRaw(p)
  <2>1. r.pc = "checkRaw" /\ r.todo # {} /\ UNCHANGED <<dedup, decided>>
    BY <1>5 DEF CheckRaw, At
  <2>2. CASE <<"raw", Current(p)>> \in dedup
    <3>1. Goes(p, AfterEvent(r))
      BY <1>5, <2>2 DEF CheckRaw
    <3>2. DropsNothing(p)
      BY <1>4, <2>1, <3>1 DEF DropsNothing, Carries, Handles, Intake
    <3>3. QED
      BY <1>4, <2>1, <3>1, <3>2 DEF StepsWell, Intake
  <2>3. CASE <<"raw", Current(p)>> \notin dedup
    <3>1. Moves(p, "markRaw")
      BY <1>5, <2>3 DEF CheckRaw
    <3>2. /\ \E s \in Run : Shape(s) /\ run' = [run EXCEPT ![p] = s]
          /\ run'[p].accepted = r.accepted /\ run'[p].work = r.work
      BY <2>1, <3>1, MovesWell DEF Intake, Taking, Processing, Scored
    <3>3. DropsNothing(p)
      BY <2>1, <3>2 DEF DropsNothing, Carries, Handles
    <3>4. QED
      BY <3>2, <3>3 DEF StepsWell
  <2>4. QED
    BY <2>2, <2>3
<1>6. CASE MarkRaw(p)
  <2>1. /\ r.pc = "markRaw" /\ dedup' = dedup \cup {<<"raw", Current(p)>>}
        /\ Moves(p, "saveRaw") /\ UNCHANGED decided
    BY <1>6 DEF MarkRaw, At
  <2>2. /\ \E s \in Run : Shape(s) /\ run' = [run EXCEPT ![p] = s]
        /\ run'[p].accepted = r.accepted /\ run'[p].work = r.work
        /\ run'[p].pc = "saveRaw" /\ run'[p].todo = r.todo
    BY <1>3, <2>1, MovesWell DEF Intake, Taking, Processing, Scored
  <2>3. DropsNothing(p)
    BY <2>1, <2>2 DEF DropsNothing, Carries, Handles, Current
  <2>4. QED
    BY <2>2, <2>3 DEF StepsWell
<1>7. CASE SaveRaw(p)
  <2>1. r.pc = "saveRaw" /\ Moves(p, "checkAlert") /\ UNCHANGED <<dedup, decided>>
    BY <1>7 DEF SaveRaw, At
  <2>2. /\ \E s \in Run : Shape(s) /\ run' = [run EXCEPT ![p] = s]
        /\ run'[p].accepted = r.accepted /\ run'[p].work = r.work
        /\ run'[p].pc = "checkAlert" /\ run'[p].todo = r.todo
    BY <1>3, <2>1, MovesWell DEF Intake, Taking, Processing, Scored
  <2>3. DropsNothing(p)
    BY <2>1, <2>2 DEF DropsNothing, Carries, Handles
  <2>4. QED
    BY <2>2, <2>3 DEF StepsWell
<1>8. CASE CheckAlert(p)
  <2>1. r.pc = "checkAlert" /\ UNCHANGED <<dedup, decided>>
    BY <1>8 DEF CheckAlert, At
  <2>2. CASE CurrentAlert(p) = Unusable /\ FailFast
    <3>1. run' = [run EXCEPT ![p] = IdleRun] /\ CutShort'
      BY <1>8, <2>2 DEF CheckAlert, Goes, CutShort
    <3>2. QED
      BY <3>1, IdleShape DEF StepsWell
  <2>3. CASE \/ CurrentAlert(p) = Unusable /\ ~FailFast
             \/ CurrentAlert(p) # Unusable /\ <<"alert", CurrentAlert(p)>> \in dedup
    <3>1. Goes(p, AfterEvent(r))
      BY <1>8, <2>3 DEF CheckAlert
    <3>2. DropsNothing(p)
      BY <1>4, <2>1, <2>3, <3>1
      DEF DropsNothing, Carries, Handles, Current, CurrentAlert, Intake, Taking
    <3>3. QED
      BY <1>4, <2>1, <3>1, <3>2 DEF StepsWell, Intake, Taking
  <2>4. CASE CurrentAlert(p) # Unusable /\ <<"alert", CurrentAlert(p)>> \notin dedup
    <3>1. Moves(p, "markAlert")
      BY <1>8, <2>4 DEF CheckAlert
    <3>2. /\ \E s \in Run : Shape(s) /\ run' = [run EXCEPT ![p] = s]
          /\ run'[p].accepted = r.accepted /\ run'[p].work = r.work
          /\ run'[p].pc = "markAlert" /\ run'[p].todo = r.todo
      BY <1>3, <2>1, <2>4, <3>1, MovesWell DEF Intake, Taking, Processing, Scored
    <3>3. DropsNothing(p)
      BY <2>1, <3>2 DEF DropsNothing, Carries, Handles
    <3>4. QED
      BY <3>2, <3>3 DEF StepsWell
  <2>5. QED
    BY <2>2, <2>3, <2>4
<1>9. CASE MarkAlert(p)
  <2>1. /\ r.pc = "markAlert" /\ dedup' = dedup \cup {<<"alert", CurrentAlert(p)>>}
        /\ Moves(p, "saveAlert") /\ UNCHANGED decided
    BY <1>9 DEF MarkAlert, At
  <2>2. /\ \E s \in Run : Shape(s) /\ run' = [run EXCEPT ![p] = s]
        /\ run'[p].accepted = r.accepted /\ run'[p].work = r.work
        /\ run'[p].pc = "saveAlert" /\ run'[p].todo = r.todo
    BY <1>3, <2>1, MovesWell DEF Intake, Taking, Processing, Scored
  <2>3. DropsNothing(p)
    BY <2>1, <2>2 DEF DropsNothing, Carries, Handles, Current, CurrentAlert
  <2>4. QED
    BY <2>2, <2>3 DEF StepsWell
<1>10. CASE SaveAlert(p)
  <2>1. r.pc = "saveAlert" /\ UNCHANGED <<dedup, decided>>
    BY <1>10 DEF SaveAlert, At
  <2>2. CASE Current(p) \in rawEvents
    <3>. DEFINE s == Accepting(r, CurrentAlert(p))
    <3>1. run' = [run EXCEPT ![p] = s]
      BY <1>10, <2>2 DEF SaveAlert, Goes
    <3>2. CurrentAlert(p) \in AlertIds
      BY <1>3, <2>1 DEF Taking
    <3>3. /\ s \in Run /\ Shape(s)
          /\ s.accepted = r.accepted \cup {CurrentAlert(p)} /\ s.work = r.work
      <4>. HIDE DEF r
      <4>1. QED
        BY <1>1, <2>1, <3>2, AcceptingShape DEF Intake, Taking
    <3>. HIDE DEF s
    <3>4. run'[p] = s
      BY <1>1, <3>1
    <3>5. DropsNothing(p)
      BY <2>1, <3>3, <3>4 DEF DropsNothing, Carries, Handles, Current, CurrentAlert
    <3>6. QED
      BY <3>1, <3>3, <3>5 DEF StepsWell
  <2>3. CASE Current(p) \notin rawEvents
    <3>1. HandleError(p)
      BY <1>10, <2>3 DEF SaveAlert
    <3>2. QED
      BY <2>1, <3>1, ErrorWell DEF Intake, Taking
  <2>4. QED
    BY <2>2, <2>3
<1>11. QED
  BY <1>5, <1>6, <1>7, <1>8, <1>9, <1>10

\* The candidates and the incidents.
LEMMA ProcessingWell ==
  ASSUME PipelineConstants, TypeInv, NEW p \in Procs,
         \/ Cluster(p) \/ SaveCandidate(p)
         \/ \E score \in Scores : TriageCandidate(p, score)
         \/ SaveTriage(p) \/ SaveRouting(p) \/ Enqueue(p) \/ Report(p)
         \/ SaveIncident(p)
  PROVE  StepsWell(p)
<1>. DEFINE r == run[p]
<1>1. r \in Run /\ Shape(r) /\ run \in [Procs -> Run]
  BY DEF TypeInv, TypeOK, Shapes
<1>2. r.pc \in Processing => r.work # <<>> /\ r.accepted = {}
  BY <1>1 DEF Shape, Intake, Taking, Processing, Scored
<1>3. r.pc \in Scored => r.score \in Scores
  BY <1>1 DEF Shape
<1>4. ASSUME NEW to \in Processing, r.pc \in Processing, Moves(p, to),
             to \in Scored => r.score \in Scores, UNCHANGED <<dedup, decided>>
      PROVE  StepsWell(p)
  <2>1. /\ \E s \in Run : Shape(s) /\ run' = [run EXCEPT ![p] = s]
        /\ run'[p].accepted = r.accepted /\ run'[p].work = r.work
    BY <1>4, MovesWell DEF Intake, Taking, Processing, Scored
  <2>2. DropsNothing(p)
    BY <1>4, <2>1 DEF DropsNothing, Carries, Handles, Processing, Scored
  <2>3. QED
    BY <2>1, <2>2 DEF StepsWell
<1>5. CASE Cluster(p)
  <2>1. r.pc = "checkRaw" /\ UNCHANGED <<dedup, decided>> /\ r.work = <<>>
    BY <1>1, <1>5 DEF Cluster, At, Shape, Processing, Scored
  <2>2. CASE r.accepted = {}
    <3>1. run' = [run EXCEPT ![p] = IdleRun]
      BY <1>5, <2>2 DEF Cluster, Goes
    <3>2. DropsNothing(p)
      BY <2>1, <2>2 DEF DropsNothing, Carries, Handles
    <3>3. QED
      BY <3>1, <3>2, IdleShape DEF StepsWell
  <2>3. CASE r.accepted # {}
    <3>. DEFINE work == ClustersOf(r.accepted)
                s == [IdleRun EXCEPT !.pc = "saveCandidate", !.work = work]
    <3>1. run' = [run EXCEPT ![p] = s]
      BY <1>5, <2>3 DEF Cluster, Goes
    <3>2. r.accepted \in SUBSET AlertIds
      BY <1>1 DEF Run
    <3>3. /\ work \in Seq(Candidate) /\ Len(work) <= Cardinality(AlertIds)
          /\ \A a \in r.accepted : \E i \in 1 .. Len(work) : a \in work[i].alerts
      <4>. HIDE DEF r
      <4>1. /\ work \in Seq(Candidate)
            /\ Len(work) \in 0 .. Cardinality(AlertIds)
        BY <3>2, ClustersType
      <4>2. \A a \in r.accepted : \E i \in 1 .. Len(work) : a \in work[i].alerts
        BY <3>2, ClustersPartition
      <4>3. Cardinality(AlertIds) \in Nat
        BY FS_CardinalityType DEF PipelineConstants
      <4>4. QED
        BY <4>1, <4>2, <4>3
    <3>4. work # <<>>
      <4>1. PICK a \in r.accepted : TRUE
        BY <2>3
      <4>2. PICK i \in 1 .. Len(work) : a \in work[i].alerts
        BY <3>3
      <4>3. Len(work) # 0
        BY <4>2
      <4>4. QED
        BY <4>3, EmptySeq
    <3>. HIDE DEF work
    <3>5. s \in Run /\ s.pc = "saveCandidate" /\ s.work = work /\ s.accepted = {}
          /\ s.items = <<>>
      BY <3>3, IdleShape DEF Run, IdleRun
    <3>. HIDE DEF s
    <3>6. Len(s.items) + Len(s.work) <= Cardinality(AlertIds)
      <4>1. Len(s.items) = 0 /\ Len(work) \in Nat
        BY <3>3, <3>5, EmptySeq, LenProperties
      <4>2. QED
        BY <3>3, <3>5, <4>1
    <3>7. Shape(s)
      BY <3>4, <3>5, <3>6 DEF Shape, Intake, Taking, Processing, Scored
    <3>8. run'[p] = s
      BY <1>1, <3>1
    <3>9. DropsNothing(p)
      BY <2>1, <3>3, <3>5, <3>8 DEF DropsNothing, Carries, Handles
    <3>10. QED
      BY <3>1, <3>5, <3>7, <3>9 DEF StepsWell
  <2>4. QED
    BY <2>2, <2>3
<1>6. CASE SaveCandidate(p)
  <2>1. r.pc = "saveCandidate" /\ UNCHANGED <<dedup, decided>>
        /\ (Moves(p, "triage") \/ HandleError(p))
    BY <1>6 DEF SaveCandidate, At
  <2>2. QED
    BY <1>4, <2>1, ErrorWell DEF Intake, Taking, Processing, Scored
<1>7. CASE \E score \in Scores : TriageCandidate(p, score)
  <2>1. PICK score \in Scores : TriageCandidate(p, score)
    BY <1>7
  <2>. DEFINE s == [r EXCEPT !.pc = "saveTriage", !.score = score]
  <2>2. /\ r.pc = "triage" /\ UNCHANGED <<dedup, decided>>
        /\ run' = [run EXCEPT ![p] = s]
    BY <2>1 DEF TriageCandidate, At, Goes
  <2>3. s \in Run /\ s.pc = "saveTriage" /\ s.work = r.work /\ s.accepted = r.accepted
        /\ s.items = r.items /\ s.score = score
    BY <1>1 DEF Run
  <2>4. run'[p] = s
    BY <1>1, <2>2
  <2>. HIDE DEF s
  <2>5. Shape(s)
    BY <1>1, <1>2, <2>2, <2>3 DEF Shape, Intake, Taking, Processing, Scored
  <2>6. DropsNothing(p)
    BY <2>2, <2>3, <2>4 DEF DropsNothing, Carries, Handles
  <2>7. QED
    BY <2>2, <2>3, <2>5, <2>6 DEF StepsWell
<1>8. CASE SaveTriage(p)
  <2>1. r.pc = "saveTriage" /\ Moves(p, "saveRouting") /\ UNCHANGED <<dedup, decided>>
    BY <1>8 DEF SaveTriage, At
  <2>2. QED
    BY <1>3, <1>4, <2>1 DEF Processing, Scored
<1>9. CASE SaveRouting(p)
  <2>. DEFINE to == IF ActionFor(r.score) = "queue_review" THEN "enqueue" ELSE "report"
  <2>1. r.pc = "saveRouting" /\ UNCHANGED <<dedup, decided>>
        /\ (Goes(p, Continued(r)) \/ HandleError(p))
    BY <1>9 DEF SaveRouting, At
  <2>2. Goes(p, Continued(r)) => Moves(p, to)
    BY <2>1 DEF Continued, Moves
  <2>3. to \in Processing
    BY DEF Processing, Scored
  <2>. HIDE DEF to
  <2>4. CASE Goes(p, Continued(r))
    BY <1>3, <1>4, <2>1, <2>2, <2>3, <2>4 DEF Processing, Scored
  <2>5. CASE HandleError(p)
    BY <2>1, <2>5, ErrorWell DEF Intake, Taking, Processing, Scored
  <2>6. QED
    BY <2>1, <2>4, <2>5
<1>10. CASE Enqueue(p)
  <2>1. r.pc = "enqueue" /\ UNCHANGED <<dedup, decided>>
        /\ (Moves(p, "report") \/ HandleError(p))
    BY <1>10 DEF Enqueue, At
  <2>2. QED
    BY <1>3, <1>4, <2>1, ErrorWell DEF Intake, Taking, Processing, Scored
<1>11. CASE Report(p)
  <2>. DEFINE t == CurrentTriage(p)
              items == Append(r.items, t)
              s == [r EXCEPT !.items = items]
              d == AfterCandidate(s)
  <2>1. /\ r.pc = "report" /\ UNCHANGED dedup
        /\ run' = [run EXCEPT ![p] = d]
        /\ Delivered(CurrentCandidate(p).alerts)
    BY <1>11 DEF Report, At, Goes
  <2>2. r.work \in Seq(Candidate) /\ r.work # <<>> /\ r.accepted = {}
        /\ r.items \in Seq(Triage) /\ r.score \in Scores
    BY <1>1, <1>2, <1>3, <2>1 DEF Processing, Scored, Run
  <2>3. /\ Head(r.work) \in Candidate /\ Head(r.work) = r.work[1]
        /\ Tail(r.work) \in Seq(Candidate) /\ Len(Tail(r.work)) = Len(r.work) - 1
        /\ \A i \in 1 .. Len(Tail(r.work)) : Tail(r.work)[i] = r.work[i + 1]
        /\ Len(r.work) \in Nat \ {0}
    BY <2>2, HeadTailProperties, EmptySeq
  <2>4. t \in Triage
    BY <2>2, <2>3 DEF CurrentTriage, CurrentCandidate, Triage
  <2>5. items \in Seq(Triage) /\ Len(items) = Len(r.items) + 1 /\ Len(r.items) \in Nat
    BY <2>2, <2>4, AppendProperties, LenProperties
  <2>. HIDE DEF t, items
  <2>6. s \in Run /\ s.work = r.work /\ s.accepted = {} /\ s.items = items
    BY <1>1, <2>2, <2>5 DEF Run
  <2>7. Len(s.items) + Len(Tail(s.work)) <= Cardinality(AlertIds)
    <3>. HIDE DEF r
    <3>1. Len(r.items) + 1 + Len(Tail(r.work)) <= Cardinality(AlertIds)
      BY <1>1, <2>2, RoomLeft
    <3>2. QED
      BY <2>5, <2>6, <3>1
  <2>. HIDE DEF s
  <2>8. d \in Run /\ Shape(d) /\ d.work = Tail(r.work)
    BY <2>2, <2>6, <2>7, AfterCandidateShape
  <2>9. run'[p] = d
    BY <1>1, <2>1
  <2>. HIDE DEF d
  <2>10. ASSUME NEW a \in AlertIds, Carries(r, a)
         PROVE  Carries(d, a) \/ decided'[a] > 0
    <3>1. PICK i \in 1 .. Len(r.work) : a \in r.work[i].alerts
      BY <2>1, <2>2, <2>10 DEF Carries
    <3>2. CASE i = 1
      <4>1. a \in CurrentCandidate(p).alerts
        BY <2>3, <3>1, <3>2 DEF CurrentCandidate
      <4>2. decided[a] \in 0 .. 2
        BY DEF TypeInv, TypeOK
      <4>3. QED
        BY <2>1, <4>1, <4>2 DEF Delivered
    <3>3. CASE i # 1
      <4>1. i - 1 \in 1 .. Len(Tail(r.work)) /\ Tail(r.work)[i - 1] = r.work[i]
        <5>. HIDE DEF r
        <5>1. /\ Len(r.work) \in Nat /\ Len(Tail(r.work)) = Len(r.work) - 1
              /\ \A k \in 1 .. Len(Tail(r.work)) : Tail(r.work)[k] = r.work[k + 1]
          BY <2>3
        <5>2. i - 1 \in 1 .. Len(Tail(r.work)) /\ (i - 1) + 1 = i
          BY <3>3, <5>1
        <5>3. QED
          BY <5>1, <5>2
      <4>2. QED
        BY <2>8, <3>1, <4>1 DEF Carries
    <3>4. QED
      BY <3>2, <3>3
  <2>11. DropsNothing(p)
    BY <2>1, <2>9, <2>10 DEF DropsNothing, Handles
  <2>12. QED
    BY <2>1, <2>8, <2>11 DEF StepsWell
<1>12. CASE SaveIncident(p)
  <2>1. r.pc = "promote" /\ UNCHANGED <<dedup, decided>> /\ Goes(p, Continued(r))
    BY <1>12 DEF SaveIncident, At
  <2>. DEFINE s == Continued(r)
  <2>2. run' = [run EXCEPT ![p] = s] /\ run'[p] = s
    BY <1>1, <2>1 DEF Goes
  <2>. HIDE DEF r
  <2>3. /\ s \in Run /\ Shape(s)
        /\ \A a \in AlertIds : Carries(r, a) => Carries(s, a)
        /\ \A e \in Events : Handles(r, e) => Handles(s, e) \/ Carries(s, AlertOf[e])
    BY <1>1, <2>1, ContinuedShape DEF Intake, Taking, Processing, Scored
  <2>. HIDE DEF s
  <2>4. DropsNothing(p)
    BY <2>1, <2>2, <2>3 DEF DropsNothing, r
  <2>5. QED
    BY <2>2, <2>3, <2>4 DEF StepsWell
<1>13. QED
  BY <1>5, <1>6, <1>7, <1>8, <1>9, <1>10, <1>11, <1>12

LEMMA StartWell ==
  ASSUME PipelineConstants, TypeInv, NEW p \in Procs,
         NEW batch \in Batches, Start(p, batch)
  PROVE  StepsWell(p)
<1>. DEFINE s == [IdleRun EXCEPT !.pc = "checkRaw", !.todo = batch]
<1>1. /\ run[p].pc = "idle" /\ UNCHANGED <<dedup, decided>>
      /\ run' = [run EXCEPT ![p] = s]
  BY DEF Start, Idle, Goes
<1>2. run[p] \in Run /\ Shape(run[p])
  BY DEF TypeInv, TypeOK, Shapes
<1>3. run[p].work = <<>> /\ run[p].accepted = {}
  BY <1>1, <1>2 DEF Shape, Intake, Taking, Processing, Scored
<1>4. batch \subseteq Events
  BY DEF PipelineConstants
<1>5. s \in Run /\ s.pc = "checkRaw" /\ s.work = <<>> /\ s.items = <<>>
  BY <1>4, IdleShape DEF Run, IdleRun
<1>6. IdleRun.work = <<>> /\ IdleRun.items = <<>>
  BY DEF IdleRun
<1>. HIDE DEF s
<1>7. Shape(s)
  BY <1>5, <1>6, IdleShape DEF Shape, Intake, Taking, Processing, Scored
<1>8. DropsNothing(p)
  BY <1>1, <1>3 DEF DropsNothing, Carries, Handles
<1>9. QED
  BY <1>1, <1>5, <1>7, <1>8 DEF StepsWell

LEMMA FailureWell ==
  ASSUME PipelineConstants, TypeInv, NEW p \in Procs, Failure(p)
  PROVE  StepsWell(p)
<1>. DEFINE r == run[p]
<1>1. r \in Run /\ Shape(r) /\ run \in [Procs -> Run]
  BY DEF TypeInv, TypeOK, Shapes
<1>2. UNCHANGED <<dedup, decided>>
  BY DEF Failure, StoreFails, DedupFails, ComponentFails, ReportRaises, Crash, Fault
<1>3. CASE StoreFails(p)
  BY <1>2, <1>3, ErrorWell DEF StoreFails, Intake, Taking, Processing, Scored
<1>4. CASE DedupFails(p)
  <2>1. HandleError(p)
    BY <1>4 DEF DedupFails
  <2>2. \/ r.pc = "checkRaw" /\ r.todo # {}
        \/ r.pc \in {"markRaw", "markAlert"}
        \/ r.pc = "checkAlert" /\ CurrentAlert(p) # Unusable
    BY <1>4 DEF DedupFails, At
  <2>3. QED
    BY <1>2, <2>1, <2>2, ErrorWell DEF Intake, Taking, Processing, Scored
<1>5. ASSUME Goes(p, IdleRun), CutShort'
      PROVE  StepsWell(p)
  BY <1>5, IdleShape DEF StepsWell, Goes
<1>6. CASE ComponentFails(p)
  <2>1. CutShort'
    BY <1>6 DEF ComponentFails, Fault, CutShort
  <2>2. CASE Goes(p, IdleRun)
    BY <1>5, <2>1, <2>2
  <2>3. CASE r.pc \in Processing /\ Goes(p, AfterCandidate(r))
    <3>. DEFINE s == AfterCandidate(r)
    <3>1. r.work # <<>> /\ r.accepted = {} /\ r.work \in Seq(Candidate)
          /\ r.items \in Seq(Triage)
      BY <1>1, <2>3 DEF Shape, Run, Intake, Taking, Processing, Scored
    <3>. HIDE DEF r
    <3>2. Len(r.items) + Len(Tail(r.work)) <= Cardinality(AlertIds)
      BY <1>1, <3>1, RoomLeft
    <3>3. s \in Run /\ Shape(s)
      BY <1>1, <3>1, <3>2, AfterCandidateShape
    <3>. HIDE DEF s
    <3>4. QED
      BY <2>1, <2>3, <3>3 DEF StepsWell, Goes, s
  <2>4. QED
    BY <1>6, <2>2, <2>3 DEF ComponentFails, At, Processing, Scored
<1>7. CASE ReportRaises(p)
  BY <1>5, <1>7 DEF ReportRaises, Fault, CutShort
<1>8. CASE Crash(p)
  BY <1>5, <1>8 DEF Crash, Fault, CutShort
<1>9. QED
  BY <1>3, <1>4, <1>6, <1>7, <1>8 DEF Failure

-----------------------------------------------------------------------------
(* Types.                                                                  *)

LEMMA CurrentTyped ==
  ASSUME TypeInv, NEW p \in Procs
  PROVE  /\ run[p].pc \in Processing =>
                CurrentCandidate(p) \in Candidate /\ CurrentCandidate(p) = run[p].work[1]
         /\ run[p].pc \in Scored => CurrentTriage(p) \in Triage
         /\ run[p].pc = "promote" => Head(run[p].due) \in Incident
<1>1. run[p] \in Run /\ Shape(run[p])
  BY DEF TypeInv, TypeOK, Shapes
<1>2. ASSUME run[p].pc \in Processing
      PROVE  CurrentCandidate(p) \in Candidate /\ CurrentCandidate(p) = run[p].work[1]
  <2>1. run[p].work \in Seq(Candidate) /\ run[p].work # <<>>
    BY <1>1, <1>2 DEF Run, Shape
  <2>2. QED
    BY <2>1, HeadTailProperties DEF CurrentCandidate
<1>3. ASSUME run[p].pc \in Scored
      PROVE  CurrentTriage(p) \in Triage
  BY <1>1, <1>2, <1>3 DEF CurrentTriage, Triage, Shape, Processing
<1>4. ASSUME run[p].pc = "promote"
      PROVE  Head(run[p].due) \in Incident
  <2>1. run[p].due \in Seq(Incident) /\ run[p].due # <<>>
    BY <1>1, <1>4 DEF Run, Shape
  <2>2. QED
    BY <2>1, HeadTailProperties
<1>5. QED
  BY <1>2, <1>3, <1>4

\* TypeOK without what StepsWell says of the runs.
TablesOK ==
    /\ dedup \subseteq Key
    /\ rawEvents \subseteq Events
    /\ alerts \in [AlertIds -> Events \cup {NoRow}]
    /\ candidates \subseteq Candidate
    /\ links \subseteq candidates \X {a \in AlertIds : alerts[a] # NoRow}
    /\ triages \subseteq Triage /\ routings \subseteq triages
    /\ queue \subseteq triages /\ reviewed \subseteq queue
    /\ incidents \subseteq Incident
    /\ faults \in 0 .. MaxFaults /\ happened \subseteq Faults
    /\ expiries \in 0 .. MaxExpiries /\ resaved \subseteq AlertIds
    /\ decided \in [AlertIds -> 0 .. 2]

LEMMA StepTables ==
  ASSUME PipelineConstants, TypeInv, NEW p \in Procs, Step(p)
  PROVE  TablesOK'
<1>1. TablesOK /\ run[p] \in Run /\ Shape(run[p])
  BY DEF TypeInv, TypeOK, TablesOK, Shapes
<1>2. /\ run[p].pc \in Taking => Current(p) \in Events
      /\ run[p].pc \in {"markAlert", "saveAlert"} => CurrentAlert(p) \in AlertIds
  BY <1>1, CurrentEvent DEF Current, CurrentAlert, Shape, Taking
<1>3. CASE UNCHANGED <<dedup, tables, bounds, decided>>
  BY <1>1, <1>3 DEF TablesOK, tables, bounds
<1>4. CASE MarkRaw(p) \/ MarkAlert(p)
  <2>1. dedup' \subseteq Key
    BY <1>1, <1>2, <1>4 DEF MarkRaw, MarkAlert, At, Taking, Key, TablesOK
  <2>2. QED
    BY <1>1, <1>4, <2>1 DEF MarkRaw, MarkAlert, TablesOK, tables, bounds
<1>5. CASE SaveRaw(p)
  BY <1>1, <1>2, <1>5 DEF SaveRaw, At, Taking, TablesOK, bounds
<1>6. CASE SaveAlert(p)
  <2>1. CASE Current(p) \in rawEvents
    <3>1. /\ alerts' = [alerts EXCEPT ![CurrentAlert(p)] = Current(p)]
          /\ links' = {l \in links : l[2] # CurrentAlert(p)}
          /\ UNCHANGED <<dedup, rawEvents, candidates, triages, routings, queue,
                         reviewed, incidents, faults, expiries, happened, decided>>
      BY <1>6, <2>1 DEF SaveAlert
    <3>2. Current(p) \in Events /\ CurrentAlert(p) \in AlertIds /\ Current(p) # NoRow
      BY <1>2, <1>6 DEF SaveAlert, At, Taking, PipelineConstants, NoRow
    <3>3. alerts' \in [AlertIds -> Events \cup {NoRow}]
      BY <1>1, <3>1, <3>2 DEF TablesOK
    <3>4. \A a \in AlertIds : alerts[a] # NoRow => alerts'[a] # NoRow
      BY <1>1, <3>1, <3>2 DEF TablesOK
    <3>5. links' \subseteq candidates' \X {a \in AlertIds : alerts'[a] # NoRow}
      BY <1>1, <3>1, <3>4 DEF TablesOK
    <3>6. resaved' \subseteq AlertIds
      BY <1>1, <1>6, <2>1, <3>2 DEF SaveAlert, TablesOK
    <3>7. QED
      BY <1>1, <3>1, <3>3, <3>5, <3>6 DEF TablesOK
  <2>2. CASE Current(p) \notin rawEvents
    <3>1. UNCHANGED <<dedup, rawEvents, alerts, candidates, links, triages, routings,
                      queue, reviewed, incidents, faults, expiries, happened,
                      resaved, decided>>
      BY <1>6, <2>2 DEF SaveAlert
    <3>2. QED
      BY <1>1, <3>1 DEF TablesOK
  <2>3. QED
    BY <2>1, <2>2
<1>7. CASE SaveCandidate(p)
  <2>. DEFINE c == CurrentCandidate(p)
  <2>1. c \in Candidate
    BY <1>7, CurrentTyped DEF SaveCandidate, At, Processing
  <2>2. UNCHANGED <<dedup, rawEvents, alerts, triages, routings, queue, reviewed,
                    incidents, faults, expiries, happened, resaved, decided>>
    BY <1>7 DEF SaveCandidate, bounds
  <2>3. CASE \A a \in c.alerts : alerts[a] # NoRow
    <3>1. candidates' = candidates \cup {c} /\ links' = links \cup ({c} \X c.alerts)
      BY <1>7, <2>3 DEF SaveCandidate
    <3>2. c.alerts \subseteq {a \in AlertIds : alerts[a] # NoRow}
      BY <2>1, <2>3 DEF Candidate
    <3>. HIDE DEF c
    <3>3. links' \subseteq candidates' \X {a \in AlertIds : alerts[a] # NoRow}
      BY <1>1, <3>1, <3>2 DEF TablesOK
    <3>4. QED
      BY <1>1, <2>1, <2>2, <3>1, <3>3 DEF TablesOK
  <2>4. CASE ~ \A a \in c.alerts : alerts[a] # NoRow
    BY <1>1, <1>7, <2>2, <2>4 DEF SaveCandidate, TablesOK
  <2>5. QED
    BY <2>3, <2>4
<1>8. CASE SaveTriage(p)
  <2>1. CurrentTriage(p) \in Triage
    BY <1>8, CurrentTyped DEF SaveTriage, At, Scored
  <2>2. QED
    BY <1>1, <1>8, <2>1 DEF SaveTriage, TablesOK, bounds
<1>9. CASE SaveRouting(p)
  BY <1>1, <1>9 DEF SaveRouting, TablesOK, bounds
<1>10. CASE Enqueue(p)
  BY <1>1, <1>10 DEF Enqueue, TablesOK, bounds
<1>11. CASE Report(p)
  <2>1. decided' \in [AlertIds -> 0 .. 2]
    BY <1>1, <1>11 DEF Report, Delivered, TablesOK
  <2>2. QED
    BY <1>1, <1>11, <2>1 DEF Report, TablesOK, tables, bounds
<1>12. CASE SaveIncident(p)
  <2>1. Head(run[p].due) \in Incident
    BY <1>12, CurrentTyped DEF SaveIncident, At
  <2>2. QED
    BY <1>1, <1>12, <2>1 DEF SaveIncident, TablesOK, bounds
<1>13. QED
  BY <1>3, <1>4, <1>5, <1>6, <1>7, <1>8, <1>9, <1>10, <1>11, <1>12
  DEF Step, CheckRaw, CheckAlert, Cluster, TriageCandidate

LEMMA FailureTables ==
  ASSUME PipelineConstants, TypeInv, NEW p \in Procs, Failure(p)
  PROVE  TablesOK'
<1>1. /\ UNCHANGED <<dedup, tables, expiries, resaved, decided>>
      /\ faults < MaxFaults /\ faults' = faults + 1
      /\ \E kind \in Faults : happened' = happened \cup {kind}
  BY DEF Failure, StoreFails, DedupFails, ComponentFails, ReportRaises, Crash, Fault
<1>2. TablesOK
  BY DEF TypeInv, TypeOK, TablesOK
<1>3. faults' \in 0 .. MaxFaults
  BY <1>1, <1>2 DEF TablesOK, PipelineConstants
<1>4. QED
  BY <1>1, <1>2, <1>3 DEF TablesOK, tables

\* What is true of a step of a run, and of the steps outside of all runs.
LEMMA NextCases ==
  ASSUME PipelineConstants, TypeInv, [Next]_vars
  PROVE  \/ \E p \in Procs : StepsWell(p)
         \/ UNCHANGED <<dedup, run, decided, happened>>
         \/ /\ KeysExpire
            /\ dedup' = {} /\ UNCHANGED <<run, decided, happened>>
<1>1. CASE \E p \in Procs : \/ \E batch \in Batches : Start(p, batch)
                            \/ Step(p) \/ Failure(p)
  BY <1>1, StartWell, IntakeWell, ProcessingWell, FailureWell DEF Step
<1>2. CASE KeysExpire
  BY <1>2 DEF KeysExpire
<1>3. CASE \E t \in queue : Review(t)
  BY <1>3 DEF Review, bounds
<1>4. CASE UNCHANGED vars
  BY <1>4 DEF vars, bounds
<1>5. QED
  BY <1>1, <1>2, <1>3, <1>4 DEF Next

LEMMA TypeStep ==
  ASSUME PipelineConstants, TypeInv, [Next]_vars
  PROVE  TypeInv'
<1>1. TablesOK /\ run \in [Procs -> Run] /\ Shapes
  BY DEF TypeInv, TypeOK, TablesOK
<1>2. TablesOK'
  <2>1. CASE \E p \in Procs, batch \in Batches : Start(p, batch)
    BY <1>1, <2>1 DEF Start, TablesOK, tables, bounds
  <2>2. CASE \E p \in Procs : Step(p) \/ Failure(p)
    BY <2>2, StepTables, FailureTables
  <2>3. CASE KeysExpire
    <3>1. expiries' \in 0 .. MaxExpiries
      BY <1>1, <2>3 DEF KeysExpire, TablesOK, PipelineConstants
    <3>2. QED
      BY <1>1, <2>3, <3>1 DEF KeysExpire, TablesOK, tables
  <2>4. CASE \E t \in queue : Review(t)
    BY <1>1, <2>4 DEF Review, TablesOK, bounds
  <2>5. CASE UNCHANGED vars
    BY <1>1, <2>5 DEF vars, TablesOK, tables, bounds
  <2>6. QED
    BY <2>1, <2>2, <2>3, <2>4, <2>5 DEF Next
<1>3. run' \in [Procs -> Run] /\ Shapes'
  <2>1. CASE UNCHANGED run
    BY <1>1, <2>1 DEF Shapes
  <2>2. ASSUME NEW p \in Procs, StepsWell(p)
        PROVE  run' \in [Procs -> Run] /\ Shapes'
    <3>1. PICK s \in Run : Shape(s) /\ run' = [run EXCEPT ![p] = s]
      BY <2>2 DEF StepsWell
    <3>2. \A q \in Procs : run'[q] = IF q = p THEN s ELSE run[q]
      BY <1>1, <3>1
    <3>3. QED
      BY <1>1, <3>1, <3>2 DEF Shapes
  <2>3. QED
    BY <2>1, <2>2, NextCases
<1>4. QED
  BY <1>2, <1>3 DEF TypeInv, TypeOK, TablesOK

LEMMA TypeInit ==
  ASSUME PipelineConstants, Init
  PROVE  TypeInv
<1>1. \A p \in Procs : run[p] \in Run /\ Shape(run[p])
  BY IdleShape DEF Init
<1>2. QED
  BY <1>1 DEF Init, TypeInv, TypeOK, Shapes, PipelineConstants

\* Every row, and every run wherever it is, keeps its type; in particular no
\* link, routing, queue item or verdict ever lacks the row it refers to
\* (the foreign keys of soc/store.py).
THEOREM TypeCorrect == Spec => []TypeOK
<1>1. Init => TypeInv
  BY PipelineConstants, TypeInit
<1>2. TypeInv /\ [Next]_vars => TypeInv'
  BY PipelineConstants, TypeStep
<1>3. TypeInv => TypeOK
  BY DEF TypeInv
<1>4. QED
  BY <1>1, <1>2, <1>3, PTL DEF Spec

-----------------------------------------------------------------------------
(* Nothing is lost.                                                        *)

\* Unless a run was cut short, whatever is marked is decided, or in the hands of
\* a run.
InHand(a) == decided[a] > 0 \/ \E p \in Procs : Carries(run[p], a)
Accounted ==
    \/ CutShort
    \/ /\ \A a \in AlertIds : <<"alert", a>> \in dedup => InHand(a)
       /\ \A e \in Events : <<"raw", e>> \in dedup =>
              \/ AlertOf[e] = Unusable
              \/ InHand(AlertOf[e])
              \/ \E p \in Procs : Handles(run[p], e)

LEMMA OnlyMore ==
  ASSUME TypeInv, [Next]_vars
  PROVE  /\ CutShort => CutShort'
         /\ \A a \in AlertIds : decided[a] > 0 => decided'[a] > 0
         /\ reviewed \subseteq reviewed'
<1>1. happened \subseteq happened'
  BY DEF Next, Step, Failure, vars, bounds, Start, CheckRaw, MarkRaw, SaveRaw, CheckAlert,
     MarkAlert, SaveAlert, Cluster, SaveCandidate, TriageCandidate, SaveTriage,
     SaveRouting, Enqueue, Report, SaveIncident, StoreFails, DedupFails,
     ComponentFails, ReportRaises, Crash, Fault, KeysExpire, Review
<1>2. reviewed \subseteq reviewed'
  BY DEF Next, Step, Failure, vars, tables, Start, CheckRaw, MarkRaw, SaveRaw, CheckAlert,
     MarkAlert, SaveAlert, Cluster, SaveCandidate, TriageCandidate, SaveTriage,
     SaveRouting, Enqueue, Report, SaveIncident, StoreFails, DedupFails,
     ComponentFails, ReportRaises, Crash, Fault, KeysExpire, Review
<1>3. UNCHANGED decided \/ \E p \in Procs : Report(p)
  BY DEF Next, Step, Failure, vars, Start, CheckRaw, MarkRaw, SaveRaw, CheckAlert,
     MarkAlert, SaveAlert, Cluster, SaveCandidate, TriageCandidate, SaveTriage,
     SaveRouting, Enqueue, SaveIncident, StoreFails, DedupFails,
     ComponentFails, ReportRaises, Crash, Fault, KeysExpire, Review
<1>4. decided \in [AlertIds -> 0 .. 2]
  BY DEF TypeInv, TypeOK
<1>5. ASSUME NEW a \in AlertIds, decided[a] > 0
      PROVE  decided'[a] > 0
  <2>1. CASE UNCHANGED decided
    BY <1>5, <2>1
  <2>2. ASSUME NEW p \in Procs, Report(p)
        PROVE  decided'[a] > 0
    <3>1. \E batch : decided' = [b \in AlertIds |->
                   IF b \in batch /\ decided[b] < 2 THEN decided[b] + 1 ELSE decided[b]]
      BY <2>2 DEF Report, Delivered
    <3>2. decided[a] \in 0 .. 2
      BY <1>4
    <3>3. QED
      BY <1>5, <3>1, <3>2
  <2>3. QED
    BY <1>3, <2>1, <2>2
<1>6. CutShort => CutShort'
  BY <1>1 DEF CutShort
<1>7. QED
  BY <1>2, <1>5, <1>6

LEMMA AccountedStep ==
  ASSUME PipelineConstants, TypeInv, Accounted, [Next]_vars
  PROVE  Accounted'
<1>1. CASE CutShort
  BY <1>1, OnlyMore DEF Accounted
<1>2. CASE UNCHANGED <<dedup, run, decided, happened>>
  BY <1>2 DEF Accounted, CutShort, InHand
<1>3. CASE dedup' = {}
  BY <1>3 DEF Accounted
<1>4. ASSUME NEW p \in Procs, StepsWell(p), ~CutShort, ~CutShort'
      PROVE  Accounted'
  <2>1. DropsNothing(p)
    BY <1>4 DEF StepsWell
  <2>2. \A q \in Procs : q # p => run'[q] = run[q]
    BY <1>4 DEF StepsWell, TypeInv, TypeOK
  <2>3. ASSUME NEW a \in AlertIds, InHand(a)
        PROVE  InHand(a)'
    <3>1. CASE decided[a] > 0
      BY <3>1, OnlyMore DEF InHand
    <3>2. CASE Carries(run[p], a)
      BY <2>1, <3>2 DEF DropsNothing, InHand
    <3>3. ASSUME NEW q \in Procs, q # p, Carries(run[q], a)
          PROVE  InHand(a)'
      BY <2>2, <3>3 DEF InHand
    <3>4. QED
      BY <2>3, <3>1, <3>2, <3>3 DEF InHand
  <2>4. ASSUME NEW a \in AlertIds, <<"alert", a>> \in dedup'
        PROVE  InHand(a)'
    BY <1>4, <2>1, <2>3, <2>4 DEF DropsNothing, Accounted, InHand
  <2>5. ASSUME NEW e \in Events, <<"raw", e>> \in dedup', AlertOf[e] # Unusable
        PROVE  InHand(AlertOf[e])' \/ \E q \in Procs : Handles(run'[q], e)
    <3>0. AlertOf[e] \in AlertIds
      BY <2>5 DEF PipelineConstants
    <3>1. CASE <<"raw", e>> \notin dedup
      BY <2>1, <2>5, <3>1 DEF DropsNothing
    <3>2. CASE InHand(AlertOf[e])
      BY <2>3, <3>0, <3>2
    <3>3. CASE Handles(run[p], e)
      <4>1. CASE Handles(run'[p], e)
        BY <4>1
      <4>2. CASE Carries(run'[p], AlertOf[e])
        BY <4>2 DEF InHand
      <4>3. CASE <<"alert", AlertOf[e]>> \in dedup
        BY <1>4, <2>3, <3>0, <4>3 DEF Accounted
      <4>4. QED
        BY <2>1, <2>5, <3>3, <4>1, <4>2, <4>3 DEF DropsNothing
    <3>4. ASSUME NEW q \in Procs, q # p, Handles(run[q], e)
          PROVE  Handles(run'[q], e)
      BY <2>2, <3>4
    <3>5. QED
      BY <1>4, <2>5, <3>1, <3>2, <3>3, <3>4 DEF Accounted
  <2>6. QED
    BY <2>4, <2>5 DEF Accounted
<1>5. CASE CutShort'
  BY <1>5 DEF Accounted
<1>6. QED
  BY <1>1, <1>2, <1>3, <1>4, <1>5, NextCases

LEMMA AccountedMeansNothingLost ==
  ASSUME TypeInv, Accounted
  PROVE  NothingLost
<1>1. ASSUME ~CutShort, Quiet, NEW e \in Events, <<"raw", e>> \in dedup,
             AlertOf[e] # Unusable
      PROVE  decided[AlertOf[e]] > 0
  <2>1. ASSUME NEW p \in Procs
        PROVE  /\ run[p].pc = "idle" /\ run[p].accepted = {} /\ run[p].work = <<>>
    BY <1>1 DEF Quiet, Idle, TypeInv, Shapes, Shape, Intake, Taking, Processing, Scored
  <2>2. \A p \in Procs : ~Handles(run[p], e) /\ ~Carries(run[p], AlertOf[e])
    BY <2>1 DEF Handles, Carries
  <2>3. QED
    BY <1>1, <2>2 DEF Accounted, InHand
<1>2. QED
  BY <1>1 DEF NothingLost, SeenMeansDecided

\* For any number of pipelines on one database, whichever calls of the store or
\* of the dedup service fail, and however often all keys expire: when no run is
\* under way, every event that later runs will skip was decided on, unless a run
\* was cut short (SOCPipeline.run_events, _should_skip_raw_event).
THEOREM NothingIsLost == Spec => []NothingLost
<1>1. Init => TypeInv /\ Accounted
  <2>1. Init => Accounted
    BY DEF Init, Accounted
  <2>2. QED
    BY <2>1, PipelineConstants, TypeInit
<1>2. TypeInv /\ Accounted /\ [Next]_vars => (TypeInv /\ Accounted)'
  BY PipelineConstants, TypeStep, AccountedStep
<1>3. TypeInv /\ Accounted => NothingLost
  BY AccountedMeansNothingLost
<1>4. QED
  BY <1>1, <1>2, <1>3, PTL DEF Spec

\* No step of any pipeline, whatever it does again, takes the verdict from an
\* item of the review queue (enqueue_for_review, soc/store.py).
THEOREM VerdictStays == Spec => VerdictKept
<1>1. Init => TypeInv
  BY PipelineConstants, TypeInit
<1>2. TypeInv /\ [Next]_vars => TypeInv'
  BY PipelineConstants, TypeStep
<1>3. TypeInv /\ [Next]_vars => [reviewed \subseteq reviewed']_vars
  BY OnlyMore
<1>4. QED
  BY <1>1, <1>2, <1>3, PTL DEF Spec, VerdictKept
=============================================================================
