------------------------ MODULE ResponseGateProofs ------------------------
(***************************************************************************)
(* Proofs about ResponseGate for every set of processes, analysts,         *)
(* targets, triage results and playbooks, and every choice of faults.      *)
(***************************************************************************)
EXTENDS ResponseGate, TLAPS

-----------------------------------------------------------------------------
(* Typing.                                                                 *)

LEMMA AnyDecisionType == AnyDecision \in Decision
<1>1. PICK pb \in Playbooks, target \in Targets, t \in Triages : TRUE
  BY ConstantsAssumption
<1>2. [playbook |-> pb, target |-> target, triage |-> t] \in Decision
  BY DEF Decision
<1>3. QED
  BY <1>2 DEF AnyDecision

LEMMA NoRowType == NoRow \in Row
  BY DEF NoRow, Row, Sources


LEMMA NoTriageType == NoTriage \in TriageRow
  BY DEF NoTriage, TriageRow, TriageActions

LEMMA ProposingType ==
  ASSUME NEW pc \in {"load", "propose"}, NEW d \in Decision,
         NEW seen \in TriageRow, NEW caps \in SUBSET ActionTypes,
         NEW next \in Nat \ {0}
  PROVE  Proposing(pc, d, seen, caps, next) \in ProcState
  BY NoRowType DEF Proposing, ProcState

LEMMA HandlingType ==
  ASSUME NEW pc \in {"idle", "approve", "record", "act", "final"},
         NEW d \in Decision, NEW copy \in Row
  PROVE  Handling(pc, d, copy) \in ProcState
  BY NoTriageType DEF Handling, ProcState

LEMMA IdleProcType == IdleProc \in ProcState
  BY HandlingType, AnyDecisionType, NoRowType DEF IdleProc

\* Every evaluation of a stored triage result is a row.
LEMMA EvaluatedType ==
  ASSUME NEW d, NEW seen \in TriageRow, seen.source # "none", NEW caps
  PROVE  Evaluated(d, seen, caps) \in Row
<1>1. seen.source \in Sources
  BY DEF TriageRow
<1>2. QED
  BY <1>1 DEF Evaluated, Row, Statuses

\* And so is everything the commands make of a row.
LEMMA CopyTypes ==
  ASSUME NEW row \in Row
  PROVE  /\ \A a \in Analysts : Approved(row, a) \in Row
         /\ \A live \in BOOLEAN : Prepared(row, live) \in Row
         /\ Reverted(row) \in Row
         /\ \A status \in Statuses : Outcome(row, status) \in Row
  BY DEF Row, Approved, Prepared, Reverted, Outcome, Statuses

\* A process at "propose" holds a triage result that is stored.
ProposersHaveRead ==
  \A p \in Procs : proc[p].pc = "propose" => proc[p].seen.source # "none"

TypeInv == TypeOK /\ ProposersHaveRead

\* What one process becoming another state does to the type of proc.
LEMMA BecomeType ==
  ASSUME TypeInv, NEW p \in Procs, NEW s \in ProcState, Become(p, s),
         s.pc = "propose" => s.seen.source # "none"
  PROVE  proc' \in [Procs -> ProcState] /\ ProposersHaveRead'
  BY DEF TypeInv, TypeOK, ProposersHaveRead, Become

LEMMA RecordType ==
  ASSUME TypeOK, NEW d \in Decision, NEW row \in Row, Record(d, row)
  PROVE  rows' \in [Decision -> Row]
  BY DEF TypeOK, Record

LEMMA CountRequestType ==
  ASSUME TypeOK, NEW p \in Procs, CountRequest(p)
  PROVE  liveRequests' \in [Decision -> 0..2]
<1>1. \A n \in 0..2 : n # 2 => n + 1 \in 0..2
  OBVIOUS
<1>2. QED
  BY <1>1 DEF TypeOK, CountRequest

\* The fields of a process' state, one by one.
LEMMA ProcFields ==
  ASSUME NEW s \in ProcState
  PROVE  /\ s.d \in Decision /\ s.copy \in Row /\ s.seen \in TriageRow
         /\ s.caps \in SUBSET ActionTypes /\ s.next \in Nat \ {0}
  BY DEF ProcState

LEMMA RequestType ==
  ASSUME NEW d \in Decision, NEW row
  PROVE  RequestOf(d, row) \in Request
  BY DEF RequestOf, Request

LEMMA DeliveredType ==
  ASSUME TypeOK, NEW r \in Request, Delivered(r)
  PROVE  pf' \subseteq Targets /\ fired' \subseteq Decision
  BY DEF TypeOK, Delivered, Request, Decision

\* A process that handles a row is not proposing.
LEMMA HandlingNotProposing ==
  ASSUME NEW pc, NEW d, NEW copy
  PROVE  Handling(pc, d, copy).pc = pc /\ IdleProc.pc = "idle"
  BY DEF Handling, IdleProc

LEMMA ConcludedType ==
  ASSUME TypeInv, NEW p \in Procs, NEW status \in Statuses,
         Concluded(p, status)
  PROVE  proc' \in [Procs -> ProcState] /\ ProposersHaveRead'
<1>1. proc[p].d \in Decision /\ proc[p].copy \in Row
  BY ProcFields DEF TypeInv, TypeOK
<1>2. Handling("final", proc[p].d, Outcome(proc[p].copy, status)) \in ProcState
  BY <1>1, CopyTypes, HandlingType
<1>3. QED
  BY <1>2, HandlingNotProposing, BecomeType DEF Concluded

LEMMA TypeInvStep == TypeInv /\ [Next]_vars => TypeInv'
<1> SUFFICES ASSUME TypeInv, [Next]_vars PROVE TypeInv'
  OBVIOUS
<1> USE IdleProcType, HandlingNotProposing
<1>a. TypeOK /\ ProposersHaveRead
  BY DEF TypeInv
<1>1. ASSUME NEW p \in Procs, NEW target \in Targets, NEW t \in Triages,
             ProposeStart(p, target, t)
      PROVE  TypeInv'
  <2> DEFINE d == [playbook |-> AnyDecision.playbook, target |-> target, triage |-> t]
             s == Proposing("load", d, NoTriage, capability, 1)
  <2>1. d \in Decision
    BY AnyDecisionType DEF Decision
  <2>2. s \in ProcState
    BY <1>a, <2>1, ProposingType, NoTriageType DEF TypeOK
  <2>3. s.pc = "load"
    BY DEF Proposing
  <2>4. proc' \in [Procs -> ProcState] /\ ProposersHaveRead'
    BY <2>2, <2>3, <1>1, BecomeType DEF ProposeStart
  <2> QED
    BY <2>4, <1>1, <1>a DEF ProposeStart, TypeInv, TypeOK, historyVars, sequenceVars
<1>2. ASSUME NEW p \in Procs, ProposeLoad(p)
      PROVE  TypeInv'
  <2> DEFINE found == triage[proc[p].d.triage]
             s == Proposing("propose", proc[p].d, found, proc[p].caps, 1)
  <2>1. proc[p].d \in Decision /\ proc[p].copy \in Row /\ proc[p].seen \in TriageRow
        /\ proc[p].caps \in SUBSET ActionTypes /\ proc[p].next \in Nat \ {0}
    BY <1>a, ProcFields DEF TypeOK
  <2>2. found \in TriageRow
    BY <1>a, <2>1 DEF TypeOK, Decision
  <2>3. s \in ProcState
    BY <2>1, <2>2, ProposingType
  <2>4. s.seen = found
    BY DEF Proposing
  <2>5. CASE found.source = "none"
    <3>1. proc' \in [Procs -> ProcState] /\ ProposersHaveRead'
      BY <2>5, <1>2, BecomeType DEF ProposeLoad, Exit
    <3> QED
      BY <3>1, <1>2, <1>a DEF ProposeLoad, TypeInv, TypeOK, historyVars, sequenceVars
  <2>6. CASE found.source # "none"
    <3>1. proc' \in [Procs -> ProcState] /\ ProposersHaveRead'
      BY <2>3, <2>4, <2>6, <1>2, BecomeType DEF ProposeLoad
    <3> QED
      BY <3>1, <1>2, <1>a DEF ProposeLoad, TypeInv, TypeOK, historyVars, sequenceVars
  <2> QED
    BY <2>5, <2>6
<1>3. ASSUME NEW p \in Procs, ProposeNext(p)
      PROVE  TypeInv'
  <2> DEFINE pb == PlaybookOrder[proc[p].next]
             d == [playbook |-> pb, target |-> proc[p].d.target,
                   triage |-> proc[p].d.triage]
             s == Proposing("propose", proc[p].d, proc[p].seen, proc[p].caps,
                            proc[p].next + 1)
  <2>1. proc[p].d \in Decision /\ proc[p].copy \in Row /\ proc[p].seen \in TriageRow
        /\ proc[p].caps \in SUBSET ActionTypes /\ proc[p].next \in Nat \ {0}
    BY <1>a, ProcFields DEF TypeOK
  <2>2. pb \in Playbooks
    BY <2>1, <1>3, ConstantsAssumption DEF ProposeNext
  <2>3. d \in Decision
    BY <2>1, <2>2 DEF Decision
  <2>4. proc[p].seen.source # "none"
    BY <1>a, <1>3 DEF ProposersHaveRead, ProposeNext
  <2>5. rows' \in [Decision -> Row]
    <3>1. Evaluated(d, proc[p].seen, proc[p].caps) \in Row
      BY <2>1, <2>4, EvaluatedType
    <3>2. CASE AppliesTo(pb, proc[p].seen.action)
      BY <1>a, <2>3, <3>1, <3>2, <1>3, RecordType DEF ProposeNext
    <3>3. CASE ~ AppliesTo(pb, proc[p].seen.action)
      BY <1>a, <3>3, <1>3 DEF ProposeNext, TypeOK
    <3> QED
      BY <3>2, <3>3
  <2>6. proc[p].next + 1 \in Nat \ {0}
    BY <2>1
  <2>7. s \in ProcState
    BY <2>1, <2>6, ProposingType
  <2>8. s.seen = proc[p].seen
    BY DEF Proposing
  <2>9. proc' \in [Procs -> ProcState] /\ ProposersHaveRead'
    BY <2>4, <2>7, <2>8, <1>3, BecomeType DEF ProposeNext
  <2>10. renewed' \subseteq Decision
    <3>1. renewed' = renewed \/ renewed' = renewed \cup {d}
      BY <1>3 DEF ProposeNext
    <3>. HIDE DEF d
    <3> QED
      BY <1>a, <2>3, <3>1 DEF TypeOK
  <2> QED
    BY <2>5, <2>9, <2>10, <1>3, <1>a DEF ProposeNext, TypeInv, TypeOK, historyVars, sequenceVars
<1>4. ASSUME NEW p \in Procs, ProposeDone(p)
      PROVE  TypeInv'
  <2>1. proc' \in [Procs -> ProcState] /\ ProposersHaveRead'
    BY <1>4, BecomeType DEF ProposeDone, Exit
  <2> QED
    BY <2>1, <1>4, <1>a DEF ProposeDone, TypeInv, TypeOK, historyVars, sequenceVars
<1>5. ASSUME NEW p \in Procs, Abort(p)
      PROVE  TypeInv'
  <2>1. proc' \in [Procs -> ProcState] /\ ProposersHaveRead'
    BY <1>5, BecomeType DEF Abort, Exit
  <2>2. proc[p].d \in Decision
    BY <1>a, ProcFields DEF TypeOK
  <2>3. unrecorded' \subseteq Decision
    BY <1>a, <1>5, <2>2 DEF Abort, TypeOK
  <2> QED
    BY <2>1, <2>3, <1>5, <1>a DEF Abort, TypeInv, TypeOK, historyVars, sequenceVars
<1>6. ASSUME NEW p \in Procs, NEW d \in Decision, NEW a \in Analysts, ApproveLoad(p, d, a)
      PROVE  TypeInv'
  <2> DEFINE s == Handling("approve", d, Approved(rows[d], a))
  <2>1. s \in ProcState
    BY <1>a, CopyTypes, HandlingType DEF TypeOK
  <2>2. proc' \in [Procs -> ProcState] /\ ProposersHaveRead'
    BY <2>1, <1>6, BecomeType DEF ApproveLoad
  <2> QED
    BY <2>2, <1>6, <1>a DEF ApproveLoad, TypeInv, TypeOK, historyVars, sequenceVars
<1>7. ASSUME NEW p \in Procs, NEW d \in Decision, NEW live \in BOOLEAN, ExecuteLoad(p, d, live)
      PROVE  TypeInv'
  <2> DEFINE s == Handling("record", d, Prepared(rows[d], live))
  <2>1. s \in ProcState
    BY <1>a, CopyTypes, HandlingType DEF TypeOK
  <2>2. proc' \in [Procs -> ProcState] /\ ProposersHaveRead'
    BY <2>1, <1>7, BecomeType DEF ExecuteLoad
  <2> QED
    BY <2>2, <1>7, <1>a DEF ExecuteLoad, TypeInv, TypeOK, historyVars, sequenceVars
<1>8. ASSUME NEW p \in Procs, NEW d \in Decision, RollbackLoad(p, d)
      PROVE  TypeInv'
  <2> DEFINE s == Handling("record", d, Reverted(rows[d]))
  <2>1. s \in ProcState
    BY <1>a, CopyTypes, HandlingType DEF TypeOK
  <2>2. proc' \in [Procs -> ProcState] /\ ProposersHaveRead'
    BY <2>1, <1>8, BecomeType DEF RollbackLoad
  <2> QED
    BY <2>2, <1>8, <1>a DEF RollbackLoad, TypeInv, TypeOK, historyVars, sequenceVars
<1>9. ASSUME NEW p \in Procs, ApproveRecord(p)
      PROVE  TypeInv'
  <2>1. proc[p].d \in Decision /\ proc[p].copy \in Row /\ proc[p].seen \in TriageRow
        /\ proc[p].caps \in SUBSET ActionTypes /\ proc[p].next \in Nat \ {0}
    BY <1>a, ProcFields DEF TypeOK
  <2>2. proc' \in [Procs -> ProcState] /\ ProposersHaveRead'
    BY <1>9, BecomeType DEF ApproveRecord, Exit
  <2>3. rows' \in [Decision -> Row]
    BY <1>a, <2>1, <1>9, RecordType DEF ApproveRecord
  <2>4. 0 \in 0..2
    OBVIOUS
  <2> QED
    BY <2>1, <2>2, <2>3, <2>4, <1>9, <1>a DEF ApproveRecord, TypeInv, TypeOK, historyVars, sequenceVars
<1>10. ASSUME NEW p \in Procs, PreRecord(p)
      PROVE  TypeInv'
  <2>1. proc[p].d \in Decision /\ proc[p].copy \in Row /\ proc[p].seen \in TriageRow
        /\ proc[p].caps \in SUBSET ActionTypes /\ proc[p].next \in Nat \ {0}
    BY <1>a, ProcFields DEF TypeOK
  <2>2. Handling("act", proc[p].d, proc[p].copy) \in ProcState
    BY <2>1, HandlingType
  <2>3. proc' \in [Procs -> ProcState] /\ ProposersHaveRead'
    BY <2>2, <1>10, BecomeType DEF PreRecord
  <2>4. rows' \in [Decision -> Row]
    BY <1>a, <2>1, <1>10, RecordType DEF PreRecord
  <2> QED
    BY <2>1, <2>3, <2>4, <1>10, <1>a DEF PreRecord, TypeInv, TypeOK, historyVars, sequenceVars
<1>11. ASSUME NEW p \in Procs, FinalRecord(p)
      PROVE  TypeInv'
  <2>1. proc[p].d \in Decision /\ proc[p].copy \in Row /\ proc[p].seen \in TriageRow
        /\ proc[p].caps \in SUBSET ActionTypes /\ proc[p].next \in Nat \ {0}
    BY <1>a, ProcFields DEF TypeOK
  <2>2. proc' \in [Procs -> ProcState] /\ ProposersHaveRead'
    BY <1>11, BecomeType DEF FinalRecord, Exit
  <2>3. rows' \in [Decision -> Row]
    BY <1>a, <2>1, <1>11, RecordType DEF FinalRecord
  <2> QED
    BY <2>2, <2>3, <1>11, <1>a DEF FinalRecord, TypeInv, TypeOK, historyVars, sequenceVars
<1>12. ASSUME NEW p \in Procs, ActDry(p)
      PROVE  TypeInv'
  <2>1. proc' \in [Procs -> ProcState] /\ ProposersHaveRead'
    BY <1>12, ConcludedType DEF ActDry, Statuses
  <2> QED
    BY <2>1, <1>12, <1>a DEF ActDry, TypeInv, TypeOK, historyVars, sequenceVars
<1>13. ASSUME NEW p \in Procs, ActDone(p)
      PROVE  TypeInv'
  <2>1. proc[p].d \in Decision /\ proc[p].copy \in Row /\ proc[p].seen \in TriageRow
        /\ proc[p].caps \in SUBSET ActionTypes /\ proc[p].next \in Nat \ {0}
    BY <1>a, ProcFields DEF TypeOK
  <2>2. OutcomeOK(p) \in Statuses
    BY DEF OutcomeOK, Statuses
  <2>3. proc' \in [Procs -> ProcState] /\ ProposersHaveRead'
    BY <2>2, <1>13, ConcludedType DEF ActDone
  <2>4. pf' \subseteq Targets /\ fired' \subseteq Decision
    BY <1>a, <2>1, <1>13, RequestType, DeliveredType DEF ActDone
  <2>5. liveRequests' \in [Decision -> 0..2]
    BY <1>a, <1>13, CountRequestType DEF ActDone
  <2>6. latest' \subseteq Decision
    BY <1>a, <1>13, <2>1 DEF ActDone, TypeOK
  <2> QED
    BY <2>3, <2>4, <2>5, <2>6, <1>13, <1>a DEF ActDone, TypeInv, TypeOK, historyVars, sequenceVars
<1>14. ASSUME NEW p \in Procs, ActRefused(p)
      PROVE  TypeInv'
  <2>1. proc' \in [Procs -> ProcState] /\ ProposersHaveRead'
    BY <1>14, ConcludedType DEF ActRefused, Statuses
  <2>2. liveRequests' \in [Decision -> 0..2]
    BY <1>a, <1>14, CountRequestType DEF ActRefused
  <2> QED
    BY <2>1, <2>2, <1>14, <1>a DEF ActRefused, TypeInv, TypeOK, historyVars, sequenceVars
<1>15. ASSUME NEW p \in Procs, ActTimeout(p)
      PROVE  TypeInv'
  <2>1. proc[p].d \in Decision /\ proc[p].copy \in Row /\ proc[p].seen \in TriageRow
        /\ proc[p].caps \in SUBSET ActionTypes /\ proc[p].next \in Nat \ {0}
    BY <1>a, ProcFields DEF TypeOK
  <2>2. inflight' \subseteq Request
    BY <1>a, <2>1, <1>15, RequestType DEF ActTimeout, TypeOK
  <2>3. liveRequests' \in [Decision -> 0..2]
    BY <1>a, <1>15, CountRequestType DEF ActTimeout, TypeOK
  <2>4. CASE Concluded(p, "failed")
    <3>1. proc' \in [Procs -> ProcState] /\ ProposersHaveRead'
      BY <2>4, ConcludedType DEF Statuses
    <3> QED
      BY <2>2, <2>3, <3>1, <1>15, <1>a DEF ActTimeout, TypeInv, TypeOK
  <2>5. CASE UNCHANGED proc
    BY <2>2, <2>3, <2>5, <1>15, <1>a DEF ActTimeout, TypeInv, TypeOK, ProposersHaveRead
  <2> QED
    BY <2>4, <2>5, <1>15 DEF ActTimeout
<1>16. ASSUME NEW t \in Triages, Retriage(t)
      PROVE  TypeInv'
  <2>1. \A verdict \in Verdicts : verdict \in TriageRow
    BY ConstantsAssumption DEF TriageRow
  <2>2. triage' \in [Triages -> TriageRow]
    BY <1>a, <2>1, <1>16 DEF Retriage, TypeOK
  <2>3. modelScored' \subseteq Triages
    BY <1>a, <1>16 DEF Retriage, TypeOK
  <2> QED
    BY <2>2, <2>3, <1>16, <1>a DEF Retriage, ProposersHaveRead, TypeInv, TypeOK, historyVars, sequenceVars
<1>17. ASSUME NEW pb \in Playbooks, SetCapability(PlaybookAction[pb])
      PROVE  TypeInv'
  <2>1. PlaybookAction[pb] \in ActionTypes
    BY ConstantsAssumption
  <2> QED
    BY <2>1, <1>17, <1>a DEF SetCapability, ProposersHaveRead, TypeInv, TypeOK, historyVars, sequenceVars
<1>18. ASSUME NEW r \in inflight, Land(r)
      PROVE  TypeInv'
  <2>1. pf' \subseteq Targets /\ fired' \subseteq Decision
    BY <1>a, <1>18, DeliveredType DEF Land, TypeOK
  <2> QED
    BY <2>1, <1>18, <1>a DEF Land, ProposersHaveRead, TypeInv, TypeOK, historyVars, sequenceVars
<1>19. CASE UNCHANGED vars
  BY <1>19, <1>a DEF vars, systemVars, historyVars, sequenceVars, TypeInv, TypeOK, ProposersHaveRead
<1>20. QED
  BY <1>1, <1>2, <1>3, <1>4, <1>5, <1>6, <1>7, <1>8, <1>9, <1>10, <1>11, <1>12, <1>13, <1>14, <1>15, <1>16, <1>17, <1>18, <1>19 DEF Next, Step, Environment

\* Every variable keeps its type, under every interleaving and fault.
THEOREM TypeCorrect == Spec => []TypeOK
<1>1. Init => TypeInv
  BY IdleProcType, NoRowType, NoTriageType, HandlingNotProposing
     DEF Init, TypeInv, TypeOK, ProposersHaveRead
<1>2. TypeInv => TypeOK
  BY DEF TypeInv
<1>3. QED
  BY <1>1, <1>2, TypeInvStep, PTL DEF Spec

-----------------------------------------------------------------------------
(* Safety.                                                                 *)

\* What has been true at some time stays so, whatever a step does.
Monotone ==
  /\ optedIn \subseteq optedIn' /\ modelScored \subseteq modelScored'
  /\ approvals \subseteq approvals' /\ announced \subseteq announced'

LEMMA StepIsMonotone == [Next]_vars => Monotone
  BY DEF Next, vars, systemVars, historyVars, sequenceVars, Step, Environment, Monotone,
         ProposeStart, ProposeLoad, ProposeNext, ProposeDone, ApproveLoad,
         ApproveRecord, ExecuteLoad, RollbackLoad, PreRecord, ActDry, ActDone,
         ActRefused, ActTimeout, FinalRecord, Abort, Retriage, SetCapability,
         Land

LEMMA GroundsGrow == Monotone => Grounds \subseteq Grounds'
  BY DEF Monotone, Grounds

\* A row and a process' state stay earned while others step.
LEMMA EarnedRowsGrow ==
  ASSUME Monotone, NEW d \in Decision
  PROVE  EarnedRows(d) \subseteq EarnedRows(d)'
  BY GroundsGrow DEF Monotone, EarnedRows

LEMMA EarnedStatesGrow ==
  ASSUME Monotone
  PROVE  EarnedStates \subseteq EarnedStates'
<1> SUFFICES ASSUME NEW s \in EarnedStates PROVE s \in EarnedStates'
  OBVIOUS
<1>1. s \in ProcState /\ s.d \in Decision
  BY ProcFields DEF EarnedStates
<1>2. s.copy \in EarnedRows(s.d) => s.copy \in EarnedRows(s.d)'
  BY <1>1, EarnedRowsGrow
<1>3. QED
  BY <1>1, <1>2, GroundsGrow DEF Monotone, EarnedStates

\* The rows and the processes after a step that writes at most one of each.
LEMMA RowsStayEarned ==
  ASSUME TypeOK, Monotone, \A d \in Decision : rows[d] \in EarnedRows(d),
         \/ UNCHANGED rows
         \/ \E d \in Decision : \E row \in EarnedRows(d)' : Record(d, row)
  PROVE  \A d \in Decision : rows'[d] \in EarnedRows(d)'
<1> SUFFICES ASSUME NEW d \in Decision PROVE rows'[d] \in EarnedRows(d)'
  OBVIOUS
<1>1. rows[d] \in EarnedRows(d)'
  BY EarnedRowsGrow
<1>2. QED
  BY <1>1 DEF Record, TypeOK

LEMMA StatesStayEarned ==
  ASSUME TypeOK, Monotone, \A p \in Procs : proc[p] \in EarnedStates,
         \/ UNCHANGED proc
         \/ \E p \in Procs : \E s \in EarnedStates' : Become(p, s)
  PROVE  \A p \in Procs : proc'[p] \in EarnedStates'
<1>1. \A p \in Procs : proc[p] \in EarnedStates'
  BY EarnedStatesGrow
<1>2. QED
  BY <1>1 DEF Become, TypeOK

\* The states a step may put a process in.
LEMMA EarnedIdle == IdleProc \in EarnedStates'
  BY IdleProcType DEF EarnedStates, IdleProc, Handling, NoTriage

LEMMA EarnedProposing ==
  ASSUME NEW pc \in {"load", "propose"}, NEW d \in Decision,
         NEW seen \in TriageRow, NEW n \in Nat \ {0},
         NEW caps \in SUBSET ActionTypes, caps \subseteq optedIn',
         seen.source = "llm" => d.triage \in modelScored'
  PROVE  Proposing(pc, d, seen, caps, n) \in EarnedStates'
<1>1. Proposing(pc, d, seen, caps, n) \in ProcState
  BY ProposingType
<1>2. QED
  BY <1>1 DEF EarnedStates, Proposing

\* Which steps write what.
LEMMA RowWriters ==
  [Next]_vars =>
    \/ UNCHANGED rows
    \/ \E p \in Procs : \/ ProposeNext(p) \/ ApproveRecord(p)
                        \/ PreRecord(p) \/ FinalRecord(p)
  BY DEF Next, vars, systemVars, historyVars, sequenceVars, Step, Environment,
         ProposeStart, ProposeLoad, ProposeNext, ProposeDone, ApproveLoad,
         ApproveRecord, ExecuteLoad, RollbackLoad, PreRecord, ActDry, ActDone,
         ActRefused, ActTimeout, FinalRecord, Abort, Retriage, SetCapability,
         Land

LEMMA ApprovalWriters ==
  [Next]_vars =>
    \/ UNCHANGED <<approvals, announced>>
    \/ \E p \in Procs : ApproveRecord(p) \/ PreRecord(p)
  BY DEF Next, vars, systemVars, historyVars, sequenceVars, Step, Environment,
         ProposeStart, ProposeLoad, ProposeNext, ProposeDone, ApproveLoad,
         ApproveRecord, ExecuteLoad, RollbackLoad, PreRecord, ActDry, ActDone,
         ActRefused, ActTimeout, FinalRecord, Abort, Retriage, SetCapability,
         Land

LEMMA EffectWriters ==
  [Next]_vars =>
    \/ UNCHANGED <<pf, fired, inflight>>
    \/ \E p \in Procs : ActDone(p) \/ ActTimeout(p)
    \/ \E r \in inflight : Land(r)
  BY DEF Next, vars, systemVars, historyVars, sequenceVars, Step, Environment,
         ProposeStart, ProposeLoad, ProposeNext, ProposeDone, ApproveLoad,
         ApproveRecord, ExecuteLoad, RollbackLoad, PreRecord, ActDry, ActDone,
         ActRefused, ActTimeout, FinalRecord, Abort, Retriage, SetCapability,
         Land

LEMMA GroundsRecordedStep ==
  /\ capability \subseteq optedIn
  /\ \A t \in Triages : triage[t].source = "llm" => t \in modelScored
  /\ TypeOK /\ [Next]_vars
  => /\ capability' \subseteq optedIn'
     /\ \A t \in Triages : triage'[t].source = "llm" => t \in modelScored'
<1> SUFFICES ASSUME capability \subseteq optedIn,
                    \A t \in Triages : triage[t].source = "llm" => t \in modelScored,
                    TypeOK, [Next]_vars
             PROVE  /\ capability' \subseteq optedIn'
                    /\ \A t \in Triages :
                          triage'[t].source = "llm" => t \in modelScored'
  OBVIOUS
<1>1. CASE UNCHANGED <<capability, triage>>
  BY <1>1, StepIsMonotone DEF Monotone
<1>2. ASSUME NEW t \in Triages, Retriage(t)
      PROVE  /\ capability' \subseteq optedIn'
             /\ \A u \in Triages : triage'[u].source = "llm" => u \in modelScored'
  BY <1>2 DEF Retriage, TypeOK
<1>3. ASSUME NEW act, SetCapability(act)
      PROVE  /\ capability' \subseteq optedIn'
             /\ \A u \in Triages : triage'[u].source = "llm" => u \in modelScored'
  BY <1>3 DEF SetCapability
<1>4. \/ UNCHANGED <<capability, triage>>
      \/ \E t \in Triages : Retriage(t)
      \/ \E pb \in Playbooks : SetCapability(PlaybookAction[pb])
  BY DEF Next, vars, systemVars, historyVars, sequenceVars, Step, Environment,
         ProposeStart, ProposeLoad, ProposeNext, ProposeDone, ApproveLoad,
         ApproveRecord, ExecuteLoad, RollbackLoad, PreRecord, ActDry, ActDone,
         ActRefused, ActTimeout, FinalRecord, Abort, Retriage, SetCapability,
         Land
<1>5. QED
  BY <1>1, <1>2, <1>3, <1>4

\* A proposal that was not denied had its grounds when the process read them.
LEMMA EvaluatedEarned ==
  ASSUME NEW d \in Decision, NEW seen \in TriageRow, seen.source # "none",
         NEW caps \in SUBSET ActionTypes, caps \subseteq optedIn',
         seen.source = "llm" => d.triage \in modelScored'
  PROVE  Evaluated(d, seen, caps) \in EarnedRows(d)'
<1>1. Evaluated(d, seen, caps) \in Row
  BY EvaluatedType
<1>2. /\ Evaluated(d, seen, caps).status =
           IF Denied(d, seen, caps) THEN "denied" ELSE "suggested"
      /\ Evaluated(d, seen, caps).source = seen.source
  BY DEF Evaluated
<1>3. CASE Denied(d, seen, caps)
  BY <1>1, <1>2, <1>3 DEF EarnedRows, PerformedStatuses
<1>4. CASE ~ Denied(d, seen, caps)
  <2>1. seen.source = "llm" /\ ActionOf(d) \in caps
    BY <1>4 DEF Denied
  <2>2. ActionOf(d) = "pf_block_ip" => d.target \in PublicTargets
    BY <1>4 DEF Denied
  <2>3. Score[d.triage] >= Required[d.playbook]
    <3>1. Score[d.triage] \in Nat /\ Required[d.playbook] \in Nat
      BY ConstantsAssumption DEF Decision
    <3>2. ~ (Score[d.triage] < Required[d.playbook])
      BY <1>4 DEF Denied
    <3> QED
      BY <3>1, <3>2
  <2>4. d \in Grounds'
    BY <2>1, <2>2, <2>3 DEF Grounds
  <2> QED
    BY <1>1, <1>2, <1>4, <2>1, <2>4 DEF EarnedRows, PerformedStatuses
<1>5. QED
  BY <1>3, <1>4

\* What a process has in hand, from the invariant.
LEMMA InHand ==
  ASSUME TypeInv, EverythingEarned, NEW p \in Procs
  PROVE  LET self == proc[p] IN
         /\ self \in ProcState /\ self.d \in Decision /\ self.copy \in Row
         /\ self.seen \in TriageRow /\ self.next \in Nat \ {0}
         /\ self.caps \in SUBSET ActionTypes /\ self.caps \subseteq optedIn
         /\ self.pc = "propose" => self.seen.source # "none"
         /\ self.seen.source = "llm" => self.d.triage \in modelScored
         /\ self.pc = "approve" => /\ self.d \in Grounds
                                   /\ self.copy.source = "llm"
                                   /\ self.copy.approved_by \in Analysts
                                   /\ self.copy.status = "approved"
         /\ self.pc \in {"record", "act", "final"} =>
              /\ self.copy \in EarnedRows(self.d) /\ self.d \in approvals
              /\ self.copy.status \in {"approved"} \cup PerformedStatuses
         /\ self.pc \in {"record", "act"} /\ self.copy.status = "rolled_back" =>
              ActionOf(self.d) = "pf_block_ip"
         /\ self.pc = "act" /\ ~ self.copy.dry_run => self.d \in announced
<1>1. proc[p] \in EarnedStates
  BY DEF EverythingEarned
<1>2. proc[p] \in ProcState
  BY <1>1 DEF EarnedStates
<1>3. proc[p].pc = "propose" => proc[p].seen.source # "none"
  BY DEF TypeInv, ProposersHaveRead
<1>4. QED
  BY <1>1, <1>2, <1>3, ProcFields DEF EarnedStates, EarnedRows

LEMMA ApprovalsStep ==
  TypeInv /\ EverythingEarned /\ [Next]_vars => ActsNeedApprovalOnGrounds'
<1> SUFFICES ASSUME TypeInv, EverythingEarned, [Next]_vars
             PROVE  ActsNeedApprovalOnGrounds'
  OBVIOUS
<1>1. announced \subseteq approvals /\ approvals \subseteq Grounds
  BY DEF EverythingEarned, ActsNeedApprovalOnGrounds
<1>2. Grounds \subseteq Grounds'
  BY StepIsMonotone, GroundsGrow
<1>3. CASE UNCHANGED <<approvals, announced>>
  BY <1>1, <1>2, <1>3 DEF ActsNeedApprovalOnGrounds
<1>4. ASSUME NEW p \in Procs, ApproveRecord(p)
      PROVE  ActsNeedApprovalOnGrounds'
  <2>1. proc[p].d \in Grounds
    BY <1>4, InHand DEF ApproveRecord
  <2> QED
    BY <1>1, <1>2, <1>4, <2>1 DEF ApproveRecord, ActsNeedApprovalOnGrounds
<1>5. ASSUME NEW p \in Procs, PreRecord(p)
      PROVE  ActsNeedApprovalOnGrounds'
  <2>1. proc[p].d \in approvals
    BY <1>5, InHand DEF PreRecord
  <2> QED
    BY <1>1, <1>2, <1>5, <2>1 DEF PreRecord, ActsNeedApprovalOnGrounds
<1>6. QED
  BY <1>3, <1>4, <1>5, ApprovalWriters

LEMMA RowsStep ==
  TypeInv /\ EverythingEarned /\ [Next]_vars =>
    \A d \in Decision : rows'[d] \in EarnedRows(d)'
<1> SUFFICES ASSUME TypeInv, EverythingEarned, [Next]_vars
             PROVE  \/ UNCHANGED rows
                    \/ \E d \in Decision : \E row \in EarnedRows(d)' :
                          Record(d, row)
  BY RowsStayEarned, StepIsMonotone DEF TypeInv, EverythingEarned
<1>1. Monotone
  BY StepIsMonotone
<1>2. ASSUME NEW p \in Procs, ProposeNext(p), rows' # rows
      PROVE  \E d \in Decision : \E row \in EarnedRows(d)' : Record(d, row)
  <2>1. PICK d, seen, caps :
          /\ d = [playbook |-> PlaybookOrder[proc[p].next],
                  target |-> proc[p].d.target, triage |-> proc[p].d.triage]
          /\ seen = proc[p].seen /\ caps = proc[p].caps
    OBVIOUS
  <2>2. /\ proc[p].d \in Decision /\ seen \in TriageRow
        /\ caps \in SUBSET ActionTypes /\ caps \subseteq optedIn
        /\ proc[p].next \in Nat \ {0}
        /\ seen.source = "llm" => proc[p].d.triage \in modelScored
    BY <2>1, InHand
  <2>3. seen.source # "none"
    BY <1>2, <2>1, InHand DEF ProposeNext
  <2>4. d \in Decision
    BY <1>2, <2>1, <2>2, ConstantsAssumption DEF ProposeNext, Decision
  <2>5. Evaluated(d, seen, caps) \in EarnedRows(d)'
    BY <1>1, <2>1, <2>2, <2>3, <2>4, EvaluatedEarned DEF Monotone
  <2>6. Record(d, Evaluated(d, seen, caps))
    BY <1>2, <2>1 DEF ProposeNext
  <2> QED
    BY <2>4, <2>5, <2>6
<1>3. ASSUME NEW p \in Procs, ApproveRecord(p)
      PROVE  \E d \in Decision : \E row \in EarnedRows(d)' : Record(d, row)
  <2>1. PICK d, row : d = proc[p].d /\ row = proc[p].copy
    OBVIOUS
  <2>2. /\ d \in Decision /\ row \in Row
        /\ d \in Grounds
        /\ row.source = "llm" /\ row.approved_by \in Analysts
    BY <1>3, <2>1, InHand DEF ApproveRecord
  <2>3. d \in approvals'
    BY <1>3, <2>1 DEF ApproveRecord
  <2>4. row \in EarnedRows(d)'
    BY <1>1, <2>2, <2>3, GroundsGrow DEF EarnedRows
  <2> QED
    BY <1>3, <2>1, <2>2, <2>4 DEF ApproveRecord
<1>4. ASSUME NEW p \in Procs, PreRecord(p) \/ FinalRecord(p)
      PROVE  \E d \in Decision : \E row \in EarnedRows(d)' : Record(d, row)
  <2>1. PICK d, row : d = proc[p].d /\ row = proc[p].copy
    OBVIOUS
  <2>2. d \in Decision /\ row \in EarnedRows(d)
    BY <1>4, <2>1, InHand DEF PreRecord, FinalRecord
  <2>3. row \in EarnedRows(d)'
    BY <1>1, <2>2, EarnedRowsGrow
  <2> QED
    BY <1>4, <2>1, <2>2, <2>3 DEF PreRecord, FinalRecord
<1>5. QED
  BY <1>2, <1>3, <1>4, RowWriters

LEMMA EffectsStep ==
  TypeInv /\ EverythingEarned /\ [Next]_vars =>
    /\ \A r \in inflight' : r.op \in {"add", "delete"} <=>
                              ActionOf(r.d) = "pf_block_ip"
    /\ AuditedBeforeAct'
<1> SUFFICES ASSUME TypeInv, EverythingEarned, [Next]_vars
             PROVE  /\ \A r \in inflight' : r.op \in {"add", "delete"} <=>
                                              ActionOf(r.d) = "pf_block_ip"
                    /\ AuditedBeforeAct'
  OBVIOUS
<1>1. announced \subseteq announced'
  BY StepIsMonotone DEF Monotone
<1>2. /\ \A r \in inflight : r.op \in {"add", "delete"} <=>
                               ActionOf(r.d) = "pf_block_ip"
      /\ \A t \in pf : \E d \in announced :
                          ActionOf(d) = "pf_block_ip" /\ d.target = t
      /\ fired \subseteq announced
      /\ \A r \in inflight : r.d \in announced
  BY DEF EverythingEarned, AuditedBeforeAct
\* A request for an announced decision may arrive.
<1>3. ASSUME NEW r, r.d \in announced, Delivered(r),
             r.op \in {"add", "delete", "fire"},
             r.op \in {"add", "delete"} <=> ActionOf(r.d) = "pf_block_ip"
      PROVE  /\ \A t \in pf' : \E d \in announced :
                                  ActionOf(d) = "pf_block_ip" /\ d.target = t
             /\ fired' \subseteq announced
  <2>1. CASE r.op = "add"
    BY <1>2, <1>3, <2>1 DEF Delivered
  <2>2. CASE r.op = "delete"
    BY <1>2, <1>3, <2>2 DEF Delivered
  <2>3. CASE r.op = "fire"
    BY <1>2, <1>3, <2>3 DEF Delivered
  <2> QED
    BY <1>3, <2>1, <2>2, <2>3
\* The request a process sends is for an announced decision.
<1>4. ASSUME NEW p \in Procs, proc[p].pc = "act", ~ proc[p].copy.dry_run,
             NEW r, r = RequestOf(proc[p].d, proc[p].copy)
      PROVE  /\ r.d \in announced
             /\ r.op \in {"add", "delete", "fire"}
             /\ r.op \in {"add", "delete"} <=> ActionOf(r.d) = "pf_block_ip"
  <2>1. /\ proc[p].d \in announced
        /\ proc[p].copy.status = "rolled_back" =>
              ActionOf(proc[p].d) = "pf_block_ip"
    BY <1>4, InHand
  <2> QED
    BY <1>4, <2>1 DEF RequestOf
<1>5. CASE UNCHANGED <<pf, fired, inflight>>
  BY <1>1, <1>2, <1>5 DEF AuditedBeforeAct
<1>6. ASSUME NEW p \in Procs, ActDone(p)
      PROVE  /\ \A r \in inflight' : r.op \in {"add", "delete"} <=>
                                       ActionOf(r.d) = "pf_block_ip"
             /\ AuditedBeforeAct'
  <2>1. PICK r : r = RequestOf(proc[p].d, proc[p].copy)
    OBVIOUS
  <2>2. Delivered(r) /\ proc[p].pc = "act" /\ ~ proc[p].copy.dry_run
    BY <1>6, <2>1 DEF ActDone
  <2>3. /\ \A t \in pf' : \E d \in announced :
                             ActionOf(d) = "pf_block_ip" /\ d.target = t
        /\ fired' \subseteq announced
    BY <1>3, <1>4, <2>1, <2>2
  <2>4. UNCHANGED inflight
    BY <1>6 DEF ActDone
  <2> QED
    BY <1>1, <1>2, <2>3, <2>4 DEF AuditedBeforeAct
<1>7. ASSUME NEW p \in Procs, ActTimeout(p)
      PROVE  /\ \A r \in inflight' : r.op \in {"add", "delete"} <=>
                                       ActionOf(r.d) = "pf_block_ip"
             /\ AuditedBeforeAct'
  <2>1. PICK r : r = RequestOf(proc[p].d, proc[p].copy)
    OBVIOUS
  <2>2. /\ inflight' = inflight \cup {r} /\ UNCHANGED <<pf, fired>>
        /\ proc[p].pc = "act" /\ ~ proc[p].copy.dry_run
    BY <1>7, <2>1 DEF ActTimeout
  <2>3. /\ r.d \in announced
        /\ r.op \in {"add", "delete"} <=> ActionOf(r.d) = "pf_block_ip"
    BY <1>4, <2>1, <2>2
  <2> QED
    BY <1>1, <1>2, <2>2, <2>3 DEF AuditedBeforeAct
<1>8. ASSUME NEW r \in inflight, Land(r)
      PROVE  /\ \A q \in inflight' : q.op \in {"add", "delete"} <=>
                                       ActionOf(q.d) = "pf_block_ip"
             /\ AuditedBeforeAct'
  <2>1. r.op \in {"add", "delete", "fire"}
    BY DEF TypeInv, TypeOK, Request
  <2>2. /\ \A t \in pf' : \E d \in announced :
                             ActionOf(d) = "pf_block_ip" /\ d.target = t
        /\ fired' \subseteq announced
    BY <1>2, <1>3, <1>8, <2>1 DEF Land
  <2>3. inflight' \subseteq inflight
    BY <1>8 DEF Land
  <2> QED
    BY <1>1, <1>2, <2>2, <2>3 DEF AuditedBeforeAct
<1>9. QED
  BY <1>5, <1>6, <1>7, <1>8, EffectWriters

\* Each step puts a process in a state it has earned.
LEMMA StatesStep ==
  TypeInv /\ EverythingEarned /\ [Next]_vars =>
    \A p \in Procs : proc'[p] \in EarnedStates'
<1> SUFFICES ASSUME TypeInv, EverythingEarned, [Next]_vars
             PROVE  \/ UNCHANGED proc
                    \/ \E p \in Procs : \E s \in EarnedStates' : Become(p, s)
  BY StatesStayEarned, StepIsMonotone DEF TypeInv, EverythingEarned
<1> DEFINE Fine == \/ UNCHANGED proc
                   \/ \E p \in Procs : \E s \in EarnedStates' : Become(p, s)
<1>1. Monotone /\ Grounds \subseteq Grounds'
  BY StepIsMonotone, GroundsGrow
<1>2. ASSUME NEW p \in Procs, Exit(p)
      PROVE  Fine
  BY <1>2, EarnedIdle DEF Exit
<1>3. ASSUME NEW p \in Procs, NEW target \in Targets, NEW t \in Triages,
             ProposeStart(p, target, t)
      PROVE  Fine
  <2>1. PICK caps : caps = capability
    OBVIOUS
  <2>2. caps \in SUBSET ActionTypes /\ caps \subseteq optedIn'
    BY <1>1, <2>1 DEF TypeInv, TypeOK, EverythingEarned, Monotone
  <2>3. [playbook |-> AnyDecision.playbook, target |-> target, triage |-> t]
           \in Decision
    BY AnyDecisionType DEF Decision
  <2>4. NoTriage.source # "llm"
    BY DEF NoTriage
  <2>5. Proposing("load", [playbook |-> AnyDecision.playbook,
                           target |-> target, triage |-> t],
                  NoTriage, caps, 1) \in EarnedStates'
    BY <2>2, <2>3, <2>4, NoTriageType, EarnedProposing
  <2> QED
    BY <1>3, <2>1, <2>5 DEF ProposeStart
<1>4. ASSUME NEW p \in Procs, ProposeLoad(p), ~ Exit(p)
      PROVE  Fine
  <2>1. PICK d, caps, found :
          d = proc[p].d /\ caps = proc[p].caps /\ found = triage[d.triage]
    OBVIOUS
  <2>2. d \in Decision /\ caps \in SUBSET ActionTypes /\ caps \subseteq optedIn'
    BY <1>1, <2>1, InHand DEF Monotone
  <2>3. found \in TriageRow
    BY <2>1, <2>2 DEF TypeInv, TypeOK, Decision
  <2>4. found.source = "llm" => d.triage \in modelScored'
    BY <1>1, <2>1, <2>2 DEF EverythingEarned, Monotone, Decision
  <2>5. Proposing("propose", d, found, caps, 1) \in EarnedStates'
    BY <2>2, <2>3, <2>4, EarnedProposing
  <2> QED
    BY <1>4, <2>1, <2>5 DEF ProposeLoad
<1>5. ASSUME NEW p \in Procs, ProposeNext(p)
      PROVE  Fine
  <2>1. PICK d, caps, seen, n : /\ d = proc[p].d /\ caps = proc[p].caps
                                /\ seen = proc[p].seen /\ n = proc[p].next + 1
    OBVIOUS
  <2>2. /\ d \in Decision /\ seen \in TriageRow /\ n \in Nat \ {0}
        /\ caps \in SUBSET ActionTypes /\ caps \subseteq optedIn'
        /\ seen.source = "llm" => d.triage \in modelScored'
    BY <1>1, <2>1, InHand DEF Monotone
  <2>3. Proposing("propose", d, seen, caps, n) \in EarnedStates'
    BY <2>2, EarnedProposing
  <2> QED
    BY <1>5, <2>1, <2>3 DEF ProposeNext
\* approve, execute and rollback start from an earned row.
<1>6. ASSUME NEW d \in Decision
      PROVE  rows[d] \in EarnedRows(d) /\ rows[d] \in Row
  BY DEF EverythingEarned, EarnedRows
<1>7. ASSUME NEW p \in Procs, NEW d \in Decision, NEW a \in Analysts,
             ApproveLoad(p, d, a)
      PROVE  Fine
  <2>1. PICK row : row = Approved(rows[d], a)
    OBVIOUS
  <2>2. /\ row \in Row /\ row.status = "approved"
        /\ row.source = rows[d].source /\ row.approved_by \in Analysts
    BY <1>6, <2>1, CopyTypes DEF Approved
  <2>3. d \in Grounds /\ row.source = "llm"
    BY <1>6, <1>7, <2>2 DEF ApproveLoad, EarnedRows
  <2>4. Handling("approve", d, row) \in EarnedStates'
    BY <1>1, <2>2, <2>3, HandlingType DEF EarnedStates, Handling, NoTriage
  <2> QED
    BY <1>7, <2>1, <2>4 DEF ApproveLoad
\* A copy that is past its approval, kept or with another such status.
<1>8. ASSUME NEW p \in Procs, NEW pc \in {"record", "act", "final"},
             NEW d \in Decision, NEW row \in EarnedRows(d)',
             row.status \in {"approved"} \cup PerformedStatuses,
             row.status = "rolled_back" /\ pc # "final" =>
                ActionOf(d) = "pf_block_ip",
             pc = "act" /\ ~ row.dry_run => d \in announced',
             Become(p, Handling(pc, d, row))
      PROVE  Fine
  <2>1. row \in Row
    BY DEF EarnedRows
  <2>2. Handling(pc, d, row) \in ProcState
    BY <2>1, HandlingType
  <2>3. Handling(pc, d, row) \in EarnedStates'
    BY <1>8, <2>2 DEF EarnedStates, Handling, NoTriage
  <2> QED
    BY <1>8, <2>3
<1>9. ASSUME NEW p \in Procs, NEW d \in Decision, NEW live \in BOOLEAN,
             ExecuteLoad(p, d, live)
      PROVE  Fine
  <2>1. PICK row : row = Prepared(rows[d], live)
    OBVIOUS
  <2>2. /\ row \in Row /\ row.status = "approved"
        /\ row.source = rows[d].source
        /\ row.approved_by = rows[d].approved_by
    BY <1>6, <1>9, <2>1, CopyTypes DEF Prepared, ExecuteLoad
  <2>3. row \in EarnedRows(d)
    BY <1>6, <1>9, <2>2 DEF EarnedRows, ExecuteLoad
  <2>4. row \in EarnedRows(d)'
    BY <1>1, <2>3, EarnedRowsGrow
  <2> QED
    BY <1>8, <1>9, <2>1, <2>2, <2>4 DEF ExecuteLoad
<1>10. ASSUME NEW p \in Procs, NEW d \in Decision, RollbackLoad(p, d)
       PROVE  Fine
  <2>1. PICK row : row = Reverted(rows[d])
    OBVIOUS
  <2>2. /\ row \in Row /\ row.status = "rolled_back"
        /\ row.source = rows[d].source
        /\ row.approved_by = rows[d].approved_by
    BY <1>6, <1>10, <2>1, CopyTypes DEF Reverted
  <2>3. row \in EarnedRows(d)
    BY <1>6, <1>10, <2>2 DEF EarnedRows, RollbackLoad, PerformedStatuses
  <2>4. row \in EarnedRows(d)'
    BY <1>1, <2>3, EarnedRowsGrow
  <2>5. row.status \in {"approved"} \cup PerformedStatuses
    BY <2>2 DEF PerformedStatuses
  <2> QED
    BY <1>8, <1>10, <2>1, <2>2, <2>4, <2>5 DEF RollbackLoad
<1>11. ASSUME NEW p \in Procs, PreRecord(p)
       PROVE  Fine
  <2>1. PICK d, row : d = proc[p].d /\ row = proc[p].copy
    OBVIOUS
  <2>2. /\ d \in Decision /\ row \in EarnedRows(d)
        /\ row.status \in {"approved"} \cup PerformedStatuses
        /\ row.status = "rolled_back" => ActionOf(d) = "pf_block_ip"
    BY <1>11, <2>1, InHand DEF PreRecord
  <2>3. row \in EarnedRows(d)'
    BY <1>1, <2>2, EarnedRowsGrow
  <2>4. ~ row.dry_run => d \in announced'
    BY <1>11, <2>1 DEF PreRecord
  <2> QED
    BY <1>8, <1>11, <2>1, <2>2, <2>3, <2>4 DEF PreRecord
<1>12. ASSUME NEW p \in Procs, proc[p].pc = "act",
              NEW status \in PerformedStatuses, Concluded(p, status)
       PROVE  Fine
  <2>1. PICK d, copy, row :
           d = proc[p].d /\ copy = proc[p].copy /\ row = Outcome(copy, status)
    OBVIOUS
  <2>2. /\ d \in Decision /\ copy \in EarnedRows(d) /\ copy \in Row
        /\ copy.status \in {"approved"} \cup PerformedStatuses
    BY <1>12, <2>1, InHand
  <2>3. status \in Statuses
    BY DEF Statuses, PerformedStatuses
  <2>4. /\ row \in Row /\ row.status = status /\ row.source = copy.source
        /\ row.approved_by = copy.approved_by
    BY <2>1, <2>2, <2>3, CopyTypes DEF Outcome, Row
  <2>5. row \in EarnedRows(d)
    BY <2>2, <2>4 DEF EarnedRows
  <2>6. row \in EarnedRows(d)'
    BY <1>1, <2>2, <2>5, EarnedRowsGrow
  <2> QED
    BY <1>8, <1>12, <2>1, <2>2, <2>4, <2>6 DEF Concluded
<1>13. ASSUME NEW p \in Procs,
              ActDry(p) \/ ActDone(p) \/ ActRefused(p) \/ ActTimeout(p)
       PROVE  Fine
  <2>1. \/ UNCHANGED proc
        \/ /\ proc[p].pc = "act"
           /\ \E status \in PerformedStatuses : Concluded(p, status)
    BY <1>13 DEF ActDry, ActDone, ActRefused, ActTimeout, OutcomeOK,
                 PerformedStatuses
  <2> QED
    BY <1>12, <2>1
<1>14. \/ UNCHANGED proc
       \/ \E p \in Procs :
            \/ Exit(p)
            \/ \E target \in Targets, t \in Triages : ProposeStart(p, target, t)
            \/ ProposeLoad(p) /\ ~ Exit(p)
            \/ ProposeNext(p)
            \/ \E d \in Decision, a \in Analysts : ApproveLoad(p, d, a)
            \/ \E d \in Decision, live \in BOOLEAN : ExecuteLoad(p, d, live)
            \/ \E d \in Decision : RollbackLoad(p, d)
            \/ PreRecord(p)
            \/ ActDry(p) \/ ActDone(p) \/ ActRefused(p) \/ ActTimeout(p)
  BY DEF Next, vars, systemVars, Step, Environment, ProposeDone,
         ApproveRecord, FinalRecord, Abort, Retriage, SetCapability, Land
<1>15. QED
  BY <1>2, <1>3, <1>4, <1>5, <1>7, <1>9, <1>10, <1>11, <1>13, <1>14

LEMMA EverythingEarnedStep ==
  TypeInv /\ EverythingEarned /\ [Next]_vars => EverythingEarned'
  BY GroundsRecordedStep, RowsStep, StatesStep, EffectsStep, ApprovalsStep
     DEF TypeInv, EverythingEarned

LEMMA EverythingEarnedInit == Init => EverythingEarned
<1> SUFFICES ASSUME Init PROVE EverythingEarned
  OBVIOUS
<1>1. \A d \in Decision : rows[d] \in EarnedRows(d)
  BY NoRowType DEF Init, EarnedRows, NoRow, PerformedStatuses
<1>2. IdleProc \in EarnedStates
  BY IdleProcType DEF EarnedStates, IdleProc, Handling, NoTriage
<1>3. \A t \in Triages : triage[t].source # "llm"
  BY DEF Init, NoTriage
<1>4. QED
  BY <1>1, <1>2, <1>3 DEF Init, EverythingEarned, ActsNeedApprovalOnGrounds,
                          AuditedBeforeAct

\* The inductive invariant holds of every behaviour.
THEOREM EarnedAlways == Spec => [](TypeInv /\ EverythingEarned)
<1>1. Init => TypeInv
  BY IdleProcType, NoRowType, NoTriageType, HandlingNotProposing
     DEF Init, TypeInv, TypeOK, ProposersHaveRead
<1>2. QED
  BY <1>1, EverythingEarnedInit, EverythingEarnedStep, TypeInvStep, PTL DEF Spec

\* Gates 1-5: a live run is announced only for an approved decision, approved
\* only on grounds.
THEOREM ActsApproved == Spec => []ActsNeedApprovalOnGrounds
<1>1. EverythingEarned => ActsNeedApprovalOnGrounds
  BY DEF EverythingEarned
<1>2. QED
  BY <1>1, EarnedAlways, PTL

\* Gate 6: nothing reaches the firewall or an endpoint, at once or late,
\* before the audit table has recorded the live run.
THEOREM ActsAudited == Spec => []AuditedBeforeAct
<1>1. EverythingEarned => AuditedBeforeAct
  BY DEF EverythingEarned
<1>2. QED
  BY <1>1, EarnedAlways, PTL

\* Every row past an approval names its analyst and carries a model score.
THEOREM RowsAccountable == Spec => []PerformedRowsAccountable
<1>1. EverythingEarned => PerformedRowsAccountable
  BY DEF EverythingEarned, EarnedRows, PerformedRowsAccountable
<1>2. QED
  BY <1>1, EarnedAlways, PTL

-----------------------------------------------------------------------------
(* Refinement: the commands implement the authority.                       *)

\* One step of the commands is one step of the authority, or none.
LEMMA StepRefines ==
  TypeInv /\ EverythingEarned /\ [Next]_vars =>
    [Authority!AuthorityNext]_(Authority!authorityVars)
<1> SUFFICES ASSUME TypeInv, EverythingEarned, [Next]_vars
             PROVE  [Authority!AuthorityNext]_(Authority!authorityVars)
  OBVIOUS
<1> DEFINE Abstract == [Authority!AuthorityNext]_(Authority!authorityVars)
           pending == {r.d : r \in inflight}
\* Grounds only depend on what was recorded of settings and triage.
<1>1. UNCHANGED <<optedIn, modelScored>> => Grounds' = Grounds
  BY DEF Grounds
<1>2. ASSUME NEW p \in Procs, ApproveRecord(p)
      PROVE  Abstract
  <2>1. proc[p].d \in Decision /\ proc[p].d \in Grounds
    BY <1>2, InHand DEF ApproveRecord
  <2>2. Authority!Authorize(proc[p].d)
    BY <1>1, <1>2, <2>1 DEF ApproveRecord, Authority!Authorize
  <2> QED
    BY <2>1, <2>2 DEF Authority!AuthorityNext
<1>3. ASSUME NEW p \in Procs, PreRecord(p)
      PROVE  Abstract
  <2>1. proc[p].d \in Decision /\ proc[p].d \in approvals
    BY <1>3, InHand DEF PreRecord
  <2>2. CASE proc[p].copy.dry_run
    BY <1>1, <1>3, <2>2 DEF PreRecord, Authority!authorityVars
  <2>3. CASE ~ proc[p].copy.dry_run
    <3>1. Authority!Announce(proc[p].d)
      BY <1>1, <1>3, <2>1, <2>3 DEF PreRecord, Authority!Announce
    <3> QED
      BY <2>1, <3>1 DEF Authority!AuthorityNext
  <2> QED
    BY <2>2, <2>3
\* A request sent or landing, whichever it is, is an effect of its decision.
<1>4. ASSUME NEW r \in Request, r.d \in announced, Delivered(r),
             r.op \in {"add", "delete"} <=> ActionOf(r.d) = "pf_block_ip",
             UNCHANGED <<optedIn, modelScored, approvals, announced>>,
             pending' = pending \/ pending' = pending \ {r.d}
      PROVE  Abstract
  <2>1. r.d \in Decision /\ r.op \in {"add", "delete", "fire"}
    BY DEF Request
  <2>2. \/ /\ ActionOf(r.d) = "pf_block_ip"
           /\ pf' = pf \cup {r.d.target} \/ pf' = pf \ {r.d.target}
           /\ UNCHANGED fired
        \/ /\ ActionOf(r.d) # "pf_block_ip"
           /\ fired' = fired \cup {r.d} /\ UNCHANGED pf
    <3>1. CASE r.op = "add"
      BY <1>4, <3>1 DEF Delivered
    <3>2. CASE r.op = "delete"
      BY <1>4, <3>2 DEF Delivered
    <3>3. CASE r.op = "fire"
      BY <1>4, <3>3 DEF Delivered
    <3> QED
      BY <2>1, <3>1, <3>2, <3>3
  <2>3. Authority!Effect(r.d)
    BY <1>1, <1>4, <2>1, <2>2 DEF Authority!Effect
  <2> QED
    BY <2>1, <2>3 DEF Authority!AuthorityNext
<1>5. ASSUME NEW p \in Procs, proc[p].pc = "act", ~ proc[p].copy.dry_run,
             NEW r, r = RequestOf(proc[p].d, proc[p].copy)
      PROVE  /\ r \in Request /\ r.d \in announced /\ r.d \in Decision
             /\ r.op \in {"add", "delete"} <=> ActionOf(r.d) = "pf_block_ip"
  <2>1. /\ proc[p].d \in announced /\ proc[p].d \in Decision
        /\ proc[p].copy.status = "rolled_back" =>
              ActionOf(proc[p].d) = "pf_block_ip"
    BY <1>5, InHand
  <2> QED
    BY <1>5, <2>1 DEF RequestOf, Request
<1>6. ASSUME NEW p \in Procs, ActDone(p)
      PROVE  Abstract
  <2>1. PICK r : r = RequestOf(proc[p].d, proc[p].copy)
    OBVIOUS
  <2>2. /\ Delivered(r) /\ proc[p].pc = "act" /\ ~ proc[p].copy.dry_run
        /\ UNCHANGED <<optedIn, modelScored, approvals, announced, inflight>>
    BY <1>6, <2>1 DEF ActDone
  <2> QED
    BY <1>4, <1>5, <2>1, <2>2
<1>7. ASSUME NEW p \in Procs, ActTimeout(p)
      PROVE  Abstract
  <2>1. PICK r : r = RequestOf(proc[p].d, proc[p].copy)
    OBVIOUS
  <2>2. /\ inflight' = inflight \cup {r}
        /\ proc[p].pc = "act" /\ ~ proc[p].copy.dry_run
        /\ UNCHANGED <<pf, fired, optedIn, modelScored, approvals, announced>>
    BY <1>7, <2>1 DEF ActTimeout
  <2>3. r.d \in announced /\ r.d \in Decision
    BY <1>5, <2>1, <2>2
  <2>4. pending' = pending \cup {r.d}
    BY <2>2
  <2>5. Authority!Ask(r.d)
    BY <1>1, <2>2, <2>3, <2>4 DEF Authority!Ask
  <2> QED
    BY <2>3, <2>5 DEF Authority!AuthorityNext
<1>8. ASSUME NEW r \in inflight, Land(r)
      PROVE  Abstract
  <2>1. /\ r \in Request /\ r.d \in announced
        /\ r.op \in {"add", "delete"} <=> ActionOf(r.d) = "pf_block_ip"
    BY DEF TypeInv, TypeOK, EverythingEarned, AuditedBeforeAct
  <2>2. pending' = pending \/ pending' = pending \ {r.d}
    BY <1>8 DEF Land
  <2>3. /\ Delivered(r)
        /\ UNCHANGED <<optedIn, modelScored, approvals, announced>>
    BY <1>8 DEF Land, historyVars, sequenceVars
  <2> QED
    BY <1>4, <2>1, <2>2, <2>3
<1>9. ASSUME UNCHANGED <<approvals, announced, pf, fired, inflight>>
      PROVE  Abstract
  <2>1. Grounds \subseteq Grounds' /\ Grounds' \subseteq Decision
    BY StepIsMonotone, GroundsGrow DEF Grounds
  <2>2. Authority!GainGrounds
    BY <1>9, <2>1 DEF Authority!GainGrounds
  <2> QED
    BY <2>2 DEF Authority!AuthorityNext
<1>10. \/ UNCHANGED <<approvals, announced, pf, fired, inflight>>
       \/ \E p \in Procs : \/ ApproveRecord(p) \/ PreRecord(p)
                           \/ ActDone(p) \/ ActTimeout(p)
       \/ \E r \in inflight : Land(r)
  <2> DEFINE Quiet == UNCHANGED <<approvals, announced, pf, fired, inflight>>
  <2>1. ASSUME NEW p \in Procs, Step(p)
        PROVE  \/ Quiet
               \/ ApproveRecord(p) \/ PreRecord(p)
               \/ ActDone(p) \/ ActTimeout(p)
    <3>1. ASSUME NEW target \in Targets, NEW t \in Triages,
                 ProposeStart(p, target, t)
          PROVE  Quiet
      BY <3>1 DEF ProposeStart, historyVars, sequenceVars
    <3>2. ProposeLoad(p) \/ ProposeNext(p) \/ ProposeDone(p) => Quiet
      BY DEF ProposeLoad, ProposeNext, ProposeDone, historyVars, sequenceVars
    <3>3. ASSUME NEW d \in Decision, NEW a \in Analysts, ApproveLoad(p, d, a)
          PROVE  Quiet
      BY <3>3 DEF ApproveLoad, historyVars, sequenceVars
    <3>4. ASSUME NEW d \in Decision, NEW live \in BOOLEAN,
                 ExecuteLoad(p, d, live)
          PROVE  Quiet
      BY <3>4 DEF ExecuteLoad, historyVars, sequenceVars
    <3>5. ASSUME NEW d \in Decision, RollbackLoad(p, d)
          PROVE  Quiet
      BY <3>5 DEF RollbackLoad, historyVars, sequenceVars
    <3>6. ActDry(p) \/ ActRefused(p) => Quiet
      BY DEF ActDry, ActRefused, historyVars, sequenceVars
    <3>7. FinalRecord(p) \/ Abort(p) => Quiet
      BY DEF FinalRecord, Abort, historyVars, sequenceVars
    <3> HIDE DEF Quiet
    <3> QED
      BY <2>1, <3>1, <3>2, <3>3, <3>4, <3>5, <3>6, <3>7 DEF Step
  <2>2. ASSUME NEW t \in Triages, Retriage(t)
        PROVE  Quiet
    BY <2>2 DEF Retriage
  <2>3. ASSUME NEW pb \in Playbooks, SetCapability(PlaybookAction[pb])
        PROVE  Quiet
    BY <2>3 DEF SetCapability
  <2>4. CASE UNCHANGED vars
    BY <2>4 DEF vars, systemVars, historyVars, sequenceVars
  <2>5. CASE Next
    <3> HIDE DEF Quiet
    <3> QED
      BY <2>1, <2>2, <2>3, <2>5 DEF Next, Environment, Quiet
  <2> QED
    BY <2>4, <2>5
<1>11. QED
  BY <1>2, <1>3, <1>6, <1>7, <1>8, <1>9, <1>10

\* The gate's commands, concurrent, aborted and timing out as they may, only
\* ever do what the authority would: effects after announcements, these after
\* approvals, and these on grounds.
THEOREM GateImplementsAuthority == Spec => ImplementsAuthority
<1>1. Init => Authority!AuthorityInit
  BY DEF Init, Authority!AuthorityInit, Grounds
<1>2. QED
  BY <1>1, StepRefines, EarnedAlways, PTL
     DEF Spec, ImplementsAuthority, Authority!Spec

-----------------------------------------------------------------------------
(* One command at a time, whatever dies, is refused or comes late.         *)

\* The operator runs one command after another.
OneAtATime == \A p, q \in Procs : p = q

InPlace(d, row) ==
    d \in latest =>
        /\ row.status = "executed" /\ ~row.dry_run => d.target \in pf
        /\ row.status = "rolled_back" /\ d \notin unrecorded => d.target \notin pf

Kept(d) ==
    d \in latest /\ d \notin renewed /\ d.target \in pf =>
        /\ rows[d].status \in {"approved"} \cup PerformedStatuses
        /\ rows[d].commands
        /\ rows[d].dry_run => d \in unrecorded

Unspent(d) == d \in unrecorded \/ (liveRequests[d] = 0 /\ d \in renewed)

Settled(d) ==
    /\ d \notin unrecorded => liveRequests[d] <= 1
    /\ rows[d].status = "suggested" => d \in renewed
    /\ d \in latest => ActionOf(d) = "pf_block_ip"
    /\ Kept(d)
    /\ ~Busy(d) => /\ InPlace(d, rows[d])
                   /\ rows[d].status = "approved" => Unspent(d)

RowsSettled == \A d \in Decision : Settled(d)

\* What a command holds is what it loaded, with its own change.
UpToDate(s) ==
    LET row == rows[s.d] IN
    /\ s.pc = "approve" => row.status = "suggested" /\ s.copy.status = "approved"
    /\ s.pc = "record" =>
           /\ s.copy.commands
           /\ \/ s.copy.status = "approved" /\ row.status = "approved"
              \/ /\ s.copy.status = "rolled_back" /\ row.status \in PerformedStatuses
                 /\ ActionOf(s.d) = "pf_block_ip" /\ ~s.copy.dry_run
    /\ s.pc = "act" =>
           /\ row = s.copy /\ s.copy.commands
           /\ \/ /\ s.copy.status = "approved"
                 /\ s.d \in unrecorded \/ liveRequests[s.d] = 0
                 /\ s.copy.dry_run => Unspent(s.d)
              \/ /\ s.copy.status = "rolled_back" /\ ~s.copy.dry_run
                 /\ ActionOf(s.d) = "pf_block_ip"
    /\ s.pc = "final" =>
           /\ row.status \in {"approved", "rolled_back"}
           /\ s.copy.status \in PerformedStatuses
           /\ row.commands /\ s.copy.commands /\ row.dry_run = s.copy.dry_run
           /\ s.copy.dry_run => row.status = "approved" /\ Unspent(s.d)
           /\ InPlace(s.d, s.copy)

SequenceInv == RowsSettled /\ \A p \in Procs : UpToDate(proc[p])

LEMMA CommandAlone ==
  ASSUME OneAtATime, TypeOK, NEW p \in Procs, NEW s, Become(p, s)
  PROVE  \A q \in Procs : q = p /\ proc'[q] = s
BY DEF OneAtATime, TypeOK, Become

\* What a step leaves as it was about a decision, if no other came to its
\* address.
Untouched(d) ==
    /\ rows'[d] = rows[d] /\ liveRequests'[d] = liveRequests[d]
    /\ (d \in renewed') = (d \in renewed)
    /\ (d \in unrecorded') = (d \in unrecorded)
    /\ d \in latest' => d \in latest /\ (d.target \in pf') = (d.target \in pf)

LEMMA UntouchedStays ==
  ASSUME NEW d, Untouched(d)
  PROVE  /\ \A row : InPlace(d, row) => InPlace(d, row)'
         /\ Kept(d) => Kept(d)'
         /\ Unspent(d) => Unspent(d)'
BY DEF Untouched, InPlace, Kept, Unspent

\* A step on one decision leaves the others settled.
LEMMA OthersSettled ==
  ASSUME OneAtATime, RowsSettled, NEW p \in Procs, NEW e \in Decision,
         proc[p].pc \in {"act", "final"} => proc[p].d = e,
         \A d \in Decision : d # e => Untouched(d),
         Settled(e)'
  PROVE  RowsSettled'
<1>1. ASSUME NEW d \in Decision, d # e
      PROVE  Settled(d)'
  <2>1. ~Busy(d)
    BY <1>1 DEF Busy, OneAtATime
  <2>2. Settled(d) /\ Untouched(d)
    BY <1>1 DEF RowsSettled
  <2>3. InPlace(d, rows[d]) /\ rows'[d] = rows[d]
    BY <2>1, <2>2 DEF Settled, Untouched
  <2>4. InPlace(d, rows[d])'
    BY <2>2, <2>3, UntouchedStays DEF InPlace
  <2>5. Kept(d)' /\ (rows'[d].status = "approved" => Unspent(d)')
    BY <2>1, <2>2, <2>3, UntouchedStays DEF Settled
  <2>6. QED
    BY <2>2, <2>4, <2>5 DEF Settled, Untouched
<1>2. QED
  BY <1>1 DEF RowsSettled

\* A step that only reads: a command becomes another state.
LEMMA ReadSettled ==
  ASSUME OneAtATime, TypeOK, SequenceInv, NEW p \in Procs, NEW s, Become(p, s),
         proc[p].pc \notin {"act", "final"},
         UNCHANGED <<rows, pf, sequenceVars>>, UpToDate(s)
  PROVE  SequenceInv'
<1>1. \A d \in Decision : ~Busy(d)
  BY DEF Busy, OneAtATime
<1>2. RowsSettled'
  BY <1>1 DEF SequenceInv, RowsSettled, Settled, InPlace, Kept, Unspent, sequenceVars
<1>3. \A q \in Procs : UpToDate(proc[q])'
  BY CommandAlone DEF UpToDate, InPlace, Unspent, sequenceVars
<1>4. QED
  BY <1>2, <1>3 DEF SequenceInv

LEMMA IdleUpToDate ==
  ASSUME NEW pc \in {"idle", "load", "propose"}, NEW s, s.pc = pc
  PROVE  UpToDate(s)
BY DEF UpToDate

LEMMA CommandStep ==
  ASSUME OneAtATime, TypeInv, SequenceInv, NEW p \in Procs, Step(p)
  PROVE  SequenceInv'
<1>. DEFINE self == proc[p]
            e == self.d
            row == rows[e]
<1>1. /\ TypeOK /\ RowsSettled /\ UpToDate(self)
      /\ self \in ProcState /\ e \in Decision /\ self.copy \in Row
      /\ self.seen \in TriageRow /\ self.next \in Nat \ {0}
      /\ rows \in [Decision -> Row] /\ liveRequests \in [Decision -> 0 .. 2]
      /\ proc \in [Procs -> ProcState]
  BY ProcFields DEF TypeInv, TypeOK, SequenceInv
<1>2. /\ IdleProc.pc = "idle"
      /\ \A pc, d, copy : /\ Handling(pc, d, copy).pc = pc
                          /\ Handling(pc, d, copy).d = d
                          /\ Handling(pc, d, copy).copy = copy
      /\ \A pc, d, seen, caps, n : Proposing(pc, d, seen, caps, n).pc = pc
  BY DEF IdleProc, Handling, Proposing
<1>3. UpToDate(IdleProc)
  BY <1>2, IdleUpToDate
<1>4. CASE \E target \in Targets, t \in Triages : ProposeStart(p, target, t)
  <2>1. PICK target \in Targets, t \in Triages : ProposeStart(p, target, t)
    BY <1>4
  <2>2. PICK s : Become(p, s) /\ s.pc = "load"
    BY <1>2, <2>1 DEF ProposeStart
  <2>3. UNCHANGED <<rows, pf, sequenceVars>> /\ self.pc = "idle"
    BY <2>1 DEF ProposeStart, Idle, historyVars
  <2>4. QED
    BY <1>1, <2>2, <2>3, IdleUpToDate, ReadSettled
<1>5. CASE ProposeLoad(p)
  <2>1. PICK s : Become(p, s) /\ s.pc \in {"idle", "propose"}
    BY <1>2, <1>5 DEF ProposeLoad, Exit
  <2>2. UNCHANGED <<rows, pf, sequenceVars>> /\ self.pc = "load"
    BY <1>5 DEF ProposeLoad, historyVars
  <2>3. QED
    BY <1>1, <2>1, <2>2, IdleUpToDate, ReadSettled
<1>6. CASE ProposeNext(p)
  <2>. DEFINE pb == PlaybookOrder[self.next]
              d == [playbook |-> pb, target |-> e.target, triage |-> e.triage]
              new == Evaluated(d, self.seen, self.caps)
  <2>1. PICK s : Become(p, s) /\ s.pc = "propose"
    BY <1>2, <1>6 DEF ProposeNext
  <2>2. UNCHANGED <<pf, liveRequests, latest, unrecorded>> /\ self.pc = "propose"
    BY <1>6 DEF ProposeNext
  <2>3. CASE AppliesTo(pb, self.seen.action)
    <3>1. Record(d, new) /\ renewed' = renewed \cup {d}
      BY <1>6, <2>3 DEF ProposeNext
    <3>2. pb \in Playbooks
      BY <1>1, <1>6, ConstantsAssumption DEF ProposeNext
    <3>3. d \in Decision
      BY <1>1, <3>2 DEF Decision
    <3>4. PICK f \in Decision : f = d
      BY <3>3
    <3>5. PICK fresh : fresh = new
      OBVIOUS
    <3>6. fresh.status \in {"suggested", "denied"}
      BY <3>5 DEF Evaluated
    <3>. HIDE DEF d, new
    <3>7. rows' = [rows EXCEPT ![f] = fresh] /\ renewed' = renewed \cup {f}
      BY <3>1, <3>4, <3>5 DEF Record
    <3>8. rows'[f] = fresh /\ \A g \in Decision : g # f => rows'[g] = rows[g]
      BY <1>1, <3>7
    <3>9. \A g \in Decision : g # f => Untouched(g)
      BY <2>2, <3>7, <3>8 DEF Untouched
    <3>10. Settled(f)'
      BY <1>1, <2>2, <3>6, <3>7, <3>8 DEF RowsSettled, Settled, InPlace, Kept
    <3>11. RowsSettled'
      BY <1>1, <2>2, <3>9, <3>10, OthersSettled
    <3>12. \A q \in Procs : UpToDate(proc[q])'
      BY <1>1, <2>1, CommandAlone DEF UpToDate
    <3>13. QED
      BY <3>11, <3>12 DEF SequenceInv
  <2>4. CASE ~AppliesTo(pb, self.seen.action)
    <3>1. UNCHANGED <<rows, renewed>>
      BY <1>6, <2>4 DEF ProposeNext
    <3>2. UNCHANGED <<rows, pf, sequenceVars>>
      BY <2>2, <3>1 DEF sequenceVars
    <3>3. QED
      BY <1>1, <2>1, <2>2, <3>2, IdleUpToDate, ReadSettled
  <2>5. QED
    BY <2>3, <2>4
<1>7. CASE ProposeDone(p)
  BY <1>1, <1>2, <1>3, <1>7, ReadSettled DEF ProposeDone, Exit, historyVars
<1>8. CASE \E d \in Decision, a \in Analysts : ApproveLoad(p, d, a)
  <2>1. PICK d \in Decision, a \in Analysts : ApproveLoad(p, d, a)
    BY <1>8
  <2>2. PICK s : s = Handling("approve", d, Approved(rows[d], a))
    OBVIOUS
  <2>3. Become(p, s) /\ UNCHANGED <<rows, pf, sequenceVars>> /\ self.pc = "idle"
        /\ rows[d].status = "suggested"
    BY <2>1, <2>2 DEF ApproveLoad, Idle, historyVars
  <2>4. s.pc = "approve" /\ s.d = d /\ s.copy.status = "approved"
    BY <1>2, <2>2 DEF Approved
  <2>5. UpToDate(s)
    BY <2>3, <2>4 DEF UpToDate
  <2>6. QED
    BY <1>1, <2>3, <2>5, ReadSettled
<1>9. CASE ApproveRecord(p)
  <2>1. /\ self.pc = "approve" /\ rows' = [rows EXCEPT ![e] = self.copy]
        /\ liveRequests' = [liveRequests EXCEPT ![e] = 0]
        /\ unrecorded' = unrecorded \ {e}
        /\ Become(p, IdleProc) /\ UNCHANGED <<pf, latest, renewed>>
    BY <1>9 DEF ApproveRecord, Exit, Record
  <2>2. PICK f \in Decision : f = e
    BY <1>1
  <2>3. self.copy.status = "approved" /\ f \in renewed
    BY <1>1, <2>1, <2>2 DEF UpToDate, RowsSettled, Settled
  <2>4. /\ rows'[f] = self.copy /\ liveRequests'[f] = 0
        /\ \A g \in Decision : g # f => rows'[g] = rows[g]
                                        /\ liveRequests'[g] = liveRequests[g]
    BY <1>1, <2>1, <2>2
  <2>5. \A g \in Decision : g # f => Untouched(g)
    BY <2>1, <2>2, <2>4 DEF Untouched
  <2>6. Settled(f)'
    BY <1>1, <2>1, <2>3, <2>4 DEF RowsSettled, Settled, InPlace, Kept, Unspent
  <2>7. RowsSettled'
    BY <1>1, <2>1, <2>5, <2>6, OthersSettled
  <2>8. \A q \in Procs : UpToDate(proc[q])'
    BY <1>1, <1>2, <2>1, CommandAlone DEF UpToDate
  <2>9. QED
    BY <2>7, <2>8 DEF SequenceInv
<1>10. CASE \E d \in Decision, live \in BOOLEAN : ExecuteLoad(p, d, live)
  <2>1. PICK d \in Decision, live \in BOOLEAN : ExecuteLoad(p, d, live)
    BY <1>10
  <2>2. PICK s : s = Handling("record", d, Prepared(rows[d], live))
    OBVIOUS
  <2>3. Become(p, s) /\ UNCHANGED <<rows, pf, sequenceVars>> /\ self.pc = "idle"
        /\ rows[d].status = "approved"
    BY <2>1, <2>2 DEF ExecuteLoad, Idle, historyVars
  <2>4. s.pc = "record" /\ s.d = d /\ s.copy.status = "approved" /\ s.copy.commands
    BY <1>2, <2>2, <2>3 DEF Prepared
  <2>5. UpToDate(s)
    BY <2>3, <2>4 DEF UpToDate
  <2>6. QED
    BY <1>1, <2>3, <2>5, ReadSettled
<1>11. CASE \E d \in Decision : RollbackLoad(p, d)
  <2>1. PICK d \in Decision : RollbackLoad(p, d)
    BY <1>11
  <2>2. PICK s : s = Handling("record", d, Reverted(rows[d]))
    OBVIOUS
  <2>3. Become(p, s) /\ UNCHANGED <<rows, pf, sequenceVars>> /\ self.pc = "idle"
        /\ rows[d].status \in PerformedStatuses /\ ActionOf(d) = "pf_block_ip"
    BY <2>1, <2>2 DEF RollbackLoad, Idle, historyVars
  <2>4. /\ s.pc = "record" /\ s.d = d /\ s.copy.status = "rolled_back"
        /\ ~s.copy.dry_run /\ s.copy.commands
    BY <1>2, <2>2 DEF Reverted
  <2>5. UpToDate(s)
    BY <2>3, <2>4 DEF UpToDate
  <2>6. QED
    BY <1>1, <2>3, <2>5, ReadSettled
<1>12. CASE PreRecord(p)
  <2>1. /\ self.pc = "record" /\ rows' = [rows EXCEPT ![e] = self.copy]
        /\ Become(p, Handling("act", e, self.copy))
        /\ renewed' = IF self.copy.dry_run THEN renewed ELSE renewed \ {e}
        /\ UNCHANGED <<pf, liveRequests, latest, unrecorded>>
    BY <1>12 DEF PreRecord, Record
  <2>2. PICK s : s = Handling("act", e, self.copy)
    OBVIOUS
  <2>3. PICK f \in Decision : f = e
    BY <1>1
  <2>4. /\ rows'[f] = self.copy /\ \A g \in Decision : g # f => rows'[g] = rows[g]
    BY <1>1, <2>1, <2>3
  <2>5. s.pc = "act" /\ s.d = f /\ s.copy = self.copy
    BY <1>2, <2>2, <2>3
  <2>6. ~Busy(f)
    BY <2>1 DEF Busy, OneAtATime
  <2>7. /\ self.copy.commands
        /\ \/ self.copy.status = "approved" /\ Unspent(f)
           \/ /\ self.copy.status = "rolled_back" /\ ~self.copy.dry_run
              /\ ActionOf(f) = "pf_block_ip"
    BY <1>1, <2>1, <2>3, <2>6 DEF UpToDate, RowsSettled, Settled
  <2>8. \A q \in Procs : q = p /\ proc'[q] = s
    BY <1>1, <2>1, <2>2, CommandAlone
  <2>9. Busy(f)'
    BY <2>5, <2>8 DEF Busy
  <2>10. \A g \in Decision : g # f => Untouched(g)
    BY <2>1, <2>3, <2>4 DEF Untouched
  <2>11. Kept(f)'
    BY <2>1, <2>3, <2>4, <2>7 DEF Kept, Unspent, PerformedStatuses
  <2>12. Settled(f)'
    BY <1>1, <2>1, <2>4, <2>7, <2>9, <2>11 DEF RowsSettled, Settled
  <2>13. RowsSettled'
    BY <1>1, <2>1, <2>10, <2>12, OthersSettled
  <2>14. f \in unrecorded' \/ liveRequests'[f] = 0 \/ self.copy.status = "rolled_back"
    BY <2>1, <2>7 DEF Unspent
  <2>15. self.copy.dry_run => self.copy.status = "approved" /\ Unspent(f)'
    BY <2>1, <2>7 DEF Unspent
  <2>16. UpToDate(s)'
    BY <2>4, <2>5, <2>7, <2>14, <2>15 DEF UpToDate
  <2>17. \A q \in Procs : UpToDate(proc[q])'
    BY <2>8, <2>16 DEF UpToDate, InPlace, Unspent
  <2>18. QED
    BY <2>13, <2>17 DEF SequenceInv
<1>13. /\ \A status : /\ Outcome(self.copy, status).status = status
                      /\ Outcome(self.copy, status).dry_run = self.copy.dry_run
                      /\ Outcome(self.copy, status).commands = self.copy.commands
  BY <1>1 DEF Outcome, Row
\* The act is over: its outcome is in hand, not yet written.
<1>14. ASSUME NEW status \in {"executed", "failed", "rolled_back"},
              NEW f \in Decision, f = e, NEW copy, copy = Outcome(self.copy, status),
              self.pc = "act", Concluded(p, status),
              UNCHANGED <<rows, renewed, unrecorded>>,
              \A d \in Decision : d # f => Untouched(d),
              f \notin unrecorded => liveRequests'[f] <= 1,
              f \in latest' => ActionOf(f) = "pf_block_ip",
              copy.dry_run => UNCHANGED liveRequests /\ (f \in latest' => Untouched(f)),
              InPlace(f, copy)'
       PROVE  SequenceInv'
  <2>1. PICK s : s = Handling("final", e, copy)
    OBVIOUS
  <2>2. /\ s.pc = "final" /\ s.d = f /\ s.copy = copy /\ copy.status = status
        /\ copy.dry_run = self.copy.dry_run /\ copy.commands = self.copy.commands
        /\ Become(p, s)
    BY <1>1, <1>2, <1>13, <1>14, <2>1 DEF Concluded
  <2>3. \A q \in Procs : q = p /\ proc'[q] = s
    BY <1>1, <2>2, CommandAlone
  <2>4. Busy(f)'
    BY <2>2, <2>3 DEF Busy
  <2>5. /\ rows[f] = self.copy /\ rows[f].commands
        /\ rows[f].status \in {"approved", "rolled_back"}
        /\ rows[f].dry_run => rows[f].status = "approved" /\ Unspent(f)
    BY <1>1, <1>14 DEF UpToDate
  <2>6. Kept(f)'
    BY <1>14, <2>2, <2>5 DEF Kept, Unspent, PerformedStatuses
  <2>7. Settled(f)'
    BY <1>14, <2>4, <2>5, <2>6 DEF Settled
  <2>8. RowsSettled'
    BY <1>1, <1>14, <2>7, OthersSettled
  <2>9. copy.dry_run => Unspent(f)'
    BY <1>14, <2>2, <2>5 DEF Unspent
  <2>10. UpToDate(s)'
    BY <1>14, <2>2, <2>5, <2>9 DEF UpToDate, PerformedStatuses
  <2>11. \A q \in Procs : UpToDate(proc[q])'
    BY <2>3, <2>10 DEF UpToDate, InPlace, Unspent
  <2>12. QED
    BY <2>8, <2>11 DEF SequenceInv
<1>15. ASSUME self.pc = "act", ~self.copy.dry_run, CountRequest(p)
       PROVE  /\ \A d \in Decision : d # e => liveRequests'[d] = liveRequests[d]
              /\ e \notin unrecorded => liveRequests'[e] <= 1
  <2>1. PICK f \in Decision : f = e
    BY <1>1
  <2>2. self.copy.status # "rolled_back" =>
            f \in unrecorded \/ liveRequests[f] = 0
    BY <1>1, <1>15, <2>1 DEF UpToDate
  <2>3. (f \notin unrecorded => liveRequests[f] <= 1) /\ liveRequests[f] \in 0 .. 2
    BY <1>1 DEF RowsSettled, Settled
  <2>4. liveRequests' = [liveRequests EXCEPT ![f] =
            IF self.copy.status = "rolled_back" \/ @ = 2 THEN @ ELSE @ + 1]
    BY <1>15, <2>1 DEF CountRequest
  <2>5. /\ \A d \in Decision : d # f => liveRequests'[d] = liveRequests[d]
        /\ liveRequests'[f] = IF self.copy.status = "rolled_back" \/ liveRequests[f] = 2
                              THEN liveRequests[f] ELSE liveRequests[f] + 1
    BY <1>1, <2>4
  <2>6. QED
    BY <2>1, <2>2, <2>3, <2>5
<1>16. CASE ActDry(p)
  <2>1. /\ self.pc = "act" /\ self.copy.dry_run /\ Concluded(p, "executed")
        /\ UNCHANGED <<rows, pf, sequenceVars>>
    BY <1>16 DEF ActDry, historyVars
  <2>2. PICK f \in Decision, copy \in {Outcome(self.copy, "executed")} : f = e
    BY <1>1
  <2>3. copy.status = "executed" /\ copy.dry_run
    BY <1>13, <2>1, <2>2
  <2>4. InPlace(f, copy)'
    BY <2>3 DEF InPlace
  <2>5. \A d \in Decision : Untouched(d)
    BY <2>1 DEF Untouched, sequenceVars
  <2>6. UNCHANGED <<liveRequests, latest, renewed, unrecorded>>
    BY <2>1 DEF sequenceVars
  <2>7. /\ f \notin unrecorded => liveRequests'[f] <= 1
        /\ f \in latest' => ActionOf(f) = "pf_block_ip"
    BY <1>1, <2>6 DEF RowsSettled, Settled
  <2>8. QED
    BY <1>14, <2>1, <2>2, <2>4, <2>5, <2>6, <2>7
<1>17. CASE ActDone(p)
  <2>1. /\ self.pc = "act" /\ ~self.copy.dry_run /\ Delivered(RequestOf(e, self.copy))
        /\ Concluded(p, OutcomeOK(p)) /\ CountRequest(p)
        /\ latest' = IF ActionOf(e) = "pf_block_ip"
                     THEN (latest \ SameAddress(e)) \cup {e} ELSE latest
        /\ UNCHANGED <<rows, renewed, unrecorded>>
    BY <1>17 DEF ActDone
  <2>2. \/ self.copy.status = "approved"
        \/ self.copy.status = "rolled_back" /\ ActionOf(e) = "pf_block_ip"
    BY <1>1, <2>1 DEF UpToDate
  <2>3. OutcomeOK(p) = IF self.copy.status = "rolled_back" THEN "rolled_back"
                                                          ELSE "executed"
    BY DEF OutcomeOK
  <2>4. /\ ActionOf(e) = "pf_block_ip" /\ self.copy.status = "approved" =>
               pf' = pf \cup {e.target}
        /\ ActionOf(e) = "pf_block_ip" /\ self.copy.status = "rolled_back" =>
               pf' = pf \ {e.target}
        /\ ActionOf(e) # "pf_block_ip" => pf' = pf
    BY <2>1, <2>2 DEF Delivered, RequestOf
  <2>5. PICK status \in {"executed", "rolled_back"} : status = OutcomeOK(p)
    BY <2>3
  <2>6. PICK copy : copy = Outcome(self.copy, status)
    OBVIOUS
  <2>7. copy.status = status /\ copy.dry_run = self.copy.dry_run
    BY <1>13, <2>6
  <2>8. /\ ActionOf(e) = "pf_block_ip" /\ status = "executed" => e.target \in pf'
        /\ ActionOf(e) = "pf_block_ip" /\ status = "rolled_back" => e.target \notin pf'
    BY <2>2, <2>3, <2>4, <2>5
  <2>9. PICK f \in Decision : f = e
    BY <1>1
  <2>10. f \in latest' => ActionOf(f) = "pf_block_ip"
    BY <1>1, <2>1, <2>9 DEF RowsSettled, Settled
  <2>11. InPlace(f, copy)'
    BY <2>7, <2>8, <2>9, <2>10 DEF InPlace
  <2>12. \A d \in Decision : d \in latest' /\ d # f =>
             d \in latest /\ (d.target \in pf') = (d.target \in pf)
    BY <2>1, <2>2, <2>4, <2>9 DEF SameAddress
  <2>13. \A d \in Decision : d # f => Untouched(d)
    BY <1>15, <2>1, <2>9, <2>12 DEF Untouched
  <2>14. QED
    BY <1>14, <1>15, <2>1, <2>5, <2>6, <2>7, <2>9, <2>10, <2>11, <2>13
\* The act failed, answered or not.
<1>18. ASSUME self.pc = "act", ~self.copy.dry_run, Concluded(p, "failed"),
              CountRequest(p), UNCHANGED <<rows, pf, latest, renewed, unrecorded>>
       PROVE  SequenceInv'
  <2>1. PICK f \in Decision, copy \in {Outcome(self.copy, "failed")} : f = e
    BY <1>1
  <2>2. copy.status = "failed" /\ ~copy.dry_run
    BY <1>13, <1>18, <2>1
  <2>3. InPlace(f, copy)'
    BY <2>2 DEF InPlace
  <2>4. \A d \in Decision : d # f => Untouched(d)
    BY <1>15, <1>18, <2>1 DEF Untouched
  <2>5. f \in latest' => ActionOf(f) = "pf_block_ip"
    BY <1>1, <1>18 DEF RowsSettled, Settled
  <2>6. QED
    BY <1>14, <1>15, <1>18, <2>1, <2>2, <2>3, <2>4, <2>5
<1>19. CASE ActRefused(p)
  BY <1>18, <1>19 DEF ActRefused
<1>20. CASE ActTimeout(p)
  <2>1. /\ self.pc = "act" /\ ~self.copy.dry_run
        /\ UNCHANGED <<rows, pf, latest, renewed, unrecorded>>
        /\ \/ Concluded(p, "failed") /\ CountRequest(p)
           \/ UNCHANGED <<proc, liveRequests>>
    BY <1>20 DEF ActTimeout
  <2>2. CASE UNCHANGED <<proc, liveRequests>>
    BY <2>1, <2>2 DEF SequenceInv, RowsSettled, Settled, UpToDate, Busy, InPlace, Kept,
                      Unspent
  <2>3. QED
    BY <1>18, <2>1, <2>2
<1>21. CASE FinalRecord(p)
  <2>1. /\ self.pc = "final" /\ rows' = [rows EXCEPT ![e] = self.copy]
        /\ Become(p, IdleProc) /\ UNCHANGED <<pf, sequenceVars>>
    BY <1>21 DEF FinalRecord, Record, Exit, historyVars
  <2>2. PICK f \in Decision : f = e
    BY <1>1
  <2>3. /\ rows'[f] = self.copy /\ \A g \in Decision : g # f => rows'[g] = rows[g]
        /\ UNCHANGED <<liveRequests, latest, renewed, unrecorded>>
    BY <1>1, <2>1, <2>2 DEF sequenceVars
  <2>4. /\ self.copy.status \in PerformedStatuses /\ self.copy.commands
        /\ rows[f].dry_run = self.copy.dry_run /\ InPlace(f, self.copy)
        /\ rows[f].status \in {"approved"} \cup PerformedStatuses
    BY <1>1, <2>1, <2>2 DEF UpToDate, PerformedStatuses
  <2>5. InPlace(f, rows[f])'
    BY <2>1, <2>3, <2>4 DEF InPlace
  <2>6. Kept(f)'
    BY <1>1, <2>1, <2>3, <2>4 DEF RowsSettled, Settled, Kept
  <2>7. Settled(f)'
    BY <1>1, <2>3, <2>4, <2>5, <2>6 DEF RowsSettled, Settled, PerformedStatuses
  <2>8. \A g \in Decision : g # f => Untouched(g)
    BY <2>1, <2>3 DEF Untouched
  <2>9. RowsSettled'
    BY <1>1, <2>1, <2>2, <2>7, <2>8, OthersSettled
  <2>10. \A q \in Procs : UpToDate(proc[q])'
    BY <1>1, <1>2, <2>1, CommandAlone DEF UpToDate
  <2>11. QED
    BY <2>9, <2>10 DEF SequenceInv
\* A command that dies leaves its row as it is, and is remembered if it had
\* announced a live run.
<1>22. CASE Abort(p)
  <2>1. /\ Become(p, IdleProc)
        /\ unrecorded' = IF self.pc \in {"act", "final"} /\ ~self.copy.dry_run
                         THEN unrecorded \cup {e} ELSE unrecorded
        /\ UNCHANGED <<rows, pf, liveRequests, latest, renewed>>
    BY <1>22 DEF Abort, Exit
  <2>2. CASE self.pc \notin {"act", "final"}
    <3>1. UNCHANGED <<rows, pf, sequenceVars>>
      BY <2>1, <2>2 DEF sequenceVars
    <3>2. QED
      BY <1>1, <1>3, <2>1, <2>2, <3>1, ReadSettled
  <2>3. CASE self.pc \in {"act", "final"}
    <3>1. PICK f \in Decision : f = e
      BY <1>1
    <3>2. /\ rows[f].status \in {"approved", "rolled_back"}
          /\ \/ ~self.copy.dry_run
             \/ self.copy.dry_run /\ rows[f].status = "approved" /\ Unspent(f)
      BY <1>1, <2>3, <3>1 DEF UpToDate
    <3>3. f \in unrecorded' \/ (rows[f].status = "approved" /\ Unspent(f))
      BY <2>1, <2>3, <3>1, <3>2
    <3>4. f \in unrecorded => f \in unrecorded'
      BY <2>1
    <3>5. Kept(f) /\ (f \notin unrecorded => liveRequests[f] <= 1)
          /\ (f \in latest => ActionOf(f) = "pf_block_ip")
          /\ (rows[f].status = "suggested" => f \in renewed)
      BY <1>1 DEF RowsSettled, Settled
    <3>6. Kept(f)'
      BY <2>1, <3>4, <3>5 DEF Kept
    <3>7. Unspent(f) => Unspent(f)'
      BY <2>1, <3>4 DEF Unspent
    <3>8. InPlace(f, rows[f])' /\ (rows'[f].status = "approved" => Unspent(f)')
      BY <2>1, <3>2, <3>3, <3>7 DEF InPlace, Unspent
    <3>9. Settled(f)'
      BY <2>1, <3>4, <3>5, <3>6, <3>8 DEF Settled
    <3>10. \A g \in Decision : g # f => Untouched(g)
      BY <2>1, <3>1 DEF Untouched
    <3>11. RowsSettled'
      BY <1>1, <3>1, <3>9, <3>10, OthersSettled
    <3>12. \A q \in Procs : UpToDate(proc[q])'
      BY <1>1, <1>2, <2>1, CommandAlone DEF UpToDate
    <3>13. QED
      BY <3>11, <3>12 DEF SequenceInv
  <2>4. QED
    BY <2>2, <2>3
<1>23. QED
  BY <1>4, <1>5, <1>6, <1>7, <1>8, <1>9, <1>10, <1>11, <1>12, <1>16, <1>17, <1>19, <1>20,
     <1>21, <1>22 DEF Step

\* A request that lands late takes its address away from every decision.
LEMMA LandingSettled ==
  ASSUME TypeOK, SequenceInv, NEW r \in inflight, Land(r)
  PROVE  SequenceInv'
<1>1. /\ Delivered(r) /\ UNCHANGED <<rows, proc, liveRequests, renewed, unrecorded>>
      /\ latest' = IF r.op = "fire" THEN latest ELSE latest \ SameAddress(r.d)
  BY DEF Land
<1>2. r \in Request
  BY DEF TypeOK
<1>3. \A d \in Decision : Untouched(d)
  <2>1. CASE r.op = "fire"
    BY <1>1, <2>1 DEF Delivered, Untouched
  <2>2. CASE r.op = "add"
    BY <1>1, <1>2, <2>2 DEF Delivered, Untouched, SameAddress
  <2>3. CASE r.op = "delete"
    BY <1>1, <1>2, <2>3 DEF Delivered, Untouched, SameAddress
  <2>4. QED
    BY <1>2, <2>1, <2>2, <2>3 DEF Request
<1>4. latest' \subseteq latest
  BY <1>1
<1>5. ASSUME NEW d \in Decision
      PROVE  Settled(d)'
  <2>1. Settled(d) /\ Untouched(d)
    BY <1>3 DEF SequenceInv, RowsSettled
  <2>2. Kept(d)' /\ (Busy(d)' = Busy(d)) /\ (Unspent(d) => Unspent(d)')
        /\ (InPlace(d, rows[d]) => InPlace(d, rows[d])')
    BY <1>1, <2>1, UntouchedStays DEF Settled, Busy, InPlace, Untouched
  <2>3. QED
    BY <1>1, <1>4, <2>1, <2>2 DEF Settled
<1>6. ASSUME NEW p \in Procs
      PROVE  UpToDate(proc[p])'
  <2>1. proc[p].d \in Decision /\ UpToDate(proc[p])
    BY ProcFields DEF TypeOK, SequenceInv
  <2>2. PICK s : s = proc[p]
    OBVIOUS
  <2>3. Untouched(s.d) /\ proc'[p] = s /\ rows'[s.d] = rows[s.d]
    BY <1>1, <1>3, <2>1, <2>2
  <2>4. /\ InPlace(s.d, s.copy) => InPlace(s.d, s.copy)'
        /\ Unspent(s.d) => Unspent(s.d)'
    BY <2>3, UntouchedStays
  <2>5. UpToDate(s)'
    BY <1>1, <2>1, <2>2, <2>3, <2>4 DEF UpToDate
  <2>6. QED
    BY <2>2, <2>3, <2>5 DEF UpToDate, InPlace, Unspent
<1>7. QED
  BY <1>5, <1>6 DEF SequenceInv, RowsSettled

LEMMA SequenceStep ==
  ASSUME OneAtATime
  PROVE  TypeInv /\ SequenceInv /\ [Next]_vars => SequenceInv'
<1>. SUFFICES ASSUME TypeInv, SequenceInv, [Next]_vars PROVE SequenceInv'
  OBVIOUS
<1>1. ASSUME UNCHANGED <<rows, proc, pf, sequenceVars>>
      PROVE  SequenceInv'
  BY <1>1 DEF SequenceInv, RowsSettled, Settled, UpToDate, Busy, InPlace, Kept, Unspent,
              sequenceVars
<1>2. CASE \E p \in Procs : Step(p)
  BY <1>2, CommandStep
<1>3. CASE \E t \in Triages : Retriage(t)
  BY <1>1, <1>3 DEF Retriage
<1>4. CASE \E pb \in Playbooks : SetCapability(PlaybookAction[pb])
  BY <1>1, <1>4 DEF SetCapability
<1>5. CASE \E r \in inflight : Land(r)
  BY <1>5, LandingSettled DEF TypeInv
<1>6. CASE UNCHANGED vars
  BY <1>1, <1>6 DEF vars, systemVars, historyVars
<1>7. QED
  BY <1>2, <1>3, <1>4, <1>5, <1>6 DEF Next, Environment

LEMMA SequenceInit == Init => SequenceInv
<1>. SUFFICES ASSUME Init PROVE SequenceInv
  OBVIOUS
<1>1. \A p \in Procs : proc[p].pc = "idle"
  BY DEF Init, IdleProc, Handling
<1>2. \A d \in Decision : rows[d].status = "none" /\ liveRequests[d] = 0
  BY DEF Init, NoRow
<1>3. latest = {}
  BY DEF Init
<1>4. RowsSettled
  BY <1>2, <1>3 DEF RowsSettled, Settled, InPlace, Kept
<1>5. \A p \in Procs : UpToDate(proc[p])
  BY <1>1, IdleUpToDate
<1>6. QED
  BY <1>4, <1>5 DEF SequenceInv

\* As long as commands come one after another, one recorded approval pays for
\* at most one live request, whatever is refused or late: only a run that was
\* killed, or could not write its outcome, can be followed by another.
THEOREM ApprovalIsSpentOnce ==
  ASSUME OneAtATime
  PROVE  Spec => []ApprovalSpentOnce
<1>1. SequenceInv => ApprovalSpentOnce
  BY DEF SequenceInv, RowsSettled, Settled, ApprovalSpentOnce
<1>2. QED
  BY <1>1, SequenceInit, SequenceStep, EarnedAlways, PTL DEF Spec

\* Under the same condition the audit table and the firewall agree, in both
\* directions, about every address that a decision was the last to touch, for
\* any sequence of proposals, approvals, dry and live executions and rollbacks
\* of any number of decisions about it, killed, refused and late ones included.
THEOREM AuditMatchesFirewall ==
  ASSUME OneAtATime
  PROVE  Spec => []RowsMatchFirewall
<1>1. TypeOK /\ SequenceInv => RowsMatchFirewall
  <2>. SUFFICES ASSUME TypeOK, SequenceInv PROVE RowsMatchFirewall
    OBVIOUS
  <2>1. latest \subseteq Decision /\ \A d \in Decision : Settled(d)
    BY DEF TypeOK, SequenceInv, RowsSettled
  <2>2. ASSUME NEW d \in latest, Busy(d)
        PROVE  rows[d].status \in {"approved", "rolled_back"}
    <3>1. PICK p \in Procs : proc[p].pc \in {"act", "final"} /\ proc[p].d = d
      BY <2>2 DEF Busy
    <3>2. UpToDate(proc[p])
      BY DEF SequenceInv
    <3>3. QED
      BY <3>1, <3>2 DEF UpToDate
  <2>3. ExecutedIsBlocked
    BY <2>1, <2>2 DEF ExecutedIsBlocked, Settled, InPlace
  <2>4. BlockedIsRecorded
    BY <2>1 DEF BlockedIsRecorded, Settled, Kept
  <2>5. RolledBackIsGone
    BY <2>1 DEF RolledBackIsGone, Settled, InPlace
  <2>6. ApprovedIsUnspent
    BY <2>1 DEF ApprovedIsUnspent, Settled, Unspent
  <2>7. QED
    BY <2>3, <2>4, <2>5, <2>6 DEF RowsMatchFirewall
<1>2. TypeInv => TypeOK
  BY DEF TypeInv
<1>3. QED
  BY <1>1, <1>2, SequenceInit, SequenceStep, EarnedAlways, PTL DEF Spec

\* soc/response.py:25 holds while commands come one after another: what an
\* earlier gate denied is only denied again or suggested by a new evaluation.
THEOREM DeniedStaysDenied ==
  ASSUME OneAtATime
  PROVE  Spec => NoResurrection
<1>1. TypeInv /\ SequenceInv /\ [Next]_vars =>
          [\A d \in Decision : rows[d].status = "denied" =>
                               rows'[d].status \in {"denied", "suggested"}]_vars
  <2>. SUFFICES ASSUME TypeInv, SequenceInv, [Next]_vars,
                       NEW d \in Decision, rows[d].status = "denied"
                PROVE  rows'[d].status \in {"denied", "suggested"}
    OBVIOUS
  <2>1. rows \in [Decision -> Row]
    BY DEF TypeInv, TypeOK
  <2>2. CASE UNCHANGED rows
    BY <2>2
  <2>3. ASSUME NEW p \in Procs, ProposeNext(p)
        PROVE  rows'[d].status \in {"denied", "suggested"}
    <3>. DEFINE self == proc[p]
                e == [playbook |-> PlaybookOrder[self.next], target |-> self.d.target,
                      triage |-> self.d.triage]
                new == Evaluated(e, self.seen, self.caps)
    <3>1. new.status \in {"denied", "suggested"}
      BY DEF Evaluated
    <3>2. Record(e, new) \/ UNCHANGED rows
      BY <2>3 DEF ProposeNext
    <3>. HIDE DEF e, new
    <3>3. QED
      BY <2>1, <3>1, <3>2 DEF Record
  <2>4. ASSUME NEW p \in Procs, ApproveRecord(p) \/ PreRecord(p) \/ FinalRecord(p)
        PROVE  rows'[d] = rows[d]
    <3>1. UpToDate(proc[p])
      BY DEF SequenceInv
    <3>2. rows[proc[p].d].status # "denied"
      BY <2>4, <3>1 DEF UpToDate, ApproveRecord, PreRecord, FinalRecord, PerformedStatuses
    <3>3. QED
      BY <2>1, <2>4, <3>2 DEF ApproveRecord, PreRecord, FinalRecord, Record
  <2>5. QED
    BY <2>2, <2>3, <2>4, RowWriters
<1>2. QED
  BY <1>1, SequenceInit, SequenceStep, EarnedAlways, PTL DEF Spec, NoResurrection
=============================================================================
