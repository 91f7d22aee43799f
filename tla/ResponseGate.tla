--------------------------- MODULE ResponseGate ---------------------------
(***************************************************************************)
(* The controlled response path: soc/response.py (the gate), the commands  *)
(* of run_response.py that drive it, the response_actions table of         *)
(* soc/store.py that is both its audit trail and its only state, and the   *)
(* two kinds of executor (soc/pfctl_client.py, soc/wazuh_response.py).     *)
(*                                                                         *)
(* Every command is its own process.  It loads one row, decides on its     *)
(* private copy, and writes the whole copy back; each load and each write  *)
(* is one SQLite transaction, so processes interleave between them.        *)
(***************************************************************************)
EXTENDS Naturals, Sequences, FiniteSets

CONSTANTS
    Procs,          \* concurrently running run_response.py commands
    Analysts,       \* names given with --analyst
    NoAnalyst,      \* approved_by of a proposal nobody approved
    Targets,        \* values given with --target
    Triages,        \* ids of triage results
    Playbooks,      \* playbook names
    PlaybookOrder,  \* the playbooks as load_playbooks sorts them
    PlaybookAction, \* action of each playbook
    Trigger,        \* trigger_actions of each playbook
    Required,       \* required_confidence of each playbook
    Score,          \* score of each triage result (its id hashes the score)
    PublicTargets,  \* targets that are globally routable addresses
    IPTargets,      \* targets that are one address
    AgentTargets,   \* targets of the form <agent_id>/<ip>
    Verdicts,       \* rows the pipeline may store for a triage result
    Faults          \* which of "abort", "timeout", "refused" may happen

VARIABLES
    triage,         \* the triage_results table, written by the pipeline
    capability,     \* settings: which response capabilities are enabled
    rows,           \* the response_actions table
    proc,           \* the local state of each process
    pf,             \* the pf block table on the firewall
    fired,          \* decisions whose Wazuh active response ran on the agent
    inflight,       \* requests that timed out here and may still arrive there
    \* What has happened so far, for the properties only:
    modelScored,    \* triage results that were ever stored with a model score
    optedIn,        \* actions whose capability was ever enabled
    approvals,      \* decisions an approval was ever recorded for
    announced,      \* decisions a live run was ever recorded for beforehand
    liveRequests,   \* live requests since the decision's last approval
    latest,         \* decisions whose request was the last to reach their address
    renewed,        \* decisions proposed anew since their last live run
    unrecorded      \* decisions with a live run since their last approval that
                    \* ended before its outcome was written

systemVars == <<triage, capability, rows, proc, pf, fired, inflight>>
sequenceVars == <<liveRequests, latest, renewed, unrecorded>>
historyVars == <<modelScored, optedIn, approvals, announced, sequenceVars>>
vars == <<systemVars, historyVars>>

ActionTypes == {"pf_block_ip", "wazuh_firewall_drop", "wazuh_host_deny"}
TriageActions == {"page_now", "queue_review", "mark_likely_benign"}
Sources == {"local", "llm"}

\* One decision is one proposal id: _proposal_id hashes exactly these fields
\* (and the playbook's action).
Decision == [playbook : Playbooks, target : Targets, triage : Triages]
ActionOf(d) == PlaybookAction[d.playbook]

Statuses == {"suggested", "denied", "approved", "executed", "failed",
             "rolled_back"}
PerformedStatuses == {"executed", "failed", "rolled_back"}

\* "none" is the status of a row that does not exist.
Row == [status : Statuses \cup {"none"}, source : Sources,
        approved_by : Analysts \cup {NoAnalyst},
        commands : BOOLEAN,  \* command and rollback_command are filled in
        dry_run : BOOLEAN]
NoRow == [status |-> "none", source |-> "local", approved_by |-> NoAnalyst,
          commands |-> FALSE, dry_run |-> TRUE]

\* "none" is the source of a triage result that is not stored.
TriageRow == [source : Sources \cup {"none"}, action : TriageActions]
NoTriage == [source |-> "none", action |-> "mark_likely_benign"]

ProcState == [pc : {"idle", "load", "propose", "approve", "record", "act",
                    "final"},
              d : Decision, copy : Row, seen : TriageRow,
              caps : SUBSET ActionTypes, next : Nat \ {0}]
AnyDecision == CHOOSE d \in Decision : TRUE

\* A process that is proposing holds what it read; any other holds a copy.
Proposing(pc, d, seen, caps, next) ==
    [pc |-> pc, d |-> d, copy |-> NoRow,
     seen |-> seen, caps |-> caps, next |-> next]
Handling(pc, d, copy) ==
    [pc |-> pc, d |-> d, copy |-> copy,
     seen |-> NoTriage, caps |-> {}, next |-> 1]
IdleProc == Handling("idle", AnyDecision, NoRow)

Request == [op : {"add", "delete", "fire"}, d : Decision]

ASSUME ConstantsAssumption ==
    /\ NoAnalyst \notin Analysts
    /\ PlaybookOrder \in Seq(Playbooks)
    /\ PlaybookAction \in [Playbooks -> ActionTypes]
    /\ Trigger \in [Playbooks -> SUBSET TriageActions]
    /\ Required \in [Playbooks -> Nat]
    /\ Score \in [Triages -> Nat]
    /\ Verdicts \subseteq [source : Sources, action : TriageActions]
    /\ PublicTargets \subseteq IPTargets
    /\ IPTargets \subseteq Targets
    /\ AgentTargets \subseteq Targets
    /\ Playbooks # {} /\ Targets # {} /\ Triages # {}

-----------------------------------------------------------------------------
(* The pure part: gates and executors' descriptions.                       *)

\* Playbook.applies_to
AppliesTo(pb, act) == Trigger[pb] = {} \/ act \in Trigger[pb]

\* Mutants are named for the mistake they make; nothing but a mutation run
\* uses them.
LocalScoreSuffices(d, seen, caps) ==
    \/ ActionOf(d) \notin caps
    \/ Score[d.triage] < Required[d.playbook]
    \/ ActionOf(d) = "pf_block_ip" /\ d.target \notin PublicTargets

\* ResponseGate._denial_reason, on the settings and the triage result the
\* process has read.  (A blank target is refused before a process starts.)
Denied(d, seen, caps) ==
    \/ ActionOf(d) \notin caps
    \/ seen.source # "llm"
    \/ Score[d.triage] < Required[d.playbook]
    \/ ActionOf(d) = "pf_block_ip" /\ d.target \notin PublicTargets

\* ResponseGate._evaluate: the proposal a (re)evaluation writes.
Evaluated(d, seen, caps) ==
    [status |-> IF Denied(d, seen, caps) THEN "denied" ELSE "suggested",
     source |-> seen.source, approved_by |-> NoAnalyst,
     commands |-> FALSE, dry_run |-> TRUE]

BlankAnalystAccepted(row, analyst) ==
    [status |-> "approved", source |-> row.source, approved_by |-> "",
     commands |-> row.commands, dry_run |-> row.dry_run]

ApproverForgotten(row, analyst) ==
    [status |-> "approved", source |-> row.source,
     approved_by |-> row.approved_by,
     commands |-> row.commands, dry_run |-> row.dry_run]

\* What approve, execute and rollback make of the copy they loaded before
\* they first write it, and the outcome of the act.
Approved(row, analyst) ==
    [status |-> "approved", source |-> row.source, approved_by |-> analyst,
     commands |-> row.commands, dry_run |-> row.dry_run]
Prepared(row, live) ==
    [status |-> row.status, source |-> row.source,
     approved_by |-> row.approved_by, commands |-> TRUE, dry_run |-> ~live]
Reverted(row) ==
    [status |-> "rolled_back", source |-> row.source,
     approved_by |-> row.approved_by, commands |-> TRUE, dry_run |-> FALSE]
Outcome(row, status) == [row EXCEPT !.status = status]

\* executor.describe raises on a target of the wrong form, before the gate.
Describable(d) == IF ActionOf(d) = "pf_block_ip" THEN d.target \in IPTargets
                                                 ELSE d.target \in AgentTargets

\* The request a live run sends; a rollback's copy is already "rolled_back".
RequestOf(d, copy) ==
    [op |-> IF copy.status = "rolled_back" THEN "delete"
            ELSE IF ActionOf(d) = "pf_block_ip" THEN "add" ELSE "fire",
     d |-> d]

\* What a request does where it arrives: pf tables are sets, an active
\* response runs a script on the agent.
Delivered(r) ==
    /\ pf' = CASE r.op = "add"    -> pf \cup {r.d.target}
               [] r.op = "delete" -> pf \ {r.d.target}
               [] OTHER           -> pf
    /\ fired' = IF r.op = "fire" THEN fired \cup {r.d} ELSE fired

\* The decisions about one address: an entry of the pf table has no owner.
SameAddress(d) == {e \in Decision : e.target = d.target}

-----------------------------------------------------------------------------
Init ==
    /\ triage = [t \in Triages |-> NoTriage]
    /\ capability = {}
    /\ rows = [d \in Decision |-> NoRow]
    /\ proc = [p \in Procs |-> IdleProc]
    /\ pf = {} /\ fired = {} /\ inflight = {}
    /\ modelScored = {} /\ optedIn = {} /\ approvals = {} /\ announced = {}
    /\ liveRequests = [d \in Decision |-> 0]
    /\ latest = {} /\ renewed = {} /\ unrecorded = {}

Idle(p) == proc[p].pc = "idle"
Become(p, state) == proc' = [proc EXCEPT ![p] = state]
Exit(p) == Become(p, IdleProc)

\* SQLiteStore.record_response_action: the upsert overwrites every column
\* that can change with the copy's.
Record(d, row) == rows' = [rows EXCEPT ![d] = row]

(* ---- propose: one evaluation and one write per applicable playbook ---- *)

\* The process starts: settings are read once and used to the end.
ProposeStart(p, target, t) ==
    /\ Idle(p)
    /\ Become(p, Proposing("load", [playbook |-> AnyDecision.playbook,
                                   target |-> target, triage |-> t],
                           NoTriage, capability, 1))
    /\ UNCHANGED <<triage, capability, rows, pf, fired, inflight, historyVars>>

ProposeLoad(p) ==
    /\ proc[p].pc = "load"
    /\ LET self == proc[p]
           found == triage[self.d.triage]
       IN  IF found.source = "none" THEN Exit(p)
           ELSE Become(p, Proposing("propose", self.d, found, self.caps, 1))
    /\ UNCHANGED <<triage, capability, rows, pf, fired, inflight, historyVars>>

\* The next turn of the loop over the sorted playbooks.
ProposeNext(p) ==
    LET self == proc[p]
        pb == PlaybookOrder[self.next]
        d == [playbook |-> pb, target |-> self.d.target,
              triage |-> self.d.triage]
    IN  /\ self.pc = "propose"
        /\ self.next <= Len(PlaybookOrder)
        /\ IF AppliesTo(pb, self.seen.action)
             THEN /\ Record(d, Evaluated(d, self.seen, self.caps))
                  /\ renewed' = renewed \cup {d}
             ELSE UNCHANGED <<rows, renewed>>
        /\ Become(p, Proposing("propose", self.d, self.seen, self.caps,
                               self.next + 1))
        /\ UNCHANGED <<triage, capability, pf, fired, inflight, modelScored,
                       optedIn, approvals, announced, liveRequests, latest,
                       unrecorded>>

ProposeDone(p) ==
    /\ proc[p].pc = "propose"
    /\ proc[p].next > Len(PlaybookOrder)
    /\ Exit(p)
    /\ UNCHANGED <<triage, capability, rows, pf, fired, inflight, historyVars>>

(* ---- approve ---- *)

ApprovesDenied(p, d, analyst) ==
    /\ Idle(p)
    /\ rows[d].status \in {"suggested", "denied"}
    /\ Become(p, Handling("approve", d, Approved(rows[d], analyst)))
    /\ UNCHANGED <<triage, capability, rows, pf, fired, inflight, historyVars>>

\* Any other status, and an unknown id, ends the command with an error.
ApproveLoad(p, d, analyst) ==
    /\ Idle(p)
    /\ rows[d].status = "suggested"
    /\ Become(p, Handling("approve", d, Approved(rows[d], analyst)))
    /\ UNCHANGED <<triage, capability, rows, pf, fired, inflight, historyVars>>

ApproveRecord(p) ==
    /\ proc[p].pc = "approve"
    /\ Record(proc[p].d, proc[p].copy)
    /\ Exit(p)
    /\ approvals' = approvals \cup {proc[p].d}
    /\ liveRequests' = [liveRequests EXCEPT ![proc[p].d] = 0]
    /\ unrecorded' = unrecorded \ {proc[p].d}
    /\ UNCHANGED <<triage, capability, pf, fired, inflight, modelScored,
                   optedIn, announced, latest, renewed>>

(* ---- execute and rollback: load, record, act, record ---- *)

ExecutesSuggested(p, d, live) ==
    /\ Idle(p)
    /\ rows[d].status \in {"suggested", "approved"}
    /\ Describable(d)
    /\ Become(p, Handling("record", d, Prepared(rows[d], live)))
    /\ UNCHANGED <<triage, capability, rows, pf, fired, inflight, historyVars>>

\* execute --confirm, with or without --force-live.
ExecuteLoad(p, d, live) ==
    /\ Idle(p)
    /\ rows[d].status = "approved"
    /\ Describable(d)
    /\ Become(p, Handling("record", d, Prepared(rows[d], live)))
    /\ UNCHANGED <<triage, capability, rows, pf, fired, inflight, historyVars>>

\* rollback --confirm; only pf blocks have a rollback.
RollbackLoad(p, d) ==
    /\ Idle(p)
    /\ rows[d].status \in PerformedStatuses
    /\ ActionOf(d) = "pf_block_ip"
    /\ Describable(d)
    /\ Become(p, Handling("record", d, Reverted(rows[d])))
    /\ UNCHANGED <<triage, capability, rows, pf, fired, inflight, historyVars>>

ActsUnrecorded(p) ==
    /\ proc[p].pc = "record"
    /\ Become(p, Handling("act", proc[p].d, proc[p].copy))
    /\ UNCHANGED <<triage, capability, rows, pf, fired, inflight, historyVars>>

\* The record "pre-execution" or "pre-rollback" that must precede the act.
PreRecord(p) ==
    LET self == proc[p] IN
    /\ self.pc = "record"
    /\ Record(self.d, self.copy)
    /\ Become(p, Handling("act", self.d, self.copy))
    /\ announced' = IF self.copy.dry_run THEN announced
                                         ELSE announced \cup {self.d}
    /\ renewed' = IF self.copy.dry_run THEN renewed ELSE renewed \ {self.d}
    /\ UNCHANGED <<triage, capability, pf, fired, inflight, modelScored,
                   optedIn, approvals, liveRequests, latest, unrecorded>>

Concluded(p, status) ==
    Become(p, Handling("final", proc[p].d, Outcome(proc[p].copy, status)))

OutcomeOK(p) == IF proc[p].copy.status = "rolled_back" THEN "rolled_back"
                                                       ELSE "executed"

\* What a client sends again of itself is one request; at most 2 is enough to
\* tell "once" from "more than once".
CountRequest(p) ==
    liveRequests' = [liveRequests EXCEPT ![proc[p].d] =
                   IF proc[p].copy.status = "rolled_back" \/ @ = 2
                   THEN @ ELSE @ + 1]

ActDry(p) ==
    /\ proc[p].pc = "act"
    /\ proc[p].copy.dry_run
    /\ Concluded(p, "executed")
    /\ UNCHANGED <<triage, capability, rows, pf, fired, inflight, historyVars>>

ActDone(p) ==
    /\ proc[p].pc = "act"
    /\ ~ proc[p].copy.dry_run
    /\ Delivered(RequestOf(proc[p].d, proc[p].copy))
    /\ Concluded(p, OutcomeOK(p))
    /\ CountRequest(p)
    /\ latest' = IF ActionOf(proc[p].d) = "pf_block_ip"
                 THEN (latest \ SameAddress(proc[p].d)) \cup {proc[p].d}
                 ELSE latest
    /\ UNCHANGED <<triage, capability, rows, inflight, modelScored, optedIn,
                   approvals, announced, renewed, unrecorded>>

ExitCodeIgnored(p) ==
    /\ "refused" \in Faults
    /\ proc[p].pc = "act"
    /\ ~ proc[p].copy.dry_run
    /\ Concluded(p, OutcomeOK(p))
    /\ CountRequest(p)
    /\ UNCHANGED <<triage, capability, rows, pf, fired, inflight, modelScored,
                   optedIn, approvals, announced, latest, renewed, unrecorded>>

\* ssh or the manager reports an error and nothing was changed.
ActRefused(p) ==
    /\ "refused" \in Faults
    /\ proc[p].pc = "act"
    /\ ~ proc[p].copy.dry_run
    /\ Concluded(p, "failed")
    /\ CountRequest(p)
    /\ UNCHANGED <<triage, capability, rows, pf, fired, inflight, modelScored,
                   optedIn, approvals, announced, latest, renewed, unrecorded>>

\* No answer in time: the request may still arrive.  pfctl gives up at once;
\* WazuhManagerClient.request tries again (the process stays at "act") until
\* max_retries is used up.
ActTimeout(p) ==
    LET r == RequestOf(proc[p].d, proc[p].copy) IN
    /\ "timeout" \in Faults
    /\ proc[p].pc = "act"
    /\ ~ proc[p].copy.dry_run
    /\ inflight' = inflight \cup {r}
    /\ \/ Concluded(p, "failed") /\ CountRequest(p)
       \/ r.op = "fire" /\ UNCHANGED <<proc, liveRequests>>
    /\ UNCHANGED <<triage, capability, rows, pf, fired, modelScored, optedIn,
                   approvals, announced, latest, renewed, unrecorded>>

OutcomeUnrecorded(p) ==
    /\ proc[p].pc = "final"
    /\ Exit(p)
    /\ UNCHANGED <<triage, capability, rows, pf, fired, inflight, historyVars>>

FinalRecord(p) ==
    /\ proc[p].pc = "final"
    /\ Record(proc[p].d, proc[p].copy)
    /\ Exit(p)
    /\ UNCHANGED <<triage, capability, pf, fired, inflight, historyVars>>

\* The process dies, or a write to the audit table raises and the command
\* ends with an error: either way nothing after this point happens.
Abort(p) ==
    /\ "abort" \in Faults
    /\ ~ Idle(p)
    /\ Exit(p)
    /\ unrecorded' = IF proc[p].pc \in {"act", "final"} /\ ~ proc[p].copy.dry_run
                     THEN unrecorded \cup {proc[p].d} ELSE unrecorded
    /\ UNCHANGED <<triage, capability, rows, pf, fired, inflight, modelScored,
                   optedIn, approvals, announced, liveRequests, latest, renewed>>

(* ---- environment ---- *)

\* save_triage_result replaces the row of a triage id.  The id hashes the
\* target, the score and the classification, not the source or the action.
Retriage(t) ==
    \E verdict \in Verdicts :
      /\ triage' = [triage EXCEPT ![t] = verdict]
      /\ modelScored' = IF verdict.source = "llm" THEN modelScored \cup {t}
                                                  ELSE modelScored
      /\ UNCHANGED <<capability, rows, proc, pf, fired, inflight, optedIn,
                     approvals, announced, sequenceVars>>

\* An operator edits the RESPONSE_*_ENABLED settings.
SetCapability(act) ==
    /\ capability' = IF act \in capability THEN capability \ {act}
                                           ELSE capability \cup {act}
    /\ optedIn' = optedIn \cup capability'
    /\ UNCHANGED <<triage, rows, proc, pf, fired, inflight, modelScored,
                   approvals, announced, sequenceVars>>

\* A request the client gave up on arrives after all.
Land(r) ==
    /\ r \in inflight
    /\ inflight' = inflight \ {r}
    /\ Delivered(r)
    /\ latest' = IF r.op = "fire" THEN latest ELSE latest \ SameAddress(r.d)
    /\ UNCHANGED <<triage, capability, rows, proc, modelScored, optedIn,
                   approvals, announced, liveRequests, renewed, unrecorded>>

-----------------------------------------------------------------------------
Step(p) ==
    \/ \E target \in Targets, t \in Triages : ProposeStart(p, target, t)
    \/ ProposeLoad(p)
    \/ ProposeNext(p)
    \/ ProposeDone(p)
    \/ \E d \in Decision, a \in Analysts : ApproveLoad(p, d, a)
    \/ ApproveRecord(p)
    \/ \E d \in Decision, live \in BOOLEAN : ExecuteLoad(p, d, live)
    \/ \E d \in Decision : RollbackLoad(p, d)
    \/ PreRecord(p)
    \/ ActDry(p)
    \/ ActDone(p)
    \/ ActRefused(p)
    \/ ActTimeout(p)
    \/ FinalRecord(p)
    \/ Abort(p)

Environment ==
    \/ \E t \in Triages : Retriage(t)
    \/ \E pb \in Playbooks : SetCapability(PlaybookAction[pb])
    \/ \E r \in inflight : Land(r)

Next == (\E p \in Procs : Step(p)) \/ Environment

Spec == Init /\ [][Next]_vars

-----------------------------------------------------------------------------
(* Properties.                                                             *)

\* Every variable has its type.
TypeOK ==
    /\ triage \in [Triages -> TriageRow]
    /\ capability \subseteq ActionTypes
    /\ rows \in [Decision -> Row]
    /\ proc \in [Procs -> ProcState]
    /\ pf \subseteq Targets
    /\ fired \subseteq Decision
    /\ inflight \subseteq Request
    /\ modelScored \subseteq Triages
    /\ optedIn \subseteq ActionTypes
    /\ approvals \subseteq Decision
    /\ announced \subseteq Decision
    /\ liveRequests \in [Decision -> 0..2]
    /\ latest \subseteq Decision
    /\ renewed \subseteq Decision
    /\ unrecorded \subseteq Decision

\* The first four gates of soc/response.py, as far as they can be told from
\* what has been true at some time: the capability was switched on, the score
\* came from a model, it met the playbook's bar, and the target may be blocked.
Grounds ==
    {d \in Decision :
        /\ ActionOf(d) \in optedIn
        /\ d.triage \in modelScored
        /\ Score[d.triage] >= Required[d.playbook]
        /\ ActionOf(d) = "pf_block_ip" => d.target \in PublicTargets}

\* Gates 1-5, end to end: whatever order the commands of concurrent operators
\* interleave in, whatever dies, and however often triage rows and settings
\* change under them, a live run is only ever announced for a decision that a
\* named analyst approved and that had passed the first four gates.
ActsNeedApprovalOnGrounds == announced \subseteq approvals
                             /\ approvals \subseteq Grounds

\* Gate 6: an address is in the pf table, or an active response has run, or a
\* timed-out request may yet do either, only after the audit table recorded
\* the live run.
AuditedBeforeAct ==
    /\ \A t \in pf : \E d \in announced :
                        ActionOf(d) = "pf_block_ip" /\ d.target = t
    /\ fired \subseteq announced
    /\ \A r \in inflight : r.d \in announced

\* What the audit table says of a performed action can be answered for: an
\* approved, executed, failed or rolled-back row names an analyst, carries a
\* model score, and belongs to a decision that was approved.
PerformedRowsAccountable ==
    \A d \in Decision :
        rows[d].status \in {"approved"} \cup PerformedStatuses =>
            /\ rows[d].approved_by \in Analysts
            /\ rows[d].source = "llm"
            /\ d \in approvals

(***************************************************************************)
(* Why the three invariants above hold: a row or a private copy that is    *)
(* past an approval stays tied to a decision that had its grounds and got  *)
(* its approval, whoever else rewrites the row meanwhile; what a proposer  *)
(* read was true at some time; and a live run is announced before the act. *)
(***************************************************************************)
EarnedRows(d) ==
    {row \in Row :
        /\ row.status \in {"suggested", "approved"} \cup PerformedStatuses =>
             d \in Grounds /\ row.source = "llm"
        /\ row.status \in {"approved"} \cup PerformedStatuses =>
             d \in approvals /\ row.approved_by \in Analysts}

EarnedStates ==
    {s \in ProcState :
        /\ s.caps \subseteq optedIn
        /\ s.seen.source = "llm" => s.d.triage \in modelScored
        /\ s.pc = "approve" =>
             /\ s.d \in Grounds
             /\ s.copy.source = "llm" /\ s.copy.approved_by \in Analysts
             /\ s.copy.status = "approved"
        /\ s.pc \in {"record", "act", "final"} =>
             /\ s.copy \in EarnedRows(s.d)
             /\ s.copy.status \in {"approved"} \cup PerformedStatuses
        /\ s.pc \in {"record", "act"} /\ s.copy.status = "rolled_back" =>
             ActionOf(s.d) = "pf_block_ip"
        /\ s.pc = "act" /\ ~ s.copy.dry_run => s.d \in announced}

\* The inductive invariant: everything in the tables and in every process'
\* memory was earned through the gates.
EverythingEarned ==
    /\ capability \subseteq optedIn
    /\ \A t \in Triages : triage[t].source = "llm" => t \in modelScored
    /\ \A d \in Decision : rows[d] \in EarnedRows(d)
    /\ \A p \in Procs : proc[p] \in EarnedStates
    /\ \A r \in inflight : r.op \in {"add", "delete"} <=>
                             ActionOf(r.d) = "pf_block_ip"
    /\ ActsNeedApprovalOnGrounds
    /\ AuditedBeforeAct

\* soc/response.py:25, "an approval cannot resurrect a proposal an earlier
\* gate already denied": a denied row can only be denied again or re-suggested
\* by a new evaluation.
NoResurrection ==
    [][\A d \in Decision : rows[d].status = "denied" =>
                           rows'[d].status \in {"denied", "suggested"}]_vars

\* soc/response.py:30, "every executed action records both the exact command
\* and the command that undoes it": whenever no command is running, each
\* blocked address has an audit row that still holds its commands.
BlocksKeepTheirUndo ==
    (\A p \in Procs : Idle(p)) =>
        \A t \in pf : \E d \in Decision :
            /\ ActionOf(d) = "pf_block_ip" /\ d.target = t
            /\ rows[d].commands

\* One recorded approval pays for at most one live request to the firewall or
\* the manager (soc/response.py:435): execute leaves no row "approved" behind
\* that it has acted on.  The one exception is a run that was killed, or whose
\* last write failed, before its outcome was recorded: its row is still
\* "approved" and can be executed again.
ApprovalSpentOnce ==
    \A d \in Decision \ unrecorded : liveRequests[d] <= 1

(***************************************************************************)
(* The audit table and the firewall tell the same story, in both           *)
(* directions, about an address that the decision was the last to touch:   *)
(* an entry of pf has no owner, so another decision about the address, or  *)
(* a request that lands late, may add or delete it (soc/pfctl_client.py:   *)
(* 215) and no row says so.                                                *)
(***************************************************************************)

\* A row that says executed live has its block in place.
ExecutedIsBlocked ==
    \A d \in latest :
        rows[d].status = "executed" /\ ~ rows[d].dry_run => d.target \in pf

\* A block in place has a row that tells of a live run and keeps its commands,
\* until the decision is proposed anew; only after a run that ended unrecorded
\* may the row tell of a dry run, because it could be executed again.
BlockedIsRecorded ==
    \A d \in latest \ renewed :
        d.target \in pf =>
            /\ rows[d].status \in {"approved"} \cup PerformedStatuses
            /\ rows[d].commands
            /\ rows[d].dry_run => d \in unrecorded

\* A command that can still write an outcome.
Busy(d) == \E p \in Procs : proc[p].pc \in {"act", "final"} /\ proc[p].d = d

\* Once a rollback is over, its row says rolled back only if the block is gone.
RolledBackIsGone ==
    \A d \in latest \ unrecorded :
        ~ Busy(d) /\ rows[d].status = "rolled_back" => d.target \notin pf

\* An approval that is still open has not been acted on.
ApprovedIsUnspent ==
    \A d \in Decision \ unrecorded :
        ~ Busy(d) /\ rows[d].status = "approved" => liveRequests[d] = 0

\* One command at a time, whatever dies, is refused or comes late, and however
\* many decisions share an address.
RowsMatchFirewall ==
    /\ ExecutedIsBlocked
    /\ BlockedIsRecorded
    /\ RolledBackIsGone
    /\ ApprovedIsUnspent

\* The gate as an authority: decisions with grounds, approvals given on them,
\* and effects announced before they happen.
Authority == INSTANCE ResponseAuthority WITH
    grounds <- Grounds, authorized <- approvals, announced <- announced,
    blocked <- pf, fired <- fired, pending <- {r.d : r \in inflight},
    BlockDecisions <- {d \in Decision : ActionOf(d) = "pf_block_ip"},
    TargetOf <- [d \in Decision |-> d.target]

\* The commands, interleaved and failing in every way modelled here, behave as
\* that authority.
ImplementsAuthority == Authority!Spec
=============================================================================
