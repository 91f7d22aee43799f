# Formal model of the AI-augmented SOC pipeline

TLA+ modules that model the parts of this repository where state, order and
failure matter, TLC configurations that check them on small instances, and
TLAPS proofs, for every instance, of the safety properties of the response gate, the
daemon, the pipeline, the alert reader, ingestion, threat intelligence and the
assessment of alerts.

Run, in this directory: `tlc -config MCDaemon.cfg MCDaemon` (any `.cfg` with the
MC module it belongs to) and `tlapm DaemonProofs.tla` (any module named `...Proofs`).

## The system

A cycle fetches alerts from a source, stores and normalizes them, clusters them
into candidates, triages each candidate with or without a language model, routes
it, queues it for an analyst, writes a report and sends a notification. A daemon
repeats cycles. Beside it, analysts record verdicts, and a separate tool proposes,
approves, executes and rolls back response actions on a pf firewall or on Wazuh
agents. All lasting state is in one SQLite file; every call of the store opens a
connection and is one transaction. Processes share nothing else.

| Part | State | Operations | What is hard | Correct when |
|---|---|---|---|---|
| Response gate (`run_response.py`, `soc/response.py`, `soc/playbooks.py`) | one row per decision in `response_actions`, a private copy in each command | propose, approve, execute, rollback | commands load, decide on a copy and write all of it back; kills and failed audit writes; requests that time out and land later | nothing reaches a firewall or an agent without grounds, an approval and a record written before |
| Executors (`soc/pfctl_client.py`, `soc/wazuh_response.py`) | the pf table, the agent | describe, execute, rollback | success, refusal, timeout, retry | the recorded outcome is what happened |
| Alert reader (`soc/wazuh_client.py`) and cursor (`soc/store.py`) | `ingest_cursors` row | read_recent_alerts | the log grows, is renamed or truncated at any point of a read; inode numbers are reused; unterminated last lines | nothing but the oldest of a burst is skipped, little is read twice |
| Pipeline (`soc/pipeline.py`) with store, dedup, clustering, routing, incidents | nine tables, the dedup keys | run_events | each call may fail, foreign keys make failures spread, a run may be killed anywhere, keys expire | each alert is decided on once, and its evidence stays |
| Review queue (`run_review.py`) | `analyst_queue` | record a verdict | concurrent with reruns | a verdict is never undone |
| Daemon (`soc/daemon.py`, `run_pipeline.py`) | stop flag and reason | run, signal handlers | handlers interrupt the loop and each other | stops when asked, otherwise goes on |
| Assessment (`soc/normalizer.py`, `clustering.py`, `enrichment.py`, `assets.py`, `triage.py`, `openrouter_client.py`, `router.py`, `incidents.py`, `notifier.py`) | none; each stage hands its result on | normalize, cluster, enrich, score, ask a model, fall back, route, notify, promote | points added in many places; alerts without a time; a model that fails, answers nonsense or breaks | each alert in one candidate whatever the order; what is critical is paged; a result names its true source |
| Threat intelligence (`soc/threat_intel.py`, VirusTotal, AbuseIPDB and Shodan clients) | `enrichment_cache`, last call times in memory | lookup | expiry, gaps between calls, retries, a failing cache, restarts | no call too early, for a private address, or for what is known |
| Sources (`wazuh_client`, `wazuh_indexer_client`, `security_onion_client`, `splunk_search_client`) in `run_pipeline.py` | tokens, a search job, the cursor | authenticate, fetch, poll a job | late documents, limits, tokens that end, refused credentials, repeated cycles | every matching event once |
| Splunk delivery (`soc/splunk_client.py`) | none between cycles | post in batches | lost answers, a batch that fails | what was decided arrives or the cycle says that it did not |
| Evaluation (`soc/evaluation.py`, `run_eval.py`, `run_review.py promote`) | labels and fixtures on disk | promote reviews, evaluate | a score measured in another process and through another entry point | a label means what the analyst said |
| Reports and assistant (`soc/report.py`, `run_report.py`, `run_assistant.py`) | a file, a mail | draft, fall back, deliver; ask | a model that writes, fails or answers in part; several places that name the author | everything said of the author and of the incident is true |
| Settings, listings | none that others read | conversion and queries | none that involves order | out of scope |

## Modules

| Module | Models | Checked by | Proved in |
|---|---|---|---|
| `ResponseGate` | the response commands as processes over the audit table | `MCResponseGate` | `ResponseGateProofs` |
| `ResponseAuthority` | what the gate promises, without commands or failures | as a property of `ResponseGate` | refinement in `ResponseGateProofs` |
| `AlertReader` | the reader, the cursor and the log it reads | `MCAlertReader` | `ReaderProofs` |
| `Pipeline` | runs, tables, keys, the analyst | `MCPipeline` | `PipelineProofs`, `LedgerProofs` |
| `AlertLedger` | what a deduplicated pipeline promises of each alert | as a property of `Pipeline` | refinement in `LedgerProofs` |
| `Daemon` | the polling loop and its signal handlers | `MCDaemon` | `DaemonProofs` |
| `IntelClients` | what the three provider clients make of an exchange | through `ThreatIntel` | `ThreatIntelProofs` |
| `ThreatIntel` | lookups of a candidate's indicators, with cache and gaps | `MCThreatIntel` | `ThreatIntelProofs` |
| `SourceClients` | failures, retries and the shapes of answers, for the clients of sources and of the collector | through `Ingestion` | `IngestionProofs` |
| `SourcePolling` | a polling cycle over each of four sources | through `Ingestion` | `IngestionProofs` |
| `SplunkPush` | the push of results and incidents in batches | through `Ingestion` | `IngestionProofs` |
| `Ingestion` | cycles composed with their push | `MCIngestion` | `IngestionProofs` |
| `Normalization` | severity, time, id and fields of an alert, as operators | through `Assessment` | `AssessmentProofs` |
| `Grouping` | clustering of alerts and grouping of candidates into incidents, as operators | through `Assessment` | `AssessmentProofs` |
| `Scoring` | risk factors, assets, local scores and thresholds, as operators | through `Assessment` | `AssessmentProofs` |
| `Assessment` | a run from events to decisions, or the evaluation of one case | through `Narration` | `AssessmentProofs` |
| `Calibration` | from a review to a label to a measurement, around `Assessment` | through `Narration` | `AssessmentProofs` |
| `Narration` | drafting and delivery of a report or an answer, around `Calibration` | `MCNarration` | `AssessmentProofs` |

Definitions with a name such as `ExitCodeIgnored` or `MarkOmitted` are mutants:
each is the definition after it with one plausible mistake, and makes the
property named for it in `PROJECT.json` fail. Nothing else uses them.

### ResponseGate

A *decision* is what `_proposal_id` hashes: playbook, target and triage result.
`rows` is the `response_actions` table, `triage` the stored triage results,
`capability` the settings. `proc[p]` is one command: `load`/`propose` read a
triage result and the settings, evaluate each playbook and write a row for it;
`approve` writes back a copy made "approved"; `record`, `act` and `final` are
the three steps that execute and rollback share: the record before the act, the
act, the record after. `pf` and `fired` are the world outside, `inflight` the
requests whose answer did not come in time. `Abort` is a kill or an audit write
that raises. A dry run ends as `executed` with `dry_run` true and so uses up the
approval, as in the code. Commands that only print are left out. The variables of
`historyVars` record what has happened, for the properties: `latest` the decisions
that were the last to touch their address, since an entry of the pf table has no owner;
`renewed` those proposed again since; `unrecorded` those with a run that ended before
its outcome was written.

Abstracted: the text of commands and answers, timestamps, confidence beyond one
comparison, the wording of denials, and which ssh or HTTP error it was.

### AlertReader

Every alert is three pieces: two halves of its text and the newline, which is
enough to tell no line, a malformed fragment, a full text without its newline,
and a full line apart. A file is an interval of the pieces ever written. One
read is `Begin` (stat, cursor), `CheckFingerprint` (its own open), `Open`,
`ReadLine` for each turn of the loop, `EndOfFile`, `SaveAndReturn`. `Races` says
what the manager may do meanwhile; with `MCNone` it would act between reads only.
The fingerprint is the leading pieces themselves, so its digest is taken to have
no collisions. The lookback window is a horizon that passes alert after alert.

### Pipeline

Each store or dedup call is an action; `Continued` says where the run goes on
when that call raises and errors are collected. Without failing fast the code
treats a failed save as done, and the following saves then fail on their foreign
keys, which the model has. `SaveAlert` replaces a row and so cascades to its
links (`resaved` remembers which alerts were saved again). Alerts are clustered by one entity in one time window. Enrichment and
triage are a choice of score; the report, its file and the notification are one
step, since nothing stored depends on them. `decided` counts delivered decisions.

### Daemon

`handlers` is the stack of handlers under way: the loop moves only when it is
empty, and any signal, also one of the same kind, may interrupt a handler. The
test for a reason and the assignment after it are two steps, so a handler that
interrupts between them has its reason overwritten by the outer one; the two tests of
`_final_reason` are two steps as well. Whether there is a limit on cycles is chosen at the start
(`limited`); without one, as the service runs, counts stop growing at `MaxCycles` and
the loop goes on.

### IntelClients and ThreatIntel

`candidate` is the sequence of indicators being enriched, and `todo` the places in it
and in `Providers` of the lookups still to be made; the next is the first of these,
indicators outside and providers inside as in `enrich_indicators`. An indicator that
comes again, or that is private, has no place (`FirstAt`, `Eligible`). One lookup is `CacheHit`, or
`CacheMiss`, `RespectRateLimit` and then exchanges with `Retry` and `Backoff` until
`Answered` or `Fail`. Time is a counter that exchanges, pauses and waits move on.
A cached row has its provider's verdict and its end; a failing read counts as a
miss and a failing write loses the row, both as in the code. `Restart` keeps the
table and forgets the call times, which the code has in memory. The clients
differ in what they retry (two decide from the text of an error, which quotes the
body: `marked`), in what they make of 404, and in their verdicts.

### SourceClients, SourcePolling, SplunkPush and Ingestion

A behaviour has one client: the log reader, the Wazuh indexer, Security Onion or
Splunk search. A cycle is a chain of requests (`request`), each with a token if
the server wants one, an exchange, one more with a new token after a 401, and
retries with a doubling pause. Documents have the time they carry, if any, and can
be found up to `Lag` later. `filters` says whether a server heeds the query's
window, limit and severity, which differs between versions of Security Onion;
the client filters again. `Take` is `run_events`, which may raise or leave some
events untaken; what it took has a key in `seen` for `KeyLife`. `SplunkPush` then sends
batches; one may have been taken by the collector although the exchange failed, if its
answer was lost, unreadable, or a 502 or 504, which a gateway gives. `Kill` ends the
process anywhere.

### Normalization, Grouping, Scoring, Assessment, Calibration and Narration

The first three are operators translated from the pure functions: an event has
the fields that severity, time, entities and scores are made of, texts are the
sets of the words that the code looks for. A stable sort puts each member at its
rank among the others; clustering and grouping are functions of the number of members
that have been placed, in the order in which the code's loops take them.
`Assessment` runs them: one
action per stage, and for the model one per way an exchange can end
(`AskAgain`, `ModelFails`, `CompletionEmpty`, `AnswerUnusable`, `AnswerUsable`,
`ModelBreaks`). A run of the pipeline has the inventory and intelligence; an
evaluation has neither, forbids the fallback, and scores a case of one event as an
alert, without what only candidates get a point for. `Calibration` adds the verdict on a queued item, the label and fixture made of
it, and the evaluation of that case. `Narration` adds what comes after a run that is not
reviewed: `run_report.py generate` for one of its incidents, or one question to the
assistant. Both ask a model or not (`Asking`, with the retries of its client and, for
a report, one more attempt at an answer that lacks a section) and say who wrote in
several places, which `told` collects; what a report shows of its incident is
`Timeline` and `MaximumScore`. All stores are left to `Pipeline`, which
in turn takes the score as given.

## Runs

Pass:

| Run | Instance | What it shows |
|---|---|---|
| `MCResponseConcurrent` | 2 commands, 1 block decision, all faults | `ActsNeedApprovalOnGrounds`, `AuditedBeforeAct`, `PerformedRowsAccountable`; implements `ResponseAuthority` |
| `MCResponseSequential` | 1 command at a time, 2 block decisions about one address, all faults | `ApprovalSpentOnce`, `RowsMatchFirewall`, `NoResurrection` |
| `MCReader` | 4 alerts, one of them irrelevant, times out of order and alike, at most 2 returned by a read; between reads anything: any pieces, 2 rotations over 2 file identities, truncations, 1 failed read; inside a read whole lines and one rename | `NothingSkipped`, `ReturnedAgainForCause`, `EventuallyReturned` |
| `MCPipelineFaults` | 1 pipeline that collects errors, 5 events, any 2 of: a failing store call, a failing component, a failing report, a kill | `NothingLost`, `TakenIsDecided`; implements `AlertLedger` |
| `MCPipelineRerun` | 2 pipelines that collect errors and an analyst, 1 failing dedup call or kill, 1 expiry of all keys, so that alerts are saved again | `EvidenceComplete`, `VerdictKept` |
| `MCThreatIntel` | the 3 providers, one of them with a long gap, a public and a private address and a domain, exchanges that take time, rows that live for 3 units of it, 1 failing cache call, restarts | `EachLookupOnce`, `LookupsSpaced`, `NothingPaidTwice`, `AnswersFresh` |
| `MCIngestion` | each of the 4 sources, 3 documents of which one may have no time, limit 2, windows of 6 polled at intervals of 1, keys that live for 10, 2 faults of any kind | `NothingMissed`, `NothingProcessedTwice`, `NoExpiredTokenSent`, `CredentialsRejectedOnce`, `DecidedIsCollected`, `CollectedAgainForCause` |
| `MCNarration` | every sequence of up to 4 of 9 events from 4 sources (2 with a model), 3 verdicts of intelligence, failing and odd answers of the model, every verdict on queued items; reports and answers for runs of up to 2 events (1 with a model), whatever the writing model does | `PartitionInTime`, `OrderIrrelevant`, `CriticalReachesIncident`, `FirewallAloneStaysBelow`, `SourceTrue`, `LabelMeansReview`, `ToldTrue` |
| `MCDaemon` | 3 signals of 2 kinds, a limit of 3 cycles or none, waits of 2 slices | `AtMostOneLateCycle`, `ReasonTrue`, `StopsOnRequest`, `KeepsPolling` |

Violations, each one a finding:

| Run | What the code does | What the repository says |
|---|---|---|
| `MCResponseResurrection` | an approval loaded before a denial is written over it | `soc/response.py:25`: an approval cannot resurrect a denied proposal |
| `MCResponseUndo` | proposing again empties the row of an executed block | `soc/response.py:30`: every executed action records its undo |
| `MCReaderSplit` | a line finished while the reader is at its end is lost | `soc/wazuh_client.py:391`: a partial line is re-read |

Each of these was reached with the real code's conditions in mind; the split line
was tried on a Python file iterator, which does go on after the end of the file.

More disagreements have no run of their own; each shows with a changed constant of
a passing instance, or as the exception that a property has to make:

- A truncation between a read's last line and its save stores the old offset
  with a fingerprint of the new content, so that the next read skips what the
  new file has below that offset (`soc/wazuh_client.py:446`; line 464 says that
  no alert is skipped silently). `Races` with truncations in `MCReader`. Tried on
  the reader itself with a log rewritten just before `_save_offset`: the alert of
  the new log was not returned.
- A burst above the limit loses its oldest alerts, behind a cursor that has
  passed them (`soc/wazuh_client.py:456`; `PLAN.md:132` says zero gaps).
  `NothingSkipped` excuses those (`Crowded`) and nothing else; `MCReader` has such bursts.
- Another score on a rerun moves a target to another place among the candidates,
  gives it another id and queues it again (`soc/triage.py:1385`;
  `soc/store.py:925` says no duplicate work).
- A kill after `soc/pipeline.py:400` leaves an event that counts as seen and was
  never decided on (`SeenMeansDecided`, which `NothingLost` weakens by
  `CutShort`); the usage in `soc/dedup.py:16` marks after the work, and
  `PLAN.md:132` promises that every new alert is processed exactly once.
- Saving an alert again (`soc/store.py:322`, INSERT OR REPLACE) removes it from the
  candidates of earlier runs (`resaved` in `EvidenceComplete`; `MCPipelineRerun` does it);
  `soc/store.py:847` and `PLAN.md:157` have the links for audit. Seen on a real
  database, where a candidate of two events had one left.
- The log reader's cursor is saved inside the fetch, so alerts in the hands of a
  cycle that fails or is killed are not read again (`spilled` in `NothingMissed`;
  `PLAN.md:132`).
- Firewall events alone do reach the promotion bar on an asset of high or critical
  value (three events on a critical, internet-facing host score 8) or when
  intelligence calls an address malicious; `PLAN.md:376` and `soc/triage.py:99`
  say that they stay below it. `FirewallAloneStaysBelow` has both exceptions.
- A draft whose completion names no model is called model-drafted in its body and
  templated on the console, in the email and in the summary, because they trust
  `generated_by_model`, which is that name (`soc/report.py:801`, `run_report.py:479`);
  `PLAN.md:327` and `run_report.py:463` have it set for every genuine draft.
  `ToldTrue` has the exception.
- A candidate that shares an entity with two incidents joins the younger one and
  the two are not merged (`soc/incidents.py:271`); `soc/incidents.py:17` says that
  candidates which share an entity inside the window merge. Seen on the real code
  with alerts at 0, 40 and 80 minutes.

- A command that dies, or whose last audit write fails, after the act leaves its row
  "approved" (`soc/response.py:435`): it can be executed again, and if that is a dry run
  the row then says "executed, dry run" while the block is in place.
  `ApprovalSpentOnce` and `RowsMatchFirewall` except such decisions (`unrecorded`) from
  what they say of an open approval, of a dry run and of a rollback.
- Two decisions may block one address; rolling one back opens it while the other's row
  still says executed (`soc/pfctl_client.py:215`), and so does a request that lands late.
  `RowsMatchFirewall` speaks of the decision that touched the address last (`latest`).

Some properties are conditional, and the condition is part of the claim.
`NothingLost` is `SeenMeansDecided` unless a run was cut short: by a kill, a component
or report that raises, or failing fast. `EvidenceComplete` speaks of
behaviours in which no store call has failed: a link that was never written
cannot be followed, and the error is reported. What it demands of an alert saved again
(a link from the candidate it was last put in) it demands unless a run was cut short
between the save and the link. `NothingProcessedTwice` and `CollectedAgainForCause`
count an event again only after its key has ended.

Failing fast, and the executors of Wazuh with their retried request, are in the models
and in the theorems but in no run: the instances that have them beside the rest take too long.

Bounds and why they are enough. Races here are between two parties (two
commands, a reader and a manager, a pipeline and an analyst, a handler and the
loop), so two processes show them; a third adds no new pair. One row is the
unit of conflict of the response commands, and the proofs hold for any number.
Four alerts and reads of two show bursts that a read cannot return, with an alert
that nothing can crowd out among them. Two rotations show reuse of a file identity; a rename that races a read is the
last rotation of a behaviour, because two rotations within one poll that end in
the same identity and leading bytes cannot be told apart by anything the cursor
holds. Two faults show one failure and another during the recovery from it; five
events give a cluster of two, a cluster of one, a rejected event and a repeated
alert. `CountRequest` and `Delivered` count to 2, enough to tell once from more
than once. The two-command instances treat the commands as interchangeable
(`SYMMETRY CommandsAlike`); they check invariants and step properties only, for
which that is sound, and no command is named in any of them.

In `MCThreatIntel` a row lives longer than two lookups take and shorter than a
run, so that it is both used and outlived, also across a restart. In `MCIngestion`
the window holds several cycles and one more than two failed ones would need
(`streak`), a token outlives one cycle and not a fetch with all its retries, and
batches hold one event so that a push has several. A window of 5 would miss something. Keys
live just as long as they must: with the window at 6 a fetch may end 3 units after
it asked, and with keys of 9 instead of 10 a document with a time is processed twice. In `MCNarration` the times of
the events lie at, inside and outside the window of 30 minutes, the limit of 3 is
reached, and thresholds and points are the defaults of the code. Who writes a text
does not depend on the events, so short runs suffice there; a run is told of or
reviewed, not both.

Deadlock is checked in every run but `MCDaemon`, where a daemon that has stopped
and has no signal left to receive is meant to stay as it is, and `MCIngestion`,
where time ends at `MaxTime` and no document may stay hidden past its lag.

## Fairness

`AlertReader`: weak fairness of the read as a whole. The daemon polls for ever
and no step of a read waits for anything but the disk. The manager owes nothing.
`Pipeline`: weak fairness of the steps of a started run; starting one, and
everything that fails, is not fair. `Daemon`: weak fairness of handlers and of
the loop. For the loop this assumes that a cycle ends, which holds because every
network call in it has a timeout and a file or a table is finite. `ResponseGate`
has safety properties only: a human may always leave a proposal as it is.
`ThreatIntel`, `Ingestion` and `Narration` have safety properties only as well:
what they wait for is owed by servers that promise nothing.

## Proofs

`ResponseGateProofs` proves, for every value of the constants that satisfies
`ConstantsAssumption`:

- `TypeCorrect`: `Spec => []TypeOK`.
- `EarnedAlways`: the inductive invariant `TypeOK /\ EverythingEarned`. No run checks
  it any more; the theorem covers the instances too, the active response with its
  retried request and scores below the bar among them.
- `ActsApproved`, `ActsAudited`, `RowsAccountable`: the three safety invariants.
- `GateImplementsAuthority`: `Spec => Authority!Spec`.

The safety invariants are not inductive: a command acts on a private copy, and
another may have rewritten the row since it was loaded. `EverythingEarned`
therefore says of every row *and* of every copy that it was earned: a status past
suggested implies grounds, a status past approved an approval, a command about to
act live has announced it, what a proposer read was true once, and requests in
flight match the kind of their decision. It survives overwriting because an
overwrite only ever installs a copy that was itself earned, and because grounds,
approvals and announcements only grow. The proof has one step per action; lemmas
state what each step does to grounds, rows and processes. Refinement then maps
each step to one of the authority's, or to a stutter.

`DaemonProofs` proves, for any signals, any number of them, any limit on cycles
and any length of the wait, with and without such a limit, `TypeCorrect`,
`OneLateCycleAtMost` and `ReasonAlwaysTrue`. Its invariant `IInv` says that a set flag comes with a reason
or with a handler still under way that has to test for one (`StopAccounted`), so
that the loop, which moves only when no handler does, never sees a flag without
a reason; that reasons given or about to be given have arrived; and that after
a late cycle the loop is on its way out.

The same module proves, of the gate, what depends on how the commands are used.
`ApprovalIsSpentOnce`, `AuditMatchesFirewall` and `DeniedStaysDenied` assume
`OneAtATime` only: a single process, because two executions of one approval that
overlap both act. Commands may die anywhere, requests may be refused, time out and land late, and
any number of decisions may share an address. `SequenceInv` says that every row agrees with the
requests sent for it unless a command is between acting and recording or ended there
(`unrecorded`), that a command's copy is then still the row, and what the row of the decision
that touched an address last says of the block there (`latest`).

`PipelineProofs` proves `TypeCorrect`, `NothingIsLost` and `VerdictStays` for any
number of pipelines on one database, any faults and any batches. The invariant behind
`NothingLost` is `Accounted`: unless a run was cut short, every key in the dedup table
stands for something that a run has in hand, that is decided, or whose failure is
reported. It needs to know what a run holds at each place of its program, which
`TypeInv` adds to the types (`Shape`). `DropsNothing` says it of one step.

`LedgerProofs` proves `EvidenceIsComplete` of any number of pipelines, with expiring keys
and any faults. `PipelineImplementsLedger`, which maps every step to one of `AlertLedger`
or to a stutter, assumes `Alone`: one pipeline, no keys that expire, a dedup service
that answers; otherwise an alert may be decided on twice. `LedgerInv` says that whatever a run
has in hand is marked and not decided on, and is in one piece of its work;
`EvidenceInv` that an alert is stored with its event before its mark lets any
candidate have it. Both survive kills and failures of the store at any call.

`ReaderProofs` proves `TypeCorrect`, `CursorLosesNothing`, `RoomLosesNothing` and
`RereadsAreRare`. They assume `Calm`: while a read is under way lines are appended
whole and the log may be renamed, but pieces of lines and truncations wait for its
end; a line completed in between is skipped (the run `reader_split` shows it).
`ReaderInv` relates the offset that is saved, the position of the handle and what was
returned, for the file a read has open, whatever its name is by then (`Passed`,
`Elsewhere`). Behind an offset every alert is `Settled`: returned, expired, or crowded
out by `Limit` newer ones of its file. A read crowds out only what is older than
`Limit` alerts that it returns (`LeftOutIsOlder`): of those it leaves out the one with
the fewest newer ones has at least `Limit` of them, and all of these are returned.
`RoomLosesNothing` is the case where no more alerts are written than a read may
return (`Roomy`), so that none is crowded out and all are given (`AllGiven`).

`IngestionProofs` proves of any client, with any failures, kills and windows,
`TokensAreFresh` and `RejectedOnce` (from `SessionInv`: a request about to leave has a
token that outlasts the moment) and `ProcessedOnce`, `CollectedAgainOnlyForCause` and
`DecidedOrGiven` (from `PushInv`: a document is in one place of one batch at a time,
was processed before, and is taken more often than that only if an answer was not heard).
`ProcessedOnce` needs `KeyLife >= Lookback + LongestFetch`, where `LongestFetch` bounds the
time from a cycle's beginning to the end of its fetch: `KeyInv` says that what a fetch has in
hand was in its window when it began, so its key, written when it was first taken,
is still good if the document has a time, and what has none comes only from a server that does not heed
the window, since the log reader takes an untimed line once and Splunk's search returns
none. The defaults, 24 h and 5 min, satisfy this by far; the example settings do not, with a
window of 1440 minutes for the indexer. That a
doubling pause is a natural number, which arithmetic solvers do not know of
exponents, is proved by counting subsets (`PauseIsNatural`).

`NothingMissed` is about the windows of all cycles, and holds only if they follow each
other closely enough. What that means is `Prompt`: unless two cycles in a row went wrong,
the last one that took all it found asked no longer ago than the window is long, less the
delay of the source. `CloseCyclesMissNothing` proves `Spec /\ []Prompt => []NothingMissed`
from `WindowInv`: a document that is wanted and was not processed either became visible
after that cycle asked (`Overlaps`; the variable `reached` is when) or is in the hands of
this one, also across a search job that ends between two polls (`JobFound`), a cursor that
has passed it, and answers of which the newest are kept. TLC finds that the instance of the run satisfies `Prompt` in every state.

`LongWindowsMissNothing` then derives `Prompt` from the settings alone:
`Lookback >= Lag + 2 * Interval + 3 * LongestCycle`. `PaceInv` bounds how far
into its cycle a client can be by the requests that are over and the attempts at this one,
and a push by the batches that are left (`Posts`), so no cycle is longer than
`LongestCycle`: every request and post with all its pauses, `2 ^ MaxRetries` or
`2 ^ PushRetries` each; `HandInv` bounds what there is to post. With the defaults
(`POLL_INTERVAL_SECONDS` 120, a window of 300 s, two retries after 1 and 2 s, batches of
100 of at most 100 alerts) a cycle of the log, the indexer or Security Onion waits less than
16 s, four for each of 2 requests and 2 posts, so 288 s are needed and 12 s are left for
`Lag`. A Splunk search, which may be polled 30 times, needs a longer window than the
default. Only waiting counts: exchanges take no time in the model, so what answers
take has to be added. The instance that TLC checks is too short for this hypothesis, which
allows for the worst case in every cycle.

`ThreatIntelProofs` proves all that the run of `ThreatIntel` checks. `EnrichInv` has three parts:
the memory of call times is when the last calls began, unless a client has no gap
(`GapInv`); what was paid for is good no longer than its row, unless the cache failed
(`CacheInv`); and the places that were passed are those answered or missed, each once
(`PassedInv`), which needs that indicators of a sequence have distinct first places.

`AssessmentProofs` is about the run from events to decisions, and needs of its constants
what `EventConstants` says: events have the types of the code, and no two have one
alert id, as the pipeline drops an event whose alert id it has seen
(`soc/pipeline.py:398`). It rests on what sorting does: members at their ranks are a
permutation, in order, the same for every order of the list when keys are distinct, and
of a sorted list the list itself (`SortingFollows`, `SortingForgets`). Placing is
followed member by member: after each, what was placed is in one group, groups are
linked, near and within their limit, and a place is left only for a reason; a first
member that breaks this would have a predecessor, which is how the proof avoids
induction over data (`ClustersAreWell`, `GroupParts`). On this stand:

- `AlertsArePartitioned` and `OrderOfTheSourceIsIrrelevant`, whatever the windows and limits.
- `CriticalIsPaged`, while the paging threshold is at most 8 (the default): `PagedInv`
  says of every result what source its score has, and no term of a score takes a
  critical alert below 8. The least score of a model's answer is the local one.
- `FirewallIsContext`, while the bars of paging and promotion are above 5 (the default
  is 8) and the firewall's events are `PlainEvent`: no rule, address, host or service
  found in them is named like a threat. Their candidates score 5 at most, the number
  that `PLAN.md:378` has for three of them.
- `SourcesAreTrue`, through an evaluation after a review. `SourceInv` keeps, while a
  model is asked, the local result as fallback, and of everything decided that what it
  says of its source is so.
- `ToldIsTrue`, all of `ToldTrue`. Its half about authors is `AuthorsAreTrue`, from
  `AuthorInv`: nobody is told of a text before it is written. Its half about the
  timeline of an incident is `ShownIsTrue`: a timeline is sorted from pairs of an alert
  and its candidate, each of them once, so sorting neither loses nor repeats one.
- `LabelsMeanReviews`, all of `LabelMeansReview`, while what is queued scores between 3
  and 8, as by default. That bound is for what was disputed (`LabelsMeanDisputes`): a
  lower score called too high, or a higher one called too low, has a band that is the
  end of the scale itself. That an agreed score stays in its band (`AgreedScoresStay`)
  needs none. It compares two runs, of a whole batch and of the fixture of one of its
  candidates. `BandInv` keeps what the second must know of the first: its batch has the
  alerts of one candidate of some batch (`SameCase`), because a target names exactly the
  events of its candidate (`FixtureIs`, `TargetInv`). Placed again in order, the alerts
  of a cluster make that cluster and no other, since each alert that was placed last was
  taken by what those before it had made (`Replays`, `ClustersReplay`), and in order they
  come, whatever the order of the fixture (`CandidateAgain`). The same candidate scores
  the same or one point less: what intelligence did not hold against an address adds
  nothing (`QuietAdds`), and inventory, user and damping are what `Unmeasured` counts
  (`SeveralAnew`, `SingleAnew`); one point is within the band. Only a case of which
  enrichment raises on an address fails instead of being measured.

The hypotheses named above are over constants, and the runs that check a theorem's
property satisfy them, except those of `ProcessedOnce` and `LongWindowsMissNothing`, which
allow for the worst case in every fetch and cycle; the instance of `MCIngestion` has windows
and keys just long enough for what two faults can do.

Only model-checked: liveness (`TakenIsDecided`, `EventuallyReturned`, `StopsOnRequest`,
`KeepsPolling`), which is out of the prover's reach. Every invariant and every action
property of the passing runs is proved, some of them under the hypotheses named above.

## Not modelled

Text (sections of reports, prompts, messages, command lines), parsing of JSON and XML,
finding indicators in free text, listings, the assistant's choice among stored rows
by keyword, sums over many evaluated cases, settings apart from the capability
switches, and `pflog` and `replay`, which read a file once. These keep no state
and nothing depends on their order.

Seen on the way, without a property about it:

- `DEDUP_TTL_HOURS` is read into the settings but the pipeline builds its
  `DeduplicationService` without it (`soc/pipeline.py:279`), so keys always live for
  24 hours. Nothing keeps a window below that: with `WAZUH_ALERT_LOOKBACK_MINUTES=1440`
  (`.env.example:84`) a window is as long as a key lives, and an alert taken at once may
  come back a day later, when the fetch takes longer than the alert took to be indexed, and be
  processed again. And lines written to the log after the last read before it is
  renamed are never read, since the renamed file is not opened again.
- One address that cannot be read makes `enrich_candidate` raise, and the candidate
  loses all of its local enrichment (`soc/enrichment.py:299`); the model has this.
- The subject of a notification has the action that the model suggested and not
  the one that was routed (`soc/notifier.py:503`), and benign decisions notify too.
- The gaps between calls to a provider do not apply to the retries inside its
  client, and are forgotten by a restart; answers from the cache get the present as
  their time (`soc/threat_intel.py:190`).
- The log reader and the indexer need the manager's inventory first
  (`soc/wazuh_client.py:741`), so an outage of the manager's API stops the alerts too.
- An answer in an unknown shape counts as one without documents, a burst above
  the limit loses the oldest, and a push that fails is not made up for later: the
  exceptions `lossy` and `given` of the ingestion properties.
- An evaluation has no inventory and no intelligence, and scores a case of one event
  as an alert, which gets no point for its user and keeps what damping took
  (`soc/evaluation.py:794`). An agreed score with two such points is measured out of
  its band: `spoke` and `Unmeasured` in `LabelMeansReview`.
- Users and addresses are searched for risk terms as well (`soc/triage.py:594`), so an
  IPv6 address with the digits `c2` adds two points.
- A report that fell back says "no model was consulted" although one was asked
  (`soc/report.py:1137`, `run_report.py:498`); `--splunk` without a collector ends
  `generate` after the file is written and before the email (`run_report.py:552`).
- An interactive session of the assistant answers from the rows it read when it
  began (`run_assistant.py:255`); some of its denials name no limit although what it
  read is limited (`run_assistant.py:796`).
- An alert of unknown severity scores 3, below the review threshold
  (`soc/triage.py:1230`).

## Plan

1. Done: all modules, and proofs of every safety property that a run checks.
2. Open: two hazards have no property. The code promises nothing of two pipelines on
   one database (`soc/pipeline.py:398`), and does not hold what it says of a log that
   is truncated during a read (`soc/wazuh_client.py:446`).
