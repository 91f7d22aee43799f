------------------------------ MODULE Narration ------------------------------
(***************************************************************************)
(* What people are told of incidents: run_report.py generate with          *)
(* soc/report.py, and run_assistant.py.  Both may let a model write, over  *)
(* the client that triage uses, and both fall back to text made of what is *)
(* stored; each says in several places who wrote it.                       *)
(***************************************************************************)
EXTENDS Calibration

CONSTANTS
    DraftAttempts,      \* max_json_retries + 1 of MarkdownReportBuilder
    ReportedModels,     \* names a completion may have for its model; NoText for none
    RequestedModel,     \* the model that settings ask for
    MaxTold             \* [engines -> bound on the events of a run that is told of]

ASSUME NarrationConstants ==
    /\ DraftAttempts \in Nat \ {0} /\ MaxTold \in [Engines -> Nat]
    /\ RequestedModel # NoText

VARIABLES
    desk,           \* what is being written, of which incident, and how far it is
    exchange,       \* completions asked for, and requests for the last of them
    narrative,      \* the sections a model wrote, its name, and whether it had failed
    told            \* who wrote the text, in the words of each place that says so

narration == <<desk, exchange, narrative, told>>
everything == <<allVars, narration>>

NarrativeSections ==
    {"executive_summary", "attack_narrative", "remediation", "detection_gaps"}

Templated == [drafted |-> {}, model |-> NoText, failed |-> FALSE]
WithFallbackReason == [Templated EXCEPT !.failed = TRUE]
DraftedBy(name) == [drafted |-> NarrativeSections, model |-> name, failed |-> FALSE]

AtDesk(writing, at) == desk.writing = writing /\ desk.at = at
Asking == desk.at = "asked"

NarrationInit ==
    /\ CalibrationInit
    /\ desk = [writing |-> "nothing", incident |-> 0, at |-> "idle"]
    /\ exchange = [asked |-> 0, tried |-> 0] /\ narrative = Templated /\ told = {}

-----------------------------------------------------------------------------
(* Who writes.                                                             *)

Begin(writing, incident, asks) ==
    /\ use = "pipeline" /\ phase = "done" /\ Len(batch) <= MaxTold[engine]
    /\ desk.at = "idle" /\ review = NoReview
    /\ desk' = [writing |-> writing, incident |-> incident,
                at |-> IF asks THEN "asked" ELSE "written"]
    /\ exchange' = IF asks THEN [asked |-> 1, tried |-> 1] ELSE exchange
    /\ narrative' = Templated
    /\ UNCHANGED <<allVars, told>>

\* Without --no-llm and with a key there is a client to ask.
Generate(i, asks) == Begin("report", i, asks)
Question(asks) == Begin("answer", 0, asks)

\* The client's own retries, as for triage.
RequestAgain(e) ==
    /\ Asking /\ exchange.tried <= MaxRetries /\ ModelRetries(e)
    /\ exchange' = [exchange EXCEPT !.tried = @ + 1]
    /\ UNCHANGED <<allVars, desk, narrative, told>>

Conclude(written) ==
    /\ narrative' = written /\ desk' = [desk EXCEPT !.at = "written"]
    /\ UNCHANGED <<allVars, exchange, told>>

\* Neither asks again after its client has given up.
RequestFails(e) ==
    /\ Asking /\ (exchange.tried > MaxRetries \/ ~ModelRetries(e))
    /\ Conclude(WithFallbackReason)

NoContent == Asking /\ Conclude(WithFallbackReason)

\* An exception that is not the client's ends the command.
WritingBreaks ==
    /\ Asking \/ AtDesk("report", "written")
    /\ desk' = [desk EXCEPT !.at = "stopped"]
    /\ UNCHANGED <<allVars, exchange, narrative, told>>

KeepsPartial(sections) == sections # {}

\* What parse_narrative_sections makes of an answer with text for some sections.
Usable(sections) == sections = NarrativeSections

DraftUsable(sections, name) ==
    /\ Asking /\ desk.writing = "report" /\ Usable(sections)
    /\ Conclude([DraftedBy(name) EXCEPT !.drafted = sections])

DraftUnusable(sections) ==
    /\ Asking /\ desk.writing = "report" /\ ~Usable(sections)
    /\ \/ /\ exchange.asked < DraftAttempts
          /\ exchange' = [asked |-> exchange.asked + 1, tried |-> 1]
          /\ UNCHANGED <<allVars, desk, narrative, told>>
       \/ exchange.asked = DraftAttempts /\ Conclude(WithFallbackReason)

\* The assistant takes any text, and the model's name or the one it asked for.
AnswerModel(name) == IF name = NoText THEN RequestedModel ELSE name
AnswerText(hasText, name) ==
    /\ Asking /\ desk.writing = "answer"
    /\ Conclude(IF hasText THEN DraftedBy(AnswerModel(name)) ELSE WithFallbackReason)

-----------------------------------------------------------------------------
(* Who is said to have written.                                            *)

\* narrative_provenance trusts generated_by_model, the name, and nothing else.
GeneratedByModel == IF narrative.drafted # {} THEN narrative.model ELSE NoText

InBody == [at |-> "body", model |-> narrative.drafted # {}, name |-> narrative.model,
           failed |-> narrative.failed]
InSummary(place) == [at |-> place, model |-> GeneratedByModel # NoText,
                     name |-> GeneratedByModel, failed |-> FALSE]

Tell(statements, at) ==
    /\ told' = told \cup statements /\ desk' = [desk EXCEPT !.at = at]
    /\ UNCHANGED <<allVars, exchange, narrative>>

PrintAnswer == AtDesk("answer", "written") /\ Tell({InBody}, "done")

WriteReportFile == AtDesk("report", "written") /\ Tell({InBody, InSummary("console")}, "filed")

\* A push that fails is noted; one that is not configured ends the command here.
PushIncident == AtDesk("report", "filed") /\ Tell({}, "pushed")
PushUnconfigured == AtDesk("report", "filed") /\ Tell({}, "stopped")

\* The message has the body attached, and goes to every channel.
EmailReport ==
    /\ AtDesk("report", "filed") \/ AtDesk("report", "pushed")
    /\ Tell({InBody, InSummary("email")}, "done")

\* What may become of an exchange.
Writing ==
    \/ \E e \in ModelErrors : RequestAgain(e) \/ RequestFails(e)
    \/ NoContent \/ WritingBreaks
    \/ \E sections \in SUBSET NarrativeSections :
           DraftUnusable(sections) \/ \E name \in ReportedModels : DraftUsable(sections, name)
    \/ \E hasText \in BOOLEAN, name \in ReportedModels : AnswerText(hasText, name)

Delivery ==
    \/ PrintAnswer \/ WriteReportFile \/ PushIncident \/ PushUnconfigured \/ EmailReport

\* Bound: a run is told of or reviewed, not both.
NarrationNext ==
    \/ CalibrationNext /\ (desk.at = "idle" \/ UNCHANGED allVars) /\ UNCHANGED narration
    \/ \E i \in DOMAIN incidents, asks \in BOOLEAN : Generate(i, asks)
    \/ \E asks \in BOOLEAN : Question(asks)
    \/ Writing \/ Delivery

NarrationSpec == NarrationInit /\ [][NarrationNext]_everything

-----------------------------------------------------------------------------
(* What a report shows of its incident.                                    *)

\* The candidates of an incident and their results, as they are loaded again.
Loaded(incident) == ToSet(incident.items)

\* Every alert with its candidate.
AlertPairs(incident) ==
    UNION {{[alert |-> a, of |-> item.candidate.id] : a \in ToSet(item.candidate.alerts)} :
              item \in Loaded(incident)}

\* An alert without a time is shown as if it were of the beginning of time.
SortTimestamp(a) == Max({a.time, 0})

Timeline(incident) ==
    LET pairs == SetToSeq(AlertPairs(incident))
        keys == [n \in DOMAIN pairs |->
                    LET a == pairs[n].alert
                    IN <<SortTimestamp(a), a.id[1], a.id[2], a.id[3]>>]
    IN Sorted(pairs, DOMAIN pairs, keys)

MaximumScore(incident) == Max({item.result.score : item \in Loaded(incident)})

\* Every place that names an author names the one who wrote: what is called a
\* model's is the model's in every section, by the model that is named, and what
\* is called templated has no word of a model (report.py:898), however often it
\* was asked and failed. The summaries of a draft whose model gave no name are
\* excepted: they call it templated.
AuthorTrue ==
    \A s \in told :
        /\ s.model => /\ narrative.drafted = NarrativeSections
                      /\ s.name = narrative.model
        /\ ~s.model => \/ narrative.drafted = {}
                       \/ narrative.model = NoText /\ s.at # "body"

\* What is shown of an incident is the incident: its alerts, each once and in
\* order, and the score it was promoted with.
ShownTrue ==
    \A i \in DOMAIN incidents :
        LET shown == Timeline(incidents[i])
        IN  /\ {p.alert.id : p \in ToSet(shown)} = incidents[i].alerts
            /\ Len(shown) = Cardinality(incidents[i].alerts)
            /\ \A n \in 2 .. Len(shown) :
                  SortTimestamp(shown[n - 1].alert) <= SortTimestamp(shown[n].alert)
            /\ MaximumScore(incidents[i]) = incidents[i].score

\* Readers are told the truth of who wrote and of what happened.
ToldTrue == AuthorTrue /\ ShownTrue
=============================================================================
