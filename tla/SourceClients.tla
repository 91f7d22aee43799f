--------------------------- MODULE SourceClients ---------------------------
(***************************************************************************)
(* What the clients of the Wazuh manager, the Wazuh indexer, Security      *)
(* Onion, the Splunk search API and the Splunk collector make of one HTTP  *)
(* exchange and of the answer in it.  An exchange is a record as in        *)
(* IntelClients: "http" is a status other than 2xx, and "marked" says that *)
(* the text of its body contains one of the phrases of the retry tests.    *)
(***************************************************************************)
EXTENDS Integers, Sequences, SequencesExt, FiniteSetsExt

CONSTANTS
    NoLevel,    \* a document does not say how severe it is, or not readably
    NoTime      \* a document has no readable timestamp

(* ---- failures ---- *)

\* Every client has a class of its own for these, and never repeats them.
AuthFailure(e) == e.kind = "http" /\ e.code \in {401, 403}

Unanswered(e) == e.kind \in {"network", "timeout"}

TransientCodes == {408, 425, 429, 500, 502, 503, 504}

LooksTransient(e) ==
    \/ Unanswered(e)
    \/ e.kind = "http" /\ (e.code \in TransientCodes \/ e.marked)

AuthIsLikeAnyError(e) == LooksTransient(e)

\* The manager's client decides from the text of its error, which quotes the
\* body, once it knows that it is no authentication error.
ManagerRetries(e) ==
    ~AuthFailure(e) /\ LooksTransient(e)

SecurityOnionRetries(e) ==
    ~AuthFailure(e) /\ LooksTransient(e)

\* These note whether to retry when they make the error.
IndexerRetries(e) ==
    Unanswered(e) \/ (e.kind = "http" /\ e.code \in TransientCodes)

SplunkSearchRetries(e) ==
    Unanswered(e) \/ (e.kind = "http" /\ e.code \in TransientCodes)

\* Only the collector's quota error is final.
CollectorRetries(e) ==
    Unanswered(e) \/ (e.kind = "http" /\ e.code \in TransientCodes \ {429})

SourceRetries(server, e) ==
    \/ server = "manager" /\ ManagerRetries(e)
    \/ server = "indexer" /\ IndexerRetries(e)
    \/ server = "security_onion" /\ SecurityOnionRetries(e)
    \/ server = "splunk" /\ SplunkSearchRetries(e)

(* ---- answers ---- *)

\* A list of items of an answer, some of which are not documents; or no list.  What
\* is fetched is sorted again or told apart by id, so the items are a set.
NoList == [list |-> FALSE, items |-> {}]
ListOf(items) == [list |-> TRUE, items |-> items]

Usable(items, documents) == items \cap documents

\* Security Onion's documents are in the first of three places that has a list;
\* an answer of another shape counts as one without documents.
ExtractEventDocuments(response, documents) ==
    CASE response.events.list -> Usable(response.events.items, documents)
      [] ~response.events.list /\ response.data.list ->
             Usable(response.data.items, documents)
      [] ~response.events.list /\ ~response.data.list /\ response.hits.list ->
             Usable(response.hits.items, documents)
      [] OTHER -> {}

ExtractHits(response, documents) ==
    IF response.hits.list THEN Usable(response.hits.items, documents) ELSE {}

ExtractResultRows(response, documents) ==
    IF response.events.list THEN Usable(response.events.items, documents) ELSE {}

(* ---- documents ---- *)

\* A document without a readable time counts as new.
TimeOf(time, now) == IF time = NoTime THEN now ELSE time

IsRecent(time, since, now) == TimeOf(time, now) >= since

\* The indexer's rule level: none is level 0.
RuleLevel(level) == IF level = NoLevel THEN 0 ELSE level

\* Suricata counts downwards: 1 is the most severe.  Rank of what
\* severity_from_security_onion returns, and NoLevel where it returns unknown.
SeverityRank(level) ==
    CASE level = NoLevel -> NoLevel
      [] level # NoLevel /\ level <= 1 -> 3
      [] level = 2 -> 2
      [] level = 3 -> 1
      [] OTHER -> 0

\* What cannot be compared is kept.
MeetsSeverity(level, floor) ==
    \/ SeverityRank(level) = NoLevel
    \/ SeverityRank(level) >= SeverityRank(floor)

(* ---- Splunk search jobs ---- *)

JobFailed(content) == content.state = "FAILED"

JobIsDone(content) == content.flag \/ content.state = "DONE"
=============================================================================
