--------------------------- MODULE SourcePolling ---------------------------
(***************************************************************************)
(* The polling cycle of run_pipeline.py up to the point where the pipeline *)
(* has taken what was fetched, for each source that it can poll.  One of   *)
(* them, alerts_json, is read behind a cursor that is saved with the read; *)
(* the others are asked anew for everything in a window of time, up to a   *)
(* limit.  Two need a session: Security Onion, and the manager, which is   *)
(* asked for its agents before the indexer or the file is read.            *)
(***************************************************************************)
EXTENDS SourceClients, FiniteSets

CONSTANTS
    Clients,        \* the sources it may be set to
    Docs,           \* what the sources have, numbered in the order of answers
    Time, Level,    \* [Docs -> ...], or NoTime, NoLevel
    MinLevel,       \* [Clients -> least level or severity that is wanted]
    Lookback, Limit, Interval, MaxRetries, MaxPolls,
    TokenLife,      \* of a session, on the server
    Skew,           \* TOKEN_REFRESH_SKEW_SECONDS
    Lag,            \* the longest time until a document can be found
    KeyLife,        \* ttl_hours of the dedup keys
    Failures,       \* exchanges that fail
    MaxFaults,      \* bound on failing exchanges, kills and failing intakes
    MaxTime         \* bound on the clock when a cycle begins

ASSUME PollingConstants ==
    /\ Clients \subseteq {"alerts_json", "indexer", "security_onion", "splunk"}
    /\ Docs \subseteq Nat /\ Time \in [Docs -> Nat \cup {NoTime}]
    /\ {Lookback, Limit, Interval, MaxRetries, MaxPolls, TokenLife, Skew, Lag,
        KeyLife, MaxFaults, MaxTime} \subseteq Nat
    /\ MaxPolls > 0 /\ TokenLife > 0    \* a server's other answers name no end

NoToken == -1
Never == 999        \* a token of which the client knows no end

VARIABLES
    client, filters,    \* the source, and whether it heeds the filters asked for
    now, indexed,       \* the clock, and what can be found
    pc, request, attempt, reauth, polls, since, nextCycle,
    token, expires,     \* until when the client and the server think it lasts
    job,                \* a search job on the Splunk server
    cursor,             \* what the saved cursor has passed
    batch, inventory,   \* what was fetched, and the agents it is joined with
    seen,               \* the dedup keys, each with the end of its life
    faults,
    \* What has happened, for the properties only:
    processed,          \* how often each document was processed, up to 2
    streak,             \* cycles in a row that failed, up to 2, and their maximum
    lossy,              \* an answer had more than its limit, or an unknown shape
    spilled,            \* a cycle of alerts_json failed with alerts in hand
    reached,            \* when the last cycle that took all it found asked for it
    rejections          \* of the credentials, in this cycle

server == <<indexed, expires, job>>
fetch == <<pc, request, attempt, reauth, polls, since, token>>
taken == <<cursor, batch, inventory, seen>>
history == <<processed, streak, lossy, spilled, reached, rejections>>
pollingVars == <<client, filters, now, server, fetch, nextCycle, taken, faults, history>>

NoJob == [state |-> "none", found |-> {}]

PollingInit ==
    /\ client \in Clients
    /\ filters \in IF client \in {"indexer", "security_onion"} THEN BOOLEAN ELSE {TRUE}
    /\ now = 0 /\ indexed = {}
    /\ pc = "idle" /\ request = "none" /\ attempt = 0 /\ reauth = FALSE /\ polls = 0
    /\ since = 0 /\ nextCycle = 0
    /\ token = NoToken /\ expires = 0 /\ job = NoJob
    /\ cursor = {} /\ batch = {} /\ inventory = 0 /\ seen = {} /\ faults = 0
    /\ processed = [d \in Docs |-> 0] /\ streak = <<0, 0>>
    /\ lossy = FALSE /\ spilled = FALSE /\ reached = 0 /\ rejections = 0

-----------------------------------------------------------------------------
(* What is asked and what is kept.                                         *)

Server == IF request = "agents" THEN "manager" ELSE client

\* Others send fixed credentials with every request.
HasSession == request \in {"agents", "query"}

WantedLevel(d) ==
    CASE client = "splunk" -> TRUE
      [] client = "security_onion" -> MeetsSeverity(Level[d], MinLevel[client])
      [] OTHER -> RuleLevel(Level[d]) >= MinLevel[client]

NewerThan(o, d, at) ==
    \/ TimeOf(Time[o], at) > TimeOf(Time[d], at)
    \/ TimeOf(Time[o], at) = TimeOf(Time[d], at) /\ o > d

Newest(docs, at) ==
    {d \in docs : Cardinality({o \in docs : NewerThan(o, d, at)}) < Limit}

InWindow(d, from) == Time[d] # NoTime /\ Time[d] >= from

\* What a server finds: newest first and no more than the limit, if it heeds the
\* parameters.  Their names are a guess for Security Onion; the indexer always
\* heeds the size and the order, where no time comes last.
Found(from) ==
    LET matching == {d \in indexed : InWindow(d, from) /\ WantedLevel(d)}
        untimed == {d \in indexed : Time[d] = NoTime}
        newestTimed == Newest(indexed \ untimed, now)
    IN  CASE filters -> Newest(matching, now)
          [] ~filters /\ client = "security_onion" -> indexed
          [] OTHER -> newestTimed \cup
                 (IF Cardinality(newestTimed) < Limit THEN untimed ELSE {})

SinceLastPoll == nextCycle - Interval

\* The window is as long whatever was read before.
WindowStart == now - Lookback

\* fetch_recent_alerts filters again what it was given, and again keeps the newest.
Kept(found, from) ==
    Newest({d \in found : IsRecent(Time[d], from, now) /\ WantedLevel(d)}, now)

IdOfJoinedPayload(d) == <<d, inventory>>

\* The key of a document is made of what the source has of it, before the agent
\* that it names is looked up and joined to it.
Id(d) == d

\* More than a source can show at once.
Crowded(from) ==
    Cardinality({d \in indexed : \/ Time[d] = NoTime
                                 \/ InWindow(d, from) /\ (filters => WantedLevel(d))})
        > Limit

-----------------------------------------------------------------------------
(* Beginning and ending.                                                   *)

Enter(next) ==
    /\ request' = next /\ attempt' = 0 /\ reauth' = FALSE
    /\ pc' = IF next \in {"agents", "query"} THEN "token" ELSE "send"

Begin ==
    /\ pc = "idle" /\ now >= nextCycle /\ now <= MaxTime
    /\ Enter(CASE client \in {"alerts_json", "indexer"} -> "agents"
               [] client = "security_onion" -> "query"
               [] client = "splunk" -> "create")
    /\ since' = WindowStart /\ polls' = 0 /\ rejections' = 0
    /\ batch' = {} /\ job' = NoJob
    /\ UNCHANGED <<client, filters, now, nextCycle, indexed, expires, token, cursor,
                   inventory, seen, faults, processed, streak, lossy, spilled, reached>>

Streak(ok) ==
    IF ok THEN <<0, streak[2]>>
    ELSE LET n == IF streak[1] = 2 THEN 2 ELSE streak[1] + 1
         IN  <<n, IF n > streak[2] THEN n ELSE streak[2]>>

\* The daemon counts the failure and waits like after any cycle.
CycleFails ==
    /\ pc' = "idle" /\ request' = "none" /\ attempt' = 0 /\ reauth' = FALSE
    /\ nextCycle' = now' + Interval
    /\ streak' = Streak(FALSE)

Fault == faults < MaxFaults /\ faults' = faults + 1

\* Time passes, and no document stays hidden for longer than it may.
Passes(time) ==
    /\ now' = now + time
    /\ \A d \in Docs \ indexed : Time[d] # NoTime => Time[d] + Lag >= now'

-----------------------------------------------------------------------------
(* One request: a token if it needs one, the exchange, once more with a    *)
(* new token if the first was refused, all of it again after a pause.      *)

KnownEnd == IF request = "agents" THEN Never ELSE now + TokenLife

TokenNeverAges(at) == token = NoToken

\* The manager's client knows of no end; the other's allows for a margin.
TokenNeeded(at) == token = NoToken \/ at >= token - Skew

Ready(at) == IF HasSession /\ TokenNeeded(at) THEN "token" ELSE "send"

HasToken ==
    /\ pc = "token" /\ ~reauth /\ ~TokenNeeded(now)
    /\ pc' = "send"
    /\ UNCHANGED <<client, filters, now, server, request, attempt, reauth, polls, since,
                   token, nextCycle, taken, faults, history>>

Authenticate ==
    /\ pc = "token" /\ (reauth \/ TokenNeeded(now))
    /\ token' = KnownEnd /\ expires' = now + TokenLife /\ pc' = "send"
    /\ UNCHANGED <<client, filters, now, indexed, job, request, attempt, reauth, polls,
                   since, nextCycle, taken, faults, history>>

\* The pause doubles; every attempt checks the token anew.
TryAgain(e) ==
    /\ attempt < MaxRetries /\ SourceRetries(Server, e)
    /\ Passes(2 ^ attempt) /\ pc' = Ready(now')
    /\ attempt' = attempt + 1 /\ reauth' = FALSE
    /\ UNCHANGED <<request, nextCycle, streak>>

GiveUp(e) ==
    /\ attempt >= MaxRetries \/ ~SourceRetries(Server, e)
    /\ now' = now /\ CycleFails

\* Of a token request that is refused the cycle dies: authenticate is called from
\* _request_once and there is no other token to try.
AuthenticateFails(e) ==
    /\ pc = "token" /\ (reauth \/ TokenNeeded(now)) /\ Fault
    /\ TryAgain(e) \/ GiveUp(e)
    /\ rejections' = rejections + IF AuthFailure(e) THEN 1 ELSE 0
    /\ UNCHANGED <<client, filters, server, polls, since, token, taken, processed,
                   lossy, spilled, reached>>

\* A server that does not know the token says so.
Refuses(e) == HasSession /\ now >= expires => e.kind = "http" /\ e.code = 401

Reauthenticate(e) ==
    /\ pc = "send" /\ Refuses(e) /\ HasSession /\ AuthFailure(e) /\ ~reauth
    /\ IF now >= expires THEN UNCHANGED faults ELSE Fault
    /\ pc' = "token" /\ reauth' = TRUE
    /\ UNCHANGED <<client, filters, now, server, request, attempt, polls, since, token,
                   nextCycle, taken, history>>

ExchangeFails(e) ==
    /\ pc = "send" /\ request # "read" /\ Refuses(e)
    /\ HasSession => ~AuthFailure(e) \/ reauth
    /\ Fault
    /\ TryAgain(e) \/ GiveUp(e)
    /\ rejections' = rejections + IF AuthFailure(e) /\ ~HasSession THEN 1 ELSE 0
    /\ UNCHANGED <<client, filters, server, polls, since, token, taken, processed,
                   lossy, spilled, reached>>

Accepted == pc = "send" /\ (HasSession => now < expires)

-----------------------------------------------------------------------------
(* What each request is for.                                               *)

\* list_agents: without it there are no alerts either.
GotAgents ==
    /\ request = "agents" /\ Accepted
    /\ \E agents \in 0 .. 1 : inventory' = agents
    /\ Enter(IF client = "indexer" THEN "search" ELSE "read")
    /\ since' = WindowStart
    /\ UNCHANGED <<client, filters, now, server, polls, token, nextCycle, cursor, batch,
                   seen, faults, history>>

\* Where the servers are known to put their lists.
KnownPlaces == IF client = "indexer" THEN {"hits"} ELSE {"events", "data", "hits"}

\* The indexer's or Security Onion's answer, in one of the places where such a
\* list may be; in any other place it is not found and the cycle goes on.
GotDocuments(place) ==
    /\ request \in {"search", "query"} /\ Accepted
    /\ LET found == Found(since)
           list == ListOf(found)
           Place(name) == IF place = name THEN list ELSE NoList
           response == [events |-> Place("events"), data |-> Place("data"),
                        hits |-> Place("hits")]
           documents == IF client = "indexer" THEN ExtractHits(response, Docs)
                        ELSE ExtractEventDocuments(response, Docs)
       IN  batch' = Kept(documents, since)
    /\ pc' = "fetched"
    /\ IF place \in KnownPlaces
       THEN lossy' = (lossy \/ Crowded(since)) /\ UNCHANGED faults
       ELSE lossy' = TRUE /\ Fault
    /\ UNCHANGED <<client, filters, now, server, request, attempt, reauth, polls, since,
                   token, nextCycle, cursor, inventory, seen, processed, streak,
                   spilled, reached, rejections>>

\* AlertReader models what this does to the file.  The cursor is saved here.
ReadFile ==
    /\ request = "read" /\ pc = "send"
    /\ batch' = Kept(indexed \ cursor, since)
    /\ cursor' = indexed
    /\ pc' = "fetched" /\ lossy' = (lossy \/ Crowded(since))
    /\ UNCHANGED <<client, filters, now, server, request, attempt, reauth, polls, since,
                   token, nextCycle, inventory, seen, faults, processed, streak,
                   spilled, reached, rejections>>

\* create_search_job: the window is that of the moment it is dispatched.
JobCreated ==
    /\ request = "create" /\ Accepted
    /\ job' = [state |-> "RUNNING", found |-> {}] /\ since' = WindowStart
    /\ Enter("status") /\ polls' = 0
    /\ UNCHANGED <<client, filters, now, indexed, expires, token, nextCycle, taken,
                   faults, history>>

\* Splunk runs it.
JobEnds ==
    /\ job.state = "RUNNING"
    /\ \/ job' = [state |-> "DONE",
                  found |-> Newest({d \in indexed : InWindow(d, since)}, now)]
       \/ job' = [state |-> "FAILED", found |-> {}] /\ faults < MaxFaults
    /\ UNCHANGED <<client, filters, now, indexed, expires, fetch, nextCycle, taken,
                   faults, history>>

\* The flag is set by every end of a job, and may be the only sign of it.
Content(flag) == [state |-> job.state, flag |-> flag /\ job.state # "RUNNING"]

ReadsResults(content) == ~JobFailed(content) /\ JobIsDone(content)

\* wait_for_job: one status answer.
JobStatus(flag) ==
    /\ request = "status" /\ Accepted
    /\ LET content == Content(flag)
       IN  \/ /\ ReadsResults(content)
              /\ Enter("results") /\ now' = now
              /\ UNCHANGED <<nextCycle, streak, polls, faults>>
           \/ /\ ~ReadsResults(content) /\ JobFailed(content)
              /\ now' = now /\ CycleFails /\ Fault /\ UNCHANGED polls
           \/ /\ ~ReadsResults(content) /\ ~JobFailed(content)
              /\ polls' = polls + 1
              /\ IF polls' = MaxPolls
                 THEN now' = now /\ CycleFails /\ Fault
                 ELSE /\ Passes(1) /\ Enter("status")
                      /\ UNCHANGED <<nextCycle, streak, faults>>
    /\ UNCHANGED <<client, filters, server, since, token, taken, processed, lossy,
                   spilled, reached, rejections>>

\* fetch_results.  The documents were filtered by the search only.  Rows that are in
\* no place known for them are not found, and the cycle goes on.
GotResults(known) ==
    /\ request = "results" /\ Accepted
    /\ LET list == IF known THEN ListOf(job.found) ELSE NoList
       IN  batch' = ExtractResultRows([events |-> list], Docs)
    /\ pc' = "fetched"
    /\ IF known THEN lossy' = (lossy \/ Crowded(since)) /\ UNCHANGED faults
                ELSE lossy' = TRUE /\ Fault
    /\ UNCHANGED <<client, filters, now, server, request, attempt, reauth, polls, since,
                   token, nextCycle, cursor, inventory, seen, processed, streak,
                   spilled, reached, rejections>>

-----------------------------------------------------------------------------
(* What becomes of it.                                                     *)

\* A key counts until its life is over, and has a new one when it is written again.
Fresh == {d \in batch : ~\E k \in seen : k.key = Id(d) /\ k.until > now}

Key(d) == [key |-> Id(d), until |-> now + KeyLife]

\* run_events takes each event once.  It may fail to take some and go on, and
\* it may raise.
Take(docs, returns) ==
    /\ pc = "fetched" /\ docs \subseteq Fresh
    /\ IF docs = Fresh /\ returns THEN UNCHANGED faults ELSE Fault
    /\ seen' = {k \in seen : \A d \in docs : k.key # Id(d)} \cup {Key(d) : d \in docs}
    /\ processed' = [d \in Docs |-> IF d \in docs /\ processed[d] < 2
                                    THEN processed[d] + 1 ELSE processed[d]]
    /\ spilled' = (spilled \/ (client = "alerts_json" /\ docs # Fresh))
    /\ streak' = Streak(docs = Fresh)
    /\ reached' = IF docs = Fresh THEN since + Lookback ELSE reached
    /\ pc' = IF returns THEN "push" ELSE "idle"
    /\ nextCycle' = IF returns THEN nextCycle ELSE now + Interval
    /\ UNCHANGED <<client, filters, now, server, request, attempt, reauth, polls, since,
                   token, cursor, batch, inventory, lossy, rejections>>

\* The cycle returns to the daemon.
CycleReturns ==
    /\ pc = "push" /\ pc' = "idle" /\ nextCycle' = now + Interval
    /\ UNCHANGED <<client, filters, now, server, request, attempt, reauth, polls, since,
                   token, taken, faults, history>>

\* The process is killed and started again: what it held is gone.
Kill ==
    /\ pc # "idle" /\ Fault
    /\ pc' = "idle" /\ request' = "none" /\ attempt' = 0 /\ reauth' = FALSE
    /\ nextCycle' = now /\ token' = NoToken
    /\ streak' = IF pc = "push" THEN streak ELSE Streak(FALSE)
    /\ spilled' = (spilled \/ (client = "alerts_json" /\ pc = "fetched" /\ Fresh # {}))
    /\ UNCHANGED <<client, filters, now, server, polls, since, taken, processed, lossy,
                   reached, rejections>>

(* ---- the world ---- *)

\* A document can be found some time after it came to be, and no later than Lag.
Appears(d) ==
    /\ d \notin indexed /\ now >= (IF Time[d] = NoTime THEN 0 ELSE Time[d])
    /\ indexed' = indexed \cup {d}
    /\ UNCHANGED <<client, filters, now, expires, job, fetch, nextCycle, taken, faults,
                   history>>

\* A session ends when its time is up, or earlier.
SessionEnds ==
    /\ now < expires /\ Fault
    /\ expires' = 0
    /\ UNCHANGED <<client, filters, now, indexed, job, fetch, nextCycle, taken, history>>

Tick ==
    /\ pc = "idle" /\ now < nextCycle /\ now <= MaxTime
    /\ Passes(1)
    /\ UNCHANGED <<client, filters, server, fetch, nextCycle, taken, faults, history>>

\* Steps of the fetch, which leave what is sent to Splunk alone.
PollingStep ==
    \/ Begin \/ HasToken \/ Authenticate
    \/ \E e \in Failures : AuthenticateFails(e) \/ Reauthenticate(e) \/ ExchangeFails(e)
    \/ GotAgents \/ ReadFile \/ JobCreated \/ JobEnds
    \/ \E place \in {"events", "data", "hits", "elsewhere"} : GotDocuments(place)
    \/ \E flag \in BOOLEAN : JobStatus(flag) \/ GotResults(flag)
    \/ SessionEnds \/ Tick
    \/ \E d \in Docs : Appears(d)
=============================================================================
