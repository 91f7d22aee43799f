---------------------------- MODULE ThreatIntel ----------------------------
(***************************************************************************)
(* ThreatIntelEnricher of soc/threat_intel.py over the clients of its      *)
(* providers and the enrichment_cache table.  One process enriches         *)
(* candidate after candidate; it may be restarted at any point and keeps   *)
(* only the table.  One clock stands for the monotonic and the wall clock. *)
(***************************************************************************)
EXTENDS IntelClients, Sequences, SequencesExt, FiniteSets

CONSTANTS
    Providers,      \* the configured providers, in order
    Indicators,     \* what candidates mention
    Type,           \* [Indicators -> types]
    Global,         \* the indicators that are globally routable addresses
    Supports,       \* [providers -> sets of types]
    Gap,            \* min_seconds_between_calls of each provider
    Attempts,       \* max_retries + 1 of each provider
    Data,           \* [providers -> parsed answers]
    HttpErrors,     \* the exchanges that have a status other than 2xx
    OtherErrors,    \* kinds of exchange without one
    Candidates,     \* sequences of indicators, as extracted
    TTL,            \* lifetime of a cached answer
    Latencies,      \* how long an exchange may take
    MaxTime,        \* bound on the clock when a candidate begins
    MaxFailures     \* bound on the failing calls of the cache

Never == -1
Clients == ToSet(Providers)
Rows == [verdict : Verdicts, at : Nat, expires : Nat]
NoRow == [verdict |-> "unknown", at |-> 0, expires |-> Never]

\* Each client is configured once.
ASSUME IntelConstants ==
    /\ Clients \subseteq {"virustotal", "abuseipdb", "shodan"}
    /\ Providers \in Seq(Clients) /\ IsInjective(Providers)
    /\ Global \subseteq Indicators /\ Candidates \subseteq Seq(Indicators)
    /\ Gap \in [Clients -> Nat] /\ Attempts \in [Clients -> Nat \ {0}]
    /\ TTL \in Nat /\ Latencies \subseteq Nat /\ Latencies # {}
    /\ MaxTime \in Nat /\ MaxFailures \in Nat

VARIABLES
    now,
    pc,             \* "idle", or a step of _lookup_with_cache
    candidate,      \* the indicators being enriched
    todo,           \* the places of the lookups left, in candidate and Providers
    attempt,        \* of the request loop, from 0
    lastCall,       \* _last_call_at
    table,          \* enrichment_cache
    failures,       \* calls of the cache that have failed
    \* What has happened, for the properties only:
    results,        \* what enrich_indicators has collected
    missed,         \* lookups that have failed
    began,          \* when each provider's last lookup began in this process
    paid            \* until when each answer is good, where the cache has
                    \* not failed

vars == <<now, pc, candidate, todo, attempt, lastCall, table, failures, results,
          missed, began, paid>>
history == <<candidate, results, missed, began, paid>>

Init ==
    /\ now = 0 /\ pc = "idle" /\ candidate = <<>> /\ todo = {} /\ attempt = 0 /\ failures = 0
    /\ lastCall = [p \in Clients |-> Never]
    /\ table = [p \in Clients |-> [i \in Indicators |-> NoRow]]
    /\ results = {} /\ missed = {}
    /\ began = [p \in Clients |-> Never]
    /\ paid = [p \in Clients |-> [i \in Indicators |-> Never]]

-----------------------------------------------------------------------------
(* Which lookups a candidate needs.                                        *)

\* Of each indicator the first is kept.
FirstAt(seq, n) == \A m \in 1 .. n - 1 : seq[m] # seq[n]

\* Mutants are named for the mistake they make.
PrivateSent(i) == TRUE

Eligible(i) == Type[i] = "ip" => i \in Global

Lookups(seq) ==
    {x \in (DOMAIN seq) \X (DOMAIN Providers) :
        /\ FirstAt(seq, x[1]) /\ Eligible(seq[x[1]])
        /\ Type[seq[x[1]]] \in Supports[Providers[x[2]]]}

\* Indicators outside, providers inside.
NoLater(x, y) == x[1] < y[1] \/ (x[1] = y[1] /\ x[2] <= y[2])

Here == CHOOSE x \in todo : \A y \in todo : NoLater(x, y)

Indicator == candidate[Here[1]]
Provider == Providers[Here[2]]
Row == table[Provider][Indicator]

-----------------------------------------------------------------------------
\* enrich_candidate
Enrich(seq) ==
    /\ pc = "idle" /\ now <= MaxTime
    /\ pc' = "cache" /\ todo' = Lookups(seq)
    /\ candidate' = seq /\ results' = {} /\ missed' = {}
    /\ UNCHANGED <<now, attempt, lastCall, table, failures, began, paid>>

\* This lookup is over.
NextLookup(answered) ==
    /\ todo' = todo \ {Here} /\ pc' = "cache" /\ attempt' = 0
    /\ results' = IF answered = {} THEN results ELSE results \cup answered
    /\ missed' = IF answered = {} THEN missed \cup {<<Indicator, Provider>>} ELSE missed

Result(verdict, at) ==
    [indicator |-> Indicator, provider |-> Provider, verdict |-> verdict, at |-> at]

\* A row is good until it expires, and not at that moment.
StaleRowsGood(row) == row.expires >= now

Fresh(row) == row.expires > now

CacheFails == failures < MaxFailures /\ failures' = failures + 1

\* _read_cache finds a row: no call is made.
CacheHit ==
    /\ pc = "cache" /\ todo # {} /\ Fresh(Row)
    /\ NextLookup({Result(Row.verdict, Row.at)})
    /\ UNCHANGED <<now, lastCall, table, failures, candidate, began, paid>>

\* It finds none, or the read fails, which counts as none.
CacheMiss ==
    /\ pc = "cache" /\ todo # {}
    /\ \/ ~Fresh(Row) /\ UNCHANGED <<failures, paid>>
       \/ /\ Fresh(Row) /\ CacheFails
          /\ paid' = [paid EXCEPT ![Provider][Indicator] = Never]
    /\ pc' = "limit"
    /\ UNCHANGED <<now, todo, attempt, lastCall, table, candidate, results, missed,
                   began>>

SpacedFromBeforeTheWait ==
    /\ pc = "limit"
    /\ now' = IF lastCall[Provider] = Never \/ now - lastCall[Provider] >= Gap[Provider]
              THEN now ELSE lastCall[Provider] + Gap[Provider]
    /\ lastCall' = [lastCall EXCEPT ![Provider] = now]
    /\ pc' = "request"
    /\ began' = [began EXCEPT ![Provider] = now']
    /\ UNCHANGED <<todo, attempt, table, failures, candidate, results, missed, paid>>

\* _respect_rate_limit sleeps for what is left of the gap, and notes the time
\* it woke at, before the call and whatever becomes of it.
RespectRateLimit ==
    /\ pc = "limit"
    /\ now' = IF lastCall[Provider] = Never \/ now - lastCall[Provider] >= Gap[Provider]
              THEN now ELSE lastCall[Provider] + Gap[Provider]
    /\ lastCall' = IF Gap[Provider] = 0 THEN lastCall
                   ELSE [lastCall EXCEPT ![Provider] = now']
    /\ pc' = "request"
    /\ began' = [began EXCEPT ![Provider] = now']
    /\ UNCHANGED <<todo, attempt, table, failures, candidate, results, missed, paid>>

-----------------------------------------------------------------------------
(* The request loop of the client.  An exchange takes its time.            *)

Exchange(latency) == pc = "request" /\ now' = now + latency

StoredIfData(e) == e.kind = "data"

\* An answer is stored also when it is that nothing is known.
Stored(e) == Answers(Provider, e)

Answered(e, latency) ==
    /\ Exchange(latency) /\ Answers(Provider, e)
    /\ LET verdict == Answer(Provider, e)
           row == [verdict |-> verdict, at |-> now', expires |-> now' + TTL]
       IN  /\ NextLookup({Result(verdict, now')})
           /\ \/ /\ table' = IF Stored(e)
                              THEN [table EXCEPT ![Provider][Indicator] = row]
                              ELSE table
                 /\ paid' = [paid EXCEPT ![Provider][Indicator] = row.expires]
                 /\ UNCHANGED failures
              \/ CacheFails /\ UNCHANGED <<table, paid>>
    /\ UNCHANGED <<lastCall, candidate, began>>

TriedAgain(e) == attempt < Attempts[Provider] - 1 /\ Retries(Provider, e)

\* A transient failure is tried again after a pause that doubles.
Retry(e, latency) ==
    /\ Exchange(latency) /\ ~Answers(Provider, e) /\ TriedAgain(e)
    /\ pc' = "backoff" /\ attempt' = attempt + 1
    /\ UNCHANGED <<todo, lastCall, table, failures, history>>

Backoff ==
    /\ pc = "backoff" /\ pc' = "request"
    /\ now' = now + 2 ^ (attempt - 1)
    /\ UNCHANGED <<todo, attempt, lastCall, table, failures, history>>

\* Any other one costs this lookup and nothing else.
Fail(e, latency) ==
    /\ Exchange(latency) /\ ~Answers(Provider, e) /\ ~TriedAgain(e)
    /\ NextLookup({})
    /\ UNCHANGED <<lastCall, table, failures, candidate, began, paid>>

Finish ==
    /\ pc = "cache" /\ todo = {} /\ pc' = "idle"
    /\ UNCHANGED <<now, todo, attempt, lastCall, table, failures, history>>

-----------------------------------------------------------------------------
(* Around it.                                                              *)

\* The process is started anew; the times of its calls were in its memory.
Restart ==
    /\ pc' = "idle" /\ candidate' = <<>> /\ todo' = {} /\ attempt' = 0
    /\ lastCall' = [p \in Clients |-> Never]
    /\ began' = [p \in Clients |-> Never]
    /\ results' = {} /\ missed' = {}
    /\ UNCHANGED <<now, table, failures, paid>>

Tick ==
    /\ pc = "idle" /\ now < MaxTime /\ now' = now + 1
    /\ UNCHANGED <<pc, todo, attempt, lastCall, table, failures, history>>

Exchanges == [kind : {"data"}, data : Data[Provider]] \cup HttpErrors \cup OtherErrors

Request == pc = "request" /\ \E e \in Exchanges, latency \in Latencies :
    Answered(e, latency) \/ Retry(e, latency) \/ Fail(e, latency)

Next ==
    \/ \E seq \in Candidates : Enrich(seq)
    \/ CacheHit \/ CacheMiss \/ RespectRateLimit \/ Request \/ Backoff \/ Finish
    \/ Restart \/ Tick

Spec == Init /\ [][Next]_vars

-----------------------------------------------------------------------------
TypeOK ==
    /\ now \in Nat /\ pc \in {"idle", "cache", "limit", "request", "backoff"}
    /\ candidate \in Seq(Indicators) /\ todo \subseteq Lookups(candidate)
    /\ attempt \in Nat /\ (pc = "backoff" => attempt > 0)
    /\ todo # {} => attempt < Attempts[Provider]
    /\ lastCall \in [Clients -> Nat \cup {Never}]
    /\ table \in [Clients -> [Indicators -> Rows \cup {NoRow}]]
    /\ failures \in 0 .. MaxFailures

\* Two lookups of one provider begin at least its gap apart, whatever became
\* of the first one and however long it took, as long as the process lives.
LookupsSpaced ==
    [][\A p \in Clients :
          began[p] # Never /\ began'[p] # began[p] /\ began'[p] # Never =>
              began'[p] - began[p] >= Gap[p]]_vars

\* No lookup is begun for an answer that was had and is still good, be it only
\* that nothing is known, unless the cache failed to keep it.
NothingPaidTwice ==
    [][pc = "limit" /\ pc' = "request" =>
          paid[Provider][Indicator] <= now]_vars

\* An answer that is used was given just now, or less than its lifetime ago.
AnswersFresh ==
    [][\A r \in results' \ results : r.at = now' \/ r.at + TTL > now']_vars

\* When a candidate is done every lookup it called for has been answered or
\* has failed, once: one failing provider costs its own answers only, and an
\* address that is not global was never looked up.
EachLookupOnce ==
    pc = "idle" =>
        LET wanted == {x \in ToSet(candidate) \X Clients :
                          /\ Type[x[1]] \in Supports[x[2]]
                          /\ Type[x[1]] = "ip" => x[1] \in Global}
            answered == {<<r.indicator, r.provider>> : r \in results}
        IN  /\ answered \cap missed = {} /\ answered \cup missed = wanted
            /\ Cardinality(results) = Cardinality(answered)
=============================================================================
