------------------------- MODULE ThreatIntelProofs -------------------------
(***************************************************************************)
(* Proofs about ThreatIntel for any indicators, candidates, gaps, limits   *)
(* of attempts, lifetimes and latencies, and any exchanges that fail.      *)
(***************************************************************************)
EXTENDS ThreatIntel, FiniteSetTheorems, SequenceTheorems, WellFoundedInduction, TLAPS

\* What one process remembers of its calls is when each client's last one began.
GapInv ==
    /\ began \in [Clients -> Nat \cup {Never}]
    /\ \A p \in Clients :
          /\ began[p] <= now
          /\ lastCall[p] = IF Gap[p] = 0 THEN Never ELSE began[p]

\* A row says how long its answer is good, and an answer that was had and that
\* the cache did not lose is good no longer than its row.
CacheInv ==
    /\ paid \in [Clients -> [Indicators -> Int]]
    /\ \A p \in Clients, i \in Indicators :
          /\ table[p][i] = NoRow \/ table[p][i].expires = table[p][i].at + TTL
          /\ paid[p][i] <= table[p][i].expires
    /\ pc = "limit" => paid[Provider][Indicator] <= now

\* What the lookup at a place is about.
About(seq, x) == <<seq[x[1]], Providers[x[2]]>>
Passed(seq, left) == {About(seq, x) : x \in Lookups(seq) \ left}
Of(r) == <<r.indicator, r.provider>>
AnsweredBy(rs) == {Of(r) : r \in rs}

\* Every place that was passed has been answered or has failed, and no other.
PassedInv ==
    /\ Passed(candidate, todo) = AnsweredBy(results) \cup missed
    /\ AnsweredBy(results) \cap missed = {}
    /\ \A r, s \in results : Of(r) = Of(s) => r = s
    /\ IsFiniteSet(results)
    /\ pc \in {"idle", "cache", "limit"} => attempt = 0
    /\ pc = "idle" => todo = {}
    /\ pc \in {"limit", "request", "backoff"} => todo # {}

EnrichInv == TypeOK /\ GapInv /\ CacheInv /\ PassedInv

-----------------------------------------------------------------------------
(* The places that lookups are about.                                      *)

\* A nonempty set of natural numbers has a least one.
LEMMA LeastExists ==
  ASSUME NEW S, S \subseteq Nat, S # {}
  PROVE  \E n \in S : \A m \in S : n <= m
<1>1. PICK n \in S : \A m \in S : <<m, n>> \notin OpToRel(<, Nat)
  BY NatLessThanWellFounded, WFMin
<1>2. \A m \in S : ~(m < n)
  BY <1>1 DEF OpToRel
<1>3. QED
  BY <1>2

\* Places are pairs of natural numbers, and each is about something.
LEMMA PlacesAre ==
  ASSUME IntelConstants, NEW seq \in Seq(Indicators), NEW x \in Lookups(seq)
  PROVE  /\ x[1] \in DOMAIN seq /\ x[2] \in DOMAIN Providers
         /\ x = <<x[1], x[2]>> /\ x[1] \in Nat /\ x[2] \in Nat
         /\ seq[x[1]] \in Indicators /\ Providers[x[2]] \in Clients
BY DEF Lookups, IntelConstants

\* Of a set of places one comes first.
LEMMA FirstPlace ==
  ASSUME IntelConstants, NEW seq \in Seq(Indicators), NEW left \in SUBSET Lookups(seq),
         left # {}
  PROVE  (CHOOSE x \in left : \A y \in left : NoLater(x, y)) \in left
<1>1. \A x \in left : x[1] \in Nat /\ x[2] \in Nat
  BY PlacesAre
<1>. DEFINE firsts == {x[1] : x \in left}
<1>2. PICK n \in firsts : \A m \in firsts : n <= m
  <2>1. firsts \subseteq Nat /\ firsts # {}
    BY <1>1
  <2>. HIDE DEF firsts
  <2>2. QED
    BY <2>1, LeastExists
<1>. DEFINE seconds == {x[2] : x \in {y \in left : y[1] = n}}
<1>3. PICK k \in seconds : \A m \in seconds : k <= m
  <2>1. seconds \subseteq Nat /\ seconds # {}
    BY <1>1, <1>2
  <2>. HIDE DEF seconds
  <2>2. QED
    BY <2>1, LeastExists
<1>4. PICK x \in left : x[1] = n /\ x[2] = k
  BY <1>3
<1>5. \A y \in left : NoLater(x, y)
  <2>1. TAKE y \in left
  <2>2. n <= y[1] /\ (y[1] = n => k <= y[2])
    BY <1>2, <1>3
  <2>3. QED
    BY <1>1, <1>2, <1>4, <2>2 DEF NoLater
<1>6. QED
  BY <1>4, <1>5

\* There is a next lookup as long as one is left.
LEMMA HereIsLeft ==
  ASSUME IntelConstants, candidate \in Seq(Indicators), todo \subseteq Lookups(candidate),
         todo # {}
  PROVE  Here \in todo /\ Indicator \in Indicators /\ Provider \in Clients
<1>1. Here \in todo
  BY FirstPlace DEF Here
<1>2. QED
  BY <1>1, PlacesAre DEF Indicator, Provider

\* Two places are about different things: the first of each indicator was kept.
LEMMA PlacesDiffer ==
  ASSUME IntelConstants, NEW seq \in Seq(Indicators), NEW x \in Lookups(seq),
         NEW y \in Lookups(seq), seq[x[1]] = seq[y[1]], Providers[x[2]] = Providers[y[2]]
  PROVE  x = y
<1>1. x[2] = y[2]
  BY PlacesAre DEF IntelConstants, IsInjective
<1>2. x[1] = y[1]
  <2>1. \A m \in 1 .. x[1] - 1 : seq[m] # seq[x[1]]
    BY DEF Lookups, FirstAt
  <2>2. \A m \in 1 .. y[1] - 1 : seq[m] # seq[y[1]]
    BY DEF Lookups, FirstAt
  <2>3. x[1] \in Nat \ {0} /\ y[1] \in Nat \ {0}
    <3>1. DOMAIN seq = 1 .. Len(seq) /\ Len(seq) \in Nat
      BY LenProperties
    <3>2. x[1] \in 1 .. Len(seq) /\ y[1] \in 1 .. Len(seq)
      BY <3>1, PlacesAre
    <3>3. QED
      BY <3>1, <3>2
  <2>4. ~(x[1] < y[1]) /\ ~(y[1] < x[1])
    <3>1. x[1] < y[1] => x[1] \in 1 .. y[1] - 1
      BY <2>3
    <3>2. y[1] < x[1] => y[1] \in 1 .. x[1] - 1
      BY <2>3
    <3>3. QED
      BY <2>1, <2>2, <3>1, <3>2
  <2>5. QED
    BY <2>3, <2>4
<1>3. QED
  BY <1>1, <1>2, PlacesAre

\* Every pair of a mentioned indicator and a client that is asked about it has
\* a place, and nothing else has.
LEMMA PlacesCover ==
  ASSUME IntelConstants, NEW seq \in Seq(Indicators)
  PROVE  Passed(seq, {}) =
         {x \in ToSet(seq) \X Clients : /\ Type[x[1]] \in Supports[x[2]]
                                        /\ Type[x[1]] = "ip" => x[1] \in Global}
<1>1. ASSUME NEW x \in Lookups(seq)
      PROVE  /\ seq[x[1]] \in ToSet(seq) /\ Providers[x[2]] \in Clients
             /\ Type[seq[x[1]]] \in Supports[Providers[x[2]]]
             /\ Type[seq[x[1]]] = "ip" => seq[x[1]] \in Global
  BY PlacesAre DEF Lookups, Eligible, ToSet
<1>2. ASSUME NEW i \in ToSet(seq), NEW p \in Clients, Type[i] \in Supports[p],
             Type[i] = "ip" => i \in Global
      PROVE  \E x \in Lookups(seq) : seq[x[1]] = i /\ Providers[x[2]] = p
  <2>1. PICK k \in DOMAIN Providers : Providers[k] = p
    BY DEF Clients, ToSet
  <2>2. /\ {m \in DOMAIN seq : seq[m] = i} # {}
        /\ DOMAIN seq = 1 .. Len(seq) /\ Len(seq) \in Nat
    BY <1>2 DEF ToSet
  <2>3. PICK n \in DOMAIN seq : seq[n] = i /\ \A m \in DOMAIN seq : seq[m] = i => n <= m
    <3>. DEFINE places == {m \in DOMAIN seq : seq[m] = i}
    <3>1. places \subseteq Nat /\ places # {}
      BY <2>2
    <3>2. \E n \in places : \A m \in places : n <= m
      <4>. HIDE DEF places
      <4>1. QED
        BY <3>1, LeastExists
    <3>3. QED
      BY <3>2
  <2>4. FirstAt(seq, n)
    BY <2>2, <2>3 DEF FirstAt
  <2>5. <<n, k>> \in Lookups(seq)
    BY <1>2, <2>1, <2>3, <2>4 DEF Lookups, Eligible
  <2>6. QED
    BY <2>1, <2>3, <2>5
<1>. DEFINE wanted == {x \in ToSet(seq) \X Clients : /\ Type[x[1]] \in Supports[x[2]]
                                                     /\ Type[x[1]] = "ip" => x[1] \in Global}
            named == Passed(seq, {})
<1>3. named \subseteq wanted
  BY <1>1 DEF Passed, About
<1>4. ASSUME NEW w \in wanted
      PROVE  w \in named
  <2>1. /\ w = <<w[1], w[2]>> /\ w[1] \in ToSet(seq) /\ w[2] \in Clients
        /\ Type[w[1]] \in Supports[w[2]] /\ (Type[w[1]] = "ip" => w[1] \in Global)
    OBVIOUS
  <2>2. PICK x \in Lookups(seq) : seq[x[1]] = w[1] /\ Providers[x[2]] = w[2]
    BY <1>2, <2>1
  <2>3. QED
    BY <2>1, <2>2 DEF Passed, About
<1>5. QED
  BY <1>3, <1>4

-----------------------------------------------------------------------------
(* Steps.                                                                  *)

\* A set of n things has 2^n subsets, so a pause that doubles is a natural number.
LEMMA PauseIsNatural ==
  ASSUME NEW n \in Nat
  PROVE  2 ^ n \in Nat
<1>1. IsFiniteSet(1 .. n) /\ Cardinality(1 .. n) = IF 1 > n THEN 0 ELSE n - 1 + 1
  BY FS_Interval
<1>2. Cardinality(1 .. n) = n
  BY <1>1
<1>3. /\ IsFiniteSet(SUBSET (1 .. n))
      /\ Cardinality(SUBSET (1 .. n)) = 2 ^ Cardinality(1 .. n)
  BY <1>1, FS_SUBSET
<1>4. Cardinality(SUBSET (1 .. n)) \in Nat
  BY <1>3, FS_CardinalityType
<1>5. QED
  BY <1>2, <1>3, <1>4

\* Whatever an exchange brings, the verdict is one of the four.
LEMMA AnswerIsVerdict ==
  ASSUME NEW client \in {"virustotal", "abuseipdb", "shodan"}, NEW e
  PROVE  Answer(client, e) \in Verdicts
BY DEF Answer, VerdictOf, VirusTotalVerdict, AbuseIPDBVerdict, ShodanVerdict, Verdicts

\* The clock never goes back.
LEMMA TimePasses ==
  ASSUME IntelConstants, EnrichInv, Next
  PROVE  now' \in Nat /\ now' >= now
<1>1. CASE RespectRateLimit
  <2>1. todo # {} /\ Provider \in Clients
    BY <1>1, HereIsLeft DEF RespectRateLimit, EnrichInv, TypeOK, PassedInv
  <2>2. /\ now \in Nat /\ Gap[Provider] \in Nat
        /\ lastCall[Provider] = Never \/ lastCall[Provider] \in Nat
    BY <2>1 DEF EnrichInv, TypeOK, IntelConstants
  <2>3. QED
    BY <1>1, <2>2 DEF RespectRateLimit
<1>2. CASE Backoff
  <2>1. attempt - 1 \in Nat /\ now \in Nat
    BY <1>2 DEF Backoff, EnrichInv, TypeOK
  <2>2. QED
    BY <1>2, <2>1, PauseIsNatural DEF Backoff
<1>3. CASE Request
  <2>1. PICK latency \in Latencies : now' = now + latency
    BY <1>3 DEF Request, Answered, Retry, Fail, Exchange
  <2>2. QED
    BY <2>1 DEF IntelConstants, EnrichInv, TypeOK
<1>4. CASE \/ \E seq \in Candidates : Enrich(seq)
           \/ CacheHit \/ CacheMiss \/ Finish \/ Restart
  BY <1>4 DEF Enrich, CacheHit, CacheMiss, Finish, Restart, EnrichInv, TypeOK
<1>5. CASE Tick
  BY <1>5 DEF Tick, EnrichInv, TypeOK
<1>6. QED
  BY <1>1, <1>2, <1>3, <1>4, <1>5 DEF Next

\* The next lookup has its own attempts.
LEMMA NextLookupTypes ==
  ASSUME IntelConstants, EnrichInv, NEW answered, NextLookup(answered), UNCHANGED candidate
  PROVE  /\ todo' \subseteq Lookups(candidate') /\ attempt' = 0
         /\ todo' # {} => attempt' < Attempts[Provider']
<1>1. todo' \subseteq Lookups(candidate') /\ attempt' = 0
  BY DEF NextLookup, EnrichInv, TypeOK
<1>2. todo' # {} => Provider' \in Clients
  <2>1. HAVE todo' # {}
  <2>2. PICK seq \in Seq(Indicators) : seq = candidate'
    BY DEF EnrichInv, TypeOK
  <2>3. Here' \in todo'
    BY <1>1, <2>1, <2>2, FirstPlace DEF Here
  <2>4. QED
    BY <1>1, <2>2, <2>3, PlacesAre DEF Provider
<1>3. \A p \in Clients : 0 < Attempts[p]
  BY DEF IntelConstants
<1>4. QED
  BY <1>1, <1>2, <1>3

LEMMA TypeStep ==
  ASSUME IntelConstants, EnrichInv, [Next]_vars
  PROVE  TypeOK'
<1>1. CASE UNCHANGED vars
  BY <1>1 DEF vars, EnrichInv, TypeOK, Provider, Here
<1>2. ASSUME NEW seq \in Candidates, Enrich(seq)
      PROVE  TypeOK'
  <2>1. /\ candidate' = seq /\ todo' = Lookups(seq) /\ pc' = "cache"
        /\ UNCHANGED <<now, attempt, lastCall, table, failures>>
    BY <1>2 DEF Enrich
  <2>2. candidate' \in Seq(Indicators) /\ todo' \subseteq Lookups(candidate')
    BY <2>1 DEF IntelConstants
  <2>3. todo' # {} => Provider' \in Clients
    <3>1. HAVE todo' # {}
    <3>2. Here' \in Lookups(seq)
      BY <2>1, <2>2, <3>1, FirstPlace DEF Here
    <3>3. QED
      BY <2>1, <2>2, <3>2, PlacesAre DEF Provider
  <2>4. attempt' = 0
    BY <2>1, <1>2 DEF EnrichInv, Enrich, PassedInv
  <2>5. \A p \in Clients : 0 < Attempts[p]
    BY DEF IntelConstants
  <2>6. todo' # {} => attempt' < Attempts[Provider']
    BY <2>3, <2>4, <2>5
  <2>7. QED
    BY <2>1, <2>2, <2>4, <2>6 DEF EnrichInv, TypeOK
<1>3. CASE CacheHit
  <2>1. PICK answered : NextLookup(answered)
    BY <1>3 DEF CacheHit
  <2>2. pc' = "cache" /\ UNCHANGED <<now, candidate, lastCall, table, failures>>
    BY <1>3 DEF CacheHit, NextLookup
  <2>3. QED
    BY <2>1, <2>2, NextLookupTypes DEF EnrichInv, TypeOK
<1>4. CASE CacheMiss
  <2>1. /\ pc' = "limit" /\ UNCHANGED <<now, candidate, todo, attempt, lastCall, table>>
        /\ failures' \in 0 .. MaxFailures
    BY <1>4 DEF CacheMiss, CacheFails, EnrichInv, TypeOK, IntelConstants
  <2>2. QED
    BY <2>1 DEF EnrichInv, TypeOK, Provider, Here
<1>5. CASE RespectRateLimit
  <2>1. /\ pc' = "request" /\ now' \in Nat
        /\ UNCHANGED <<candidate, todo, attempt, table, failures>>
        /\ \/ lastCall' = lastCall
           \/ lastCall' = [lastCall EXCEPT ![Provider] = now']
    BY <1>5, TimePasses DEF RespectRateLimit, Next
  <2>2. lastCall' \in [Clients -> Nat \cup {Never}]
    BY <2>1 DEF EnrichInv, TypeOK
  <2>3. QED
    BY <2>1, <2>2 DEF EnrichInv, TypeOK, Provider, Here
<1>6. ASSUME NEW e \in Exchanges, NEW latency \in Latencies, Answered(e, latency)
      PROVE  TypeOK'
  <2>1. PICK answered : NextLookup(answered)
    BY <1>6 DEF Answered
  <2>2. /\ pc' = "cache" /\ now' \in Nat /\ UNCHANGED <<candidate, lastCall>>
        /\ failures' \in 0 .. MaxFailures
    BY <1>6 DEF Answered, NextLookup, Exchange, CacheFails, EnrichInv, TypeOK,
       IntelConstants
  <2>3. PICK p \in Clients, i \in Indicators : p = Provider /\ i = Indicator
    BY <1>6, HereIsLeft DEF Answered, Exchange, EnrichInv, TypeOK, PassedInv
  <2>4. [verdict |-> Answer(p, e), at |-> now', expires |-> now' + TTL] \in Rows
    <3>1. Answer(p, e) \in Verdicts
      BY <2>3, AnswerIsVerdict DEF IntelConstants
    <3>2. PICK at \in Nat : at = now'
      BY <2>2
    <3>3. at + TTL \in Nat
      BY DEF IntelConstants
    <3>4. QED
      BY <3>1, <3>2, <3>3 DEF Rows
  <2>5. \/ table' = table
        \/ table' = [table EXCEPT ![p][i] = [verdict |-> Answer(p, e), at |-> now',
                                             expires |-> now' + TTL]]
    BY <1>6, <2>3 DEF Answered
  <2>6. table' \in [Clients -> [Indicators -> Rows \cup {NoRow}]]
    <3>1. table \in [Clients -> [Indicators -> Rows \cup {NoRow}]]
      BY DEF EnrichInv, TypeOK
    <3>2. PICK row \in Rows : table' = table \/ table' = [table EXCEPT ![p][i] = row]
      BY <2>4, <2>5
    <3>3. [table[p] EXCEPT ![i] = row] \in [Indicators -> Rows \cup {NoRow}]
      BY <3>1
    <3>4. QED
      BY <3>1, <3>2, <3>3
  <2>7. QED
    BY <2>1, <2>2, <2>6, NextLookupTypes DEF EnrichInv, TypeOK
<1>7. ASSUME NEW e \in Exchanges, NEW latency \in Latencies, Retry(e, latency)
      PROVE  TypeOK'
  <2>1. /\ pc' = "backoff" /\ now' \in Nat /\ attempt' = attempt + 1
        /\ attempt < Attempts[Provider] - 1
        /\ UNCHANGED <<candidate, todo, lastCall, table, failures>>
    BY <1>7 DEF Retry, Exchange, TriedAgain, history, EnrichInv, TypeOK, IntelConstants
  <2>2. Provider \in Clients /\ Provider' = Provider
    BY <1>7, <2>1, HereIsLeft
    DEF Retry, Exchange, EnrichInv, TypeOK, PassedInv, Provider, Here
  <2>3. attempt' < Attempts[Provider'] /\ attempt' \in Nat /\ attempt' > 0
    BY <2>1, <2>2 DEF EnrichInv, TypeOK, IntelConstants
  <2>4. QED
    BY <2>1, <2>3 DEF EnrichInv, TypeOK
<1>8. ASSUME NEW e \in Exchanges, NEW latency \in Latencies, Fail(e, latency)
      PROVE  TypeOK'
  <2>1. PICK answered : NextLookup(answered)
    BY <1>8 DEF Fail
  <2>2. /\ pc' = "cache" /\ now' \in Nat
        /\ UNCHANGED <<candidate, lastCall, table, failures>>
    BY <1>8 DEF Fail, NextLookup, Exchange, EnrichInv, TypeOK, IntelConstants
  <2>3. QED
    BY <2>1, <2>2, NextLookupTypes DEF EnrichInv, TypeOK
<1>9. CASE Backoff
  <2>1. /\ pc' = "request" /\ now' \in Nat
        /\ UNCHANGED <<candidate, todo, attempt, lastCall, table, failures>>
    BY <1>9, TimePasses DEF Backoff, history, Next
  <2>2. QED
    BY <2>1 DEF EnrichInv, TypeOK, Provider, Here
<1>10. CASE Finish \/ Tick
  <2>1. /\ pc' = "idle" /\ now' \in Nat
        /\ UNCHANGED <<candidate, todo, attempt, lastCall, table, failures>>
    BY <1>10 DEF Finish, Tick, history, EnrichInv, TypeOK
  <2>2. QED
    BY <2>1 DEF EnrichInv, TypeOK, Provider, Here
<1>11. CASE Restart
  BY <1>11 DEF Restart, EnrichInv, TypeOK, Never
<1>12. QED
  BY <1>1, <1>2, <1>3, <1>4, <1>5, <1>6, <1>7, <1>8, <1>9, <1>10, <1>11
  DEF Next, Request

LEMMA GapStep ==
  ASSUME IntelConstants, EnrichInv, [Next]_vars
  PROVE  GapInv'
<1>1. ASSUME UNCHANGED <<began, lastCall>>, now' \in Nat, now' >= now
      PROVE  GapInv'
  <2>1. \A p \in Clients : began[p] <= now'
    BY <1>1 DEF EnrichInv, GapInv, TypeOK, Never
  <2>2. QED
    BY <1>1, <2>1 DEF EnrichInv, GapInv
<1>2. CASE UNCHANGED vars
  BY <1>1, <1>2 DEF vars, EnrichInv, TypeOK
<1>3. CASE /\ \/ \E seq \in Candidates : Enrich(seq)
              \/ CacheHit \/ CacheMiss \/ Request \/ Backoff \/ Finish \/ Tick
           /\ Next
  <2>1. UNCHANGED <<began, lastCall>>
    BY <1>3 DEF Enrich, CacheHit, CacheMiss, Request, Answered, Retry, Fail, Backoff,
       Finish, Tick, history
  <2>2. QED
    BY <1>1, <1>3, <2>1, TimePasses
<1>4. CASE RespectRateLimit
  <2>1. now' \in Nat /\ now' >= now
    BY <1>4, TimePasses DEF Next
  <2>2. PICK q \in Clients : q = Provider
    BY <1>4, HereIsLeft DEF RespectRateLimit, EnrichInv, TypeOK, PassedInv
  <2>3. /\ began' = [began EXCEPT ![q] = now']
        /\ lastCall' = IF Gap[q] = 0 THEN lastCall ELSE [lastCall EXCEPT ![q] = now']
    BY <1>4, <2>2 DEF RespectRateLimit
  <2>4. /\ began' \in [Clients -> Nat \cup {Never}]
        /\ began'[q] = now' /\ \A p \in Clients \ {q} : began'[p] = began[p]
    BY <2>1, <2>3 DEF EnrichInv, GapInv
  <2>5. \A p \in Clients : began'[p] <= now'
    BY <2>1, <2>4 DEF EnrichInv, GapInv, TypeOK, Never
  <2>6. \A p \in Clients : lastCall'[p] = IF Gap[p] = 0 THEN Never ELSE began'[p]
    BY <2>2, <2>3, <2>4 DEF EnrichInv, GapInv, TypeOK
  <2>7. QED
    BY <2>4, <2>5, <2>6 DEF GapInv
<1>5. CASE Restart
  BY <1>5 DEF Restart, EnrichInv, TypeOK, GapInv, Never
<1>6. QED
  BY <1>2, <1>3, <1>4, <1>5 DEF Next

LEMMA CacheStep ==
  ASSUME IntelConstants, EnrichInv, [Next]_vars
  PROVE  CacheInv'
<1>1. ASSUME UNCHANGED <<table, paid>>, pc' # "limit"
      PROVE  CacheInv'
  BY <1>1 DEF EnrichInv, CacheInv
<1>2. CASE UNCHANGED vars
  BY <1>2 DEF vars, EnrichInv, CacheInv, Provider, Indicator, Here
<1>3. CASE \/ \E seq \in Candidates : Enrich(seq)
           \/ CacheHit \/ RespectRateLimit \/ Backoff \/ Finish \/ Restart \/ Tick
  <2>1. UNCHANGED <<table, paid>> /\ pc' # "limit"
    BY <1>3 DEF Enrich, CacheHit, RespectRateLimit, Backoff, Finish, Restart, Tick,
       NextLookup, history
  <2>2. QED
    BY <1>1, <2>1
<1>4. CASE CacheMiss
  <2>1. /\ UNCHANGED <<now, candidate, todo, table>>
        /\ Provider' = Provider /\ Indicator' = Indicator
    BY <1>4 DEF CacheMiss, Provider, Indicator, Here
  <2>2. PICK q \in Clients, j \in Indicators : q = Provider /\ j = Indicator
    BY <1>4, HereIsLeft DEF CacheMiss, EnrichInv, TypeOK
  <2>3. CASE ~Fresh(Row) /\ paid' = paid
    <3>1. /\ table[q][j].expires \in Int /\ paid[q][j] \in Int /\ now \in Nat
          /\ paid[q][j] <= table[q][j].expires
      BY DEF EnrichInv, CacheInv, TypeOK, Rows, NoRow, Never
    <3>2. ~(table[q][j].expires > now)
      BY <2>2, <2>3 DEF Fresh, Row
    <3>3. paid[q][j] <= now
      BY <3>1, <3>2
    <3>4. QED
      BY <2>1, <2>2, <2>3, <3>3 DEF EnrichInv, CacheInv
  <2>4. CASE paid' = [paid EXCEPT ![q][j] = Never]
    <3>1. /\ paid' \in [Clients -> [Indicators -> Int]]
          /\ paid'[q][j] = Never
          /\ \A p \in Clients, i \in Indicators :
                paid'[p][i] = paid[p][i] \/ paid'[p][i] = Never
      <4>1. paid \in [Clients -> [Indicators -> Int]] /\ Never \in Int
        BY DEF EnrichInv, CacheInv, Never
      <4>2. QED
        BY <2>4, <4>1
    <3>2. \A p \in Clients, i \in Indicators : Never <= table[p][i].expires
      BY DEF EnrichInv, TypeOK, Rows, NoRow, Never
    <3>3. Never <= now
      BY DEF EnrichInv, TypeOK, Never
    <3>4. QED
      BY <2>1, <2>2, <3>1, <3>2, <3>3 DEF EnrichInv, CacheInv
  <2>5. QED
    BY <1>4, <2>2, <2>3, <2>4 DEF CacheMiss
<1>5. ASSUME NEW e \in Exchanges, NEW latency \in Latencies,
             Retry(e, latency) \/ Fail(e, latency)
      PROVE  CacheInv'
  <2>1. UNCHANGED <<table, paid>> /\ pc' # "limit"
    BY <1>5 DEF Retry, Fail, NextLookup, history
  <2>2. QED
    BY <1>1, <2>1
<1>6. ASSUME NEW e \in Exchanges, NEW latency \in Latencies, Answered(e, latency)
      PROVE  CacheInv'
  <2>1. pc' = "cache" /\ now' \in Nat
    BY <1>6 DEF Answered, NextLookup, Exchange, EnrichInv, TypeOK, IntelConstants
  <2>2. PICK q \in Clients, j \in Indicators : q = Provider /\ j = Indicator
    BY <1>6, HereIsLeft DEF Answered, Exchange, EnrichInv, TypeOK, PassedInv
  <2>3. CASE UNCHANGED <<table, paid>>
    BY <1>1, <2>1, <2>3
  <2>4. PICK at \in Nat : at = now'
    BY <2>1
  <2>. DEFINE row == [verdict |-> Answer(q, e), at |-> at, expires |-> at + TTL]
  <2>5. /\ row.at = at /\ row.expires = at + TTL
        /\ row.expires \in Int /\ row.expires <= row.expires
    BY DEF IntelConstants
  <2>6. \/ UNCHANGED <<table, paid>>
        \/ /\ table' = [table EXCEPT ![q][j] = row]
           /\ paid' = [paid EXCEPT ![q][j] = row.expires]
    BY <1>6, <2>2, <2>4 DEF Answered, Stored
  <2>. HIDE DEF row
  <2>7. CASE /\ table' = [table EXCEPT ![q][j] = row]
             /\ paid' = [paid EXCEPT ![q][j] = row.expires]
    <3>1. /\ paid \in [Clients -> [Indicators -> Int]]
          /\ table \in [Clients -> [Indicators -> Rows \cup {NoRow}]]
      BY DEF EnrichInv, CacheInv, TypeOK
    <3>2. paid' \in [Clients -> [Indicators -> Int]]
      BY <2>5, <2>7, <3>1
    <3>3. ASSUME NEW p \in Clients, NEW i \in Indicators
          PROVE  \/ table'[p][i] = table[p][i] /\ paid'[p][i] = paid[p][i]
                 \/ table'[p][i] = row /\ paid'[p][i] = row.expires
      BY <2>7, <3>1
    <3>4. QED
      BY <2>1, <2>5, <3>2, <3>3 DEF EnrichInv, CacheInv
  <2>8. QED
    BY <2>3, <2>6, <2>7
<1>7. QED
  BY <1>2, <1>3, <1>4, <1>5, <1>6 DEF Next, Request

\* A lookup that is over was about something that no other is about.
LEMMA LookupPasses ==
  ASSUME IntelConstants, EnrichInv, todo # {}, NEW answered, NextLookup(answered),
         answered = {} \/ \E r : answered = {r} /\ Of(r) = <<Indicator, Provider>>,
         UNCHANGED candidate
  PROVE  PassedInv'
<1>. DEFINE here == <<Indicator, Provider>>
<1>1. Here \in todo /\ todo \subseteq Lookups(candidate) /\ candidate \in Seq(Indicators)
  BY HereIsLeft DEF EnrichInv, TypeOK
<1>2. here = About(candidate, Here)
  BY DEF About, Indicator, Provider
<1>3. here \notin Passed(candidate, todo)
  <2>1. SUFFICES ASSUME NEW x \in Lookups(candidate) \ todo,
                        About(candidate, x) = About(candidate, Here)
                 PROVE  FALSE
    BY <1>2 DEF Passed
  <2>2. x = Here
    BY <1>1, <2>1, PlacesDiffer DEF About
  <2>3. QED
    BY <1>1, <2>2
<1>4. Passed(candidate, todo \ {Here}) = Passed(candidate, todo) \cup {here}
  BY <1>1, <1>2 DEF Passed
<1>5. /\ Passed(candidate, todo) = AnsweredBy(results) \cup missed
      /\ AnsweredBy(results) \cap missed = {}
      /\ \A r, s \in results : Of(r) = Of(s) => r = s
      /\ IsFiniteSet(results)
  BY DEF EnrichInv, PassedInv
<1>6. /\ todo' = todo \ {Here} /\ attempt' = 0 /\ pc' = "cache" /\ candidate' = candidate
      /\ results' = IF answered = {} THEN results ELSE results \cup answered
      /\ missed' = IF answered = {} THEN missed \cup {here} ELSE missed
  BY DEF NextLookup
<1>. HIDE DEF here
<1>7. CASE answered = {}
  <2>1. /\ Passed(candidate', todo') = AnsweredBy(results') \cup missed'
        /\ AnsweredBy(results') \cap missed' = {}
    BY <1>3, <1>4, <1>5, <1>6, <1>7
  <2>2. QED
    BY <1>5, <1>6, <1>7, <2>1 DEF PassedInv
<1>8. ASSUME NEW r, answered = {r}, Of(r) = here
      PROVE  PassedInv'
  <2>1. results' = results \cup {r} /\ missed' = missed
    BY <1>6, <1>8
  <2>2. AnsweredBy(results') = AnsweredBy(results) \cup {here}
    BY <1>8, <2>1 DEF AnsweredBy
  <2>3. /\ Passed(candidate', todo') = AnsweredBy(results') \cup missed'
        /\ AnsweredBy(results') \cap missed' = {}
    <3>1. Passed(candidate', todo') = Passed(candidate, todo) \cup {here}
      BY <1>4, <1>6
    <3>2. missed' = missed
      BY <2>1
    <3>3. QED
      BY <1>3, <1>5, <2>2, <3>1, <3>2
  <2>4. here \notin AnsweredBy(results)
    BY <1>3, <1>5
  <2>5. \A s, t \in results' : Of(s) = Of(t) => s = t
    BY <1>5, <1>8, <2>1, <2>4 DEF AnsweredBy
  <2>6. IsFiniteSet(results')
    BY <1>5, <2>1, FS_AddElement
  <2>7. QED
    BY <1>6, <2>3, <2>5, <2>6 DEF PassedInv
<1>9. QED
  BY <1>7, <1>8 DEF here

LEMMA PassedStep ==
  ASSUME IntelConstants, EnrichInv, [Next]_vars
  PROVE  PassedInv'
<1>1. ASSUME UNCHANGED <<candidate, todo, results, missed>>,
             pc' \in {"idle", "cache", "limit"} => attempt' = 0,
             pc' = "idle" => todo = {},
             pc' \in {"limit", "request", "backoff"} => todo # {}
      PROVE  PassedInv'
  BY <1>1 DEF EnrichInv, PassedInv
<1>2. CASE UNCHANGED vars
  BY <1>1, <1>2 DEF vars, EnrichInv, PassedInv
<1>3. ASSUME \/ \E seq \in Candidates : Enrich(seq)
             \/ Restart
      PROVE  PassedInv'
  <2>1. /\ todo' = Lookups(candidate') \/ (todo' = {} /\ candidate' = <<>>)
        /\ results' = {} /\ missed' = {} /\ attempt' = 0
        /\ pc' = "cache" \/ (pc' = "idle" /\ todo' = {})
    BY <1>3 DEF Enrich, Restart, EnrichInv, PassedInv
  <2>2. Lookups(<<>>) = {}
    BY DEF Lookups
  <2>3. Passed(candidate', todo') = {} /\ AnsweredBy(results') = {}
    BY <2>1, <2>2 DEF Passed, AnsweredBy
  <2>4. QED
    BY <2>1, <2>3, FS_EmptySet DEF PassedInv
<1>4. CASE CacheHit
  <2>1. PICK r : NextLookup({r}) /\ Of(r) = <<Indicator, Provider>>
    <3>1. NextLookup({Result(Row.verdict, Row.at)})
      BY <1>4 DEF CacheHit
    <3>2. Of(Result(Row.verdict, Row.at)) = <<Indicator, Provider>>
      BY DEF Result, Of
    <3>3. QED
      BY <3>1, <3>2
  <2>2. todo # {} /\ UNCHANGED candidate
    BY <1>4 DEF CacheHit
  <2>3. QED
    BY <2>1, <2>2, LookupPasses
<1>5. ASSUME NEW e \in Exchanges, NEW latency \in Latencies, Answered(e, latency)
      PROVE  PassedInv'
  <2>1. PICK r : NextLookup({r}) /\ Of(r) = <<Indicator, Provider>>
    <3>1. NextLookup({Result(Answer(Provider, e), now')})
      BY <1>5 DEF Answered
    <3>2. Of(Result(Answer(Provider, e), now')) = <<Indicator, Provider>>
      BY DEF Result, Of
    <3>3. QED
      BY <3>1, <3>2
  <2>2. todo # {} /\ UNCHANGED candidate
    BY <1>5 DEF Answered, Exchange, EnrichInv, PassedInv
  <2>3. QED
    BY <2>1, <2>2, LookupPasses
<1>6. ASSUME NEW e \in Exchanges, NEW latency \in Latencies, Fail(e, latency)
      PROVE  PassedInv'
  <2>1. NextLookup({}) /\ todo # {} /\ UNCHANGED candidate
    BY <1>6 DEF Fail, Exchange, EnrichInv, PassedInv
  <2>2. QED
    BY <2>1, LookupPasses
<1>7. CASE CacheMiss \/ RespectRateLimit \/ Backoff \/ Finish \/ Tick
  BY <1>1, <1>7 DEF CacheMiss, RespectRateLimit, Backoff, Finish, Tick, history,
     EnrichInv, PassedInv
<1>8. ASSUME NEW e \in Exchanges, NEW latency \in Latencies, Retry(e, latency)
      PROVE  PassedInv'
  BY <1>1, <1>8 DEF Retry, Exchange, history, EnrichInv, PassedInv
<1>9. QED
  BY <1>2, <1>3, <1>4, <1>5, <1>6, <1>7, <1>8 DEF Next, Request

LEMMA EnrichHolds == Spec => []EnrichInv
<1>1. Init => EnrichInv
  <2>. SUFFICES ASSUME Init PROVE EnrichInv
    OBVIOUS
  <2>2. Lookups(<<>>) = {}
    BY DEF Lookups
  <2>3. TypeOK
    <3>1. lastCall \in [Clients -> Nat \cup {Never}]
      BY DEF Init
    <3>2. table \in [Clients -> [Indicators -> Rows \cup {NoRow}]]
      BY DEF Init
    <3>3. 0 \in 0 .. MaxFailures
      BY IntelConstants DEF IntelConstants
    <3>4. <<>> \in Seq(Indicators)
      OBVIOUS
    <3>5. QED
      BY <2>2, <3>1, <3>2, <3>3, <3>4 DEF Init, TypeOK
  <2>4. GapInv
    BY DEF Init, GapInv, Never
  <2>5. CacheInv
    <3>1. \A p \in Clients, i \in Indicators :
              table[p][i] = NoRow /\ paid[p][i] = Never
      BY DEF Init
    <3>2. paid \in [Clients -> [Indicators -> Int]] /\ Never <= NoRow.expires
      BY DEF Init, NoRow, Never
    <3>3. QED
      BY <3>1, <3>2 DEF Init, CacheInv
  <2>6. PassedInv
    <3>1. Passed(<<>>, {}) = {} /\ AnsweredBy({}) = {}
      BY <2>2 DEF Passed, AnsweredBy
    <3>2. QED
      BY <3>1, FS_EmptySet DEF Init, PassedInv
  <2>7. QED
    BY <2>3, <2>4, <2>5, <2>6 DEF EnrichInv
<1>2. EnrichInv /\ [Next]_vars => EnrichInv'
  BY IntelConstants, TypeStep, GapStep, CacheStep, PassedStep DEF EnrichInv
<1>3. QED
  BY <1>1, <1>2, PTL DEF Spec

-----------------------------------------------------------------------------
(* What the enricher promises.                                             *)

\* Every variable keeps its type, for any exchanges, restarts and failures of the
\* cache: each lookup stays within its client's attempts (ThreatIntelEnricher and
\* the request loops of its clients).
THEOREM TypeCorrect == Spec => []TypeOK
<1>1. EnrichInv => TypeOK
  BY DEF EnrichInv
<1>2. QED
  BY <1>1, EnrichHolds, PTL

\* However long calls take and whatever becomes of them, two lookups of a client
\* in one process begin its gap apart (ThreatIntelEnricher._respect_rate_limit).
THEOREM GapsAreKept == Spec => LookupsSpaced
<1>1. EnrichInv /\ [Next]_vars =>
          [\A p \in Clients :
              began[p] # Never /\ began'[p] # began[p] /\ began'[p] # Never =>
                  began'[p] - began[p] >= Gap[p]]_vars
  <2>1. SUFFICES ASSUME EnrichInv, Next, NEW p \in Clients,
                        began[p] # Never, began'[p] # began[p], began'[p] # Never
                 PROVE  began'[p] - began[p] >= Gap[p]
    OBVIOUS
  <2>2. RespectRateLimit
    BY <2>1 DEF Next, Enrich, CacheHit, CacheMiss, Request, Answered, Retry, Fail, Backoff,
       Finish, Restart, Tick, history
  <2>3. began' = [began EXCEPT ![Provider] = now'] /\ p = Provider /\ began'[p] = now'
    BY <2>1, <2>2 DEF RespectRateLimit, EnrichInv, GapInv
  <2>4. /\ began[p] \in Nat /\ Gap[p] \in Nat /\ now \in Nat /\ began[p] <= now
        /\ lastCall[p] = IF Gap[p] = 0 THEN Never ELSE began[p]
    BY <2>1, IntelConstants DEF EnrichInv, TypeOK, GapInv, IntelConstants
  <2>5. now' = IF lastCall[p] = Never \/ now - lastCall[p] >= Gap[p]
               THEN now ELSE lastCall[p] + Gap[p]
    BY <2>2, <2>3 DEF RespectRateLimit
  <2>6. now' - began[p] >= Gap[p]
    BY <2>1, <2>4, <2>5
  <2>7. QED
    BY <2>3, <2>6
<1>2. QED
  BY <1>1, EnrichHolds, PTL DEF Spec, LookupsSpaced

\* An answer that was had, be it that nothing is known, is not asked for again
\* while it is good, across candidates, other failing lookups and restarts, unless
\* the cache failed (ThreatIntelEnricher._lookup_with_cache).
THEOREM NothingIsPaidTwice == Spec => NothingPaidTwice
<1>1. EnrichInv /\ [Next]_vars =>
          [pc = "limit" /\ pc' = "request" => paid[Provider][Indicator] <= now]_vars
  BY DEF EnrichInv, CacheInv
<1>2. QED
  BY <1>1, EnrichHolds, PTL DEF Spec, NothingPaidTwice

\* What is reported about an indicator was answered now, or within the lifetime of
\* a row (SQLiteStore.get_cached_enrichment and put_cached_enrichment).
THEOREM AnswersAreFresh == Spec => AnswersFresh
<1>1. EnrichInv /\ [Next]_vars =>
          [\A r \in results' \ results : r.at = now' \/ r.at + TTL > now']_vars
  <2>1. SUFFICES ASSUME EnrichInv, Next, NEW r \in results' \ results
                 PROVE  r.at = now' \/ r.at + TTL > now'
    BY DEF vars
  <2>2. CASE CacheHit
    <3>1. /\ r = Result(Row.verdict, Row.at) /\ Fresh(Row) /\ now' = now /\ todo # {}
      BY <2>1, <2>2 DEF CacheHit, NextLookup
    <3>2. PICK p \in Clients, i \in Indicators : p = Provider /\ i = Indicator
      BY <2>1, <3>1, HereIsLeft, IntelConstants DEF EnrichInv, TypeOK
    <3>3. table[p][i] # NoRow
      BY <2>1, <3>1, <3>2 DEF Fresh, Row, NoRow, Never, EnrichInv, TypeOK
    <3>4. table[p][i].expires = table[p][i].at + TTL
      BY <2>1, <3>3 DEF EnrichInv, CacheInv
    <3>5. r.at = table[p][i].at /\ table[p][i].expires > now
      BY <3>1, <3>2 DEF Result, Row, Fresh
    <3>6. QED
      BY <3>1, <3>4, <3>5
  <2>3. ASSUME NEW e \in Exchanges, NEW latency \in Latencies, Answered(e, latency)
        PROVE  r.at = now'
    <3>1. r = Result(Answer(Provider, e), now')
      BY <2>1, <2>3 DEF Answered, NextLookup
    <3>2. QED
      BY <3>1 DEF Result
  <2>4. ASSUME NEW e \in Exchanges, NEW latency \in Latencies,
               Retry(e, latency) \/ Fail(e, latency)
        PROVE  FALSE
    BY <2>1, <2>4 DEF Retry, Fail, NextLookup, history
  <2>5. QED
    BY <2>1, <2>2, <2>3, <2>4 DEF Next, Enrich, CacheMiss, RespectRateLimit, Request,
       Backoff, Finish, Restart, Tick, history
<1>2. QED
  BY <1>1, EnrichHolds, PTL DEF Spec, AnswersFresh

\* When a candidate is done, every client was asked about every indicator that it
\* supports and that may leave the house, once, and of each there is one answer or
\* one failure (ThreatIntelEnricher.enrich_indicators and _eligible_indicators).
THEOREM EachLookupIsMadeOnce == Spec => []EachLookupOnce
<1>1. EnrichInv => EachLookupOnce
  <2>1. SUFFICES ASSUME EnrichInv, pc = "idle" PROVE EachLookupOnce
    BY DEF EachLookupOnce
  <2>. DEFINE wanted == {x \in ToSet(candidate) \X Clients :
                          /\ Type[x[1]] \in Supports[x[2]]
                          /\ Type[x[1]] = "ip" => x[1] \in Global}
  <2>2. AnsweredBy(results) \cup missed = wanted
    BY <2>1, PlacesCover, IntelConstants DEF EnrichInv, TypeOK, PassedInv
  <2>3. AnsweredBy(results) \cap missed = {}
    BY <2>1 DEF EnrichInv, PassedInv
  <2>4. Cardinality(AnsweredBy(results)) = Cardinality(results)
    <3>. DEFINE of == [r \in results |-> Of(r)]
    <3>1. of \in Bijection(results, AnsweredBy(results))
      <4>1. of \in [results -> AnsweredBy(results)]
        BY DEF AnsweredBy
      <4>2. \A r, s \in results : of[r] = of[s] => r = s
        BY <2>1 DEF EnrichInv, PassedInv
      <4>3. \A t \in AnsweredBy(results) : \E r \in results : of[r] = t
        BY DEF AnsweredBy
      <4>4. QED
        BY <4>1, <4>2, <4>3 DEF Bijection, Injection, Surjection, IsInjective
    <3>2. ExistsBijection(results, AnsweredBy(results)) /\ IsFiniteSet(results)
      BY <2>1, <3>1 DEF ExistsBijection, EnrichInv, PassedInv
    <3>3. QED
      BY <3>2, FS_Bijection
  <2>5. AnsweredBy(results) = {<<r.indicator, r.provider>> : r \in results}
    BY DEF AnsweredBy, Of
  <2>6. QED
    BY <2>2, <2>3, <2>4, <2>5 DEF EachLookupOnce
<1>2. QED
  BY <1>1, EnrichHolds, PTL
=============================================================================
