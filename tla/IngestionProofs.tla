-------------------------- MODULE IngestionProofs --------------------------
(***************************************************************************)
(* Proofs about Ingestion for any documents, windows, limits, margins and  *)
(* batch sizes, any failing exchanges, kills and failing intakes and any   *)
(* number of them.                                                         *)
(***************************************************************************)
EXTENDS Ingestion, FiniteSetTheorems, SequenceTheorems, WellFoundedInduction, TLAPS

\* What a request relies on: the client's token is good for its answer to come,
\* and this cycle's credentials have not been rejected.
SessionInv ==
    /\ now \in Nat /\ token \in Int /\ attempt \in Nat /\ tries \in Nat
    /\ pc = "send" /\ request = "query" => token > now
    /\ rejections \in {0, 1}
    /\ pc # "idle" => rejections = 0

\* A document is in the hands of one push at a time, in one of its batches, and
\* of no push before it was taken.
Numbered ==
    /\ processed \in [Docs -> 0 .. 2] /\ collected \in [Results -> 0 .. 2]
    /\ toSend \in Seq(Results) /\ waiting \in Seq(Results)
OneEach ==
    /\ IsInjective(toSend) /\ IsInjective(waiting)
    /\ ToSet(toSend) \cap ToSet(waiting) = {}
    /\ toSend = <<>> => waiting = <<>>
    /\ pc # "push" => toSend = <<>>
TakenFirst == \A d \in Docs : d \in Unsent \/ collected[d] > 0 => processed[d] > 0
Repeated ==
    /\ \A d \in Results : collected[d] > Made(d) => d \in unheard
    /\ \A d \in Unsent : collected[d] > 0 /\ Made(d) < 2 => d \in unheard
Tracked ==
    \A d \in Docs : processed[d] > 0 => collected[d] > 0 \/ d \in given \/ d \in Unsent
PushInv == Numbered /\ OneEach /\ TakenFirst /\ Repeated /\ Tracked

-----------------------------------------------------------------------------
(* The session with a source.                                              *)

\* An error of authentication is the end of the cycle.
LEMMA AuthNotRetried ==
  ASSUME NEW e, NEW s, AuthFailure(e)
  PROVE  ~SourceRetries(s, e)
BY DEF AuthFailure, SourceRetries, ManagerRetries, SecurityOnionRetries,
   IndexerRetries, SplunkSearchRetries, Unanswered, TransientCodes

\* A set of n things has 2^n subsets, so a pause that doubles is a natural number.
LEMMA PauseIsNatural ==
  ASSUME NEW n \in Nat
  PROVE  2 ^ n \in Nat
<1>1. IsFiniteSet(1 .. n) /\ Cardinality(1 .. n) = IF 1 > n THEN 0 ELSE n - 1 + 1
  BY FS_Interval
<1>2. Cardinality(1 .. n) = n
  BY <1>1
<1>3. /\ IsFiniteSet(SUBSET (1 .. n))
      /\ Cardinality(SUBSET (1 .. n)) = 2 ^ Cardinality(1 .. n)
  BY <1>1, FS_SUBSET
<1>4. Cardinality(SUBSET (1 .. n)) \in Nat
  BY <1>3, FS_CardinalityType
<1>5. QED
  BY <1>2, <1>3, <1>4

LEMMA TimePasses ==
  ASSUME SessionInv, NEW time \in Nat, Passes(time)
  PROVE  now' \in Nat
BY DEF SessionInv, Passes

\* A token that is not asked for anew lasts longer than the moment.
LEMMA TokenLasts ==
  ASSUME PollingConstants, SessionInv, NEW at \in Nat, ~TokenNeeded(at)
  PROVE  token > at
BY DEF PollingConstants, SessionInv, TokenNeeded

\* After a failure the cycle is over, or tries again with a token that it checks.
LEMMA FailureKeepsSession ==
  ASSUME PollingConstants, SessionInv, NEW e, TryAgain(e) \/ GiveUp(e),
         UNCHANGED token
  PROVE  /\ now' \in Nat /\ attempt' \in Nat
         /\ pc' = "send" /\ request' = "query" => token' > now'
         /\ AuthFailure(e) => pc' = "idle"
<1>1. CASE TryAgain(e)
  <2>1. now' \in Nat /\ attempt' \in Nat
    <3>1. attempt \in Nat /\ attempt' = attempt + 1 /\ Passes(2 ^ attempt)
      BY <1>1 DEF TryAgain, SessionInv
    <3>2. QED
      BY <3>1, PauseIsNatural, TimePasses
  <2>2. pc' = "send" /\ request' = "query" => ~TokenNeeded(now')
    BY <1>1 DEF TryAgain, Ready, HasSession
  <2>3. PICK at \in Nat : at = now'
    BY <2>1
  <2>4. ~TokenNeeded(at) => token > at
    BY TokenLasts
  <2>5. ~AuthFailure(e)
    BY <1>1, AuthNotRetried DEF TryAgain
  <2>6. QED
    BY <2>1, <2>2, <2>3, <2>4, <2>5
<1>2. CASE GiveUp(e)
  BY <1>2 DEF GiveUp, CycleFails, SessionInv
<1>3. QED
  BY <1>1, <1>2

LEMMA SessionStep ==
  ASSUME PollingConstants, SessionInv, [Next]_vars
  PROVE  SessionInv'
<1>1. CASE UNCHANGED vars
  BY <1>1 DEF vars, pollingVars, pushVars, fetch, history, SessionInv
<1>2. CASE Begin /\ UNCHANGED pushVars
  BY <1>2 DEF Begin, Enter, SessionInv, pushVars
<1>3. CASE HasToken /\ UNCHANGED pushVars
  BY <1>3, TokenLasts DEF HasToken, server, taken, history, SessionInv, pushVars
<1>4. CASE Authenticate /\ UNCHANGED pushVars
  BY <1>4 DEF Authenticate, KnownEnd, Never, taken, history, SessionInv,
     PollingConstants, pushVars
<1>5. ASSUME NEW e \in Failures, AuthenticateFails(e), UNCHANGED pushVars
      PROVE  SessionInv'
  <2>1. TryAgain(e) \/ GiveUp(e)
    BY <1>5 DEF AuthenticateFails
  <2>2. /\ UNCHANGED <<token, tries>> /\ rejections = 0
        /\ rejections' = rejections + IF AuthFailure(e) THEN 1 ELSE 0
    BY <1>5 DEF AuthenticateFails, SessionInv, pushVars
  <2>3. QED
    BY <2>1, <2>2, FailureKeepsSession DEF SessionInv
<1>6. ASSUME NEW e \in Failures, Reauthenticate(e), UNCHANGED pushVars
      PROVE  SessionInv'
  BY <1>6 DEF Reauthenticate, history, SessionInv, pushVars
<1>7. ASSUME NEW e \in Failures, ExchangeFails(e), UNCHANGED pushVars
      PROVE  SessionInv'
  <2>1. TryAgain(e) \/ GiveUp(e)
    BY <1>7 DEF ExchangeFails
  <2>2. /\ UNCHANGED <<token, tries>> /\ rejections = 0
        /\ rejections' = rejections + IF AuthFailure(e) /\ ~HasSession THEN 1 ELSE 0
    BY <1>7 DEF ExchangeFails, SessionInv, pushVars
  <2>3. QED
    BY <2>1, <2>2, FailureKeepsSession DEF SessionInv
<1>8. CASE (GotAgents \/ JobCreated) /\ UNCHANGED pushVars
  BY <1>8 DEF GotAgents, JobCreated, Enter, Accepted, history, SessionInv, pushVars
<1>9. ASSUME \/ ReadFile \/ \E known \in BOOLEAN : GotResults(known)
             \/ \E place \in {"events", "data", "hits", "elsewhere"} : GotDocuments(place),
             UNCHANGED pushVars
      PROVE  SessionInv'
  <2>1. /\ pc' = "fetched" /\ pc = "send"
        /\ UNCHANGED <<now, token, attempt, tries, rejections>>
    BY <1>9 DEF ReadFile, GotResults, GotDocuments, Accepted, pushVars
  <2>2. QED
    BY <2>1 DEF SessionInv
<1>10. ASSUME NEW flag \in BOOLEAN, JobStatus(flag), UNCHANGED pushVars
       PROVE  SessionInv'
  <2>1. /\ pc = "send" /\ UNCHANGED <<token, tries, rejections>>
        /\ now' = now \/ Passes(1)
        /\ attempt' = 0
        /\ request' \in {"results", "status"} \/ pc' = "idle"
    BY <1>10 DEF JobStatus, Accepted, Enter, CycleFails, pushVars
  <2>2. now' \in Nat
    BY <2>1, TimePasses DEF SessionInv
  <2>3. QED
    BY <2>1, <2>2 DEF SessionInv
<1>11. CASE /\ JobEnds \/ SessionEnds \/ \E d \in Docs : Appears(d)
            /\ UNCHANGED pushVars
  BY <1>11 DEF JobEnds, SessionEnds, Appears, fetch, history, SessionInv, pushVars
<1>12. CASE Tick /\ UNCHANGED pushVars
  BY <1>12, TimePasses DEF Tick, fetch, history, SessionInv, pushVars
<1>13. ASSUME NEW docs \in SUBSET Docs, NEW returns \in BOOLEAN, Taken(docs, returns)
       PROVE  SessionInv'
  BY <1>13 DEF Taken, Take, Push, SessionInv
<1>14. CASE PostStep
  BY <1>14 DEF PostStep, Posted, pollingVars, fetch, history, SessionInv
<1>15. CASE Pushed
  BY <1>15 DEF Pushed, CycleReturns, history, SessionInv, pushVars
<1>16. CASE Killed
  BY <1>16 DEF Killed, Kill, PushKilled, NoToken, SessionInv
<1>17. ASSUME NEW e \in PushFailures, NEW arrived \in BOOLEAN, PostFailure(e, arrived)
       PROVE  SessionInv'
  <2>1. /\ Passes(IF RetriesPost(e) THEN 2 ^ tries ELSE 0)
        /\ tries' = tries + 1 \/ tries' = 0
        /\ pc = "push" /\ UNCHANGED <<pc, request, token, attempt, rejections>>
    BY <1>17 DEF PostFailure, PostFails, fetch, history
  <2>2. now' \in Nat
    BY <2>1, PauseIsNatural, TimePasses DEF SessionInv
  <2>3. QED
    BY <2>1, <2>2 DEF SessionInv
<1>18. QED
  BY <1>1, <1>2, <1>3, <1>4, <1>5, <1>6, <1>7, <1>8, <1>9, <1>10, <1>11, <1>12,
     <1>13, <1>14, <1>15, <1>16, <1>17
  DEF Next, PollingStep

LEMMA SessionHolds == Spec => []SessionInv
<1>1. Init => SessionInv
  BY DEF Init, PollingInit, PushInit, NoToken, SessionInv
<1>2. SessionInv /\ [Next]_vars => SessionInv'
  BY PollingConstants, SessionStep
<1>3. QED
  BY <1>1, <1>2, PTL DEF Spec

\* Security Onion is never sent a token that is over by its client's own account,
\* through pauses, new sessions and sessions that the server ends
\* (SecurityOnionClient._ensure_token and _token_is_expiring).
THEOREM TokensAreFresh == Spec => []NoExpiredTokenSent
<1>1. SessionInv => NoExpiredTokenSent
  BY DEF SessionInv, NoExpiredTokenSent
<1>2. QED
  BY <1>1, SessionHolds, PTL

\* In one cycle credentials are rejected at most once: no client of a source
\* repeats a request whose credentials were rejected (_is_retryable_error and the
\* retry loops of the clients).
THEOREM RejectedOnce == Spec => []CredentialsRejectedOnce
<1>1. SessionInv => CredentialsRejectedOnce
  BY DEF SessionInv, CredentialsRejectedOnce
<1>2. QED
  BY <1>1, SessionHolds, PTL

-----------------------------------------------------------------------------
(* The pushes of a cycle.                                                  *)

\* The sequence of a finite set has each of its elements once.
LEMMA SeqOfSet ==
  ASSUME NEW S, IsFiniteSet(S)
  PROVE  /\ SetToSeq(S) \in Seq(S) /\ IsInjective(SetToSeq(S))
         /\ ToSet(SetToSeq(S)) = S /\ Len(SetToSeq(S)) = Cardinality(S)
<1>. DEFINE n == Cardinality(S)
            s == SetToSeq(S)
<1>1. n \in Nat /\ ExistsBijection(1 .. n, S)
  BY FS_CardinalityType
<1>2. \E f \in [1 .. n -> S] : IsInjective(f)
  BY <1>1 DEF ExistsBijection, Bijection, Injection
<1>3. s \in [1 .. n -> S] /\ IsInjective(s)
  BY <1>2 DEF SetToSeq
<1>4. s \in Injection(1 .. n, S) /\ s \in Seq(S)
  BY <1>1, <1>3, SeqDef DEF Injection
<1>5. Cardinality(1 .. n) = n
  BY <1>1, FS_Interval
<1>6. s \in Surjection(1 .. n, S)
  BY <1>4, <1>5, FS_Injection
<1>7. ToSet(s) = S
  BY <1>3, <1>6 DEF Surjection, ToSet
<1>8. Len(s) = n
  <2>1. Len(s) \in Nat /\ DOMAIN s = 1 .. Len(s) /\ DOMAIN s = 1 .. n
    BY <1>3, <1>4, LenProperties
  <2>2. PICK m \in Nat : m = Len(s)
    BY <2>1
  <2>3. Cardinality(1 .. m) = m
    BY FS_Interval
  <2>4. QED
    BY <1>5, <2>1, <2>2, <2>3
<1>. QED
  BY <1>3, <1>4, <1>7, <1>8

\* A slice of a sequence has the elements between its ends.
LEMMA Slice ==
  ASSUME NEW S, NEW s \in Seq(S), NEW m \in Nat \ {0}, NEW n \in Nat, n <= Len(s)
  PROVE  /\ SubSeq(s, m, n) \in Seq(S)
         /\ ToSet(SubSeq(s, m, n)) = {s[i] : i \in m .. n}
         /\ IsInjective(s) => IsInjective(SubSeq(s, m, n))
<1>. DEFINE t == SubSeq(s, m, n)
            k == IF m <= n THEN n - m + 1 ELSE 0
<1>1. /\ Len(s) \in Nat /\ DOMAIN s = 1 .. Len(s)
      /\ \A i \in 1 .. Len(s) : s[i] \in S
  BY LenProperties, ElementOfSeq
<1>2. \A i \in m .. n : s[i] \in S
  BY <1>1
<1>3. /\ t \in Seq(S) /\ Len(t) = k
      /\ \A i \in 1 .. n - m + 1 : t[i] = s[m + i - 1]
  BY <1>2, SubSeqProperties
<1>. HIDE DEF t
<1>4. DOMAIN t = 1 .. k /\ k \in Nat
  BY <1>3, LenProperties
<1>5. \A i \in 1 .. k : m + i - 1 \in m .. n /\ t[i] = s[m + i - 1]
  BY <1>3
<1>6. \A j \in m .. n : j - m + 1 \in 1 .. k /\ t[j - m + 1] = s[j]
  <2>1. TAKE j \in m .. n
  <2>2. j - m + 1 \in 1 .. n - m + 1 /\ m + (j - m + 1) - 1 = j
    OBVIOUS
  <2>3. QED
    BY <1>3, <2>2
<1>. HIDE DEF k
<1>7. ToSet(t) = {s[i] : i \in m .. n}
  <2>1. ToSet(t) = {t[i] : i \in 1 .. k}
    BY <1>4 DEF ToSet
  <2>2. \A i \in 1 .. k : t[i] \in {s[j] : j \in m .. n}
    BY <1>5
  <2>3. \A j \in m .. n : s[j] \in {t[i] : i \in 1 .. k}
    BY <1>6
  <2>. QED
    BY <2>1, <2>2, <2>3
<1>8. ASSUME IsInjective(s), NEW i \in 1 .. k, NEW j \in 1 .. k, t[i] = t[j]
      PROVE  i = j
  <2>1. m + i - 1 \in 1 .. Len(s) /\ m + j - 1 \in 1 .. Len(s)
    BY <1>1, <1>5
  <2>2. m + i - 1 = m + j - 1
    BY <1>1, <1>5, <1>8, <2>1 DEF IsInjective
  <2>3. QED
    BY <1>4, <2>2
<1>. QED
  BY <1>3, <1>4, <1>7, <1>8 DEF IsInjective, t

\* A batch and what is left after it divide what there was.
LEMMA BatchDivides ==
  ASSUME PushConstants, toSend \in Seq(Results), IsInjective(toSend)
  PROVE  /\ AfterBatch \in Seq(Results) /\ IsInjective(AfterBatch)
         /\ ToSet(toSend) = ToSet(Batch) \cup ToSet(AfterBatch)
         /\ ToSet(Batch) \cap ToSet(AfterBatch) = {}
<1>. DEFINE n == Len(toSend)
            b == BatchSize
            k == IF n < b THEN n ELSE b
<1>1. n \in Nat /\ b \in Nat \ {0} /\ DOMAIN toSend = 1 .. n
  BY LenProperties DEF PushConstants
<1>2. /\ ToSet(Batch) = {toSend[i] : i \in 1 .. k}
      /\ AfterBatch \in Seq(Results) /\ IsInjective(AfterBatch)
      /\ ToSet(AfterBatch) = {toSend[i] : i \in b + 1 .. n}
  BY <1>1, Slice DEF Batch, AfterBatch
<1>3. ToSet(toSend) = {toSend[i] : i \in 1 .. n}
  BY <1>1 DEF ToSet
<1>4. \A i, j \in 1 .. n : toSend[i] = toSend[j] => i = j
  BY <1>1 DEF IsInjective
<1>. HIDE DEF n, b
<1>5. \A i \in 1 .. n : i \in 1 .. k \/ i \in b + 1 .. n
  BY <1>1
<1>6. /\ \A i \in 1 .. k : i \in 1 .. n
      /\ \A i \in b + 1 .. n : i \in 1 .. n /\ i \notin 1 .. k
  BY <1>1
<1>. HIDE DEF k
<1>7. ToSet(toSend) = ToSet(Batch) \cup ToSet(AfterBatch)
  BY <1>2, <1>3, <1>5, <1>6
<1>8. ToSet(Batch) \cap ToSet(AfterBatch) = {}
  BY <1>2, <1>4, <1>6
<1>. QED
  BY <1>2, <1>7, <1>8

LEMMA EmptyToSet ==
  ASSUME NEW S
  PROVE  ToSet(<<>>) = {} /\ IsInjective(<<>>) /\ <<>> \in Seq(S)
BY DEF ToSet, IsInjective

LEMMA GoesOnTo ==
  ASSUME NEW left \in Seq(Results), NEW next \in Seq(Results), GoesOn(left, next),
         IsInjective(left), IsInjective(next), ToSet(left) \cap ToSet(next) = {}
  PROVE  /\ toSend' \in Seq(Results) /\ waiting' \in Seq(Results)
         /\ IsInjective(toSend)' /\ IsInjective(waiting)'
         /\ ToSet(toSend') \cap ToSet(waiting') = {}
         /\ toSend' = <<>> => waiting' = <<>>
         /\ Unsent' = ToSet(left) \cup ToSet(next)
BY EmptyToSet DEF GoesOn, Unsent

\* What Collect makes of the number of times that an event was collected.
LEMMA CollectCounts ==
  ASSUME Numbered, NEW events, collected' = Collect(events)
  PROVE  /\ collected' \in [Results -> 0 .. 2]
         /\ \A d \in Results : d \notin ToSet(events) => collected'[d] = collected[d]
         /\ \A d \in Results : collected[d] > 0 => collected'[d] > 0
         /\ \A d \in Results : d \in ToSet(events) => collected'[d] > 0
         /\ \A d \in Results : collected'[d] > 1 => collected[d] > 0
<1>. DEFINE count(d) == IF d \in ToSet(events) /\ collected[d] < 2
                        THEN collected[d] + 1 ELSE collected[d]
<1>1. \A d \in Results : collected[d] \in 0 .. 2
  BY DEF Numbered
<1>2. collected' = [d \in Results |-> count(d)]
  BY DEF Collect
<1>3. \A d \in Results : /\ count(d) \in 0 .. 2
                         /\ d \notin ToSet(events) => count(d) = collected[d]
                         /\ collected[d] > 0 => count(d) > 0
                         /\ d \in ToSet(events) => count(d) > 0
                         /\ count(d) > 1 => collected[d] > 0
  BY <1>1
<1>. HIDE DEF count
<1>. QED
  BY <1>2, <1>3

LEMMA UnsentAreResults ==
  ASSUME Numbered PROVE ToSet(toSend) \subseteq Results /\ Unsent \subseteq Results
BY LenProperties, ElementOfSeq DEF Numbered, ToSet, Unsent

\* What is being sent was made, and nothing is counted more often than twice.
LEMMA UnsentAreMade ==
  ASSUME IngestionConstants, PushInv
  PROVE  /\ \A d \in Results : Made(d) \in 0 .. 2 /\ collected[d] \in 0 .. 2
         /\ \A d \in Unsent : Made(d) \in 1 .. 2 /\ d \in Results
<1>1. \A d \in Results : Made(d) \in 0 .. 2 /\ collected[d] \in 0 .. 2
  BY DEF IngestionConstants, PushInv, Numbered, Made
<1>2. \A d \in Unsent : d \in Results /\ (d = Incident \/ processed[d] > 0)
  BY UnsentAreResults DEF IngestionConstants, PushInv, TakenFirst
<1>3. QED
  BY <1>1, <1>2 DEF Made

\* A fetch leaves what is being sent alone, and no push is going on then.
LEMMA PollingKeepsPush ==
  ASSUME PollingStep
  PROVE  UNCHANGED processed /\ (pc' = pc \/ (pc # "push" /\ pc' # "push"))
<1>1. CASE Begin \/ HasToken \/ Authenticate
  BY <1>1 DEF Begin, HasToken, Authenticate, Enter, taken, history
<1>2. ASSUME NEW e \in Failures, AuthenticateFails(e) \/ Reauthenticate(e) \/ ExchangeFails(e)
      PROVE  /\ UNCHANGED processed /\ pc # "push" /\ pc' # "push"
  BY <1>2 DEF AuthenticateFails, Reauthenticate, ExchangeFails, TryAgain, GiveUp,
     CycleFails, Ready, taken, history
<1>3. CASE GotAgents \/ JobCreated
  BY <1>3 DEF GotAgents, JobCreated, Accepted, Enter, taken, history
<1>4. CASE \/ ReadFile \/ \E known \in BOOLEAN : GotResults(known)
           \/ \E place \in {"events", "data", "hits", "elsewhere"} : GotDocuments(place)
  BY <1>4 DEF ReadFile, GotResults, GotDocuments, Accepted
<1>5. CASE \E flag \in BOOLEAN : JobStatus(flag)
  BY <1>5 DEF JobStatus, Accepted, Enter, CycleFails, taken
<1>6. CASE JobEnds \/ SessionEnds \/ Tick \/ \E d \in Docs : Appears(d)
  BY <1>6 DEF JobEnds, SessionEnds, Tick, Appears, fetch, taken, history
<1>7. QED
  BY <1>1, <1>2, <1>3, <1>4, <1>5, <1>6 DEF PollingStep

\* What is taken is in no push's hands, and one more of it is to be sent.
LEMMA TakenKeepsPush ==
  ASSUME PushConstants, IngestionConstants, PushInv,
         NEW docs \in SUBSET Docs, NEW returns \in BOOLEAN, Taken(docs, returns)
  PROVE  PushInv'
<1>1. /\ pc = "fetched" /\ toSend = <<>> /\ waiting = <<>> /\ Unsent = {}
      /\ pc' = IF returns THEN "push" ELSE "idle"
  BY EmptyToSet DEF Taken, Take, PushInv, OneEach, Unsent
<1>2. \A d \in docs : processed[d] = 0 => collected[d] = 0
  BY <1>1 DEF PushInv, Numbered, TakenFirst, IngestionConstants
<1>3. /\ processed' \in [Docs -> 0 .. 2]
      /\ \A d \in docs : processed'[d] = IF processed[d] = 0 THEN 1 ELSE 2
      /\ \A d \in Docs : d \notin docs => processed'[d] = processed[d]
  <2>. DEFINE count(d) == IF d \in docs /\ processed[d] < 2 THEN processed[d] + 1
                                                          ELSE processed[d]
  <2>1. processed' = [d \in Docs |-> count(d)]
    BY DEF Taken, Take
  <2>2. \A d \in Docs : count(d) \in 0 .. 2
    BY DEF PushInv, Numbered
  <2>3. \A d \in Docs : count(d) = IF d \notin docs THEN processed[d]
                                    ELSE IF processed[d] = 0 THEN 1 ELSE 2
    BY DEF PushInv, Numbered
  <2>. HIDE DEF count
  <2>. QED
    BY <2>1, <2>2, <2>3
<1>4. \A d \in Results : /\ Made(d)' \in 0 .. 2 /\ Made(d) <= Made(d)'
                         /\ d \in docs => Made(d)' = 2 \/ processed[d] = 0
  BY <1>3, UnsentAreMade DEF Made, IngestionConstants, PushInv, Numbered
<1>5. CASE returns
  <2>. DEFINE incidents == IF docs = {} THEN <<>> ELSE <<Incident>>
  <2>1. Push(docs, incidents)
    BY <1>5 DEF Taken
  <2>2. /\ SetToSeq(docs) \in Seq(Results) /\ IsInjective(SetToSeq(docs))
        /\ ToSet(SetToSeq(docs)) = docs
    <3>1. docs \subseteq Results /\ IsFiniteSet(docs)
      BY FS_Subset DEF PushConstants, IngestionConstants
    <3>2. QED
      BY <3>1, SeqOfSet, SeqMonotonic
  <2>3. /\ incidents \in Seq(Results) /\ IsInjective(incidents)
        /\ ToSet(incidents) \subseteq {Incident}
    <3>1. Incident \in Results
      BY DEF PushConstants
    <3>2. /\ <<Incident>> \in Seq(Results) /\ IsInjective(<<Incident>>)
          /\ ToSet(<<Incident>>) = {Incident}
      BY <3>1 DEF ToSet, IsInjective
    <3>3. QED
      BY <3>2, EmptyToSet
  <2>. HIDE DEF incidents
  <2>4. docs \cap ToSet(incidents) = {}
    BY <2>3 DEF IngestionConstants
  <2>5. /\ toSend' \in Seq(Results) /\ waiting' \in Seq(Results)
        /\ IsInjective(toSend)' /\ IsInjective(waiting)'
        /\ ToSet(toSend') \cap ToSet(waiting') = {}
        /\ toSend' = <<>> => waiting' = <<>>
        /\ Unsent' = docs \cup ToSet(incidents)
    BY <2>1, <2>2, <2>3, <2>4, GoesOnTo DEF Push
  <2>6. /\ collected' \in [Results -> 0 .. 2] /\ collected'[Incident] = 0
        /\ \A d \in Results : d # Incident => collected'[d] = collected[d]
        /\ unheard' = unheard \ {Incident} /\ given' = given \ {Incident}
    BY <2>1 DEF Push, PushInv, Numbered, PushConstants
  <2>7. Numbered' /\ OneEach'
    BY <1>1, <1>3, <1>5, <2>5, <2>6 DEF Numbered, OneEach
  <2>8. \A d \in Docs : d # Incident /\ d \in Results /\ collected'[d] = collected[d]
    BY <2>6 DEF IngestionConstants
  <2>9. TakenFirst'
    BY <1>1, <1>3, <2>3, <2>5, <2>8 DEF TakenFirst, PushInv, Numbered
  <2>10. Repeated'
    <3>1. \A d \in Results : collected'[d] > Made(d)' => d \in unheard'
      <4>1. Made(Incident)' = 1
        BY DEF Made
      <4>2. \A d \in Results : d # Incident /\ collected'[d] > Made(d)' => d \in unheard'
        BY <1>4, <2>6, UnsentAreMade DEF PushInv, Repeated
      <4>3. QED
        BY <2>6, <4>1, <4>2
    <3>2. \A d \in Unsent' : collected'[d] > 0 /\ Made(d)' < 2 => d \in unheard'
      BY <1>2, <1>4, <2>3, <2>5, <2>6, <2>8
    <3>3. QED
      BY <3>1, <3>2 DEF Repeated
  <2>11. Tracked'
    BY <1>1, <1>3, <2>5, <2>6, <2>8 DEF Tracked, PushInv
  <2>. QED
    BY <2>7, <2>9, <2>10, <2>11 DEF PushInv
<1>6. CASE ~returns
  <2>1. given' = given \cup docs /\ UNCHANGED <<toSend, waiting, collected, unheard>>
    BY <1>6 DEF Taken
  <2>2. Unsent' = {}
    BY <1>1, <2>1, EmptyToSet DEF Unsent
  <2>3. Numbered' /\ OneEach'
    BY <1>1, <1>3, <1>6, <2>1, <2>2 DEF PushInv, Numbered, OneEach
  <2>4. Repeated'
    BY <1>4, <2>1, <2>2, UnsentAreMade DEF PushInv, Repeated
  <2>5. TakenFirst' /\ Tracked'
    BY <1>1, <1>3, <2>1, <2>2 DEF PushInv, Numbered, TakenFirst, Tracked
  <2>. QED
    BY <2>3, <2>4, <2>5 DEF PushInv
<1>7. QED
  BY <1>5, <1>6

LEMMA PostKeepsPush ==
  ASSUME PushConstants, IngestionConstants, PushInv, PostStep
  PROVE  PushInv'
<1>1. /\ pc = "push" /\ pc' = pc /\ UNCHANGED <<processed, unheard, given>>
      /\ collected' = Collect(Batch) /\ GoesOn(AfterBatch, waiting)
  BY DEF PostStep, Posted, pollingVars, fetch, history
<1>2. /\ AfterBatch \in Seq(Results) /\ IsInjective(AfterBatch)
      /\ ToSet(toSend) = ToSet(Batch) \cup ToSet(AfterBatch)
      /\ ToSet(Batch) \cap ToSet(AfterBatch) = {}
  BY BatchDivides DEF PushInv, Numbered, OneEach
<1>3. /\ toSend' \in Seq(Results) /\ waiting' \in Seq(Results)
      /\ IsInjective(toSend)' /\ IsInjective(waiting)'
      /\ ToSet(toSend') \cap ToSet(waiting') = {}
      /\ toSend' = <<>> => waiting' = <<>>
      /\ Unsent' = ToSet(AfterBatch) \cup ToSet(waiting)
  <2>1. /\ waiting \in Seq(Results) /\ IsInjective(waiting)
        /\ ToSet(AfterBatch) \cap ToSet(waiting) = {}
    BY <1>2 DEF PushInv, Numbered, OneEach
  <2>2. QED
    BY <1>1, <1>2, <2>1, GoesOnTo
<1>4. /\ Unsent = Unsent' \cup ToSet(Batch) /\ Unsent' \cap ToSet(Batch) = {}
      /\ Unsent \subseteq Results
  BY <1>2, <1>3, UnsentAreResults DEF Unsent, PushInv, OneEach
<1>5. /\ collected' \in [Results -> 0 .. 2]
      /\ \A d \in Results : d \notin ToSet(Batch) => collected'[d] = collected[d]
      /\ \A d \in Results : collected[d] > 0 => collected'[d] > 0
      /\ \A d \in Results : d \in ToSet(Batch) => collected'[d] > 0
      /\ \A d \in Results : collected'[d] > 1 => collected[d] > 0
  BY <1>1, CollectCounts DEF PushInv
<1>6. Numbered' /\ OneEach'
  BY <1>1, <1>3, <1>5 DEF PushInv, Numbered, OneEach
<1>7. TakenFirst'
  BY <1>1, <1>4, <1>5 DEF PushInv, TakenFirst, IngestionConstants
<1>8. Repeated'
  <2>1. \A d : Made(d)' = Made(d)
    BY <1>1 DEF Made
  <2>2. ASSUME NEW d \in Results, collected'[d] > Made(d)
        PROVE  d \in unheard
    <3>1. CASE d \in ToSet(Batch)
      <4>1. d \in Unsent /\ Made(d) \in 1 .. 2 /\ collected'[d] \in 0 .. 2
        BY <1>4, <1>5, <3>1, UnsentAreMade
      <4>2. QED
        BY <1>5, <2>2, <4>1 DEF PushInv, Repeated
    <3>2. CASE d \notin ToSet(Batch)
      BY <1>5, <2>2, <3>2 DEF PushInv, Repeated
    <3>3. QED
      BY <3>1, <3>2
  <2>3. \A d \in Unsent' : collected'[d] > 0 /\ Made(d) < 2 => d \in unheard
    BY <1>4, <1>5 DEF PushInv, Repeated
  <2>4. QED
    BY <1>1, <2>1, <2>2, <2>3 DEF Repeated
<1>9. Tracked'
  BY <1>1, <1>4, <1>5 DEF PushInv, Tracked, IngestionConstants
<1>10. QED
  BY <1>6, <1>7, <1>8, <1>9 DEF PushInv

LEMMA KillKeepsPush ==
  ASSUME PushInv, Killed
  PROVE  PushInv'
<1>1. /\ toSend' = <<>> /\ waiting' = <<>> /\ given' = given \cup Unsent
      /\ UNCHANGED <<processed, collected, unheard>>
  BY DEF Killed, Kill, PushKilled
<1>2. Unsent' = {}
  BY <1>1, EmptyToSet DEF Unsent
<1>3. QED
  BY <1>1, <1>2, EmptyToSet
  DEF PushInv, Numbered, OneEach, TakenFirst, Repeated, Tracked, Made

\* A batch that may have arrived is sent again only after an answer that left it open.
LEMMA FailureKeepsPush ==
  ASSUME PushConstants, IngestionConstants, PushInv,
         NEW e \in PushFailures, NEW arrived \in BOOLEAN, PostFailure(e, arrived)
  PROVE  PushInv'
<1>1. /\ pc = "push" /\ pc' = pc /\ UNCHANGED processed
      /\ arrived => MayBeTaken(e)
      /\ collected' = IF arrived THEN Collect(Batch) ELSE collected
      /\ unheard' = IF LeavesOpen(e) THEN unheard \cup ToSet(Batch) ELSE unheard
      /\ \A d : Made(d)' = Made(d)
  BY DEF PostFailure, PostFails, fetch, history, Made
<1>2. ToSet(Batch) \subseteq ToSet(toSend) /\ Unsent \subseteq Results
  BY BatchDivides, UnsentAreResults DEF PushInv, Numbered, OneEach
<1>3. /\ collected' \in [Results -> 0 .. 2]
      /\ \A d \in Results : d \notin ToSet(Batch) => collected'[d] = collected[d]
      /\ \A d \in Results : collected[d] > 0 => collected'[d] > 0
      /\ \A d \in Results : collected'[d] > 1 => collected[d] > 0
  <2>1. CASE arrived
    BY <1>1, <2>1, CollectCounts DEF PushInv
  <2>2. CASE ~arrived
    BY <1>1, <2>2 DEF PushInv, Numbered
  <2>3. QED
    BY <2>1, <2>2
<1>4. \A d \in Results : collected'[d] > Made(d)' => d \in unheard'
  <2>1. SUFFICES ASSUME NEW d \in Results, collected'[d] > Made(d)
                 PROVE  d \in unheard
    BY <1>1
  <2>2. CASE d \in ToSet(Batch)
    <3>1. d \in Unsent /\ Made(d) \in 1 .. 2 /\ collected'[d] \in 0 .. 2
      BY <1>2, <1>3, <2>2, UnsentAreMade DEF Unsent
    <3>2. QED
      BY <1>3, <2>1, <3>1 DEF PushInv, Repeated
  <2>3. CASE d \notin ToSet(Batch)
    BY <1>3, <2>1, <2>3 DEF PushInv, Repeated
  <2>4. QED
    BY <2>2, <2>3
<1>5. CASE RetriesPost(e)
  <2>1. UNCHANGED <<toSend, waiting, given>> /\ Unsent' = Unsent
    BY <1>5 DEF PostFailure, PostFails, Unsent
  <2>2. arrived => LeavesOpen(e)
    BY <1>1, <1>5 DEF RetriesPost, CollectorRetries, MayBeTaken, Unanswered, LeavesOpen
  <2>3. \A d \in Unsent : collected'[d] > 0 /\ Made(d) < 2 => d \in unheard'
    <3>1. SUFFICES ASSUME NEW d \in Unsent, collected'[d] > 0, Made(d) < 2
                   PROVE  d \in unheard'
      OBVIOUS
    <3>2. CASE arrived /\ d \in ToSet(Batch)
      BY <1>1, <2>2, <3>2
    <3>3. CASE ~arrived \/ d \notin ToSet(Batch)
      BY <1>1, <1>2, <1>3, <3>1, <3>3 DEF PushInv, Repeated
    <3>4. QED
      BY <3>2, <3>3
  <2>4. Numbered' /\ OneEach' /\ Repeated'
    BY <1>1, <1>3, <1>4, <2>1, <2>3 DEF PushInv, Numbered, OneEach, Repeated
  <2>5. TakenFirst'
    BY <1>1, <1>2, <1>3, <2>1 DEF PushInv, TakenFirst, IngestionConstants, Unsent
  <2>6. Tracked'
    BY <1>1, <1>3, <2>1 DEF PushInv, Tracked, IngestionConstants
  <2>7. QED
    BY <2>4, <2>5, <2>6 DEF PushInv
<1>6. CASE ~RetriesPost(e)
  <2>1. GoesOn(<<>>, waiting) /\ given' = given \cup ToSet(toSend)
    BY <1>6 DEF PostFailure, PostFails
  <2>2. /\ toSend' = waiting /\ waiting' = <<>> /\ Unsent' = ToSet(waiting)
        /\ Unsent = Unsent' \cup ToSet(toSend) /\ Unsent' \cap ToSet(toSend) = {}
    BY <2>1, EmptyToSet DEF GoesOn, Unsent, PushInv, OneEach
  <2>3. Numbered' /\ OneEach'
    BY <1>1, <1>3, <2>2, EmptyToSet DEF PushInv, Numbered, OneEach
  <2>4. Repeated'
    BY <1>1, <1>2, <1>3, <1>4, <2>2 DEF PushInv, Repeated
  <2>5. TakenFirst'
    BY <1>1, <1>2, <1>3, <2>2 DEF PushInv, TakenFirst, IngestionConstants, Unsent
  <2>6. Tracked'
    BY <1>1, <1>3, <2>1, <2>2 DEF PushInv, Tracked, IngestionConstants
  <2>7. QED
    BY <2>3, <2>4, <2>5, <2>6 DEF PushInv
<1>7. QED
  BY <1>5, <1>6

LEMMA PushStep ==
  ASSUME PollingConstants, PushConstants, IngestionConstants, PushInv, [Next]_vars
  PROVE  PushInv'
<1>1. ASSUME UNCHANGED pushVars, UNCHANGED processed,
             pc' = pc \/ (pc # "push" /\ pc' # "push")
      PROVE  PushInv'
  BY <1>1
  DEF pushVars, PushInv, Numbered, OneEach, TakenFirst, Repeated, Tracked, Unsent, Made
<1>2. CASE UNCHANGED vars
  BY <1>1, <1>2 DEF vars, pollingVars, fetch, history
<1>3. CASE PollingStep /\ UNCHANGED pushVars
  BY <1>1, <1>3, PollingKeepsPush
<1>4. CASE \E docs \in SUBSET Docs, returns \in BOOLEAN : Taken(docs, returns)
  BY <1>4, TakenKeepsPush
<1>5. CASE PostStep
  BY <1>5, PostKeepsPush
<1>6. CASE Pushed
  BY <1>6, EmptyToSet
  DEF Pushed, CycleReturns, history, pushVars, PushInv, Numbered, OneEach, TakenFirst,
      Repeated, Tracked, Unsent, Made
<1>7. CASE Killed
  BY <1>7, KillKeepsPush
<1>8. CASE \E e \in PushFailures, arrived \in BOOLEAN : PostFailure(e, arrived)
  BY <1>8, FailureKeepsPush
<1>9. QED
  BY <1>2, <1>3, <1>4, <1>5, <1>6, <1>7, <1>8 DEF Next

LEMMA PushHolds == Spec => []PushInv
<1>1. Init => PushInv
  BY EmptyToSet, IngestionConstants
  DEF Init, PollingInit, PushInit, PushInv, IngestionConstants, Numbered, OneEach, TakenFirst,
     Repeated, Tracked, Unsent, Made
<1>2. PushInv /\ [Next]_vars => PushInv'
  BY PollingConstants, PushConstants, IngestionConstants, PushStep
<1>3. QED
  BY <1>1, <1>2, PTL DEF Spec

\* The collector gets an event more often than it was made only if some exchange
\* about it has left its fate open: no batch, no other cycle and no error that the
\* collector reports sends an event again (SplunkClient._send and _post).
THEOREM CollectedAgainOnlyForCause == Spec => []CollectedAgainForCause
<1>1. PushInv => CollectedAgainForCause
  BY DEF PushInv, Repeated, CollectedAgainForCause
<1>2. QED
  BY <1>1, PushHolds, PTL

\* Between two cycles everything that was processed was collected or belongs to a
\* push that failed or a cycle that died: batches leave nothing out
\* (SplunkClient._send, _chunked and _with_splunk_push).
THEOREM DecidedOrGiven == Spec => []DecidedIsCollected
<1>1. PushInv => DecidedIsCollected
  BY EmptyToSet DEF PushInv, OneEach, Tracked, Unsent, DecidedIsCollected
<1>2. QED
  BY <1>1, PushHolds, PTL

-----------------------------------------------------------------------------
(* The windows of the cycles.                                              *)

\* Cycles that take all they find follow each other closely enough, or two in a
\* row went wrong.
Prompt == streak[2] = 2 \/ now - reached <= Lookback - Lag

Excused == streak[2] = 2 \/ lossy \/ spilled

Missing(d) == Time[d] # NoTime /\ WantedLevel(d) /\ processed[d] = 0

\* What is not indexed is not due, nothing is asked for but what was, and what is
\* only of what was taken there are keys.
CycleTyped ==
    /\ now \in Nat /\ reached \in Int /\ since \in Int
    /\ request # "none" => since + Lookback <= now
    /\ client \in Clients /\ processed \in [Docs -> 0 .. 2]
    /\ indexed \subseteq Docs /\ batch \subseteq Docs /\ cursor \subseteq indexed
    /\ streak \in [1 .. 2 -> 0 .. 2]
    /\ \A d \in Docs \ indexed : Time[d] # NoTime => Time[d] + Lag >= now
    /\ \A k \in seen : \A d \in Docs : k.key = d => processed[d] > 0
    /\ request = "agents" => client \in {"alerts_json", "indexer"}
    /\ request \in {"create", "status", "results"} => client = "splunk"
    /\ request = "read" \/ cursor # {} => client = "alerts_json"

\* What a job has found is all there was in its window, if it was not too much.
JobFound ==
    /\ job.found \subseteq Docs
    /\ request \in {"status", "results"} => job.state \in {"RUNNING", "DONE", "FAILED"}
    /\ request = "results" => job.state = "DONE"
    /\ /\ request \in {"status", "results"} /\ job.state = "DONE"
       /\ Cardinality({d \in indexed : InWindow(d, since)}) <= Limit
       => \A d \in Docs : InWindow(d, since) =>
             d \in job.found \/ Time[d] + Lag >= since + Lookback

\* What is missing may have stayed hidden from all that was asked, or is in hand.
Overlaps ==
    /\ \A d \in Docs : Missing(d) => Time[d] + Lag >= reached
    /\ \A d \in cursor : Missing(d) => pc = "fetched" /\ d \in batch
    /\ pc \notin {"idle", "push"} => since + Lag <= reached
    /\ pc = "fetched" => \A d \in Docs : Missing(d) =>
                            d \in batch \/ Time[d] + Lag >= since + Lookback

WindowInv == CycleTyped /\ JobFound /\ (Excused \/ Overlaps)

LEMMA DocsFinite ==
  /\ IsFiniteSet(Docs) /\ Docs \subseteq Nat
  /\ \A d \in Docs : Time[d] # NoTime => Time[d] \in Nat
  /\ Lookback \in Nat /\ Limit \in Nat /\ Lag \in Nat
BY PollingConstants, PushConstants, IngestionConstants, FS_Subset
DEF PollingConstants, PushConstants, IngestionConstants

\* Who is one of few of which all newer ones are is among the newest.
LEMMA NewestOfMany ==
  ASSUME NEW docs, docs \subseteq Docs, NEW few, few \subseteq docs,
         Cardinality(few) <= Limit, NEW at \in Int, NEW d \in few,
         {o \in docs : NewerThan(o, d, at)} \subseteq few
  PROVE  d \in Newest(docs, at)
<1>. DEFINE newer == {o \in docs : NewerThan(o, d, at)}
<1>. IsFiniteSet(few)
  BY DocsFinite, FS_Subset
<1>1. newer \subseteq few \ {d}
  <2>1. PICK n \in Int : n = TimeOf(Time[d], at)
    BY DocsFinite DEF TimeOf
  <2>2. ~(n > n) /\ ~(d > d)
    BY DocsFinite
  <2>3. ~NewerThan(d, d, at)
    BY <2>1, <2>2 DEF NewerThan
  <2>4. QED
    BY <2>3
<1>2. IsFiniteSet(few \ {d}) /\ Cardinality(few \ {d}) = Cardinality(few) - 1
  BY FS_RemoveElement
<1>3. Cardinality(newer) <= Cardinality(few \ {d}) /\ IsFiniteSet(newer)
  BY <1>1, <1>2, FS_Subset
<1>4. Cardinality(newer) \in Nat /\ Cardinality(few) \in Nat /\ Limit \in Nat
  BY <1>3, FS_CardinalityType, DocsFinite
<1>5. Cardinality(newer) < Limit
  BY <1>2, <1>3, <1>4
<1>6. QED
  BY <1>5 DEF Newest

\* Of a set that is not larger than the limit the newest are all of it.
LEMMA NewestOfFew ==
  ASSUME NEW docs, docs \subseteq Docs, Cardinality(docs) <= Limit, NEW at \in Int
  PROVE  Newest(docs, at) = docs
<1>1. ASSUME NEW d \in docs PROVE d \in Newest(docs, at)
  BY NewestOfMany
<1>2. QED
  BY <1>1 DEF Newest

\* Errors are not forgotten.
LEMMA StreakGrows ==
  ASSUME CycleTyped, NEW ok \in BOOLEAN
  PROVE  Streak(ok) \in [1 .. 2 -> 0 .. 2] /\ (streak[2] = 2 => Streak(ok)[2] = 2)
<1>1. PICK m \in 0 .. 2, n \in 0 .. 2 : m = streak[1] /\ n = streak[2]
  BY DEF CycleTyped
<1>2. \A i \in 0 .. 2 : <<i, n>> \in [1 .. 2 -> 0 .. 2] /\ <<i, n>>[2] = n
  OBVIOUS
<1>3. CASE ok
  BY <1>1, <1>2, <1>3 DEF Streak
<1>4. CASE ~ok
  <2>. DEFINE i == IF m = 2 THEN 2 ELSE m + 1  j == IF i > n THEN i ELSE n
  <2>1. Streak(ok) = <<i, j>>
    BY <1>1, <1>4 DEF Streak
  <2>2. i \in 0 .. 2 /\ j \in 0 .. 2 /\ (n = 2 => j = 2)
    OBVIOUS
  <2>. HIDE DEF i, j
  <2>3. QED
    BY <1>1, <2>1, <2>2
<1>5. QED
  BY <1>3, <1>4

\* Time passes up to when the hidden are due.
LEMMA HiddenAreDue ==
  ASSUME CycleTyped, UNCHANGED indexed, now' = now \/ \E t \in Nat : Passes(t)
  PROVE  /\ now' \in Nat /\ now <= now'
         /\ \A d \in Docs \ indexed : Time[d] # NoTime => Time[d] + Lag >= now'
<1>1. CASE now' = now
  BY <1>1 DEF CycleTyped
<1>2. ASSUME NEW t \in Nat, Passes(t) PROVE now' = now + t
  BY <1>2 DEF Passes
<1>3. QED
  BY <1>1, <1>2 DEF Passes, CycleTyped

\* A cycle that asks, waits, tries again or ends without anything in hand.
LEMMA WaitingKeepsWindow ==
  ASSUME WindowInv,
         UNCHANGED <<client, indexed, since, job, cursor, batch, seen, processed, lossy,
                     spilled, reached>>,
         now' = now \/ \E t \in Nat : Passes(t),
         streak' = streak \/ streak' = Streak(FALSE),
         request' \in {request, "none"},
         \/ pc' = pc
         \/ pc # "fetched" /\ pc' = "idle"
         \/ pc \in {"token", "send"} /\ pc' \in {"token", "send"}
  PROVE  WindowInv'
<1>1. /\ now' \in Nat /\ now <= now'
      /\ \A d \in Docs \ indexed : Time[d] # NoTime => Time[d] + Lag >= now'
  BY HiddenAreDue DEF WindowInv
<1>2. streak' \in [1 .. 2 -> 0 .. 2] /\ (streak[2] = 2 => streak'[2] = 2)
  BY StreakGrows DEF WindowInv, CycleTyped
<1>3. Lookback \in Nat
  BY DocsFinite
<1>4. CycleTyped'
  BY <1>1, <1>2, <1>3 DEF WindowInv, CycleTyped
<1>5. JobFound'
  BY DEF WindowInv, JobFound, InWindow
<1>6. Excused => Excused'
  BY <1>2 DEF Excused
<1>7. Overlaps => Overlaps'
  BY DEF Overlaps, Missing, WantedLevel
<1>8. QED
  BY <1>4, <1>5, <1>6, <1>7 DEF WindowInv

\* A window begins no later than what was asked before, by as much as a document may
\* stay hidden.
LEMMA WindowOpens ==
  ASSUME WindowInv, Prompt,
         UNCHANGED <<client, indexed, cursor, seen, processed, lossy, spilled, reached, now,
                     streak>>,
         since' = WindowStart, batch' = batch \/ batch' = {}, pc # "fetched",
         pc' \in {"token", "send"}, job'.found = {} \/ UNCHANGED job,
         \/ request' = "status" /\ job'.state = "RUNNING"
         \/ request' \notin {"status", "results"},
         request' = "agents" => client \in {"alerts_json", "indexer"},
         request' = "read" => client = "alerts_json",
         request' \in {"create", "status", "results"} => client = "splunk"
  PROVE  WindowInv'
<1>1. /\ now \in Nat /\ reached \in Int /\ Lookback \in Nat /\ Lag \in Nat
      /\ since' = now - Lookback
  BY DocsFinite DEF WindowInv, CycleTyped, WindowStart
<1>2. CycleTyped'
  BY <1>1 DEF WindowInv, CycleTyped
<1>3. JobFound'
  BY DEF WindowInv, JobFound
<1>4. Excused' <=> Excused
  BY DEF Excused
<1>5. ASSUME ~Excused, Overlaps PROVE Overlaps'
  <2>1. now - reached <= Lookback - Lag
    BY <1>5 DEF Prompt, Excused
  <2>2. (since + Lag <= reached)'
    BY <1>1, <2>1
  <2>3. /\ \A d \in Docs : Missing(d)' <=> Missing(d)
        /\ \A d \in cursor : ~Missing(d)
    BY <1>5 DEF Overlaps, Missing, WantedLevel
  <2>4. cursor \subseteq Docs
    BY DEF WindowInv, CycleTyped
  <2>5. QED
    BY <1>5, <2>2, <2>3, <2>4 DEF Overlaps
<1>6. QED
  BY <1>2, <1>3, <1>4, <1>5 DEF WindowInv

\* What a source is asked for is kept, if it was not too much at once.
LEMMA NotCrowded ==
  ASSUME CycleTyped, ~Crowded(since)
  PROVE  /\ \A docs \in SUBSET indexed :
               Cardinality({d \in docs : IsRecent(Time[d], since, now) /\ WantedLevel(d)})
                  <= Limit
         /\ filters => Cardinality({d \in indexed : InWindow(d, since) /\ WantedLevel(d)})
                           <= Limit
         /\ Cardinality({d \in indexed : InWindow(d, since) /\ (filters => WantedLevel(d))})
               <= Limit
<1>. DEFINE all == {d \in indexed : \/ Time[d] = NoTime
                                    \/ InWindow(d, since) /\ (filters => WantedLevel(d))}
<1>1. IsFiniteSet(all) /\ Cardinality(all) \in Nat /\ Limit \in Nat
  BY DocsFinite, FS_Subset, FS_CardinalityType DEF CycleTyped
<1>2. Cardinality(all) <= Limit
  BY <1>1 DEF Crowded
<1>3. ASSUME NEW docs, docs \subseteq all PROVE Cardinality(docs) <= Limit
  <2>1. IsFiniteSet(docs) /\ Cardinality(docs) <= Cardinality(all)
    BY <1>1, <1>3, FS_Subset
  <2>2. Cardinality(docs) \in Nat
    BY <2>1, FS_CardinalityType
  <2>3. QED
    BY <1>1, <1>2, <2>1, <2>2
<1>4. ASSUME NEW docs \in SUBSET indexed
      PROVE  {d \in docs : IsRecent(Time[d], since, now) /\ WantedLevel(d)} \subseteq all
  BY DEF IsRecent, TimeOf, InWindow
<1>5. /\ filters => {d \in indexed : InWindow(d, since) /\ WantedLevel(d)} \subseteq all
      /\ {d \in indexed : InWindow(d, since) /\ (filters => WantedLevel(d))} \subseteq all
  OBVIOUS
<1>. HIDE DEF all
<1>6. QED
  BY <1>3, <1>4, <1>5

\* What is fetched by one answer or one read.
LEMMA FetchKeepsWindow ==
  ASSUME WindowInv, pc' = "fetched", pc = "send", cursor' \in {cursor, indexed},
         UNCHANGED <<client, filters, indexed, since, job, now, request, seen, processed,
                     streak, spilled, reached>>,
         batch' \subseteq Docs, lossy => lossy',
         cursor' = cursor \/ request = "read",
         ~lossy' /\ ~Excused /\ Overlaps => \A d \in Docs : Missing(d) =>
                     /\ d \in batch' \/ Time[d] + Lag >= since + Lookback
                     /\ d \in cursor' => d \in batch'
  PROVE  WindowInv'
<1>1. CycleTyped'
  BY DEF WindowInv, CycleTyped
<1>2. JobFound'
  BY DEF WindowInv, JobFound, InWindow
<1>3. Excused => Excused'
  BY DEF Excused
<1>4. ASSUME ~Excused', ~Excused, Overlaps PROVE Overlaps'
  <2>1. ~lossy'
    BY <1>4 DEF Excused
  <2>2. cursor' \subseteq Docs
    BY DEF WindowInv, CycleTyped
  <2>3. \A d \in Docs : Missing(d)' <=> Missing(d)
    BY DEF Missing, WantedLevel
  <2>4. \A d \in Docs : Missing(d) =>
                     /\ d \in batch' \/ Time[d] + Lag >= since + Lookback
                     /\ d \in cursor' => d \in batch'
    BY <1>4, <2>1
  <2>5. QED
    BY <1>4, <2>2, <2>3, <2>4 DEF Overlaps
<1>5. QED
  BY <1>1, <1>2, <1>3, <1>4 DEF WindowInv

\* Of what is missing, what is indexed is in the window.
LEMMA MissingIsRecent ==
  ASSUME CycleTyped, Overlaps, pc = "send", request # "none", NEW d \in Docs,
         Missing(d)
  PROVE  /\ d \notin cursor /\ InWindow(d, since) /\ WantedLevel(d)
         /\ IsRecent(Time[d], since, now)
         /\ d \in indexed \/ Time[d] + Lag >= since + Lookback
<1>1. /\ Time[d] \in Nat /\ Lag \in Nat /\ Lookback \in Nat /\ Time[d] # NoTime
      /\ since \in Int /\ reached \in Int /\ now \in Nat
  BY DocsFinite DEF Missing, CycleTyped
<1>2. /\ Time[d] + Lag >= reached /\ since + Lag <= reached /\ d \notin cursor
  BY DEF Overlaps
<1>3. Time[d] >= since
  BY <1>1, <1>2
<1>4. d \notin indexed => Time[d] + Lag >= since + Lookback
  BY <1>1 DEF CycleTyped
<1>5. QED
  BY <1>1, <1>2, <1>3, <1>4 DEF Missing, InWindow, IsRecent, TimeOf

\* The servers that find too much have what is in the window among the newest.
LEMMA FoundInWindow ==
  ASSUME CycleTyped, ~Crowded(since), NEW d \in indexed, InWindow(d, since),
         WantedLevel(d)
  PROVE  d \in Found(since)
<1>. DEFINE matching == {o \in indexed : InWindow(o, since) /\ WantedLevel(o)}
           untimed == {o \in indexed : Time[o] = NoTime}
           few == {o \in indexed : InWindow(o, since) /\ (filters => WantedLevel(o))}
<1>1. now \in Int /\ since \in Int /\ indexed \subseteq Docs
  BY DEF CycleTyped
<1>2. CASE filters
  <2>1. Cardinality(matching) <= Limit
    BY <1>2, NotCrowded
  <2>2. d \in Newest(matching, now)
    BY <1>1, <2>1, NewestOfFew
  <2>3. QED
    BY <1>2, <2>2 DEF Found
<1>3. CASE ~filters
  <2>1. Cardinality(few) <= Limit
    BY NotCrowded
  <2>2. few \subseteq indexed \ untimed /\ d \in few
    BY DEF InWindow
  <2>3. ASSUME NEW o \in indexed \ untimed, NewerThan(o, d, now) PROVE o \in few
    <3>1. /\ Time[o] # NoTime /\ Time[d] # NoTime /\ Time[o] \in Nat /\ Time[d] \in Nat
          /\ Time[d] >= since
      BY <1>1, DocsFinite DEF InWindow
    <3>2. Time[o] >= Time[d]
      BY <2>3, <3>1 DEF NewerThan, TimeOf
    <3>3. QED
      BY <1>1, <1>3, <3>1, <3>2 DEF InWindow
  <2>4. d \in Newest(indexed \ untimed, now)
    <3>. HIDE DEF few, untimed
    <3>1. QED
      BY <1>1, <2>1, <2>2, <2>3, NewestOfMany
  <2>5. QED
    BY <1>3, <2>4 DEF Found
<1>4. QED
  BY <1>2, <1>3

\* What is fetched has all of it.
LEMMA KeptIsRecent ==
  ASSUME CycleTyped, ~Crowded(since), NEW docs, docs \subseteq indexed, NEW d \in docs,
         IsRecent(Time[d], since, now), WantedLevel(d)
  PROVE  d \in Kept(docs, since)
<1>. DEFINE kept == {o \in docs : IsRecent(Time[o], since, now) /\ WantedLevel(o)}
<1>1. Cardinality(kept) <= Limit /\ kept \subseteq Docs /\ now \in Int
  BY NotCrowded DEF CycleTyped
<1>2. kept = Newest(kept, now)
  BY <1>1, NewestOfFew
<1>3. QED
  BY <1>2 DEF Kept

LEMMA KeptAreDocs ==
  ASSUME CycleTyped, NEW docs, docs \subseteq Docs
  PROVE  Kept(docs, since) \subseteq docs
BY DEF Kept, Newest

LEMMA GotDocumentsKeepsWindow ==
  ASSUME WindowInv, NEW place, GotDocuments(place)
  PROVE  WindowInv'
<1>. DEFINE found == Found(since)
           list == ListOf(found)
           Place(name) == IF place = name THEN list ELSE NoList
           response == [events |-> Place("events"), data |-> Place("data"),
                        hits |-> Place("hits")]
           documents == IF client = "indexer" THEN ExtractHits(response, Docs)
                        ELSE ExtractEventDocuments(response, Docs)
<1>1. CycleTyped /\ pc = "send" /\ request \in {"search", "query"}
  BY DEF WindowInv, GotDocuments, Accepted
<1>2. documents \subseteq Docs
  BY DEF ExtractHits, ExtractEventDocuments, Usable
<1>3. batch' = Kept(documents, since)
  BY DEF GotDocuments
<1>4. batch' \subseteq Docs
  <2>. HIDE DEF documents
  <2>1. QED
    BY <1>1, <1>2, <1>3, KeptAreDocs
<1>5. found \subseteq indexed /\ indexed \subseteq Docs
  BY <1>1 DEF Found, Newest, CycleTyped
<1>6. CASE place \in KnownPlaces
  <2>1. documents = found \cap Docs
    <3>1. /\ NoList.list = FALSE /\ list.list = TRUE /\ list.items = found
      BY DEF NoList, ListOf
    <3>2. CASE client = "indexer"
      <4>1. place = "hits"
        BY <1>6, <3>2 DEF KnownPlaces
      <4>2. response.hits = list
        BY <4>1
      <4>3. QED
        BY <3>1, <3>2, <4>2 DEF ExtractHits, Usable
    <3>3. CASE client # "indexer"
      <4>1. place \in {"events", "data", "hits"}
        BY <1>6, <3>3 DEF KnownPlaces
      <4>2. /\ place = "events" => response.events = list
            /\ place = "data" => response.events = NoList /\ response.data = list
            /\ place = "hits" => /\ response.events = NoList /\ response.data = NoList
                                 /\ response.hits = list
        OBVIOUS
      <4>. HIDE DEF response, list, found
      <4>3. ExtractEventDocuments(response, Docs) = Usable(found, Docs)
        BY <3>1, <4>1, <4>2 DEF ExtractEventDocuments
      <4>4. QED
        BY <3>3, <4>3 DEF Usable
    <3>4. QED
      BY <3>2, <3>3
  <2>2. documents = found
    BY <1>5, <2>1
  <2>3. lossy' = (lossy \/ Crowded(since))
    BY <1>6 DEF GotDocuments
  <2>4. ASSUME ~lossy', Overlaps, NEW d \in Docs, Missing(d)
        PROVE  d \in batch' \/ Time[d] + Lag >= since + Lookback
    <3>. HIDE DEF found
    <3>1. ~Crowded(since)
      BY <2>3, <2>4
    <3>2. /\ InWindow(d, since) /\ WantedLevel(d) /\ IsRecent(Time[d], since, now)
          /\ d \in indexed \/ Time[d] + Lag >= since + Lookback
      BY <1>1, <2>4, MissingIsRecent
    <3>3. d \in indexed => d \in found
      BY <1>1, <3>1, <3>2, FoundInWindow DEF found
    <3>4. d \in indexed => d \in Kept(found, since)
      BY <1>1, <1>5, <3>1, <3>2, <3>3, KeptIsRecent
    <3>. HIDE DEF documents
    <3>5. QED
      BY <1>3, <2>2, <3>2, <3>4
  <2>5. Overlaps => \A d \in cursor : ~Missing(d)
    BY <1>1 DEF Overlaps
  <2>6. cursor \subseteq Docs
    BY <1>1 DEF CycleTyped
  <2>7. ~lossy' /\ Overlaps => \A d \in Docs : Missing(d) =>
                     /\ d \in batch' \/ Time[d] + Lag >= since + Lookback
                     /\ d \in cursor => d \in batch'
    BY <2>4, <2>5, <2>6
  <2>8. /\ UNCHANGED <<client, filters, indexed, since, job, now, request, seen, processed,
                       streak, spilled, reached, cursor>>
        /\ pc' = "fetched"
    BY DEF GotDocuments, server
  <2>. HIDE DEF found, documents
  <2>9. QED
    BY <1>1, <1>4, <2>3, <2>7, <2>8, FetchKeepsWindow
<1>7. CASE place \notin KnownPlaces
  <2>1. lossy' = TRUE
    BY <1>7 DEF GotDocuments
  <2>2. /\ UNCHANGED <<client, filters, indexed, since, job, now, request, seen, processed,
                       streak, spilled, reached, cursor>>
        /\ pc' = "fetched"
    BY DEF GotDocuments, server
  <2>3. QED
    BY <1>1, <1>4, <2>1, <2>2, FetchKeepsWindow
<1>8. QED
  BY <1>6, <1>7

LEMMA ReadFileKeepsWindow ==
  ASSUME WindowInv, ReadFile
  PROVE  WindowInv'
<1>1. CycleTyped /\ pc = "send" /\ request = "read" /\ indexed \subseteq Docs
  BY DEF WindowInv, ReadFile, CycleTyped
<1>2. /\ UNCHANGED <<client, filters, indexed, since, job, now, request, seen, processed,
                     streak, spilled, reached>>
      /\ pc' = "fetched" /\ cursor' = indexed /\ lossy' = (lossy \/ Crowded(since))
      /\ batch' = Kept(indexed \ cursor, since)
  BY DEF ReadFile, server
<1>3. ASSUME ~lossy', Overlaps, NEW d \in Docs, Missing(d)
      PROVE  d \in batch' \/ (d \notin indexed /\ Time[d] + Lag >= since + Lookback)
  <2>1. ~Crowded(since)
    BY <1>2, <1>3
  <2>2. /\ InWindow(d, since) /\ WantedLevel(d) /\ IsRecent(Time[d], since, now)
        /\ d \in indexed \/ Time[d] + Lag >= since + Lookback
        /\ d \notin cursor
    BY <1>1, <1>3, MissingIsRecent
  <2>3. d \in indexed => d \in Kept(indexed \ cursor, since)
    BY <1>1, <2>1, <2>2, KeptIsRecent
  <2>4. QED
    BY <1>2, <2>2, <2>3
<1>4. batch' \subseteq Docs
  BY <1>1, <1>2, KeptAreDocs
<1>5. QED
  BY <1>1, <1>2, <1>3, <1>4, FetchKeepsWindow

LEMMA ResultsKeepWindow ==
  ASSUME WindowInv, NEW known \in BOOLEAN, GotResults(known)
  PROVE  WindowInv'
<1>1. /\ CycleTyped /\ pc = "send" /\ request = "results" /\ JobFound
      /\ client = "splunk" /\ job.found \subseteq Docs
  BY DEF WindowInv, GotResults, CycleTyped, Accepted, JobFound
<1>2. /\ UNCHANGED <<client, filters, indexed, since, job, now, request, seen, processed,
                     streak, spilled, reached, cursor>>
      /\ pc' = "fetched" /\ lossy' = IF known THEN lossy \/ Crowded(since) ELSE TRUE
      /\ batch' = ExtractResultRows(
            [events |-> IF known THEN ListOf(job.found) ELSE NoList], Docs)
  BY DEF GotResults, server
<1>3. batch' \subseteq Docs /\ (known => batch' = job.found)
  BY <1>1, <1>2 DEF ExtractResultRows, ListOf, NoList, Usable
<1>4. ASSUME ~lossy', Overlaps, NEW d \in Docs, Missing(d)
      PROVE  d \in batch' \/ Time[d] + Lag >= since + Lookback
  <2>1. known /\ ~Crowded(since)
    BY <1>2, <1>4
  <2>2. InWindow(d, since)
    BY <1>1, <1>4, MissingIsRecent
  <2>3. \A o : WantedLevel(o)
    BY <1>1 DEF WantedLevel
  <2>4. {o \in indexed : InWindow(o, since)}
          = {o \in indexed : InWindow(o, since) /\ (filters => WantedLevel(o))}
    BY <2>3
  <2>5. Cardinality({o \in indexed : InWindow(o, since)}) <= Limit
    BY <1>1, <2>1, <2>4, NotCrowded
  <2>6. QED
    BY <1>1, <1>3, <2>1, <2>2, <2>5 DEF JobFound
<1>5. Overlaps => \A d \in cursor : ~Missing(d)
  BY <1>1 DEF Overlaps
<1>6. QED
  BY <1>1, <1>2, <1>3, <1>4, <1>5, FetchKeepsWindow

LEMMA JobEndKeepsWindow ==
  ASSUME WindowInv, JobEnds
  PROVE  WindowInv'
<1>. DEFINE there == {d \in indexed : InWindow(d, since)}
<1>1. /\ CycleTyped /\ JobFound /\ now \in Nat /\ indexed \subseteq Docs /\ since \in Int
      /\ Lookback \in Nat
  BY DocsFinite DEF WindowInv, CycleTyped
<1>2. UNCHANGED <<client, filters, indexed, since, now, request, pc, cursor, batch, seen,
                  processed, streak, lossy, spilled, reached>>
  BY DEF JobEnds, fetch, taken, history
<1>3. CycleTyped'
  BY <1>2 DEF WindowInv, CycleTyped
<1>4. JobFound'
  <2>1. CASE job' = [state |-> "DONE", found |-> Newest(there, now)]
    <3>1. job'.found \subseteq Docs /\ job'.found = Newest(there, now) /\ job'.state = "DONE"
      BY <1>1, <2>1 DEF Newest
    <3>2. ASSUME request \in {"status", "results"}, Cardinality(there) <= Limit,
                 NEW d \in Docs, InWindow(d, since)
          PROVE  d \in job'.found \/ Time[d] + Lag >= since + Lookback
      <4>1. Newest(there, now) = there
        BY <1>1, <3>2, NewestOfFew
      <4>2. since + Lookback <= now
        BY <1>1, <3>2 DEF CycleTyped
      <4>3. Time[d] # NoTime /\ Time[d] \in Nat /\ Lag \in Nat
        BY <3>2, DocsFinite DEF InWindow
      <4>4. d \notin indexed => Time[d] + Lag >= now
        BY <1>1, <4>3 DEF CycleTyped
      <4>5. QED
        BY <1>1, <3>1, <3>2, <4>1, <4>2, <4>3, <4>4
    <3>3. {d \in indexed' : InWindow(d, since)'} = there
      BY <1>2 DEF InWindow
    <3>4. \A d \in Docs : InWindow(d, since)' <=> InWindow(d, since)
      BY <1>2 DEF InWindow
    <3>. HIDE DEF there
    <3>5. QED
      BY <1>2, <3>1, <3>2, <3>3, <3>4 DEF JobFound
  <2>2. CASE job' = [state |-> "FAILED", found |-> {}]
    <3>1. job'.state = "FAILED" /\ job'.found = {} /\ job.state = "RUNNING"
      BY <2>2 DEF JobEnds
    <3>2. request # "results"
      BY <1>1, <3>1 DEF JobFound
    <3>3. QED
      BY <1>2, <3>1, <3>2 DEF JobFound
  <2>3. QED
    BY <2>1, <2>2 DEF JobEnds
<1>5. (Excused' <=> Excused) /\ (Overlaps => Overlaps')
  BY <1>2 DEF Excused, Overlaps, Missing, WantedLevel
<1>6. QED
  BY <1>3, <1>4, <1>5 DEF WindowInv

LEMMA AppearsKeepsWindow ==
  ASSUME WindowInv, NEW new \in Docs, Appears(new)
  PROVE  WindowInv'
<1>. DEFINE there == {d \in indexed : InWindow(d, since)}
           thereNow == {d \in indexed' : InWindow(d, since)}
<1>1. /\ UNCHANGED <<client, filters, job, since, now, request, pc, cursor, batch, seen,
                     processed, streak, lossy, spilled, reached>>
      /\ indexed' = indexed \cup {new}
  BY DEF Appears, fetch, taken, history
<1>2. CycleTyped'
  BY <1>1 DEF WindowInv, CycleTyped
<1>3. Cardinality(thereNow) <= Limit => Cardinality(there) <= Limit
  <2>1. indexed \subseteq Docs
    BY DEF WindowInv, CycleTyped
  <2>2. there \subseteq thereNow /\ IsFiniteSet(thereNow) /\ Limit \in Nat
    <3>1. thereNow \subseteq Docs /\ there \subseteq thereNow
      BY <1>1, <2>1
    <3>. HIDE DEF there, thereNow
    <3>2. QED
      BY <3>1, DocsFinite, FS_Subset
  <2>3. IsFiniteSet(there) /\ Cardinality(there) <= Cardinality(thereNow)
    BY <2>2, FS_Subset
  <2>4. Cardinality(there) \in Nat /\ Cardinality(thereNow) \in Nat
    BY <2>2, <2>3, FS_CardinalityType
  <2>5. QED
    BY <2>2, <2>3, <2>4
<1>4. {d \in indexed' : InWindow(d, since)'} = thereNow
  BY <1>1 DEF InWindow
<1>5. \A d \in Docs : InWindow(d, since)' <=> InWindow(d, since)
  BY <1>1 DEF InWindow
<1>6. JobFound'
  <2>. HIDE DEF thereNow
  <2>1. QED
    BY <1>1, <1>3, <1>4, <1>5 DEF WindowInv, JobFound
<1>7. (Excused' <=> Excused) /\ (Overlaps => Overlaps')
  BY <1>1 DEF Excused, Overlaps, Missing, WantedLevel
<1>8. QED
  BY <1>2, <1>6, <1>7 DEF WindowInv

LEMMA TakeKeepsWindow ==
  ASSUME WindowInv, NEW docs \in SUBSET Docs, NEW returns \in BOOLEAN, Take(docs, returns)
  PROVE  WindowInv'
<1>1. /\ UNCHANGED <<client, filters, indexed, job, since, now, request, cursor, batch,
                     lossy>>
      /\ pc = "fetched" /\ pc' \in {"push", "idle"} /\ docs \subseteq Fresh
      /\ seen' = {k \in seen : \A d \in docs : k.key # d} \cup {Key(d) : d \in docs}
      /\ streak' = Streak(docs = Fresh)
      /\ spilled' = (spilled \/ (client = "alerts_json" /\ docs # Fresh))
      /\ reached' = IF docs = Fresh THEN since + Lookback ELSE reached
      /\ processed' = [d \in Docs |-> IF d \in docs /\ processed[d] < 2
                                      THEN processed[d] + 1 ELSE processed[d]]
  BY DEF Take, server, Id
<1>2. CycleTyped
  BY DEF WindowInv
<1>3. \A d \in Docs : /\ processed'[d] \in 0 .. 2
                      /\ processed'[d] > 0 <=> processed[d] > 0 \/ d \in docs
  <2>1. \A d \in Docs : processed[d] \in 0 .. 2
    BY <1>2 DEF CycleTyped
  <2>2. QED
    BY <1>1, <2>1
<1>4. processed' \in [Docs -> 0 .. 2]
  BY <1>1, <1>3
<1>5. streak' \in [1 .. 2 -> 0 .. 2] /\ (streak[2] = 2 => streak'[2] = 2)
  BY <1>1, <1>2, StreakGrows
<1>6. reached' \in Int
  BY <1>1, <1>2, DocsFinite DEF CycleTyped
<1>7. CycleTyped'
  <2>1. \A k \in seen' : \A d \in Docs : k.key = d => processed'[d] > 0
    BY <1>1, <1>2, <1>3 DEF CycleTyped, Key, Id
  <2>2. QED
    BY <1>1, <1>2, <1>4, <1>5, <1>6, <2>1 DEF CycleTyped
<1>8. JobFound'
  BY <1>1 DEF WindowInv, JobFound, InWindow
<1>9. Excused => Excused'
  BY <1>1, <1>5 DEF Excused
<1>10. \A d \in Docs : Missing(d)' => Missing(d) /\ d \notin docs
  BY <1>1, <1>2, <1>3 DEF Missing, WantedLevel, CycleTyped
<1>11. \A d \in Docs : Missing(d) => \A k \in seen : k.key # d
  BY <1>2 DEF Missing, CycleTyped
<1>12. ASSUME ~Excused', Overlaps PROVE Overlaps'
  <2>1. CASE docs = Fresh
    <3>1. \A d \in Docs : Missing(d)' => d \notin batch
      BY <1>10, <1>11, <2>1 DEF Fresh, Id
    <3>2. \A d \in Docs : Missing(d)' => Time[d] + Lag >= reached'
      BY <1>1, <1>10, <1>12, <2>1, <3>1 DEF Overlaps
    <3>3. \A d \in cursor : ~Missing(d)'
      <4>1. cursor \subseteq Docs
        BY <1>2 DEF CycleTyped
      <4>2. QED
        BY <1>10, <1>12, <3>1, <4>1 DEF Overlaps
    <3>4. QED
      BY <1>1, <3>2, <3>3 DEF Overlaps
  <2>2. CASE docs # Fresh
    <3>1. client # "alerts_json"
      BY <1>1, <1>12, <2>2 DEF Excused
    <3>2. cursor = {}
      BY <1>2, <3>1 DEF CycleTyped
    <3>3. QED
      BY <1>1, <1>10, <1>12, <2>2, <3>2 DEF Overlaps
  <2>3. QED
    BY <2>1, <2>2
<1>13. QED
  BY <1>7, <1>8, <1>9, <1>12 DEF WindowInv

LEMMA KillKeepsWindow ==
  ASSUME WindowInv, Kill
  PROVE  WindowInv'
<1>1. /\ UNCHANGED <<client, filters, indexed, job, since, now, cursor, batch, seen,
                     processed, lossy, reached>>
      /\ pc' = "idle" /\ request' = "none" /\ streak' \in {streak, Streak(FALSE)}
      /\ spilled' = (spilled \/ (client = "alerts_json" /\ pc = "fetched" /\ Fresh # {}))
  BY DEF Kill, server, taken
<1>2. CycleTyped
  BY DEF WindowInv
<1>3. streak' \in [1 .. 2 -> 0 .. 2] /\ (streak[2] = 2 => streak'[2] = 2)
  BY <1>1, <1>2, StreakGrows DEF CycleTyped
<1>4. CycleTyped'
  BY <1>1, <1>2, <1>3 DEF CycleTyped
<1>5. JobFound'
  BY <1>1 DEF WindowInv, JobFound
<1>6. Excused => Excused'
  BY <1>1, <1>3 DEF Excused
<1>7. \A d \in Docs : Missing(d)' <=> Missing(d)
  BY <1>1 DEF Missing, WantedLevel
<1>8. ASSUME ~Excused', Overlaps PROVE \A d \in cursor : ~Missing(d)
  <2>1. SUFFICES ASSUME NEW d \in cursor, Missing(d) PROVE FALSE
    OBVIOUS
  <2>2. pc = "fetched" /\ d \in batch /\ client = "alerts_json"
    BY <1>2, <1>8, <2>1 DEF Overlaps, CycleTyped
  <2>3. d \in Docs /\ processed[d] = 0
    BY <1>2, <2>1 DEF CycleTyped, Missing
  <2>4. d \in Fresh
    BY <1>2, <2>2, <2>3 DEF Fresh, Id, CycleTyped
  <2>5. QED
    BY <1>1, <1>8, <2>2, <2>4 DEF Excused
<1>9. ASSUME ~Excused', Overlaps PROVE Overlaps'
  <2>1. cursor \subseteq Docs
    BY <1>2 DEF CycleTyped
  <2>2. QED
    BY <1>1, <1>7, <1>8, <1>9, <2>1 DEF Overlaps
<1>10. QED
  BY <1>4, <1>5, <1>6, <1>9 DEF WindowInv

\* Of the steps of the fetch.
LEMMA FetchingKeepsWindow ==
  ASSUME WindowInv, SessionInv, Prompt, PollingStep
  PROVE  WindowInv'
<1>1. ASSUME NEW e \in Failures, TryAgain(e) \/ GiveUp(e), pc \in {"token", "send"},
             UNCHANGED <<client, server, since, taken, processed, lossy, spilled, reached>>
      PROVE  WindowInv'
  <2>1. CASE TryAgain(e)
    <3>1. attempt \in Nat /\ Passes(2 ^ attempt) /\ UNCHANGED <<request, streak>>
      BY <2>1 DEF SessionInv, TryAgain
    <3>2. pc' \in {"token", "send"}
      BY <2>1 DEF TryAgain, Ready
    <3>3. QED
      BY <1>1, <3>1, <3>2, PauseIsNatural, WaitingKeepsWindow DEF server, taken
  <2>2. CASE GiveUp(e)
    BY <1>1, <2>2, WaitingKeepsWindow DEF server, taken, GiveUp, CycleFails
  <2>3. QED
    BY <1>1, <2>1, <2>2
<1>2. CASE Begin
  <2>1. /\ client \in {"alerts_json", "indexer"} => request' = "agents"
        /\ client = "security_onion" => request' = "query"
        /\ client = "splunk" => request' = "create"
        /\ pc' \in {"token", "send"}
    BY <1>2 DEF Begin, Enter
  <2>2. client \in {"alerts_json", "indexer", "security_onion", "splunk"}
    BY PollingConstants DEF PollingConstants, WindowInv, CycleTyped
  <2>3. QED
    BY <1>2, <2>1, <2>2, WindowOpens DEF Begin, NoJob
<1>3. CASE HasToken
  BY <1>3, WaitingKeepsWindow DEF HasToken, server, taken, history
<1>4. CASE Authenticate
  BY <1>4, WaitingKeepsWindow DEF Authenticate, taken, history
<1>5. ASSUME NEW e \in Failures, AuthenticateFails(e) PROVE WindowInv'
  BY <1>1, <1>5 DEF AuthenticateFails
<1>6. ASSUME NEW e \in Failures, Reauthenticate(e) PROVE WindowInv'
  BY <1>6, WaitingKeepsWindow DEF Reauthenticate, server, taken, history
<1>7. ASSUME NEW e \in Failures, ExchangeFails(e) PROVE WindowInv'
  BY <1>1, <1>7 DEF ExchangeFails
<1>8. CASE GotAgents
  BY <1>8, WindowOpens
  DEF GotAgents, Enter, Accepted, server, history, WindowInv, CycleTyped
<1>9. CASE JobCreated
  BY <1>9, WindowOpens
  DEF JobCreated, Enter, Accepted, taken, history, WindowInv, CycleTyped
<1>10. ASSUME NEW flag \in BOOLEAN, JobStatus(flag) PROVE WindowInv'
  <2>1. /\ UNCHANGED <<client, server, since, taken, processed, lossy, spilled, reached>>
        /\ request = "status" /\ pc = "send" /\ CycleTyped /\ JobFound
    BY <1>10 DEF JobStatus, Accepted, WindowInv
  <2>2. CASE ReadsResults(Content(flag)) /\ Enter("results") /\ UNCHANGED <<now, streak>>
    <3>1. request' = "results" /\ pc' = "send" /\ UNCHANGED <<now, streak>>
      BY <2>2 DEF Enter
    <3>2. job.state = "DONE"
      <4>1. job.state \in {"RUNNING", "DONE", "FAILED"}
        BY <2>1 DEF JobFound
      <4>2. QED
        BY <2>2, <4>1 DEF ReadsResults, JobFailed, JobIsDone, Content
    <3>3. CycleTyped'
      BY <2>1, <3>1 DEF CycleTyped, server, taken
    <3>4. JobFound'
      BY <2>1, <3>1, <3>2 DEF JobFound, InWindow, server
    <3>5. (Excused' <=> Excused) /\ (Overlaps => Overlaps')
      BY <2>1, <3>1 DEF Excused, Overlaps, Missing, WantedLevel, server, taken
    <3>6. QED
      BY <3>3, <3>4, <3>5 DEF WindowInv
  <2>3. CASE now' = now /\ CycleFails
    BY <2>1, <2>3, WaitingKeepsWindow DEF CycleFails, server, taken
  <2>4. CASE Passes(1) /\ Enter("status") /\ UNCHANGED streak
    BY <2>1, <2>4, WaitingKeepsWindow DEF Enter, server, taken
  <2>5. QED
    BY <1>10, <2>2, <2>3, <2>4 DEF JobStatus
<1>11. CASE SessionEnds
  BY <1>11, WaitingKeepsWindow DEF SessionEnds, fetch, taken, history
<1>12. CASE Tick
  BY <1>12, WaitingKeepsWindow DEF Tick, server, fetch, taken, history
<1>13. QED
  BY <1>2, <1>3, <1>4, <1>5, <1>6, <1>7, <1>8, <1>9, <1>10, <1>11, <1>12,
     ReadFileKeepsWindow, JobEndKeepsWindow, ResultsKeepWindow, GotDocumentsKeepsWindow,
     AppearsKeepsWindow
  DEF PollingStep

LEMMA WindowStep ==
  ASSUME WindowInv, SessionInv, Prompt, [Next]_vars
  PROVE  WindowInv'
<1>1. CASE UNCHANGED vars
  BY <1>1, WaitingKeepsWindow
  DEF vars, pollingVars, server, fetch, taken, history
<1>2. CASE PollingStep
  BY <1>2, FetchingKeepsWindow
<1>3. ASSUME NEW docs \in SUBSET Docs, NEW returns \in BOOLEAN, Taken(docs, returns)
      PROVE  WindowInv'
  BY <1>3, TakeKeepsWindow DEF Taken
<1>4. CASE PostStep
  BY <1>4, WaitingKeepsWindow
  DEF PostStep, pollingVars, server, fetch, taken, history
<1>5. ASSUME NEW e, NEW arrived, PostFailure(e, arrived)
      PROVE  WindowInv'
  <2>1. PICK t \in Nat : t = IF RetriesPost(e) THEN 2 ^ tries ELSE 0
    BY PauseIsNatural DEF SessionInv
  <2>2. Passes(t)
    BY <1>5, <2>1 DEF PostFailure
  <2>3. QED
    BY <1>5, <2>2, WaitingKeepsWindow DEF PostFailure, server, fetch, taken, history
<1>6. CASE Pushed
  BY <1>6, WaitingKeepsWindow DEF Pushed, CycleReturns, server, taken, history
<1>7. CASE Killed
  BY <1>7, KillKeepsWindow DEF Killed
<1>8. QED
  BY <1>1, <1>2, <1>3, <1>4, <1>5, <1>6, <1>7 DEF Next

\* A document that can be found and is wanted is taken before it is too old to be
\* asked for: windows that begin before what the last one may have missed, for any
\* documents, limits, sources, answers and failures.  The cycles have to follow each
\* other as closely as the window and the delay of the source ask for.
THEOREM CloseCyclesMissNothing == Spec /\ []Prompt => []NothingMissed
<1>1. Init => WindowInv
  <2>1. SUFFICES ASSUME Init PROVE WindowInv
    OBVIOUS
  <2>2. CycleTyped /\ JobFound
    BY <2>1, DocsFinite
    DEF Init, PollingInit, NoJob, CycleTyped, JobFound
  <2>3. Overlaps
    BY <2>1, DocsFinite DEF Init, PollingInit, Overlaps, Missing
  <2>4. QED
    BY <2>2, <2>3 DEF WindowInv
<1>2. WindowInv /\ SessionInv /\ Prompt /\ [Next]_vars => WindowInv'
  BY WindowStep
<1>3. WindowInv /\ Prompt => NothingMissed
  <2>1. SUFFICES ASSUME WindowInv, Prompt, ~Excused,
                        NEW d \in Docs, Missing(d), now - Lookback > Time[d]
                 PROVE  FALSE
    <3>1. \A d \in Docs : processed[d] \in 0 .. 2 \/ ~WindowInv
      BY DEF WindowInv, CycleTyped
    <3>2. QED
      BY <3>1 DEF NothingMissed, Excused, Missing
  <2>2. Time[d] \in Nat /\ Lag \in Nat /\ Lookback \in Nat /\ now \in Nat /\ reached \in Int
    BY <2>1, DocsFinite DEF Missing, WindowInv, CycleTyped
  <2>3. Time[d] + Lag >= reached /\ now - reached <= Lookback - Lag
    BY <2>1 DEF WindowInv, Overlaps, Prompt, Excused
  <2>4. QED
    BY <2>1, <2>2, <2>3
<1>4. QED
  BY <1>1, <1>2, <1>3, SessionHolds, PTL DEF Spec

-----------------------------------------------------------------------------
(* How much a cycle has in hand.                                           *)

\* Who is asked about jobs, and that no more is fetched than the limit allows.
HandInv ==
    /\ client \in Clients
    /\ request \in {"create", "status", "results"} => client = "splunk"
    /\ indexed \subseteq Docs /\ batch \subseteq Docs /\ job.found \subseteq Docs
    /\ Cardinality(batch) <= Limit /\ Cardinality(job.found) <= Limit

LEMMA LeastOf ==
  ASSUME NEW T, T \subseteq Nat, T # {}
  PROVE  \E least \in T : \A x \in T : least <= x
<1>1. PICK least \in T : \A x \in T : <<x, least>> \notin OpToRel(<, Nat)
  BY NatLessThanWellFounded, WFMin
<1>2. \A x \in T : ~(x < least)
  BY <1>1 DEF OpToRel
<1>3. QED
  BY <1>2

\* The newest are no more than the limit: all but the oldest of them are newer than
\* the oldest.
LEMMA NewestAreFew ==
  ASSUME NEW docs, docs \subseteq Docs, NEW at \in Nat
  PROVE  /\ Newest(docs, at) \subseteq docs /\ Cardinality(Newest(docs, at)) \in Nat
         /\ Cardinality(Newest(docs, at)) <= Limit
<1>. DEFINE newest == Newest(docs, at)
           moment(d) == TimeOf(Time[d], at)
<1>1. newest \subseteq docs /\ IsFiniteSet(docs) /\ IsFiniteSet(newest)
  BY DocsFinite, FS_Subset DEF Newest
<1>2. Cardinality(newest) \in Nat /\ Limit \in Nat
  BY <1>1, FS_CardinalityType, DocsFinite
<1>3. CASE newest = {}
  BY <1>1, <1>2, <1>3, FS_EmptySet
<1>4. CASE newest # {}
  <2>1. \A d \in newest : d \in Nat /\ moment(d) \in Nat
    BY <1>1, DocsFinite DEF TimeOf
  <2>. DEFINE moments == {moment(d) : d \in newest}
  <2>2. moments \subseteq Nat /\ moments # {}
    BY <1>4, <2>1
  <2>3. PICK first \in moments : \A m \in moments : first <= m
    <3>. HIDE DEF moments
    <3>1. QED
      BY <2>2, LeastOf
  <2>. DEFINE oldest == {d \in newest : moment(d) = first}
  <2>4. oldest \subseteq Nat /\ oldest # {}
    BY <2>1
  <2>5. PICK d \in oldest : \A o \in oldest : d <= o
    <3>. HIDE DEF oldest
    <3>1. QED
      BY <2>4, LeastOf
  <2>6. ASSUME NEW o \in newest \ {d} PROVE NewerThan(o, d, at)
    <3>1. /\ moment(o) \in Nat /\ moment(d) \in Nat /\ moment(d) <= moment(o)
          /\ o \in Nat /\ d \in Nat /\ o # d
      BY <2>1, <2>3
    <3>2. moment(o) = moment(d) => d <= o
      BY <2>5
    <3>3. \/ moment(o) > moment(d)
          \/ moment(o) = moment(d) /\ o > d
      BY <3>1, <3>2
    <3>4. QED
      BY <3>3 DEF NewerThan
  <2>. DEFINE newer == {o \in docs : NewerThan(o, d, at)}
  <2>7. IsFiniteSet(newer) /\ newest \ {d} \subseteq newer /\ Cardinality(newer) < Limit
    <3>1. Cardinality(newer) < Limit
      BY DEF Newest
    <3>2. QED
      BY <1>1, <2>6, <3>1, FS_Subset
  <2>8. Cardinality(newest \ {d}) = Cardinality(newest) - 1
    BY <1>1, FS_RemoveElement
  <2>. HIDE DEF newer
  <2>9. Cardinality(newest \ {d}) <= Cardinality(newer) /\ Cardinality(newer) \in Nat
    BY <2>7, FS_Subset, FS_CardinalityType
  <2>10. QED
    BY <1>1, <1>2, <2>7, <2>8, <2>9
<1>5. QED
  BY <1>3, <1>4

LEMMA HandStep ==
  ASSUME SessionInv, HandInv, [Next]_vars
  PROVE  HandInv'
<1>1. ASSUME UNCHANGED <<client, indexed, batch, job>>, request' \in {request, "none"}
      PROVE  HandInv'
  BY <1>1 DEF HandInv
<1>2. now \in Nat /\ client \in {"alerts_json", "indexer", "security_onion", "splunk"}
  BY PollingConstants DEF SessionInv, HandInv, PollingConstants
<1>3. IsFiniteSet({}) /\ Cardinality({}) = 0 /\ Limit \in Nat
  BY FS_EmptySet, DocsFinite
<1>4. ASSUME NEW documents, documents \subseteq Docs, UNCHANGED <<client, indexed, job, request>>,
             batch' = Kept(documents, since)
      PROVE  HandInv'
  <2>. DEFINE kept == {d \in documents : IsRecent(Time[d], since, now) /\ WantedLevel(d)}
  <2>1. kept \subseteq Docs /\ batch' = Newest(kept, now)
    BY <1>4 DEF Kept
  <2>. HIDE DEF kept
  <2>2. batch' \subseteq Docs /\ Cardinality(batch') <= Limit
    BY <1>2, <2>1, NewestAreFew
  <2>3. QED
    BY <1>4, <2>2 DEF HandInv
<1>5. CASE UNCHANGED vars
  BY <1>1, <1>5 DEF vars, pollingVars, server, fetch, taken
<1>6. CASE PollingStep
  <2>1. ASSUME NEW e \in Failures, AuthenticateFails(e) \/ Reauthenticate(e) \/ ExchangeFails(e)
        PROVE  HandInv'
    BY <1>1, <2>1 DEF AuthenticateFails, Reauthenticate, ExchangeFails, TryAgain, GiveUp,
       CycleFails, server, taken
  <2>2. CASE Begin
    <3>1. request' \in {"create", "status", "results"} => client = "splunk"
      BY <1>2, <2>2 DEF Begin, Enter
    <3>2. UNCHANGED <<client, indexed>> /\ batch' = {} /\ job'.found = {}
      BY <2>2 DEF Begin, NoJob
    <3>3. QED
      BY <1>3, <3>1, <3>2 DEF HandInv
  <2>3. CASE HasToken \/ Authenticate \/ SessionEnds \/ Tick
    BY <1>1, <2>3 DEF HasToken, Authenticate, SessionEnds, Tick, server, fetch, taken
  <2>4. CASE GotAgents
    BY <2>4 DEF GotAgents, Enter, server, HandInv
  <2>5. CASE JobCreated
    BY <1>3, <2>5 DEF JobCreated, Enter, taken, HandInv
  <2>6. CASE ReadFile
    <3>1. indexed \ cursor \subseteq Docs
      BY DEF HandInv
    <3>2. QED
      BY <1>4, <2>6, <3>1 DEF ReadFile, server
  <2>7. ASSUME NEW known \in BOOLEAN, GotResults(known) PROVE HandInv'
    <3>1. batch' \subseteq job.found /\ UNCHANGED <<client, indexed, job, request>>
      BY <2>7 DEF GotResults, ExtractResultRows, ListOf, NoList, Usable, server
    <3>2. IsFiniteSet(job.found)
      BY DocsFinite, FS_Subset DEF HandInv
    <3>3. Cardinality(batch') <= Cardinality(job.found) /\ IsFiniteSet(batch')
      BY <3>1, <3>2, FS_Subset
    <3>4. Cardinality(batch') \in Nat /\ Cardinality(job.found) \in Nat
      BY <3>2, <3>3, FS_CardinalityType
    <3>5. Cardinality(batch') <= Limit
      BY <1>3, <3>3, <3>4 DEF HandInv
    <3>6. QED
      BY <3>1, <3>5 DEF HandInv
  <2>8. ASSUME NEW place, GotDocuments(place) PROVE HandInv'
    <3>. DEFINE found == Found(since)
               list == ListOf(found)
               Place(name) == IF place = name THEN list ELSE NoList
               response == [events |-> Place("events"), data |-> Place("data"),
                            hits |-> Place("hits")]
               documents == IF client = "indexer" THEN ExtractHits(response, Docs)
                            ELSE ExtractEventDocuments(response, Docs)
    <3>1. documents \subseteq Docs
      BY DEF ExtractHits, ExtractEventDocuments, Usable
    <3>2. batch' = Kept(documents, since) /\ UNCHANGED <<client, indexed, job, request>>
      BY <2>8 DEF GotDocuments, server
    <3>. HIDE DEF documents
    <3>3. QED
      BY <1>4, <3>1, <3>2
  <2>9. CASE JobEnds
    <3>. DEFINE there == {d \in indexed : InWindow(d, since)}
    <3>1. there \subseteq Docs
      BY DEF HandInv
    <3>2. UNCHANGED <<client, indexed, batch, request>> /\ job'.found \in {{}, Newest(there, now)}
      BY <2>9 DEF JobEnds, fetch, taken
    <3>. HIDE DEF there
    <3>3. QED
      BY <1>2, <1>3, <3>1, <3>2, NewestAreFew DEF HandInv
  <2>10. ASSUME NEW flag, JobStatus(flag) PROVE HandInv'
    BY <2>10 DEF JobStatus, Enter, CycleFails, server, taken, HandInv
  <2>11. ASSUME NEW d \in Docs, Appears(d) PROVE HandInv'
    BY <2>11 DEF Appears, fetch, taken, HandInv
  <2>12. QED
    BY <1>6, <2>1, <2>2, <2>3, <2>4, <2>5, <2>6, <2>7, <2>8, <2>9, <2>10, <2>11
    DEF PollingStep
<1>7. CASE \E docs \in SUBSET Docs, returns \in BOOLEAN : Taken(docs, returns)
  BY <1>1, <1>7 DEF Taken, Take, server
<1>8. CASE PostStep
  BY <1>1, <1>8 DEF PostStep, pollingVars, server, fetch, taken
<1>9. CASE Pushed \/ Killed
  BY <1>1, <1>9 DEF Pushed, CycleReturns, Killed, Kill, server, taken
<1>10. CASE \E e \in PushFailures, arrived \in BOOLEAN : PostFailure(e, arrived)
  BY <1>1, <1>10 DEF PostFailure, server, fetch, taken
<1>11. QED
  BY <1>5, <1>6, <1>7, <1>8, <1>9, <1>10 DEF Next

LEMMA HandHolds == Spec => []HandInv
<1>1. Init => HandInv
  <2>1. Cardinality({}) = 0 /\ Limit \in Nat
    BY FS_EmptySet, DocsFinite
  <2>2. QED
    BY <2>1 DEF Init, PollingInit, NoJob, HandInv
<1>2. SessionInv /\ HandInv /\ [Next]_vars => HandInv'
  BY HandStep
<1>3. QED
  BY <1>1, <1>2, SessionHolds, PTL DEF Spec

-----------------------------------------------------------------------------
(* How long a cycle may take: requests and pushes take no time, the pauses  *)
(* between their attempts do.                                              *)

\* A search job is created, asked about and read.
MostRequests == IF "splunk" \in Clients THEN MaxPolls + 2 ELSE 2

\* The results of a cycle in batches, and its incident.
MostPosts == (Limit + BatchSize - 1) \div BatchSize + 1

LongestFetch == MostRequests * 2 ^ MaxRetries
LongestPush == MostPosts * 2 ^ PushRetries
LongestCycle == LongestFetch + LongestPush

\* The requests that this cycle is done with.
Answered ==
    CASE request \in {"search", "read"} -> 1
      [] request = "status" -> polls + 1
      [] request = "results" -> polls + 2
      [] OTHER -> 0

\* How much later than the last one that took all it found a cycle may be due.
Behind ==
    (IF pc = "push" THEN 0 ELSE LongestCycle + Interval) +
    (IF streak[1] = 0 THEN 0 ELSE LongestCycle + Interval)

\* n exchanges are enough for what is to be sent.
Posts(n) ==
    \E k \in Nat : /\ Len(toSend) <= k * BatchSize
                  /\ n = k + (IF waiting = <<>> THEN 0 ELSE 1)

PaceTyped ==
    /\ now \in Nat /\ nextCycle \in Nat /\ since \in Int /\ reached \in Int
    /\ attempt \in 0 .. MaxRetries /\ tries \in 0 .. PushRetries /\ polls \in Nat
    /\ streak \in [1 .. 2 -> 0 .. 2]
    /\ pc \in {"idle", "token", "send", "fetched", "push"}
    /\ request \in {"status", "results"} => polls < MaxPolls
    /\ toSend = <<>> => tries = 0
    /\ waiting \in {<<>>, <<Incident>>}

\* A cycle begins when it is due; what it has waited for are the pauses of its
\* requests and of its pushes.
Timely ==
    /\ pc = "idle" => now <= nextCycle
    /\ pc \in {"token", "send", "fetched"} =>
          /\ nextCycle <= now /\ nextCycle <= since + Lookback
          /\ now - nextCycle < Answered * 2 ^ MaxRetries + 2 ^ attempt
    /\ pc = "push" =>
          \E n \in Nat : /\ Posts(n)
                        /\ now - nextCycle + n * 2 ^ PushRetries
                              < LongestCycle + 2 ^ tries

Close == streak[2] = 2 \/ (streak[1] \in 0 .. 1 /\ nextCycle <= reached + Behind)

PaceInv == PaceTyped /\ Timely /\ Close

LEMMA Constants ==
  /\ Lookback \in Nat /\ Interval \in Nat /\ MaxRetries \in Nat /\ PushRetries \in Nat
  /\ MaxPolls \in Nat \ {0} /\ Limit \in Nat /\ BatchSize \in Nat \ {0} /\ Lag \in Nat
  /\ Incident \in Results
BY PollingConstants, PushConstants
DEF PollingConstants, PushConstants

\* A set of n things has 2^n subsets, and of one more thing twice as many.
LEMMA Subsets ==
  ASSUME NEW n \in Nat
  PROVE  /\ IsFiniteSet(SUBSET (1 .. n)) /\ Cardinality(SUBSET (1 .. n)) = 2 ^ n
         /\ 2 ^ n \in Nat
<1>1. IsFiniteSet(1 .. n) /\ Cardinality(1 .. n) = IF 1 > n THEN 0 ELSE n - 1 + 1
  BY FS_Interval
<1>2. Cardinality(1 .. n) = n
  BY <1>1
<1>3. /\ IsFiniteSet(SUBSET (1 .. n))
      /\ Cardinality(SUBSET (1 .. n)) = 2 ^ Cardinality(1 .. n)
  BY <1>1, FS_SUBSET
<1>4. QED
  BY <1>2, <1>3, FS_CardinalityType

LEMMA PausesGrow ==
  ASSUME NEW m \in Nat, NEW n \in Nat, m <= n
  PROVE  2 ^ m <= 2 ^ n /\ 1 <= 2 ^ m
<1>1. SUBSET (1 .. m) \subseteq SUBSET (1 .. n)
  BY SMT
<1>2. /\ Cardinality(SUBSET (1 .. m)) = 2 ^ m /\ Cardinality(SUBSET (1 .. n)) = 2 ^ n
      /\ IsFiniteSet(SUBSET (1 .. m)) /\ IsFiniteSet(SUBSET (1 .. n))
  BY Subsets
<1>3. Cardinality(SUBSET (1 .. m)) <= Cardinality(SUBSET (1 .. n))
  BY <1>1, <1>2, FS_Subset
<1>4. IsFiniteSet({{}}) /\ Cardinality({{}}) = 1
  BY FS_Singleton
<1>5. {{}} \subseteq SUBSET (1 .. m)
  OBVIOUS
<1>6. 1 <= Cardinality(SUBSET (1 .. m))
  BY <1>2, <1>4, <1>5, FS_Subset
<1>7. QED
  BY <1>2, <1>3, <1>6

LEMMA PausesDouble ==
  ASSUME NEW n \in Nat
  PROVE  2 ^ n + 2 ^ n <= 2 ^ (n + 1)
<1>. DEFINE without == SUBSET (1 .. n)
           with == {s \cup {n + 1} : s \in without}
           add == [s \in without |-> s \cup {n + 1}]
           all == SUBSET (1 .. n + 1)
<1>1. /\ IsFiniteSet(without) /\ Cardinality(without) = 2 ^ n /\ 2 ^ n \in Nat
      /\ IsFiniteSet(all) /\ Cardinality(all) = 2 ^ (n + 1)
  BY Subsets, n + 1 \in Nat
<1>2. \A s \in without : n + 1 \notin s
  OBVIOUS
<1>3. ExistsBijection(without, with)
  <2>1. add \in [without -> with]
    OBVIOUS
  <2>2. \A s, t \in without : add[s] = add[t] => s = t
    BY <1>2
  <2>3. \A t \in with : \E s \in without : add[s] = t
    OBVIOUS
  <2>. HIDE DEF add, without, with
  <2>4. add \in Bijection(without, with)
    BY <2>1, <2>2, <2>3 DEF Bijection, Injection, Surjection, IsInjective
  <2>5. QED
    BY <2>4 DEF ExistsBijection
<1>4. IsFiniteSet(with) /\ Cardinality(with) = 2 ^ n
  <2>. HIDE DEF with, without
  <2>1. QED
    BY <1>1, <1>3, FS_Bijection
<1>5. without \cap with = {}
  BY <1>2
<1>6. without \cup with \subseteq all
  <2>1. without \subseteq all
    BY SMT
  <2>2. \A s \in without : s \cup {n + 1} \subseteq 1 .. n + 1
    BY SMT
  <2>3. \A t \in with : t \in all
    BY <2>2
  <2>4. QED
    BY <2>1, <2>3
<1>. HIDE DEF with, without, all
<1>7. IsFiniteSet(without \cup with) /\ Cardinality(without \cup with) = 2 ^ n + 2 ^ n - 0
  BY <1>1, <1>4, <1>5, FS_Union, FS_EmptySet
<1>8. Cardinality(without \cup with) <= Cardinality(all)
  BY <1>1, <1>6, FS_Subset
<1>9. QED
  BY <1>1, <1>7, <1>8

\* Of the sum of n times p one more p.
LEMMA OneMore ==
  ASSUME NEW n \in Nat, NEW p \in Nat
  PROVE  (n + 1) * p = n * p + p /\ n * p \in Nat
OBVIOUS

LEMMA AtMostTimes ==
  ASSUME NEW m \in Nat, NEW n \in Nat, NEW p \in Nat, m <= n
  PROVE  m * p <= n * p
OBVIOUS

LEMMA EnoughPosts ==
  /\ MostPosts - 1 \in Nat /\ MostPosts \in Nat
  /\ Limit <= (MostPosts - 1) * BatchSize
<1>1. ASSUME NEW n \in Nat, NEW b \in Nat \ {0}
      PROVE  /\ (n + b - 1) \div b \in Nat
             /\ n <= ((n + b - 1) \div b) * b
  OBVIOUS
<1>2. PICK q \in Nat : q = (Limit + BatchSize - 1) \div BatchSize /\ Limit <= q * BatchSize
  BY <1>1, Constants
<1>3. MostPosts = q + 1
  BY <1>2 DEF MostPosts
<1>4. MostPosts - 1 = q
  BY <1>3
<1>5. QED
  BY <1>2, <1>3, <1>4

LEMMA CycleConstants ==
  /\ LongestFetch \in Nat /\ LongestPush \in Nat /\ LongestCycle \in Nat
  /\ 2 ^ MaxRetries \in Nat /\ 2 ^ PushRetries \in Nat
  /\ LongestCycle = LongestFetch + LongestPush
<1>1. 2 ^ MaxRetries \in Nat /\ 2 ^ PushRetries \in Nat
  BY Constants, Subsets
<1>2. LongestFetch \in Nat /\ LongestPush \in Nat
  <2>1. \A m, n \in Nat : m * n \in Nat
    OBVIOUS
  <2>2. MostRequests \in Nat
    BY Constants DEF MostRequests
  <2>3. QED
    BY <1>1, <2>1, <2>2, EnoughPosts DEF LongestFetch, LongestPush
<1>3. QED
  BY <1>1, <1>2 DEF LongestCycle

LEMMA NoPause == 2 ^ 0 = 1
<1>1. IsFiniteSet({}) /\ Cardinality({}) = 0
  BY FS_EmptySet
<1>2. Cardinality(SUBSET {}) = 2 ^ 0
  BY <1>1, FS_SUBSET
<1>3. SUBSET {} = {{}}
  OBVIOUS
<1>4. QED
  BY <1>2, <1>3, FS_Singleton

\* With each exchange that is over, fewer are enough.
LEMMA FewerPosts ==
  ASSUME PaceInv, PushInv, toSend # <<>>, NEW left \in {AfterBatch, <<>>},
         GoesOn(left, waiting), NEW n \in Nat, Posts(n)
  PROVE  n - 1 \in Nat /\ Posts(n - 1)' /\ waiting' \in {<<>>, <<Incident>>}
<1>. DEFINE more == IF waiting = <<>> THEN 0 ELSE 1
<1>1. PICK k \in Nat : Len(toSend) <= k * BatchSize /\ n = k + more
  BY DEF Posts
<1>2. BatchSize \in Nat \ {0} /\ toSend \in Seq(Results) /\ Len(toSend) \in Nat
  BY Constants, LenProperties DEF PushInv, Numbered
<1>3. Len(toSend) # 0
  BY <1>2, EmptySeq
<1>4. k # 0
  <2>1. 0 * BatchSize = 0
    BY <1>2
  <2>2. QED
    BY <1>1, <1>2, <1>3, <2>1
<1>5. PICK j \in Nat : k = j + 1
  <2>1. k - 1 \in Nat /\ k = (k - 1) + 1
    BY <1>4
  <2>2. QED
    BY <2>1
<1>6. (j + 1) * BatchSize = j * BatchSize + BatchSize /\ j * BatchSize \in Nat
  BY <1>2, OneMore
<1>7. waiting \in {<<>>, <<Incident>>}
  BY DEF PaceInv, PaceTyped
<1>8. more \in {0, 1} /\ n - 1 = j + more /\ n - 1 \in Nat
  BY <1>1, <1>5
<1>9. CASE left # <<>>
  <2>1. toSend' = left /\ waiting' = waiting /\ left = AfterBatch
    BY <1>9 DEF GoesOn
  <2>2. Len(AfterBatch) <= j * BatchSize
    <3>1. AfterBatch = SubSeq(toSend, BatchSize + 1, Len(toSend))
      BY DEF AfterBatch
    <3>2. \A i \in BatchSize + 1 .. Len(toSend) : toSend[i] \in Results
      BY <1>2, LenProperties, ElementOfSeq
    <3>3. Len(AfterBatch) = IF BatchSize + 1 <= Len(toSend)
                            THEN Len(toSend) - (BatchSize + 1) + 1 ELSE 0
      BY <1>2, <3>1, <3>2, SubSeqProperties
    <3>4. PICK x \in Nat : x = j * BatchSize /\ Len(toSend) <= x + BatchSize
      BY <1>1, <1>5, <1>6
    <3>5. QED
      BY <1>2, <3>3, <3>4
  <2>3. Posts(n - 1)'
    <3>1. Len(toSend') <= j * BatchSize /\ n - 1 = j + (IF waiting' = <<>> THEN 0 ELSE 1)
      BY <1>8, <2>1, <2>2
    <3>2. QED
      BY <3>1 DEF Posts
  <2>4. QED
    BY <1>7, <1>8, <2>1, <2>3
<1>10. CASE left = <<>>
  <2>1. toSend' = waiting /\ waiting' = <<>>
    BY <1>10 DEF GoesOn
  <2>2. Len(<<>>) = 0 /\ Len(<<Incident>>) = 1
    OBVIOUS
  <2>3. PICK i \in Nat : i = j + more
    BY <1>8
  <2>4. Len(toSend') <= i * BatchSize
    <3>1. CASE waiting = <<>>
      <4>1. i * BatchSize \in Nat
        BY <1>2, OneMore
      <4>2. QED
        BY <2>1, <2>2, <3>1, <4>1
    <3>2. CASE waiting # <<>>
      <4>1. 1 <= i
        BY <2>3, <3>2
      <4>2. 1 * BatchSize <= i * BatchSize /\ 1 * BatchSize = BatchSize
        BY <1>2, <4>1, AtMostTimes
      <4>3. Len(toSend') = 1
        BY <1>7, <2>1, <2>2, <3>2
      <4>4. i * BatchSize \in Nat
        BY <1>2, OneMore
      <4>5. QED
        BY <1>2, <4>2, <4>3, <4>4
    <3>3. QED
      BY <3>1, <3>2
  <2>5. n - 1 = i + (IF waiting' = <<>> THEN 0 ELSE 1)
    BY <1>8, <2>1, <2>3
  <2>6. QED
    BY <1>8, <2>1, <2>4, <2>5 DEF Posts
<1>11. QED
  BY <1>9, <1>10

\* A fetch asks no more often than it may.
LEMMA FetchesAreShort ==
  ASSUME PaceInv, HandInv, pc \in {"token", "send", "fetched"}
  PROVE  now - nextCycle < LongestFetch
<1>. DEFINE P == 2 ^ MaxRetries
<1>1. /\ now \in Nat /\ nextCycle \in Nat /\ polls \in Nat /\ attempt \in Nat
      /\ attempt <= MaxRetries /\ MaxRetries \in Nat /\ MaxPolls \in Nat \ {0}
  BY Constants DEF PaceInv, PaceTyped
<1>2. 2 ^ attempt \in Nat /\ 2 ^ attempt <= P /\ P \in Nat /\ LongestFetch \in Nat
  BY <1>1, Subsets, PausesGrow, CycleConstants
<1>3. now - nextCycle < Answered * P + 2 ^ attempt
  BY DEF PaceInv, Timely
<1>4. Answered \in Nat /\ Answered + 1 <= MostRequests
  <2>1. "splunk" \in Clients => Answered \in Nat /\ Answered + 1 <= MaxPolls + 2
    BY <1>1 DEF Answered, PaceInv, PaceTyped
  <2>2. "splunk" \notin Clients => Answered \in {0, 1}
    BY DEF Answered, HandInv
  <2>3. QED
    BY <2>1, <2>2 DEF MostRequests
<1>5. PICK k \in Nat : k = Answered
  BY <1>4
<1>6. (k + 1) * P = k * P + P /\ k * P \in Nat
  BY <1>2, OneMore
<1>7. (k + 1) * P <= LongestFetch
  <2>1. MostRequests \in Nat /\ k + 1 \in Nat /\ k + 1 <= MostRequests
    BY <1>1, <1>4, <1>5 DEF MostRequests
  <2>2. QED
    BY <1>2, <2>1, AtMostTimes DEF LongestFetch
<1>. HIDE DEF P
<1>8. PICK a \in Nat : a = 2 ^ attempt
  BY <1>2
<1>9. PICK x \in Nat, y \in Nat : x = k * P /\ y = (k + 1) * P
  BY <1>2, <1>6
<1>10. now - nextCycle < x + a /\ a <= P /\ y = x + P /\ y <= LongestFetch
  BY <1>2, <1>3, <1>5, <1>6, <1>7, <1>8, <1>9
<1>11. QED
  BY <1>1, <1>2, <1>10

\* Everything a cycle does, it has done soon enough.
LEMMA CyclesAreShort ==
  ASSUME PaceInv, PushInv, HandInv
  PROVE  now <= nextCycle + LongestCycle
<1>. DEFINE Q == 2 ^ PushRetries
<1>1. /\ now \in Nat /\ nextCycle \in Nat /\ tries \in Nat /\ tries <= PushRetries
      /\ PushRetries \in Nat
  BY Constants DEF PaceInv, PaceTyped
<1>2. 2 ^ tries \in Nat /\ 2 ^ tries <= Q
  BY <1>1, Subsets, PausesGrow
<1>3. Q \in Nat /\ LongestFetch \in Nat /\ LongestPush \in Nat /\ LongestCycle \in Nat
  BY CycleConstants
<1>4. CASE pc \in {"token", "send", "fetched"}
  BY <1>1, <1>3, <1>4, FetchesAreShort DEF LongestCycle
<1>5. CASE pc = "push"
  <2>1. PICK n \in Nat : Posts(n) /\ now - nextCycle + n * Q < LongestCycle + 2 ^ tries
    BY <1>5 DEF PaceInv, Timely
  <2>2. PICK a \in Nat : a = 2 ^ tries /\ a <= Q
    BY <1>2
  <2>3. n * Q \in Nat
    BY <1>3, OneMore
  <2>4. CASE toSend = <<>>
    <3>1. a <= 1
      BY <2>2, <2>4, NoPause DEF PaceInv, PaceTyped
    <3>. HIDE DEF Q
    <3>2. QED
      BY <1>1, <1>3, <2>1, <2>2, <2>3, <3>1
  <2>5. CASE toSend # <<>>
    <3>1. n # 0
      <4>1. PICK k \in Nat : Len(toSend) <= k * BatchSize /\ n >= k
        BY <2>1 DEF Posts
      <4>2. Len(toSend) \in Nat /\ Len(toSend) # 0 /\ BatchSize \in Nat
        BY <2>5, LenProperties, EmptySeq, Constants DEF PushInv, Numbered
      <4>3. k = 0 => k * BatchSize = 0
        BY <4>2
      <4>4. QED
        BY <4>1, <4>2, <4>3
    <3>2. 1 * Q <= n * Q /\ 1 * Q = Q
      BY <1>3, <3>1, AtMostTimes
    <3>. HIDE DEF Q
    <3>3. QED
      BY <1>1, <1>3, <2>1, <2>2, <2>3, <3>2
  <2>6. QED
    BY <2>4, <2>5
<1>6. CASE pc = "idle"
  BY <1>1, <1>3, <1>6 DEF PaceInv, Timely
<1>7. QED
  BY <1>4, <1>5, <1>6 DEF PaceInv, PaceTyped

\* A cycle that goes wrong is the first to go wrong, or the second in a row.
LEMMA FailuresCounted ==
  ASSUME PaceInv
  PROVE  /\ Streak(FALSE) \in [1 .. 2 -> 0 .. 2] /\ Streak(TRUE) \in [1 .. 2 -> 0 .. 2]
         /\ Streak(TRUE)[1] = 0 /\ Streak(TRUE)[2] = streak[2]
         /\ Streak(FALSE)[2] = 2 \/ (streak[2] # 2 /\ streak[1] = 0 /\ Streak(FALSE)[1] = 1)
<1>1. PICK m \in 0 .. 2, n \in 0 .. 2 : m = streak[1] /\ n = streak[2]
  BY DEF PaceInv, PaceTyped
<1>2. \A i, j \in 0 .. 2 : <<i, j>> \in [1 .. 2 -> 0 .. 2] /\ <<i, j>>[2] = j
                          /\ <<i, j>>[1] = i
  OBVIOUS
<1>3. Streak(TRUE) = <<0, n>>
  BY <1>1 DEF Streak
<1>. DEFINE i == IF m = 2 THEN 2 ELSE m + 1  j == IF i > n THEN i ELSE n
<1>4. Streak(FALSE) = <<i, j>>
  BY <1>1 DEF Streak
<1>5. i \in 0 .. 2 /\ j \in 0 .. 2 /\ (j = 2 \/ (n # 2 /\ m = 0 /\ i = 1))
  OBVIOUS
<1>. HIDE DEF i, j
<1>6. /\ <<i, j>> \in [1 .. 2 -> 0 .. 2] /\ <<i, j>>[1] = i /\ <<i, j>>[2] = j
      /\ <<0, n>> \in [1 .. 2 -> 0 .. 2] /\ <<0, n>>[1] = 0 /\ <<0, n>>[2] = n
  BY <1>2, <1>5
<1>7. /\ Streak(FALSE) \in [1 .. 2 -> 0 .. 2] /\ Streak(FALSE)[1] = i
      /\ Streak(FALSE)[2] = j
      /\ Streak(TRUE) \in [1 .. 2 -> 0 .. 2] /\ Streak(TRUE)[1] = 0
      /\ Streak(TRUE)[2] = n
  BY <1>3, <1>4, <1>6, Zenon
<1>8. QED
  BY <1>1, <1>5, <1>7

LEMMA PaceSame ==
  ASSUME PaceInv,
         UNCHANGED <<now, nextCycle, since, reached, attempt, tries, polls, streak, pc,
                     request, toSend, waiting>>
  PROVE  PaceInv'
<1>1. /\ Answered' = Answered /\ Behind' = Behind
      /\ \A n : Posts(n)' <=> Posts(n)
  BY DEF Answered, Behind, Posts
<1>2. QED
  BY <1>1 DEF PaceInv, PaceTyped, Timely, Close

\* One more request, or the next attempt of one.
LEMMA FetchGoesOn ==
  ASSUME PaceInv, UNCHANGED <<nextCycle, streak, reached, tries, toSend, waiting>>,
         pc \in {"token", "send"}, pc' \in {"token", "send", "fetched"},
         since' \in {since, WindowStart}, attempt' \in 0 .. MaxRetries, polls' \in Nat,
         request' \in {"status", "results"} => polls' < MaxPolls,
         now' \in Nat, now <= now',
         now' - now + Answered * 2 ^ MaxRetries + 2 ^ attempt
            <= Answered' * 2 ^ MaxRetries + 2 ^ attempt'
  PROVE  PaceInv'
<1>1. /\ now \in Nat /\ nextCycle \in Nat /\ since \in Int /\ Lookback \in Nat
  BY Constants DEF PaceInv, PaceTyped
<1>2. /\ nextCycle <= now /\ nextCycle <= since + Lookback
      /\ now - nextCycle < Answered * 2 ^ MaxRetries + 2 ^ attempt
  BY DEF PaceInv, Timely
<1>3. nextCycle' <= since' + Lookback /\ since' \in Int
  <2>1. CASE since' = since
    BY <1>1, <1>2, <2>1
  <2>2. CASE since' = now - Lookback
    BY <1>1, <1>2, <2>2
  <2>3. QED
    BY <2>1, <2>2 DEF WindowStart
<1>4. PaceTyped'
  BY <1>3 DEF PaceInv, PaceTyped
<1>5. /\ Answered * 2 ^ MaxRetries \in Int /\ 2 ^ attempt \in Int
      /\ Answered' * 2 ^ MaxRetries \in Int /\ 2 ^ attempt' \in Int
  <2>1. Answered \in Nat /\ Answered' \in Nat
    <3>1. polls \in Nat /\ polls' \in Nat
      BY DEF PaceInv, PaceTyped
    <3>2. Answered \in Nat
      BY <3>1 DEF Answered
    <3>3. Answered' \in Nat
      BY <3>1 DEF Answered
    <3>4. QED
      BY <3>2, <3>3
  <2>2. attempt \in Nat /\ attempt' \in Nat
    BY <1>4, Constants DEF PaceInv, PaceTyped
  <2>3. QED
    BY <2>1, <2>2, Subsets, OneMore, CycleConstants
<1>6. PICK x \in Int, y \in Int : /\ x = Answered * 2 ^ MaxRetries + 2 ^ attempt
                                  /\ y = Answered' * 2 ^ MaxRetries + 2 ^ attempt'
  BY <1>5
<1>7. now' - now + x <= y
  BY <1>1, <1>5, <1>6
<1>8. now' - nextCycle' < y
  BY <1>1, <1>2, <1>6, <1>7
<1>9. Timely'
  <2>1. nextCycle' <= now'
    BY <1>1, <1>2
  <2>2. now' - nextCycle' < Answered' * 2 ^ MaxRetries + 2 ^ attempt'
    BY <1>6, <1>8
  <2>3. pc' # "idle" /\ pc' # "push"
    OBVIOUS
  <2>4. QED
    BY <1>3, <2>1, <2>2, <2>3, Zenon DEF Timely
<1>10. Behind' = Behind
  BY DEF Behind
<1>11. Close'
  BY <1>10 DEF PaceInv, Close
<1>12. QED
  BY <1>4, <1>9, <1>11 DEF PaceInv

\* The next request begins with its first attempt.
LEMMA NextRequest ==
  ASSUME PaceInv, UNCHANGED <<nextCycle, streak, reached, tries, toSend, waiting>>,
         pc \in {"token", "send"}, pc' \in {"token", "send", "fetched"},
         since' \in {since, WindowStart}, attempt' = 0, polls' \in Nat,
         request' \in {"status", "results"} => polls' < MaxPolls,
         now' = now \/ now' = now + 1, Answered' = Answered + 1
  PROVE  PaceInv'
<1>1. now \in Nat /\ attempt \in Nat /\ attempt <= MaxRetries /\ MaxRetries \in Nat
  BY Constants DEF PaceInv, PaceTyped
<1>2. PICK k \in Nat : k = Answered
  BY DEF Answered, PaceInv, PaceTyped
<1>3. PICK p \in Nat, a \in Nat : p = 2 ^ MaxRetries /\ a = 2 ^ attempt /\ a <= p
  BY <1>1, Subsets, PausesGrow
<1>4. PICK x \in Nat : x = k * p /\ (k + 1) * p = x + p
  BY OneMore
<1>5. now' - now + x + a <= (x + p) + 1
  BY <1>1, <1>3
<1>6. now' - now + Answered * 2 ^ MaxRetries + 2 ^ attempt
            <= Answered' * 2 ^ MaxRetries + 2 ^ attempt'
  BY <1>2, <1>3, <1>4, <1>5, NoPause
<1>7. 0 \in 0 .. MaxRetries /\ now' \in Nat /\ now <= now'
  BY <1>1
<1>8. QED
  BY <1>6, <1>7, FetchGoesOn

\* A cycle that ends is not late, and the next one is due an interval later.
LEMMA CycleEnds ==
  ASSUME PaceInv, PushInv, HandInv, pc \in {"token", "send", "fetched", "push"}, pc' = "idle",
         now' = now, nextCycle' \in {now, now + Interval}, tries' \in 0 .. PushRetries,
         toSend' = <<>> => tries' = 0, waiting' \in {<<>>, <<Incident>>},
         attempt' \in 0 .. MaxRetries, polls' \in Nat,
         since' = since, request' \in {"status", "results"} => polls' < MaxPolls,
         \/ streak' = streak /\ reached' = reached /\ pc = "push"
         \/ streak' = Streak(FALSE) /\ reached' = reached /\ pc # "push"
         \/ streak' = Streak(TRUE) /\ reached' = since + Lookback /\ pc = "fetched"
  PROVE  PaceInv'
<1>. DEFINE D == LongestCycle + Interval
<1>1. /\ now \in Nat /\ nextCycle \in Nat /\ Interval \in Nat /\ LongestCycle \in Nat
      /\ since \in Int /\ Lookback \in Nat /\ reached \in Int
      /\ streak \in [1 .. 2 -> 0 .. 2]
  BY Constants, CycleConstants DEF PaceInv, PaceTyped
<1>2. nextCycle' <= nextCycle + D /\ now <= nextCycle' /\ nextCycle' \in Nat /\ D \in Nat
  BY <1>1, CyclesAreShort
<1>3. reached' \in Int /\ streak' \in [1 .. 2 -> 0 .. 2]
  <2>1. since + Lookback \in Int
    BY <1>1
  <2>2. QED
    BY <1>1, <2>1, FailuresCounted
<1>4. PaceTyped'
  BY <1>1, <1>2, <1>3 DEF PaceInv, PaceTyped
<1>5. Timely'
  BY <1>2 DEF Timely
<1>6. Close'
  <2>1. Behind' = D + (IF streak'[1] = 0 THEN 0 ELSE D)
    BY DEF Behind
  <2>2. CASE streak' = streak /\ reached' = reached /\ pc = "push"
    <3>1. Behind = 0 + (IF streak[1] = 0 THEN 0 ELSE D)
      BY <2>2 DEF Behind
    <3>. HIDE DEF D
    <3>2. QED
      BY <1>1, <1>2, <2>1, <2>2, <3>1 DEF PaceInv, Close
  <2>3. CASE streak' = Streak(FALSE) /\ reached' = reached /\ pc # "push"
    <3>1. Behind = D + (IF streak[1] = 0 THEN 0 ELSE D)
      BY <2>3 DEF Behind
    <3>2. CASE streak'[2] = 2
      BY <3>2 DEF Close
    <3>3. CASE streak[2] # 2 /\ streak[1] = 0 /\ streak'[1] = 1
      <4>1. nextCycle <= reached + Behind
        BY <3>3 DEF PaceInv, Close
      <4>. HIDE DEF D
      <4>2. nextCycle' <= reached' + Behind'
        <5>1. Behind = D + 0 /\ Behind' = D + D /\ reached' = reached
          BY <2>1, <2>3, <3>1, <3>3, 1 # 0
        <5>2. QED
          BY <1>1, <1>2, <4>1, <5>1
      <4>3. QED
        BY <3>3, <4>2 DEF Close
    <3>4. QED
      BY <2>3, <3>2, <3>3, FailuresCounted
  <2>4. CASE streak' = Streak(TRUE) /\ reached' = since + Lookback /\ pc = "fetched"
    <3>1. streak'[1] = 0 /\ nextCycle <= reached'
      BY <2>4, FailuresCounted DEF PaceInv, Timely
    <3>. HIDE DEF D
    <3>2. nextCycle' <= reached' + Behind'
      <4>1. Behind' = D + 0
        BY <2>1, <3>1
      <4>2. PICK r \in Int, n \in Nat : r = reached' /\ n = nextCycle'
        BY <1>2, <1>3
      <4>3. n <= nextCycle + D /\ nextCycle <= r
        BY <1>2, <3>1, <4>2
      <4>4. n <= r + (D + 0)
        BY <1>1, <1>2, <4>3
      <4>5. QED
        BY <4>1, <4>2, <4>4
    <3>3. QED
      BY <3>1, <3>2 DEF Close
  <2>5. QED
    BY <2>2, <2>3, <2>4
<1>7. QED
  BY <1>4, <1>5, <1>6 DEF PaceInv

\* A step of a request that takes no time.
LEMMA SameAnswers ==
  ASSUME PaceInv, pc \in {"token", "send"}, pc' \in {"token", "send", "fetched"},
         UNCHANGED <<now, nextCycle, since, reached, attempt, tries, polls, streak,
                     request, toSend, waiting>>
  PROVE  PaceInv'
<1>1. Answered' = Answered /\ Behind' = Behind
  BY DEF Answered, Behind
<1>2. QED
  BY <1>1 DEF PaceInv, PaceTyped, Timely, Close

LEMMA FetchingKeepsPace ==
  ASSUME PaceInv, PushInv, HandInv, PollingStep, UNCHANGED pushVars
  PROVE  PaceInv'
<1>1. /\ now \in Nat /\ attempt \in 0 .. MaxRetries /\ MaxRetries \in Nat /\ polls \in Nat
      /\ MaxPolls \in Nat \ {0} /\ tries \in 0 .. PushRetries /\ attempt \in Nat
      /\ request \in {"status", "results"} => polls < MaxPolls
      /\ toSend = <<>> => tries = 0
      /\ waiting \in {<<>>, <<Incident>>}
  BY Constants DEF PaceInv, PaceTyped
<1>2. UNCHANGED <<tries, toSend, waiting>>
  BY DEF pushVars
<1>3. ASSUME NEW e \in Failures, TryAgain(e) \/ GiveUp(e), pc \in {"token", "send"},
             UNCHANGED <<polls, since, reached>>
      PROVE  PaceInv'
  <2>1. CASE TryAgain(e)
    <3>1. /\ attempt' = attempt + 1 /\ attempt < MaxRetries /\ now' = now + 2 ^ attempt
          /\ UNCHANGED <<request, nextCycle, streak>> /\ pc' \in {"token", "send"}
      BY <2>1 DEF TryAgain, Passes, Ready
    <3>2. attempt' \in 0 .. MaxRetries /\ now' \in Nat /\ now <= now'
      <4>1. 2 ^ attempt \in Nat
        BY <1>1, Subsets
      <4>2. QED
        BY <1>1, <3>1, <4>1
    <3>3. Answered' = Answered
      BY <1>3, <3>1 DEF Answered
    <3>4. Answered * 2 ^ MaxRetries \in Nat
      <4>1. Answered \in Nat
        BY <1>1 DEF Answered
      <4>2. QED
        BY <4>1, OneMore, CycleConstants
    <3>5. 2 ^ attempt + 2 ^ attempt <= 2 ^ attempt' /\ 2 ^ attempt' \in Nat
      <4>1. attempt + 1 \in Nat
        BY <1>1
      <4>2. 2 ^ attempt + 2 ^ attempt <= 2 ^ (attempt + 1) /\ 2 ^ (attempt + 1) \in Nat
        BY <1>1, <4>1, PausesDouble, Subsets
      <4>3. QED
        BY <3>1, <4>2
    <3>6. now' - now + Answered * 2 ^ MaxRetries + 2 ^ attempt
            <= Answered' * 2 ^ MaxRetries + 2 ^ attempt'
      <4>1. PICK x \in Nat, a \in Nat, b \in Nat :
               x = Answered * 2 ^ MaxRetries /\ a = 2 ^ attempt /\ b = 2 ^ attempt'
        BY <1>1, <3>4, <3>5, Subsets
      <4>2. now' - now + x + a <= x + b
        BY <1>1, <3>1, <3>5, <4>1
      <4>3. QED
        BY <3>3, <4>1, <4>2
    <3>7. request' \in {"status", "results"} => polls' < MaxPolls
      BY <1>3, <3>1 DEF PaceInv, PaceTyped
    <3>8. QED
      BY <1>1, <1>2, <1>3, <3>1, <3>2, <3>6, <3>7, FetchGoesOn
  <2>2. CASE GiveUp(e)
    <3>1. /\ pc' = "idle" /\ request' = "none" /\ attempt' = 0 /\ now' = now
          /\ nextCycle' = now' + Interval /\ streak' = Streak(FALSE)
      BY <2>2 DEF GiveUp, CycleFails
    <3>2. /\ attempt' \in 0 .. MaxRetries /\ polls' \in Nat /\ tries' \in 0 .. PushRetries
          /\ toSend' = <<>> => tries' = 0
          /\ waiting' \in {<<>>, <<Incident>>}
          /\ nextCycle' \in {now, now + Interval} /\ since' = since
          /\ request' \notin {"status", "results"}
      BY <1>1, <1>2, <1>3, <3>1
    <3>3. pc \in {"token", "send", "fetched", "push"} /\ pc # "push" /\ reached' = reached
      BY <1>3
    <3>4. QED
      BY <3>1, <3>2, <3>3, CycleEnds
  <2>3. QED
    BY <1>3, <2>1, <2>2
<1>4. CASE Begin
  <2>1. /\ pc = "idle" /\ pc' \in {"token", "send"} /\ attempt' = 0 /\ polls' = 0
        /\ since' = WindowStart /\ now >= nextCycle
        /\ UNCHANGED <<now, nextCycle, streak, reached>>
        /\ request' = CASE client \in {"alerts_json", "indexer"} -> "agents"
                        [] client = "security_onion" -> "query"
                        [] client = "splunk" -> "create"
    BY <1>4 DEF Begin, Enter
  <2>2. request' \in {"agents", "query", "create"}
    BY <2>1, PollingConstants DEF PollingConstants, HandInv
  <2>3. Answered' = 0
    BY <2>2 DEF Answered
  <2>4. now' - nextCycle' = 0 /\ nextCycle' <= now' /\ nextCycle \in Nat
    BY <1>1, <2>1 DEF PaceInv, PaceTyped, Timely
  <2>5. 0 * 2 ^ MaxRetries = 0
    BY CycleConstants
  <2>6. since' \in Int /\ nextCycle' <= since' + Lookback
    BY <1>1, <2>1, <2>4, Constants DEF WindowStart
  <2>7. Timely'
    BY <2>1, <2>3, <2>4, <2>5, <2>6, NoPause DEF Timely
  <2>8. PaceTyped'
    BY <1>1, <1>2, <2>1, <2>2, <2>6 DEF PaceInv, PaceTyped
  <2>9. Close'
    BY <2>1 DEF PaceInv, Close, Behind
  <2>10. QED
    BY <2>7, <2>8, <2>9 DEF PaceInv
<1>5. CASE HasToken \/ Authenticate
  BY <1>2, <1>5, SameAnswers
  DEF HasToken, Authenticate, history
<1>6. ASSUME NEW e \in Failures, AuthenticateFails(e) \/ ExchangeFails(e) PROVE PaceInv'
  <2>1. /\ (TryAgain(e) \/ GiveUp(e)) /\ pc \in {"token", "send"}
        /\ UNCHANGED <<polls, since, reached>>
    BY <1>6 DEF AuthenticateFails, ExchangeFails
  <2>2. QED
    BY <1>3, <2>1
<1>7. ASSUME NEW e \in Failures, Reauthenticate(e) PROVE PaceInv'
  BY <1>2, <1>7, SameAnswers DEF Reauthenticate, history
<1>8. CASE GotAgents
  <2>1. /\ request = "agents" /\ request' \in {"search", "read"} /\ attempt' = 0
        /\ pc = "send" /\ pc' = "send" /\ since' = WindowStart
        /\ UNCHANGED <<polls, now, nextCycle, streak, reached>>
    BY <1>8 DEF GotAgents, Accepted, Enter, history
  <2>2. Answered = 0 /\ Answered' = 1
    BY <2>1 DEF Answered
  <2>3. QED
    BY <1>1, <1>2, <2>1, <2>2, NextRequest
<1>9. CASE JobCreated
  <2>1. /\ request = "create" /\ request' = "status" /\ attempt' = 0 /\ polls' = 0
        /\ pc = "send" /\ pc' = "send" /\ since' = WindowStart
        /\ UNCHANGED <<now, nextCycle, streak, reached>>
    BY <1>9 DEF JobCreated, Accepted, Enter, history
  <2>2. Answered = 0 /\ Answered' = 0 + 1
    BY <2>1 DEF Answered
  <2>3. QED
    BY <1>1, <1>2, <2>1, <2>2, NextRequest
<1>10. ASSUME \/ ReadFile \/ \E known \in BOOLEAN : GotResults(known)
              \/ \E place \in {"events", "data", "hits", "elsewhere"} : GotDocuments(place)
       PROVE  PaceInv'
  BY <1>2, <1>10, SameAnswers DEF ReadFile, GotResults, GotDocuments, Accepted
<1>11. ASSUME NEW flag \in BOOLEAN, JobStatus(flag) PROVE PaceInv'
  <2>1. /\ request = "status" /\ pc = "send" /\ UNCHANGED <<since, reached>>
        /\ polls < MaxPolls /\ Answered = polls + 1
    BY <1>11 DEF JobStatus, Accepted, PaceInv, PaceTyped, Answered
  <2>2. CASE Enter("results") /\ UNCHANGED <<now, nextCycle, streak, polls>>
    <3>1. request' = "results" /\ attempt' = 0 /\ pc' = "send"
      BY <2>2 DEF Enter
    <3>2. Answered' = Answered + 1
      BY <1>1, <2>1, <2>2, <3>1 DEF Answered
    <3>3. QED
      BY <1>1, <1>2, <2>1, <2>2, <3>1, <3>2, NextRequest
  <2>3. CASE now' = now /\ CycleFails /\ polls' \in {polls, polls + 1}
    <3>1. /\ pc' = "idle" /\ request' = "none" /\ attempt' = 0
          /\ nextCycle' = now + Interval /\ streak' = Streak(FALSE) /\ polls' \in Nat
      BY <1>1, <2>3 DEF CycleFails
    <3>2. /\ attempt' \in 0 .. MaxRetries /\ tries' \in 0 .. PushRetries
          /\ toSend' = <<>> => tries' = 0
          /\ waiting' \in {<<>>, <<Incident>>}
          /\ nextCycle' \in {now, now + Interval} /\ request' \notin {"status", "results"}
      BY <1>1, <1>2, <3>1
    <3>3. pc \in {"token", "send", "fetched", "push"} /\ pc # "push"
      BY <2>1
    <3>4. QED
      BY <2>1, <2>3, <3>1, <3>2, <3>3, CycleEnds
  <2>4. CASE /\ polls' = polls + 1 /\ polls' # MaxPolls /\ Passes(1) /\ Enter("status")
             /\ UNCHANGED <<nextCycle, streak>>
    <3>1. /\ request' = "status" /\ attempt' = 0 /\ pc' = "send" /\ now' = now + 1
          /\ polls' \in Nat /\ polls' < MaxPolls
      BY <1>1, <2>1, <2>4 DEF Enter, Passes
    <3>2. Answered' = Answered + 1
      BY <1>1, <2>1, <2>4, <3>1 DEF Answered
    <3>3. QED
      BY <1>1, <1>2, <2>1, <2>4, <3>1, <3>2, NextRequest
  <2>5. QED
    BY <1>11, <2>2, <2>3, <2>4 DEF JobStatus
<1>12. CASE JobEnds \/ SessionEnds \/ \E d \in Docs : Appears(d)
  BY <1>2, <1>12, PaceSame DEF JobEnds, SessionEnds, Appears, fetch, history
<1>13. CASE Tick
  <2>1. /\ pc = "idle" /\ now < nextCycle /\ now' = now + 1
        /\ UNCHANGED <<nextCycle, since, reached, attempt, polls, streak, pc, request>>
    BY <1>13 DEF Tick, Passes, fetch, history
  <2>2. now' \in Nat /\ now' <= nextCycle
    BY <1>1, <2>1 DEF PaceInv, PaceTyped
  <2>3. Behind' = Behind
    BY <2>1 DEF Behind
  <2>4. QED
    BY <1>2, <2>1, <2>2, <2>3 DEF PaceInv, PaceTyped, Timely, Close
<1>14. QED
  BY <1>4, <1>5, <1>6, <1>7, <1>8, <1>9, <1>10, <1>11, <1>12, <1>13 DEF PollingStep

\* A push is done with a batch.
LEMMA PushGoesOn ==
  ASSUME PaceInv, PushInv, pc = "push", toSend # <<>>, NEW left \in {AfterBatch, <<>>},
         GoesOn(left, waiting), tries' = 0,
         UNCHANGED <<now, nextCycle, since, reached, attempt, polls, streak, pc, request>>
  PROVE  PaceInv'
<1>. DEFINE Q == 2 ^ PushRetries
<1>1. /\ now \in Nat /\ nextCycle \in Nat /\ tries \in Nat /\ tries <= PushRetries
      /\ PushRetries \in Nat /\ LongestCycle \in Nat /\ Q \in Nat
  BY Constants, CycleConstants DEF PaceInv, PaceTyped
<1>2. PICK n \in Nat : Posts(n) /\ now - nextCycle + n * Q < LongestCycle + 2 ^ tries
  BY DEF PaceInv, Timely
<1>3. n - 1 \in Nat /\ Posts(n - 1)' /\ waiting' \in {<<>>, <<Incident>>}
  BY <1>2, FewerPosts
<1>4. PICK m \in Nat : m = n - 1 /\ n = m + 1
  BY <1>3
<1>5. PICK a \in Nat : a = 2 ^ tries /\ a <= Q
  BY <1>1, Subsets, PausesGrow
<1>6. (m + 1) * Q = m * Q + Q /\ m * Q \in Nat
  BY <1>1, OneMore
<1>. HIDE DEF Q
<1>7. PICK x \in Nat, y \in Nat : x = m * Q /\ y = n * Q /\ x + Q = y
  BY <1>1, <1>4, <1>6
<1>8. now - nextCycle + x < LongestCycle + 1
  BY <1>1, <1>2, <1>5, <1>7
<1>9. Timely'
  <2>1. now' - nextCycle' + m * Q < LongestCycle + 2 ^ tries'
    BY <1>7, <1>8, NoPause
  <2>2. Posts(m)'
    BY <1>3, <1>4
  <2>3. QED
    BY <2>1, <2>2 DEF Timely, Q
<1>10. PaceTyped'
  BY <1>1, <1>3 DEF PaceInv, PaceTyped
<1>11. Close'
  BY DEF PaceInv, Close, Behind
<1>12. QED
  BY <1>9, <1>10, <1>11 DEF PaceInv

\* The exchanges for one cycle are enough for what it has in hand.
LEMMA CycleIsPosted ==
  ASSUME HandInv, NEW docs, docs \subseteq batch,
         NEW incidents \in {<<>>, <<Incident>>}, GoesOn(SetToSeq(docs), incidents)
  PROVE  \E n \in Nat : Posts(n)' /\ n <= MostPosts
<1>1. /\ IsFiniteSet(batch) /\ batch \subseteq Docs /\ Limit \in Nat
      /\ Cardinality(batch) <= Limit
  BY DocsFinite, FS_Subset DEF HandInv
<1>2. IsFiniteSet(docs) /\ Cardinality(docs) <= Cardinality(batch)
  BY <1>1, FS_Subset
<1>3. Len(SetToSeq(docs)) <= Limit /\ Len(SetToSeq(docs)) \in Nat
  BY <1>1, <1>2, SeqOfSet, FS_CardinalityType
<1>4. PICK k \in Nat : k = MostPosts - 1 /\ Limit <= k * BatchSize /\ MostPosts = k + 1
  BY EnoughPosts
<1>5. k * BatchSize \in Nat /\ 1 * BatchSize >= 1 /\ BatchSize \in Nat
  BY <1>4, Constants, OneMore
<1>6. Len(<<>>) = 0 /\ Len(<<Incident>>) = 1
  OBVIOUS
<1>7. CASE toSend' = SetToSeq(docs) /\ waiting' = incidents
  <2>1. Len(toSend') <= k * BatchSize
    BY <1>1, <1>3, <1>4, <1>5, <1>7
  <2>2. PICK n \in Nat : n = k + (IF waiting' = <<>> THEN 0 ELSE 1) /\ n <= MostPosts
    <3>1. k \in Nat /\ k + 1 \in Nat /\ k + 0 = k
      OBVIOUS
    <3>2. QED
      BY <1>4, <3>1
  <2>3. Posts(n)'
    BY <2>1, <2>2 DEF Posts
  <2>4. QED
    BY <2>2, <2>3
<1>8. CASE toSend' = incidents /\ waiting' = <<>>
  <2>1. Len(toSend') <= 1 * BatchSize
    <3>1. toSend' = <<>> \/ toSend' = <<Incident>>
      BY <1>8
    <3>2. Len(toSend') \in {0, 1}
      BY <1>6, <3>1
    <3>3. QED
      BY <1>5, <3>2
  <2>2. 1 \in Nat /\ 1 <= MostPosts /\ 1 = 1 + (IF waiting' = <<>> THEN 0 ELSE 1)
    BY <1>4, <1>8
  <2>3. Posts(1)'
    BY <2>1, <2>2 DEF Posts
  <2>4. QED
    BY <2>2, <2>3
<1>9. QED
  BY <1>7, <1>8 DEF GoesOn

LEMMA PaceStep ==
  ASSUME PaceInv, PushInv, HandInv, [Next]_vars
  PROVE  PaceInv'
<1>1. /\ now \in Nat /\ nextCycle \in Nat /\ attempt \in 0 .. MaxRetries /\ polls \in Nat
      /\ tries \in 0 .. PushRetries /\ tries \in Nat /\ PushRetries \in Nat
      /\ MaxRetries \in Nat /\ Interval \in Nat
      /\ request \in {"status", "results"} => polls < MaxPolls
  BY Constants DEF PaceInv, PaceTyped
<1>2. CASE UNCHANGED vars
  BY <1>2, PaceSame DEF vars, pollingVars, pushVars, fetch, history
<1>3. CASE PollingStep /\ UNCHANGED pushVars
  BY <1>3, FetchingKeepsPace
<1>4. ASSUME NEW docs \in SUBSET Docs, NEW returns \in BOOLEAN, Taken(docs, returns)
      PROVE  PaceInv'
  <2>1. /\ pc = "fetched" /\ pc' = IF returns THEN "push" ELSE "idle"
        /\ streak' = Streak(docs = Fresh)
        /\ reached' = IF docs = Fresh THEN since + Lookback ELSE reached
        /\ nextCycle' = IF returns THEN nextCycle ELSE now + Interval
        /\ UNCHANGED <<now, request, attempt, polls, since>>
    BY <1>4 DEF Taken, Take
  <2>2. PICK ok \in BOOLEAN : ok = (docs = Fresh)
    OBVIOUS
  <2>3. \/ streak' = Streak(TRUE) /\ reached' = since + Lookback
        \/ streak' = Streak(FALSE) /\ reached' = reached
    BY <2>1, <2>2
  <2>4. tries' \in 0 .. PushRetries /\ (toSend' = <<>> => tries' = 0)
        /\ (returns => tries' = 0) /\ waiting' \in {<<>>, <<Incident>>}
    BY <1>1, <1>4 DEF Taken, Push, GoesOn, PaceInv, PaceTyped
  <2>5. CASE ~returns
    BY <1>1, <2>1, <2>3, <2>4, <2>5, CycleEnds
  <2>6. CASE returns
    <3>1. /\ pc' = "push" /\ tries' = 0 /\ nextCycle' = nextCycle /\ since' = since
          /\ now' = now
      BY <2>1, <2>4, <2>6
    <3>2. /\ since \in Int /\ reached \in Int /\ Lookback \in Nat
          /\ LongestCycle \in Nat /\ LongestFetch \in Nat /\ LongestPush \in Nat
          /\ LongestCycle = LongestFetch + LongestPush
      BY Constants, CycleConstants DEF PaceInv, PaceTyped
    <3>3. streak' \in [1 .. 2 -> 0 .. 2] /\ reached' \in Int
      <4>1. since + Lookback \in Int
        BY <3>2
      <4>2. QED
        BY <2>3, <3>2, <4>1, FailuresCounted
    <3>4. PaceTyped'
      BY <1>1, <2>1, <2>4, <3>1, <3>2, <3>3 DEF PaceInv, PaceTyped
    <3>5. PICK n \in Nat : Posts(n)' /\ n <= MostPosts
      <4>1. docs \subseteq batch
        BY <1>4 DEF Taken, Take, Fresh
      <4>2. PICK incidents \in {<<>>, <<Incident>>} : GoesOn(SetToSeq(docs), incidents)
        BY <1>4, <2>6 DEF Taken, Push
      <4>3. QED
        BY <4>1, <4>2, CycleIsPosted
    <3>6. Timely'
      <4>1. n * 2 ^ PushRetries <= LongestPush
        BY <3>5, EnoughPosts, CycleConstants, AtMostTimes DEF LongestPush
      <4>2. PICK x \in Nat : x = n * 2 ^ PushRetries
        BY CycleConstants, OneMore
      <4>3. now - nextCycle + x < LongestCycle + 1
        BY <1>1, <2>1, <3>2, <4>1, <4>2, FetchesAreShort
      <4>4. QED
        BY <3>1, <3>5, <4>2, <4>3, NoPause DEF Timely
    <3>7. Close'
      <4>1. Behind' = 0 + (IF streak'[1] = 0 THEN 0 ELSE LongestCycle + Interval)
        BY <3>1 DEF Behind
      <4>2. CASE streak' = Streak(TRUE) /\ reached' = since + Lookback
        <5>1. streak'[1] = 0 /\ nextCycle' <= reached'
          BY <2>1, <3>1, <4>2, FailuresCounted DEF PaceInv, Timely
        <5>2. Behind' = 0 + 0
          BY <4>1, <5>1
        <5>3. nextCycle' <= reached' + Behind'
          BY <3>3, <5>1, <5>2
        <5>4. QED
          BY <5>1, <5>3 DEF Close
      <4>3. CASE streak' = Streak(FALSE) /\ reached' = reached
        <5>1. CASE streak'[2] = 2
          BY <5>1 DEF Close
        <5>2. CASE streak[2] # 2 /\ streak[1] = 0 /\ streak'[1] = 1
          <6>1. Behind = (LongestCycle + Interval) + 0
            BY <2>1, <5>2 DEF Behind
          <6>2. Behind' = 0 + (LongestCycle + Interval)
            BY <4>1, <5>2, 1 # 0
          <6>3. nextCycle <= reached + Behind
            BY <5>2 DEF PaceInv, Close
          <6>4. nextCycle' <= reached' + Behind'
            BY <1>1, <3>1, <3>2, <4>3, <6>1, <6>2, <6>3
          <6>5. QED
            BY <5>2, <6>4 DEF Close
        <5>3. QED
          BY <4>3, <5>1, <5>2, FailuresCounted
      <4>4. QED
        BY <2>3, <4>2, <4>3
    <3>8. QED
      BY <3>4, <3>6, <3>7 DEF PaceInv
  <2>7. QED
    BY <2>5, <2>6
<1>5. CASE PostStep
  <2>1. /\ pc = "push" /\ toSend # <<>> /\ GoesOn(AfterBatch, waiting) /\ tries' = 0
        /\ UNCHANGED <<now, nextCycle, since, reached, attempt, polls, streak, pc, request>>
    BY <1>5 DEF PostStep, Posted, pollingVars, fetch, history
  <2>2. QED
    BY <2>1, PushGoesOn
<1>6. ASSUME NEW e \in PushFailures, NEW arrived \in BOOLEAN, PostFailure(e, arrived)
      PROVE  PaceInv'
  <2>1. /\ pc = "push" /\ toSend # <<>>
        /\ UNCHANGED <<nextCycle, since, reached, attempt, polls, streak, pc, request>>
        /\ now' = now + (IF RetriesPost(e) THEN 2 ^ tries ELSE 0)
    BY <1>6 DEF PostFailure, PostFails, Passes, fetch, history
  <2>2. CASE RetriesPost(e)
    <3>1. /\ tries < PushRetries /\ tries' = tries + 1 /\ UNCHANGED <<toSend, waiting>>
          /\ now' = now + 2 ^ tries
      BY <1>6, <2>1, <2>2 DEF PostFailure, PostFails, RetriesPost
    <3>2. Behind' = Behind /\ \A n : Posts(n)' <=> Posts(n)
      BY <2>1, <3>1 DEF Posts, Behind
    <3>3. 2 ^ tries + 2 ^ tries <= 2 ^ tries' /\ 2 ^ tries' \in Nat /\ 2 ^ tries \in Nat
      <4>1. tries + 1 \in Nat
        BY <1>1
      <4>2. /\ 2 ^ tries + 2 ^ tries <= 2 ^ (tries + 1) /\ 2 ^ (tries + 1) \in Nat
            /\ 2 ^ tries \in Nat
        BY <1>1, <4>1, PausesDouble, Subsets
      <4>3. QED
        BY <3>1, <4>2
    <3>4. PaceTyped'
      BY <1>1, <2>1, <3>1, <3>3 DEF PaceInv, PaceTyped
    <3>5. PICK n \in Nat : /\ Posts(n)
                           /\ now - nextCycle + n * 2 ^ PushRetries
                                 < LongestCycle + 2 ^ tries
      BY <2>1 DEF PaceInv, Timely
    <3>6. PICK x \in Nat, a \in Nat, b \in Nat :
             x = n * 2 ^ PushRetries /\ a = 2 ^ tries /\ b = 2 ^ tries'
      BY <3>3, CycleConstants, OneMore
    <3>7. now' - nextCycle + x < LongestCycle + b
      BY <1>1, <3>1, <3>3, <3>5, <3>6, CycleConstants
    <3>8. Timely'
      BY <2>1, <3>2, <3>5, <3>6, <3>7 DEF Timely
    <3>9. Close'
      BY <2>1, <3>2 DEF PaceInv, Close
    <3>10. QED
      BY <3>4, <3>8, <3>9 DEF PaceInv
  <2>3. CASE ~RetriesPost(e)
    <3>1. /\ GoesOn(<<>>, waiting) /\ tries' = 0 /\ now' = now + 0
      BY <1>6, <2>1, <2>3 DEF PostFailure, PostFails
    <3>2. now' = now
      BY <1>1, <3>1
    <3>3. QED
      BY <2>1, <3>1, <3>2, PushGoesOn
  <2>4. QED
    BY <2>2, <2>3
<1>7. CASE Pushed
  BY <1>1, <1>7, CycleEnds
  DEF Pushed, CycleReturns, pushVars, history, PaceInv, PaceTyped
<1>8. CASE Killed
  <2>1. /\ pc # "idle" /\ pc' = "idle" /\ request' = "none" /\ attempt' = 0
        /\ nextCycle' = now /\ tries' = 0 /\ waiting' = <<>>
        /\ UNCHANGED <<now, polls, since, reached>>
        /\ streak' = IF pc = "push" THEN streak ELSE Streak(FALSE)
    BY <1>8 DEF Killed, Kill, PushKilled
  <2>2. pc \in {"token", "send", "fetched", "push"}
    BY <2>1 DEF PaceInv, PaceTyped
  <2>3. /\ attempt' \in 0 .. MaxRetries /\ tries' \in 0 .. PushRetries /\ polls' \in Nat
        /\ nextCycle' \in {now, now + Interval} /\ request' \notin {"status", "results"}
    BY <1>1, <2>1
  <2>4. QED
    BY <2>1, <2>2, <2>3, CycleEnds
<1>9. QED
  BY <1>2, <1>3, <1>4, <1>5, <1>6, <1>7, <1>8 DEF Next

LEMMA PaceHolds == Spec => []PaceInv
<1>1. Init => PaceInv
  <2>1. SUFFICES ASSUME Init PROVE PaceInv
    OBVIOUS
  <2>2. LongestCycle + Interval \in Nat
    BY Constants, CycleConstants
  <2>3. PaceTyped /\ Timely
    BY <2>1, Constants DEF Init, PollingInit, PushInit, PaceTyped, Timely
  <2>4. Behind = (LongestCycle + Interval) + 0
    BY <2>1 DEF Init, PollingInit, Behind
  <2>5. Close
    BY <2>1, <2>2, <2>4 DEF Init, PollingInit, Close
  <2>6. QED
    BY <2>3, <2>5 DEF PaceInv
<1>2. PaceInv /\ PushInv /\ HandInv /\ [Next]_vars => PaceInv'
  BY PaceStep
<1>3. QED
  BY <1>1, <1>2, PushHolds, HandHolds, PTL DEF Spec

\* Unless two in a row went wrong, the last cycle that took all it found is no further
\* away than two intervals and three cycles.
LEMMA CyclesAreClose ==
  ASSUME PaceInv, PushInv, HandInv, streak[2] # 2
  PROVE  now - reached <= 2 * Interval + 3 * LongestCycle /\ now - reached \in Int
<1>1. /\ now \in Nat /\ nextCycle \in Nat /\ reached \in Int /\ Interval \in Nat
      /\ LongestCycle \in Nat
  BY Constants, CycleConstants DEF PaceInv, PaceTyped
<1>2. now <= nextCycle + LongestCycle /\ nextCycle <= reached + Behind
  BY CyclesAreShort DEF PaceInv, Close
<1>3. Behind \in Nat /\ Behind <= 2 * (LongestCycle + Interval)
  BY <1>1 DEF Behind
<1>4. QED
  BY <1>1, <1>2, <1>3

\* A window that is longer than the delay of the source, two intervals and three of the
\* longest cycles misses nothing, for any documents, limits, sources, answers and
\* failures: what keeps the cycles close enough is that every client and every push
\* gives up (run_pipeline.py with soc/daemon.py, and the retries of each client).
THEOREM LongWindowsMissNothing ==
  ASSUME Lookback >= Lag + 2 * Interval + 3 * LongestCycle
  PROVE  Spec => []NothingMissed
<1>1. PaceInv /\ PushInv /\ HandInv => Prompt
  <2>1. SUFFICES ASSUME PaceInv, PushInv, HandInv, streak[2] # 2
                 PROVE  now - reached <= Lookback - Lag
    BY DEF Prompt
  <2>2. PICK n \in Int : n = now - reached /\ n <= 2 * Interval + 3 * LongestCycle
    BY <2>1, CyclesAreClose
  <2>3. LongestCycle \in Nat /\ Interval \in Nat /\ Lookback \in Nat /\ Lag \in Nat
    BY Constants, CycleConstants
  <2>4. QED
    BY <2>2, <2>3
<1>2. QED
  BY <1>1, PaceHolds, PushHolds, HandHolds, CloseCyclesMissNothing, PTL

-----------------------------------------------------------------------------
(* What comes back after its key has expired.                              *)

\* What each source is asked for, and which of them may not heed what is asked.
Asked ==
    /\ client = "alerts_json" => request \in {"none", "agents", "read"}
    /\ client = "indexer" => request \in {"none", "agents", "search"}
    /\ client = "security_onion" => request \in {"none", "query"}
    /\ client = "splunk" => request \in {"none", "create", "status", "results"}
    /\ ~filters => client \in {"indexer", "security_onion"}

\* Nothing is found before it came to be, and by a job nothing outside its window.
Known ==
    /\ \A d \in indexed : Time[d] # NoTime => Time[d] <= now
    /\ batch \subseteq indexed /\ cursor \subseteq indexed /\ job.found \subseteq indexed
    /\ \A d \in job.found : InWindow(d, since)
    /\ client # "splunk" => job = NoJob

\* What is in hand is of the window, or it has no time and the server does not heed
\* the window, or it is read from the file for the first time.
InHand ==
    /\ pc = "fetched" => \A d \in batch :
          IF Time[d] # NoTime THEN Time[d] >= since ELSE ~filters \/ client = "alerts_json"
    /\ client = "alerts_json" =>
          /\ \A d \in Docs : processed[d] > 0 => d \in cursor
          /\ pc = "fetched" => \A d \in batch : d \in cursor /\ processed[d] = 0

\* A key lives longer than its document by what keys live.
Keyed ==
    \A d \in Docs : Time[d] # NoTime /\ processed[d] > 0 =>
        \E k \in seen : k.key = d /\ k.until \in Int /\ k.until >= Time[d] + KeyLife

KeyInv == Asked /\ Known /\ InHand /\ Keyed /\ NothingProcessedTwice

LEMMA Clock ==
  ASSUME SessionInv, NEW d \in Docs, Time[d] # NoTime,
         now' = now \/ \E t \in Nat : Passes(t)
  PROVE  Time[d] \in Nat /\ now \in Nat /\ now' \in Nat /\ now <= now' /\ KeyLife \in Nat
BY DocsFinite, PollingConstants DEF PollingConstants, SessionInv, Passes

\* A step that fetches nothing.
LEMMA KeysSame ==
  ASSUME SessionInv, HandInv, KeyInv, Asked', pc' = pc \/ pc' # "fetched",
         now' = now \/ \E t \in Nat : Passes(t),
         UNCHANGED <<client, filters, indexed, batch, cursor, job, since, processed, seen>>
  PROVE  KeyInv'
<1>1. \A d \in indexed : Time[d] # NoTime => Time[d] <= now'
  <2>1. TAKE d \in indexed
  <2>2. HAVE Time[d] # NoTime
  <2>3. d \in Docs /\ Time[d] <= now
    BY <2>2 DEF HandInv, KeyInv, Known
  <2>4. QED
    BY <2>2, <2>3, Clock
<1>2. Known'
  BY <1>1 DEF KeyInv, Known, InWindow
<1>3. InHand' /\ Keyed' /\ NothingProcessedTwice'
  BY DEF KeyInv, InHand, Keyed, NothingProcessedTwice
<1>4. QED
  BY <1>2, <1>3 DEF KeyInv

\* A step that asks, with another window.
LEMMA KeysAsk ==
  ASSUME SessionInv, HandInv, KeyInv, Asked', pc' # "fetched", job'.found = {},
         job' = NoJob \/ client = "splunk", batch' \subseteq indexed,
         UNCHANGED <<client, filters, indexed, now, cursor, processed, seen>>
  PROVE  KeyInv'
<1>1. Known'
  BY DEF KeyInv, Known
<1>2. InHand' /\ Keyed' /\ NothingProcessedTwice'
  BY DEF KeyInv, InHand, Keyed, NothingProcessedTwice
<1>3. QED
  BY <1>1, <1>2 DEF KeyInv

\* A step that fetches.
LEMMA KeysFetch ==
  ASSUME PushInv, HandInv, KeyInv, pc' = "fetched", batch' \subseteq indexed,
         \A d \in batch' :
            IF Time[d] # NoTime THEN Time[d] >= since ELSE ~filters \/ client = "alerts_json",
         \/ client # "alerts_json" /\ UNCHANGED cursor
         \/ cursor' = indexed /\ batch' \cap cursor = {},
         UNCHANGED <<client, filters, request, indexed, now, job, since, processed, seen>>
  PROVE  KeyInv'
<1>1. Known' /\ Asked'
  BY DEF KeyInv, Known, Asked, InWindow
<1>2. InHand'
  <2>1. CASE client # "alerts_json"
    BY <2>1 DEF InHand
  <2>2. CASE client = "alerts_json"
    <3>1. cursor' = indexed /\ batch' \cap cursor = {}
      BY <2>2
    <3>2. \A d \in Docs : processed[d] > 0 => d \in cursor /\ d \in indexed
      BY <2>2 DEF KeyInv, InHand, Known
    <3>3. \A d \in batch' : d \in Docs /\ processed[d] \in 0 .. 2
      BY DEF HandInv, PushInv, Numbered
    <3>4. QED
      BY <2>2, <3>1, <3>2, <3>3 DEF InHand
  <2>3. QED
    BY <2>1, <2>2
<1>3. Keyed' /\ NothingProcessedTwice'
  BY DEF KeyInv, Keyed, NothingProcessedTwice
<1>4. QED
  BY <1>1, <1>2, <1>3 DEF KeyInv

LEMMA FetchingKeepsKeys ==
  ASSUME SessionInv, PushInv, HandInv, KeyInv, PollingStep
  PROVE  KeyInv'
<1>1. client \in {"alerts_json", "indexer", "security_onion", "splunk"}
  BY PollingConstants DEF PollingConstants, HandInv
<1>2. ASSUME NEW e \in Failures, TryAgain(e) \/ GiveUp(e),
             UNCHANGED <<client, filters, server, since, taken, processed>>
      PROVE  KeyInv'
  <2>1. /\ request' \in {request, "none"} /\ pc' # "fetched"
        /\ now' = now \/ \E t \in Nat : Passes(t)
    BY <1>2, PauseIsNatural DEF TryAgain, GiveUp, CycleFails, Ready, SessionInv
  <2>2. Asked'
    BY <1>2, <2>1 DEF KeyInv, Asked
  <2>3. QED
    BY <1>2, <2>1, <2>2, KeysSame DEF server, taken
<1>3. CASE Begin
  <2>1. Asked'
    BY <1>1, <1>3 DEF Begin, Enter, KeyInv, Asked
  <2>2. QED
    BY <1>3, <2>1, KeysAsk DEF Begin, Enter, NoJob
<1>4. CASE HasToken \/ Authenticate \/ SessionEnds \/ Tick
  <2>1. UNCHANGED <<client, filters, request>> /\ Asked'
    BY <1>4 DEF HasToken, Authenticate, SessionEnds, Tick, fetch, KeyInv, Asked
  <2>2. QED
    BY <1>4, <2>1, KeysSame
    DEF HasToken, Authenticate, SessionEnds, Tick, server, fetch, taken, history
<1>5. ASSUME NEW e \in Failures, AuthenticateFails(e) \/ ExchangeFails(e) PROVE KeyInv'
  BY <1>2, <1>5 DEF AuthenticateFails, ExchangeFails
<1>6. ASSUME NEW e \in Failures, Reauthenticate(e) PROVE KeyInv'
  <2>1. UNCHANGED <<client, filters, request>> /\ Asked'
    BY <1>6 DEF Reauthenticate, KeyInv, Asked
  <2>2. QED
    BY <1>6, <2>1, KeysSame DEF Reauthenticate, server, taken, history
<1>7. CASE GotAgents
  <2>1. client \in {"alerts_json", "indexer"} /\ job = NoJob
    BY <1>1, <1>7 DEF GotAgents, KeyInv, Asked, Known
  <2>2. Asked'
    BY <1>7, <2>1 DEF GotAgents, Enter, KeyInv, Asked
  <2>3. QED
    BY <1>7, <2>1, <2>2, KeysAsk
    DEF GotAgents, Enter, NoJob, server, history, KeyInv, Known
<1>8. CASE JobCreated
  <2>1. client = "splunk"
    BY <1>8 DEF JobCreated, HandInv
  <2>2. Asked'
    BY <1>8, <2>1 DEF JobCreated, Enter, KeyInv, Asked
  <2>3. job'.found = {} /\ pc' = "send" /\ batch' \subseteq indexed
    BY <1>8 DEF JobCreated, Enter, taken, KeyInv, Known
  <2>4. UNCHANGED <<client, filters, indexed, now, cursor, processed, seen>>
    BY <1>8 DEF JobCreated, taken, history
  <2>5. QED
    BY <2>1, <2>2, <2>3, <2>4, KeysAsk
<1>9. CASE JobEnds
  <2>. DEFINE there == {d \in indexed : InWindow(d, since)}
  <2>1. /\ UNCHANGED <<client, filters, request, pc, now, indexed, batch, cursor, since,
                       processed, seen>>
        /\ job.state = "RUNNING"
        /\ job'.found \in {{}, Newest(there, now)}
    BY <1>9 DEF JobEnds, fetch, taken, history
  <2>2. \A d \in there : d \in indexed /\ InWindow(d, since)
    OBVIOUS
  <2>. HIDE DEF there
  <2>3. \A d \in job'.found : d \in indexed /\ InWindow(d, since)
    BY <2>1, <2>2 DEF Newest
  <2>4. client = "splunk"
    BY <2>1 DEF KeyInv, Known, NoJob
  <2>5. Known' /\ Asked'
    BY <2>1, <2>3, <2>4 DEF KeyInv, Known, Asked, InWindow
  <2>6. InHand' /\ Keyed' /\ NothingProcessedTwice'
    BY <2>1 DEF KeyInv, InHand, Keyed, NothingProcessedTwice
  <2>7. QED
    BY <2>5, <2>6 DEF KeyInv
<1>10. ASSUME NEW flag \in BOOLEAN, JobStatus(flag) PROVE KeyInv'
  <2>1. /\ UNCHANGED <<client, filters, server, since, taken, processed>>
        /\ request = "status" /\ request' \in {"results", "status", "none"}
        /\ pc' # "fetched" /\ (now' = now \/ \E t \in Nat : Passes(t))
    BY <1>10 DEF JobStatus, Enter, CycleFails
  <2>2. client = "splunk" /\ Asked'
    BY <2>1 DEF HandInv, KeyInv, Asked
  <2>3. QED
    BY <2>1, <2>2, KeysSame DEF server, taken
<1>11. ASSUME NEW d \in Docs, Appears(d) PROVE KeyInv'
  <2>1. /\ indexed' = indexed \cup {d} /\ (Time[d] # NoTime => Time[d] <= now)
        /\ UNCHANGED <<client, filters, request, pc, now, job, batch, cursor, since,
                       processed, seen>>
    BY <1>11 DEF Appears, fetch, taken, history
  <2>2. Known' /\ Asked'
    BY <2>1 DEF KeyInv, Known, Asked, InWindow
  <2>3. InHand' /\ Keyed' /\ NothingProcessedTwice'
    BY <2>1 DEF KeyInv, InHand, Keyed, NothingProcessedTwice
  <2>4. QED
    BY <2>2, <2>3 DEF KeyInv
<1>12. CASE ReadFile
  <2>1. client = "alerts_json"
    BY <1>1, <1>12 DEF ReadFile, KeyInv, Asked
  <2>2. /\ batch' = Kept(indexed \ cursor, since) /\ cursor' = indexed /\ pc' = "fetched"
        /\ UNCHANGED <<client, filters, request, indexed, now, job, since, processed, seen>>
    BY <1>12 DEF ReadFile, server
  <2>3. \A d \in batch' : d \in indexed \ cursor /\ IsRecent(Time[d], since, now)
    BY <2>2 DEF Kept, Newest
  <2>4. QED
    BY <2>1, <2>2, <2>3, KeysFetch DEF IsRecent, TimeOf
<1>13. ASSUME NEW known \in BOOLEAN, GotResults(known) PROVE KeyInv'
  <2>1. /\ batch' \subseteq job.found /\ pc' = "fetched" /\ request = "results"
        /\ UNCHANGED <<client, filters, request, indexed, now, job, since, processed, seen,
                       cursor>>
    BY <1>13 DEF GotResults, ExtractResultRows, ListOf, NoList, Usable, server
  <2>2. client = "splunk"
    BY <2>1 DEF HandInv
  <2>3. \A d \in batch' : d \in indexed /\ Time[d] # NoTime /\ Time[d] >= since
    BY <2>1 DEF KeyInv, Known, InWindow
  <2>4. QED
    BY <2>1, <2>2, <2>3, KeysFetch
<1>14. ASSUME NEW place, GotDocuments(place) PROVE KeyInv'
  <2>1. /\ pc' = "fetched" /\ request \in {"search", "query"}
        /\ UNCHANGED <<client, filters, request, indexed, now, job, since, processed, seen,
                       cursor>>
    BY <1>14 DEF GotDocuments, server
  <2>2. client # "alerts_json"
    BY <2>1 DEF KeyInv, Asked
  <2>3. \A d \in batch' : /\ d \in indexed
                          /\ IF Time[d] # NoTime THEN Time[d] >= since ELSE ~filters
    <3>. DEFINE found == Found(since)
               list == ListOf(found)
               Place(name) == IF place = name THEN list ELSE NoList
               response == [events |-> Place("events"), data |-> Place("data"),
                            hits |-> Place("hits")]
               documents == IF client = "indexer" THEN ExtractHits(response, Docs)
                            ELSE ExtractEventDocuments(response, Docs)
    <3>1. documents \subseteq Found(since)
      BY DEF ExtractHits, ExtractEventDocuments, Usable, ListOf, NoList
    <3>2. batch' = Kept(documents, since)
      BY <1>14 DEF GotDocuments
    <3>. HIDE DEF documents
    <3>3. \A d \in batch' : d \in Found(since) /\ IsRecent(Time[d], since, now)
      BY <3>1, <3>2 DEF Kept, Newest
    <3>4. \A d \in Found(since) : d \in indexed /\ (filters => InWindow(d, since))
      BY DEF Found, Newest
    <3>5. QED
      BY <3>3, <3>4 DEF IsRecent, TimeOf, InWindow
  <2>4. QED
    BY <2>1, <2>2, <2>3, KeysFetch
<1>15. QED
  BY <1>3, <1>4, <1>5, <1>6, <1>7, <1>8, <1>9, <1>10, <1>11, <1>12, <1>13, <1>14
  DEF PollingStep

\* What is taken again has no time, or its key would have lived longer than the window
\* and the fetch.
LEMMA TakeKeepsKeys ==
  ASSUME KeyLife >= Lookback + LongestFetch, SessionInv, PushInv, HandInv, PaceInv, KeyInv,
         NEW docs \in SUBSET Docs, NEW returns \in BOOLEAN, Take(docs, returns)
  PROVE  KeyInv'
<1>1. /\ UNCHANGED <<client, filters, indexed, job, since, now, request, cursor, batch>>
      /\ pc = "fetched" /\ pc' \in {"push", "idle"} /\ docs \subseteq batch
      /\ \A d \in docs : \A k \in seen : k.key = d => ~(k.until > now)
      /\ seen' = {k \in seen : \A d \in docs : k.key # d}
                    \cup {[key |-> d, until |-> now + KeyLife] : d \in docs}
      /\ processed' = [d \in Docs |-> IF d \in docs /\ processed[d] < 2
                                      THEN processed[d] + 1 ELSE processed[d]]
  BY DEF Take, Fresh, Key, Id, server
<1>2. \A d \in Docs : processed[d] \in 0 .. 2
  BY DEF PushInv, Numbered
<1>3. /\ now \in Nat /\ since \in Int /\ KeyLife \in Nat /\ Lookback \in Nat
      /\ LongestFetch \in Nat /\ nextCycle \in Nat
      /\ \A d \in Docs : Time[d] # NoTime => Time[d] \in Nat
  BY DocsFinite, CycleConstants, PollingConstants DEF PollingConstants, PaceInv, PaceTyped
<1>4. \A d \in docs : Time[d] # NoTime => processed[d] = 0
  <2>1. SUFFICES ASSUME NEW d \in docs, Time[d] # NoTime, processed[d] # 0 PROVE FALSE
    OBVIOUS
  <2>2. PICK k \in seen : k.key = d /\ k.until \in Int /\ k.until >= Time[d] + KeyLife
    BY <1>2, <2>1 DEF KeyInv, Keyed
  <2>3. k.until <= now
    BY <1>1, <1>3, <2>2
  <2>4. Time[d] >= since
    BY <1>1, <2>1 DEF KeyInv, InHand
  <2>5. nextCycle <= since + Lookback /\ now - nextCycle < LongestFetch
    BY <1>1, FetchesAreShort DEF PaceInv, Timely
  <2>6. PICK t \in Nat, u \in Int : t = Time[d] /\ u = k.until
    BY <1>3, <2>1, <2>2
  <2>7. QED
    BY <1>3, <2>2, <2>3, <2>4, <2>5, <2>6
<1>5. \A d \in docs : Time[d] = NoTime /\ processed[d] > 0 => ~filters
  <2>1. client = "alerts_json" => \A d \in docs : processed[d] = 0
    BY <1>1 DEF KeyInv, InHand
  <2>2. QED
    BY <1>1, <2>1 DEF KeyInv, InHand
<1>6. \A d \in Docs : /\ d \notin docs => processed'[d] = processed[d]
                      /\ processed'[d] > 1 => processed[d] > 0
                      /\ processed'[d] > 1 /\ d \notin docs => processed[d] > 1
  BY <1>1, <1>2
<1>7. NothingProcessedTwice'
  <2>1. SUFFICES ASSUME NEW d \in Docs, processed'[d] > 1
                 PROVE  Time[d] = NoTime /\ ~filters
    BY <1>1 DEF NothingProcessedTwice
  <2>2. CASE d \in docs
    BY <1>2, <1>4, <1>5, <1>6, <2>1, <2>2
  <2>3. CASE d \notin docs
    BY <1>6, <2>1, <2>3 DEF KeyInv, NothingProcessedTwice
  <2>4. QED
    BY <2>2, <2>3
<1>8. Keyed'
  <2>1. SUFFICES ASSUME NEW d \in Docs, Time[d] # NoTime, processed'[d] > 0
                 PROVE  \E k \in seen' : /\ k.key = d /\ k.until \in Int
                                         /\ k.until >= Time[d] + KeyLife
    BY DEF Keyed
  <2>2. CASE d \in docs
    <3>1. [key |-> d, until |-> now + KeyLife] \in seen'
      BY <1>1, <2>2
    <3>2. Time[d] <= now
      BY <1>1, <2>1, <2>2 DEF KeyInv, Known
    <3>3. QED
      BY <1>3, <2>1, <3>1, <3>2
  <2>3. CASE d \notin docs
    <3>1. processed[d] > 0
      BY <1>6, <2>1, <2>3
    <3>2. PICK k \in seen : k.key = d /\ k.until \in Int /\ k.until >= Time[d] + KeyLife
      BY <2>1, <3>1 DEF KeyInv, Keyed
    <3>3. k \in seen'
      BY <1>1, <2>3, <3>2
    <3>4. QED
      BY <3>2, <3>3
  <2>4. QED
    BY <2>2, <2>3
<1>9. Asked' /\ Known'
  BY <1>1 DEF KeyInv, Asked, Known, InWindow
<1>10. InHand'
  <2>1. ASSUME client = "alerts_json" PROVE \A d \in Docs : processed'[d] > 0 => d \in cursor
    BY <1>1, <1>6, <2>1 DEF KeyInv, InHand
  <2>2. QED
    BY <1>1, <2>1 DEF InHand
<1>11. QED
  BY <1>7, <1>8, <1>9, <1>10 DEF KeyInv

LEMMA KeyStep ==
  ASSUME KeyLife >= Lookback + LongestFetch, SessionInv, PushInv, HandInv, PaceInv, KeyInv,
         [Next]_vars
  PROVE  KeyInv'
<1>1. ASSUME UNCHANGED <<client, filters, indexed, batch, cursor, job, since, processed, seen>>,
             now' = now \/ \E t \in Nat : Passes(t),
             request' \in {request, "none"}, pc' = pc \/ pc' # "fetched"
      PROVE  KeyInv'
  <2>1. Asked'
    BY <1>1 DEF KeyInv, Asked
  <2>2. QED
    BY <1>1, <2>1, KeysSame
<1>2. CASE UNCHANGED vars
  BY <1>1, <1>2 DEF vars, pollingVars, server, fetch, taken, history
<1>3. CASE PollingStep
  BY <1>3, FetchingKeepsKeys
<1>4. ASSUME NEW docs \in SUBSET Docs, NEW returns \in BOOLEAN, Taken(docs, returns)
      PROVE  KeyInv'
  BY <1>4, TakeKeepsKeys DEF Taken
<1>5. CASE PostStep
  BY <1>1, <1>5 DEF PostStep, pollingVars, server, fetch, taken, history
<1>6. ASSUME NEW e, NEW arrived, PostFailure(e, arrived) PROVE KeyInv'
  <2>1. PICK t \in Nat : t = IF RetriesPost(e) THEN 2 ^ tries ELSE 0
    BY PauseIsNatural DEF SessionInv
  <2>2. Passes(t)
    BY <1>6, <2>1 DEF PostFailure
  <2>3. QED
    BY <1>1, <1>6, <2>2 DEF PostFailure, server, fetch, taken, history
<1>7. CASE Pushed \/ Killed
  BY <1>1, <1>7 DEF Pushed, CycleReturns, Killed, Kill, server, taken, history
<1>8. QED
  BY <1>2, <1>3, <1>4, <1>5, <1>6, <1>7 DEF Next

\* If keys live longer than a window and the longest fetch together, what is processed
\* again after its key expired is a document without a time, of a server that does not
\* heed the window, however windows overlap and cycles are repeated or killed
\* (SOCPipeline._should_skip_raw_event with store.has_dedup_key and add_dedup_key).
THEOREM ProcessedOnce ==
  ASSUME KeyLife >= Lookback + LongestFetch
  PROVE  Spec => []NothingProcessedTwice
<1>1. Init => KeyInv
  <2>1. SUFFICES ASSUME Init PROVE KeyInv
    OBVIOUS
  <2>2. /\ client \in {"alerts_json", "indexer", "security_onion", "splunk"}
        /\ filters \in IF client \in {"indexer", "security_onion"} THEN BOOLEAN ELSE {TRUE}
    BY <2>1, PollingConstants DEF Init, PollingInit, PollingConstants
  <2>3. Asked /\ Known
    BY <2>1, <2>2 DEF Init, PollingInit, NoJob, Asked, Known
  <2>4. InHand /\ Keyed /\ NothingProcessedTwice
    BY <2>1 DEF Init, PollingInit, InHand, Keyed, NothingProcessedTwice
  <2>5. QED
    BY <2>3, <2>4 DEF KeyInv
<1>2. SessionInv /\ PushInv /\ HandInv /\ PaceInv /\ KeyInv /\ [Next]_vars => KeyInv'
  BY KeyStep
<1>3. KeyInv => NothingProcessedTwice
  BY DEF KeyInv
<1>4. QED
  BY <1>1, <1>2, <1>3, SessionHolds, PushHolds, HandHolds, PaceHolds, PTL DEF Spec
=============================================================================
