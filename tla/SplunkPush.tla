---------------------------- MODULE SplunkPush ----------------------------
(***************************************************************************)
(* SplunkClient of soc/splunk_client.py and the two pushes of a cycle in   *)
(* run_pipeline.py: the triage results of the cycle in batches, and then   *)
(* its incidents, each push on its own.                                    *)
(***************************************************************************)
EXTENDS SourceClients, FiniteSets

CONSTANTS
    Results,        \* what is sent: numbered triage results, and an incident
    BatchSize, PushRetries,
    PushFailures    \* exchanges with the collector that fail

Incident == 0

ASSUME PushConstants ==
    /\ Incident \in Results /\ IsFiniteSet(Results)
    /\ BatchSize \in Nat \ {0} /\ PushRetries \in Nat

VARIABLES
    toSend,         \* what the push that is going on has not sent, in order
    waiting,        \* what the push after it is to send
    tries,          \* of the batch at the head of toSend
    \* What has happened, for the properties only:
    collected,      \* how often the collector has got each event, up to 2
    unheard,        \* events whose fate an exchange has left open
    given           \* events that were given up, or were never come to

pushVars == <<toSend, waiting, tries, collected, unheard, given>>

PushInit ==
    /\ toSend = <<>> /\ waiting = <<>> /\ tries = 0
    /\ collected = [d \in Results |-> 0] /\ unheard = {} /\ given = {}

Unsent == ToSet(toSend) \cup ToSet(waiting)

\* A push sends what is left of it; with nothing left the other push begins.
GoesOn(left, next) ==
    IF left # <<>> THEN toSend' = left /\ waiting' = next
                   ELSE toSend' = next /\ waiting' = <<>>

\* The result of a cycle is sent after the cycle, its incidents last.
Push(docs, incidents) ==
    /\ GoesOn(SetToSeq(docs), incidents) /\ tries' = 0
    /\ collected' = [collected EXCEPT ![Incident] = 0]   \* it is another one
    /\ unheard' = unheard \ {Incident} /\ given' = given \ {Incident}

Collect(events) ==
    [d \in Results |-> IF d \in ToSet(events) /\ collected[d] < 2
                       THEN collected[d] + 1 ELSE collected[d]]

\* The last batch is what is left, if only one event.
Batch == SubSeq(toSend, 1, IF Len(toSend) < BatchSize THEN Len(toSend) ELSE BatchSize)

AfterBatchToLastIndex ==
    SubSeq(toSend, IF Len(toSend) = BatchSize + 1 THEN Len(toSend) + 1 ELSE BatchSize + 1,
           Len(toSend))

AfterBatch == SubSeq(toSend, BatchSize + 1, Len(toSend))

Posted ==
    /\ toSend # <<>>
    /\ collected' = Collect(Batch)
    /\ GoesOn(AfterBatch, waiting) /\ tries' = 0
    /\ UNCHANGED <<unheard, given>>

\* These are the answers of a gateway that may have passed the batch on.
GatewayCodes == {502, 504}

\* Nothing says what became of the batch.
LeavesOpen(e) == Unanswered(e) \/ (e.kind = "http" /\ e.code \in GatewayCodes)

\* The collector may also have taken a batch whose answer cannot be read.  It has
\* not if it says so, in a status or in a code inside a 200.
MayBeTaken(e) == LeavesOpen(e) \/ e.kind = "malformed"

RetriesUnreadable(e) ==
    tries < PushRetries /\ (CollectorRetries(e) \/ e.kind = "malformed")

RetriesPost(e) == tries < PushRetries /\ CollectorRetries(e)

\* Given up, the rest of this push is not sent; the other push is.
PostFails(e, arrived) ==
    /\ toSend # <<>> /\ (arrived => MayBeTaken(e))
    /\ collected' = IF arrived THEN Collect(Batch) ELSE collected
    /\ unheard' = IF LeavesOpen(e) THEN unheard \cup ToSet(Batch) ELSE unheard
    /\ IF RetriesPost(e)
       THEN /\ tries' = tries + 1 /\ UNCHANGED <<toSend, waiting, given>>
       ELSE /\ GoesOn(<<>>, waiting) /\ tries' = 0
            /\ given' = given \cup ToSet(toSend)

\* A kill takes what was not sent with it.
PushKilled ==
    /\ toSend' = <<>> /\ waiting' = <<>> /\ tries' = 0
    /\ given' = given \cup Unsent
    /\ UNCHANGED <<collected, unheard>>
=============================================================================
