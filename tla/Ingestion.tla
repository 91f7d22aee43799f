----------------------------- MODULE Ingestion -----------------------------
(***************************************************************************)
(* run_pipeline.py as a daemon with --splunk: a cycle fetches, takes and   *)
(* then pushes what it has taken; the next one begins an interval later.   *)
(***************************************************************************)
EXTENDS SourcePolling, SplunkPush

ASSUME IngestionConstants == Results = Docs \cup {Incident} /\ Incident \notin Docs

vars == <<pollingVars, pushVars>>

Init == PollingInit /\ PushInit

\* A cycle that took something has one incident.
Taken(docs, returns) ==
    /\ Take(docs, returns)
    /\ IF returns
       THEN Push(docs, IF docs = {} THEN <<>> ELSE <<Incident>>)
       ELSE /\ given' = given \cup docs
            /\ UNCHANGED <<toSend, waiting, tries, collected, unheard>>

PostStep == pc = "push" /\ Posted /\ UNCHANGED pollingVars

PostFailure(e, arrived) ==
    /\ pc = "push" /\ PostFails(e, arrived) /\ Fault
    /\ Passes(IF RetriesPost(e) THEN 2 ^ tries ELSE 0)
    /\ UNCHANGED <<client, filters, server, fetch, nextCycle, taken, history>>

Pushed == CycleReturns /\ toSend = <<>> /\ UNCHANGED pushVars

Killed == Kill /\ PushKilled

Next ==
    \/ PollingStep /\ UNCHANGED pushVars
    \/ \E docs \in SUBSET Docs, returns \in BOOLEAN : Taken(docs, returns)
    \/ PostStep \/ Pushed \/ Killed
    \/ \E e \in PushFailures, arrived \in BOOLEAN : PostFailure(e, arrived)

Spec == Init /\ [][Next]_vars

-----------------------------------------------------------------------------
\* Once its window is past, every wanted document has been taken, however late it
\* could be found, unless two cycles in a row went wrong, there was more than a
\* search returns, or alerts read behind the cursor were in the hands of a cycle
\* that failed.
NothingMissed ==
    \A d \in Docs :
        /\ Time[d] # NoTime /\ WantedLevel(d)
        /\ now - Lookback > Time[d]
        => processed[d] > 0 \/ streak[2] = 2 \/ lossy \/ spilled

\* Windows overlap, cycles are repeated and keys expire, but what comes back after
\* its key expired is a document without a time, of a server that does not heed the
\* window it is asked for.
NothingProcessedTwice ==
    \A d \in Docs : processed[d] > 1 => Time[d] = NoTime /\ ~filters

\* Security Onion never gets a token that its client knows to be over.
NoExpiredTokenSent == pc = "send" /\ request = "query" => token > now

\* Credentials that were rejected are not sent again in that cycle.
CredentialsRejectedOnce == rejections < 2

\* What was decided on reaches the collector, or belongs to a push that failed or
\* a cycle that died; nobody sends it later.
DecidedIsCollected ==
    pc = "idle" => \A d \in Docs : processed[d] > 0 => collected[d] > 0 \/ d \in given

\* The collector has an event more often than it was made only if an exchange never
\* said what became of it.
Made(r) == IF r = Incident THEN 1 ELSE processed[r]

CollectedAgainForCause == \A r \in Results : collected[r] > Made(r) => r \in unheard
=============================================================================
