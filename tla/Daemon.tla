------------------------------- MODULE Daemon -------------------------------
(***************************************************************************)
(* PollingDaemon of soc/daemon.py: the loop that runs one cycle after      *)
(* another, and the signal handlers that ask it to stop.  Python runs a    *)
(* handler between any two steps of the main thread, and a handler may     *)
(* itself be interrupted by the handler of another signal.                 *)
(***************************************************************************)
EXTENDS Naturals, Sequences

CONSTANTS
    Signals,        \* the shutdown signals
    MaxSignals,     \* bound on the signals of a behaviour
    MaxCycles,      \* --max-cycles; without one, where the counts stop growing
    Slices          \* sleep slices in one poll interval

VARIABLES
    limited,        \* config.max_cycles is not None
    pc,             \* where run() is
    handlers,       \* the stack of signal handlers under way, innermost first
    stopRequested,  \* _stop_requested
    stopReason,     \* _stop_reason, or NoReason
    completed,      \* summary.cycles_completed: also counts failed cycles
    failed,         \* summary.cycles_failed
    remaining,      \* slices left of the wait between cycles
    finalReason,    \* summary.stopped_reason
    \* What has happened so far, for the properties only:
    arrived,        \* signals that have arrived, in order
    late,           \* cycles begun after a handler had set the flag
    leftOnStop      \* the flag was set when run() left its loop

history == <<arrived, late, leftOnStop>>
vars == <<limited, pc, handlers, stopRequested, stopReason, completed, failed,
          remaining, finalReason, history>>

NoReason == "none"
LimitReason == "max_cycles_reached"

\* A handler sets the flag, tests for a reason, gives one, and logs.
Handler == [signal : Signals, step : {"flag", "test", "reason", "log"}]

\* The innermost handler is the one that runs.
AtStep(from) == handlers # <<>> /\ Head(handlers).step = from
ToStep(to) == handlers' = [handlers EXCEPT ![1].step = to]

ASSUME DaemonConstants ==
    /\ NoReason \notin Signals /\ LimitReason \notin Signals
    /\ MaxSignals \in Nat
    /\ MaxCycles \in Nat \ {0} /\ Slices \in Nat \ {0}

\* Without --max-cycles, as the service runs, a daemon ends on a signal only.
Init ==
    /\ limited \in BOOLEAN
    /\ pc = "loop" /\ handlers = <<>>
    /\ stopRequested = FALSE /\ stopReason = NoReason
    /\ completed = 0 /\ failed = 0
    /\ remaining = 0 /\ finalReason = "running"
    /\ arrived = <<>> /\ late = 0 /\ leftOnStop = FALSE

(* ---- signals ---- *)

\* A second signal, of the same kind or not, interrupts the handler of the first.
Arrive(s) ==
    /\ pc # "stopped"
    /\ Len(arrived) < MaxSignals
    /\ handlers' = <<[signal |-> s, step |-> "flag"]>> \o handlers
    /\ arrived' = Append(arrived, s)
    /\ UNCHANGED <<pc, stopRequested, stopReason, completed, failed, remaining,
                   finalReason, late, leftOnStop, limited>>

HandlerFlag ==
    /\ AtStep("flag") /\ ToStep("test")
    /\ stopRequested' = TRUE
    /\ UNCHANGED <<pc, stopReason, completed, failed, remaining,
                   finalReason, history, limited>>

\* A reason already given is kept.
HandlerTest ==
    /\ AtStep("test")
    /\ ToStep(IF stopReason = NoReason THEN "reason" ELSE "log")
    /\ UNCHANGED <<pc, stopRequested, stopReason, completed, failed, remaining,
                   finalReason, history, limited>>

\* A handler that interrupts between the two may still be overwritten.
HandlerReason ==
    /\ AtStep("reason") /\ ToStep("log")
    /\ stopReason' = Head(handlers).signal
    /\ UNCHANGED <<pc, stopRequested, completed, failed, remaining,
                   finalReason, history, limited>>

\* Mutants are named for the mistake they make.
HandlerAwaitsStop ==
    /\ AtStep("log") /\ pc = "stopped"
    /\ handlers' = Tail(handlers)
    /\ UNCHANGED <<pc, stopRequested, stopReason, completed, failed, remaining,
                   finalReason, history, limited>>

HandlerReturns ==
    /\ AtStep("log")
    /\ handlers' = Tail(handlers)
    /\ UNCHANGED <<pc, stopRequested, stopReason, completed, failed, remaining,
                   finalReason, history, limited>>

(* ---- the loop: the main thread runs while no handler does ---- *)

Main(from, to) == handlers = <<>> /\ pc = from /\ pc' = to

LimitOffByOne == limited /\ completed > MaxCycles

LimitReached == limited /\ completed >= MaxCycles

\* Where run() leaves its loop, by either test.
LeaveLoop(from) ==
    /\ Main(from, "reason") /\ (stopRequested \/ LimitReached)
    /\ leftOnStop' = stopRequested

\* while not self._stop_requested and not self._cycle_limit_reached(summary)
LoopTest ==
    /\ \/ /\ Main("loop", "begin") /\ ~stopRequested /\ ~LimitReached
          /\ UNCHANGED leftOnStop
       \/ LeaveLoop("loop")
    /\ UNCHANGED <<handlers, stopRequested, stopReason, completed, failed,
                   remaining, finalReason, arrived, late, limited>>

BeginCycle ==
    /\ Main("begin", "cycle")
    /\ completed' = IF ~limited /\ completed = MaxCycles THEN completed
                                                        ELSE completed + 1
    /\ late' = IF stopRequested THEN late + 1 ELSE late
    /\ UNCHANGED <<handlers, stopRequested, stopReason, failed, remaining,
                   finalReason, arrived, leftOnStop, limited>>

FailureEndsLoop(ok) ==
    /\ Main("cycle", IF ok THEN "between" ELSE "stopped")
    /\ failed' = IF ok \/ failed = MaxCycles THEN failed ELSE failed + 1
    /\ UNCHANGED <<handlers, stopRequested, stopReason, completed, remaining,
                   finalReason, history, limited>>

\* run_cycle() returns or raises; either way it is recorded and the loop goes on.
EndCycle(ok) ==
    /\ Main("cycle", "between")
    /\ failed' = IF ok \/ failed = MaxCycles THEN failed ELSE failed + 1
    /\ UNCHANGED <<handlers, stopRequested, stopReason, completed, remaining,
                   finalReason, history, limited>>

PollsAgainAtOnce ==
    /\ \/ Main("between", "reason") /\ LimitReached
       \/ Main("between", "begin") /\ ~LimitReached
    /\ UNCHANGED <<handlers, stopRequested, stopReason, completed, failed,
                   remaining, finalReason, history, limited>>

\* No wait follows the last cycle.
AfterCycle ==
    /\ \/ LeaveLoop("between")
       \/ /\ Main("between", "wait") /\ ~stopRequested /\ ~LimitReached
          /\ UNCHANGED leftOnStop
    /\ remaining' = Slices
    /\ UNCHANGED <<handlers, stopRequested, stopReason, completed, failed,
                   finalReason, arrived, late, limited>>

\* _wait_between_cycles: one slice, or the end of the wait.
Wait ==
    /\ IF remaining > 0 /\ ~stopRequested
         THEN Main("wait", "wait") /\ remaining' = remaining - 1
         ELSE Main("wait", "loop") /\ UNCHANGED remaining
    /\ UNCHANGED <<handlers, stopRequested, stopReason, completed, failed,
                   finalReason, history, limited>>

LimitAskedFirst ==
    /\ Main("reason", "stopped")
    /\ finalReason' = IF LimitReached THEN LimitReason ELSE stopReason
    /\ UNCHANGED <<handlers, stopRequested, stopReason, completed, failed,
                   remaining, history, limited>>

\* _final_reason: a reason that was given goes first ...
AskReason ==
    /\ IF stopReason # NoReason
         THEN Main("reason", "stopped") /\ finalReason' = stopReason
         ELSE Main("reason", "limit") /\ UNCHANGED finalReason
    /\ UNCHANGED <<handlers, stopRequested, stopReason, completed, failed,
                   remaining, history, limited>>

\* ... and one given from here on comes too late.
AskLimit ==
    /\ Main("limit", "stopped")
    /\ finalReason' = IF LimitReached THEN LimitReason ELSE "stopped"
    /\ UNCHANGED <<handlers, stopRequested, stopReason, completed, failed,
                   remaining, history, limited>>

-----------------------------------------------------------------------------
Handle == HandlerFlag \/ HandlerTest \/ HandlerReason \/ HandlerReturns
Loop == LoopTest \/ BeginCycle \/ (\E ok \in BOOLEAN : EndCycle(ok))
            \/ AfterCycle \/ Wait \/ AskReason \/ AskLimit

Next == (\E s \in Signals : Arrive(s)) \/ Handle \/ Loop

\* Handlers and the loop run whenever they can, which for the loop means that
\* every cycle ends: each call a cycle makes has a timeout of its own.
Spec == Init /\ [][Next]_vars /\ WF_vars(Handle) /\ WF_vars(Loop)

-----------------------------------------------------------------------------
TypeOK ==
    /\ limited \in BOOLEAN /\ leftOnStop \in BOOLEAN
    /\ pc \in {"loop", "begin", "cycle", "between", "wait", "reason", "limit",
               "stopped"}
    /\ handlers \in Seq(Handler) /\ Len(handlers) <= Len(arrived)
    /\ stopRequested \in BOOLEAN
    /\ stopReason \in Signals \cup {NoReason}
    /\ completed \in 0 .. MaxCycles /\ failed \in 0 .. completed
    /\ remaining \in 0 .. Slices
    /\ finalReason \in Signals \cup {"running", "stopped", LimitReason}
    /\ arrived \in Seq(Signals) /\ Len(arrived) <= MaxSignals
    /\ late \in 0 .. MaxCycles

\* Once a stop has been requested at most one more cycle begins: the one the
\* loop had just decided on.  No wait or failure lets a second one in.
AtMostOneLateCycle == late <= 1

Arrived == {arrived[i] : i \in 1 .. Len(arrived)}

\* When the daemon has stopped its reason tells the truth: the name of a signal
\* that did arrive, or that all the cycles were run, and the latter only if no
\* signal had been handled when run() left its loop.  A stop is never passed off
\* as the limit, though both may hold at once.
ReasonTrue ==
    pc = "stopped" =>
        \/ finalReason \in Arrived
        \/ /\ finalReason = LimitReason /\ ~leftOnStop
           /\ limited /\ completed = MaxCycles

\* A stop that was requested ends the daemon, whatever it was doing.
StopsOnRequest == stopRequested ~> pc = "stopped"

\* Cycles go on until the limit or a stop, however many of them fail: for ever,
\* if there is no limit.
KeepsPolling ==
    \/ <>(stopRequested \/ (limited /\ completed = MaxCycles))
    \/ []<>(pc = "cycle")
=============================================================================
