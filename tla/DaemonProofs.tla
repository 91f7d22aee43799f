---------------------------- MODULE DaemonProofs ----------------------------
(***************************************************************************)
(* Proofs about Daemon for any set of signals, any number of them, any     *)
(* limit on the cycles and any length of the wait.                         *)
(***************************************************************************)
EXTENDS Daemon, SequenceTheorems, TLAPS

\* A reason, the one given or one that a handler is about to give, is the
\* name of a signal that has arrived.
ReasonsArrived ==
    /\ stopReason # NoReason => stopReason \in Arrived
    /\ \A i \in 1 .. Len(handlers) : handlers[i].signal \in Arrived

\* Once the flag is set there is a reason, or a handler that will see to it
\* before the loop moves again.
StopAccounted ==
    stopRequested /\ stopReason = NoReason =>
        \E i \in 1 .. Len(handlers) : handlers[i].step \in {"test", "reason"}

\* The cycle that began too late, if there was one, is on its way out.
LateMeansLeaving ==
    /\ late <= 1
    /\ late = 1 => /\ stopRequested
                   /\ pc \in {"cycle", "between", "reason", "limit", "stopped"}

\* What run() has established when it is at pc.
LoopKnows ==
    /\ pc = "begin" => ~LimitReached
    /\ pc = "cycle" => failed < completed \/ failed = MaxCycles
    /\ pc = "reason" => IF leftOnStop THEN stopRequested ELSE LimitReached
    /\ pc = "limit" => LimitReached /\ ~leftOnStop

IInv ==
    /\ TypeOK
    /\ ReasonsArrived
    /\ StopAccounted
    /\ LateMeansLeaving
    /\ LoopKnows
    /\ ReasonTrue

-----------------------------------------------------------------------------
(* The stack of handlers.                                                  *)

\* The head is the first element, and no other one moves with it.
LEMMA StepOfHandler ==
  ASSUME TypeOK, NEW from, NEW to \in {"flag", "test", "reason", "log"},
         AtStep(from), ToStep(to)
  PROVE  /\ Head(handlers) = handlers[1] /\ 1 \in 1 .. Len(handlers)
         /\ handlers' \in Seq(Handler) /\ Len(handlers') = Len(handlers)
         /\ handlers'[1].step = to
         /\ \A i \in 1 .. Len(handlers) :
                /\ handlers'[i].signal = handlers[i].signal
                /\ i # 1 => handlers'[i] = handlers[i]
<1>1. handlers \in Seq(Handler) /\ handlers # <<>>
  BY DEF TypeOK, AtStep
<1>2. Head(handlers) = handlers[1] /\ 1 \in 1 .. Len(handlers)
  BY <1>1, EmptySeq
<1>3. handlers[1] \in Handler
  BY <1>1, <1>2, ElementOfSeq
<1>. DEFINE moved == [handlers[1] EXCEPT !.step = to]
<1>4. moved \in Handler /\ moved.step = to /\ moved.signal = handlers[1].signal
  BY <1>3 DEF Handler
<1>5. handlers' = [handlers EXCEPT ![1] = moved]
  BY DEF ToStep
<1>. HIDE DEF moved
<1>6. QED
  BY <1>1, <1>2, <1>4, <1>5, ExceptSeq

LEMMA PushHandler ==
  ASSUME TypeOK, NEW s \in Signals, Arrive(s)
  PROVE  /\ handlers' \in Seq(Handler) /\ Len(handlers') = Len(handlers) + 1
         /\ handlers'[1] = [signal |-> s, step |-> "flag"]
         /\ \A i \in 1 .. Len(handlers) : handlers'[i + 1] = handlers[i]
         /\ arrived' \in Seq(Signals) /\ Len(arrived') = Len(arrived) + 1
         /\ s \in Arrived' /\ Arrived \subseteq Arrived'
<1>. DEFINE new == [signal |-> s, step |-> "flag"]
<1>1. handlers \in Seq(Handler) /\ arrived \in Seq(Signals)
  BY DEF TypeOK
<1>2. new \in Handler
  BY DEF Handler
<1>3. <<new>> \in Seq(Handler) /\ Len(<<new>>) = 1 /\ <<new>>[1] = new
  BY <1>2
<1>4. handlers' = <<new>> \o handlers /\ arrived' = Append(arrived, s)
  BY DEF Arrive
<1>5. Len(handlers) \in Nat /\ Len(arrived) \in Nat
  BY <1>1, LenProperties
<1>. HIDE DEF new
<1>6. /\ handlers' \in Seq(Handler) /\ Len(handlers') = Len(handlers) + 1
      /\ handlers'[1] = new
      /\ \A i \in 1 .. Len(handlers) : handlers'[i + 1] = handlers[i]
  BY <1>1, <1>3, <1>4, <1>5, ConcatProperties
<1>7. /\ arrived' \in Seq(Signals) /\ Len(arrived') = Len(arrived) + 1
      /\ \A i \in 1 .. Len(arrived) : arrived'[i] = arrived[i]
      /\ arrived'[Len(arrived) + 1] = s
  BY <1>1, <1>4, AppendProperties
<1>8. s \in Arrived' /\ Arrived \subseteq Arrived'
  BY <1>5, <1>7 DEF Arrived
<1>9. QED
  BY <1>6, <1>7, <1>8 DEF new

LEMMA PopHandler ==
  ASSUME TypeOK, HandlerReturns
  PROVE  /\ handlers' \in Seq(Handler) /\ Len(handlers') = Len(handlers) - 1
         /\ handlers[1].step = "log" /\ Len(handlers) \in Nat \ {0}
         /\ \A i \in 1 .. Len(handlers') : handlers'[i] = handlers[i + 1]
<1>1. handlers \in Seq(Handler) /\ handlers # <<>>
  BY DEF TypeOK, HandlerReturns, AtStep
<1>2. Head(handlers) = handlers[1] /\ Len(handlers) \in Nat \ {0}
  BY <1>1, EmptySeq
<1>3. QED
  BY <1>1, <1>2, HeadTailProperties DEF HandlerReturns, AtStep

-----------------------------------------------------------------------------
(* The invariant.                                                          *)

LEMMA InitEstablishes == Init => IInv
<1>. SUFFICES ASSUME Init PROVE IInv
  OBVIOUS
<1>0. <<>> \in Seq(Handler) /\ <<>> \in Seq(Signals) /\ Len(<<>>) = 0
  OBVIOUS
<1>1. TypeOK
  <2>1. handlers \in Seq(Handler) /\ arrived \in Seq(Signals)
        /\ Len(handlers) <= Len(arrived) /\ Len(arrived) <= MaxSignals
    BY <1>0, DaemonConstants DEF Init
  <2>2. completed \in 0 .. MaxCycles /\ failed \in 0 .. completed
        /\ remaining \in 0 .. Slices /\ late \in 0 .. MaxCycles
    BY DaemonConstants DEF Init
  <2>3. /\ pc = "loop" /\ stopRequested \in BOOLEAN
        /\ stopReason \in Signals \cup {NoReason} /\ finalReason = "running"
        /\ limited \in BOOLEAN /\ leftOnStop \in BOOLEAN
    BY DEF Init
  <2>4. QED
    BY <2>1, <2>2, <2>3 DEF TypeOK
<1>2. ReasonsArrived /\ StopAccounted /\ LateMeansLeaving /\ LoopKnows /\ ReasonTrue
  BY DEF Init, ReasonsArrived, StopAccounted, LateMeansLeaving, LoopKnows,
         ReasonTrue, NoReason
<1>3. QED
  BY <1>1, <1>2 DEF IInv

\* A new handler has everything still to do.
LEMMA ArrivePreserves ==
  ASSUME IInv, NEW s \in Signals, Arrive(s)
  PROVE  IInv'
<1>1. TypeOK /\ ReasonsArrived /\ StopAccounted /\ LateMeansLeaving /\ LoopKnows
  BY DEF IInv
<1>2. /\ handlers' \in Seq(Handler) /\ Len(handlers') = Len(handlers) + 1
      /\ handlers'[1] = [signal |-> s, step |-> "flag"]
      /\ \A i \in 1 .. Len(handlers) : handlers'[i + 1] = handlers[i]
      /\ arrived' \in Seq(Signals) /\ Len(arrived') = Len(arrived) + 1
      /\ s \in Arrived' /\ Arrived \subseteq Arrived'
  BY <1>1, PushHandler
<1>3. Len(handlers) \in Nat /\ Len(arrived) \in Nat
  BY <1>1, LenProperties DEF TypeOK
<1>4. TypeOK'
  BY <1>1, <1>2, <1>3, DaemonConstants DEF TypeOK, Arrive
<1>5. ReasonsArrived'
  <2>1. \A i \in 1 .. Len(handlers') : i = 1 \/ i - 1 \in 1 .. Len(handlers)
    BY <1>2, <1>3
  <2>2. \A i \in 1 .. Len(handlers') : i # 1 => handlers'[i] = handlers[i - 1]
    BY <1>2, <1>3, <2>1
  <2>3. QED
    BY <1>1, <1>2, <2>1, <2>2 DEF ReasonsArrived, Arrive
<1>6. StopAccounted'
  BY <1>1, <1>2, <1>3 DEF StopAccounted, Arrive
<1>7. LateMeansLeaving' /\ LoopKnows' /\ ReasonTrue'
  BY <1>1 DEF LateMeansLeaving, LoopKnows, LimitReached, ReasonTrue, Arrive
<1>8. QED
  BY <1>4, <1>5, <1>6, <1>7 DEF IInv

\* No handler leaves before there is a reason.
LEMMA HandlePreserves ==
  ASSUME IInv, Handle
  PROVE  IInv'
<1>1. TypeOK /\ ReasonsArrived /\ StopAccounted /\ LateMeansLeaving
      /\ LoopKnows /\ ReasonTrue
  BY DEF IInv
<1>2. Len(handlers) \in Nat /\ Len(arrived) \in Nat
  BY <1>1, LenProperties DEF TypeOK
<1>3. CASE HandlerFlag
  <2>1. /\ 1 \in 1 .. Len(handlers)
        /\ handlers' \in Seq(Handler) /\ Len(handlers') = Len(handlers)
        /\ handlers'[1].step = "test"
        /\ \A i \in 1 .. Len(handlers) : handlers'[i].signal = handlers[i].signal
    BY <1>1, <1>3, StepOfHandler DEF HandlerFlag
  <2>2. TypeOK'
    BY <1>1, <2>1, <1>3 DEF TypeOK, HandlerFlag, history
  <2>3. ReasonsArrived'
    BY <1>1, <2>1, <1>3 DEF ReasonsArrived, Arrived, HandlerFlag, history
  <2>4. StopAccounted'
    BY <2>1 DEF StopAccounted
  <2>5. LateMeansLeaving' /\ LoopKnows' /\ ReasonTrue'
    BY <1>1, <1>3 DEF LateMeansLeaving, LoopKnows, LimitReached, ReasonTrue,
                      Arrived, HandlerFlag, history
  <2>6. QED
    BY <2>2, <2>3, <2>4, <2>5 DEF IInv
<1>4. CASE HandlerTest
  <2>. DEFINE to == IF stopReason = NoReason THEN "reason" ELSE "log"
  <2>1. to \in {"flag", "test", "reason", "log"} /\ AtStep("test") /\ ToStep(to)
    BY <1>4 DEF HandlerTest
  <2>. HIDE DEF to
  <2>2. /\ 1 \in 1 .. Len(handlers)
        /\ handlers' \in Seq(Handler) /\ Len(handlers') = Len(handlers)
        /\ handlers'[1].step = to
        /\ \A i \in 1 .. Len(handlers) : handlers'[i].signal = handlers[i].signal
    BY <1>1, <2>1, StepOfHandler
  <2>3. TypeOK'
    BY <1>1, <2>2, <1>4 DEF TypeOK, HandlerTest, history
  <2>4. ReasonsArrived'
    BY <1>1, <2>2, <1>4 DEF ReasonsArrived, Arrived, HandlerTest, history
  <2>5. StopAccounted'
    BY <2>2, <1>4 DEF StopAccounted, HandlerTest, to
  <2>6. LateMeansLeaving' /\ LoopKnows' /\ ReasonTrue'
    BY <1>1, <1>4 DEF LateMeansLeaving, LoopKnows, LimitReached, ReasonTrue,
                      Arrived, HandlerTest, history
  <2>7. QED
    BY <2>3, <2>4, <2>5, <2>6 DEF IInv
<1>5. CASE HandlerReason
  <2>1. /\ Head(handlers) = handlers[1] /\ 1 \in 1 .. Len(handlers)
        /\ handlers' \in Seq(Handler) /\ Len(handlers') = Len(handlers)
        /\ \A i \in 1 .. Len(handlers) : handlers'[i].signal = handlers[i].signal
    BY <1>1, <1>5, StepOfHandler DEF HandlerReason
  <2>2. handlers[1] \in Handler /\ stopReason' = handlers[1].signal
    BY <1>1, <1>5, <2>1, ElementOfSeq DEF TypeOK, HandlerReason
  <2>3. stopReason' \in Signals /\ stopReason' # NoReason
    BY <2>2, DaemonConstants DEF Handler
  <2>4. TypeOK'
    BY <1>1, <2>1, <2>3, <1>5 DEF TypeOK, HandlerReason, history
  <2>5. ReasonsArrived'
    BY <1>1, <2>1, <2>2, <1>5 DEF ReasonsArrived, Arrived, HandlerReason, history
  <2>6. StopAccounted'
    BY <2>3 DEF StopAccounted
  <2>7. LateMeansLeaving' /\ LoopKnows' /\ ReasonTrue'
    BY <1>1, <1>5 DEF LateMeansLeaving, LoopKnows, LimitReached, ReasonTrue,
                      Arrived, HandlerReason, history
  <2>8. QED
    BY <2>4, <2>5, <2>6, <2>7 DEF IInv
<1>6. CASE HandlerReturns
  <2>1. /\ handlers' \in Seq(Handler) /\ Len(handlers') = Len(handlers) - 1
        /\ handlers[1].step = "log" /\ Len(handlers) \in Nat \ {0}
        /\ \A i \in 1 .. Len(handlers') : handlers'[i] = handlers[i + 1]
    BY <1>1, <1>6, PopHandler
  <2>2. TypeOK'
    BY <1>1, <1>2, <2>1, <1>6 DEF TypeOK, HandlerReturns, history
  <2>3. ReasonsArrived'
    BY <1>1, <2>1, <1>6 DEF ReasonsArrived, Arrived, HandlerReturns, history
  <2>4. StopAccounted'
    <3>1. SUFFICES ASSUME stopRequested, stopReason = NoReason
                   PROVE  \E i \in 1 .. Len(handlers') :
                              handlers'[i].step \in {"test", "reason"}
      BY <1>6 DEF StopAccounted, HandlerReturns
    <3>2. PICK i \in 1 .. Len(handlers) : handlers[i].step \in {"test", "reason"}
      BY <1>1, <3>1 DEF StopAccounted
    <3>3. i # 1
      BY <2>1, <3>2
    <3>4. i - 1 \in 1 .. Len(handlers') /\ handlers'[i - 1] = handlers[i]
      BY <2>1, <3>3
    <3>5. QED
      BY <3>2, <3>4
  <2>5. LateMeansLeaving' /\ LoopKnows' /\ ReasonTrue'
    BY <1>1, <1>6 DEF LateMeansLeaving, LoopKnows, LimitReached, ReasonTrue,
                      Arrived, HandlerReturns, history
  <2>6. QED
    BY <2>2, <2>3, <2>4, <2>5 DEF IInv
<1>7. QED
  BY <1>3, <1>4, <1>5, <1>6 DEF Handle

\* The loop moves only while no handler is under way, so that a flag it sees
\* comes with a reason.
LEMMA LoopPreserves ==
  ASSUME IInv, Loop
  PROVE  IInv'
<1>1. TypeOK /\ ReasonsArrived /\ StopAccounted /\ LateMeansLeaving
      /\ LoopKnows /\ ReasonTrue
  BY DEF IInv
<1>2. handlers = <<>>
  BY DEF Loop, LoopTest, LeaveLoop, BeginCycle, EndCycle, AfterCycle, Wait,
         AskReason, AskLimit, Main
<1>3. UNCHANGED <<handlers, stopRequested, stopReason, arrived>>
  BY DEF Loop, LoopTest, LeaveLoop, BeginCycle, EndCycle, AfterCycle, Wait,
         AskReason, AskLimit, history
<1>4. stopRequested => stopReason # NoReason
  BY <1>1, <1>2 DEF StopAccounted
<1>5. ReasonsArrived' /\ StopAccounted'
  BY <1>1, <1>3 DEF ReasonsArrived, StopAccounted, Arrived
<1>6. CASE LoopTest
  <2>1. TypeOK'
    BY <1>1, <1>6 DEF TypeOK, LoopTest, LeaveLoop, Main
  <2>2. LateMeansLeaving' /\ LoopKnows' /\ ReasonTrue'
    BY <1>1, <1>6, DaemonConstants
       DEF LateMeansLeaving, LoopKnows, LimitReached, ReasonTrue, TypeOK,
           LoopTest, LeaveLoop, Main
  <2>3. QED
    BY <1>5, <2>1, <2>2 DEF IInv
<1>7. CASE BeginCycle
  <2>1. late = 0 /\ ~LimitReached
    BY <1>1, <1>7 DEF TypeOK, LoopKnows, LateMeansLeaving, BeginCycle, Main
  <2>2. \/ completed < MaxCycles /\ completed' = completed + 1
        \/ completed = MaxCycles /\ completed' = completed
    BY <1>1, <1>7, <2>1, DaemonConstants DEF TypeOK, LimitReached, BeginCycle
  <2>3. TypeOK'
    BY <1>1, <1>7, <2>1, <2>2, DaemonConstants DEF TypeOK, BeginCycle, Main
  <2>4. LateMeansLeaving' /\ LoopKnows' /\ ReasonTrue'
    BY <1>1, <1>7, <2>1, <2>2, DaemonConstants
       DEF LateMeansLeaving, LoopKnows, ReasonTrue, TypeOK, BeginCycle, Main
  <2>5. QED
    BY <1>5, <2>3, <2>4 DEF IInv
<1>8. ASSUME NEW ok \in BOOLEAN, EndCycle(ok)
      PROVE  IInv'
  <2>1. failed < completed \/ failed = MaxCycles
    BY <1>1, <1>8 DEF LoopKnows, EndCycle, Main
  <2>2. TypeOK'
    BY <1>1, <1>8, <2>1, DaemonConstants DEF TypeOK, EndCycle, Main, history
  <2>3. LateMeansLeaving' /\ LoopKnows' /\ ReasonTrue'
    BY <1>1, <1>8
       DEF LateMeansLeaving, LoopKnows, ReasonTrue, EndCycle, Main, history
  <2>4. QED
    BY <1>5, <2>2, <2>3 DEF IInv
<1>9. CASE AfterCycle
  <2>1. TypeOK'
    BY <1>1, <1>9, DaemonConstants DEF TypeOK, AfterCycle, LeaveLoop, Main
  <2>2. LateMeansLeaving' /\ LoopKnows' /\ ReasonTrue'
    BY <1>1, <1>9 DEF LateMeansLeaving, LoopKnows, LimitReached, ReasonTrue,
                      TypeOK, AfterCycle, LeaveLoop, Main
  <2>3. QED
    BY <1>5, <2>1, <2>2 DEF IInv
<1>10. CASE Wait
  <2>1. TypeOK'
    BY <1>1, <1>10, DaemonConstants DEF TypeOK, Wait, Main, history
  <2>2. LateMeansLeaving' /\ LoopKnows' /\ ReasonTrue'
    BY <1>1, <1>10 DEF LateMeansLeaving, LoopKnows, LimitReached, ReasonTrue,
                       TypeOK, Wait, Main, history
  <2>3. QED
    BY <1>5, <2>1, <2>2 DEF IInv
<1>11. CASE AskReason
  <2>1. stopReason # NoReason => stopReason \in Arrived
    BY <1>1 DEF ReasonsArrived
  <2>2. stopReason = NoReason => LimitReached /\ ~leftOnStop
    BY <1>1, <1>4, <1>11 DEF LoopKnows, AskReason, Main
  <2>3. TypeOK'
    BY <1>1, <1>11 DEF TypeOK, AskReason, Main, history
  <2>4. LateMeansLeaving' /\ LoopKnows'
    BY <1>1, <1>11, <2>2
       DEF LateMeansLeaving, LoopKnows, LimitReached, AskReason, Main, history
  <2>5. ReasonTrue'
    BY <1>1, <1>3, <1>11, <2>1 DEF ReasonTrue, Arrived, AskReason, Main
  <2>6. QED
    BY <1>5, <2>3, <2>4, <2>5 DEF IInv
<1>12. CASE AskLimit
  <2>1. LimitReached /\ ~leftOnStop
    BY <1>1, <1>12 DEF LoopKnows, AskLimit, Main
  <2>2. TypeOK'
    BY <1>1, <1>12, <2>1 DEF TypeOK, AskLimit, Main, history
  <2>3. LateMeansLeaving' /\ LoopKnows'
    BY <1>1, <1>12 DEF LateMeansLeaving, LoopKnows, AskLimit, Main, history
  <2>4. limited' /\ completed' = MaxCycles
    BY <1>1, <1>12, <2>1, DaemonConstants DEF TypeOK, LimitReached, AskLimit
  <2>5. ReasonTrue'
    BY <1>12, <2>1, <2>4 DEF ReasonTrue, AskLimit, history
  <2>6. QED
    BY <1>5, <2>2, <2>3, <2>5 DEF IInv
<1>13. QED
  BY <1>6, <1>7, <1>8, <1>9, <1>10, <1>11, <1>12 DEF Loop

LEMMA StutterPreserves == IInv /\ UNCHANGED vars => IInv'
BY DEF IInv, TypeOK, ReasonsArrived, StopAccounted, LateMeansLeaving, LoopKnows,
       history, ReasonTrue, LimitReached, Arrived, vars

\* The invariant holds in every state of every behaviour.
THEOREM InvariantAlways == Spec => []IInv
<1>1. Init => IInv
  BY InitEstablishes
<1>2. IInv /\ [Next]_vars => IInv'
  BY ArrivePreserves, HandlePreserves, LoopPreserves, StutterPreserves DEF Next
<1>3. QED
  BY <1>1, <1>2, PTL DEF Spec

\* Every variable keeps its type: no count passes its limit, and run() is at
\* one of the places named.
THEOREM TypeCorrect == Spec => []TypeOK
<1>1. IInv => TypeOK
  BY DEF IInv
<1>2. QED
  BY <1>1, InvariantAlways, PTL

\* However many signals arrive and wherever they do, at most one cycle begins
\* after run() could have known of the stop.
THEOREM OneLateCycleAtMost == Spec => []AtMostOneLateCycle
<1>1. IInv => AtMostOneLateCycle
  BY DEF IInv, LateMeansLeaving, AtMostOneLateCycle
<1>2. QED
  BY <1>1, InvariantAlways, PTL

\* The reason run() reports when it returns is a signal that did arrive, or that
\* the limit on cycles was reached and no signal had been handled by then.
THEOREM ReasonAlwaysTrue == Spec => []ReasonTrue
<1>1. IInv => ReasonTrue
  BY DEF IInv
<1>2. QED
  BY <1>1, InvariantAlways, PTL
=============================================================================
