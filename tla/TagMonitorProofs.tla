-------------------------- MODULE TagMonitorProofs --------------------------
(***************************************************************************)
(* Theorems about TagMonitor, for every set of subscriptions, every channel*)
(* capacity and every modulus.                                             *)
(***************************************************************************)
EXTENDS TagMonitor, SequenceTheorems, TLAPS

USE DEF monitorVars, callVars, subVars, vars

\* Channels and flags are open or closed, set or not.
LEMMA FlagsCorrect == Spec => []FlagsOK
<1> USE DEF FlagsOK
<1>1. Init => FlagsOK
  <2>1. [s \in Subs |-> FALSE] \in [Subs -> BOOLEAN]
    OBVIOUS
  <2>2. QED  BY <2>1, Zenon DEF Init
<1>2. FlagsOK /\ [Next]_vars => FlagsOK'
  <2> SUFFICES ASSUME FlagsOK, [Next]_vars PROVE FlagsOK'
    OBVIOUS
  <2>1. ASSUME NEW s \in Subs, AddTag(s) PROVE FlagsOK'
    BY <2>1, Zenon DEF AddTag, AddStore, AddCount, AddGo
  <2>2. ASSUME NEW s \in Subs, Stop(s) PROVE FlagsOK'
    <3>1. CASE StopSignal(s)
      BY <3>1 DEF StopSignal
    <3>2. CASE StopCall(s) \/ StopReturn(s)
      BY <3>2, Zenon DEF StopCall, StopReturn
    <3>3. QED  BY <2>2, <3>1, <3>2 DEF Stop
  <2>3. ASSUME NEW s \in Subs, Poller(s) PROVE FlagsOK'
    <3>1. CASE RunStop(s)
      BY <3>1 DEF RunStop
    <3>2. CASE ~RunStop(s)
      BY <2>3, <3>2, Zenon DEF Poller, RunStart, RunTick, RunDone, PollRead,
           PollHandled, EmitCheck, EmitSend, EmitDrop, HandlerStop,
           HandlerStopReturn
    <3>3. QED  BY <3>1, <3>2
  <2>4. CASE Close
    <3>1. ASSUME NEW s \in Subs, CloseSignal(s) PROVE FlagsOK'
      BY <3>1 DEF CloseSignal
    <3>2. ASSUME NEW s \in Subs, CloseStopped(s) PROVE FlagsOK'
      BY <3>2, Zenon DEF CloseStopped
    <3>3. CASE CloseStopCh \/ CloseTakeSubs
      BY <3>3, Zenon DEF CloseStopCh, CloseTakeSubs
    <3>4. CASE CloseWait \/ CloseWaited \/ CloseEvents
      BY <3>4, Zenon DEF CloseWait, CloseWaited, CloseEvents
    <3>5. QED  BY <2>4, <3>1, <3>2, <3>3, <3>4 DEF Close
  <2>5. CASE Receive \/ UNCHANGED vars
    BY <2>5, Zenon DEF Receive
  <2> QED  BY <2>1, <2>2, <2>3, <2>4, <2>5 DEF Next
<1>3. QED  BY <1>1, <1>2, PTL DEF Spec

\* The sets of subscriptions, the program counters and the events the pollers
\* carry keep their types.
LEMMA ProgressCorrect == Spec => []ProgressOK
<1> USE DEF ProgressOK, Kinds, NoEvent, ClosePcs, AddPcs, StopPcs, GPcs, Working
<1>1. Init => ProgressOK
  BY DEF Init
<1>2. ProgressOK /\ [Next]_vars => ProgressOK'
  <2> SUFFICES ASSUME ProgressOK, [Next]_vars PROVE ProgressOK'
    OBVIOUS
  <2>1. ASSUME NEW s \in Subs, AddTag(s) PROVE ProgressOK'
    BY <2>1 DEF AddTag, AddStore, AddCount, AddGo
  <2>2. ASSUME NEW s \in Subs, Stop(s) PROVE ProgressOK'
    BY <2>2 DEF Stop, StopCall, StopSignal, StopReturn, RemoveSub
  <2>3. ASSUME NEW s \in Subs, Poller(s) PROVE ProgressOK'
    <3> USE DEF Go, PollEnd
    <3>1. CASE RunStart(s) \/ RunTick(s) \/ RunStop(s) \/ RunDone(s)
      BY <3>1 DEF RunStart, RunTick, RunStop, RunDone
    <3>2. CASE PollRead(s) \/ PollHandled(s)
      BY <3>2 DEF PollRead, PollHandled
    <3>3. CASE EmitCheck(s) \/ EmitSend(s) \/ EmitDrop(s)
      BY <3>3 DEF EmitCheck, EmitSend, EmitDrop
    <3>4. CASE HandlerStop(s) \/ HandlerStopReturn(s)
      BY <3>4 DEF HandlerStop, HandlerStopReturn, RemoveSub
    <3>5. QED  BY <2>3, <3>1, <3>2, <3>3, <3>4 DEF Poller
  <2>4. CASE Close
    BY <2>4 DEF Close, CloseStopCh, CloseTakeSubs, CloseSignal, CloseStopped,
                CloseWait, CloseWaited, CloseEvents
  <2>5. CASE Receive \/ UNCHANGED vars
    BY <2>5 DEF Receive
  <2> QED  BY <2>1, <2>2, <2>3, <2>4, <2>5 DEF Next
<1>3. QED  BY <1>1, <1>2, PTL DEF Spec

\* How calls, pollers, wait group and Close move together.
LEMMA InductiveInvariant == Spec => []IInv
<1> USE DEF IInv, CallInv, WaitInv, CloseInv, NoEvent
<1>1. Init => IInv
  BY DEF Init
<1>2. FlagsOK /\ ProgressOK /\ IInv /\ [Next]_vars => IInv'
  <2> SUFFICES ASSUME FlagsOK, ProgressOK, IInv, [Next]_vars PROVE IInv'
    OBVIOUS
  <2> USE DEF FlagsOK, ProgressOK, Kinds, ClosePcs, AddPcs, StopPcs, GPcs, Working
  <2>1. ASSUME NEW s \in Subs, AddStore(s) PROVE IInv'
    BY <2>1 DEF AddStore
  <2>2. ASSUME NEW s \in Subs, AddCount(s) PROVE IInv'
    BY <2>2 DEF AddCount
  <2>3. ASSUME NEW s \in Subs, AddGo(s) PROVE IInv'
    BY <2>3 DEF AddGo
  <2>4. ASSUME NEW s \in Subs, Poller(s) PROVE IInv'
    <3> USE DEF Go, PollEnd
    <3>1. CASE RunStart(s) \/ RunTick(s) \/ PollRead(s) \/ PollHandled(s)
      BY <3>1 DEF RunStart, RunTick, PollRead, PollHandled
    <3>2. CASE EmitCheck(s) \/ EmitSend(s) \/ EmitDrop(s)
      BY <3>2 DEF EmitCheck, EmitSend, EmitDrop
    <3>3. CASE RunStop(s)
      BY <3>3 DEF RunStop
    <3>4. CASE RunDone(s)
      BY <3>4 DEF RunDone
    <3>5. CASE HandlerStop(s)
      BY <3>5 DEF HandlerStop, RemoveSub
    <3>6. CASE HandlerStopReturn(s)
      BY <3>6 DEF HandlerStopReturn
    <3>7. QED  BY <2>4, <3>1, <3>2, <3>3, <3>4, <3>5, <3>6 DEF Poller
  <2>5. ASSUME NEW s \in Subs, Stop(s) PROVE IInv'
    <3>1. CASE StopCall(s)
      BY <3>1 DEF StopCall, RemoveSub
    <3>2. CASE StopSignal(s)
      BY <3>2 DEF StopSignal
    <3>3. CASE StopReturn(s)
      BY <3>3 DEF StopReturn
    <3>4. QED  BY <2>5, <3>1, <3>2, <3>3 DEF Stop
  <2>6. CASE CloseStopCh
    BY <2>6 DEF CloseStopCh
  <2>7. CASE CloseTakeSubs
    BY <2>7 DEF CloseTakeSubs
  <2>8. ASSUME NEW s \in Subs, CloseSignal(s) \/ CloseStopped(s) PROVE IInv'
    BY <2>8 DEF CloseSignal, CloseStopped
  <2>9. CASE CloseWait \/ CloseWaited
    BY <2>9 DEF CloseWait, CloseWaited
  <2>10. CASE CloseEvents
    BY <2>10 DEF CloseEvents
  <2>11. CASE Receive \/ UNCHANGED vars
    BY <2>11 DEF Receive
  <2>12. QED
    BY <2>1, <2>2, <2>3, <2>4, <2>5, <2>6, <2>7, <2>8, <2>9, <2>10, <2>11
       DEF Next, AddTag, Close
<1>3. QED  BY <1>1, <1>2, FlagsCorrect, ProgressCorrect, PTL DEF Spec

\* Poll numbers stay below the modulus.
LEMMA PollNumberInRange ==
  \A n \in 0 .. PollModulus - 1 : Next1(n) \in 0 .. PollModulus - 1
BY ConstantAssumption DEF Next1

\* The channel never holds more events than its capacity and every event in it
\* is one a poll has built.
LEMMA EventsCorrect == Spec => []EventsOK
<1> USE ConstantAssumption DEF EventsOK, Kinds, NoEvent
<1>1. Init => EventsOK
  <2> SUFFICES ASSUME Init PROVE EventsOK
    OBVIOUS
  <2>1. events \in Seq(Event) /\ Len(events) <= Buffer
    BY DEF Init
  <2>2. [s \in Subs |-> 0] \in [Subs -> 0 .. PollModulus - 1]
    OBVIOUS
  <2>3. polled = [s \in Subs |-> 0] /\ seen = [s \in Subs |-> 0]
    BY DEF Init
  <2>4. QED  BY <2>1, <2>2, <2>3
<1>2. ProgressOK /\ CallInv /\ EventsOK /\ [Next]_vars => EventsOK'
  <2> SUFFICES ASSUME ProgressOK, CallInv, EventsOK, [Next]_vars PROVE EventsOK'
    OBVIOUS
  <2>1. ASSUME NEW s \in Subs, AddTag(s) PROVE EventsOK'
    BY <2>1 DEF AddTag, AddStore, AddCount, AddGo, ProgressOK
  <2>2. ASSUME NEW s \in Subs, Stop(s) PROVE EventsOK'
    BY <2>2 DEF Stop, StopCall, StopSignal, StopReturn
  <2>3. ASSUME NEW s \in Subs, Poller(s) PROVE EventsOK'
    <3> USE DEF Go, PollEnd, ProgressOK
    <3>1. CASE RunStart(s) \/ RunTick(s)
      <4>1. PICK n \in {polled[s], Next1(polled[s])} :
              polled' = [polled EXCEPT ![s] = n]
        BY <3>1 DEF RunStart, RunTick
      <4>2. n \in 0 .. PollModulus - 1
        BY <4>1, PollNumberInRange
      <4>3. polled' \in [Subs -> 0 .. PollModulus - 1]
        BY <4>1, <4>2
      <4>4. QED  BY <3>1, <4>3 DEF RunStart, RunTick
    <3>2. CASE RunStop(s) \/ RunDone(s)
      BY <3>2 DEF RunStop, RunDone
    <3>3. CASE PollRead(s) \/ PollHandled(s)
      BY <3>3 DEF PollRead, PollHandled
    <3>4. CASE EmitCheck(s) \/ EmitDrop(s)
      BY <3>4 DEF EmitCheck, EmitDrop
    <3>5. CASE EmitSend(s)
      <4> DEFINE e == [sub |-> s, kind |-> pending[s], n |-> polled[s]]
      <4>1. e \in Event
        BY <3>5 DEF EmitSend, Event, CallInv
      <4>2. /\ Append(events, e) \in Seq(Event)
            /\ Len(Append(events, e)) = Len(events) + 1
        <5> HIDE DEF e
        <5>1. QED  BY <4>1, AppendProperties
      <4>3. events' = Append(events, e) /\ Len(events) < Buffer
        BY <3>5 DEF EmitSend
      <4>4. events' \in Seq(Event) /\ Len(events') <= Buffer
        <5>1. Len(events) \in Nat
          OBVIOUS
        <5> HIDE DEF e
        <5>2. QED  BY <4>2, <4>3, <5>1
      <4>5. QED  BY <3>5, <4>4 DEF EmitSend
    <3>6. CASE HandlerStop(s) \/ HandlerStopReturn(s)
      BY <3>6 DEF HandlerStop, HandlerStopReturn
    <3>7. QED  BY <2>3, <3>1, <3>2, <3>3, <3>4, <3>5, <3>6 DEF Poller
  <2>4. CASE Close
    BY <2>4 DEF Close, CloseStopCh, CloseTakeSubs, CloseSignal, CloseStopped,
                CloseWait, CloseWaited, CloseEvents
  <2>5. CASE Receive
    <3>1. Head(events) \in Event
      BY <2>5 DEF Receive
    <3>2. events' \in Seq(Event) /\ Len(events') <= Buffer
      BY <2>5 DEF Receive
    <3>3. seen' \in [Subs -> 0 .. PollModulus - 1]
      BY <2>5, <3>1 DEF Receive, Event
    <3>4. QED  BY <2>5, <3>2, <3>3 DEF Receive
  <2>6. CASE UNCHANGED vars
    BY <2>6
  <2>7. QED  BY <2>1, <2>2, <2>3, <2>4, <2>5, <2>6 DEF Next
<1>3. QED  BY <1>1, <1>2, ProgressCorrect, InductiveInvariant, PTL DEF Spec, IInv

\* Type correctness of the whole monitor.
THEOREM TypeCorrect == Spec => []TypeOK
BY FlagsCorrect, ProgressCorrect, EventsCorrect, PTL DEF TypeOK

-----------------------------------------------------------------------------
(* The safety properties of the monitor follow from the invariant.         *)

\* No poller is left, and none can start, when the event channel is closed: a
\* send on the closed channel, which panics, cannot happen.
THEOREM ChannelSafe == Spec => []NoSendOnClosed
<1>1. ProgressOK /\ IInv => NoSendOnClosed
  BY DEF ProgressOK, IInv, CallInv, WaitInv, CloseInv, NoSendOnClosed,
         GPcs, AddPcs, Working
<1>2. QED  BY <1>1, ProgressCorrect, InductiveInvariant, PTL

\* wg.Add never runs while Close waits for the group.
THEOREM AddPrecedesWait == Spec => []CountedBeforeWait
<1>1. IInv => CountedBeforeWait
  BY DEF IInv, CloseInv, CountedBeforeWait
<1>2. QED  BY <1>1, InductiveInvariant, PTL

\* A Stop that has returned has stopped its poller, unless Close had taken the
\* subscription first.
THEOREM StopIsEffective == Spec => []StopMeansStopped
<1>1. IInv => StopMeansStopped
  BY DEF IInv, CallInv, CloseInv, StopMeansStopped
<1>2. QED  BY <1>1, InductiveInvariant, PTL

\* A handler whose Stop removed its own subscription never comes back: doneCh is
\* closed only by the goroutine it runs in.
THEOREM SelfStopNeverReturns == Spec => SelfStopIsStuck
<1>1. FlagsOK /\ ProgressOK /\ IInv /\ [Next]_vars =>
        [\A s \in Subs :
           gpc[s] = "inStop" /\ stopPc[s] \in {"removed", "waiting"} =>
             gpc'[s] = "inStop" /\ stopPc'[s] # "stopped"]_vars
  <2> SUFFICES ASSUME FlagsOK, ProgressOK, IInv, [Next]_vars, NEW s \in Subs,
                      gpc[s] = "inStop", stopPc[s] \in {"removed", "waiting"}
               PROVE  gpc'[s] = "inStop" /\ stopPc'[s] # "stopped"
    OBVIOUS
  <2> USE DEF FlagsOK, ProgressOK, GPcs, StopPcs
  <2>1. ~done[s]
    BY DEF IInv, CallInv
  <2>2. ASSUME NEW t \in Subs, Poller(t)
        PROVE  gpc'[s] = "inStop" /\ stopPc'[s] # "stopped"
    BY <2>2 DEF Poller, Go, PollEnd, RunStart, RunTick, RunStop, RunDone, PollRead,
       PollHandled, EmitCheck, EmitSend, EmitDrop, HandlerStop, HandlerStopReturn, RemoveSub
  <2>3. ASSUME NEW t \in Subs, Stop(t) \/ AddTag(t)
        PROVE  gpc'[s] = "inStop" /\ stopPc'[s] # "stopped"
    BY <2>1, <2>3 DEF Stop, StopCall, StopSignal, StopReturn, RemoveSub,
       AddTag, AddStore, AddCount, AddGo, IInv, CallInv
  <2>4. CASE Close \/ Receive \/ UNCHANGED vars
    BY <2>4 DEF Close, CloseStopCh, CloseTakeSubs, CloseSignal, CloseStopped,
       CloseWait, CloseWaited, CloseEvents, Receive, vars
  <2>5. QED  BY <2>2, <2>3, <2>4 DEF Next
<1>2. QED
  BY <1>1, FlagsCorrect, ProgressCorrect, InductiveInvariant, PTL DEF Spec, SelfStopIsStuck

-----------------------------------------------------------------------------
(* The order of events.                                                    *)

\* Appending an event leaves those in the channel at their places.
LEMMA Appended ==
  ASSUME EventsOK, NEW e \in Event, events' = Append(events, e)
  PROVE  /\ Len(events') = Len(events) + 1
         /\ \A k \in 1 .. Len(events) : events'[k] = events[k]
         /\ events'[Len(events) + 1] = e
<1>1. events \in Seq(Event)
  BY DEF EventsOK
<1>2. /\ Len(Append(events, e)) = Len(events) + 1
      /\ \A k \in 1 .. Len(events) : Append(events, e)[k] = events[k]
      /\ Append(events, e)[Len(events) + 1] = e
  BY <1>1, AppendProperties
<1> QED  BY <1>2, Zenon

\* A step that neither sends nor receives keeps the order, if it keeps the number
\* of the latest poll in step with the poller's place.
LEMMA OrderWithoutEvents ==
  ASSUME InOrder, events' = events, seen' = seen, stopCh => stopCh',
         \A s \in Subs :
           \/ gpc'[s] = gpc[s] /\ polled'[s] = polled[s]
           \/ /\ gpc'[s] = "send" => gpc[s] = "send" \/ ~stopCh
              /\ ~stopCh' \/ gpc'[s] = "send" =>
                   \/ Polling(s)' = Polling(s) /\ polled'[s] = polled[s]
                   \/ Polling(s)' /\ ~Polling(s) /\ polled'[s] = Next1(polled[s])
  PROVE  InOrder'
<1> SUFFICES ASSUME NEW s \in Subs
             PROVE  Consecutive(s)' /\ (~stopCh' \/ gpc'[s] = "send" => Continued(s)')
  BY DEF InOrder
<1>1. \A i, j : /\ IsLatest(s, i, j)' <=> IsLatest(s, i, j)
                /\ NumberAt(s, i)' = NumberAt(s, i)
  BY DEF IsLatest, NumberAt
<1>2. Consecutive(s)'
  <2>1. Consecutive(s)
    BY DEF InOrder
  <2> QED  BY <1>1, <2>1 DEF Consecutive
<1>3. ASSUME ~stopCh' \/ gpc'[s] = "send" PROVE Continued(s)'
  <2>1. Continued(s)
    BY <1>3 DEF InOrder
  <2>2. \/ Polling(s)' = Polling(s) /\ polled'[s] = polled[s]
        \/ Polling(s)' /\ ~Polling(s) /\ polled'[s] = Next1(polled[s])
    BY <1>3 DEF Polling
  <2> QED  BY <1>1, <2>1, <2>2 DEF Continued
<1> QED  BY <1>2, <1>3

\* An event that is sent follows the last one of its subscription.
LEMMA OrderSend ==
  ASSUME ProgressOK, CallInv, EventsOK, InOrder, NEW t \in Subs, EmitSend(t)
  PROVE  InOrder'
<1>0. PICK len \in Nat : len = Len(events)
  BY DEF EventsOK
<1> DEFINE e == [sub |-> t, kind |-> pending[t], n |-> polled[t]]
<1>1. e \in Event
  BY DEF EmitSend, PollEnd, Go, Event, CallInv, ProgressOK, Kinds, NoEvent, EventsOK
<1>2. events' = Append(events, e)
  BY DEF EmitSend
<1>3. /\ len = Len(events) /\ Len(events') = len + 1
      /\ \A k \in 1 .. len : events'[k] = events[k]
      /\ events'[len + 1].sub = t /\ events'[len + 1].n = polled[t]
  <2>1. e.sub = t /\ e.n = polled[t]
    OBVIOUS
  <2> HIDE DEF e
  <2> QED  BY <1>0, <1>1, <1>2, <2>1, Appended
<1>4. seen' = seen /\ stopCh' = stopCh /\ polled' = polled
  BY DEF EmitSend
<1>5. /\ gpc[t] = "send" /\ gpc'[t] = "select"
      /\ \A s \in Subs : s # t => gpc'[s] = gpc[s]
  BY DEF EmitSend, PollEnd, Go, ProgressOK
<1>6. ASSUME NEW s \in Subs, NEW j \in 1 .. len + 1, NEW i \in 0 .. j - 1
      PROVE  /\ IsLatest(s, i, j)' <=> IsLatest(s, i, j)
             /\ NumberAt(s, i)' = NumberAt(s, i)
  <2>1. i \in 1 .. len \/ i = 0
    BY <1>3
  <2>2. \A k \in i + 1 .. j - 1 : k \in 1 .. len
    BY <1>3
  <2> QED  BY <1>3, <1>4, <2>1, <2>2 DEF IsLatest, NumberAt
<1>7. ASSUME NEW s \in Subs PROVE Consecutive(s)'
  <2> SUFFICES ASSUME NEW j \in 1 .. len + 1, events'[j].sub = s,
                      NEW i \in 0 .. j - 1, IsLatest(s, i, j)'
               PROVE  events'[j].n = Next1(NumberAt(s, i)')
    BY <1>3 DEF Consecutive
  <2>1. IsLatest(s, i, j) /\ NumberAt(s, i)' = NumberAt(s, i)
    BY <1>6
  <2>2. CASE j \in 1 .. len
    BY <1>3, <2>1, <2>2 DEF InOrder, Consecutive
  <2>3. CASE j = len + 1
    <3>1. s = t /\ Continued(s) /\ Polling(s)
      BY <1>3, <1>5, <2>3 DEF InOrder, Polling
    <3>2. i \in 0 .. len
      BY <1>3, <2>3
    <3> QED  BY <1>3, <2>1, <2>3, <3>1, <3>2 DEF Continued
  <2> QED  BY <1>3, <2>2, <2>3
<1>8. ASSUME NEW s \in Subs, ~stopCh' \/ gpc'[s] = "send" PROVE Continued(s)'
  <2> SUFFICES ASSUME NEW i \in 0 .. len + 1, IsLatest(s, i, (len + 1) + 1)'
               PROVE  polled[s] = IF Polling(s)' THEN Next1(NumberAt(s, i)')
                                                 ELSE NumberAt(s, i)'
    BY <1>3, <1>4 DEF Continued
  <2>1. CASE s = t
    <3>1. i = len + 1
      BY <1>3, <2>1 DEF IsLatest
    <3>2. ~Polling(s)' /\ NumberAt(s, i)' = polled[s]
      BY <1>3, <1>5, <2>1, <3>1 DEF Polling, NumberAt
    <3> QED  BY <3>2
  <2>2. CASE s # t
    <3>1. i # len + 1
      BY <1>3, <2>2 DEF IsLatest
    <3>2. i \in 0 .. len /\ IsLatest(s, i, len + 1)'
      BY <1>3, <3>1 DEF IsLatest
    <3>3. IsLatest(s, i, len + 1) /\ NumberAt(s, i)' = NumberAt(s, i)
      BY <1>3, <1>6, <3>2
    <3>4. Continued(s) /\ Polling(s)' = Polling(s)
      BY <1>4, <1>5, <1>8, <2>2 DEF InOrder, Polling
    <3> QED  BY <1>3, <1>4, <3>2, <3>3, <3>4 DEF Continued
  <2> QED  BY <2>1, <2>2
<1> QED  BY <1>7, <1>8 DEF InOrder

\* Receiving takes the first event to the consumer, and the others move up.
LEMMA OrderReceive ==
  ASSUME EventsOK, InOrder, Receive
  PROVE  InOrder'
<1>0. PICK len \in Nat : len = Len(events)
  BY DEF EventsOK
<1>1. /\ len = Len(events) /\ len > 0 /\ Len(events') = len - 1
      /\ \A k \in 1 .. len - 1 : events'[k] = events[k + 1]
  BY <1>0, HeadTailProperties DEF Receive, EventsOK
<1>2. /\ events[1].sub \in Subs
      /\ seen' = [seen EXCEPT ![events[1].sub] = events[1].n]
  <2>1. events \in Seq(Event) /\ events # <<>>
    BY DEF Receive, EventsOK
  <2>2. Head(events) = events[1] /\ Head(events) \in Event
    BY <2>1
  <2> QED  BY <2>2 DEF Receive, Event
<1>3. UNCHANGED <<stopCh, gpc, polled>>
  BY DEF Receive
<1>4. ASSUME NEW s \in Subs, NEW j \in 1 .. len, NEW i \in 0 .. j - 1, IsLatest(s, i, j)'
      PROVE  \E p \in 0 .. j : IsLatest(s, p, j + 1) /\ NumberAt(s, p) = NumberAt(s, i)'
  <2>1. \A k \in i + 1 .. j - 1 : events[k + 1].sub # s
    <3>1. \A k \in i + 1 .. j - 1 : k \in 1 .. len - 1 /\ events'[k].sub # s
      BY <1>4 DEF IsLatest
    <3> QED  BY <1>1, <3>1
  <2>2. \A k \in i + 2 .. j : events[k].sub # s
    <3> SUFFICES ASSUME NEW k \in i + 2 .. j PROVE events[k].sub # s
      OBVIOUS
    <3>1. k - 1 \in i + 1 .. j - 1 /\ (k - 1) + 1 = k
      OBVIOUS
    <3> QED  BY <2>1, <3>1
  <2>3. CASE i # 0
    <3>1. i \in 1 .. len - 1 /\ events'[i] = events[i + 1] /\ i + 1 # 0 /\ i + 1 \in 0 .. j
      BY <1>1, <2>3
    <3>2. IsLatest(s, i + 1, j + 1)
      BY <1>4, <2>2, <2>3, <3>1 DEF IsLatest
    <3>3. NumberAt(s, i + 1) = NumberAt(s, i)'
      BY <2>3, <3>1 DEF NumberAt
    <3> QED  BY <3>1, <3>2, <3>3
  <2>4. CASE i = 0 /\ events[1].sub = s
    <3>1. IsLatest(s, 1, j + 1)
      BY <2>2, <2>4 DEF IsLatest
    <3>2. NumberAt(s, 1) = NumberAt(s, i)'
      BY <1>2, <2>4 DEF NumberAt, EventsOK
    <3> QED  BY <3>1, <3>2
  <2>5. CASE i = 0 /\ events[1].sub # s
    <3>1. IsLatest(s, 0, j + 1)
      BY <2>2, <2>5 DEF IsLatest
    <3>2. NumberAt(s, 0) = NumberAt(s, i)'
      BY <1>2, <2>5 DEF NumberAt, EventsOK
    <3> QED  BY <3>1, <3>2
  <2> QED  BY <2>3, <2>4, <2>5
<1>5. ASSUME NEW s \in Subs PROVE Consecutive(s)'
  <2> SUFFICES ASSUME NEW j \in 1 .. len - 1, events'[j].sub = s,
                      NEW i \in 0 .. j - 1, IsLatest(s, i, j)'
               PROVE  events'[j].n = Next1(NumberAt(s, i)')
    BY <1>1 DEF Consecutive
  <2>1. PICK p \in 0 .. j : IsLatest(s, p, j + 1) /\ NumberAt(s, p) = NumberAt(s, i)'
    BY <1>1, <1>4
  <2>2. j + 1 \in 1 .. len /\ p \in 0 .. (j + 1) - 1 /\ events'[j] = events[j + 1]
    BY <1>1
  <2> QED  BY <1>1, <2>1, <2>2 DEF InOrder, Consecutive
<1>6. ASSUME NEW s \in Subs, ~stopCh' \/ gpc'[s] = "send" PROVE Continued(s)'
  <2>0. (len - 1) + 1 = len /\ len \in 1 .. len
    BY <1>1
  <2> SUFFICES ASSUME NEW i \in 0 .. len - 1, IsLatest(s, i, len)'
               PROVE  polled[s] = IF Polling(s) THEN Next1(NumberAt(s, i)')
                                                ELSE NumberAt(s, i)'
    BY <1>1, <1>3, <2>0 DEF Continued, Polling
  <2>1. PICK p \in 0 .. len : IsLatest(s, p, len + 1) /\ NumberAt(s, p) = NumberAt(s, i)'
    BY <1>4, <2>0
  <2>2. Continued(s)
    BY <1>3, <1>6 DEF InOrder
  <2> QED  BY <1>1, <2>1, <2>2 DEF Continued
<1> QED  BY <1>5, <1>6 DEF InOrder

\* The consumer receives every poll of a subscription once and in order, until
\* Close: emit never overtakes, repeats or loses an event before stopCh is closed,
\* and sends nothing after one it has dropped.
THEOREM EventsInOrder == Spec => []InOrder
<1>1. Init => InOrder
  BY DEF Init, InOrder, Consecutive, Continued, Polling, NumberAt
<1>2. ProgressOK /\ CallInv /\ EventsOK /\ InOrder /\ [Next]_vars => InOrder'
  <2> SUFFICES ASSUME ProgressOK, CallInv, EventsOK, InOrder, [Next]_vars PROVE InOrder'
    OBVIOUS
  <2> USE DEF ProgressOK, Polling
  <2>1. ASSUME NEW s \in Subs, AddTag(s) PROVE InOrder'
    BY <2>1, OrderWithoutEvents DEF AddTag, AddStore, AddCount, AddGo, CallInv
  <2>2. ASSUME NEW s \in Subs, Stop(s) PROVE InOrder'
    BY <2>2, OrderWithoutEvents DEF Stop, StopCall, StopSignal, StopReturn
  <2>3. ASSUME NEW s \in Subs, Poller(s) PROVE InOrder'
    <3> USE DEF Go, PollEnd, EventsOK
    <3>1. CASE RunStart(s) \/ RunTick(s)
      BY <3>1, OrderWithoutEvents DEF RunStart, RunTick
    <3>2. CASE RunStop(s) \/ RunDone(s) \/ PollRead(s) \/ PollHandled(s)
      BY <3>2, OrderWithoutEvents DEF RunStop, RunDone, PollRead, PollHandled
    <3>3. CASE EmitCheck(s) \/ EmitDrop(s)
      BY <3>3, OrderWithoutEvents DEF EmitCheck, EmitDrop
    <3>4. CASE HandlerStop(s) \/ HandlerStopReturn(s)
      BY <3>4, OrderWithoutEvents DEF HandlerStop, HandlerStopReturn
    <3>5. CASE EmitSend(s)
      BY <3>5, OrderSend
    <3> QED  BY <2>3, <3>1, <3>2, <3>3, <3>4, <3>5 DEF Poller
  <2>4. CASE Close
    BY <2>4, OrderWithoutEvents DEF Close, CloseStopCh, CloseTakeSubs, CloseSignal,
         CloseStopped, CloseWait, CloseWaited, CloseEvents
  <2>5. CASE UNCHANGED vars
    BY <2>5, OrderWithoutEvents
  <2> QED  BY <2>1, <2>2, <2>3, <2>4, <2>5, OrderReceive DEF Next
<1> QED
  BY <1>1, <1>2, ProgressCorrect, InductiveInvariant, EventsCorrect, PTL DEF Spec, IInv
=============================================================================
