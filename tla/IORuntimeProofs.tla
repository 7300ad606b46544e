-------------------------- MODULE IORuntimeProofs --------------------------
(***************************************************************************)
(* Theorems about IORuntime, for any connections, ids, rates, timeouts,    *)
(* assemblies and watchdog period.                                         *)
(***************************************************************************)
EXTENDS IORuntime, TLAPS

LEMMA Caps ==
  /\ \A i \in Ids, o \in Ios \union {NoIo} : ReceiveCap(o) \in Nat
  /\ \A o \in Ios : SendCap(o) \in Nat
BY IosAssumption, TimeoutAssumption DEF ReceiveCap, SendCap

\* Type correctness, with what the pointers of the goroutines refer to.
LEMMA Typed == Spec => [](TypeOK /\ PointersInv)
<1> USE IosAssumption, Caps
<1>1. Init => TypeOK /\ PointersInv
  <2> SUFFICES ASSUME Init PROVE TypeOK /\ PointersInv
    OBVIOUS
  <2>1. /\ connections \in [Ids -> Ios \union {NoIo}]
        /\ \A i \in Ids : connections[i] = NoIo
    BY DEF Init
  <2>2. /\ sinceReceive \in [Ids -> Nat] /\ sinceArrival \in [Ids -> Nat]
        /\ \A i \in Ids : sinceReceive[i] = 0 /\ sinceArrival[i] = 0
    BY DEF Init
  <2>3. /\ sinceSend \in [Ios -> Nat] /\ sinceWire \in [Ios -> Nat]
        /\ \A o \in Ios : sinceSend[o] = SendCap(o) /\ sinceWire[o] = SendCap(o)
    BY DEF Init
  <2>4. data \in [Assemblies -> Values \X Values]
    BY DEF Init
  <2>5. \A i \in Ids : sinceReceive[i] <= ReceiveCap(connections[i])
                    /\ sinceArrival[i] <= ReceiveCap(connections[i])
    <3>1. ReceiveCap(NoIo) = 0
      BY DEF ReceiveCap
    <3>2. QED  BY <2>1, <2>2, <3>1
  <2>6. \A o \in Ios : sinceSend[o] <= SendCap(o) /\ sinceWire[o] <= SendCap(o)
    <3>1. \A x \in Nat : x <= x
      OBVIOUS
    <3>2. QED  BY <2>3, <3>1, Caps
  <2>7. /\ schedPc = "idle" /\ rxPc = "idle" /\ todo = {} /\ sending = NoIo
        /\ rxConn = NoIo /\ stop = FALSE /\ sinceWatch = 0
        /\ copied = NoValue /\ rxValue = NoValue /\ frame = <<NoValue, NoValue>>
        /\ lateFrames = {} /\ lateWrites = {}
    BY DEF Init
  <2>8. TypeOK
    <3>1. \A i \in Ids : connections[i] # NoIo => IdOf[connections[i]] = i
      BY <2>1
    <3>2. frame \in (Values \X Values) \union {<<NoValue, NoValue>>}
      BY <2>7
    <3>3. /\ lateFrames \subseteq Ios /\ lateWrites \subseteq Ios
          /\ sinceWatch \in 0 .. WatchPeriod
          /\ todo \subseteq Producers /\ sending \in Producers \union {NoIo}
      BY <2>7
    <3>4. /\ stop \in BOOLEAN
          /\ schedPc \in {"idle", "loop", "copy", "stamp", "stopped"}
          /\ rxPc \in {"idle", "found", "apply"}
          /\ rxConn \in Ios \union {NoIo}
          /\ copied \in Values \union {NoValue} /\ rxValue \in Values \union {NoValue}
      BY <2>7
    <3>5. QED
      BY <2>1, <2>2, <2>3, <2>4, <2>5, <2>6, <3>1, <3>2, <3>3, <3>4 DEF TypeOK
  <2>9. QED  BY <2>7, <2>8 DEF PointersInv
<1>2. TypeOK /\ PointersInv /\ [Next]_vars => (TypeOK /\ PointersInv)'
  <2> SUFFICES ASSUME TypeOK, PointersInv, [Next]_vars
               PROVE  TypeOK' /\ PointersInv'
    OBVIOUS
  <2> USE DEF TypeOK, PointersInv, tableVars, schedVars, rxVars, histVars
  <2>1. ASSUME NEW o \in Ios, AddConnection(o) PROVE TypeOK' /\ PointersInv'
    BY <2>1 DEF AddConnection
  <2>2. ASSUME NEW i \in Ids, RemoveConnection(i) PROVE TypeOK' /\ PointersInv'
    BY <2>2 DEF RemoveConnection, Drop
  <2>3. ASSUME NEW a \in Assemblies, SetAssembly(a) PROVE TypeOK' /\ PointersInv'
    BY <2>3 DEF SetAssembly
  <2>4. ASSUME StopScheduler \/ TickSnapshot \/ TickEnd \/ SchedulerExit
        PROVE  TypeOK' /\ PointersInv'
    BY <2>4 DEF StopScheduler, TickSnapshot, TickEnd, SchedulerExit
  <2>5. ASSUME NEW o \in Producers, TickSkip(o) \/ SendBegin(o)
        PROVE  TypeOK' /\ PointersInv'
    BY <2>5 DEF TickSkip, SendBegin
  <2>6. ASSUME SendFrame PROVE TypeOK' /\ PointersInv'
    BY <2>6 DEF SendFrame
  <2>7. ASSUME SendStamp PROVE TypeOK' /\ PointersInv'
    BY <2>7 DEF SendStamp
  <2>8. ASSUME NEW i \in Ids, PacketLookup(i) PROVE TypeOK' /\ PointersInv'
    BY <2>8 DEF PacketLookup
  <2>9. ASSUME PacketRefresh PROVE TypeOK' /\ PointersInv'
    BY <2>9 DEF PacketRefresh
  <2>10. ASSUME PacketApply PROVE TypeOK' /\ PointersInv'
    BY <2>10 DEF PacketApply
  <2>11. ASSUME CheckTimeouts PROVE TypeOK' /\ PointersInv'
    BY <2>11 DEF CheckTimeouts, Drop
  <2>12. ASSUME TimePasses PROVE TypeOK' /\ PointersInv'
    BY <2>12 DEF TimePasses, Older
  <2>13. CASE UNCHANGED vars
    BY <2>13 DEF vars
  <2>14. QED
    BY <2>1, <2>2, <2>3, <2>4, <2>5, <2>6, <2>7, <2>8, <2>9, <2>10, <2>11, <2>12,
       <2>13 DEF Next, Application, Scheduler, Listener
<1>3. QED  BY <1>1, <1>2, PTL DEF Spec

\* Type correctness: every pointer is to a connection of its id, ages are capped,
\* only producing connections are visited by the scheduler.
THEOREM TypeCorrect == Spec => []TypeOK
BY Typed, PTL

-----------------------------------------------------------------------------
(* The watchdog.                                                           *)

\* How the ages of the consuming connections are related.
LEMMA ReceiveAges == Spec => []ReceiveInv
<1> USE IosAssumption, TimeoutAssumption, Caps
<1>1. Init => ReceiveInv
  BY DEF Init, ReceiveInv
<1>2. TypeOK /\ PointersInv /\ ReceiveInv /\ [Next]_vars => ReceiveInv'
  <2> SUFFICES ASSUME TypeOK, PointersInv, ReceiveInv, [Next]_vars
               PROVE  ReceiveInv'
    OBVIOUS
  <2> USE DEF TypeOK, ReceiveInv, tableVars, schedVars, rxVars, histVars
  <2>1. ASSUME NEW o \in Ios, AddConnection(o) PROVE ReceiveInv'
    BY <2>1 DEF AddConnection, ReceiveCap
  <2>2. ASSUME NEW i \in Ids, RemoveConnection(i) PROVE ReceiveInv'
    BY <2>2 DEF RemoveConnection, Drop
  <2>3. ASSUME NEW i \in Ids, PacketLookup(i) PROVE ReceiveInv'
    BY <2>3 DEF PacketLookup
  <2>4. ASSUME PacketRefresh PROVE ReceiveInv'
    BY <2>4 DEF PacketRefresh, PointersInv
  <2>5. ASSUME PacketApply PROVE ReceiveInv'
    BY <2>5 DEF PacketApply
  <2>6. ASSUME CheckTimeouts PROVE ReceiveInv'
    BY <2>6 DEF CheckTimeouts, Drop
  <2>7. ASSUME TimePasses PROVE ReceiveInv'
    BY <2>7 DEF TimePasses, Older, ReceiveCap
  <2>8. ASSUME UNCHANGED <<tableVars, sinceWatch, rxVars, sinceArrival>>
        PROVE  ReceiveInv'
    BY <2>8
  <2>9. QED
    BY <2>1, <2>2, <2>3, <2>4, <2>5, <2>6, <2>7, <2>8
    DEF Next, Application, Scheduler, Listener, vars, SetAssembly, StopScheduler,
        TickSnapshot, TickSkip, SendBegin, SendFrame, SendStamp, TickEnd, SchedulerExit
<1>3. QED  BY <1>1, <1>2, Typed, PTL DEF Spec

\* A silent consuming connection leaves the table within one watchdog period
\* after its timeout.
THEOREM SilentLeave == Spec => []SilenceBounded
<1>1. TypeOK /\ ReceiveInv => SilenceBounded
  BY IosAssumption, TimeoutAssumption DEF TypeOK, ReceiveInv, SilenceBounded
<1>2. QED  BY <1>1, Typed, ReceiveAges, PTL

\* checkTimeouts removes no connection the listener has found a packet for
\* within its timeout.
THEOREM LiveStay == Spec => TimeoutMeansSilence
<1>1. TypeOK /\ ReceiveInv =>
        [\A i \in Ids :
           CheckTimeouts /\ connections[i] # NoIo /\ connections'[i] = NoIo =>
             \/ sinceArrival[i] > Timeout(connections[i])
             \/ rxPc = "found" /\ IdOf[rxConn] = i]_vars
  BY IosAssumption, TimeoutAssumption
  DEF TypeOK, ReceiveInv, CheckTimeouts, Drop
<1>2. QED  BY <1>1, Typed, ReceiveAges, PTL DEF Spec, TimeoutMeansSilence

-----------------------------------------------------------------------------
(* The scheduler.                                                          *)

\* How LastSend is related to the frames that were sent.
LEMMA SendAges == Spec => []SendInv
<1> USE IosAssumption, Caps
<1>1. Init => SendInv
  <2> SUFFICES ASSUME Init PROVE SendInv
    OBVIOUS
  <2>1. \A o \in Producers : sinceSend[o] = SendCap(o) /\ sinceWire[o] = SendCap(o)
    BY DEF Init
  <2>2. schedPc = "idle"
    BY DEF Init
  <2>3. QED  BY <2>1, <2>2 DEF SendInv
<1>2. TypeOK /\ PointersInv /\ SendInv /\ [Next]_vars => SendInv'
  <2> SUFFICES ASSUME TypeOK, PointersInv, SendInv, [Next]_vars PROVE SendInv'
    OBVIOUS
  <2> USE DEF TypeOK, SendInv, tableVars, schedVars, rxVars, histVars
  <2>1. ASSUME NEW o \in Producers, SendBegin(o) PROVE SendInv'
    BY <2>1 DEF SendBegin
  <2>2. ASSUME SendFrame PROVE SendInv'
    BY <2>2 DEF SendFrame, PointersInv
  <2>3. ASSUME SendStamp PROVE SendInv'
    BY <2>3 DEF SendStamp, PointersInv
  <2>4. ASSUME TimePasses PROVE SendInv'
    BY <2>4 DEF TimePasses, Older, SendCap, PointersInv
  <2>5. ASSUME TickSnapshot \/ TickEnd \/ SchedulerExit PROVE SendInv'
    BY <2>5 DEF TickSnapshot, TickEnd, SchedulerExit
  <2>6. ASSUME UNCHANGED <<schedPc, sending, sinceSend, sinceWire>> PROVE SendInv'
    BY <2>6
  <2>7. QED
    BY <2>1, <2>2, <2>3, <2>4, <2>5, <2>6
    DEF Next, Application, Scheduler, Listener, vars, AddConnection,
        RemoveConnection, SetAssembly, StopScheduler, TickSkip, PacketLookup,
        PacketRefresh, PacketApply, CheckTimeouts
<1>3. QED  BY <1>1, <1>2, Typed, PTL DEF Spec

\* Two frames of a connection are never less than its RPI apart.
THEOREM RateKept == Spec => RpiKept
<1>1. TypeOK /\ PointersInv /\ SendInv => [SendFrame => sinceWire[sending] >= Rpi[sending]]_vars
  BY IosAssumption DEF TypeOK, PointersInv, SendInv, SendFrame
<1>2. QED  BY <1>1, Typed, SendAges, PTL DEF Spec, RpiKept

-----------------------------------------------------------------------------
(* Connections that have left the table.                                   *)

\* What has had its last effect is no longer held by either goroutine.
LEMMA LateEffects == Spec => []LateInv
<1> USE IosAssumption
<1>1. Init => LateInv
  BY DEF Init, LateInv
<1>2. TypeOK /\ PointersInv /\ LateInv /\ [Next]_vars => LateInv'
  <2> SUFFICES ASSUME TypeOK, PointersInv, LateInv, [Next]_vars PROVE LateInv'
    OBVIOUS
  <2> USE DEF TypeOK, LateInv, Current, tableVars, schedVars, rxVars, histVars
  <2>1. ASSUME NEW o \in Ios, AddConnection(o) PROVE LateInv'
    BY <2>1 DEF AddConnection
  <2>2. ASSUME NEW i \in Ids, RemoveConnection(i) PROVE LateInv'
    BY <2>2 DEF RemoveConnection, Drop
  <2>3. ASSUME TickSnapshot \/ TickEnd \/ SchedulerExit PROVE LateInv'
    BY <2>3 DEF TickSnapshot, TickEnd, SchedulerExit
  <2>4. ASSUME NEW o \in Producers, TickSkip(o) \/ SendBegin(o) PROVE LateInv'
    BY <2>4 DEF TickSkip, SendBegin
  <2>5. ASSUME SendFrame PROVE LateInv'
    BY <2>5 DEF SendFrame, PointersInv
  <2>6. ASSUME SendStamp PROVE LateInv'
    BY <2>6 DEF SendStamp, PointersInv
  <2>7. ASSUME NEW i \in Ids, PacketLookup(i) PROVE LateInv'
    BY <2>7 DEF PacketLookup
  <2>8. ASSUME PacketApply PROVE LateInv'
    BY <2>8 DEF PacketApply, PointersInv
  <2>9. ASSUME CheckTimeouts PROVE LateInv'
    BY <2>9 DEF CheckTimeouts, Drop
  <2>10. ASSUME UNCHANGED <<connections, schedPc, todo, sending, rxConn, lateFrames,
                            lateWrites>>
         PROVE  LateInv'
    BY <2>10
  <2>11. QED
    BY <2>1, <2>2, <2>3, <2>4, <2>5, <2>6, <2>7, <2>8, <2>9, <2>10
    DEF Next, Application, Scheduler, Listener, vars, SetAssembly, StopScheduler,
        PacketRefresh, TimePasses
<1>3. QED  BY <1>1, <1>2, Typed, PTL DEF Spec

\* Once out of the table a connection has at most one more frame sent and one
\* more packet applied.
THEOREM LastEffects == Spec => LateEffectsBounded
<1>1. TypeOK /\ PointersInv /\ LateInv =>
        [/\ SendFrame /\ ~Current(sending) => sending \notin lateFrames
         /\ PacketApply /\ ~Current(rxConn) /\ rxValue # NoValue =>
              rxConn \notin lateWrites]_vars
  BY DEF PointersInv, LateInv, SendFrame, PacketApply
<1>2. QED  BY <1>1, Typed, LateEffects, PTL DEF Spec, LateEffectsBounded
=============================================================================
