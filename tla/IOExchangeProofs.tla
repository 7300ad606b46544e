-------------------------- MODULE IOExchangeProofs --------------------------
(***************************************************************************)
(* Theorems about IOExchange, for every RPI, timeout, pair of tickers and  *)
(* network that satisfy its two assumptions.                               *)
(***************************************************************************)
EXTENDS IOExchange, SequenceTheorems, TLAPS

FlagTypes ==
  /\ producing \in BOOLEAN /\ connected \in BOOLEAN
  /\ timedOut \in BOOLEAN /\ steady \in BOOLEAN

\* A connection in the table is not one that was removed.
InTable == ~(connected /\ timedOut)

ClockTypes ==
  /\ sinceSend \in Nat /\ sinceSend <= Rpi
  /\ sinceSched \in Nat /\ sinceSched <= SchedPeriod
  /\ sinceWatch \in Nat /\ sinceWatch <= WatchPeriod
  /\ lost \in Nat /\ lost <= MaxLoss
  /\ sinceReceive \in Nat
  /\ sinceTry \in Nat /\ sinceGood \in Nat /\ dataAge \in Nat

NetTypes == pdata \in Data /\ net \subseteq Frames

\* What the packets of the producer are made of.
LEMMA DataOfIsBytes ==
  ASSUME NEW d \in Data
  PROVE  DataOf(Payload(d)) \in Seq(Cells)
<1> DEFINE head == <<"count", "count">>
           run  == IF ProducerHeader
                     THEN <<"header", "header", "header", "header">> ELSE <<>>
<1>1. d \in Seq(Cells)
  <2>1. ProducerSize \in Nat /\ d \in [1 .. ProducerSize -> Cells]
    BY ParametersAssumption DEF Data, Cells
  <2> QED
    BY <2>1, SeqDef
<1>2. head \in Seq(Cells) /\ run \in Seq(Cells)
  <2>1. "count" \in Cells /\ "header" \in Cells
    BY DEF Cells
  <2> QED
    BY <2>1
<1>3. head \o run \in Seq(Cells)
  BY <1>2, ConcatProperties
<1>4. Payload(d) \in Seq(Cells)
  <2>1. (head \o run) \o d \in Seq(Cells)
    BY <1>1, <1>3, ConcatProperties
  <2> QED
    BY <2>1 DEF Payload
<1>5. SubSeq(Payload(d), 5, Len(Payload(d))) \in Seq(Cells)
  BY <1>4, SubSeqProperties
<1> QED
  BY <1>4, <1>5 DEF DataOf

LEMMA PeriodsArePositive ==
  /\ MaxPeriod \in Nat /\ MaxPeriod = Rpi + SchedPeriod - 1
  /\ MaxGap \in Nat /\ Timeout \in Nat /\ MaxGap + MaxDelay <= Timeout
<1>1. MaxPeriod \in Nat /\ MaxPeriod = Rpi + SchedPeriod - 1
  BY ParametersAssumption DEF MaxPeriod
<1>2. MaxGap \in Nat
  BY <1>1, ParametersAssumption DEF MaxGap, Periods
<1> QED
  BY <1>1, <1>2, MarginAssumption

\* One more frame is lost: the room for it is one period.
LEMMA OneMoreLost ==
  ASSUME NEW n \in Nat
  PROVE  /\ Periods(n) \in Nat
         /\ Periods(n + 1) = Periods(n) + MaxPeriod
         /\ n <= MaxLoss => Periods(n) + MaxPeriod <= MaxGap
<1>1. MaxPeriod \in Nat /\ MaxLoss \in Nat
  BY PeriodsArePositive, ParametersAssumption
<1>2. n <= MaxLoss => Periods(n) + MaxPeriod <= MaxGap
  <2> SUFFICES ASSUME n <= MaxLoss PROVE Periods(n) + MaxPeriod <= MaxGap
    OBVIOUS
  <2> DEFINE m == MaxLoss - n
  <2>1. m \in Nat /\ MaxLoss + 1 = n + 1 + m
    BY <1>1
  <2>2. (n + 1 + m) * MaxPeriod = n * MaxPeriod + MaxPeriod + m * MaxPeriod
    BY <1>1, <2>1
  <2>3. m * MaxPeriod \in Nat
    BY <1>1, <2>1
  <2> QED
    BY <2>1, <2>2, <2>3, <1>1 DEF MaxGap, Periods
<1> QED
  BY <1>1, <1>2 DEF Periods

\* The room for frames that were lost, before and after another step.
LEMMA NoneLost == Periods(0) = 0
BY PeriodsArePositive DEF Periods

LEMMA ConstantsAreNumbers ==
  /\ Rpi \in Nat /\ Rpi > 0 /\ SchedPeriod \in Nat /\ WatchPeriod \in Nat
  /\ MaxDelay \in Nat /\ MaxLoss \in Nat
BY ParametersAssumption

LEMMA FlagsAreTyped == Spec => []FlagTypes
<1> USE DEF FlagTypes
<1>init. Init => FlagTypes
  BY Zenon DEF Init
<1>step. FlagTypes /\ [Next]_vars => FlagTypes'
  <2> SUFFICES ASSUME FlagTypes, [Next]_vars PROVE FlagTypes'
    OBVIOUS
  <2>start. StartProducing => FlagTypes'
    BY Zenon DEF StartProducing, consumerVars
  <2>stop. StopProducing => FlagTypes'
    BY Zenon DEF StopProducing, consumerVars
  <2>set. SetData => FlagTypes'
    BY Zenon DEF SetData, consumerVars, histVars
  <2>add. AddConnection => FlagTypes'
    BY Zenon DEF AddConnection, producerVars
  <2>remove. RemoveConnection => FlagTypes'
    BY Zenon DEF RemoveConnection, producerVars, histVars
  <2>tick. ProcessTick => FlagTypes'
    BY Zenon DEF ProcessTick, consumerVars
  <2>packet. ASSUME NEW f \in net, HandlePacket(f) PROVE FlagTypes'
    BY Zenon, <2>packet DEF HandlePacket, producerVars
  <2>watch. CheckTimeouts => FlagTypes'
    BY Zenon DEF CheckTimeouts, producerVars
  <2>time. TimePasses => FlagTypes'
    BY Zenon DEF TimePasses
  <2>stutter. UNCHANGED vars => FlagTypes'
    BY Zenon DEF vars, producerVars, consumerVars, histVars
  <2> QED
    BY <2>start, <2>stop, <2>set, <2>add, <2>remove, <2>tick, <2>packet, <2>watch,
       <2>time, <2>stutter DEF Next, Applications, Arrival
<1> QED
  BY <1>init, <1>step, PTL DEF Spec

\* What a step does to a frame in flight: its age and its freshness stay types.
LEMMA NetIsTyped == Spec => []NetTypes
<1> USE DEF NetTypes
<1>init. Init => NetTypes
  BY DEF Init
<1>step. NetTypes /\ [Next]_vars => NetTypes'
  <2> SUFFICES ASSUME NetTypes, [Next]_vars PROVE NetTypes'
    OBVIOUS
  <2>apps. Applications => NetTypes'
    BY DEF Applications, StartProducing, StopProducing, SetData, AddConnection,
           RemoveConnection, producerVars
  <2>tick. ProcessTick => NetTypes'
    <3>1. [data |-> pdata, age |-> 0, fresh |-> TRUE] \in Frames
      BY ConstantsAreNumbers DEF Frames
    <3> QED
      BY <3>1 DEF ProcessTick, SendPacket
  <2>packet. ASSUME NEW f \in net, HandlePacket(f) PROVE NetTypes'
    <3>1. f \in Frames
      OBVIOUS
    <3>2. [f EXCEPT !.fresh = FALSE] \in Frames
      BY <3>1 DEF Frames
    <3> QED
      BY <3>2, <2>packet DEF HandlePacket, producerVars
  <2>watch. CheckTimeouts => NetTypes'
    BY DEF CheckTimeouts, producerVars
  <2>time. TimePasses => NetTypes'
    <3> SUFFICES ASSUME TimePasses PROVE NetTypes'
      OBVIOUS
    <3>1. ASSUME NEW f \in net, f.age < MaxDelay
          PROVE  [f EXCEPT !.age = f.age + 1] \in Frames
      <4>1. f \in Frames
        OBVIOUS
      <4>2. f.age + 1 \in 0 .. MaxDelay
        BY <3>1, <4>1, ConstantsAreNumbers DEF Frames
      <4> QED
        BY <4>1, <4>2 DEF Frames
    <3> QED
      BY <3>1 DEF TimePasses
  <2>stutter. UNCHANGED vars => NetTypes'
    BY DEF vars, producerVars
  <2> QED
    BY <2>apps, <2>tick, <2>packet, <2>watch, <2>time, <2>stutter DEF Next, Arrival
<1> QED
  BY <1>init, <1>step, PTL DEF Spec

LEMMA ClocksAreTyped == Spec => []ClockTypes
<1> USE ConstantsAreNumbers DEF ClockTypes
<1>init. Init => ClockTypes
  BY DEF Init
<1>step. ClockTypes /\ NetTypes /\ [Next]_vars => ClockTypes'
  <2> SUFFICES ASSUME ClockTypes, NetTypes, [Next]_vars PROVE ClockTypes'
    OBVIOUS
  <2>apps. Applications => ClockTypes'
    BY DEF Applications, StartProducing, StopProducing, SetData, AddConnection,
           RemoveConnection, producerVars, consumerVars, histVars
  <2>tick. ProcessTick => ClockTypes'
    BY DEF ProcessTick, SendPacket, consumerVars
  <2>packet. ASSUME NEW f \in net, HandlePacket(f) PROVE ClockTypes'
    <3>1. f.age \in Nat
      BY DEF NetTypes, Frames
    <3> QED
      BY <3>1, <2>packet DEF HandlePacket, producerVars
  <2>watch. CheckTimeouts => ClockTypes'
    BY DEF CheckTimeouts, producerVars
  <2>time. TimePasses => ClockTypes'
    BY DEF TimePasses, Tick
  <2>stutter. UNCHANGED vars => ClockTypes'
    BY DEF vars, producerVars, consumerVars, histVars
  <2> QED
    BY <2>apps, <2>tick, <2>packet, <2>watch, <2>time, <2>stutter DEF Next, Arrival
<1> QED
  BY <1>init, <1>step, NetIsTyped, PTL DEF Spec

-----------------------------------------------------------------------------
(* When frames are sent and when they arrive.                              *)

\* The typing of a state, in one place.
Types == FlagTypes /\ NetTypes /\ ClockTypes

LEMMA AllTyped == Spec => []Types
BY FlagsAreTyped, NetIsTyped, ClocksAreTyped, PTL DEF Types

\* How long ago a frame was sent, was sent and not lost, and was received.
LEMMA Clocks == Spec => []ClockInv
<1>init. Init => ClockInv
  <2> SUFFICES ASSUME Init PROVE ClockInv
    OBVIOUS
  <2>1. sinceReceive = 0 /\ sinceWatch = 0 /\ ~steady /\ ~producing
    BY DEF Init
  <2> QED
    BY <2>1, PeriodsArePositive DEF ClockInv
<1>step. Types /\ Types' /\ ClockInv /\ [Next]_vars => ClockInv'
  <2> SUFFICES ASSUME Types, Types', ClockInv, [Next]_vars PROVE ClockInv'
    OBVIOUS
  <2> USE ConstantsAreNumbers, PeriodsArePositive DEF Types, ClockTypes, ClockInv
  <2>start. StartProducing => ClockInv'
    BY OneMoreLost DEF StartProducing, consumerVars
  <2>stop. StopProducing => ClockInv'
    BY DEF StopProducing, consumerVars
  <2>set. SetData => ClockInv'
    BY DEF SetData, consumerVars, histVars
  <2>add. AddConnection => ClockInv'
    BY DEF AddConnection, producerVars
  <2>remove. RemoveConnection => ClockInv'
    BY DEF RemoveConnection, producerVars, histVars
  <2>room. /\ Periods(lost) \in Nat /\ Periods(0) = 0
           /\ Periods(lost + 1) = Periods(lost) + MaxPeriod
           /\ Periods(lost + 1) \in Nat
    <3>1. /\ Periods(lost) \in Nat
          /\ Periods(lost + 1) = Periods(lost) + MaxPeriod
      BY OneMoreLost
    <3> QED
      BY <3>1, NoneLost
  <2>tick. ProcessTick => ClockInv'
    <3> SUFFICES ASSUME ProcessTick PROVE ClockInv'
      OBVIOUS
    <3>same. sinceReceive' = sinceReceive /\ sinceWatch' = sinceWatch
             /\ connected' = connected /\ steady' = steady
             /\ producing' = producing /\ sinceSched' = 0
      BY DEF ProcessTick, consumerVars
    <3>due. CASE producing /\ sinceSend >= Rpi
      <4>1. sinceSend' = 0 /\ sinceTry' = 0
        BY <3>due DEF ProcessTick, SendPacket
      <4>2. \/ lost' = lost + 1 /\ sinceGood' = sinceGood
            \/ lost' = 0 /\ sinceGood' = 0
        BY <3>due DEF ProcessTick, SendPacket
      <4>3. sinceGood' <= Periods(lost')
        <5>1. sinceGood <= Periods(lost) + MaxPeriod
          BY <3>due, <2>room DEF ProcessTick
        <5> QED
          BY <4>2, <5>1, <2>room
      <4>4. Periods(lost') \in Nat
        BY <4>2, <2>room, OneMoreLost
      <4> QED
        BY <3>same, <4>1, <4>3, <4>4
    <3>early. CASE ~(producing /\ sinceSend >= Rpi)
      <4>1. sinceSend' = sinceSend /\ lost' = lost /\ sinceTry' = sinceTry
            /\ sinceGood' = sinceGood
        BY <3>early DEF ProcessTick
      <4> QED
        BY <3>same, <3>early, <4>1
    <3> QED
      BY <3>due, <3>early
  <2>packet. ASSUME NEW f \in net, HandlePacket(f) PROVE ClockInv'
    <3>1. /\ UNCHANGED <<producing, sinceSend, sinceSched, lost, connected, sinceWatch,
                         steady, sinceTry, sinceGood>>
          /\ sinceReceive' = IF connected THEN 0 ELSE sinceReceive
      BY <2>packet DEF HandlePacket, producerVars
    <3> QED
      BY <3>1
  <2>watch. CheckTimeouts => ClockInv'
    BY DEF CheckTimeouts, producerVars
  <2>time. TimePasses => ClockInv'
    <3> SUFFICES ASSUME TimePasses PROVE ClockInv'
      OBVIOUS
    <3>same. /\ producing' = producing /\ lost' = lost /\ connected' = connected
             /\ steady' = steady /\ sinceWatch' = sinceWatch + 1
             /\ sinceReceive' = IF connected THEN sinceReceive + 1 ELSE sinceReceive
      BY DEF TimePasses
    <3>1. ASSUME producing
          PROVE  /\ sinceTry' <= Rpi - 1 + sinceSched'
                 /\ sinceSend' < Rpi => sinceTry' <= sinceSend'
                 /\ sinceGood' <= Periods(lost') + sinceTry'
      <4>1. sinceTry' = sinceTry + 1 /\ sinceSched' = sinceSched + 1
        BY <3>1, <2>room DEF TimePasses, Tick
      <4>2. sinceSend' = IF sinceSend < Rpi THEN sinceSend + 1 ELSE sinceSend
        BY DEF TimePasses, Tick
      <4>3. sinceGood' <= sinceGood + 1
        BY DEF TimePasses, Tick
      <4>4. sinceSend' < Rpi => sinceTry' <= sinceSend'
        BY <3>1, <4>1, <4>2
      <4>5. Periods(lost') = Periods(lost)
        BY <3>same
      <4>6. sinceGood' <= Periods(lost') + sinceTry'
        BY <3>1, <4>1, <4>3, <4>5, <2>room
      <4>7. sinceTry' <= Rpi - 1 + sinceSched'
        BY <3>1, <4>1
      <4> QED
        BY <4>4, <4>6, <4>7, Zenon
    <3>2. sinceReceive' <= Timeout + sinceWatch'
      BY <3>same
    <3>3. ~connected' => sinceReceive' = 0
      BY <3>same
    <3>4. (steady' => producing') /\ producing' = producing
      BY <3>same
    <3> QED
      BY <3>1, <3>2, <3>3, <3>4, Zenon
  <2>stutter. UNCHANGED vars => ClockInv'
    BY DEF vars, producerVars, consumerVars, histVars
  <2> QED
    BY <2>start, <2>stop, <2>set, <2>add, <2>remove, <2>tick, <2>packet, <2>watch,
       <2>time, <2>stutter DEF Next, Applications, Arrival
<1> QED
  BY <1>init, <1>step, AllTyped, PTL DEF Spec

\* No gap between two frames that arrive is longer than MaxGap.
LEMMA GapIsBounded ==
  ASSUME Types, ClockInv, producing
  PROVE  sinceGood <= MaxGap
<1>1. sinceGood <= Periods(lost) + sinceTry /\ sinceTry <= Rpi - 1 + sinceSched
  BY DEF ClockInv
<1>2. sinceTry \in Nat /\ sinceGood \in Nat /\ sinceSched <= SchedPeriod
      /\ sinceSched \in Nat /\ lost \in Nat /\ lost <= MaxLoss
  BY DEF Types, ClockTypes
<1>3. Periods(lost) \in Nat /\ Periods(lost) + MaxPeriod <= MaxGap
  BY <1>2, OneMoreLost
<1> QED
  BY <1>1, <1>2, <1>3, PeriodsArePositive, ConstantsAreNumbers

\* A tick of the scheduler and the passing of time leave something awaited: a frame
\* that is not lost takes over from the one that was sent before it.
LEMMA StillAwaited ==
  ASSUME Types, ClockInv, producing, NEW age \in Nat, NEW slack \in Nat,
         \/ age <= sinceGood + slack
         \/ \E f \in net : f.fresh /\ age <= f.age + MaxGap + slack
  PROVE  /\ ProcessTick =>
              \/ age <= sinceGood' + slack
              \/ \E f \in net' : f.fresh /\ age <= f.age + MaxGap + slack
         /\ TimePasses =>
              \/ age + 1 <= sinceGood' + slack
              \/ \E f \in net' : f.fresh /\ age + 1 <= f.age + MaxGap + slack
<1>gap. sinceGood \in Nat /\ sinceGood <= MaxGap /\ MaxGap \in Nat
  BY GapIsBounded, PeriodsArePositive DEF Types, ClockTypes
<1>tick. ASSUME ProcessTick
         PROVE  \/ age <= sinceGood' + slack
                \/ \E f \in net' : f.fresh /\ age <= f.age + MaxGap + slack
  <2> DEFINE g == [data |-> pdata, age |-> 0, fresh |-> TRUE]
  <2>1. CASE net' = net /\ sinceGood' = sinceGood
    BY <2>1
  <2>2. CASE net' = net \union {g}
    <3>1. g \in net' /\ g.fresh /\ g.age = 0
      BY <2>2
    <3>2. CASE age <= sinceGood + slack
      <4>1. age <= g.age + MaxGap + slack
        BY <3>1, <3>2, <1>gap
      <4> QED
        BY <3>1, <4>1
    <3>3. CASE \E f \in net : f.fresh /\ age <= f.age + MaxGap + slack
      BY <2>2, <3>3
    <3> QED
      BY <3>2, <3>3
  <2> QED
    BY <1>tick, <2>1, <2>2 DEF ProcessTick, SendPacket
<1>time. ASSUME TimePasses
         PROVE  \/ age + 1 <= sinceGood' + slack
                \/ \E f \in net' : f.fresh /\ age + 1 <= f.age + MaxGap + slack
  <2>1. sinceGood' = sinceGood + 1
    BY <1>time, <1>gap DEF TimePasses, Tick
  <2>2. CASE age <= sinceGood + slack
    BY <2>1, <2>2, <1>gap
  <2>3. CASE \E f \in net : f.fresh /\ age <= f.age + MaxGap + slack
    <3>1. PICK f \in net : f.fresh /\ age <= f.age + MaxGap + slack
      BY <2>3
    <3> DEFINE g == [f EXCEPT !.age = f.age + 1]
    <3>2. f \in Frames /\ f.age < MaxDelay
      BY <1>time, <3>1 DEF TimePasses, Types, NetTypes
    <3>3. g \in net'
      BY <1>time, <3>2 DEF TimePasses
    <3>4. g.fresh /\ g.age = f.age + 1 /\ f.age \in Nat
      BY <3>1, <3>2 DEF Frames
    <3>5. age + 1 <= g.age + MaxGap + slack
      BY <3>1, <3>4, <1>gap
    <3> QED
      BY <3>3, <3>4, <3>5
  <2> QED
    BY <2>2, <2>3
<1> QED
  BY <1>tick, <1>time

LEMMA SilenceIsExplained == Spec => []SilenceInv
<1>init. Init => SilenceInv
  BY Zenon DEF Init, SilenceInv
<1>step. Types /\ Types' /\ ClockInv /\ SilenceInv /\ [Next]_vars => SilenceInv'
  <2> SUFFICES ASSUME Types, Types', ClockInv, SilenceInv, [Next]_vars,
                      connected', steady'
               PROVE  Awaited(sinceReceive, 0)'
    BY DEF SilenceInv
  <2> USE PeriodsArePositive DEF Awaited
  <2>nat. /\ sinceReceive \in Nat /\ sinceGood \in Nat
          /\ sinceReceive' \in Nat /\ sinceGood' \in Nat
    BY DEF Types, ClockTypes
  <2>on. steady => producing
    BY DEF ClockInv
  <2>start. StartProducing => FALSE
    BY <2>on DEF StartProducing
  <2>stop. StopProducing => FALSE
    BY DEF StopProducing
  <2>set. SetData => Awaited(sinceReceive, 0)'
    BY DEF SetData, consumerVars, histVars, SilenceInv
  <2>add. AddConnection => Awaited(sinceReceive, 0)'
    BY <2>nat DEF AddConnection
  <2>remove. RemoveConnection => FALSE
    BY DEF RemoveConnection
  <2>tick. ProcessTick => Awaited(sinceReceive, 0)'
    <3> SUFFICES ASSUME ProcessTick PROVE Awaited(sinceReceive, 0)'
      OBVIOUS
    <3>1. sinceReceive' = sinceReceive /\ connected /\ steady
      BY DEF ProcessTick, consumerVars
    <3>2. producing /\ Awaited(sinceReceive, 0)
      BY <3>1, <2>on DEF SilenceInv
    <3> QED
      BY <3>1, <3>2, <2>nat, StillAwaited
  <2>packet. ASSUME NEW f \in net, HandlePacket(f) PROVE Awaited(sinceReceive, 0)'
    BY <2>packet, <2>nat DEF HandlePacket
  <2>watch. CheckTimeouts => Awaited(sinceReceive, 0)'
    BY DEF CheckTimeouts, SilenceInv
  <2>time. TimePasses => Awaited(sinceReceive, 0)'
    <3> SUFFICES ASSUME TimePasses PROVE Awaited(sinceReceive, 0)'
      OBVIOUS
    <3>1. sinceReceive' = sinceReceive + 1 /\ connected /\ steady
      BY DEF TimePasses
    <3>2. producing /\ Awaited(sinceReceive, 0)
      BY <3>1, <2>on DEF SilenceInv
    <3> QED
      BY <3>1, <3>2, <2>nat, StillAwaited
  <2>stutter. UNCHANGED vars => Awaited(sinceReceive, 0)'
    BY DEF vars, consumerVars, histVars, SilenceInv
  <2> QED
    BY <2>start, <2>stop, <2>set, <2>add, <2>remove, <2>tick, <2>packet, <2>watch,
       <2>time, <2>stutter DEF Next, Applications, Arrival
<1> QED
  BY <1>init, <1>step, AllTyped, Clocks, PTL DEF Spec

LEMMA AgeIsExplained == ASSUME Fits PROVE Spec => []FreshInv
<1>init. Init => FreshInv
  BY Zenon DEF Init, FreshInv
<1>step. Types /\ Types' /\ ClockInv /\ FreshInv /\ [Next]_vars => FreshInv'
  <2> SUFFICES ASSUME Types, Types', ClockInv, FreshInv, [Next]_vars,
                      connected', steady'
               PROVE  Awaited(dataAge, MaxDelay)'
    BY DEF FreshInv
  <2> USE PeriodsArePositive, ConstantsAreNumbers DEF Awaited
  <2>nat. /\ dataAge \in Nat /\ sinceGood \in Nat
          /\ dataAge' \in Nat /\ sinceGood' \in Nat
    BY DEF Types, ClockTypes
  <2>on. steady => producing
    BY DEF ClockInv
  <2>start. StartProducing => FALSE
    BY <2>on DEF StartProducing
  <2>stop. StopProducing => FALSE
    BY DEF StopProducing
  <2>set. SetData => Awaited(dataAge, MaxDelay)'
    BY DEF SetData, consumerVars, histVars, FreshInv
  <2>add. AddConnection => Awaited(dataAge, MaxDelay)'
    BY <2>nat DEF AddConnection
  <2>remove. RemoveConnection => FALSE
    BY DEF RemoveConnection
  <2>tick. ProcessTick => Awaited(dataAge, MaxDelay)'
    <3> SUFFICES ASSUME ProcessTick PROVE Awaited(dataAge, MaxDelay)'
      OBVIOUS
    <3>1. dataAge' = dataAge /\ connected /\ steady
      BY DEF ProcessTick, consumerVars
    <3>2. producing /\ Awaited(dataAge, MaxDelay)
      BY <3>1, <2>on DEF FreshInv
    <3> QED
      BY <3>1, <3>2, <2>nat, StillAwaited
  <2>packet. ASSUME NEW f \in net, HandlePacket(f) PROVE Awaited(dataAge, MaxDelay)'
    <3>1. f.data \in Data /\ f.age \in Nat /\ f.age <= MaxDelay
      BY DEF Types, NetTypes, Frames
    <3>2. Len(DataOf(Payload(f.data))) = ConsumerSize
      BY <3>1 DEF Fits
    <3>3. dataAge' = f.age
      BY <2>packet, <3>2 DEF HandlePacket
    <3> QED
      BY <3>1, <3>3, <2>nat
  <2>watch. CheckTimeouts => Awaited(dataAge, MaxDelay)'
    BY DEF CheckTimeouts, FreshInv
  <2>time. TimePasses => Awaited(dataAge, MaxDelay)'
    <3> SUFFICES ASSUME TimePasses PROVE Awaited(dataAge, MaxDelay)'
      OBVIOUS
    <3>1. dataAge' <= dataAge + 1
      BY <2>nat DEF TimePasses, Tick
    <3>2. producing /\ Awaited(dataAge, MaxDelay)
      BY <2>on DEF FreshInv, TimePasses
    <3>3. \/ dataAge + 1 <= sinceGood' + MaxDelay
          \/ \E f \in net' : f.fresh /\ dataAge + 1 <= f.age + MaxGap + MaxDelay
      BY <3>2, <2>nat, StillAwaited
    <3>4. \A f \in net' : f.age \in Nat
      BY DEF Types, NetTypes, Frames
    <3>5. CASE dataAge + 1 <= sinceGood' + MaxDelay
      <4>1. ASSUME NEW bound \in Nat, dataAge + 1 <= bound PROVE dataAge' <= bound
        BY <3>1, <4>1, <2>nat
      <4>sum. \A a \in Nat, b \in Nat : a + b \in Nat
        OBVIOUS
      <4>2. sinceGood' + MaxDelay \in Nat
        BY <4>sum, <2>nat, Zenon
      <4>3. dataAge' <= sinceGood' + MaxDelay
        BY <3>5, <4>1, <4>2, Zenon
      <4> QED
        BY <4>3
    <3>6. ASSUME NEW f \in net', f.fresh, dataAge + 1 <= f.age + MaxGap + MaxDelay
          PROVE  dataAge' <= f.age + MaxGap + MaxDelay
      BY <3>1, <3>4, <3>6, <2>nat
    <3>7. CASE \E f \in net' : f.fresh /\ dataAge + 1 <= f.age + MaxGap + MaxDelay
      BY <3>6, <3>7
    <3> QED
      BY <3>3, <3>5, <3>7
  <2>stutter. UNCHANGED vars => Awaited(dataAge, MaxDelay)'
    BY DEF vars, consumerVars, histVars, FreshInv
  <2> QED
    BY <2>start, <2>stop, <2>set, <2>add, <2>remove, <2>tick, <2>packet, <2>watch,
       <2>time, <2>stutter DEF Next, Applications, Arrival
<1> QED
  BY <1>init, <1>step, AllTyped, Clocks, PTL DEF Spec

-----------------------------------------------------------------------------
(* The theorems.                                                           *)

\* Every state is well typed: the assembly of the consumer holds the bytes of one
\* frame, of its own length, and the watchdog leaves no silence unnoticed for longer
\* than the timeout and one of its ticks.
THEOREM TypeCorrect == Spec => []TypeOK
<1> DEFINE DataInv == cdata \in Seq(Cells) /\ Len(cdata) = ConsumerSize
<1>init. Init => DataInv
  <2> SUFFICES ASSUME Init PROVE DataInv
    OBVIOUS
  <2>1. PICK v \in Values : cdata = [n \in 1 .. ConsumerSize |-> v]
    BY DEF Init
  <2>2. v \in Cells /\ ConsumerSize \in Nat
    BY ParametersAssumption DEF Cells
  <2>3. cdata \in [1 .. ConsumerSize -> Cells]
    BY <2>1, <2>2
  <2>4. cdata \in Seq(Cells)
    BY <2>2, <2>3, SeqDef
  <2> QED
    BY <2>2, <2>3, <2>4
<1>step. Types /\ DataInv /\ [Next]_vars => DataInv'
  <2> SUFFICES ASSUME Types, DataInv, [Next]_vars PROVE DataInv'
    OBVIOUS
  <2>packet. ASSUME NEW f \in net, HandlePacket(f) PROVE DataInv'
    <3>1. f.data \in Data
      BY DEF Types, NetTypes, Frames
    <3>2. DataOf(Payload(f.data)) \in Seq(Cells)
      BY <3>1, DataOfIsBytes
    <3>3. \/ cdata' = cdata
          \/ /\ cdata' = DataOf(Payload(f.data))
             /\ Len(DataOf(Payload(f.data))) = ConsumerSize
      BY <2>packet DEF HandlePacket
    <3> QED
      BY <3>2, <3>3
  <2>same. ~Arrival => cdata' = cdata
    BY DEF Next, Applications, StartProducing, StopProducing, SetData, AddConnection,
           RemoveConnection, ProcessTick, CheckTimeouts, TimePasses, vars, consumerVars
  <2> QED
    BY <2>packet, <2>same DEF Arrival
<1>type. Types /\ ClockInv /\ DataInv => TypeOK
  <2> SUFFICES ASSUME Types, ClockInv, DataInv PROVE TypeOK
    OBVIOUS
  <2>flags. /\ producing \in BOOLEAN /\ connected \in BOOLEAN
            /\ timedOut \in BOOLEAN /\ steady \in BOOLEAN
    BY DEF Types, FlagTypes
  <2>clocks. /\ sinceSend \in 0 .. Rpi /\ sinceSched \in 0 .. SchedPeriod
             /\ lost \in 0 .. MaxLoss
             /\ sinceReceive \in 0 .. Timeout + WatchPeriod
             /\ sinceWatch \in 0 .. WatchPeriod
             /\ sinceTry \in Nat /\ sinceGood \in Nat /\ dataAge \in Nat
    BY ConstantsAreNumbers, PeriodsArePositive DEF Types, ClockTypes, ClockInv
  <2> QED
    BY <2>flags, <2>clocks DEF TypeOK, Types, NetTypes
<1> QED
  BY <1>init, <1>step, <1>type, AllTyped, Clocks, PTL DEF Spec

LEMMA TableIsSound == Spec => []InTable
<1> USE DEF InTable
<1>init. Init => InTable
  BY DEF Init
<1>step. InTable /\ [Next]_vars => InTable'
  <2> SUFFICES ASSUME InTable, [Next]_vars PROVE InTable'
    OBVIOUS
  <2>apps. Applications => InTable'
    BY DEF Applications, StartProducing, StopProducing, SetData, AddConnection,
           RemoveConnection, consumerVars, histVars
  <2>watch. CheckTimeouts => InTable'
    BY DEF CheckTimeouts
  <2>rest. ProcessTick \/ Arrival \/ TimePasses \/ UNCHANGED vars => InTable'
    BY DEF ProcessTick, Arrival, HandlePacket, TimePasses, vars, consumerVars, histVars
  <2> QED
    BY <2>apps, <2>watch, <2>rest DEF Next
<1> QED
  BY <1>init, <1>step, PTL DEF Spec

\* The watchdog does not time out a connection whose producer has kept producing
\* since it was added: what happens to it is what IOLink allows.
THEOREM NoFalseTimeout == Spec => LinkSpec
<1>init. Init => Link!Init
  BY DEF Init, Link!Init
<1>step. Types /\ InTable /\ ClockInv /\ SilenceInv /\ [Next]_vars
           => [Link!Next]_(Link!vars)
  <2> SUFFICES ASSUME Types, InTable, ClockInv, SilenceInv, [Next]_vars
               PROVE  Link!Next \/ UNCHANGED Link!vars
    OBVIOUS
  <2> USE DEF Link!Next, Link!vars
  <2>start. StartProducing => Link!Start
    BY DEF StartProducing, consumerVars, Link!Start
  <2>stop. StopProducing => Link!Stop
    BY DEF StopProducing, consumerVars, Link!Stop
  <2>add. AddConnection => Link!Add
    BY DEF AddConnection, producerVars, Link!Add
  <2>remove. RemoveConnection => Link!Remove
    <3> SUFFICES ASSUME RemoveConnection PROVE Link!Remove
      OBVIOUS
    <3>1. ~connected' /\ ~timedOut'
      BY DEF RemoveConnection, histVars, InTable
    <3>2. producing' = producing /\ steady' = steady
      BY DEF RemoveConnection, producerVars, histVars
    <3> QED
      BY <3>1, <3>2, Zenon DEF Link!Remove
  <2>watch. CheckTimeouts => Link!Expire \/ UNCHANGED Link!vars
    <3> SUFFICES ASSUME CheckTimeouts PROVE Link!Expire \/ UNCHANGED Link!vars
      OBVIOUS
    <3>same. producing' = producing /\ steady' = steady
      BY DEF CheckTimeouts, producerVars
    <3>silent. CASE connected /\ sinceReceive > Timeout
      <4>1. ~steady
        <5> SUFFICES ASSUME steady PROVE FALSE
          OBVIOUS
        <5>1. producing /\ sinceGood <= MaxGap
          BY GapIsBounded DEF ClockInv
        <5>2. CASE sinceReceive <= sinceGood + 0
          BY <3>silent, <5>1, <5>2, PeriodsArePositive, ConstantsAreNumbers
             DEF Types, ClockTypes
        <5>3. ASSUME NEW f \in net, sinceReceive <= f.age + MaxGap + 0 PROVE FALSE
          <6>1. f.age \in Nat /\ f.age <= MaxDelay
            BY DEF Types, NetTypes, Frames
          <6> QED
            BY <3>silent, <5>3, <6>1, PeriodsArePositive, ConstantsAreNumbers
               DEF Types, ClockTypes
        <5> QED
          BY <3>silent, <5>2, <5>3 DEF SilenceInv, Awaited
      <4>2. connected' = FALSE /\ timedOut' = TRUE
        BY <3>silent DEF CheckTimeouts
      <4>3. connected /\ ~connected' /\ timedOut'
        BY <3>silent, <4>2
      <4> QED
        BY <3>same, <4>1, <4>3, Zenon DEF Link!Expire
    <3>heard. CASE ~(connected /\ sinceReceive > Timeout)
      <4>1. connected' = connected /\ timedOut' = timedOut
        BY <3>heard DEF CheckTimeouts
      <4> QED
        BY <3>same, <4>1, Zenon
    <3> QED
      BY <3>silent, <3>heard
  <2>rest. SetData \/ ProcessTick \/ Arrival \/ TimePasses \/ UNCHANGED vars
              => UNCHANGED Link!vars
    <3>1. SetData => UNCHANGED <<producing, connected, timedOut, steady>>
      BY DEF SetData, consumerVars, histVars
    <3>2. ProcessTick => UNCHANGED <<producing, connected, timedOut, steady>>
      BY DEF ProcessTick, consumerVars
    <3>3. Arrival => UNCHANGED <<producing, connected, timedOut, steady>>
      BY DEF Arrival, HandlePacket, producerVars
    <3>4. TimePasses => UNCHANGED <<producing, connected, timedOut, steady>>
      BY DEF TimePasses
    <3>5. UNCHANGED vars => UNCHANGED <<producing, connected, timedOut, steady>>
      BY DEF vars, producerVars, consumerVars, histVars
    <3>6. ASSUME UNCHANGED <<producing, connected, timedOut, steady>>
          PROVE  UNCHANGED Link!vars
      <4>1. /\ producing' = producing /\ connected' = connected
            /\ timedOut' = timedOut /\ steady' = steady
        BY <3>6
      <4> QED
        BY <4>1, Zenon
    <3> QED
      BY <3>1, <3>2, <3>3, <3>4, <3>5, <3>6
  <2> QED
    BY <2>start, <2>stop, <2>add, <2>rest, <2>remove, <2>watch DEF Next, Applications
<1> QED
  BY <1>init, <1>step, AllTyped, TableIsSound, Clocks, SilenceIsExplained, PTL
     DEF Spec, LinkSpec, Link!Spec

\* The data of a consumer whose assembly has the right size is never older than the
\* longest gap between two frames and twice what a datagram may take.
THEOREM DataStaysFresh == ASSUME Fits PROVE Spec => []FreshData
<1>1. Types /\ ClockInv /\ FreshInv => FreshData
  <2> SUFFICES ASSUME Types, ClockInv, FreshInv, connected, steady
               PROVE  dataAge <= MaxDataAge
    BY DEF FreshData
  <2>1. producing /\ sinceGood <= MaxGap
    BY GapIsBounded DEF ClockInv
  <2>2. dataAge \in Nat /\ sinceGood \in Nat
    BY DEF Types, ClockTypes
  <2>3. CASE dataAge <= sinceGood + MaxDelay
    BY <2>1, <2>2, <2>3, PeriodsArePositive, ConstantsAreNumbers DEF MaxDataAge
  <2>4. ASSUME NEW f \in net, dataAge <= f.age + MaxGap + MaxDelay
        PROVE  dataAge <= MaxDataAge
    <3>1. f.age \in Nat /\ f.age <= MaxDelay
      BY DEF Types, NetTypes, Frames
    <3> QED
      BY <2>2, <2>4, <3>1, PeriodsArePositive, ConstantsAreNumbers DEF MaxDataAge
  <2> QED
    BY <2>3, <2>4 DEF FreshInv, Awaited
<1> QED
  BY <1>1, AllTyped, Clocks, AgeIsExplained, PTL
=============================================================================
