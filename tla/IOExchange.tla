----------------------------- MODULE IOExchange -----------------------------
(***************************************************************************)
(* Class 1 I/O between two goeip runtimes: the scheduler of the one that   *)
(* produces, a UDP network that loses, repeats, delays and reorders, and   *)
(* the listener and the watchdog of the one that consumes.                 *)
(*                                                                         *)
(* One connection, at the grain of whole handlers: a tick of the scheduler,*)
(* a packet, a tick of the watchdog (IORuntime takes these apart, for one  *)
(* runtime whose packets come from anywhere). What is added here is time   *)
(* on both sides and the network between them, and what is in a packet.    *)
(* The scheduler and the watchdog run when their tickers fire.             *)
(***************************************************************************)
EXTENDS Integers, Sequences

CONSTANTS
  Rpi,             \* IOConnection.RPI, the same on both sides
  TimeoutMult,     \* IOConnection.TimeoutMult of the consumer
  SchedPeriod,     \* the scheduler's ticker, 5 ms in the code
  WatchPeriod,     \* the watchdog's ticker, 100 ms in the code
  MaxDelay,        \* a datagram that arrives does so within this time
  MaxLoss,         \* so many datagrams in a row may be lost
  Values,          \* contents of a byte
  ProducerSize,    \* bytes in the assembly that is produced
  ConsumerSize,    \* bytes in the assembly that consumes
  ProducerHeader,  \* IOConnection.RunIdleHeader of the producer
  ConsumerHeader   \* and of the consumer

ASSUME ParametersAssumption ==
  /\ Rpi \in Nat \ {0} /\ TimeoutMult \in Nat
  /\ SchedPeriod \in Nat \ {0} /\ WatchPeriod \in Nat \ {0}
  /\ MaxDelay \in Nat /\ MaxLoss \in Nat
  /\ ProducerSize \in Nat /\ ConsumerSize \in Nat
  /\ ProducerHeader \in BOOLEAN /\ ConsumerHeader \in BOOLEAN

Timeout == Rpi * (4 * 2 ^ TimeoutMult)

\* Two frames are sent at most MaxPeriod apart, two that arrive at most MaxGap.
MaxPeriod  == Rpi + SchedPeriod - 1
Periods(n) == n * MaxPeriod
MaxGap     == Periods(MaxLoss + 1)

\* The timeout leaves room for what the network does.
ASSUME MarginAssumption == Timeout \in Nat /\ MaxGap + MaxDelay <= Timeout

VARIABLES
  producing,     \* the connection is in the producer's table
  pdata,         \* the producer's assembly
  sinceSend,     \* age of its conn.LastSend, up to Rpi
  sinceSched,    \* time since the scheduler's last tick
  net,           \* datagrams in flight
  lost,          \* how many have been lost since one was not
  connected,     \* the connection is in the consumer's table
  cdata,         \* the consumer's assembly
  sinceReceive,  \* age of its conn.LastReceive
  sinceWatch,    \* time since the watchdog's last tick
  (* History, read by no action: *)
  timedOut,      \* the watchdog has removed the connection
  steady,        \* produced ever since the connection was added
  sinceTry,      \* time since a frame was sent, or production began
  sinceGood,     \* time since a frame was sent that is not lost
  dataAge        \* time since cdata was sent, or the connection added

producerVars == <<producing, pdata, sinceSend, sinceSched>>
consumerVars == <<connected, cdata, sinceReceive, sinceWatch>>
histVars     == <<timedOut, steady, sinceTry, sinceGood, dataAge>>
vars         == <<producerVars, net, lost, consumerVars, histVars>>

\* The sequence count and the run/idle header, whose values nobody looks at.
Cells  == Values \union {"count", "header"}
Data   == [1 .. ProducerSize -> Values]
Frames == [data : Data, age : 0 .. MaxDelay, fresh : BOOLEAN]

TypeOK ==
  /\ producing \in BOOLEAN /\ connected \in BOOLEAN
  /\ timedOut \in BOOLEAN /\ steady \in BOOLEAN
  /\ pdata \in Data
  /\ sinceSend \in 0 .. Rpi /\ sinceSched \in 0 .. SchedPeriod
  /\ net \subseteq Frames
  /\ lost \in 0 .. MaxLoss
  /\ cdata \in Seq(Cells) /\ Len(cdata) = ConsumerSize
  /\ sinceReceive \in 0 .. Timeout + WatchPeriod /\ sinceWatch \in 0 .. WatchPeriod
  /\ sinceTry \in Nat /\ sinceGood \in Nat /\ dataAge \in Nat

Init ==
  /\ producing = FALSE /\ pdata \in Data
  /\ sinceSend = Rpi /\ sinceSched = 0
  /\ net = {} /\ lost = 0
  /\ connected = FALSE
  /\ \E v \in Values : cdata = [n \in 1 .. ConsumerSize |-> v]
  /\ sinceReceive = 0 /\ sinceWatch = 0
  /\ timedOut = FALSE /\ steady = FALSE
  /\ sinceTry = 0 /\ sinceGood = 0 /\ dataAge = 0

-----------------------------------------------------------------------------
(* The applications.                                                       *)

\* The producer's AddConnection. LastSend is the zero time.
StartProducing ==
  /\ ~producing
  /\ producing' = TRUE
  /\ sinceSend' = Rpi
  /\ lost' = 0 /\ sinceTry' = 0 /\ sinceGood' = 0
  /\ UNCHANGED <<pdata, sinceSched, net, consumerVars, timedOut, steady, dataAge>>

\* RemoveConnection or Scheduler.Stop at the producer, or its end.
StopProducing ==
  /\ producing
  /\ producing' = FALSE /\ steady' = FALSE
  /\ UNCHANGED <<pdata, sinceSend, sinceSched, net, lost, consumerVars,
                 timedOut, sinceTry, sinceGood, dataAge>>

SetData ==
  /\ pdata' \in Data
  /\ UNCHANGED <<producing, sinceSend, sinceSched, net, lost, consumerVars, histVars>>

\* The consumer's AddConnection.
AddConnection ==
  /\ ~connected
  /\ connected' = TRUE /\ sinceReceive' = 0
  /\ timedOut' = FALSE /\ steady' = producing /\ dataAge' = 0
  /\ UNCHANGED <<producerVars, net, lost, cdata, sinceWatch, sinceTry, sinceGood>>

RemoveConnection ==
  /\ connected
  /\ connected' = FALSE /\ sinceReceive' = 0
  /\ UNCHANGED <<producerVars, net, lost, cdata, sinceWatch, histVars>>

-----------------------------------------------------------------------------
(* The producer's scheduler and the network.                               *)

\* sendPacket. The datagram is lost, unless MaxLoss have been lost already, or
\* will arrive. LastSend is set.
SendPacket ==
  /\ sinceSend' = 0 /\ sinceTry' = 0
  /\ \/ lost < MaxLoss /\ lost' = lost + 1 /\ UNCHANGED <<net, sinceGood>>
     \/ /\ net' = net \union {[data |-> pdata, age |-> 0, fresh |-> TRUE]}
        /\ lost' = 0 /\ sinceGood' = 0

\* processTick: the connection is due when its RPI has passed since LastSend.
ProcessTick ==
  /\ sinceSched = SchedPeriod
  /\ sinceSched' = 0
  /\ IF producing /\ sinceSend >= Rpi
       THEN SendPacket
       ELSE UNCHANGED <<sinceSend, net, lost, sinceTry, sinceGood>>
  /\ UNCHANGED <<producing, pdata, consumerVars, timedOut, steady, dataAge>>

\* Variant: the run/idle header is forgotten.
PayloadNoHeader(d) == <<"count", "count">> \o d

\* The data item sendPacket builds.
Payload(d) ==
  <<"count", "count">>
    \o (IF ProducerHeader THEN <<"header", "header", "header", "header">> ELSE <<>>)
    \o d

\* Variant: the header of a consumer that expects one is left in place.
DataOfAll(p) == p

\* What handlePacket hands to SetAttributeSingle, the sequence count included.
DataOf(p) == IF ConsumerHeader THEN SubSeq(p, 5, Len(p)) ELSE p

\* The consumer's assembly has the length of what it is handed.
Fits == \A d \in Data : Len(DataOf(Payload(d))) = ConsumerSize

\* Variant: LastReceive is set only when the data has changed.
HandlePacketChanged(f) ==
  LET d == DataOf(Payload(f.data)) IN
  /\ f \in net
  /\ net' = (net \ {f}) \union {[f EXCEPT !.fresh = FALSE]}
  /\ IF connected
       THEN /\ sinceReceive' = IF d # cdata THEN 0 ELSE sinceReceive
            /\ IF Len(d) = ConsumerSize
                 THEN cdata' = d /\ dataAge' = f.age
                 ELSE UNCHANGED <<cdata, dataAge>>
       ELSE UNCHANGED <<sinceReceive, cdata, dataAge>>
  /\ UNCHANGED <<producerVars, lost, connected, sinceWatch,
                 timedOut, steady, sinceTry, sinceGood>>

\* handlePacket: the listener refreshes LastReceive and sets the assembly, which
\* refuses data of another length. A datagram that has arrived may do so again.
HandlePacket(f) ==
  LET d == DataOf(Payload(f.data)) IN
  /\ f \in net
  /\ net' = (net \ {f}) \union {[f EXCEPT !.fresh = FALSE]}
  /\ IF connected
       THEN /\ sinceReceive' = 0
            /\ IF Len(d) = ConsumerSize
                 THEN cdata' = d /\ dataAge' = f.age
                 ELSE UNCHANGED <<cdata, dataAge>>
       ELSE UNCHANGED <<sinceReceive, cdata, dataAge>>
  /\ UNCHANGED <<producerVars, lost, connected, sinceWatch,
                 timedOut, steady, sinceTry, sinceGood>>

-----------------------------------------------------------------------------
(* The consumer's watchdog, and time.                                      *)

\* Variant: the multiplier is twice what it should be.
CheckTimeoutsLong ==
  /\ sinceWatch = WatchPeriod
  /\ sinceWatch' = 0
  /\ IF connected /\ sinceReceive > 2 * Timeout
       THEN connected' = FALSE /\ timedOut' = TRUE /\ sinceReceive' = 0
       ELSE UNCHANGED <<connected, timedOut, sinceReceive>>
  /\ UNCHANGED <<producerVars, net, lost, cdata, steady, sinceTry, sinceGood, dataAge>>

\* Variant: a connection that times out is only noted.
CheckTimeoutsKeep ==
  /\ sinceWatch = WatchPeriod
  /\ sinceWatch' = 0
  /\ IF connected /\ sinceReceive > Timeout
       THEN timedOut' = TRUE /\ sinceReceive' = 0 /\ UNCHANGED connected
       ELSE UNCHANGED <<connected, timedOut, sinceReceive>>
  /\ UNCHANGED <<producerVars, net, lost, cdata, steady, sinceTry, sinceGood, dataAge>>

\* The connection is removed when it has been silent for longer than its timeout.
CheckTimeouts ==
  /\ sinceWatch = WatchPeriod
  /\ sinceWatch' = 0
  /\ IF connected /\ sinceReceive > Timeout
       THEN connected' = FALSE /\ timedOut' = TRUE /\ sinceReceive' = 0
       ELSE UNCHANGED <<connected, timedOut, sinceReceive>>
  /\ UNCHANGED <<producerVars, net, lost, cdata, steady, sinceTry, sinceGood, dataAge>>

\* A ghost clock stops where no property tells its values apart any more.
Tick(clock, runs, cap) == IF runs /\ clock < cap THEN clock + 1 ELSE clock

MaxDataAge == MaxGap + 2 * MaxDelay

\* A datagram that has not arrived yet does so before MaxDelay is over.
TimePasses ==
  /\ sinceSched < SchedPeriod /\ sinceWatch < WatchPeriod
  /\ \A f \in net : f.fresh => f.age < MaxDelay
  /\ sinceSched' = sinceSched + 1 /\ sinceWatch' = sinceWatch + 1
  /\ sinceSend' = Tick(sinceSend, TRUE, Rpi)
  /\ sinceReceive' = IF connected THEN sinceReceive + 1 ELSE sinceReceive
  /\ net' = {[f EXCEPT !.age = @ + 1] : f \in {g \in net : g.age < MaxDelay}}
  /\ sinceTry' = Tick(sinceTry, producing, MaxPeriod + 1)
  /\ sinceGood' = Tick(sinceGood, producing, MaxGap + 1)
  /\ dataAge' = Tick(dataAge, connected /\ steady, MaxDataAge + 1)
  /\ UNCHANGED <<producing, pdata, lost, connected, cdata, timedOut, steady>>

Applications ==
  StartProducing \/ StopProducing \/ SetData \/ AddConnection \/ RemoveConnection
Arrival == \E f \in net : HandlePacket(f)

Next == Applications \/ ProcessTick \/ Arrival \/ CheckTimeouts \/ TimePasses

Spec == Init /\ [][Next]_vars

\* Time goes on: tickers fire and datagrams that are due arrive.
FairSpec ==
  /\ Spec
  /\ WF_vars(TimePasses) /\ WF_vars(ProcessTick) /\ WF_vars(CheckTimeouts)
  /\ \A d \in Data : WF_vars(\E f \in net : f.fresh /\ HandlePacket(f) /\ f.data = d)

-----------------------------------------------------------------------------
(* Properties.                                                             *)

\* A producer that keeps producing is not timed out, although RPIs are rounded up
\* to scheduler ticks and the network loses and delays what it sends.
Link == INSTANCE IOLink
          WITH link <- IF connected THEN "up" ELSE IF timedOut THEN "timedOut" ELSE "down"
LinkSpec == Link!Spec

\* While it is produced, the data of a consumer whose assembly has the right size
\* is not older than that: late and repeated datagrams may put old data back, since
\* handlePacket does not look at the sequence count, but not for longer.
FreshData == connected /\ steady => dataAge <= MaxDataAge

\* Once the producer's data stays the same, the consumer gets it and keeps it.
Holds(d) ==
  /\ Len(cdata) >= ProducerSize
  /\ SubSeq(cdata, Len(cdata) - ProducerSize + 1, Len(cdata)) = d
Converges ==
  \A d \in Data :
    <>[](pdata = d /\ connected /\ producing) => <>[]Holds(d)

\* A producer that has ended is noticed: the connection does not stay up.
SilenceNoticed == ~producing ~> producing \/ ~connected

\* Why they hold. sinceTry and sinceSend say when the next frame is due:
ClockInv ==
  /\ sinceReceive <= Timeout + sinceWatch
  /\ ~connected => sinceReceive = 0
  /\ steady => producing
  /\ producing => /\ sinceTry <= Rpi - 1 + sinceSched
                  /\ sinceSend < Rpi => sinceTry <= sinceSend
                  /\ sinceGood <= Periods(lost) + sinceTry

\* and what arrived so long ago is not much older than the latest frame that is not
\* lost, or than one that is still to arrive.
Awaited(age, slack) ==
  \/ age <= sinceGood + slack
  \/ \E f \in net : f.fresh /\ age <= f.age + MaxGap + slack

SilenceInv == connected /\ steady => Awaited(sinceReceive, 0)
FreshInv   == connected /\ steady => Awaited(dataAge, MaxDelay)

\* docs/implicit_messaging.md:18-21: the payload of a packet, which follows the
\* sequence count and the header, is the assembly's data. So an assembly of the
\* producer's size gets it.
PayloadDelivered ==
  [][\A f \in net : HandlePacket(f) /\ connected => cdata' = f.data]_vars
=============================================================================
