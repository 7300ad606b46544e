----------------------------- MODULE IORuntime -----------------------------
(***************************************************************************)
(* The implicit-messaging engine of pkg/runtime: the connection table, the *)
(* UDP listener (handlePacket), the watchdog (checkTimeouts) and the       *)
(* scheduler (processTick, sendPacket), with the attribute-3 data of the   *)
(* assemblies they exchange (pkg/objects/assembly).                        *)
(*                                                                         *)
(* Listener, watchdog, scheduler and application are four goroutines. The  *)
(* table is guarded by r.mu, the assemblies by AssemblyObject.mu; between  *)
(* two critical sections the listener and the scheduler keep *IOConnection *)
(* pointers, to connections that may meanwhile have left the table or have *)
(* been replaced under their id. The scheduler reads the assembly data     *)
(* without AssemblyObject.mu.                                              *)
(*                                                                         *)
(* Time is counted in ticks of an arbitrary unit and kept as ages, which   *)
(* stop growing once no comparison can tell them from larger ones.         *)
(***************************************************************************)
EXTENDS Integers

CONSTANTS
  Ios,         \* the *IOConnection values the application creates
  NoIo,        \* nil
  Ids,         \* connection ids
  IdOf,        \* conn.ConnectionID
  Producers,   \* conn.IsProducer
  Consumers,   \* conn.IsConsumer; a connection may be both
  Rpi,         \* conn.RPI
  TimeoutMult, \* conn.TimeoutMult
  Assemblies,  \* assembly instances
  NoAssembly,  \* nil
  AssemblyOf,  \* conn.Assembly
  Values,      \* contents of an assembly
  NoValue,     \* no data, or data of a length no assembly has
  WatchPeriod  \* period of the watchdog's ticker

ASSUME IosAssumption ==
  /\ NoIo \notin Ios /\ NoValue \notin Values
  /\ IdOf \in [Ios -> Ids]
  /\ Producers \subseteq Ios /\ Consumers \subseteq Ios
  /\ Rpi \in [Ios -> Nat \ {0}]
  /\ TimeoutMult \in [Ios -> Nat]
  /\ NoAssembly \notin Assemblies
  /\ AssemblyOf \in [Ios -> Assemblies \union {NoAssembly}]
  /\ WatchPeriod \in Nat \ {0}

VARIABLES
  connections,   \* r.connections
  sinceReceive,  \* age of LastReceive of the connection each id has now
  sinceSend,     \* age of conn.LastSend
  sinceWatch,    \* time since the watchdog's last tick
  data,          \* the two halves of each assembly's data
  stop,          \* the scheduler's stop channel is closed
  schedPc,       \* where the scheduler goroutine is
  todo,          \* connections of processTick's copy still to be visited
  sending,       \* the connection sendPacket is working on
  copied,        \* the part of the assembly data it has copied
  rxPc,          \* where the listener goroutine is
  rxConn,        \* the pointer its first lookup found
  rxValue,       \* the data of the packet
  (* History, read by no action: *)
  sinceWire,     \* time since a frame of the connection was sent
  sinceArrival,  \* time since the listener found that connection for a packet
  lateFrames,    \* connections that have sent a frame since they left the table
  lateWrites,    \* connections whose data was applied since they left the table
  frame          \* data of the latest frame sent

tableVars == <<connections, sinceReceive>>
schedVars == <<stop, schedPc, todo, sending, copied, sinceSend>>
rxVars    == <<rxPc, rxConn, rxValue>>
histVars  == <<sinceWire, sinceArrival, lateFrames, lateWrites, frame>>
vars      == <<tableVars, sinceWatch, data, schedVars, rxVars, histVars>>

Timeout(o)    == Rpi[o] * (4 * 2 ^ TimeoutMult[o])

\* Where ages stop; the age of what is never compared stays 0. (LastReceive is
\* only ever reached through the table.)
ReceiveCap(o) == IF o \in Consumers THEN Timeout(o) + WatchPeriod + 1 ELSE 0
SendCap(o)    == IF o \in Producers THEN Rpi[o] + 1 ELSE 0

\* No shift or product of the timeout overflows.
ASSUME TimeoutAssumption == \A o \in Ios : Timeout(o) \in Nat

Current(o) == connections[IdOf[o]] = o

TypeOK ==
  /\ connections \in [Ids -> Ios \union {NoIo}]
  /\ sinceReceive \in [Ids -> Nat] /\ sinceArrival \in [Ids -> Nat]
  /\ sinceSend \in [Ios -> Nat] /\ sinceWire \in [Ios -> Nat]
  /\ \A i \in Ids : /\ connections[i] # NoIo => IdOf[connections[i]] = i
                    /\ sinceReceive[i] <= ReceiveCap(connections[i])
                    /\ sinceArrival[i] <= ReceiveCap(connections[i])
  /\ \A o \in Ios : sinceSend[o] <= SendCap(o) /\ sinceWire[o] <= SendCap(o)
  /\ lateFrames \subseteq Ios /\ lateWrites \subseteq Ios
  /\ sinceWatch \in 0 .. WatchPeriod
  /\ data \in [Assemblies -> Values \X Values]
  /\ stop \in BOOLEAN
  /\ schedPc \in {"idle", "loop", "copy", "stamp", "stopped"}
  /\ todo \subseteq Producers
  /\ sending \in Producers \union {NoIo}
  /\ copied \in Values \union {NoValue}
  /\ frame \in (Values \X Values) \union {<<NoValue, NoValue>>}
  /\ rxPc \in {"idle", "found", "apply"}
  /\ rxConn \in Ios \union {NoIo}
  /\ rxValue \in Values \union {NoValue}

\* An application that has set up its assemblies, started the runtime and the
\* scheduler, and has not added a connection. LastSend is the zero time.
Init ==
  /\ connections = [i \in Ids |-> NoIo]
  /\ sinceReceive = [i \in Ids |-> 0]
  /\ sinceSend = [o \in Ios |-> SendCap(o)]
  /\ sinceWatch = 0
  /\ \E v \in Values : data = [a \in Assemblies |-> <<v, v>>]
  /\ copied = NoValue /\ rxValue = NoValue /\ frame = <<NoValue, NoValue>>
  /\ stop = FALSE /\ schedPc = "idle" /\ todo = {} /\ sending = NoIo
  /\ rxPc = "idle" /\ rxConn = NoIo
  /\ sinceWire = [o \in Ios |-> SendCap(o)]
  /\ sinceArrival = [i \in Ids |-> 0]
  /\ lateFrames = {} /\ lateWrites = {}

-----------------------------------------------------------------------------
(* The application.                                                        *)

\* The ids S have no connection any more.
Drop(S) ==
  /\ connections' = [i \in Ids |-> IF i \in S THEN NoIo ELSE connections[i]]
  /\ sinceReceive' = [i \in Ids |-> IF i \in S THEN 0 ELSE sinceReceive[i]]
  /\ sinceArrival' = [i \in Ids |-> IF i \in S THEN 0 ELSE sinceArrival[i]]

\* A connection is added under its id, replacing the one that had the id.
AddConnection(o) ==
  /\ connections' = [connections EXCEPT ![IdOf[o]] = o]
  /\ sinceReceive' = [sinceReceive EXCEPT ![IdOf[o]] = 0]
  /\ sinceArrival' = [sinceArrival EXCEPT ![IdOf[o]] = ReceiveCap(o)]
  /\ lateFrames' = lateFrames \ {o} /\ lateWrites' = lateWrites \ {o}
  /\ UNCHANGED <<sinceWatch, data, schedVars, rxVars, sinceWire, frame>>

RemoveConnection(i) ==
  /\ Drop({i})
  /\ UNCHANGED <<sinceWatch, data, schedVars, rxVars, sinceWire, lateFrames,
                 lateWrites, frame>>

\* SetAttributeSingle of an explicit message, under AssemblyObject.mu.
SetAssembly(a) ==
  /\ \E v \in Values : data' = [data EXCEPT ![a] = <<v, v>>]
  /\ UNCHANGED <<tableVars, sinceWatch, schedVars, rxVars, histVars>>

\* Scheduler.Stop; a second call would panic.
StopScheduler ==
  /\ ~stop /\ stop' = TRUE
  /\ UNCHANGED <<tableVars, sinceWatch, data, schedPc, todo, sending, copied,
                 sinceSend, rxVars, histVars>>

-----------------------------------------------------------------------------
(* The scheduler goroutine.                                                *)

\* Variant: works on every producing connection ever created.
TickSnapshotAll ==
  /\ schedPc = "idle"
  /\ todo' = Producers
  /\ schedPc' = "loop"
  /\ UNCHANGED <<tableVars, sinceWatch, data, stop, sending, copied, sinceSend,
                 rxVars, histVars>>

\* Variant: connections that only consume are copied too.
TickSnapshotEvery ==
  /\ schedPc = "idle"
  /\ todo' = {o \in Ios : Current(o)}
  /\ schedPc' = "loop"
  /\ UNCHANGED <<tableVars, sinceWatch, data, stop, sending, copied, sinceSend,
                 rxVars, histVars>>

\* The ticker case of run's select, which may be chosen although stop is closed:
\* processTick copies the producing connections under the read lock.
TickSnapshot ==
  /\ schedPc = "idle"
  /\ todo' = {o \in Producers : Current(o)}
  /\ schedPc' = "loop"
  /\ UNCHANGED <<tableVars, sinceWatch, data, stop, sending, copied, sinceSend,
                 rxVars, histVars>>

\* Variant: a connection that is not due ends the tick (return for continue).
TickSkipReturn(o) ==
  /\ schedPc = "loop" /\ o \in todo
  /\ sinceSend[o] < Rpi[o] \/ AssemblyOf[o] = NoAssembly
  /\ todo' = {}
  /\ UNCHANGED <<tableVars, sinceWatch, data, stop, schedPc, sending, copied,
                 sinceSend, rxVars, histVars>>

\* Not due yet, or nothing to send.
TickSkip(o) ==
  /\ schedPc = "loop" /\ o \in todo
  /\ sinceSend[o] < Rpi[o] \/ AssemblyOf[o] = NoAssembly
  /\ todo' = todo \ {o}
  /\ UNCHANGED <<tableVars, sinceWatch, data, stop, schedPc, sending, copied,
                 sinceSend, rxVars, histVars>>

\* sendPacket builds the header and begins to copy the assembly data, which it
\* reads without AssemblyObject.mu.
SendBegin(o) ==
  /\ schedPc = "loop" /\ o \in todo
  /\ sinceSend[o] >= Rpi[o] /\ AssemblyOf[o] # NoAssembly
  /\ schedPc' = "copy"
  /\ sending' = o
  /\ copied' = data[AssemblyOf[o]][1]
  /\ UNCHANGED <<tableVars, sinceWatch, data, stop, todo, sinceSend, rxVars, histVars>>

\* The rest of the data, and the frame goes out.
SendFrame ==
  /\ schedPc = "copy"
  /\ schedPc' = "stamp"
  /\ frame' = <<copied, data[AssemblyOf[sending]][2]>>
  /\ sinceWire' = [sinceWire EXCEPT ![sending] = 0]
  /\ lateFrames' = lateFrames \union {o \in {sending} : ~Current(o)}
  /\ copied' = NoValue
  /\ UNCHANGED <<tableVars, sinceWatch, data, stop, todo, sending,
                 sinceSend, rxVars, sinceArrival, lateWrites>>

\* Variant: LastSend is never updated.
SendStampNot ==
  /\ schedPc = "stamp"
  /\ schedPc' = "loop"
  /\ todo' = todo \ {sending}
  /\ sending' = NoIo
  /\ UNCHANGED <<tableVars, sinceWatch, data, stop, copied, sinceSend, rxVars, histVars>>

\* processTick sets LastSend after the packet has been sent.
SendStamp ==
  /\ schedPc = "stamp"
  /\ schedPc' = "loop"
  /\ sinceSend' = [sinceSend EXCEPT ![sending] = 0]
  /\ todo' = todo \ {sending}
  /\ sending' = NoIo
  /\ UNCHANGED <<tableVars, sinceWatch, data, stop, copied, rxVars, histVars>>

TickEnd ==
  /\ schedPc = "loop" /\ todo = {}
  /\ schedPc' = "idle"
  /\ UNCHANGED <<tableVars, sinceWatch, data, stop, todo, sending, copied,
                 sinceSend, rxVars, histVars>>

SchedulerExit ==
  /\ schedPc = "idle" /\ stop
  /\ schedPc' = "stopped"
  /\ UNCHANGED <<tableVars, sinceWatch, data, stop, todo, sending, copied,
                 sinceSend, rxVars, histVars>>

-----------------------------------------------------------------------------
(* The listener goroutine: a well-formed packet with any connection id, data*)
(* and length; the network may lose, repeat, delay and reorder packets.    *)

\* The lookup under the read lock; a packet for an unknown id is dropped.
PacketLookup(i) ==
  /\ rxPc = "idle" /\ connections[i] # NoIo
  /\ rxPc' = "found"
  /\ rxConn' = connections[i]
  /\ rxValue' \in Values \union {NoValue}
  /\ sinceArrival' = [sinceArrival EXCEPT ![i] = 0]
  /\ UNCHANGED <<tableVars, sinceWatch, data, schedVars,
                 sinceWire, lateFrames, lateWrites, frame>>

\* Variant: LastReceive is left alone if the packet is going to be rejected.
PacketRefreshFitting ==
  LET i == IdOf[rxConn] IN
  /\ rxPc = "found"
  /\ rxPc' = "apply"
  /\ sinceReceive' = IF rxValue # NoValue /\ connections[i] # NoIo
                       THEN [sinceReceive EXCEPT ![i] = 0]
                       ELSE sinceReceive
  /\ UNCHANGED <<connections, sinceWatch, data, schedVars, rxConn, rxValue, histVars>>

\* A second lookup under the write lock refreshes whatever connection has the
\* id now.
PacketRefresh ==
  LET i == IdOf[rxConn] IN
  /\ rxPc = "found"
  /\ rxPc' = "apply"
  /\ sinceReceive' = IF connections[i] # NoIo
                       THEN [sinceReceive EXCEPT ![i] = 0]
                       ELSE sinceReceive
  /\ UNCHANGED <<connections, sinceWatch, data, schedVars, rxConn, rxValue, histVars>>

\* The data goes to the assembly of the connection the first lookup found;
\* SetAttributeSingle rejects it if the length differs, and nobody is told.
PacketApply ==
  /\ rxPc = "apply"
  /\ rxPc' = "idle"
  /\ IF rxValue # NoValue /\ AssemblyOf[rxConn] # NoAssembly
       THEN /\ data' = [data EXCEPT ![AssemblyOf[rxConn]] = <<rxValue, rxValue>>]
            /\ lateWrites' = lateWrites \union {o \in {rxConn} : ~Current(o)}
       ELSE UNCHANGED <<data, lateWrites>>
  /\ rxConn' = NoIo /\ rxValue' = NoValue
  /\ UNCHANGED <<tableVars, sinceWatch, schedVars,
                 sinceWire, sinceArrival, lateFrames, frame>>

-----------------------------------------------------------------------------
(* The watchdog goroutine, and time.                                       *)

\* Variant: a connection that produces is never timed out.
CheckTimeoutsConsumersOnly ==
  /\ sinceWatch = WatchPeriod
  /\ sinceWatch' = 0
  /\ Drop({i \in Ids : /\ connections[i] \in Consumers \ Producers
                       /\ sinceReceive[i] > Timeout(connections[i])})
  /\ UNCHANGED <<data, schedVars, rxVars, sinceWire, lateFrames, lateWrites, frame>>

\* The watchdog's ticker: every consuming connection that has been silent for
\* longer than its timeout leaves the table.
CheckTimeouts ==
  /\ sinceWatch = WatchPeriod
  /\ sinceWatch' = 0
  /\ Drop({i \in Ids : /\ connections[i] \in Consumers
                       /\ sinceReceive[i] > Timeout(connections[i])})
  /\ UNCHANGED <<data, schedVars, rxVars, sinceWire, lateFrames, lateWrites, frame>>

Older(age, cap) == IF age < cap THEN age + 1 ELSE age

\* The watchdog is assumed to run when its ticker fires; the other goroutines
\* may be delayed at will.
TimePasses ==
  /\ sinceWatch < WatchPeriod
  /\ sinceWatch' = sinceWatch + 1
  /\ sinceReceive' = [i \in Ids |-> Older(sinceReceive[i], ReceiveCap(connections[i]))]
  /\ sinceArrival' = [i \in Ids |-> Older(sinceArrival[i], ReceiveCap(connections[i]))]
  /\ sinceSend' = [o \in Ios |-> Older(sinceSend[o], SendCap(o))]
  /\ sinceWire' = [o \in Ios |-> Older(sinceWire[o], SendCap(o))]
  /\ UNCHANGED <<connections, data, stop, schedPc, todo, sending, copied, rxVars,
                 lateFrames, lateWrites, frame>>

Application ==
  \/ \E o \in Ios : AddConnection(o)
  \/ \E i \in Ids : RemoveConnection(i)
  \/ \E a \in Assemblies : SetAssembly(a)
  \/ StopScheduler
Scheduler ==
  \/ TickSnapshot
  \/ \E o \in Producers : TickSkip(o) \/ SendBegin(o)
  \/ SendFrame \/ SendStamp \/ TickEnd \/ SchedulerExit
Listener == (\E i \in Ids : PacketLookup(i)) \/ PacketRefresh \/ PacketApply

Next == Application \/ Scheduler \/ Listener \/ CheckTimeouts \/ TimePasses

Spec == Init /\ [][Next]_vars

\* Time goes on, the watchdog's and the scheduler's goroutines run. processTick
\* ranges over the whole of its copy, in any order.
FairSpec ==
  /\ Spec
  /\ WF_vars(TimePasses) /\ WF_vars(CheckTimeouts)
  /\ WF_vars(Scheduler)

-----------------------------------------------------------------------------
(* Properties.                                                             *)

\* A consuming connection that stays in the table has been heard of: it is gone
\* at the latest one watchdog period after its timeout has run out.
SilenceBounded ==
  \A i \in Ids : connections[i] \in Consumers =>
                   sinceReceive[i] <= Timeout(connections[i]) + WatchPeriod

\* The watchdog removes a connection only if the listener has found no packet
\* for it during the whole timeout: a live connection is not dropped. (The
\* exception is a packet the listener has looked up and not yet accounted for.)
TimeoutMeansSilence ==
  [][\A i \in Ids :
       CheckTimeouts /\ connections[i] # NoIo /\ connections'[i] = NoIo =>
         \/ sinceArrival[i] > Timeout(connections[i])
         \/ rxPc = "found" /\ IdOf[rxConn] = i]_vars

\* Removing or timing out a connection takes effect: the copy and the pointer the
\* scheduler and the listener may still hold let out at most one more frame of it
\* and apply at most one more packet to its assembly.
LateEffectsBounded ==
  [][/\ SendFrame /\ ~Current(sending) => sending \notin lateFrames
     /\ PacketApply /\ ~Current(rxConn) /\ rxValue # NoValue =>
          rxConn \notin lateWrites]_vars

\* Frames of a connection are at least one RPI apart on the wire, however long
\* the scheduler is delayed between the check, the send and the update of
\* LastSend.
RpiKept == [][SendFrame => sinceWire[sending] >= Rpi[sending]]_vars

\* A producing connection that stays in the table keeps being served, whatever
\* the others do.
ProducerServed ==
  \A o \in {p \in Producers : AssemblyOf[p] # NoAssembly} :
    Current(o) ~> sending = o \/ ~Current(o) \/ stop

\* Why these hold. The pointers of the two goroutines are to connections:
PointersInv ==
  /\ schedPc \in {"copy", "stamp"} =>
       sending \in todo /\ AssemblyOf[sending] \in Assemblies
  /\ schedPc = "copy" => copied \in Values
  /\ rxPc # "idle" => rxConn \in Ios

\* the age of LastReceive is never more than the timeout when the watchdog has
\* just run, and never more than the time since the last lookup, except between
\* the listener's two critical sections;
ReceiveInv ==
  \A i \in Ids : connections[i] \in Consumers =>
    /\ sinceReceive[i] <= Timeout(connections[i]) + sinceWatch
    /\ \/ sinceReceive[i] <= sinceArrival[i]
       \/ rxPc = "found" /\ IdOf[rxConn] = i

\* LastSend is never earlier than the latest frame, except before it is stamped;
SendInv ==
  /\ schedPc = "copy" => sinceSend[sending] >= Rpi[sending]
  /\ \A o \in Producers : \/ sinceSend[o] <= sinceWire[o]
                          \/ schedPc = "stamp" /\ sending = o

\* and what has had its last effect is no longer held by the goroutine.
LateInv ==
  /\ \A o \in lateFrames : /\ ~Current(o)
                           /\ o \in todo => schedPc = "stamp" /\ sending = o
  /\ \A o \in lateWrites : ~Current(o) /\ o # rxConn

\* docs/assembly_object.md:42: the runtime accesses assembly data thread-safely
\* during I/O exchange, so a frame holds data the assembly once had.
NoTornFrame == frame[1] = frame[2]
=============================================================================
