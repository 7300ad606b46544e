----------------------------- MODULE TagMonitor -----------------------------
(***************************************************************************)
(* The polling monitor of pkg/client/tag_monitor.go.                       *)
(*                                                                         *)
(* One goroutine per subscription (tagSubscription.run) reads its tag and  *)
(* sends an event on one buffered channel shared by all subscriptions.     *)
(* AddTag, TagSubscription.Stop and TagMonitor.Close run in goroutines of  *)
(* the application, concurrently with the pollers and with one another;    *)
(* the application receives the events from the channel Wait returns.      *)
(*                                                                         *)
(* A critical section of m.mu is one action: no section of the code blocks *)
(* or calls out while it holds the lock. Everything between two sections,  *)
(* channel operations or blocking calls is a step of its own.              *)
(***************************************************************************)
EXTENDS Integers, Sequences, FiniteSets

CONSTANTS
  Subs,             \* the subscriptions AddTag may create (ids are never reused)
  Buffer,           \* capacity of the event channel
  PollModulus,      \* poll numbers are counted modulo this bound
  HandlersMayStop   \* whether a TagHandler may call Stop on its own subscription

\* WithEventBuffer replaces a size <= 0 by 1; poll numbers must tell apart
\* everything that can be between a poller and the consumer, or be unused (1).
ASSUME ConstantAssumption ==
  /\ Buffer \in Nat \ {0}
  /\ PollModulus \in Nat \ {0}
  /\ HandlersMayStop \in BOOLEAN

VARIABLES
  stopCh,        \* m.stopCh is closed
  closed,        \* m.closed
  subs,          \* keys of m.subs
  wg,            \* goroutines counted by m.wg
  events,        \* contents of the channel m.events
  eventsClosed,  \* m.events is closed
  closePc,       \* progress of the one Close that closeMx lets run
  snapshot,      \* Close's local subs, those it has not stopped yet
  addPc,         \* progress of the AddTag call that creates each subscription
  stopPc,        \* progress of the Stop call on each handle
  subStop,       \* sub.stopCh is closed
  done,          \* sub.doneCh is closed
  gpc,           \* where each polling goroutine is
  pending,       \* the event its poll has built (Err and Changed), or NoEvent
  polled,        \* number of its latest poll
  seen           \* number of the latest poll the consumer received

monitorVars == <<stopCh, closed, subs, wg, events, eventsClosed>>
callVars    == <<closePc, snapshot, addPc, stopPc>>
subVars     == <<subStop, done, gpc, pending, polled>>
vars        == <<monitorVars, callVars, subVars, seen>>

\* Err nil and Changed, Err nil and not Changed, Err set.
Kinds == {"changed", "same", "error"}
NoEvent == "none"
Event == [sub : Subs, kind : Kinds, n : 0 .. PollModulus - 1]

ClosePcs == {"idle", "locking", "stopping", "waiting", "closing", "returned"}
AddPcs   == {"none", "stored", "counted", "returned", "refused"}
StopPcs  == {"idle", "removed", "waiting", "stopped", "missed"}
Working  == {"start", "select", "read", "handler", "inStop", "emit", "send"}
GPcs     == Working \union {"none", "exited", "finished"}

Next1(n) == (n + 1) % PollModulus

FlagsOK ==
  /\ stopCh \in BOOLEAN /\ closed \in BOOLEAN /\ eventsClosed \in BOOLEAN
  /\ subStop \in [Subs -> BOOLEAN] /\ done \in [Subs -> BOOLEAN]

ProgressOK ==
  /\ subs \subseteq Subs /\ wg \subseteq Subs /\ snapshot \subseteq Subs
  /\ closePc \in ClosePcs
  /\ addPc \in [Subs -> AddPcs]
  /\ stopPc \in [Subs -> StopPcs]
  /\ gpc \in [Subs -> GPcs]
  /\ pending \in [Subs -> Kinds \union {NoEvent}]

EventsOK ==
  /\ events \in Seq(Event) /\ Len(events) <= Buffer
  /\ polled \in [Subs -> 0 .. PollModulus - 1]
  /\ seen \in [Subs -> 0 .. PollModulus - 1]

TypeOK == FlagsOK /\ ProgressOK /\ EventsOK

Init ==
  /\ stopCh = FALSE /\ closed = FALSE /\ eventsClosed = FALSE
  /\ subs = {} /\ wg = {} /\ snapshot = {}
  /\ events = <<>>
  /\ closePc = "idle"
  /\ addPc = [s \in Subs |-> "none"]
  /\ stopPc = [s \in Subs |-> "idle"]
  /\ subStop = [s \in Subs |-> FALSE]
  /\ done = [s \in Subs |-> FALSE]
  /\ gpc = [s \in Subs |-> "none"]
  /\ pending = [s \in Subs |-> NoEvent]
  /\ polled = [s \in Subs |-> 0]
  /\ seen = [s \in Subs |-> 0]

-----------------------------------------------------------------------------
(* AddTag: the critical section, wg.Add(1), then go and return.            *)

AddStore(s) ==
  /\ addPc[s] = "none"
  /\ IF closed
       THEN addPc' = [addPc EXCEPT ![s] = "refused"] /\ UNCHANGED subs
       ELSE addPc' = [addPc EXCEPT ![s] = "stored"] /\ subs' = subs \union {s}
  /\ UNCHANGED <<stopCh, closed, wg, events, eventsClosed,
                 closePc, snapshot, stopPc, subVars, seen>>

AddCount(s) ==
  /\ addPc[s] = "stored"
  /\ addPc' = [addPc EXCEPT ![s] = "counted"]
  /\ wg' = wg \union {s}
  /\ UNCHANGED <<stopCh, closed, subs, events, eventsClosed,
                 closePc, snapshot, stopPc, subVars, seen>>

AddGo(s) ==
  /\ addPc[s] = "counted"
  /\ addPc' = [addPc EXCEPT ![s] = "returned"]
  /\ gpc' = [gpc EXCEPT ![s] = "start"]
  /\ UNCHANGED <<monitorVars, closePc, snapshot, stopPc,
                 subStop, done, pending, polled, seen>>

-----------------------------------------------------------------------------
(* tagSubscription.run and poll.                                           *)

Go(s, from, to) == gpc[s] = from /\ gpc' = [gpc EXCEPT ![s] = to]

\* poll returns to the loop, and its event goes out of scope.
PollEnd(s, from) ==
  Go(s, from, "select") /\ pending' = [pending EXCEPT ![s] = NoEvent]

\* The immediate first poll, if WithInitialRead left it on, or the ticker loop.
RunStart(s) ==
  /\ \/ Go(s, "start", "read") /\ polled' = [polled EXCEPT ![s] = Next1(@)]
     \/ Go(s, "start", "select") /\ UNCHANGED polled
  /\ UNCHANGED <<monitorVars, callVars, subStop, done, pending, seen>>

\* The select of the loop picks the ticker, even when a stop is ready too.
RunTick(s) ==
  /\ Go(s, "select", "read")
  /\ polled' = [polled EXCEPT ![s] = Next1(@)]
  /\ UNCHANGED <<monitorVars, callVars, subStop, done, pending, seen>>

\* The select picks one of the two stop channels; the deferred close of doneCh.
RunStop(s) ==
  /\ subStop[s] \/ stopCh
  /\ Go(s, "select", "exited")
  /\ done' = [done EXCEPT ![s] = TRUE]
  /\ UNCHANGED <<monitorVars, callVars, subStop, pending, polled, seen>>

\* Variant: the goroutine does not call m.wg.Done().
RunDoneUncounted(s) ==
  /\ Go(s, "exited", "finished")
  /\ UNCHANGED <<monitorVars, callVars, subStop, done, pending, polled, seen>>

\* m.wg.Done() after run has returned.
RunDone(s) ==
  /\ Go(s, "exited", "finished")
  /\ wg' = wg \ {s}
  /\ UNCHANGED <<stopCh, closed, subs, events, eventsClosed,
                 callVars, subStop, done, pending, polled, seen>>

\* ReadTag fails, the reply is shorter than its type code, or Refresh fails:
\* an event with Err and no handler call. The read succeeds: Changed is what
\* Refresh says, true without a Refreshable, and the handler runs if there is one.
PollRead(s) ==
  /\ \/ Go(s, "read", "emit") /\ pending' = [pending EXCEPT ![s] = "error"]
     \/ \E kind \in {"changed", "same"} :
          Go(s, "read", "handler") /\ pending' = [pending EXCEPT ![s] = kind]
  /\ UNCHANGED <<monitorVars, callVars, subStop, done, polled, seen>>

PollHandled(s) ==
  /\ Go(s, "handler", "emit")
  /\ UNCHANGED <<monitorVars, callVars, subStop, done, pending, polled, seen>>

\* emit's first select: a closed monitor drops the event.
EmitCheck(s) ==
  /\ IF stopCh THEN PollEnd(s, "emit")
               ELSE Go(s, "emit", "send") /\ UNCHANGED pending
  /\ UNCHANGED <<monitorVars, callVars, subStop, done, polled, seen>>

\* Variant: a full channel loses the event (a default case in the select).
EmitSendOrLose(s) ==
  /\ PollEnd(s, "send")
  /\ events' = IF Len(events) < Buffer
                 THEN Append(events, [sub |-> s, kind |-> pending[s], n |-> polled[s]])
                 ELSE events
  /\ UNCHANGED <<stopCh, closed, subs, wg, eventsClosed,
                 callVars, subStop, done, polled, seen>>

\* Variant: the channel has no capacity limit.
EmitSendUnbounded(s) ==
  /\ PollEnd(s, "send")
  /\ events' = Append(events, [sub |-> s, kind |-> pending[s], n |-> polled[s]])
  /\ UNCHANGED <<stopCh, closed, subs, wg, eventsClosed,
                 callVars, subStop, done, polled, seen>>

\* emit's second select, the send case. (A send on a closed channel panics.)
EmitSend(s) ==
  /\ Len(events) < Buffer
  /\ PollEnd(s, "send")
  /\ events' = Append(events, [sub |-> s, kind |-> pending[s], n |-> polled[s]])
  /\ UNCHANGED <<stopCh, closed, subs, wg, eventsClosed,
                 callVars, subStop, done, polled, seen>>

\* Variant: the second select does not watch m.stopCh.
EmitDropNever(s) == FALSE

\* emit's second select, the m.stopCh case.
EmitDrop(s) ==
  /\ stopCh
  /\ PollEnd(s, "send")
  /\ UNCHANGED <<monitorVars, callVars, subStop, done, polled, seen>>

-----------------------------------------------------------------------------
(* TagSubscription.Stop: removeSubscription, then tagSubscription.stop.    *)

\* The critical section of removeSubscription, run once per handle.
RemoveSub(s) ==
  IF s \in subs
    THEN subs' = subs \ {s} /\ stopPc' = [stopPc EXCEPT ![s] = "removed"]
    ELSE UNCHANGED subs /\ stopPc' = [stopPc EXCEPT ![s] = "missed"]

StopCall(s) ==
  /\ addPc[s] = "returned" /\ stopPc[s] = "idle"
  /\ RemoveSub(s)
  /\ UNCHANGED <<stopCh, closed, wg, events, eventsClosed,
                 closePc, snapshot, addPc, subVars, seen>>

\* Variant: stop waits for doneCh and forgets to close stopCh.
StopSignalNot(s) ==
  /\ stopPc[s] = "removed"
  /\ stopPc' = [stopPc EXCEPT ![s] = "waiting"]
  /\ UNCHANGED <<monitorVars, closePc, snapshot, addPc, subVars, seen>>

StopSignal(s) ==
  /\ stopPc[s] = "removed"
  /\ stopPc' = [stopPc EXCEPT ![s] = "waiting"]
  /\ subStop' = [subStop EXCEPT ![s] = TRUE]
  /\ UNCHANGED <<monitorVars, closePc, snapshot, addPc,
                 done, gpc, pending, polled, seen>>

\* Variant: stop closes stopCh and does not wait for doneCh.
StopReturnAtOnce(s) ==
  /\ stopPc[s] = "waiting"
  /\ stopPc' = [stopPc EXCEPT ![s] = "stopped"]
  /\ UNCHANGED <<monitorVars, closePc, snapshot, addPc, subVars, seen>>

StopReturn(s) ==
  /\ stopPc[s] = "waiting" /\ done[s]
  /\ stopPc' = [stopPc EXCEPT ![s] = "stopped"]
  /\ UNCHANGED <<monitorVars, closePc, snapshot, addPc, subVars, seen>>

\* A handler that calls Stop on its own handle: the first call runs
\* removeSubscription, a later one waits in once.Do for the first to return.
HandlerStop(s) ==
  /\ HandlersMayStop /\ addPc[s] = "returned"
  /\ Go(s, "handler", "inStop")
  /\ IF stopPc[s] = "idle" THEN RemoveSub(s) ELSE UNCHANGED <<subs, stopPc>>
  /\ UNCHANGED <<stopCh, closed, wg, events, eventsClosed,
                 closePc, snapshot, addPc, subStop, done, pending, polled, seen>>

HandlerStopReturn(s) ==
  /\ stopPc[s] \in {"stopped", "missed"}
  /\ Go(s, "inStop", "emit")
  /\ UNCHANGED <<monitorVars, callVars, subStop, done, pending, polled, seen>>

-----------------------------------------------------------------------------
(* TagMonitor.Close: the body closeMx runs once.                           *)

CloseStopCh ==
  /\ closePc = "idle"
  /\ closePc' = "locking"
  /\ stopCh' = TRUE
  /\ UNCHANGED <<closed, subs, wg, events, eventsClosed,
                 snapshot, addPc, stopPc, subVars, seen>>

\* Variant: Close does not set m.closed.
CloseTakeSubsOpen ==
  /\ closePc = "locking"
  /\ closePc' = "stopping"
  /\ snapshot' = subs
  /\ subs' = {}
  /\ UNCHANGED <<stopCh, closed, wg, events, eventsClosed,
                 addPc, stopPc, subVars, seen>>

CloseTakeSubs ==
  /\ closePc = "locking"
  /\ closePc' = "stopping"
  /\ snapshot' = subs
  /\ closed' = TRUE
  /\ subs' = {}
  /\ UNCHANGED <<stopCh, wg, events, eventsClosed, addPc, stopPc, subVars, seen>>

\* sub.stop() for the subscriptions of the snapshot, one after the other: one
\* is signalled when none of those left is (Close alone signals them).
CloseSignal(s) ==
  /\ closePc = "stopping" /\ s \in snapshot
  /\ \A t \in snapshot : ~subStop[t]
  /\ subStop' = [subStop EXCEPT ![s] = TRUE]
  /\ UNCHANGED <<monitorVars, callVars, done, gpc, pending, polled, seen>>

CloseStopped(s) ==
  /\ closePc = "stopping" /\ s \in snapshot
  /\ subStop[s] /\ done[s]
  /\ snapshot' = snapshot \ {s}
  /\ UNCHANGED <<monitorVars, closePc, addPc, stopPc, subVars, seen>>

CloseWait ==
  /\ closePc = "stopping" /\ snapshot = {}
  /\ closePc' = "waiting"
  /\ UNCHANGED <<monitorVars, snapshot, addPc, stopPc, subVars, seen>>

\* Variant: no m.wg.Wait() before the channel is closed.
CloseWaitedNot ==
  /\ closePc = "waiting"
  /\ closePc' = "closing"
  /\ UNCHANGED <<monitorVars, snapshot, addPc, stopPc, subVars, seen>>

CloseWaited ==
  /\ closePc = "waiting" /\ wg = {}
  /\ closePc' = "closing"
  /\ UNCHANGED <<monitorVars, snapshot, addPc, stopPc, subVars, seen>>

CloseEvents ==
  /\ closePc = "closing"
  /\ closePc' = "returned"
  /\ eventsClosed' = TRUE
  /\ UNCHANGED <<stopCh, closed, subs, wg, events,
                 snapshot, addPc, stopPc, subVars, seen>>

-----------------------------------------------------------------------------
\* The application receives from the channel.
Receive ==
  /\ events # <<>>
  /\ events' = Tail(events)
  /\ seen' = [seen EXCEPT ![Head(events).sub] = Head(events).n]
  /\ UNCHANGED <<stopCh, closed, subs, wg, eventsClosed, callVars, subVars>>

AddTag(s) == AddStore(s) \/ AddCount(s) \/ AddGo(s)
Poller(s) ==
  \/ RunStart(s) \/ RunTick(s) \/ RunStop(s) \/ RunDone(s)
  \/ PollRead(s) \/ PollHandled(s)
  \/ EmitCheck(s) \/ EmitSend(s) \/ EmitDrop(s)
  \/ HandlerStop(s) \/ HandlerStopReturn(s)
Stop(s) == StopCall(s) \/ StopSignal(s) \/ StopReturn(s)
Close ==
  \/ CloseStopCh \/ CloseTakeSubs
  \/ \E s \in Subs : CloseSignal(s) \/ CloseStopped(s)
  \/ CloseWait \/ CloseWaited \/ CloseEvents

Next ==
  \/ \E s \in Subs : AddTag(s) \/ Poller(s) \/ Stop(s)
  \/ Close
  \/ Receive

Spec == Init /\ [][Next]_vars

-----------------------------------------------------------------------------
(* Fairness: a goroutine that can run does (Go's scheduler). A select with *)
(* several ready cases picks one at random, so a stop that stays ready is  *)
(* picked some time; blocked senders of a channel are served in FIFO order,*)
(* so a sender is served if there is room again and again. Handlers are    *)
(* assumed to return; ReadTag has no deadline and need not. Callers may or *)
(* may not call AddTag, Stop and Close, but a call that has begun goes on. *)

PollerFairness(s) ==
  /\ WF_vars(RunStart(s)) /\ WF_vars(RunTick(s)) /\ SF_vars(RunStop(s))
  /\ WF_vars(RunDone(s)) /\ WF_vars(PollHandled(s))
  /\ WF_vars(EmitCheck(s)) /\ SF_vars(EmitSend(s)) /\ WF_vars(EmitDrop(s))
  /\ WF_vars(HandlerStopReturn(s))
CallFairness(s) ==
  /\ WF_vars(AddCount(s) \/ AddGo(s))
  /\ WF_vars(StopSignal(s) \/ StopReturn(s))
  /\ WF_vars(CloseSignal(s)) /\ WF_vars(CloseStopped(s))
CloseFairness ==
  WF_vars(CloseTakeSubs \/ CloseWait \/ CloseWaited \/ CloseEvents)

\* Nothing is assumed of the consumer: it may stop reading for ever.
FairSpec ==
  /\ Spec
  /\ \A s \in Subs : PollerFairness(s) /\ CallFairness(s)
  /\ CloseFairness

-----------------------------------------------------------------------------
(* Safety.                                                                 *)

\* Once Close has closed the event channel no poller is left that could send
\* on it, which would panic, and none can still be started: neither a poller
\* whose Stop overtook Close nor one AddTag has stored but not yet started.
NoSendOnClosed ==
  eventsClosed => \A s \in Subs : /\ gpc[s] \notin Working
                                  /\ addPc[s] \notin {"stored", "counted"}

\* AddTag counts its goroutine after it has left the critical section, yet
\* never while Close is in wg.Wait, which sync.WaitGroup forbids when the
\* counter may be zero.
CountedBeforeWait ==
  closePc \in {"waiting", "closing", "returned"} =>
    \A s \in Subs : addPc[s] # "stored"

\* When Stop returns, the poller has left its loop, so neither the handler nor
\* the channel sees the subscription again; the one exception is a Stop that
\* finds Close has taken the subscription already, and returns at once.
StopMeansStopped ==
  \A s \in Subs :
    /\ stopPc[s] = "stopped" => gpc[s] \in {"exited", "finished"}
    /\ stopPc[s] = "missed" => closed /\ stopCh

\* The poll of s that is under way, if any, has not reached the channel.
Polling(s) == gpc[s] \in {"read", "handler", "inStop", "emit", "send"}

\* Place 0 stands for what the consumer received last. IsLatest: of the events of
\* s before place j of the channel, i is the latest.
NumberAt(s, i) == IF i = 0 THEN seen[s] ELSE events[i].n
IsLatest(s, i, j) ==
  /\ i # 0 => events[i].sub = s
  /\ \A k \in i + 1 .. j - 1 : events[k].sub # s

\* Of each subscription the consumer sees every poll, once and in order: each
\* event in the channel follows the one before it, and until Close begins, or
\* while the poller is about to send, the latest poll follows the last of them.
\* Only emit's stopCh cases may lose an event, and nothing is sent after that.
Consecutive(s) ==
  \A j \in 1 .. Len(events) : events[j].sub = s =>
    \A i \in 0 .. j - 1 : IsLatest(s, i, j) => events[j].n = Next1(NumberAt(s, i))
Continued(s) ==
  \A i \in 0 .. Len(events) : IsLatest(s, i, Len(events) + 1) =>
    polled[s] = IF Polling(s) THEN Next1(NumberAt(s, i)) ELSE NumberAt(s, i)
InOrder ==
  \A s \in Subs : Consecutive(s) /\ (~stopCh \/ gpc[s] = "send" => Continued(s))

\* A handler whose call of Stop removes its own subscription waits for its own
\* goroutine to end: the call never returns.
SelfStopIsStuck ==
  [][\A s \in Subs :
       gpc[s] = "inStop" /\ stopPc[s] \in {"removed", "waiting"} =>
         gpc'[s] = "inStop" /\ stopPc'[s] # "stopped"]_vars

-----------------------------------------------------------------------------
(* What the safety properties rest on: how the calls, the pollers and the  *)
(* wait group move together. CallInv, WaitInv and CloseInv are inductive   *)
(* together (TagMonitorProofs).                                            *)

\* A poller exists once AddTag has returned from go, has closed doneCh once it
\* has left run, is known to Stop only by the handle AddTag returned, and
\* carries an event from the read to the send.
CallInv ==
  \A s \in Subs :
    /\ gpc[s] \in {"handler", "inStop", "emit", "send"} <=> pending[s] # NoEvent
    /\ gpc[s] # "none" <=> addPc[s] = "returned"
    /\ done[s] <=> gpc[s] \in {"exited", "finished"}
    /\ stopPc[s] # "idle" => addPc[s] = "returned"
    /\ stopPc[s] = "stopped" => done[s]
    /\ stopPc[s] = "missed" => closed

\* The wait group counts the pollers from just before they start until they
\* have finished.
WaitInv ==
  wg = {s \in Subs : \/ addPc[s] = "counted"
                     \/ addPc[s] = "returned" /\ gpc[s] # "finished"}

\* A subscription that is stored and has no handle yet is in the map, or is one
\* Close has still to wait for; Close waits for the group after all of those.
CloseInv ==
  /\ stopCh <=> closePc # "idle"
  /\ closed <=> closePc \notin {"idle", "locking"}
  /\ closed => subs = {}
  /\ snapshot # {} => closePc = "stopping"
  /\ closePc \in {"closing", "returned"} => wg = {}
  /\ eventsClosed <=> closePc = "returned"
  /\ \A s \in Subs :
       /\ addPc[s] \in {"stored", "counted"} => s \in subs \union snapshot
       /\ addPc[s] = "returned" /\ stopPc[s] = "idle" /\ ~closed => s \in subs

IInv == CallInv /\ WaitInv /\ CloseInv

-----------------------------------------------------------------------------
(* Liveness.                                                               *)

StopPending(s)  == stopPc[s] \in {"removed", "waiting"}
ConsumerReads   == WF_vars(Receive)
ReadsReturn(s)  == WF_vars(PollRead(s))
AllReadsReturn  == \A s \in Subs : ReadsReturn(s)

\* Close returns, even if the consumer has stopped reading and pollers are
\* blocked on a full channel, but only if every ReadTag returns.
CloseReturns == AllReadsReturn => (closePc # "idle" ~> closePc = "returned")

\* A call of Stop returns if the consumer keeps reading: emit watches the
\* monitor's stopCh and not the subscription's, so the poller may have to get
\* rid of an event before it can see the stop. A read of another subscription
\* that never returns does not matter.
StopReturns(s) ==
  ConsumerReads /\ ReadsReturn(s) => (StopPending(s) ~> stopPc[s] = "stopped")

\* Close releases the calls of Stop that wait for a poller whose event nobody
\* receives, even when Close itself waits for a read that never returns.
CloseReleasesStop(s) ==
  ReadsReturn(s) => (StopPending(s) /\ stopCh ~> stopPc[s] = "stopped")

\* The consumer that ranges over the channel sees it end after Close.
ChannelEnds ==
  ConsumerReads /\ AllReadsReturn =>
    (closePc # "idle" ~> eventsClosed /\ events = <<>>)

\* A poller that has an event to deliver polls again, unless it is stopped.
\* docs/tag_monitor.md:94-96 offers handlers to applications that do not use
\* the channel; WithHandler is said to run every time the tag is read.
PollsContinue ==
  \A s \in Subs : gpc[s] = "send" ~> gpc[s] = "read" \/ subStop[s] \/ stopCh
=============================================================================
