# goeip in TLA+

TLA+ models of goeip, an EtherNet/IP and CIP library in Go: what can go wrong
between its goroutines, its connections and its locks, checked with TLC on small
instances and, where the prover reaches, proved with TLAPS for all of them.
Paths are relative to the repository (`src/` there is the source tree here).

    tlc -workers 2 -config <run>.cfg <module>.tla      # the runs below
    tlapm <module>Proofs.tla                           # the proofs

## 1. The system

goeip has two halves that meet on a TCP connection, and an I/O engine beside them.

    ReconnectingClient --> Client --> Session --> TCPTransport ==TCP==> Server
        TagMonitor  ------^              (or a Logix controller)         |
                                             MessageRouter <-------------+
                                               |      |
                                    AssemblyObject   ConnectionManager
                                               |
        another runtime <==UDP==> IORuntime (listener, watchdog) and Scheduler

| Component (source) | State it keeps | Operations | Hard behaviour | What makes it correct |
|---|---|---|---|---|
| Tag monitor (`pkg/client/tag_monitor.go`) | map of subscriptions, wait group, event channel, stop and done channels | AddTag, Stop, Close, one polling goroutine per tag, callbacks | shutdown in any order with AddTag, Stop, a full channel, callbacks that call Stop | no send on the closed channel, no misuse of the wait group, Stop and Close end, events in order and none lost before Close |
| Reconnecting client (`pkg/client/reconnect.go`) | current `*Client`, closed flag, lock | ReadTag/WriteTag with retries, lazy connect, Close | callers that share one client and fail at different times; Close during a dial; a write repeated because its answer was lost | one session, no leak, no close of somebody else's new session, nothing after Close, no more effects than attempts |
| Client, session, transport (`pkg/client/client.go`, `pkg/session`, `pkg/transport`) | one TCP connection, session handle | request and reply, Register, Unregister, Close | two writes per packet, no lock, no sender context; a connection that breaks between request and reply | packets stay in frame, a reply answers its request, a request takes effect at most once, and reads or writes what its caller has named |
| Encapsulation server (`pkg/server`), router (`pkg/cip/router.go`) | one goroutine and one connection per client; registered objects | commands, dispatch to objects | connections that break at any point of a packet | every request is answered or the connection closed |
| Assembly object (`pkg/objects/assembly`) | data per instance, lock | get and set of attribute 3 | explicit messages, listener and scheduler use the same data | a value that was set as a whole is read as a whole |
| I/O runtime and scheduler (`pkg/runtime`) | connection table with receive and send times | add, remove, receive, time out, produce | four goroutines that keep pointers over unlocks; time | no early and no late timeout, frames at their rate, removal takes effect |
| Connection manager (`pkg/objects/connmgr`) | identifier counter, table | Forward_Open (both), Forward_Close | concurrent opens; the counter wraps; nothing is removed | distinct identifiers, responses and table agree |
| CIP and encapsulation codecs (`pkg/cip`, `pkg/eip`) | none | paths, requests and responses, attribute lists, common packet format, lists of identities and services, timers, counters, symbols | lengths, padding, widths | what is decoded is what was encoded, and ids keep all their bytes |
| Discovery (`pkg/client/discovery.go`) | none | list services, identity, tags (one exchange per instance) | a table that is edited while it is read; failing exchanges | in order, once each, nothing missing but what could not be asked for |
| Tools (`cmd/...`) | none | the adapter's objects, the scanner's connection, printing | none of their own | the objects are reached |
| Logging and hex dump (`internal`, `pkg/utils`) | none | output | none | not modelled |

`PROJECT.json` names the source lines behind every definition ("map") and lists the
hazards line by line.

## 2. The modules

### TagMonitor (with MCTagMonitor, TagMonitorProofs)

One action per critical section of `m.mu`, channel operation or blocking call; no
critical section of that file blocks. `addPc`, `stopPc`, `closePc` and `gpc` say
where the calls of AddTag, Stop and Close and each polling goroutine are.
`subs`, `wg`, `events`, `stopCh`, `subStop`, `done` are the code's own variables.
The content of a poll is abstracted to the event it leads to (changed, same, error),
and polls are numbered modulo a constant so that order and loss can be stated; that
number and `seen`, what the consumer has received, are history. A handler may call
Stop on its own subscription when `HandlersMayStop`.

### ReconnectingClient (with SessionSlot, MCReconnectingClient, ReconnectingClientProofs)

`executeWithRetry` with `getClient`'s two critical sections, `connect` (which
dials with the lock held: `mu`), the operation without the lock, the invalidation of
the client that failed, and Close. The operation and the factory are external: each
succeeds, fails or never ends. An operation that fails may have taken effect, which
`applied` counts (history). The loop variable starts again at `ResetAt`, in the code
2147483647, also when there is a limit (`AfterFailure`). `int` has 64 bits: with 32 it
could not hold a larger limit. `SessionSlot` is the abstract specification, a slot that has a
session or none and is shut for ever by Close; ReconnectingClient refines it with
`session <- slot, shut <- closed`.

### IORuntime (with MCIORuntime, IORuntimeProofs)

The connection table, the listener (`handlePacket`: lookup, refresh of
LastReceive under a second lock, data to the assembly), the watchdog
(`checkTimeouts`), the scheduler (`processTick`: its copy of the table, then
check, copy of the data in two halves, send, stamp for each) and the application.
Times are ages in ticks of any unit, which stop growing one past the largest value a
comparison can tell apart (`ReceiveCap`, `SendCap`). The watchdog is taken to run
when its ticker fires; every other goroutine may be delayed at will. A datagram that
arrives is any datagram, so loss, repetition and reordering need no actions of their own. Data has
two halves, since the scheduler copies it without the assembly's lock.

### IOExchange (with IOLink, IOExchangeProofs)

Two runtimes and the network between them, at the grain of whole handlers: what
IORuntime takes apart is one step here, and what it leaves open, namely where the
datagrams come from and what is in them, is modelled. A frame is what `sendPacket`
builds, the sequence count, the header if any, and the data; `HandlePacket` is what
`handlePacket` makes of it, bytes that are not data included. A datagram that will
arrive does so within `MaxDelay`, may arrive again, and up to `MaxLoss` in a row are
lost. `IOLink` is the abstract specification: a link is timed out only if its producer
has not been producing all the time; IOExchange refines it. `sinceTry`,
`sinceGood` and `dataAge` are history.

### EncapSession (with AttributeService, MCEncapSession, EncapSessionProofs)

Client operations over sessions, the two-part packets of the transport, and the
server's connection loop with router and object behind it. Each TCP direction is a
sequence of headers and data parts. `Disconnect` cuts the streams at any part.
Client.Close is two steps, which may come at any point of a call, since nothing in it
asks who is using the session: `CloseUnregister` writes a header, perhaps between the
header and the data of a request, and `CloseTransport` closes the connection. The
requests are those the server's branches distinguish: get, set, a set the object
refuses, a command without data that the server does not know, a request beyond
MaxPacketSize. `AttributeService` is the abstract specification: an atomic
attribute; a call that succeeds took effect at one moment between begin and end,
a call that fails may take effect late, but once. EncapSession refines it with
`call <- op`; `effect` and `late` are history variables that say when.

### ExplicitMessage (with CipCodec, ObjectAccess, MCExplicitMessage, CipCodecProofs, ExplicitMessageProofs)

What EncapSession leaves out: the bytes. `CipCodec` has the encoders and decoders as
operators over sequences of bytes: logical segments with their formats and padding,
symbolic segments, requests, responses, the attribute lists of ListTags, the common
packet format, the lists of identities and services, Timer, Counter and the
conversion of numbers. A decoder that walks over its input (items, attributes) is the
function of the places it comes to, and what it returns is said in terms of them. `ExplicitMessage` uses them as the code does: a call at a
client becomes a packet (`Begin`), the adapter (server, router, assembly object,
connection manager) or a controller answers it, and the client makes a result or its
next request of the answer (`Proceed`). The controller is external; it answers as
the client expects. `ObjectAccess` is the abstract specification, without a byte in it: a
store of values, and calls that read or write the one they name, once, or are
refused. ExplicitMessage refines it: `store` is the data of both devices, `pending`
the call of a packet on its way. `due` is history: what the call will make of the
answer on its way. ListTags is not a single access; `ListIsRight` states what
its list has to do with the table, from the history in `steady`, `seen` and `failed`.

### ConnectionManager (with ConnectionManagerProofs)

Parse, critical section and response of the open and close services, in one
goroutine per TCP connection. The identifier space is a constant so that it wraps.
`opened` is history.

## 3. The runs

| Run | Instance | What it shows |
|---|---|---|
| tag_monitor_safety | 2 subscriptions, one-slot channel, polls modulo 3, handlers may stop | TypeOK; `NoSendOnClosed`; `CountedBeforeWait`; `StopMeansStopped`; `InOrder`; and `SelfStopIsStuck`, a handler that stops itself never returns |
| tag_monitor_liveness | the same, polls unnumbered, no stop from handlers | Close returns whether anybody reads the channel or not, if every ReadTag does; Stop returns if somebody reads the channel, or if Close comes, and if the tag's own ReadTag does; the consumer sees the channel end |
| tag_monitor_callbacks | 1 subscription, one-slot channel | violation: with callbacks only, polling stops once the buffer is full |
| reconnect | 2 callers, 3 clients, the loop variable reset at 2, retries unlimited, 1, 2 or 3 | `OneSession`, `ClosedForCause`, refinement of SessionSlot; with a limit below the reset `EffectsBounded` and, if dials and the call's own operations end, `CallReturns` (of one caller: `EveryCallReturns`); without a limit `StuckAfterClose` |
| io_runtime | a consumer and a connection that does both under the same id, and a producer without assembly | timeouts neither early (`TimeoutMeansSilence`) nor late (`SilenceBounded`), `RpiKept`, `LateEffectsBounded`, and `ProducerServed`: one that cannot be served does not keep the others from it |
| io_torn_frame | the two under the same id, 2 values | violation: a frame with half of each value |
| io_exchange | timeout of 8, tickers of 2 and 3, delay up to 2, up to 2 losses in a row, a consumer's assembly that has room for the count | refinement of IOLink: no timeout while the producer produces; `FreshData`, `Converges` and `SilenceNoticed` |
| io_delivery | the same with assemblies of one size | violation: the consumer never gets the data |
| session | 2 users with a session each, 2 values | `InFrame`, which a Close under a call breaks in one place only, refinement of AttributeService, `CallReturns` |
| session_shared | the 2 users on one session | violation: a user is handed the other's reply |
| explicit_message | one or two users at the adapter, or one at a controller, or one that lists its tags | refinement of ObjectAccess: every call acts on what it names and nothing else; `ListIsRight` |
| connection_manager | 2 handlers, 4 ids, the counter starts at 2 | `AnswersAgree` and `EntriesKept` until the ids have run out |

Deadlock is checked wherever the system has no end. It is off for the tag monitor
(which ends when Close has returned) and for sessions and explicit messages (closed
connections stay closed).

### Bounds, and why they are enough

- *Tag monitor.* Subscriptions interact only through `m.subs`, the wait group and
  the channel; two of them give Close one that Stop has taken away and one it has
  not, and two senders for one slot. With one slot the channel is empty, full, or
  blocking its senders. A poll number modulo 3 tells apart the event the consumer has
  seen, the one in the channel and the one being sent. Symmetry over the
  subscriptions is used for the safety run only; the liveness run checks the properties
  of a subscription for one of the two, which are alike.
- *Reconnecting client.* Two callers are what each race in the code needs (a dial
  against a recheck, a late failure against a new client); with three ids each can
  hold an old client while a third is current. One retry exercises the first, the
  last and the forbidden extra round; limits at and one above the reset of the loop
  variable are the two that never use themselves up, without a sleep in the round of
  the reset and with one.
- *I/O runtime.* An RPI of one tick and multiplier 0, the shortest timeout, let the
  clock reach every comparison from both sides. One connection consumes, one
  consumes and produces, one is skipped for want of an assembly, and the first two
  share an id, so that the second lookup may find a connection that has replaced the
  first one. The theorems cover all other values.
- *I/O exchange.* The parameters leave no slack that is not used up: tickers that
  drift against each other and the RPI, as many losses and as much delay as the
  timeout allows (`MarginAssumption`). The theorems cover all other values.
- *Sessions.* One user issues every kind of request and sets one value, the other sets
  the other value, so each get has a rival. Longer streams do not arise: a user has one
  request under way, and only one Unregister is read.
- *Explicit messages.* The ids of class, instance and attribute lie on both sides of
  8 and 16 bits and agree in their low bytes (100, 356 and 65636; 3 and 259; 4 and 260),
  so that a lost byte reaches something else. Values are negative, at the ends of
  their ranges, of the wrong type or length, and of Go types that have no CIP
  type. Names have even and odd lengths, and the lists end in an entry without one.
  Two assemblies, two contents of different lengths; at most two connections are
  opened (`MaxOpened`), two symbols edited (`MaxEdits`), and the devices change
  only while a call is under way: nobody would notice in between. Users at different devices
  share nothing and are run one group at a time (`Groups`).
- *Connection manager.* Four ids wrap within a short run; the theorems cover 2^32.

### Fairness

Fairness is only ever asked of a goroutine that can run (Go's scheduler runs it some
time) and never of the application's decision to call something, of the network, or
of the consumer unless the property says so. Beyond that:

- a `select` with several ready cases chooses at random, so the stop case, ready again
  and again, is taken some time: strong fairness of `RunStop`;
- a channel serves blocked senders in FIFO order: strong fairness of `EmitSend`;
- `sync.RWMutex` does not starve a waiter: strong fairness of `GetClient`,
  `LockClient`, `Invalidate`;
- that dials, operations and reads end is not assumed. Only the TCP dial has a deadline
  (tcp.go:31); a peer that neither answers nor closes the connection stops a registration
  or an operation for ever. Each property says what it needs of whom: in TagMonitor of
  the reads of which subscriptions (`ReadsReturn`), in ReconnectingClient of the call's
  own operations (`OperationsEnd`) and of every dial, since rc.mu is held meanwhile
  (`DialsEnd`). What a hanging call cannot keep from happening holds without. Handlers
  of the tag monitor are assumed to end, and in EncapSession the server is goeip's own,
  which answers or closes;
- a Client.Close that has begun closes its transport: weak fairness of
  `CloseTransport`. Nobody need close or break a connection;
- in IORuntime and IOExchange time goes on, tickers fire, the scheduler runs, and
  datagrams that are not lost arrive in time;
- ExplicitMessage has no fairness: that calls return is EncapSession's.

### Disagreements between code and documentation

The four violation runs, with the lines they quote, are the "findings" of
`PROJECT.json`:

1. a tag monitor used with callbacks only stalls when the event buffer is full;
2. I/O frames are built from assembly data without its lock and may be torn;
3. the subscriptions of a tag monitor read through one session, which has no lock and
   cannot tell replies apart: a subscription may receive another one's value;
4. the listener takes the sequence count for the first two bytes of the data: an
   assembly of the producer's size refuses every packet, and a longer one holds the
   data two bytes further on.

Others are plain in the code and need no run; the models follow the code:

- `WithRefreshable` is said to emit only when data changed; poll
  (tag_monitor.go:346-353) emits every event, with `Changed` false.
- ReconnectingClient "automatically reconnects when a network error occurs"
  (reconnect.go:15-16); executeWithRetry (189-211) does so too when the controller
  answers with a CIP error over a healthy connection.
- `WithMaxRetries` "sets the maximum number of retries" (reconnect.go:35); from a limit
  of 2147483647 on, an operation that fails is retried for ever, since the reset meant
  for infinite retries (reconnect.go:217-220) does not look whether there is a limit.
- WriteTag's comment (client.go:72) allows int and values that implement
  `cip.Marshaler`, and docs/basics.md:106-107 and docs/tools.md:134-135 write a string;
  `GoTypeToCIPType` and `binary.Write` (encode.go:12-61) refuse all three.
- ListTags "lists all tags" (discovery.go:19), but passes over instances whose exchange
  failed and returns the rest without an error.
- `cmd/monitor_tag` decodes what ReadTag returned without the two bytes of
  the type code that come first (main.go:61, 81-149; client.go:119-123).
- `cmd/scanner` cuts assembly ids to one byte in the Forward_Open path. An assembly can
  be registered with an id beyond 65535, which a path names only with the segment of
  `AddInstance32`, and the assembly object does not read that one.

Three facts hold in the models and may surprise a user: a handler must not stop its own
subscription (`SelfStopIsStuck`), a call with unlimited retries spins for ever on a
closed client (`StuckAfterClose`), and Stop hangs while the channel is full and unread
(the assumption of `StopReturns`).

## 4. The proofs

TLAPS checks all of the following for any constants that satisfy the named ASSUMEs.

| Module | Theorems | Argument |
|---|---|---|
| TagMonitorProofs | TypeCorrect, ChannelSafe, AddPrecedesWait, StopIsEffective, SelfStopNeverReturns, EventsInOrder | `NoSendOnClosed` is not inductive: it holds because Close waits for the group, the group counts every poller from before it starts, and after `closed` no AddTag is accepted. `IInv` says so: `CallInv` ties each poller to the calls on it, `WaitInv` says what the group counts, `CloseInv` that everything stored is in the map or in Close's own list. `InOrder` is inductive on top of that: an event is compared with its subscription's latest before it, wherever in the channel that is (`IsLatest`), so that sending and receiving only move places |
| ReconnectingClientProofs | TypeCorrect, NoSessionLeaks, NewClientSurvives, NoReturnAfterClose, ImplementsSlot, WritesAreBounded | `OneSession` is inductive with `DialInv`: while a caller dials, the slot is empty and the client not closed. The refinement is one step per action. `EffectsBounded` follows from `RoundInv`: below the reset, which such a limit never reaches, the effects so far are at most the attempts so far |
| IORuntimeProofs | TypeCorrect, SilentLeave, LiveStay, RateKept, LastEffects | four invariants: what the pointers refer to (`PointersInv`); how the age of LastReceive compares with the watchdog's clock and with the last lookup (`ReceiveInv`); that LastSend is never earlier than the last frame, except before the stamp (`SendInv`); that what has had its last effect is no longer held (`LateInv`) |
| IOExchangeProofs | TypeCorrect, NoFalseTimeout, DataStaysFresh | `ClockInv` says when the next frame is due, whatever the ticker, and when the next that is not lost. `SilenceInv` and `FreshInv` tie the consumer's ages to it: either a good frame was sent not longer ago than that, or one is still on its way (`Awaited`). At a tick of the watchdog nothing that old is left within the margin |
| EncapSessionProofs | TypeCorrect, StaysInFrame, OwnReplyAlone, Implements | `InFrame` is not inductive: that a header is followed by its data is due to whose turn it is. `FrameInv` says what the two streams of a session hold at each pair of places of its user and its server goroutine, in sessions that are up and in ones that are cut: of the requests at most so many parts, and behind them perhaps the Unregister of a Close (`AtMost`), after which the server reads no part of a request. For the refinement `EffectInv`: a request on its way is the present call's, which has had no effect yet, or that of a call that has failed (`late`); an answer on its way is the effect of the present call. Each action is then a step of AttributeService or none |
| ConnectionManagerProofs | TypeCorrect, ResponsesAgree, NoEntryLost | the ids in use are those the counter has gone through, each once (`CounterInv`), and a handler has a request and an id exactly while it works on them (`RequestInv`). Needs the arithmetic of a counter that wraps once (`FreshNext`) |
| CipCodecProofs | ItemsHeld, ItemIsFound, NoItemIsFound, SegmentIsParsed, WideSegmentIsRefused, NameIsRead, RequestIsRead, ResponseIsRead, NumbersAreRead, ClassIsDecoded, SymbolIsDecoded | what is encoded is decoded, for bytes of any length. What an encoder builds lies in the whole at places that can be added up (`Holds`); a decoder walks to the same places (`Placed`, `ItemsPlaced`), and reads what lies there |
| ExplicitMessageProofs | TypeCorrect, ListsAreRight, Invariance | `ListIsRight` speaks only of a list that is finished. `Inv` says what holds on the way: a request on its way asks for the instance ListTags is at (`Sent`), also when the connection has broken and the request was an earlier one; an answer on its way tells what the table held at some moment of the call, and if the symbol has been steady, this symbol (`Answered`); what was found so far lacks only failed instances (`Collected`). For the types, a write that the controller takes has the code of the tag's type and therefore a value of it (`WriteKeepsType`) |

Two forms of argument are worth a note. The induction theorems of the library take an
operator and cannot be used here, but an induction over a set can: `NatSet` shows from
FiniteSetTheorems that a set with 0 and, with each number, the next has all numbers, and
`Recursion` from it that a recursive function exists, whatever its steps. `PartsExist`,
`ItemWalk` and `ItemsPlaced` rest on these. A walk is a function of places, so that no
module needs a RECURSIVE operator.

Assumptions: identifiers for "none" are not members of the sets they extend; a buffer
has at least one slot (WithEventBuffer sees to it); retry limits are -1 or natural, and
the reset of the loop variable is positive;
there is at least one connection id; rates, tickers and the watchdog period are positive.
The timeout of a connection is a natural number (`TimeoutAssumption`,
`MarginAssumption`), that is, the shift and the product in `checkTimeouts` do not
overflow; they do for multipliers the protocol does not allow, see the hazards.
Theorems about frames, replies and the refinement of sessions say `Alone`, no
session has two users, which is what session_shared shows to be needed; freshness
says `Fits`, the consumer's assembly has room for what the listener takes for data.
ExplicitMessage says what can be called and what the devices have (`CallsAssumption`,
`DataAssumption`): ids are not negative, tag names have 1 to 255 bytes (a symbolic segment
has one byte for the length), peers send any bytes; tags start with values of their
types, there are at most 65535 symbols, and a symbol's name fits into an answer, whose
item has 16 bits for its length.

Only model-checked: liveness (out of TLAPS's reach) and what rests on it (`Converges`,
`SilenceNoticed`, `ProducerServed`, the properties of tag_monitor_liveness and both
`CallReturns`), and that ExplicitMessage implements ObjectAccess. The theorems of
CipCodecProofs are its ingredients, except for structures (Timer, Counter) and the
lists of identities and services, whose decoders are checked by TLC only.

## 5. Not modelled

- The registration exchange, one fixed request and answer before a session is used.
- Elementary types other than INT and DINT, which are encoded alike with other widths;
  the tables of type names; member and port segments, which no operation uses.
- In EncapSession, peers that neither answer nor close, which goeip's server is not; a
  request of 64 KiB or more, whose length field is cut off. In ReconnectingClient,
  closing a client is one step under rc.mu: its write of 24 bytes is taken not to block.
- What a reader makes of bytes out of frame: a reader of EncapSession stops there, until
  the connection is down. That concerns sessions with several users, and the server that
  takes an Unregister for the data of a request. There the code may also answer a failure
  before the client closes the transport, which it does next: the session handle
  0x01020304 announces 258 items, more than a request of less than 1 KiB has room for.
  The call fails either way, and the request has no effect.
- Error answers of a controller on a healthy connection other than those it gives for
  instances that are gone: ListTags would skip them alike (discovery.go:59-72).
- That `processTick` sends nothing for a connection without an address
  (scheduler.go:179) in IORuntime, whose producers all have one.
- Set-up: servers and routers get their objects, and the I/O engine its first
  connections, before they start (assemblies may be registered again any time).
- Tools other than the adapter and the scanner, which make one call each and print;
  logging and the hex dump.

## 6. Plan

Done: all modules of the plan but one, the proofs of every safety invariant the runs
check, and of the refinements of SessionSlot, IOLink and AttributeService.

What could follow:

1. an abstract specification of a tag monitor's stream (per tag, the polls in order,
   ended by Close), of which `InOrder` and `ChannelEnds` are now the two halves;
2. the proof that ExplicitMessage implements ObjectAccess: for the calls of numbers and
   bytes from the theorems there are, then the inversion of the structures and of the
   two lists;
3. controllers that hang in EncapSession, with properties that say what they need of
   them, as those of TagMonitor and ReconnectingClient do;
4. what the server makes of bytes out of frame.
