------------------------- MODULE ReconnectingClient -------------------------
(***************************************************************************)
(* The retry wrapper of pkg/client/reconnect.go.                           *)
(*                                                                         *)
(* Callers run ReadTag or WriteTag, both executeWithRetry, concurrently on *)
(* one ReconnectingClient and share the *Client in rc.client. rc.mu guards *)
(* rc.client and rc.closed; the operation itself runs without the lock, so *)
(* the client a caller holds may meanwhile have been closed, and replaced, *)
(* by the failure of another caller or by Close.                           *)
(*                                                                         *)
(* A *Client is identified by a member of Sessions. An id is used again    *)
(* only when its client is closed and no caller holds a pointer to it.     *)
(***************************************************************************)
EXTENDS Integers

CONSTANTS
  Callers,     \* goroutines that run operations
  Sessions,    \* identities of *Client values
  NoSession,   \* the nil *Client
  Retries,     \* the values WithMaxRetries may be given; -1: no limit
  ResetAt      \* the attempt after which i starts again: 2147483647

\* There is always an id left for a new client (see above).
ASSUME RetriesAssumption == Retries \subseteq Nat \union {-1} /\ Retries # {}
ASSUME SessionsAssumption == NoSession \notin Sessions
ASSUME ResetAssumption == ResetAt \in Nat \ {0}

VARIABLES
  maxRetries,  \* rc.maxRetries, fixed by the options
  slot,        \* rc.client
  closed,      \* rc.closed
  mu,          \* the callers that hold rc.mu while they dial: none or one
  open,        \* clients that are connected and that nobody has closed
  pc,          \* where each caller is in executeWithRetry
  held,        \* the client getClient returned to it
  attempt,     \* its loop variable i
  applied      \* history: how often the controller has carried its request out

vars == <<maxRetries, slot, closed, mu, open, pc, held, attempt, applied>>

Retrying == {"get", "lock", "dial", "operate", "invalidate", "sleep"}
Pcs      == Retrying \union {"idle", "ok", "failed"}

TypeOK ==
  /\ maxRetries \in Retries
  /\ slot \in Sessions \union {NoSession}
  /\ closed \in BOOLEAN
  /\ mu \subseteq Callers
  /\ open \subseteq Sessions
  /\ pc \in [Callers -> Pcs]
  /\ held \in [Callers -> Sessions \union {NoSession}]
  /\ attempt \in [Callers -> Nat]
  /\ \A c \in Callers : maxRetries >= 0 => attempt[c] <= maxRetries
  /\ applied \in [Callers -> Nat]

\* NewReconnectingClient: with autoConnect it has connected, or it has failed to
\* (which is only logged); without autoConnect it has not tried.
Init ==
  /\ maxRetries \in Retries
  /\ slot \in Sessions \union {NoSession}
  /\ open = {slot} \ {NoSession}
  /\ closed = FALSE
  /\ mu = {}
  /\ pc = [c \in Callers |-> "idle"]
  /\ held = [c \in Callers |-> NoSession]
  /\ attempt = [c \in Callers |-> 0]
  /\ applied = [c \in Callers |-> 0]

Fresh == Sessions \ (open \union {slot} \union {held[c] : c \in Callers})

Go(c, from, to) == pc[c] = from /\ pc' = [pc EXCEPT ![c] = to]

-----------------------------------------------------------------------------
(* executeWithRetry.                                                       *)

\* A result is taken by the caller, who may then call again.
Call(c) ==
  /\ pc[c] \in {"idle", "ok", "failed"}
  /\ pc' = [pc EXCEPT ![c] = "get"]
  /\ attempt' = [attempt EXCEPT ![c] = 0]
  /\ applied' = [applied EXCEPT ![c] = 0]
  /\ UNCHANGED <<maxRetries, slot, closed, mu, open, held>>

\* Variant: gives up as soon as the client is closed.
NextAttemptUnlessClosed(c) ==
  IF ~closed /\ (maxRetries < 0 \/ attempt[c] < maxRetries)
    THEN /\ pc' = [pc EXCEPT ![c] = "sleep"]
         /\ attempt' = IF maxRetries < 0 THEN attempt
                                         ELSE [attempt EXCEPT ![c] = @ + 1]
    ELSE /\ pc' = [pc EXCEPT ![c] = "failed"]
         /\ UNCHANGED attempt

\* Variant: one round too many.
NextAttemptOneMore(c) ==
  IF maxRetries < 0 \/ attempt[c] <= maxRetries
    THEN /\ pc' = [pc EXCEPT ![c] = "sleep"]
         /\ attempt' = IF maxRetries < 0 THEN attempt
                                         ELSE [attempt EXCEPT ![c] = @ + 1]
    ELSE /\ pc' = [pc EXCEPT ![c] = "failed"]
         /\ UNCHANGED attempt

\* Variant: the loop has no limit.
NextAttemptAlways(c) ==
  /\ pc' = [pc EXCEPT ![c] = "sleep"]
  /\ UNCHANGED attempt

\* The end of a round without a client: sleep and go round again, or leave the
\* loop with "max retries exceeded". Without a limit i only matters for the log.
NextAttempt(c) ==
  IF maxRetries < 0 \/ attempt[c] < maxRetries
    THEN /\ pc' = [pc EXCEPT ![c] = "sleep"]
         /\ attempt' = IF maxRetries < 0 THEN attempt
                                         ELSE [attempt EXCEPT ![c] = @ + 1]
    ELSE /\ pc' = [pc EXCEPT ![c] = "failed"]
         /\ UNCHANGED attempt

\* Variant: the loop variable is reset without regard to the limit, at any attempt.
AfterFailureAtOnce(c) ==
  /\ pc' = [pc EXCEPT ![c] = "sleep"]
  /\ attempt' = [attempt EXCEPT ![c] = 1]

\* The end of a round whose operation failed. At ResetAt, i becomes 0, and then 1,
\* whether or not there is a limit: the loop goes on, after a sleep unless this was
\* the last round.
AfterFailure(c) ==
  IF maxRetries >= ResetAt /\ attempt[c] = ResetAt
    THEN /\ pc' = [pc EXCEPT ![c] = IF attempt[c] < maxRetries THEN "sleep" ELSE "get"]
         /\ attempt' = [attempt EXCEPT ![c] = 1]
    ELSE NextAttempt(c)

Wake(c) ==
  /\ Go(c, "sleep", "get")
  /\ UNCHANGED <<maxRetries, slot, closed, mu, open, held, attempt, applied>>

\* getClient under the read lock.
GetClient(c) ==
  /\ pc[c] = "get" /\ mu = {}
  /\ \/ closed /\ NextAttempt(c) /\ UNCHANGED held
     \/ /\ ~closed /\ slot # NoSession
        /\ held' = [held EXCEPT ![c] = slot]
        /\ pc' = [pc EXCEPT ![c] = "operate"]
        /\ UNCHANGED attempt
     \/ /\ ~closed /\ slot = NoSession
        /\ pc' = [pc EXCEPT ![c] = "lock"]
        /\ UNCHANGED <<held, attempt>>
  /\ UNCHANGED <<maxRetries, slot, closed, mu, open, applied>>

\* Variant: does not look again whether another caller has connected.
LockClientNoRecheck(c) ==
  /\ pc[c] = "lock" /\ mu = {}
  /\ IF closed
       THEN NextAttempt(c) /\ UNCHANGED mu
       ELSE pc' = [pc EXCEPT ![c] = "dial"] /\ mu' = {c} /\ UNCHANGED attempt
  /\ UNCHANGED <<maxRetries, slot, closed, open, held, applied>>

\* Variant: does not look again whether the client has been closed.
LockClientReopen(c) ==
  /\ pc[c] = "lock" /\ mu = {}
  /\ IF slot # NoSession
       THEN /\ held' = [held EXCEPT ![c] = slot]
            /\ pc' = [pc EXCEPT ![c] = "operate"]
            /\ UNCHANGED mu
       ELSE /\ pc' = [pc EXCEPT ![c] = "dial"] /\ mu' = {c} /\ UNCHANGED held
  /\ UNCHANGED <<maxRetries, slot, closed, open, attempt, applied>>

\* getClient under the write lock: look again, then dial with the lock held.
LockClient(c) ==
  /\ pc[c] = "lock" /\ mu = {}
  /\ \/ closed /\ NextAttempt(c) /\ UNCHANGED <<held, mu>>
     \/ /\ ~closed /\ slot # NoSession
        /\ held' = [held EXCEPT ![c] = slot]
        /\ pc' = [pc EXCEPT ![c] = "operate"]
        /\ UNCHANGED <<attempt, mu>>
     \/ /\ ~closed /\ slot = NoSession
        /\ mu' = {c}
        /\ pc' = [pc EXCEPT ![c] = "dial"]
        /\ UNCHANGED <<held, attempt>>
  /\ UNCHANGED <<maxRetries, slot, closed, open, applied>>

\* connect: the factory returns a client, or an error.
DialOk(c) ==
  /\ Go(c, "dial", "operate")
  /\ \E k \in Fresh :
       /\ slot' = k
       /\ open' = open \union {k}
       /\ held' = [held EXCEPT ![c] = k]
  /\ mu' = {}
  /\ UNCHANGED <<maxRetries, closed, attempt, applied>>

DialFail(c) ==
  /\ pc[c] = "dial"
  /\ NextAttempt(c)
  /\ mu' = {}
  /\ UNCHANGED <<maxRetries, slot, closed, open, held, applied>>

\* The limit is one the loop variable can reach: below ResetAt.
Limited == maxRetries \in 0 .. ResetAt - 1

\* The controller carries the request out. Without a limit only the first time counts.
Apply(c) ==
  applied' = [applied EXCEPT ![c] = IF Limited THEN @ + 1 ELSE 1]

\* The operation on the client the caller holds, without the lock. A client that
\* has been closed can only fail it; an open one may fail it too.
OperateOk(c) ==
  /\ held[c] \in open
  /\ Go(c, "operate", "ok")
  /\ held' = [held EXCEPT ![c] = NoSession]
  /\ Apply(c)
  /\ UNCHANGED <<maxRetries, slot, closed, mu, open, attempt>>

\* Any error: the connection broke before the request arrived, or before the reply
\* did, or the controller refused the request. All are treated alike.
OperateFail(c) ==
  /\ Go(c, "operate", "invalidate")
  /\ Apply(c) \/ UNCHANGED applied
  /\ UNCHANGED <<maxRetries, slot, closed, mu, open, held, attempt>>

\* Variant: closes whatever client is current.
InvalidateAny(c) ==
  /\ pc[c] = "invalidate" /\ mu = {}
  /\ open' = open \ {slot} /\ slot' = NoSession
  /\ held' = [held EXCEPT ![c] = NoSession]
  /\ AfterFailure(c)
  /\ UNCHANGED <<maxRetries, closed, mu, applied>>

\* Under the lock, the failed client is closed and dropped if it is current.
Invalidate(c) ==
  /\ pc[c] = "invalidate" /\ mu = {}
  /\ IF slot = held[c]
       THEN open' = open \ {slot} /\ slot' = NoSession
       ELSE UNCHANGED <<open, slot>>
  /\ held' = [held EXCEPT ![c] = NoSession]
  /\ AfterFailure(c)
  /\ UNCHANGED <<maxRetries, closed, mu, applied>>

-----------------------------------------------------------------------------
\* Close; it may be called again and then finds no client.
Close ==
  /\ mu = {}
  /\ closed' = TRUE
  /\ slot' = NoSession
  /\ open' = open \ {slot}
  /\ UNCHANGED <<maxRetries, mu, pc, held, attempt, applied>>

Attempt(c) ==
  \/ Wake(c) \/ GetClient(c) \/ LockClient(c) \/ DialOk(c) \/ DialFail(c)
  \/ OperateOk(c) \/ OperateFail(c) \/ Invalidate(c)

Next == (\E c \in Callers : Call(c) \/ Attempt(c)) \/ Close

Spec == Init /\ [][Next]_vars

\* A caller inside executeWithRetry goes on: sleep ends, and rc.mu is granted to a
\* goroutine that keeps asking (sync.RWMutex does not starve a waiter). Nothing
\* is said of dials and operations: only the TCP dial has a deadline, the
\* registration that follows and every operation read for as long as it takes.
FairSpec ==
  /\ Spec
  /\ \A c \in Callers :
       /\ WF_vars(Wake(c))
       /\ SF_vars(GetClient(c)) /\ SF_vars(LockClient(c)) /\ SF_vars(Invalidate(c))

-----------------------------------------------------------------------------
(* Properties.                                                             *)

\* The only client that is connected is the current one: racing callers do not
\* dial a second one, and a client that is replaced has been closed. rc.mu is
\* held exactly by the caller that dials.
OneSession ==
  /\ open = {slot} \ {NoSession}
  /\ mu = {c \in Callers : pc[c] = "dial"}
  /\ \A c, d \in mu : c = d

\* Why: a caller dials only while there is no client, and the lock keeps it so,
\* and keeps Close out, until the dial ends. (OneSession and DialInv are inductive
\* together.)
DialInv ==
  /\ mu # {} => slot = NoSession /\ ~closed
  /\ closed => slot = NoSession

\* A client is closed only by Close or by a caller whose own operation on that
\* very client has failed: a late failure on an old client leaves the new one
\* alone.
ClosedForCause ==
  [][\A k \in open \ open' :
       \/ closed'
       \/ \E c \in Callers : /\ pc[c] = "invalidate" /\ pc'[c] # "invalidate"
                             /\ held[c] = k]_vars

\* The client callers are given behaves like a SessionSlot: opened only when
\* there is none, and never again after Close.
Slot == INSTANCE SessionSlot WITH session <- slot, shut <- closed
SlotSpec == Slot!Spec

DialsEnd         == \A c \in Callers : WF_vars(DialOk(c) \/ DialFail(c))
OperationsEnd(c) == WF_vars(OperateOk(c) \/ OperateFail(c))

\* A call with a retry limit returns if its own operations end one way or the other
\* and every dial does, since rc.mu is held meanwhile: an operation of another
\* caller that hangs for ever does not keep it, nor does Close. The limit
\* must be one the loop variable reaches before it is reset (reconnect.go:217-220).
CallReturns(c) ==
  DialsEnd /\ OperationsEnd(c) =>
    (Limited /\ pc[c] \in Retrying ~> pc[c] \in {"ok", "failed"})

\* Without a limit, a call that finds the client closed goes round for ever:
\* getClient's error is retried like any other.
StuckAfterClose ==
  [][\A c \in Callers :
       maxRetries < 0 /\ closed /\ pc[c] \in {"get", "lock", "sleep"} =>
         pc'[c] \in {"get", "lock", "sleep"}]_vars

\* A request that is reported as done has been carried out; with a limit below the
\* reset none is carried out more often than the loop has rounds, although a lost
\* reply makes it be sent again.
EffectsBounded ==
  \A c \in Callers :
    /\ pc[c] = "ok" => applied[c] >= 1
    /\ Limited => applied[c] <= maxRetries + 1

\* Why: it is carried out at most once in a round.
RoundInv ==
  \A c \in Callers :
    /\ pc[c] = "ok" => applied[c] >= 1
    /\ Limited =>
         \/ applied[c] <= attempt[c]
         \/ applied[c] = attempt[c] + 1 /\ pc[c] \in {"invalidate", "ok", "failed"}
=============================================================================
