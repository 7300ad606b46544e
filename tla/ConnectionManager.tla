-------------------------- MODULE ConnectionManager --------------------------
(***************************************************************************)
(* The Connection Manager object of pkg/objects/connmgr.                   *)
(*                                                                         *)
(* Forward_Open, Large_Forward_Open and Forward_Close are called by the    *)
(* server's goroutines, one per TCP connection. A request is parsed before *)
(* cm.mu is taken; identifier, table entry and response are made under it, *)
(* and the originator is answered afterwards. Of a connection the object   *)
(* keeps nothing but its two identifiers.                                  *)
(***************************************************************************)
EXTENDS Integers

CONSTANTS
  Handlers,   \* server goroutines
  OtIds,      \* O->T connection ids, chosen by the originators
  NoOt,       \* no connection, no request
  IdSpace,    \* number of T->O connection ids: 2^32 in the code
  FirstId     \* nextConnID at the start: 0x80000000 in the code

ASSUME IdAssumption == IdSpace \in Nat \ {0} /\ FirstId \in 0 .. IdSpace - 1
ASSUME OtAssumption == NoOt \notin OtIds

VARIABLES
  nextConnID,   \* cm.nextConnID
  connections,  \* cm.connections: the O->T id stored under each T->O id
  pc,           \* where each goroutine is
  requested,    \* the O->T id of the open request it handles
  assigned,     \* the T->O id of its response, or -1
  (* History, read by no action: *)
  opened        \* number of connections opened, up to IdSpace

vars == <<nextConnID, connections, pc, requested, assigned, opened>>

Ids == 0 .. IdSpace - 1

TypeOK ==
  /\ nextConnID \in Ids
  /\ connections \in [Ids -> OtIds \union {NoOt}]
  /\ pc \in [Handlers -> {"idle", "open", "close", "answer"}]
  /\ requested \in [Handlers -> OtIds \union {NoOt}]
  /\ assigned \in [Handlers -> Ids \union {-1}]
  /\ opened \in 0 .. IdSpace

Init ==
  /\ nextConnID = FirstId
  /\ connections = [i \in Ids |-> NoOt]
  /\ pc = [h \in Handlers |-> "idle"]
  /\ requested = [h \in Handlers |-> NoOt]
  /\ assigned = [h \in Handlers |-> -1]
  /\ opened = 0

Go(h, from, to) == pc[h] = from /\ pc' = [pc EXCEPT ![h] = to]

\* A request of either open service, and its parsing; one that is cut short, or
\* of a service the object does not support, is answered with an error.
ReceiveOpen(h) ==
  /\ Go(h, "idle", "open")
  /\ \E ot \in OtIds : requested' = [requested EXCEPT ![h] = ot]
  /\ UNCHANGED <<nextConnID, connections, assigned, opened>>

ReceiveBad(h) ==
  /\ Go(h, "idle", "answer")
  /\ UNCHANGED <<nextConnID, connections, requested, assigned, opened>>

ReceiveClose(h) ==
  /\ Go(h, "idle", "close")
  /\ UNCHANGED <<nextConnID, connections, requested, assigned, opened>>

\* Variant: the counter has no width.
OpenUnwrapped(h) ==
  /\ Go(h, "open", "answer")
  /\ nextConnID' = nextConnID + 1
  /\ assigned' = [assigned EXCEPT ![h] = nextConnID']
  /\ connections' = [connections EXCEPT ![nextConnID'] = requested[h]]
  /\ opened' = IF opened < IdSpace THEN opened + 1 ELSE opened
  /\ UNCHANGED requested

\* Variant: the entry is stored under the id before the counter is advanced.
OpenStoredBefore(h) ==
  /\ Go(h, "open", "answer")
  /\ nextConnID' = (nextConnID + 1) % IdSpace
  /\ assigned' = [assigned EXCEPT ![h] = nextConnID']
  /\ connections' = [connections EXCEPT ![nextConnID] = requested[h]]
  /\ opened' = IF opened < IdSpace THEN opened + 1 ELSE opened
  /\ UNCHANGED requested

\* The critical section of both open services: the next id is taken without a
\* look at the table.
Open(h) ==
  /\ Go(h, "open", "answer")
  /\ nextConnID' = (nextConnID + 1) % IdSpace
  /\ assigned' = [assigned EXCEPT ![h] = nextConnID']
  /\ connections' = [connections EXCEPT ![nextConnID'] = requested[h]]
  /\ opened' = IF opened < IdSpace THEN opened + 1 ELSE opened
  /\ UNCHANGED requested

\* Variant: Forward_Close gives the latest id back.
CloseReuse(h) ==
  /\ Go(h, "close", "answer")
  /\ nextConnID' = IF nextConnID = FirstId THEN nextConnID
                                           ELSE (nextConnID - 1) % IdSpace
  /\ UNCHANGED <<connections, requested, assigned, opened>>

\* Forward_Close is answered with success and changes nothing.
Close(h) ==
  /\ Go(h, "close", "answer")
  /\ UNCHANGED <<nextConnID, connections, requested, assigned, opened>>

\* The server writes the response.
Answer(h) ==
  /\ Go(h, "answer", "idle")
  /\ requested' = [requested EXCEPT ![h] = NoOt]
  /\ assigned' = [assigned EXCEPT ![h] = -1]
  /\ UNCHANGED <<nextConnID, connections, opened>>

Next ==
  \E h \in Handlers : \/ ReceiveOpen(h) \/ ReceiveBad(h) \/ ReceiveClose(h)
                      \/ Open(h) \/ Close(h) \/ Answer(h)

Spec == Init /\ [][Next]_vars

-----------------------------------------------------------------------------
(* Properties.                                                             *)

\* While there have been at most IdSpace opens, no two responses that are being
\* written assign the same id, and each assigns an id under which the table has
\* the connection it answers for, whatever the other goroutines open and close.
Assigning(h) == pc[h] = "answer" /\ assigned[h] # -1

AnswersAgree ==
  opened < IdSpace =>
    \A h \in Handlers : Assigning(h) =>
      /\ connections[assigned[h]] = requested[h]
      /\ \A g \in Handlers \ {h} : Assigning(g) => assigned[g] # assigned[h]

\* An open does not take over the entry of another connection before the ids
\* have run out. (Then it does: nothing is ever removed.)
EntriesKept ==
  [][opened < IdSpace =>
       \A i \in Ids : connections[i] # NoOt => connections'[i] = connections[i]]_vars

\* Why: the ids in use are those the counter has gone through, each used once.
Nth(k) == IF FirstId + k < IdSpace THEN FirstId + k ELSE FirstId + k - IdSpace

CounterInv ==
  opened < IdSpace =>
    /\ nextConnID = Nth(opened)
    /\ \A i \in Ids : connections[i] # NoOt => \E k \in 1 .. opened : i = Nth(k)
    /\ \A h \in Handlers : assigned[h] # -1 =>
         /\ connections[assigned[h]] = requested[h]
         /\ \A g \in Handlers \ {h} : assigned[g] # assigned[h]

\* A handler has a request from its parsing, and an id from the critical section,
\* until the response is written.
RequestInv ==
  \A h \in Handlers :
    /\ pc[h] = "open" => requested[h] \in OtIds
    /\ assigned[h] # -1 => pc[h] = "answer" /\ requested[h] \in OtIds
=============================================================================
