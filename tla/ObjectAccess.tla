---------------------------- MODULE ObjectAccess ----------------------------
(***************************************************************************)
(* What explicit messages are for, without the messages: users name an     *)
(* attribute by numbers or a tag by its name, and get or set its value. A  *)
(* call acts on what it names and nothing else, once, at one moment, and   *)
(* returns what it found or that it was refused. When a user's connection  *)
(* is gone its call fails, and may still act.                              *)
(***************************************************************************)
EXTENDS Sequences

CONSTANTS
  Users, Calls, NoCall, NoOutcome, Failed,
  Unsendable   \* types whose values cannot be sent

VARIABLES
  store,    \* the values, each with its type, of the targets there are
  up,       \* the users that have a connection
  pending,  \* the call of a user that has not acted yet
  outcome   \* what the latest call of a user has returned

vars == <<store, up, pending, outcome>>

Init ==
  /\ up \subseteq Users
  /\ pending = [u \in Users |-> NoCall]
  /\ outcome = [u \in Users |-> NoOutcome]

Returns(val) == [ok |-> TRUE, val |-> val]

\* A value can be set to one of its type and length; opening a connection adds it.
Effect(c) ==
  IF c.target \in DOMAIN store
    THEN LET old == store[c.target] IN
         CASE c.kind = "set" /\ c.type = old.type /\ Len(c.val) = Len(old.val) ->
                [store EXCEPT ![c.target].val = c.val]
           [] c.kind = "open" /\ old.type = "connections" ->
                [store EXCEPT ![c.target].val = old.val \o c.val]
           [] OTHER -> store
    ELSE store

\* A value read as another type than its own may be refused or misread.
Answers(c, o) ==
  IF c.target \in DOMAIN store
    THEN LET old == store[c.target] IN
         CASE c.kind = "get" /\ c.type = old.type -> o = Returns(old.val)
           [] c.kind = "get" /\ c.type # old.type -> o.ok \/ o = Failed
           [] c.kind = "set" /\ c.type = old.type /\ Len(c.val) = Len(old.val) ->
                o = Returns(<<>>)
           [] c.kind = "open" /\ old.type = "connections" -> o = Returns(<<>>)
           [] OTHER -> o = Failed
    ELSE o = Failed

\* A value of a type that cannot be sent is refused at once.
Submit(u, c) ==
  /\ IF c.kind = "set" /\ c.type \in Unsendable
       THEN /\ outcome' = [outcome EXCEPT ![u] = Failed]
            /\ UNCHANGED pending
       ELSE /\ pending' = [pending EXCEPT ![u] = c]
            /\ outcome' = [outcome EXCEPT ![u] = NoOutcome]
  /\ UNCHANGED <<store, up>>

Act(u) ==
  /\ pending[u] # NoCall
  /\ store' = Effect(pending[u])
  /\ pending' = [pending EXCEPT ![u] = NoCall]
  /\ IF u \in up THEN outcome[u] = NoOutcome /\ Answers(pending[u], outcome'[u])
                 ELSE outcome'[u] = outcome[u]
  /\ \A v \in Users \ {u} : outcome'[v] = outcome[v]
  /\ UNCHANGED up

\* Any call under way may fail once the connection is gone.
Disconnect(u) ==
  /\ u \in up /\ up' = up \ {u}
  /\ pending' \in {pending, [pending EXCEPT ![u] = NoCall]}
  /\ UNCHANGED <<store, outcome>>

Fail(u) ==
  /\ u \notin up
  /\ outcome' = [outcome EXCEPT ![u] = Failed]
  /\ UNCHANGED <<store, up, pending>>

\* The device defines a target, or defines it anew.
Define ==
  /\ \E t \in DOMAIN store' : \A s \in DOMAIN store \ {t} :
       s \in DOMAIN store' /\ store'[s] = store[s]
  /\ UNCHANGED <<up, pending, outcome>>

Next ==
  \/ \E u \in Users : Act(u) \/ Disconnect(u) \/ Fail(u)
  \/ \E u \in up : pending[u] = NoCall /\ \E c \in Calls : Submit(u, c)
  \/ Define

Spec == Init /\ [][Next]_vars
=============================================================================
