---------------------- MODULE ConnectionManagerProofs ----------------------
(***************************************************************************)
(* Theorems about ConnectionManager, for any number of server goroutines   *)
(* and of connection ids, 2^32 among them.                                 *)
(***************************************************************************)
EXTENDS ConnectionManager, TLAPS

\* Advancing the counter.
LEMMA Successor ==
  ASSUME NEW x \in Ids
  PROVE  (x + 1) % IdSpace = IF x + 1 < IdSpace THEN x + 1 ELSE 0
<1>1. x \in Int /\ 0 <= x /\ x + 1 <= IdSpace /\ IdSpace \in Nat \ {0}
  BY IdAssumption DEF Ids
<1>2. CASE x + 1 < IdSpace
  BY <1>1, <1>2
<1>3. CASE x + 1 = IdSpace
  BY <1>1, <1>3
<1>4. QED  BY <1>1, <1>2, <1>3

\* As long as there are ids left, the next one has not been used.
LEMMA FreshNext ==
  ASSUME NEW n \in 0 .. IdSpace - 1
  PROVE  /\ Nth(n) \in Ids
         /\ (Nth(n) + 1) % IdSpace = Nth(n + 1)
         /\ Nth(n + 1) \in Ids
         /\ \A k \in 1 .. n : Nth(n + 1) # Nth(k)
<1>1. /\ Nth(n) \in Ids
      /\ Nth(n + 1) \in Ids
      /\ \A k \in 1 .. n : Nth(n + 1) # Nth(k)
  BY IdAssumption DEF Nth, Ids
<1>2. (Nth(n) + 1) % IdSpace = Nth(n + 1)
  BY <1>1, Successor, IdAssumption DEF Nth, Ids
<1>3. QED  BY <1>1, <1>2

\* Type correctness; in particular the counter keeps its width.
THEOREM TypeCorrect == Spec => []TypeOK
<1> USE IdAssumption, OtAssumption DEF TypeOK, Ids
<1>1. Init => TypeOK
  BY DEF Init
<1>2. TypeOK /\ [Next]_vars => TypeOK'
  <2> SUFFICES ASSUME TypeOK, [Next]_vars PROVE TypeOK'
    OBVIOUS
  <2> USE DEF Go
  <2>1. ASSUME NEW h \in Handlers, ReceiveOpen(h) \/ ReceiveBad(h) \/ ReceiveClose(h)
        PROVE  TypeOK'
    BY <2>1 DEF ReceiveOpen, ReceiveBad, ReceiveClose
  <2>2. ASSUME NEW h \in Handlers, Open(h) PROVE TypeOK'
    <3>1. nextConnID' \in Ids
      BY <2>2, Successor DEF Open
    <3>2. QED  BY <2>2, <3>1 DEF Open
  <2>3. ASSUME NEW h \in Handlers, Close(h) \/ Answer(h) PROVE TypeOK'
    BY <2>3 DEF Close, Answer
  <2>4. CASE UNCHANGED vars
    BY <2>4 DEF vars
  <2>5. QED  BY <2>1, <2>2, <2>3, <2>4 DEF Next
<1>3. QED  BY <1>1, <1>2, PTL DEF Spec

\* The ids handed out are the ones the counter has gone through.
LEMMA InductiveInvariant == Spec => [](TypeOK /\ CounterInv /\ RequestInv)
<1> DEFINE Inv == CounterInv /\ RequestInv
<1> USE IdAssumption, OtAssumption
<1>1. Init => Inv
  BY DEF Init, CounterInv, RequestInv, Nth
<1>2. TypeOK /\ Inv /\ [Next]_vars => Inv'
  <2> SUFFICES ASSUME TypeOK, Inv, [Next]_vars PROVE Inv'
    OBVIOUS
  <2>1. ASSUME NEW h \in Handlers, ReceiveOpen(h) \/ ReceiveBad(h) \/ ReceiveClose(h)
        PROVE  Inv'
    BY <2>1 DEF ReceiveOpen, ReceiveBad, ReceiveClose, Go, TypeOK, CounterInv, RequestInv
  <2>2. ASSUME NEW h \in Handlers, Open(h) PROVE Inv'
    <3>1. RequestInv'
      BY <2>2 DEF Open, Go, TypeOK, RequestInv
    <3>2. ASSUME opened' < IdSpace PROVE CounterInv'
      <4>1. /\ opened \in 0 .. IdSpace - 1 /\ opened' = opened + 1
            /\ opened < IdSpace /\ opened + 1 < IdSpace
        BY <2>2, <3>2 DEF Open, TypeOK
      <4>2. nextConnID = Nth(opened)
        BY <4>1 DEF CounterInv
      <4>3. nextConnID' = Nth(opened + 1) /\ nextConnID' \in Ids
        BY <2>2, <4>1, <4>2, FreshNext DEF Open
      <4>4. connections[nextConnID'] = NoOt
        BY <4>1, <4>3, FreshNext DEF CounterInv
      <4>5. \A i \in Ids : connections'[i] # NoOt =>
              \E k \in 1 .. opened' : i = Nth(k)
        <5>1. \A i \in Ids : i # nextConnID' => connections'[i] = connections[i]
          BY <2>2 DEF Open, TypeOK
        <5>2. \A k \in 1 .. opened : k \in 1 .. opened'
          BY <4>1
        <5>3. opened' \in 1 .. opened'
          BY <4>1
        <5>4. QED  BY <4>1, <4>3, <5>1, <5>2, <5>3 DEF CounterInv
      <4>6. \A g \in Handlers : assigned[g] # -1 =>
              assigned[g] \in Ids /\ assigned[g] # nextConnID' /\ g # h
        BY <2>2, <4>1, <4>4 DEF Open, Go, CounterInv, RequestInv, TypeOK
      <4>7. \A g \in Handlers : assigned'[g] # -1 =>
              /\ connections'[assigned'[g]] = requested'[g]
              /\ \A f \in Handlers \ {g} : assigned'[f] # assigned'[g]
        <5>1. /\ assigned'[h] = nextConnID'
              /\ \A g \in Handlers \ {h} : assigned'[g] = assigned[g]
              /\ requested' = requested
              /\ connections'[nextConnID'] = requested[h]
              /\ \A i \in Ids : i # nextConnID' => connections'[i] = connections[i]
          BY <2>2, <4>3 DEF Open, TypeOK
        <5>2. nextConnID' # -1
          BY <4>3 DEF Ids
        <5>3. QED  BY <4>1, <4>6, <5>1, <5>2 DEF CounterInv
      <4>8. QED  BY <4>1, <4>3, <4>5, <4>7 DEF CounterInv
    <3>3. QED  BY <3>1, <3>2 DEF CounterInv
  <2>3. ASSUME NEW h \in Handlers, Close(h) \/ Answer(h) PROVE Inv'
    BY <2>3 DEF Close, Answer, Go, TypeOK, CounterInv, RequestInv
  <2>4. CASE UNCHANGED vars
    BY <2>4 DEF vars, CounterInv, RequestInv
  <2>5. QED  BY <2>1, <2>2, <2>3, <2>4 DEF Next
<1>3. QED  BY <1>1, <1>2, TypeCorrect, PTL DEF Spec

\* Until the ids have run out, the responses and the table agree.
THEOREM ResponsesAgree == Spec => []AnswersAgree
<1>1. CounterInv => AnswersAgree
  BY DEF CounterInv, AnswersAgree, Assigning
<1>2. QED  BY <1>1, InductiveInvariant, PTL

\* Until the ids have run out, no open takes over an entry.
THEOREM NoEntryLost == Spec => EntriesKept
<1> USE IdAssumption, OtAssumption
<1>1. TypeOK /\ CounterInv /\ [Next]_vars =>
        [opened < IdSpace => \A i \in Ids : connections[i] # NoOt =>
                               connections'[i] = connections[i]]_vars
  <2> SUFFICES ASSUME TypeOK, CounterInv, [Next]_vars, opened < IdSpace,
                      NEW i \in Ids, connections[i] # NoOt
               PROVE  connections'[i] = connections[i]
    OBVIOUS
  <2>1. ASSUME NEW h \in Handlers, Open(h) PROVE connections'[i] = connections[i]
    <3>1. /\ opened \in 0 .. IdSpace - 1 /\ nextConnID = Nth(opened)
      BY DEF TypeOK, CounterInv
    <3>2. PICK k \in 1 .. opened : i = Nth(k)
      BY DEF CounterInv
    <3>3. nextConnID' # i
      BY <2>1, <3>1, <3>2, FreshNext DEF Open
    <3>4. QED  BY <2>1, <3>3 DEF Open, TypeOK
  <2>2. CASE UNCHANGED connections
    BY <2>2
  <2>3. QED
    BY <2>1, <2>2 DEF Next, ReceiveOpen, ReceiveBad, ReceiveClose, Close, Answer, vars
<1>2. QED  BY <1>1, InductiveInvariant, PTL DEF Spec, EntriesKept
=============================================================================
