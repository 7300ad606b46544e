---------------------- MODULE ReconnectingClientProofs ----------------------
(***************************************************************************)
(* Theorems about ReconnectingClient, for every set of callers, every set  *)
(* of client identities, every retry limit and every value at which the    *)
(* loop variable is reset.                                                 *)
(***************************************************************************)
EXTENDS ReconnectingClient, TLAPS

\* Type correctness; in particular the loop variable never passes the limit.
THEOREM TypeCorrect == Spec => []TypeOK
<1> USE RetriesAssumption, ResetAssumption DEF TypeOK, Pcs, Retrying, Apply
<1>1. Init => TypeOK
  <2> SUFFICES ASSUME Init PROVE TypeOK
    OBVIOUS
  <2>1. /\ pc \in [Callers -> Pcs] /\ applied \in [Callers -> Nat]
        /\ held \in [Callers -> Sessions \union {NoSession}]
        /\ attempt \in [Callers -> Nat]
    BY DEF Init
  <2>2. \A c \in Callers : maxRetries >= 0 => attempt[c] <= maxRetries
    BY DEF Init
  <2>3. /\ maxRetries \in Retries /\ slot \in Sessions \union {NoSession}
        /\ closed \in BOOLEAN /\ mu \subseteq Callers /\ open \subseteq Sessions
    BY DEF Init
  <2>4. QED  BY <2>1, <2>2, <2>3
<1>2. TypeOK /\ [Next]_vars => TypeOK'
  <2> SUFFICES ASSUME TypeOK, [Next]_vars PROVE TypeOK'
    OBVIOUS
  <2> USE DEF Go, NextAttempt
  <2>1. ASSUME NEW c \in Callers, Call(c) PROVE TypeOK'
    BY <2>1 DEF Call
  <2>2. ASSUME NEW c \in Callers, Wake(c) \/ GetClient(c) PROVE TypeOK'
    BY <2>2 DEF Wake, GetClient
  <2>3. ASSUME NEW c \in Callers, LockClient(c) PROVE TypeOK'
    BY <2>3 DEF LockClient
  <2>4. ASSUME NEW c \in Callers, DialOk(c) \/ DialFail(c) PROVE TypeOK'
    BY <2>4 DEF DialOk, DialFail, Fresh
  <2>5. ASSUME NEW c \in Callers, OperateOk(c) \/ OperateFail(c) PROVE TypeOK'
    BY <2>5 DEF OperateOk, OperateFail
  <2>6. ASSUME NEW c \in Callers, Invalidate(c) PROVE TypeOK'
    BY <2>6 DEF Invalidate, AfterFailure
  <2>7. CASE Close
    BY <2>7 DEF Close
  <2>8. CASE UNCHANGED vars
    BY <2>8 DEF vars
  <2>9. QED
    BY <2>1, <2>2, <2>3, <2>4, <2>5, <2>6, <2>7, <2>8 DEF Next, Attempt
<1>3. QED  BY <1>1, <1>2, PTL DEF Spec

\* What holds of the lock, the current client and the connected ones together.
LEMMA InductiveInvariant == Spec => [](OneSession /\ DialInv)
<1> USE SessionsAssumption DEF OneSession, DialInv
<1>1. Init => OneSession /\ DialInv
  BY DEF Init
<1>2. TypeOK /\ OneSession /\ DialInv /\ [Next]_vars => (OneSession /\ DialInv)'
  <2> SUFFICES ASSUME TypeOK, OneSession, DialInv, [Next]_vars
               PROVE  (OneSession /\ DialInv)'
    OBVIOUS
  <2> USE DEF TypeOK, Pcs, Retrying, Go, NextAttempt
  <2>1. ASSUME NEW c \in Callers, Call(c) PROVE (OneSession /\ DialInv)'
    BY <2>1 DEF Call
  <2>2. ASSUME NEW c \in Callers, Wake(c) \/ GetClient(c)
        PROVE  (OneSession /\ DialInv)'
    BY <2>2 DEF Wake, GetClient
  <2>3. ASSUME NEW c \in Callers, LockClient(c) PROVE (OneSession /\ DialInv)'
    BY <2>3 DEF LockClient
  <2>4. ASSUME NEW c \in Callers, DialOk(c) PROVE (OneSession /\ DialInv)'
    BY <2>4 DEF DialOk, Fresh
  <2>5. ASSUME NEW c \in Callers, DialFail(c) PROVE (OneSession /\ DialInv)'
    BY <2>5 DEF DialFail
  <2>6. ASSUME NEW c \in Callers, OperateOk(c) \/ OperateFail(c)
        PROVE  (OneSession /\ DialInv)'
    BY <2>6 DEF OperateOk, OperateFail
  <2>7. ASSUME NEW c \in Callers, Invalidate(c) PROVE (OneSession /\ DialInv)'
    BY <2>7 DEF Invalidate, AfterFailure
  <2>8. CASE Close
    BY <2>8 DEF Close
  <2>9. CASE UNCHANGED vars
    BY <2>9 DEF vars
  <2>10. QED
    BY <2>1, <2>2, <2>3, <2>4, <2>5, <2>6, <2>7, <2>8, <2>9 DEF Next, Attempt
<1>3. QED  BY <1>1, <1>2, TypeCorrect, PTL DEF Spec

\* There is never a connected client besides the current one.
THEOREM NoSessionLeaks == Spec => []OneSession
BY InductiveInvariant, PTL

\* A caller whose operation failed late does not close its successor's client.
THEOREM NewClientSurvives == Spec => ClosedForCause
<1>1. TypeOK /\ OneSession /\ [Next]_vars =>
        [\A k \in open \ open' :
           \/ closed'
           \/ \E c \in Callers : /\ pc[c] = "invalidate" /\ pc'[c] # "invalidate"
                                 /\ held[c] = k]_vars
  <2> SUFFICES ASSUME TypeOK, OneSession, Next, NEW k \in open \ open', ~closed'
               PROVE  \E c \in Callers : /\ pc[c] = "invalidate"
                                         /\ pc'[c] # "invalidate"
                                         /\ held[c] = k
    BY DEF vars, OneSession
  <2>1. PICK c \in Callers : Invalidate(c)
    BY DEF Next, Call, Attempt, Wake, GetClient, LockClient, DialOk, DialFail,
           OperateOk, OperateFail, Close
  <2>2. k = held[c]
    BY <2>1 DEF Invalidate, OneSession
  <2>3. pc'[c] \in {"sleep", "get", "failed"}
    BY <2>1 DEF Invalidate, AfterFailure, NextAttempt, TypeOK
  <2>4. QED  BY <2>1, <2>2, <2>3 DEF Invalidate
<1>2. QED  BY <1>1, TypeCorrect, InductiveInvariant, PTL DEF Spec, ClosedForCause

\* A call that succeeds has had its effect, and a call with a limit of n retries, n
\* below the attempt at which the loop variable is reset, has it at most n + 1
\* times. From that attempt on nothing bounds it (reconnect.go:217-220).
THEOREM WritesAreBounded == Spec => []EffectsBounded
<1> USE DEF RoundInv
<1>init. Init => RoundInv
  <2> SUFFICES ASSUME Init PROVE RoundInv
    OBVIOUS
  <2>1. ASSUME NEW c \in Callers
        PROVE  pc[c] # "ok" /\ applied[c] <= attempt[c]
    <3>1. pc[c] = "idle" /\ applied[c] = 0 /\ attempt[c] = 0
      BY DEF Init
    <3>2. 0 <= 0 /\ "idle" # "ok"
      OBVIOUS
    <3> QED
      BY <3>1, <3>2, Zenon
  <2> QED
    BY <2>1, Zenon
<1>step. TypeOK /\ RoundInv /\ [Next]_vars => RoundInv'
  <2> SUFFICES ASSUME TypeOK, RoundInv, [Next]_vars PROVE RoundInv'
    OBVIOUS
  <2> USE DEF TypeOK, Go, NextAttempt
  <2>call. ASSUME NEW c \in Callers, Call(c) PROVE RoundInv'
    BY <2>call DEF Call, Limited
  <2>wait. ASSUME NEW c \in Callers, Wake(c) \/ GetClient(c) \/ LockClient(c)
           PROVE  RoundInv'
    BY <2>wait DEF Wake, GetClient, LockClient, Limited
  <2>dial. ASSUME NEW c \in Callers, DialOk(c) \/ DialFail(c) PROVE RoundInv'
    BY <2>dial DEF DialOk, DialFail, Limited
  <2>operate. ASSUME NEW c \in Callers, OperateOk(c) \/ OperateFail(c)
              PROVE  RoundInv'
    <3>1. /\ pc[c] = "operate" /\ attempt' = attempt /\ maxRetries' = maxRetries
          /\ \A d \in Callers \ {c} : pc'[d] = pc[d] /\ applied'[d] = applied[d]
          /\ pc'[c] = "ok" \/ pc'[c] = "invalidate"
      BY <2>operate DEF OperateOk, OperateFail, Apply
    <3>2. Limited => applied[c] <= attempt[c]
      BY <3>1
    <3>3. /\ applied'[c] = applied[c]
             \/ applied'[c] = IF Limited THEN applied[c] + 1 ELSE 1
          /\ pc'[c] = "ok" =>
               applied'[c] = IF Limited THEN applied[c] + 1 ELSE 1
      BY <2>operate DEF OperateOk, OperateFail, Apply
    <3>4. pc'[c] = "ok" => applied'[c] >= 1
      BY <3>3
    <3>5. Limited =>
            \/ applied'[c] <= attempt'[c]
            \/ applied'[c] = attempt'[c] + 1
      BY <3>1, <3>2, <3>3, RetriesAssumption
    <3>6. Limited' <=> Limited
      BY <3>1 DEF Limited
    <3> QED
      BY <3>1, <3>4, <3>5, <3>6
  <2>drop. ASSUME NEW c \in Callers, Invalidate(c) PROVE RoundInv'
    <3>1. /\ pc[c] = "invalidate" /\ applied' = applied /\ maxRetries' = maxRetries
          /\ \A d \in Callers \ {c} : pc'[d] = pc[d] /\ attempt'[d] = attempt[d]
          /\ pc'[c] # "ok"
      BY <2>drop DEF Invalidate, AfterFailure
    <3>2. Limited =>
            \/ pc'[c] = "sleep" /\ attempt'[c] = attempt[c] + 1
            \/ pc'[c] = "failed" /\ attempt'[c] = attempt[c]
      BY <2>drop, ResetAssumption, RetriesAssumption
         DEF Invalidate, AfterFailure, Limited
    <3>3. Limited => applied[c] <= attempt[c] \/ applied[c] = attempt[c] + 1
      OBVIOUS
    <3>4. Limited =>
            \/ applied'[c] <= attempt'[c]
            \/ applied'[c] = attempt'[c] + 1 /\ pc'[c] = "failed"
      <4>1. applied[c] \in Nat /\ attempt[c] \in Nat /\ applied'[c] = applied[c]
        BY <3>1
      <4>2. \A a, n \in Nat : a <= n \/ a = n + 1 => a <= n + 1
        OBVIOUS
      <4> QED
        BY <3>2, <3>3, <4>1, <4>2
    <3>5. Limited' <=> Limited
      BY <3>1 DEF Limited
    <3> QED
      BY <3>1, <3>4, <3>5
  <2>rest. Close \/ UNCHANGED vars => RoundInv'
    BY DEF Close, vars, Limited
  <2> QED
    BY <2>call, <2>wait, <2>dial, <2>operate, <2>drop, <2>rest DEF Next, Attempt
<1>bound. TypeOK /\ RoundInv => EffectsBounded
  <2> SUFFICES ASSUME TypeOK, RoundInv, NEW c \in Callers, Limited
               PROVE  applied[c] <= maxRetries + 1
    BY DEF EffectsBounded
  <2>1. /\ maxRetries \in Int /\ attempt[c] \in Nat /\ applied[c] \in Nat
        /\ maxRetries >= 0
    BY RetriesAssumption, ResetAssumption DEF TypeOK, Limited
  <2>2. attempt[c] <= maxRetries /\ applied[c] <= attempt[c] + 1
    BY <2>1 DEF TypeOK
  <2>sum. \A a \in Int, b \in Int, n \in Int : a <= b + 1 /\ b <= n => a <= n + 1
    OBVIOUS
  <2>3. applied[c] \in Int /\ attempt[c] \in Int
    BY <2>1
  <2> QED
    BY <2>1, <2>2, <2>3, <2>sum, Zenon
<1> QED
  BY <1>init, <1>step, <1>bound, TypeCorrect, PTL DEF Spec

\* Without a retry limit a call never returns once the client is closed.
THEOREM NoReturnAfterClose == Spec => StuckAfterClose
<1>1. TypeOK /\ DialInv /\ [Next]_vars =>
        [\A c \in Callers :
           maxRetries < 0 /\ closed /\ pc[c] \in {"get", "lock", "sleep"} =>
             pc'[c] \in {"get", "lock", "sleep"}]_vars
  <2> SUFFICES ASSUME TypeOK, Next, NEW c \in Callers, maxRetries < 0, closed,
                      pc[c] \in {"get", "lock", "sleep"}
               PROVE  pc'[c] \in {"get", "lock", "sleep"}
    BY DEF vars
  <2> USE DEF TypeOK, Pcs, Retrying, Go, NextAttempt
  <2>1. CASE \E d \in Callers : Call(d) \/ Wake(d)
    BY <2>1 DEF Call, Wake
  <2>2. CASE \E d \in Callers : GetClient(d)
    BY <2>2 DEF GetClient
  <2>3. CASE \E d \in Callers : LockClient(d)
    BY <2>3 DEF LockClient
  <2>4. CASE \E d \in Callers : DialOk(d) \/ DialFail(d)
    BY <2>4 DEF DialOk, DialFail
  <2>5. CASE \E d \in Callers : OperateOk(d) \/ OperateFail(d)
    BY <2>5 DEF OperateOk, OperateFail
  <2>6. CASE \E d \in Callers : Invalidate(d)
    BY <2>6 DEF Invalidate, AfterFailure
  <2>7. CASE Close
    BY <2>7 DEF Close
  <2>8. QED
    BY <2>1, <2>2, <2>3, <2>4, <2>5, <2>6, <2>7 DEF Next, Attempt
<1>2. QED
  BY <1>1, TypeCorrect, InductiveInvariant, PTL DEF Spec, StuckAfterClose

\* ReconnectingClient implements SessionSlot.
THEOREM ImplementsSlot == Spec => SlotSpec
<1>1. Init => Slot!Init
  BY DEF Init, Slot!Init
<1>2. TypeOK /\ OneSession /\ DialInv /\ [Next]_vars => [Slot!Next]_(Slot!vars)
  <2> SUFFICES ASSUME TypeOK, OneSession, DialInv, Next
               PROVE  [Slot!Next]_(Slot!vars)
    BY DEF vars, Slot!vars
  <2> USE DEF Slot!Next, Slot!vars
  <2>open. ASSUME NEW c \in Callers, DialOk(c)
           PROVE  Slot!Open
    BY <2>open DEF DialOk, Fresh, Go, OneSession, DialInv, Slot!Open
  <2>giveUp. ASSUME NEW c \in Callers, Invalidate(c)
             PROVE  Slot!GiveUp \/ UNCHANGED Slot!vars
    BY <2>giveUp DEF Invalidate, Slot!GiveUp
  <2>shut. Close => Slot!Shut
    BY DEF Close, Slot!Shut
  <2>other. ASSUME NEW c \in Callers,
                   \/ Call(c) \/ Wake(c) \/ GetClient(c) \/ LockClient(c)
                   \/ DialFail(c) \/ OperateOk(c) \/ OperateFail(c)
            PROVE  UNCHANGED Slot!vars
    BY <2>other
       DEF Call, Wake, GetClient, LockClient, DialFail, OperateOk, OperateFail
  <2> QED
    BY <2>open, <2>giveUp, <2>shut, <2>other DEF Next, Attempt
<1>3. QED
  BY <1>1, <1>2, TypeCorrect, InductiveInvariant, PTL
     DEF Spec, SlotSpec, Slot!Spec
=============================================================================
