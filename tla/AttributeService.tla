-------------------------- MODULE AttributeService --------------------------
(***************************************************************************)
(* What explicit messaging promises its users about an attribute they get  *)
(* and set: a call that succeeds has taken effect at one moment between    *)
(* its begin and its end, and returns what was current at that moment; a   *)
(* call that fails may have taken effect or not; it may still do so after  *)
(* it has failed, but only once.                                           *)
(***************************************************************************)
CONSTANTS Users, Values, NoValue, Ops, NoOp

VARIABLES
  value,    \* the attribute
  call,     \* the operation each user has called, or NoOp
  effect,   \* the value it has set or got once it has taken effect
  late,     \* an operation that has failed and may still take effect
  result    \* what the user's last call returned

vars == <<value, call, effect, late, result>>

Init ==
  /\ value \in Values
  /\ call = [u \in Users |-> NoOp]
  /\ effect = [u \in Users |-> NoValue]
  /\ late = [u \in Users |-> NoOp]
  /\ result = [u \in Users |-> NoValue]

ValueAfter(op) == IF op.kind = "set" THEN op.val ELSE value

Invoke(u) ==
  /\ call[u] = NoOp
  /\ \E op \in Ops : call' = [call EXCEPT ![u] = op]
  /\ effect' = [effect EXCEPT ![u] = NoValue]
  /\ result' = [result EXCEPT ![u] = NoValue]
  /\ UNCHANGED <<value, late>>

Apply(u) ==
  /\ call[u] # NoOp /\ effect[u] = NoValue
  /\ value' = ValueAfter(call[u])
  /\ effect' = [effect EXCEPT ![u] = value']
  /\ UNCHANGED <<call, late, result>>

Succeed(u) ==
  /\ call[u] # NoOp /\ effect[u] # NoValue
  /\ call' = [call EXCEPT ![u] = NoOp]
  /\ result' = [result EXCEPT ![u] = effect[u]]
  /\ effect' = [effect EXCEPT ![u] = NoValue]
  /\ UNCHANGED <<value, late>>

Fail(u) ==
  /\ call[u] # NoOp
  /\ call' = [call EXCEPT ![u] = NoOp]
  /\ effect' = [effect EXCEPT ![u] = NoValue]
  /\ late' \in {late, [late EXCEPT ![u] = IF effect[u] = NoValue THEN call[u] ELSE @]}
  /\ UNCHANGED <<value, result>>

ApplyLate(u) ==
  /\ late[u] # NoOp
  /\ value' = ValueAfter(late[u])
  /\ late' = [late EXCEPT ![u] = NoOp]
  /\ UNCHANGED <<call, effect, result>>

Forget(u) ==
  /\ late' = [late EXCEPT ![u] = NoOp]
  /\ UNCHANGED <<value, call, effect, result>>

Next ==
  \E u \in Users : Invoke(u) \/ Apply(u) \/ Succeed(u) \/ Fail(u)
                     \/ ApplyLate(u) \/ Forget(u)

Spec == Init /\ [][Next]_vars
=============================================================================
