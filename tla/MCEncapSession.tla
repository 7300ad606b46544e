--------------------------- MODULE MCEncapSession ---------------------------
(* EncapSession for TLC: two users with a session each, or with one for both. *)
EXTENDS EncapSession, TLC

CONSTANTS u1, u2, s1, s2, v1, v2

OwnSession    == u1 :> s1 @@ u2 :> s2
SharedSession == u1 :> s1 @@ u2 :> s1
\* One user does everything, and sets one value; the other sets the other value.
AllAndSet ==
  u1 :> {o \in Ops : o.val # v2} @@ u2 :> {[kind |-> "set", val |-> v2]}
=============================================================================
