----------------------------- MODULE SessionSlot -----------------------------
(***************************************************************************)
(* What ReconnectingClient promises about the session it hands out: there  *)
(* is one session or none; a new one is opened only when there is none; a  *)
(* session that is given up is never handed out again before it has been   *)
(* opened anew; and once the client is shut there is none for ever.        *)
(***************************************************************************)
CONSTANTS Sessions, NoSession

VARIABLES
  session,   \* the session every caller is given
  shut       \* Close has been called

vars == <<session, shut>>

Init == session \in Sessions \union {NoSession} /\ shut = FALSE

Open ==
  /\ ~shut /\ session = NoSession
  /\ session' \in Sessions
  /\ UNCHANGED shut

GiveUp ==
  /\ session # NoSession
  /\ session' = NoSession
  /\ UNCHANGED shut

Shut ==
  /\ session' = NoSession
  /\ shut' = TRUE

Next == Open \/ GiveUp \/ Shut
Spec == Init /\ [][Next]_vars
=============================================================================
