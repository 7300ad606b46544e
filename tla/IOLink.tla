------------------------------- MODULE IOLink -------------------------------
(***************************************************************************)
(* What implicit messaging promises the application that consumes: as long *)
(* as the producer has been producing since the connection was added, the  *)
(* connection is not timed out. The application may remove it at any time. *)
(***************************************************************************)
VARIABLES
  producing,  \* the producer sends
  link,       \* "down", "up" or "timedOut"
  steady      \* it has been sending ever since the link came up

vars == <<producing, link, steady>>

Init == producing = FALSE /\ link = "down" /\ steady = FALSE

Start  == producing' = TRUE /\ UNCHANGED <<link, steady>>
Stop   == producing' = FALSE /\ steady' = FALSE /\ UNCHANGED link
Add    == link' = "up" /\ steady' = producing /\ UNCHANGED producing
Remove == link' = "down" /\ UNCHANGED <<producing, steady>>
Expire == link = "up" /\ ~steady /\ link' = "timedOut" /\ UNCHANGED <<producing, steady>>

Next == Start \/ Stop \/ Add \/ Remove \/ Expire
Spec == Init /\ [][Next]_vars
=============================================================================
