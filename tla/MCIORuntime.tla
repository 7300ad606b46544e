---------------------------- MODULE MCIORuntime ----------------------------
(* IORuntime for TLC, with the shortest timeout the code can have, 4 * RPI, *)
(* and an RPI of one tick.                                                  *)
EXTENDS IORuntime

CONSTANTS c, b, q

\* A consumer, and a connection that consumes and produces and replaces it
\* under the same id, on one assembly.
SameIdIos   == {c, b}
SameId      == [o \in SameIdIos |-> 1]
ConsumersCB == {c, b}
ProducersB  == {b}

\* A second producer, with an id of its own and without assembly.
ThreeIos    == {c, b, q}
TwoIds      == [o \in ThreeIos |-> IF o = q THEN 2 ELSE 1]
ProducersBQ == {b, q}

UnitRpi    == [o \in Ios |-> 1]
ZeroMult   == [o \in Ios |-> 0]
AssemblyA  == {"a"}
QWithout   == [o \in Ios |-> IF o = q THEN NoAssembly ELSE "a"]
=============================================================================
