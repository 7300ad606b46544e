---------------------------- MODULE MCTagMonitor ----------------------------
(* TagMonitor for TLC: interchangeable subscriptions in the safety run.    *)
EXTENDS TagMonitor, TLC

CONSTANT s1  \* one of the subscriptions

SubsSymmetry == Permutations(Subs)

\* Liveness properties of one subscription: the other is like it.
StopReturnsAlways      == StopReturns(s1)
CloseReleasesEveryStop == CloseReleasesStop(s1)
=============================================================================
