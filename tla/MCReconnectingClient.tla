----------------------- MODULE MCReconnectingClient -----------------------
(* ReconnectingClient for TLC: one more session id than callers, so that    *)
(* every caller can hold an old client while a new one is dialled; no limit, *)
(* one below the reset of the loop variable, and one at and one above it.    *)
EXTENDS ReconnectingClient

CONSTANTS a1, a2, k0, k1, k2

Callers2 == {a1, a2}
Sessions2 == {k0, k1, k2}
Retries4 == {-1, 1, 2, 3}

\* The liveness property of one caller: the other is like it.
EveryCallReturns == CallReturns(a1)
=============================================================================
