----------------------------- MODULE MCEvTimer -----------------------------
(* EvTimer on a small instance: three addresses, two of which print alike. *)
EXTENDS EvTimer, TLC

CONSTANTS t1, t2, t3, t4     \* Timers
CONSTANTS a1, a2, a3         \* addresses
CONSTANTS k1, k2             \* keys

MCTimers2 == {t1, t2}
MCTimers4 == {t1, t2, t3, t4}
MCAddrs == {a1, a2, a3}
MCKeys == {k1, k2}
MCKeyOf == a1 :> k1 @@ a2 :> k1 @@ a3 :> k2

\* Sound for the run without liveness
MCSymmetry == Permutations(MCTimers4)
=============================================================================
