----------------------------- MODULE MCRefCount -----------------------------
(* RefCount on small instances: values for its constants. *)
EXTENDS RefCount, TLC

CONSTANTS th1, th2           \* threads
CONSTANTS o1, o2, o3         \* objects
CONSTANTS s1, s2             \* Strong variables
CONSTANTS w1                 \* a Weak variable

MCThreads == {th1, th2}
MCObjects == {o1, o2, o3}
MCObjects2 == {o1, o2}
MCSlots == {s1, s2}
MCWeaks == {w1}

\* Sound for the run without liveness
MCSymmetry == Permutations(MCThreads) \union Permutations(MCObjects)
              \union Permutations(MCSlots)
=============================================================================
