----------------------------- MODULE MCDispatch -----------------------------
(* DispatchQueue on small instances: values for its constants. *)
EXTENDS DispatchQueue, TLC

CONSTANTS o, c, w          \* the owner, another client, the loop thread
CONSTANTS t1, t2, t3, t4   \* DispatchObjects

MCClients == {o, c}
MCTasks3 == {t1, t2, t3}
MCTasks4 == {t1, t2, t3, t4}

\* Objects differ only by their history: sound for the runs without liveness
MCSymmetry == Permutations(MCTasks4)
=============================================================================
