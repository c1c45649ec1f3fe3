------------------------------- MODULE MCHttp -------------------------------
(* HttpTask on a small instance: three functions, of which two print alike. *)
EXTENDS HttpTask, TLC

CONSTANTS t1, t2, f1, f2, f3, k1, k2

MCTasks == {t1, t2}
MCFns == {f1, f2, f3}
MCJson == {t1}
MCKeys == {k1, k2}
MCKeyOf == f1 :> k1 @@ f2 :> k1 @@ f3 :> k2
=============================================================================
