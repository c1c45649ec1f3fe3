---------------------------- MODULE MCWebWorker ----------------------------
(* WebWorker on a small instance. *)
EXTENDS WebWorker

CONSTANTS p1, p2         \* messages to the worker
CONSTANTS r1, r2         \* messages to the main side

MCPosts == {p1, p2}
MCReplies == {r1, r2}
=============================================================================
