----------------------------- MODULE TaskQueue -----------------------------
(***************************************************************************)
(* What a dispatch queue promises its callers: every submitted function is *)
(* started at most once, in the order of submission, one at a time, and    *)
(* none is started once the queue has stopped for good.  DispatchQueue     *)
(* implements this specification (the mapping is at its end).              *)
(***************************************************************************)
EXTENDS Naturals, Sequences

CONSTANT Tasks        \* the functions callers may submit

VARIABLES
    submitted,        \* every task accepted so far, in the order of acceptance
    begun,            \* every task started so far, in the order of starting
    running,          \* the last of them has not returned yet
    stopped           \* the queue will start nothing any more

vars == <<submitted, begun, running, stopped>>

Init ==
    /\ submitted = <<>>
    /\ begun = <<>>
    /\ running = FALSE
    /\ stopped = FALSE

\* A caller hands over a task; a stopped queue still accepts it.
Submit(t) ==
    /\ submitted' = Append(submitted, t)
    /\ UNCHANGED <<begun, running, stopped>>

\* The oldest task that has not been started starts, when none is running.
Begin ==
    /\ ~stopped /\ ~running
    /\ Len(begun) < Len(submitted)
    /\ begun' = Append(begun, submitted[Len(begun) + 1])
    /\ running' = TRUE
    /\ UNCHANGED <<submitted, stopped>>

End ==
    /\ running
    /\ running' = FALSE
    /\ UNCHANGED <<submitted, begun, stopped>>

\* A task that submits another one with its last act, in one step.
SubmitAndEnd(t) ==
    /\ running
    /\ running' = FALSE
    /\ submitted' = Append(submitted, t)
    /\ UNCHANGED <<begun, stopped>>

\* The queue stops between two tasks, never in the middle of one.
Stop ==
    /\ ~running
    /\ stopped' = TRUE
    /\ UNCHANGED <<submitted, begun, running>>

Next ==
    \/ \E t \in Tasks : Submit(t) \/ SubmitAndEnd(t)
    \/ Begin \/ End \/ Stop

Spec == Init /\ [][Next]_vars
=============================================================================
