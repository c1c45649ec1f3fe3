----------------------------- MODULE WebWorker -----------------------------
(***************************************************************************)
(* A script's WebWorker (kk-wk.cc): a thread with a queue and a script      *)
(* context of its own, and two streams of messages.                        *)
(*                                                                         *)
(* The main side is the thread that runs the creating script and that      *)
(* script's dispatch queue; the worker side is the thread of _queue.  Both *)
(* queues are used as DispatchQueue describes them: first in, first out, a *)
(* break takes effect when the channel has been drained.                   *)
(*                                                                         *)
(* The script wrapper holds the one reference to the WebWorker.  When it is *)
(* finalized the WebWorker is queued for deletion, and whichever thread    *)
(* unlocks next runs ~WebWorker (RefCount): the main side's own release, a *)
(* third thread, or the worker's thread itself.  Messages carry a weak     *)
(* pointer, which ~Object clears last.                                     *)
(*                                                                         *)
(* A message is for the onmessage of the other side's script, a property    *)
(* that script sets, replaces and removes; where it is no function when the *)
(* message arrives, the message is discarded.                              *)
(***************************************************************************)
EXTENDS Naturals, Sequences

CONSTANTS
    Posts,         \* messages the main side may post (a bound)
    Replies,       \* messages the worker may post (a bound)
    Open, Break,   \* the first item of _queue, and DispatchQueueBreak
    MaxBreaks      \* how often terminate() may post a break

ASSUME ItemAssumption == Open # Break /\ Open \notin Posts /\ Break \notin Posts
ASSUME BreaksAssumption == MaxBreaks \in Nat

VARIABLES
    \* the main side
    mpc,           \* in its loop, in onmessage, in a function that discards its
                   \* message, in release(), in or past recycle
    breaking,      \* inside terminate(): _loopbreak read, break not yet posted
    mchan,         \* replies in the main queue
    mainq,         \* the main queue: "live", "dying" or "gone" (_main is nil)
    wrapper,       \* the script object: "none", "live" or "finalized"
    \* the WebWorker
    life,          \* "none", "live", "queued", "dying" or "freed" (weaks are nil)
    dpc,           \* where ~WebWorker is
    destroyer,     \* the thread that runs it
    \* the worker side
    wpc,           \* between two functions, in a script, in its postMessage, in a
                   \* function that discards its message, exited, or undefined
    wchan,         \* what is in _queue's channel
    loopbreak,     \* _queue->_loopbreak
    \* both sides
    listening,     \* those whose script has set onmessage to a function
    \* history
    posted, taken, \* what each side posted and what arrived at the other
    replied, heard,
    breaks,        \* breaks posted by terminate()
    due,           \* what was posted before the first break
    early,         \* the main queue went while the wrapper was alive
    faults         \* which freed things were used

mainVars == <<mpc, breaking, mchan, mainq, wrapper>>
lifeVars == <<life, dpc, destroyer>>
workVars == <<wpc, wchan, loopbreak>>
history  == <<posted, taken, replied, heard, breaks, due, early, faults>>
vars == <<mainVars, lifeVars, workVars, history, listening>>

Sides == {"main", "worker"}

Threads == {"main", "worker", "other"}
Tasks == Posts \union {Open}
Faults == {"heapptr", "selfjoin", "queue"}

TypeOK ==
    /\ mpc \in {"loop", "fn", "discard", "release", "recycle", "recycled"}
    /\ breaking \in BOOLEAN
    /\ mchan \in Seq(Replies)
    /\ mainq \in {"live", "dying", "gone"}
    /\ wrapper \in {"none", "live", "finalized"}
    /\ life \in {"none", "live", "queued", "dying", "freed"}
    /\ dpc \in {"none", "join", "wait", "members", "base", "done"}
    /\ destroyer \in Threads \union {"none"}
    /\ wpc \in {"none", "idle", "script", "posting", "discard", "exited", "undefined"}
    /\ wchan \in Seq(Tasks \union {Break})
    /\ loopbreak \in BOOLEAN
    /\ listening \subseteq Sides
    /\ posted \in Seq(Tasks) /\ taken \in Seq(Tasks)
    /\ replied \in Seq(Replies) /\ heard \in Seq(Replies)
    /\ breaks \in 0 .. MaxBreaks
    /\ due \in Nat
    /\ early \in BOOLEAN
    /\ faults \subseteq Faults

Init ==
    /\ mpc = "loop" /\ breaking = FALSE /\ mchan = <<>> /\ mainq = "live" /\ wrapper = "none"
    /\ life = "none" /\ dpc = "none" /\ destroyer = "none"
    /\ wpc = "none" /\ wchan = <<>> /\ loopbreak = FALSE
    /\ posted = <<>> /\ taken = <<>> /\ replied = <<>> /\ heard = <<>>
    /\ breaks = 0 /\ due = 0 /\ early = FALSE /\ faults = {}
    /\ listening = {}

-----------------------------------------------------------------------------
(* The main side.                                                          *)

\* Code of the main script runs, in onmessage or in any other callback
MainScript == mpc \in {"loop", "fn"} /\ ~breaking

\* Mutant: a stack
EnqueueFirst(x) == wchan' = <<x>> \o wchan

\* DispatchQueue::async on _queue
Enqueue(x) == wchan' = Append(wchan, x)

\* A break is posted; what came before the first one is due.
PostBreak ==
    /\ Enqueue(Break)
    /\ due' = IF breaks = 0 /\ dpc \in {"none", "join"} THEN Len(posted) ELSE due

\* WebWorkerAlloc: the queue and its thread, the context, the wrapper, and open().
\* Nothing of the worker's runs before the item that open() posts.  The script may
\* set the wrapper's onmessage before it returns.
Alloc ==
    /\ MainScript /\ mainq = "live" /\ life = "none"
    /\ life' = "live" /\ wrapper' = "live" /\ wpc' = "idle"
    /\ Enqueue(Open) /\ posted' = Append(posted, Open)
    /\ listening' \in SUBSET {"main"}
    /\ UNCHANGED <<mpc, breaking, mchan, mainq, dpc, destroyer, loopbreak, taken, replied,
                   heard, breaks, due, early, faults>>

\* Mutant: messages are lost until the worker's script has been opened
PostUnopened(m) ==
    /\ MainScript /\ wrapper = "live"
    /\ m \notin {posted[i] : i \in 1 .. Len(posted)}
    /\ posted' = Append(posted, m)
    /\ IF taken = <<>> THEN UNCHANGED wchan ELSE Enqueue(m)
    /\ UNCHANGED <<mainVars, lifeVars, wpc, loopbreak, taken, replied, heard, breaks, due,
                   early, faults, listening>>

\* worker.postMessage(m)
Post(m) ==
    /\ MainScript /\ wrapper = "live"
    /\ m \notin {posted[i] : i \in 1 .. Len(posted)}
    /\ Enqueue(m) /\ posted' = Append(posted, m)
    /\ UNCHANGED <<mainVars, lifeVars, wpc, loopbreak, taken, replied, heard, breaks, due,
                   early, faults, listening>>

\* worker.terminate(): loopbreak() from a thread that is not _queue's reads the flag,
\* then posts the break.
Terminate ==
    /\ MainScript /\ wrapper = "live" /\ ~loopbreak /\ breaks < MaxBreaks
    /\ breaking' = TRUE
    /\ UNCHANGED <<mpc, mchan, mainq, wrapper, lifeVars, workVars, history, listening>>

TerminatePost ==
    /\ breaking
    /\ breaking' = FALSE
    /\ PostBreak /\ breaks' = breaks + 1
    /\ UNCHANGED <<mpc, mchan, mainq, wrapper, lifeVars, wpc, loopbreak, posted, taken,
                   replied, heard, early, faults, listening>>

\* Mutant: the weak pointer is not tested
HearUntested ==
    /\ mpc = "loop" /\ ~breaking /\ mainq = "live" /\ mchan # <<>>
    /\ mchan' = Tail(mchan)
    /\ IF wrapper = "live"
       THEN mpc' = "fn" /\ heard' = Append(heard, Head(mchan)) /\ UNCHANGED faults
       ELSE faults' = faults \union {"heapptr"} /\ UNCHANGED <<mpc, heard>>
    /\ UNCHANGED <<breaking, mainq, wrapper, lifeVars, workVars, posted, taken, replied,
                   breaks, due, early, listening>>

\* The main queue runs WebWorkerPostMessageDispatchFunc.  When the weak pointer is
\* still there, onmessage of the wrapper is looked up through _heapptr and called if
\* it is a function.
Hear ==
    /\ mpc = "loop" /\ ~breaking /\ mainq = "live" /\ mchan # <<>>
    /\ mchan' = Tail(mchan)
    /\ IF life # "freed" /\ wrapper = "live"
       THEN /\ mpc' = IF "main" \in listening THEN "fn" ELSE "discard"
            /\ heard' = Append(heard, Head(mchan)) /\ UNCHANGED faults
       ELSE /\ faults' = IF life = "freed" THEN faults ELSE faults \union {"heapptr"}
            /\ UNCHANGED <<mpc, heard>>
    /\ UNCHANGED <<breaking, mainq, wrapper, lifeVars, workVars, posted, taken, replied,
                   breaks, due, early, listening>>

HearReturn ==
    /\ mpc \in {"fn", "discard"} /\ ~breaking
    /\ mpc' = "loop"
    /\ UNCHANGED <<breaking, mchan, mainq, wrapper, lifeVars, workVars, history, listening>>

\* KKSurfaceContext -recycle: the main queue is deleted (its channel first, then
\* ~Object clears _main), after that the script context.
Recycle ==
    /\ mpc = "loop" /\ ~breaking /\ mainq = "live"
    /\ mpc' = "recycle" /\ mainq' = "dying" /\ mchan' = <<>>
    /\ early' = (wrapper = "live")
    /\ UNCHANGED <<breaking, wrapper, lifeVars, workVars, posted, taken, replied, heard,
                   breaks, due, faults, listening>>

RecycleUnlink ==
    /\ mpc = "recycle" /\ mainq = "dying"
    /\ mainq' = "gone"
    /\ UNCHANGED <<mpc, breaking, mchan, wrapper, lifeVars, workVars, history, listening>>

\* The wrapper's finalizer: release() queues the WebWorker.  Either the script
\* dropped the wrapper, or its heap is destroyed.
Finalize ==
    /\ ~breaking
    /\ mpc = "loop" \/ (mpc = "recycle" /\ mainq = "gone")
    /\ wrapper = "live"
    /\ wrapper' = "finalized" /\ life' = "queued" /\ mpc' = "release"
    /\ UNCHANGED <<breaking, mchan, mainq, dpc, destroyer, workVars, history, listening>>

\* release() has returned: nothing is left that this thread took.
ReleaseReturn ==
    /\ mpc = "release" /\ life # "queued"
    /\ destroyer = "main" => dpc = "done"
    /\ mpc' = IF mainq = "live" THEN "loop" ELSE "recycled"
    /\ UNCHANGED <<breaking, mchan, mainq, wrapper, lifeVars, workVars, history, listening>>

-----------------------------------------------------------------------------
(* ~WebWorker                                                              *)

\* The drain of this thread's unlock() finds the WebWorker.
Take(d) ==
    /\ life = "queued"
    /\ life' = "dying" /\ dpc' = "join" /\ destroyer' = d
    /\ UNCHANGED <<mainVars, workVars, history, listening>>

\* The worker's own thread finds it.  It would have to join itself, and it deletes
\* the queue, the base and the context it is running on: undefined.
TakeSelf ==
    /\ life = "queued" /\ wpc \in {"idle", "script", "posting"}
    /\ life' = "dying" /\ destroyer' = "worker"
    /\ wpc' = "undefined"
    /\ faults' = faults \union {"selfjoin"}
    /\ UNCHANGED <<mainVars, dpc, wchan, loopbreak, posted, taken, replied, heard, breaks,
                   due, early, listening>>

\* Mutant: the destructor waits without breaking the queue
JoinSilent ==
    /\ dpc = "join"
    /\ dpc' = "wait"
    /\ UNCHANGED <<mainVars, life, destroyer, workVars, history, listening>>

\* _queue->join(): post a break and wait
JoinPost ==
    /\ dpc = "join"
    /\ dpc' = "wait"
    /\ PostBreak
    /\ UNCHANGED <<mainVars, life, destroyer, wpc, loopbreak, posted, taken, replied, heard,
                   breaks, early, faults, listening>>

\* Mutant: the destructor does not wait for the thread
JoinNothing ==
    /\ dpc = "wait"
    /\ dpc' = "members"
    /\ UNCHANGED <<mainVars, life, destroyer, workVars, history, listening>>

JoinReturn ==
    /\ dpc = "wait" /\ wpc = "exited"
    /\ dpc' = "members"
    /\ UNCHANGED <<mainVars, life, destroyer, workVars, history, listening>>

\* The worker's context, its dns base and its queue go.
FreeMembers ==
    /\ dpc = "members"
    /\ dpc' = "base"
    /\ wchan' = <<>>
    /\ UNCHANGED <<mainVars, life, destroyer, wpc, loopbreak, history, listening>>

\* ~Object: the weak pointers are cleared, then the memory goes.
Unlink ==
    /\ dpc = "base"
    /\ dpc' = "done" /\ life' = "freed"
    /\ UNCHANGED <<mainVars, destroyer, workVars, history, listening>>

Destroy == JoinPost \/ JoinReturn \/ FreeMembers \/ Unlink

-----------------------------------------------------------------------------
(* The worker side.                                                        *)

\* run() pops DispatchQueueBreak: loopbreak() on _queue's own thread
WorkBreak ==
    /\ wpc = "idle" /\ wchan # <<>> /\ Head(wchan) = Break
    /\ wchan' = Tail(wchan)
    /\ loopbreak' = TRUE
    /\ UNCHANGED <<mainVars, lifeVars, wpc, history, listening>>

\* Mutant: the weak pointers go with the wrapper
WorkWrapped ==
    /\ wpc = "idle" /\ wchan # <<>> /\ Head(wchan) # Break
    /\ wchan' = Tail(wchan)
    /\ IF wrapper = "live"
       THEN wpc' = "script" /\ taken' = Append(taken, Head(wchan))
       ELSE UNCHANGED <<wpc, taken>>
    /\ UNCHANGED <<mainVars, lifeVars, loopbreak, posted, replied, heard, breaks, due, early,
                   faults, listening>>

\* WebWorkerOpenFunc or WebWorkerPostMessageFunc, when the weak pointer is still there:
\* the first runs the worker's script, the second calls its onmessage if that is a
\* function.
Work ==
    /\ wpc = "idle" /\ wchan # <<>> /\ Head(wchan) # Break
    /\ wchan' = Tail(wchan)
    /\ IF life # "freed"
       THEN /\ wpc' = IF Head(wchan) = Open \/ "worker" \in listening
                      THEN "script" ELSE "discard"
            /\ taken' = Append(taken, Head(wchan))
       ELSE UNCHANGED <<wpc, taken>>
    /\ UNCHANGED <<mainVars, lifeVars, loopbreak, posted, replied, heard, breaks, due, early,
                   faults, listening>>

NewReplies == Replies \ {replied[i] : i \in 1 .. Len(replied)}

\* postMessage in the worker's script: v->main() reads _main without a lock ...
Reply ==
    /\ wpc = "script" /\ mainq # "gone" /\ NewReplies # {}
    /\ wpc' = "posting"
    /\ UNCHANGED <<mainVars, lifeVars, wchan, loopbreak, history, listening>>

\* ... and async() uses it.
ReplyPost ==
    /\ wpc = "posting"
    /\ wpc' = "script"
    /\ \E r \in NewReplies :
          IF mainq = "live"
          THEN mchan' = Append(mchan, r) /\ replied' = Append(replied, r) /\ UNCHANGED faults
          ELSE faults' = faults \union {"queue"} /\ UNCHANGED <<mchan, replied>>
    /\ UNCHANGED <<mpc, breaking, mainq, wrapper, lifeVars, wchan, loopbreak, posted, taken,
                   heard, breaks, due, early, listening>>

WorkReturn ==
    /\ wpc \in {"script", "discard"}
    /\ wpc' = "idle"
    /\ UNCHANGED <<mainVars, lifeVars, wchan, loopbreak, history, listening>>

\* run() finds its channel empty after a break; the loop and the thread end.
Exit ==
    /\ wpc = "idle" /\ wchan = <<>> /\ loopbreak
    /\ wpc' = "exited"
    /\ UNCHANGED <<mainVars, lifeVars, wchan, loopbreak, history, listening>>

-----------------------------------------------------------------------------
(* onmessage, on either side.                                              *)

\* Code of this side's script runs: a function of the stream or, between two of them,
\* the callback of a timer or of something else.
ScriptRuns(side) ==
    IF side = "main" THEN MainScript /\ wrapper = "live"
                     ELSE (wpc \in {"idle", "script"}) /\ taken # <<>>

\* onmessage = function ...
Listen(side) ==
    /\ ScriptRuns(side) /\ side \notin listening
    /\ listening' = listening \union {side}
    /\ UNCHANGED <<mainVars, lifeVars, workVars, history>>

\* onmessage = undefined, or anything that is no function
Unlisten(side) ==
    /\ ScriptRuns(side) /\ side \in listening
    /\ listening' = listening \ {side}
    /\ UNCHANGED <<mainVars, lifeVars, workVars, history>>

-----------------------------------------------------------------------------
MainSteps == TerminatePost \/ Hear \/ HearReturn \/ RecycleUnlink \/ ReleaseReturn
WorkSteps == WorkBreak \/ Work \/ ReplyPost \/ WorkReturn \/ Exit

Next ==
    \/ Alloc \/ Terminate \/ Recycle \/ Finalize
    \/ \E m \in Posts : Post(m)
    \/ MainSteps
    \/ Take("main") \/ Take("other") \/ TakeSelf \/ Destroy
    \/ WorkSteps \/ Reply
    \/ \E side \in Sides : Listen(side) \/ Unlisten(side)

Spec == Init /\ [][Next]_vars

\* Threads are scheduled and script functions return; the drain that follows a
\* release finds what the release queued.
FairSpec ==
    /\ Spec
    /\ WF_vars(MainSteps) /\ WF_vars(WorkSteps)
    /\ WF_vars(Take("main")) /\ WF_vars(Destroy)

-----------------------------------------------------------------------------
(* Properties.                                                             *)

ToWorker == INSTANCE TaskQueue WITH
    submitted <- posted, begun <- taken,
    running <- wpc \in {"script", "posting", "discard"}, stopped <- wpc = "exited"

ToMain == INSTANCE TaskQueue WITH
    Tasks <- Replies, submitted <- replied, begun <- heard,
    running <- mpc \in {"fn", "discard"}, stopped <- wrapper = "finalized" \/ mainq # "live"

\* In both directions each message arrives at the other side at most once, in the
\* order of posting, and one at a time, so that what onmessage is called with keeps
\* that order; at the main side none arrives once the wrapper is finalized or the main
\* queue deleted.
TwoStreams == ToWorker!Spec /\ ToMain!Spec

\* terminate() and the destructor do not cut the stream off: every message posted
\* before the first of them has arrived at the worker's onmessage when its thread ends.
TakenBeforeBreak == wpc = "exited" => Len(taken) >= due

\* The worker's context, dns base and queue are freed after its thread has ended.
ThreadEndsFirst == dpc \in {"members", "base", "done"} => wpc = "exited"

\* A message finds a finalized wrapper, or the worker joins itself, only if another
\* thread's drain took the WebWorker out of the main side's hands; the worker uses
\* a deleted main queue only then, or when that queue was deleted under a live
\* worker, as recycle does.
FaultsExplained ==
    /\ faults \intersect {"heapptr", "selfjoin"} # {} => destroyer # "main"
    /\ "queue" \in faults => early \/ destroyer # "main"

\* Finalizing the wrapper ends the thread and frees the WebWorker: the two sides
\* never wait for each other.
DestructionEnds == wrapper = "finalized" ~> life = "freed" \/ wpc = "undefined"

\* A message is discarded only on a side whose script has been run and has set no
\* onmessage: one that comes before the worker's script has been run waits for it.
DiscardsExplained ==
    /\ wpc = "discard" => /\ "worker" \notin listening
                          /\ Len(taken) > 1 /\ taken[1] = Open
    /\ mpc = "discard" => "main" \notin listening

\* Every message arrives at the other side, unless the worker's queue was broken, or
\* the wrapper or the main queue is gone; there onmessage is called with it, unless
\* the script of that side, which has been run by then, has no onmessage set.
Delivered ==
    /\ []DiscardsExplained
    /\ \A m \in Posts :
          (\E i \in 1 .. Len(posted) : posted[i] = m) ~>
              \/ \E i \in 1 .. Len(taken) : taken[i] = m
              \/ loopbreak \/ wpc = "undefined"
    /\ \A r \in Replies :
          (\E i \in 1 .. Len(replied) : replied[i] = r) ~>
              \/ \E i \in 1 .. Len(heard) : heard[i] = r
              \/ wrapper = "finalized" \/ mainq # "live"
=============================================================================
