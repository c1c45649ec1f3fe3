--------------------------- MODULE DispatchQueue ---------------------------
(***************************************************************************)
(* kk::DispatchQueue (kk-dispatch.cc) with its kk::Chan (kk-chan.cc): a    *)
(* FIFO of DispatchObjects that client threads fill with async() and       *)
(* sync(), and that a 60ms libevent timer empties on the loop thread.      *)
(*                                                                         *)
(* An owned queue starts its own loop thread and owns the event_base; an   *)
(* attached queue hangs its timer on the base of a host that runs the loop *)
(* (KKSurfaceContext.mm, a dispatch source).  libevent is external: what   *)
(* is modelled of it is the one-shot timer (armed), the break flag of a    *)
(* running loop (evbreak) and the loop returning (wpc = "exited").         *)
(*                                                                         *)
(* One client, Owner, calls join() and drops the last reference, when no   *)
(* other client is inside a call: callers hold the queue in a Strong.      *)
(***************************************************************************)
EXTENDS Naturals, Sequences, Functions

CONSTANTS
    Clients,      \* threads that call the queue and do not run its loop
    Owner,        \* the client that joins the queue and drops it
    Loop,         \* the thread that runs the event loop
    Creator,      \* the thread whose id is in _pid
    Attached,     \* TRUE for DispatchQueue(name, base)
    Tasks,        \* the DispatchObjects that may ever be allocated (a bound)
    NoTask

ASSUME ThreadsAssumption ==
    /\ Owner \in Clients
    /\ Loop \notin Clients
    /\ Creator \in Clients \union {Loop}

ASSUME ModeAssumption ==
    /\ Attached \in BOOLEAN
    /\ ~Attached => Creator = Loop     \* pthread_create stores the loop's id

ASSUME NoTaskAssumption == NoTask \notin Tasks

VARIABLES
    \* Chan and the objects in it
    chan,         \* _chan->_queue
    heap,         \* per DispatchObject: "none", "alive" or "freed"
    kind,         \* per DispatchObject: "async", "sync" or "break"
    \* DispatchQueue and libevent
    armed,        \* _event is pending in the base
    loopbreak,    \* _loopbreak
    evbreak,      \* the base's break flag
    joined,       \* _joined
    dropped,      \* ~DispatchQueue has finished
    \* threads
    wpc,          \* where the loop thread is
    cur,          \* the object DispatchQueue::run() holds
    cpc,          \* where each client is
    obj,          \* the object of each client's sync() call
    \* history
    pushed,       \* every object pushed, in order
    started,      \* every object run() has popped, in order
    due           \* how many pushes preceded the break, when run() made it

queueVars  == <<chan, heap, kind, pushed>>
eventVars  == <<armed, loopbreak, evbreak, due>>
ownerVars  == <<joined, dropped>>
loopVars   == <<wpc, cur, started>>
clientVars == <<cpc, obj>>
vars == <<queueVars, eventVars, ownerVars, loopVars, clientVars>>

Kinds == {"async", "sync", "break"}

LoopStates == {"loop", "pop", "func", "join", "release", "rearm", "exited"}

ClientStates ==
    {"idle", "push", "wait", "asleep", "woken", "unlock", "dead",
     "postBreak", "joining", "dropBreak", "dropJoin"}

TypeOK ==
    /\ chan \in Seq(Tasks)
    /\ heap \in [Tasks -> {"none", "alive", "freed"}]
    /\ kind \in [Tasks -> Kinds]
    /\ armed \in BOOLEAN /\ loopbreak \in BOOLEAN /\ evbreak \in BOOLEAN
    /\ joined \in BOOLEAN /\ dropped \in BOOLEAN
    /\ wpc \in LoopStates
    /\ cur \in Tasks \union {NoTask}
    /\ cpc \in [Clients -> ClientStates]
    /\ obj \in [Clients -> Tasks \union {NoTask}]
    /\ pushed \in Seq(Tasks)
    /\ started \in Seq(Tasks)
    /\ due \in Nat

\* Both constructors: the timer is armed before any loop thread can run.
Init ==
    /\ chan = <<>>
    /\ heap = [t \in Tasks |-> "none"]
    /\ kind = [t \in Tasks |-> "async"]
    /\ armed = TRUE
    /\ loopbreak = FALSE /\ evbreak = FALSE
    /\ joined = FALSE /\ dropped = FALSE
    /\ wpc = "loop"
    /\ cur = NoTask
    /\ cpc = [c \in Clients |-> "idle"]
    /\ obj = [c \in Clients |-> NoTask]
    /\ pushed = <<>> /\ started = <<>>
    /\ due = 0

-----------------------------------------------------------------------------
(* The channel and the objects in it.                                      *)

\* new DispatchObject(func, ctx, synced)
New(t, k) ==
    /\ heap[t] = "none"
    /\ heap' = [heap EXCEPT ![t] = "alive"]
    /\ kind' = [kind EXCEPT ![t] = k]

\* Chan::push, one critical section of the channel's mutex
Push(t) ==
    /\ chan' = Append(chan, t)
    /\ pushed' = Append(pushed, t)

\* async(): allocate and push
Post(t, k) == New(t, k) /\ Push(t)

\* Chan::releaseObject: an attached queue's Chan has no release function
ReleaseObject(t) ==
    heap' = IF Attached THEN heap ELSE [heap EXCEPT ![t] = "freed"]

\* ~Chan: every object still queued goes to the release function
DestroyChan ==
    /\ chan' = <<>>
    /\ heap' = [t \in Tasks |->
                   IF ~Attached /\ t \in Range(chan) THEN "freed" ELSE heap[t]]

\* Mutant: join() and wait() without the object's mutex
NoHolders(t) == {}

\* The clients inside DispatchObject::wait() of t that own its mutex
Holders(t) == {c \in Clients : obj[c] = t /\ cpc[c] \in {"push", "wait", "unlock"}}

Goto(c, s) == cpc' = [cpc EXCEPT ![c] = s]

-----------------------------------------------------------------------------
(* Clients: async, sync, loopbreak.                                        *)

\* ~DispatchQueue of an owned queue that was never joined is under way
Dropping == cpc[Owner] \in {"dropBreak", "dropJoin"}

\* A thread that still holds a reference may enter the queue
Calls(c) == cpc[c] = "idle" /\ ~dropped /\ ~Dropping

Async(c) ==
    /\ Calls(c)
    /\ \E t \in Tasks : Post(t, "async")
    /\ UNCHANGED <<eventVars, ownerVars, loopVars, clientVars>>

\* sync() allocates and wait() takes the new object's mutex
SyncLock(c) ==
    /\ Calls(c)
    /\ \E t \in Tasks : New(t, "sync") /\ obj' = [obj EXCEPT ![c] = t]
    /\ Goto(c, "push")
    /\ UNCHANGED <<chan, pushed, eventVars, ownerVars, loopVars>>

SyncPush(c) ==
    /\ cpc[c] = "push"
    /\ Push(obj[c])
    /\ Goto(c, "wait")
    /\ UNCHANGED <<heap, kind, eventVars, ownerVars, loopVars, obj>>

\* pthread_cond_wait releases the mutex and sleeps in one step
SyncSleep(c) ==
    /\ cpc[c] = "wait"
    /\ Goto(c, "asleep")
    /\ UNCHANGED <<queueVars, eventVars, ownerVars, loopVars, obj>>

\* POSIX lets pthread_cond_wait return unprompted, and wait() has no predicate
SpuriousWakeup(c) ==
    /\ cpc[c] = "asleep"
    /\ Goto(c, "woken")
    /\ UNCHANGED <<queueVars, eventVars, ownerVars, loopVars, obj>>

\* Leaving pthread_cond_wait takes the mutex again.  When run() has deleted the
\* object meanwhile that is undefined: the call may go through, or never return.
SyncRelock(c) ==
    /\ cpc[c] = "woken"
    /\ \/ Goto(c, "unlock")
       \/ heap[obj[c]] = "freed" /\ Goto(c, "dead")
    /\ UNCHANGED <<queueVars, eventVars, ownerVars, loopVars, obj>>

SyncReturn(c) ==
    /\ cpc[c] = "unlock"
    /\ Goto(c, "idle")
    /\ obj' = [obj EXCEPT ![c] = NoTask]
    /\ UNCHANGED <<queueVars, eventVars, ownerVars, loopVars>>

\* loopbreak() on a thread other than _pid reads _loopbreak ...
BreakRead(c) ==
    /\ Calls(c) /\ c # Creator
    /\ ~loopbreak
    /\ Goto(c, "postBreak")
    /\ UNCHANGED <<queueVars, eventVars, ownerVars, loopVars, obj>>

\* ... and then posts DispatchQueueBreak, whatever _loopbreak is by now
BreakPost(c) ==
    /\ cpc[c] = "postBreak"
    /\ \E t \in Tasks : Post(t, "break")
    /\ Goto(c, "idle")
    /\ UNCHANGED <<eventVars, ownerVars, loopVars, obj>>

\* loopbreak() on _pid's thread, where that is a client (an attached queue)
BreakNow(c) ==
    /\ Calls(c) /\ c = Creator
    /\ ~loopbreak
    /\ loopbreak' = TRUE
    /\ evbreak' = TRUE
    /\ UNCHANGED <<queueVars, armed, due, ownerVars, loopVars, clientVars>>

-----------------------------------------------------------------------------
(* The owner: join() and ~DispatchQueue.                                   *)

\* Mutant: join() deletes the timer before the loop has seen the break
JoinUnarmsFirst ==
    /\ Calls(Owner)
    /\ ~Attached /\ ~joined
    /\ joined' = TRUE
    /\ armed' = FALSE
    /\ \E t \in Tasks : Post(t, "break")
    /\ Goto(Owner, "joining")
    /\ UNCHANGED <<dropped, loopbreak, evbreak, due, loopVars, obj>>

\* join() on an owned queue: mark it, post the break, wait in pthread_join
Join ==
    /\ Calls(Owner)
    /\ ~Attached /\ ~joined
    /\ joined' = TRUE
    /\ \E t \in Tasks : Post(t, "break")
    /\ Goto(Owner, "joining")
    /\ UNCHANGED <<dropped, eventVars, loopVars, obj>>

\* Mutant: join() does not wait for the thread
JoinReturnEarly ==
    /\ cpc[Owner] = "joining"
    /\ armed' = FALSE
    /\ Goto(Owner, "idle")
    /\ UNCHANGED <<queueVars, loopbreak, evbreak, due, ownerVars, loopVars, obj>>

\* pthread_join returns, and only then evtimer_del
JoinReturn ==
    /\ cpc[Owner] = "joining"
    /\ wpc = "exited"
    /\ armed' = FALSE
    /\ Goto(Owner, "idle")
    /\ UNCHANGED <<queueVars, loopbreak, evbreak, due, ownerVars, loopVars, obj>>

\* The last release(): nobody else is inside a call
Drops ==
    /\ Calls(Owner)
    /\ \A c \in Clients : cpc[c] = "idle"

\* What every path of the destructor ends with: the channel, the event and, for
\* an owned queue, the base are freed
Destroy ==
    /\ dropped' = TRUE
    /\ armed' = FALSE
    /\ DestroyChan

\* ~DispatchQueue on an attached queue (on the host's thread, between two
\* callbacks), or on an owned one that was joined
DropJoined ==
    /\ Drops
    /\ IF Attached THEN wpc \in {"loop", "exited"} ELSE joined
    /\ Destroy
    /\ UNCHANGED <<kind, pushed, loopbreak, evbreak, due, joined, loopVars, clientVars>>

\* ~DispatchQueue on an owned queue nobody joined: evtimer_del comes first.
\* libevent runs without its locks (nothing calls evthread_use_pthreads), so a
\* deletion that meets the loop thread's own evtimer_add may be lost.
DropUnarm ==
    /\ Drops
    /\ ~Attached /\ ~joined
    /\ joined' = TRUE
    /\ armed' \in IF wpc = "rearm" THEN {FALSE, armed} ELSE {FALSE}
    /\ Goto(Owner, "dropBreak")
    /\ UNCHANGED <<queueVars, loopbreak, evbreak, due, dropped, loopVars, obj>>

DropBreak ==
    /\ cpc[Owner] = "dropBreak"
    /\ \E t \in Tasks : Post(t, "break")
    /\ Goto(Owner, "dropJoin")
    /\ UNCHANGED <<eventVars, ownerVars, loopVars, obj>>

\* Mutant: the destructor does not wait for the thread
DropReturnEarly ==
    /\ cpc[Owner] = "dropJoin"
    /\ Destroy
    /\ Goto(Owner, "idle")
    /\ UNCHANGED <<kind, pushed, loopbreak, evbreak, due, joined, loopVars, obj>>

DropReturn ==
    /\ cpc[Owner] = "dropJoin"
    /\ wpc = "exited"
    /\ Destroy
    /\ Goto(Owner, "idle")
    /\ UNCHANGED <<kind, pushed, loopbreak, evbreak, due, joined, loopVars, obj>>

-----------------------------------------------------------------------------
(* The loop thread: libevent's loop, DispatchQueueCB and run().            *)

\* The timer fires: a one-shot event is no longer pending when its callback runs
Tick ==
    /\ wpc = "loop"
    /\ armed /\ ~evbreak
    /\ armed' = FALSE
    /\ wpc' = "pop"
    /\ UNCHANGED <<queueVars, loopbreak, evbreak, due, ownerVars, cur, started, clientVars>>

\* Mutant: the channel is a stack
PopNewest ==
    /\ wpc = "pop"
    /\ chan # <<>>
    /\ cur' = chan[Len(chan)]
    /\ chan' = SubSeq(chan, 1, Len(chan) - 1)
    /\ started' = Append(started, cur')
    /\ wpc' = "func"
    /\ UNCHANGED <<heap, kind, pushed, eventVars, ownerVars, clientVars>>

\* run() pops an object, or leaves its loop on an empty channel
Pop ==
    /\ wpc = "pop"
    /\ chan # <<>>
    /\ cur' = Head(chan)
    /\ chan' = Tail(chan)
    /\ started' = Append(started, Head(chan))
    /\ wpc' = "func"
    /\ UNCHANGED <<heap, kind, pushed, eventVars, ownerVars, clientVars>>

\* Mutant: run() leaves its loop as soon as the queue is broken
PopUntilBroken ==
    /\ wpc = "pop"
    /\ chan = <<>> \/ loopbreak
    /\ wpc' = "rearm"
    /\ UNCHANGED <<queueVars, eventVars, ownerVars, cur, started, clientVars>>

PopEmpty ==
    /\ wpc = "pop"
    /\ chan = <<>>
    /\ wpc' = "rearm"
    /\ UNCHANGED <<queueVars, eventVars, ownerVars, cur, started, clientVars>>

\* Mutant: loopbreak() forgets event_base_loopbreak
LoopBreaksFlagOnly(inRun) ==
    /\ loopbreak' = TRUE
    /\ due' = IF inRun /\ ~loopbreak THEN Len(pushed) ELSE due
    /\ UNCHANGED <<queueVars, evbreak>>

\* Mutant: off _pid's thread loopbreak() does nothing
LoopBreaksHere(inRun) ==
    \/ /\ loopbreak \/ Creator # Loop
       /\ UNCHANGED <<queueVars, loopbreak, evbreak, due>>
    \/ /\ ~loopbreak /\ Creator = Loop
       /\ loopbreak' = TRUE
       /\ evbreak' = TRUE
       /\ due' = IF inRun THEN Len(pushed) ELSE 0
       /\ UNCHANGED queueVars

\* loopbreak() on the loop thread; inRun says whether run() is its caller.  On a
\* loop that is not _pid's thread it posts a break once more.
LoopBreaks(inRun) ==
    \/ /\ loopbreak
       /\ UNCHANGED <<queueVars, loopbreak, evbreak, due>>
    \/ /\ ~loopbreak /\ Creator = Loop
       /\ loopbreak' = TRUE
       /\ evbreak' = TRUE
       /\ due' = IF inRun THEN Len(pushed) ELSE 0
       /\ UNCHANGED queueVars
    \/ /\ ~loopbreak /\ Creator # Loop
       /\ \E t \in Tasks : Post(t, "break")
       /\ UNCHANGED <<loopbreak, evbreak, due>>

\* DispatchQueueBreak is one call of loopbreak()
RunBreak ==
    /\ wpc = "func" /\ kind[cur] = "break"
    /\ LoopBreaks(TRUE)
    /\ wpc' = "join"
    /\ UNCHANGED <<armed, ownerVars, cur, started, clientVars>>

\* A caller's function may post to the queue and break it, and returns
FuncAsync ==
    /\ wpc = "func" /\ kind[cur] # "break"
    /\ \E t \in Tasks : Post(t, "async")
    /\ UNCHANGED <<eventVars, ownerVars, loopVars, clientVars>>

FuncBreak ==
    /\ wpc = "func" /\ kind[cur] # "break"
    /\ LoopBreaks(TRUE)
    /\ UNCHANGED <<armed, ownerVars, loopVars, clientVars>>

\* Mutant: run() deletes the object without join()
FuncReturnUnjoined ==
    /\ wpc = "func" /\ kind[cur] # "break"
    /\ wpc' = "release"
    /\ UNCHANGED <<queueVars, eventVars, ownerVars, cur, started, clientVars>>

FuncReturn ==
    /\ wpc = "func" /\ kind[cur] # "break"
    /\ wpc' = "join"
    /\ UNCHANGED <<queueVars, eventVars, ownerVars, cur, started, clientVars>>

\* Mutant: join() takes and releases the mutex but does not broadcast
JoinObjectSilent ==
    /\ wpc = "join"
    /\ Holders(cur) = {}
    /\ wpc' = "release"
    /\ UNCHANGED <<queueVars, eventVars, ownerVars, cur, started, clientVars>>

\* DispatchObject::join(): take the object's mutex, wake its waiter
JoinObject ==
    /\ wpc = "join"
    /\ Holders(cur) = {}
    /\ cpc' = [c \in Clients |->
                  IF obj[c] = cur /\ cpc[c] = "asleep" THEN "woken" ELSE cpc[c]]
    /\ wpc' = "release"
    /\ UNCHANGED <<queueVars, eventVars, ownerVars, cur, started, obj>>

Release ==
    /\ wpc = "release"
    /\ ReleaseObject(cur)
    /\ cur' = NoTask
    /\ wpc' = "pop"
    /\ UNCHANGED <<chan, kind, pushed, eventVars, ownerVars, started, clientVars>>

\* Mutant: run() leaves the one-shot timer as it is
RearmNever ==
    /\ wpc = "rearm"
    /\ wpc' = "loop"
    /\ UNCHANGED <<queueVars, eventVars, ownerVars, cur, started, clientVars>>

Rearm ==
    /\ wpc = "rearm"
    /\ armed' = (armed \/ ~loopbreak)
    /\ wpc' = "loop"
    /\ UNCHANGED <<queueVars, loopbreak, evbreak, due, ownerVars, cur, started, clientVars>>

\* loopbreak() is public: another callback of the same base calls it.
EventBreak ==
    /\ wpc = "loop" /\ ~evbreak /\ ~dropped
    /\ LoopBreaks(FALSE)
    /\ UNCHANGED <<armed, ownerVars, loopVars, clientVars>>

Exit ==
    /\ wpc = "loop" /\ evbreak
    /\ wpc' = "exited"
    /\ UNCHANGED <<queueVars, eventVars, ownerVars, cur, started, clientVars>>

\* A host polls its base: event_base_loop clears the break flag when entered
HostLoop ==
    /\ Attached
    /\ wpc \in {"loop", "exited"}
    /\ wpc' = "loop"
    /\ evbreak' = FALSE
    /\ UNCHANGED <<queueVars, armed, loopbreak, due, ownerVars, cur, started, clientVars>>

-----------------------------------------------------------------------------
ClientSteps(c) ==
    \/ SyncPush(c) \/ SyncSleep(c) \/ SyncRelock(c) \/ SyncReturn(c)
    \/ BreakPost(c)

OwnerSteps == JoinReturn \/ DropBreak \/ DropReturn

LoopSteps ==
    \/ Tick \/ Pop \/ PopEmpty \/ RunBreak \/ FuncReturn
    \/ JoinObject \/ Release \/ Rearm \/ Exit

Next ==
    \/ \E c \in Clients :
          \/ Async(c) \/ SyncLock(c) \/ SpuriousWakeup(c)
          \/ BreakRead(c) \/ BreakNow(c)
          \/ ClientSteps(c)
    \/ Join \/ DropJoined \/ DropUnarm \/ OwnerSteps
    \/ FuncAsync \/ FuncBreak \/ EventBreak
    \/ LoopSteps \/ HostLoop

Spec == Init /\ [][Next]_vars

\* Threads are scheduled, timers fire, submitted functions return, and a host
\* keeps polling; nobody is obliged to start a call.
Fairness ==
    /\ \A c \in Clients : WF_vars(ClientSteps(c))
    /\ WF_vars(OwnerSteps)
    /\ WF_vars(LoopSteps)
    /\ WF_vars(HostLoop)

FairSpec == Spec /\ Fairness

-----------------------------------------------------------------------------
(* Properties.                                                             *)

\* The queue runs what was pushed in push order, one object at a time, each at
\* most once, and an owned queue whose loop has returned runs nothing more.
Abstract ==
    INSTANCE TaskQueue WITH
        submitted <- pushed,
        begun     <- started,
        running   <- wpc = "func",
        stopped   <- ~Attached /\ wpc = "exited"

Implements == Abstract!Spec

\* The objects somebody is going to touch without having been woken: those in
\* the channel, the one run() holds, and those of the sync() callers up to
\* their sleep.
InUse ==
    Range(chan) \union {cur}
        \union {obj[c] : c \in {d \in Clients : cpc[d] \in {"push", "wait", "asleep"}}}

\* A DispatchObject is never deleted while it is queued, while run() holds it or
\* before its sleeping caller was woken (run() deletes it right after join()).
LiveObjects == \A t \in InUse \ {NoTask} : heap[t] = "alive"

\* A sleeping sync() caller has its wakeup ahead of it: its object is queued or
\* run() has not broadcast yet.  wait() holds the mutex from before the push
\* until it sleeps, so run()'s broadcast cannot fall in between.
WakeupAhead ==
    \A c \in Clients : cpc[c] = "asleep" =>
        \/ obj[c] \in Range(chan)
        \/ obj[c] = cur /\ wpc \in {"func", "join"}

\* While nothing broke the queue its timer is pending or run() is on its way to
\* re-arm it, except under a destructor that never joined.
TimerKept ==
    ~loopbreak /\ ~dropped /\ ~Dropping =>
        armed \/ wpc \notin {"loop", "exited"}

\* A break made from inside run() takes effect after run() has emptied the
\* channel: everything pushed before that break has been started when the loop
\* returns, so join() drains the queue.
BreakDrains == wpc = "exited" => Len(started) >= due

\* When ~DispatchQueue frees the event and the base of an owned queue, the loop
\* that uses them has returned, and every object ever allocated is freed.
CleanEnd ==
    dropped /\ ~Attached =>
        /\ wpc = "exited"
        /\ \A t \in Tasks : heap[t] # "alive"

\* A queue that nobody breaks, or drops without joining, runs everything pushed.
EverythingRuns ==
    \A t \in Tasks :
        t \in Range(pushed) ~> t \in Range(started) \/ loopbreak \/ Dropping \/ dropped

\* join() returns, whoever else breaks the queue meanwhile.
JoinReturns == cpc[Owner] = "joining" ~> cpc[Owner] = "idle"

\* On an attached queue, which never deletes its objects, sync() comes back.
SyncReturns ==
    \A c \in Clients : cpc[c] = "push" ~> cpc[c] = "idle" \/ loopbreak

\* When the loop does not run on _pid's thread, DispatchQueueBreak finds itself
\* on the wrong thread and posts another one: a posted break stays posted, so
\* run() never finds the channel empty again.
BreakPosted == \E t \in (Range(chan) \union {cur}) \ {NoTask} : kind[t] = "break"

ForeignBreakSpins ==
    [][ BreakPosted /\ Creator # Loop /\ ~(loopbreak' \/ dropped') => BreakPosted' ]_vars

\* ~DispatchQueue of a queue nobody joined deletes the timer and then waits for a
\* loop that would have to fire it once more to reach the break.  A destructor
\* that waits on an idle loop stays there until another callback breaks the base.
Hung == cpc[Owner] = "dropJoin" /\ wpc = "loop" /\ ~armed /\ ~evbreak

UnjoinedHangs == [][ Hung => Hung' \/ loopbreak' ]_vars
=============================================================================
