# kk-surface in TLA+

kk-surface is a small runtime for scripted surfaces: reference-counted objects, a
libevent loop per thread with a dispatch queue on it, a duktape context per loop, and
the services scripts use there (timers, workers, HTTP, WebSocket). The repository has no
tests and almost no comments; everything below is read from the source.

Paths are relative to `src/` of the repository; the sources proper are in its `src/src`,
`src/include` and `src/KKSurface/KKSurface`.

## 1. The system

### Components

| Component | State | Operations | What makes it correct |
|---|---|---|---|
| Object, Ref, Strong, Weak (`kk-object.cc`) | `_retainCount`, `_weakObjects` per object; one pointer per reference | retain, release, weak, unWeak, `Strong::set`, `Weak::set`, destructors | the count is the number of references; no object with a reference is deleted; a Weak is cleared before its object's memory goes |
| MutexAtomic (`kk-atomic-pthread.cc`) | one global mutex, a queue of objects to delete | lock, unlock (drains the queue), addObject | each queued object is deleted once, and none is left behind |
| Chan (`kk-chan.cc`) | a FIFO behind a mutex, a release function | push, pop, releaseObject, destructor | first in, first out; what is still queued is released |
| DispatchQueue, DispatchObject (`kk-dispatch.cc`) | channel, one-shot timer, break flags, thread | async, sync, loopbreak, join, destructor; on the loop: run() | order, at most once, no lost wakeup, the timer never forgotten, join drains, nothing freed under the loop |
| Block, BlockContext (`kk-block.cc`) | named values: strong, weak, copy or pointer | constructors, destructors, get | carries a reference from thread to thread |
| ev timers (`kk-ev.cc`) | a Timer, its event, its script object under a global key | setTimeout, setInterval, clear, callback, finalizer | a cleared timer does not fire; a Timer is not used after its finalizer |
| WebWorker (`kk-wk.cc`) | a queue and thread, a script context, a weak link in each message | alloc, open, postMessage both ways, terminate, destructor | messages in order, each at most once; no callback on a dead worker; destruction waits for the thread |
| Http, HttpTask (`kk-http.cc`) | map of tasks, request and connection per task | send, load, fail, cancel, destructor | a request is answered once; the references of a task are its wrapper, its registration and its flight |
| WebSocket (`kk-ws.cc`) | state, bufferevent, DNS request, read buffers | open, send, close, event and DNS callbacks, parser | no callback after close; frames delivered whole and in order |
| Binary (`kk-binary.cc`) | a list of typed values in one buffer | BinaryAlloc, PushContext, Add, Dealloc | what is rebuilt equals what was sent |
| script Context, Object (`kk-script.cc`) | duktape context, pins of script objects by key | PushObject, Get, constructors, destructors | a pinned object stays until its last pin is gone |
| KKSurfaceContext (`.mm`) | queue, base, dns, script context | init, openlibs, run, recycle | every part is torn down after its users |
| Canvas and GL elements (`.mm`, `.m`) | view, `_context`, what is on the main queue | view life cycle, blocks, drawing | a block finds its own context; a display request is not lost, nor shown for another context |
| Crypto, String, `js/require.js` | none, or a module cache | pure functions | plain unit tests reach them |
| `lib/` (libevent, duktape, KKView) | – | – | vendored |

### How they interact

* Every other component is a kk::Object held by Strongs. A release to zero queues the
  object in MutexAtomic, and the next `unlock()`, by any thread and for any object,
  runs its destructor. Destructors call release again, so the drain nests.
* A DispatchQueue owns a Chan. Clients push DispatchObjects; the 60 ms timer on the loop
  thread pops and runs them. An *owned* queue starts the loop thread and owns the
  `event_base`. An *attached* queue uses a base that a host polls (KKSurfaceContext,
  from a GCD dispatch source).
* A WebWorker is an owned queue plus a script context. Its messages are async() calls on
  the two queues, carrying a Binary and a weak or raw pointer in a BlockContext.
* ev timers, HttpTask and WebSocket are libevent callbacks on the loop thread. They call
  script functions, which may call back into them.
* libevent's locks are never installed (nothing calls `evthread_use_pthreads`), so any
  use of a base from a second thread races with its loop.

### What is hard

`PROJECT.json` lists the hazards line by line. The main groups are: wakeups and breaks
that race with run() (`kk-dispatch.cc`), destruction on whichever thread drains
(`kk-atomic-pthread.cc:52`), weak pointers read without a lock (`kk-object.cc:92`),
callbacks that destroy what their caller still uses (`kk-ev.cc:83`, `kk-http.cc:193`,
`kk-ws.cc:227`), bytes grouped at will (`kk-ws.cc:280`), tear-down order
(`KKSurfaceContext.mm:91`), and blocks that outlive what they were posted for
(`KKSurfaceElement.mm:20`, `79`).

## 2. Plan

Most important behaviour first. Every component hangs on the first two.

| Step | Module | Composes | Properties and theorems | State |
|---|---|---|---|---|
| A | `TaskQueue`, `DispatchQueue` | Chan, DispatchObject, libevent's timer | order, wakeup, drain, join, destructor; refinement | done; every safety property proved |
| B | `RefCount` | Object, Strong, Weak, MutexAtomic | exact counts, single deletion, weak clearing, who can meet freed memory | done; every safety property proved |
| C | `WebWorker` | two task queues, weak link, terminate, ~WebWorker | two TaskQueues; who can use what is freed; no deadlock in the join | done for one level of workers; every safety property proved |
| D | `EvTimer` | one-shot timer, global key, finalizer | clear against callback; id reuse | done; every safety property proved |
| E | `HttpTask` | registry, callbacks, cancel, the pins of script functions | references balanced, answered once, who can use what is gone | done; every safety property proved |
| F | `WebSocket` | DNS, connect, close, parser | whole messages in order; callbacks after close | done; every safety property proved |
| G | `Binary` | – | round trip against a reference definition over bounded values | checked |
| H | `Surface` | element, canvas, KKSurfaceContext, main queue | blocks meet their own context; tear-down; no stale image | done; every safety property proved |

Beside the safety properties, steps A, B and C prove what stands behind the liveness properties:
that nothing waits for something that can no longer come, and that what is to happen is never lost
(the *safety halves* of sections 3, 4 and 6). What is left for proofs is `RoundTrip` of G, which
is an induction over data; it and liveness stay with TLC (section 11).

## 3. DispatchQueue

`TaskQueue.tla` is the promise: tasks start in the order of submission, at most once,
one at a time, none after the queue stopped. `DispatchQueue.tla` is the code.

### State

| Variable | In the code |
|---|---|
| `chan` | `_chan->_queue` |
| `heap`, `kind` | each DispatchObject: not allocated, alive or freed; made by async, by sync, or a DispatchQueueBreak |
| `armed` | `_event` is pending in the base (libevent) |
| `loopbreak`, `evbreak` | `_loopbreak`; the base's break flag (libevent) |
| `joined`, `dropped` | `_joined`; the destructor has finished |
| `wpc`, `cur` | where the loop thread is in DispatchQueueCB/run(), and the object it holds |
| `cpc`, `obj` | where each client thread is in sync(), loopbreak(), join() or the destructor, and its sync object |
| `pushed`, `started`, `due` | history, for the properties only |

### Steps

A step is what runs between two points at which another thread can interfere.

* **sync** (lines 43-50, 210-213) is `SyncLock` (allocate, take the object's mutex),
  `SyncPush`, `SyncSleep` (cond_wait unlocks and sleeps at once), then `JoinObject` or
  `SpuriousWakeup`, `SyncRelock`, `SyncReturn`. run()'s `join()` needs the mutex, hence
  the guard `Holders(cur) = {}`. After its broadcast run() may delete the object while
  the caller is still leaving the wait: undefined, so `SyncRelock` may also never return
  (`"dead"`).
* **loopbreak** (190-199) reads the flag, and posts in a later step when it is on another
  thread (`BreakRead`, `BreakPost`). On `_pid`'s thread it is one step (`BreakNow` for a
  host's client, `LoopBreaks` for the loop thread).
* **join** is `Join`, `JoinReturn`. **~DispatchQueue** is `DropJoined`, or, for an owned
  queue nobody joined, `DropUnarm`, `DropBreak`, `DropReturn`.
* **run()** is `Tick`, then rounds of `Pop`, the function (`FuncAsync`, `FuncBreak`,
  `FuncReturn`, or `RunBreak` for a DispatchQueueBreak), `JoinObject`, `Release`; on an
  empty channel `PopEmpty` and `Rearm`.
* **libevent** is external. Modelled are its one-shot timer, the break flag, the loop
  returning (`Exit`) and being polled again by a host (`HostLoop`). `EventBreak` is
  another callback on the same base that calls the public `loopbreak()`.

### What the caller is assumed to do

A thread enters the queue only while it holds a reference, so the last reference is
dropped when no client is inside a call; one client (`Owner`) joins and drops. An
attached queue is dropped on its host's thread, between two callbacks. No function
run by the queue calls sync() on its own queue. These are what the repository's callers
do; where they do not (a worker destroyed on its own thread) see WebWorker, section 6.

### Runs

| Run | Instance | Shows |
|---|---|---|
| `dispatch_owned` | owned queue, two clients, three objects, fairness; 369,000 states | the safety properties of an owned queue, `Implements`, `JoinReturns` and `UnjoinedHangs` |
| `dispatch_attached` | attached queue on its creator's thread, three objects, fairness; 384,000 states | pushed objects run, sync comes back (objects are never deleted there) |
| `dispatch_foreign` | attached queue whose loop is not on `_pid`'s thread, four objects | a posted break posts itself again for ever (`ForeignBreakSpins`) |

Bounds. `Tasks` bounds the DispatchObjects ever allocated. Three are enough for one
sync, one async and one break in any order, for two breaks by two threads, and for an
object pushed behind the break by a running function; four let the self-posting break go
round three times. Two clients give the owner a competitor. A step that allocates is
disabled when the objects are used up, and the code has no such stop. That is why
deadlock checking is off, together with states where the system really ends: the
queue dropped, or everybody asleep on a broken queue.

With fairness and this bound a starved `LoopSteps` cannot hide behind an endless stream
of pushes; that the drain can go on for ever (hazard at `kk-dispatch.cc:104`) is
outside the run.

Fairness: weak fairness of each client inside a call, of the owner inside join or the
destructor, of the loop thread and of the host's polling. Threads are scheduled, the timer
fires, submitted functions return (`FuncReturn` is a loop step). Nothing obliges anybody
to start a call, nor a spurious wakeup to happen.

### Properties

`LiveObjects` and `WakeupAhead` are the two halves of sync: the object outlives its
sleeper, and no sleeper misses its broadcast. `TimerKept` is the invariant behind every
liveness claim: the one-shot timer is pending, or run() is on its way to re-arm it.
`BreakDrains` says why join() drains: `event_base_loopbreak` takes effect only when
run() has emptied the channel. `CleanEnd` is the destructor's obligation: loop returned,
heap clean. `EverythingRuns`, `JoinReturns` and `SyncReturns` are the liveness
counterparts. An owned queue, which deletes its objects,
has only the safety half, `WakeupAhead`.

What the code does *not* give, and the properties therefore do not claim:

* a woken sync() caller may touch its deleted object (owned queue);
* a spurious wakeup returns sync() before its function ran;
* a destructor without join() may wait for ever, its timer deleted before the break is
  posted (`TimerKept` and `EverythingRuns` exclude that window with `Dropping`). `UnjoinedHangs`
  says that this is not a delay: once it waits on an idle loop (`Hung`), only another callback
  of the same base that calls loopbreak() can end the wait;
* objects run by an attached queue are never freed;
* what is pushed after the loop has returned never runs, and a sync() then never returns.

### Proofs

`DispatchQueueProofs.tla` and `DispatchObjectProofs.tla`, for any set of clients, any objects,
either mode, from the three assumptions on the constants.

* `TypeCorrect`: `TInv` is TypeOK plus "run() holds an object wherever it needs one, a
  client inside sync has its object".
* `DrainsBeforeExit` and `Refinement` rest on
  `IInv == TInv /\ OrderInv /\ OwnerInv /\ DrainInv`.
  `OrderInv`: `pushed` is `started` followed by `chan`. This is the inductive form of FIFO
  order, and it makes `Pop` the abstract `Begin`. `OwnerInv` ties the owner's place to
  `joined`, `dropped` and the loop's end. `DrainInv`: while run() is still going round
  nothing due has been lost, and once it has left its loop with the break flag set
  everything due has been started.
* `NoEarlyDelete` and `NoLostWakeup` rest on `ObjInv`: an object in the channel is alive
  and occurs there once, `cur` is not in the channel, no two clients share an object, and a
  client between push and sleep has its object in the channel or in run()'s hands before the
  broadcast. LiveObjects alone is not inductive: without "occurs once" a `Release`
  could free an object that is queued a second time.
* `TimerNeverLost` needs only `BreakInv` beside TimerKept itself: nothing makes the loop
  return before loopbreak() has left its mark.
* `EndsClean` rests on `HeapInv`, every live object of an owned queue is queued, held by
  run() or about to be pushed by a sync() caller, and on `QuietInv`, once the destructor has
  begun nobody else is inside a call.
* `ForeignBreakKept` (`ForeignBreakSpins`, an action property) rests on `SpinInv`: on such a
  queue, when run() is done with a break, the next one is in the channel. With `LiveObjects`, by
  which the kind of an object somebody may still touch does not change (`KindStays`), a posted
  break is then always in the channel or held by run().

* `UnjoinedStaysHung` (`UnjoinedHangs`) needs only `TInv` and `OwnerInv`: a loop that is not in run() is
  led there by the timer alone, and nobody arms the timer outside run() once it is deleted.
* `JoinNeverStuck` (`JoinAwaited`) and `RunsExactlyOnce` (`ExactlyOnce`) are the safety halves of
  `JoinReturns` and `EverythingRuns`. `JoinInv` says that the break join() posted is queued or
  running until the loop is broken; it is kept for the same reason as a foreign break (`PostedStays`
  serves both), and `TimerKept` supplies the timer that leads to it. `PushedInv` says that no
  object is submitted twice, since a submission takes an object that was never allocated. With
  `OrderInv`, what was pushed is then in the channel or started, and each object once.
  What fairness adds, and only TLC checks, is that the loop thread goes on.

Each proof has one step per action, and every theorem is the usual Init / step / PTL
combination. The liveness properties are model-checked only: they are out of the prover's reach.

## 4. RefCount

`RefCount.tla` models retain, release, weak and unWeak as critical sections of the one
global mutex, and `unlock()`'s drain as a frame of the thread that runs it. A thread is
a stack of frames, since a destructor run by a drain releases, locks and drains again. The
unlocked reads of `Weak::set` are steps of their own.

| Variable | In the code |
|---|---|
| `st`, `rc`, `weaks` | an object's life, `_retainCount`, `_weakObjects` |
| `ref`, `wptr` | `_object` of each Strong and of each Weak; an object's own Strong member is `ref[object]` |
| `owner` | which thread may use a variable; `Give` passes it on, as `async()` does with the blocks of its context |
| `garbage` | `MutexAtomic::_objects` |
| `stack` | what each thread is in the middle of |
| `deleter`, `faults` | history: who freed an object, and who touched it afterwards |

Assumed of the callers: a Strong or Weak variable is used by one thread at a time, and
a thread assigns what it holds, a new object or nullptr. An object's member is assigned
while one variable holds the object, or by its destructor.

| Run | Instance | Shows |
|---|---|---|
| `refcount` | two threads, three objects, two Strongs, one Weak; 258,000 states up to symmetry | `CountExact`, `HeldIsLive`, `DeletedOnce`, `Attended`, `WeakCleared`, `OnlyOthersRace` |
| `refcount_live` | two threads, two objects, fairness of started operations; 164,000 states | `Collected` |

Three objects allow a chain of destructors two deep and a member cycle; two threads allow a
drain to take the other's garbage. Deadlock is checked: a thread can always do something.
`Objects` bounds allocation; a freed address is not reused.

`OnlyOthersRace` states how far Weak is safe: its unlocked read may reach an object
that *another* thread deletes at that moment (the model reaches such states), never one
that the thread's own drains delete, because those clear the Weak before it is read.

`Attended` is what `Collected` rests on. `release()` may queue an object while another thread's
drain is about to find the queue empty, and an object may be popped by one thread and its
destructor interrupted by nested drains: in every state what is queued has a drain ahead of it on
*some* thread, and what was popped is freed or on a stack.

**Proved** (`RefCountProofs.tla`), from `NilAssumption`, `NameAssumption` and `FiniteAssumption`
(finitely many threads, objects and references; the count is a cardinality), for any number of
each: the type invariant and all six properties of the run `refcount`. None is inductive alone.
The invariant `RInv` rests on what a stack looks like: one call below, drains and
destructors above it (`StackInv`), so that what a thread does to its references depends on its
outermost frame only. Beside that:

* `StackInv` and `GarbageInv`: an object is in the queue once, or destroyed by one frame of one thread.
  This is DeletedOnce, and what lets a drain take somebody else's garbage.
* `CountInv`: the count is exact, and zero exactly when the object is no longer live. An object on
  its way to deletion has no reference left that could be copied.
* `SetInv`: a Strong has one `set()` under way, and the member of an object is only assigned by
  the owner of the one variable that holds the object. Without it two assignments could release
  one reference twice.
* `WeakInv`, `PointerInv`: a Weak is registered with what it points to, and a `Weak::set` between
  its unlocked read and `unWeak` has its thread holding the new object. `FaultInv` is
  OnlyOthersRace in the form that survives a step.

`NeverForgotten` (`Attended`) is inductive beside `RInv`. `AttendStep` reduces it to three questions
about the frame a step replaces (what it queues, whether a drain goes with it, which
destructor it ends), which each action answers; `GarbageInv` is needed because a queue that is not
empty holds a queued object, so a thread that queues behind another's need not bring the only drain.

`Collected` itself is liveness and stays with TLC.

## 5. EvTimer

`EvTimer.tla` models setTimeout, setInterval, clear and the timer callback of one script
context, on one thread. A step is what runs between two points at which a script or
libevent decides what comes next.

| Variable | In the code |
|---|---|
| `life`, `at`, `repeats` | the Timer's memory, its address, whether `tv` is set |
| `pending` | the Timer's event is in the base (libevent) |
| `global` | which Timer's object each property of the script's global object holds |
| `pc`, `running`, `found` | where `ev_Timeout_cb` is, its Timer, the object on its value stack |
| `cleared`, `evicted`, `calls`, `faults` | history |

* `NewTimer` is `ev_newTimer`. The allocator (external) may reuse an address. The id is
  the address printed with `%x`, so two live Timers can have one name (`KeyOf` need not be
  injective); `put_prop` then finalizes the older object.
* `Clear` deletes the property, and `Finalize` (duktape's reference count, external, then
  `ev_Timer_dealloc`) deletes the event and the Timer unless the value stack holds the
  object. A script may keep any id for ever, so `Clear(t)` is allowed for a `t` long gone.
* `Fire`, `FnReturn` and then `Spent`, `Rearm` or `RearmFreed` are `ev_Timeout_cb`. Scripts run in
  the timer's function and in other callbacks of the loop (`InScript`). After the function
  the code reads `v->tv`. If the function gave its own property away the Timer is deleted
  by then, and the read is undefined: `Spent` and `RearmFreed` are both possible.
* `Close` is `duk_destroy_heap` in `Context::~Context`.

| Run | Instance | Shows |
|---|---|---|
| `evtimer` | four Timers, three addresses, two with one key; 760,000 states up to symmetry | the safety and action properties |
| `evtimer_live` | two Timers, three addresses, fairness; 6,000 states | `EveryTimerFires` |

Four Timers allow an address to be reused while a third Timer collides with it and a fourth
is independent. `MaxCalls` = 2 tells "called once" from "called again". Deadlock is not
checked: a closed context stops. Fairness: functions return (weak), and each pending event
gets its turn (strong, because an interval leaves and re-enters the base: libevent serves
timers in the order of their deadlines).

`Owned` and `PendingFindsItself` say that ids that collide or are reused never make a
callback run for a deleted Timer or call another timer's function; `ClearedStaysSilent` that
clear() is final, also from inside the function, unless the `tv` of the deleted Timer then reads as set
(`RearmFreed`): freed memory goes back to libevent, the model stops there, and nothing is claimed
of what follows. What the code does not give:
ids are not unique, so clear() of a stale id can stop a younger timer, and a timer whose
key a younger one takes is silently lost (`evicted`); and a timer that clears itself is
read after its deletion. `OnlyOwnFunctionFrees` says that a lost property is the only way
there, and EveryTimerFires allows for both. `NeverIdle` says that an interval is re-armed on
every path; `EveryTimerFires` speaks of the first call only.

`EvTimerProofs.tla` proves every safety property for any Timers, any addresses and any
`KeyOf`. `EInv` adds to the checked invariants: a property names a live Timer and is that
Timer's key (`Names`); the value stack holds the running Timer's object (`Stack`); an object
that lost its property never gets it back, and the running Timer's can only have been lost
by clear() or a collision (`LostInv`); a pending one-shot timer was not called (`CallInv`).
The lemma `Delete`, what deleting one property does, serves both `Clear` and `Spent`.

## 6. WebWorker

`WebWorker.tla` models one worker and the thread that created it (the main side: the
creating script, its context and its dispatch queue). The two DispatchQueues appear with the
properties section 3 establishes for them: FIFO channels, and a break that lets the drain
finish before the thread ends.

| Variable | In the code |
|---|---|
| `mpc`, `breaking` | the main thread: its loop, `onmessage`, inside release(), recycle; between reading `_loopbreak` and posting the break |
| `mchan`, `mainq` | channel and life of the queue `_main` points to |
| `wrapper` | the script object, which holds the one reference to the WebWorker |
| `life`, `dpc`, `destroyer` | the WebWorker, the place in `~WebWorker` and the thread that runs it |
| `wpc`, `wchan`, `loopbreak` | the worker's thread and its queue |
| `listening` | the sides whose script has set `onmessage` to a function |
| `taken`, `heard` | history: what has arrived at each side |

* **Posting** is `Post` (`duk_postMessage`) and, in two steps, `Reply`, `ReplyPost`
  (`WebWorkerPostMessage` reads the weak `_main` without a lock, then uses it).
* **Delivery** is `Work`, `WorkReturn` and `Hear`, `HearReturn`. Both test the weak pointer
  of the message, which is nil from `Unlink` (`~Object`) on, and `Hear` then uses
  `_heapptr`, which is good only while the wrapper is alive. Both ask whether `onmessage` is a function
  (lines 135, 326): if so it is called, if not the message is discarded (`wpc` or `mpc` is
  "discard" until the C++ function returns). The worker's first item runs its script in any case.
* **onmessage** is set and removed by `Listen` and `Unlisten` wherever code of that side's script
  may run: in a function of the stream, in one of its timers between two of them, and on the main side
  before `Alloc` returns.
* **terminate** is `Terminate`, `TerminatePost` (loopbreak() from another thread).
* **Destruction** starts with `Finalize`, the wrapper's finalizer, by the script or because
  `Recycle` destroys the context. `release()` only queues the WebWorker. `Take("main")` is the
  expected course; a third thread (`Take("other")`) or the worker itself (`TakeSelf`) may
  unlock the global mutex first and find it (section 4). Then `JoinPost`, `JoinReturn`,
  `FreeMembers`, `Unlink`.
* **recycle** of an owned KKSurfaceContext deletes the main queue (`Recycle`,
  `RecycleUnlink`) before the context that owns the wrapper. A context on the queue "main" has
  a queue that nothing retained (KKSurfaceContext.mm:42), which its release therefore never
  deletes; to this model that is the behaviour without `Recycle`.

The run `webworker` (two messages each way, two terminate() breaks, fairness; 654,000
states) checks six properties. Two messages show order and loss on either side of a
break; two breaks and the destructor's third let the thread meet a break when it is broken
already. `Posts`, `Replies` and `MaxBreaks` bound what is sent. Deadlock is not
checked: the system ends. Fairness: threads are scheduled, script functions return, and the drain
of the releasing thread runs.

`TwoStreams` refines `TaskQueue` once per direction. `TakenBeforeBreak` and `ThreadEndsFirst` say
that terminate() and the destructor let what was posted before them arrive, and free nothing under
it. `FaultsExplained` bounds the damage the code admits: a message that meets a finalized wrapper,
and a worker that joins itself, need another thread's drain; a reply to a deleted main queue needs
that or a recycle under a live worker. `DestructionEnds` says that the join cannot deadlock.
`Delivered` says that every message arrives at the other side unless the queue was broken or the
receiver is gone, and (`DiscardsExplained`) that the one that arrived is discarded only where the
script has been run and has no `onmessage` at that moment: a message posted before the worker's
script has run waits for it. What arrives and meets no `onmessage` is lost without a trace.

**Proved** (`WebWorkerProofs.tla`), from `ItemAssumption` (the worker's open item and the
break are not messages) and `BreaksAssumption` (`MaxBreaks` is a natural number), for any
sets of messages: `TypeCorrect`, `ThreadOutlived`, `FaultsBounded` and `StreamNotCut`. The
first three follow from `WInv`, which adds to the properties how the lives of the wrapper,
the WebWorker and the thread depend on one another (`LifeInv`), what the main side finds when
release() has returned (`ReleaseInv`: the WebWorker is freed or another thread has it; without it a
recycle after a stolen release could not be told from a fault) and who used what
(`FaultInv`). `StreamNotCut` needs `BreakInv`: before the first break, what is posted is what
is taken plus what is in the channel; after it, the first break stands behind at least
`due - Len(taken)` items until the worker runs it, so that popping it finds everything due
taken.

`StreamsOrdered` proves `TwoStreams`, that is, both refinements. It needs to know what is in the
two channels (`StreamInv`, checked by TLC with `WInv` before it was proved). Towards the main side
that is simple: `mchan` is what was replied and not yet heard (`Follows`), as long as the wrapper
and the main queue live. Towards the worker breaks stand between the messages, so `Carries` says
that there is a count `c` along the channel which stays at a break, moves on by one at a message,
and ends at the length of `posted`: the message there is the one of that number. Appending a
break, appending a message and taking the head each keep it (`CarriesBreak`, `CarriesTask`,
`CarriesTail`), and no induction is needed. Each action then maps to a step of `TaskQueue` or a
stutter (`ToWorkerStep`, `ToMainStep`): `Alloc`, `Post` and a `ReplyPost` that finds the queue
submit, `Work` and `Hear` begin, the returns and a `TakeSelf` in the middle of a function end,
`Exit`, `Recycle` and `Finalize` stop.

Two more theorems are the safety halves of the liveness properties. `NoMessageLost`
(`MessagesKept`, for `Delivered`): what arrived at each side is a prefix of what the other posted,
the rest is in the channel until the queue that carries it is deleted or the wrapper is finalized,
and what arrived was discarded only as `DiscardsExplained` allows. That part needs `EarInv`: the
item that opens the worker is the first of `posted` and so the first that arrives, and `onmessage`
cannot change while a message is being discarded. Towards the main side it follows from
`StreamInv`; towards the worker, where breaks stand among the messages, `WorkerKept` says it of
the set of messages behind the last one taken, and that no message is posted twice.
`DestructorNeverStuck` (`DestructionAhead`, for `DestructionEnds`): once the wrapper is finalized,
the WebWorker is in the hands of a drain or a destructor, and the one that waits for the thread
has its break run or queued. `BreakInv` supplies the break, and `DyingInv` says that a WebWorker
being destroyed by no destructor of another thread is the self-join. `DestructionEnds` and
`Delivered` themselves are liveness and model-checked only.

What the code does not give: messages posted after terminate() may never be run, replies in flight
when the wrapper goes are dropped, a message that meets no `onmessage` is discarded, and the
faults above. Not modelled: a worker created by a worker's script (its replies go to the root's
queue because `KKSurfaceContext` overwrites `__queue`), and `evdns_base_new` racing with the new
thread's loop.

## 7. HttpTask

`HttpTask.tla` models Http, its HttpTasks and the functions `script::Object` pins for them. All
but the destructors runs on the one loop thread. A step is what runs between two calls of a script
function; a call is a frame of `stack`, inside which the script can do anything it can do at top
level, another `send()` included.

| Variable | In the code |
|---|---|
| `http`, `reg` | the Http object and its `_tasks` |
| `held` | whether the script still has the Http |
| `task` | per HttpTask: its memory (`taken`: another thread's unlock() has it), `_retainCount`, its wrapper, its function, `_req`; what libevent has done with the request; whether its callback was given up; how often its function was called |
| `kept`, `glob` | the functions the script refers to itself, and what each pin key of the global object holds |
| `stack`, `fault` | calls of script functions; the undefined behaviour reached, if any |

* `Send` is `duk_send` with its three outcomes: the request goes to a connection
  (`SendQueued`), the URL has no host (`SendBadUrl`), or the connection is refused before
  `evhttp_make_request` returns (`SendRefused`). `SendThrows`: encoding the options throws out of
  `duk_send` (lines 420, 460), which leaks the task and the request it has made.
* `Complete`, `Fail` and `Eof` are libevent's callbacks; `Undecodable` is the `Complete` of a
  request for JSON (`Json`) whose answer `duk_json_decode` cannot read: `onLoad` calls it outside
  any protected call (line 219), and the fatal handler the error ends in returns
  (kk-script.cc:20-22); `Return` is the rest of `onLoad`, `onFail`, `remove` and `HttpRequest_cb`.
* `Cancel`, `Drop` (the wrapper's finalizer), `Forget` and `DropHttp` are the script's.
* The last release only queues an object, and any thread's unlock() may take it (section 4). So
  each release that may be the last has two outcomes: the object is deleted here, or it is `taken`
  and `OtherDeletes` deletes it later, on a thread that enters this one's duktape heap;
  `OtherDeletesHttp` is the same for Http, whose destructor cancels requests of this thread's
  loop. Either goes well or is the fault "thread".

evhttp is external, and its contract is `event2/http.h`: on an error the error callback and then
the regular one with a null request (line 602), free a cancelled request without calling
anyone. `send()` is assumed to be given onload and onfail, and one function stands for both.
`Keys` is smaller than `Fns`: the key is the address printed with `%x`, 32 bits of it. What a function
throws is assumed to be something `kk::script::Error` can print: it prints outside the protected call
that caught the value.

The code reaches undefined behaviour in several ways. The model records where (`fault`) and stops.
`FaultsExplained` lists all of them: a connection refused inside `open()`, which retains the task
after its last reference may be gone; a failed connection, whose second callback reads `_req`
after `remove()` cleared it; a task cancelled inside its own function; two tasks whose functions
share a key, one function sent twice included; an answer that is not the JSON that was asked for;
and another thread's drain that takes the last reference to a task, or an Http with requests left.
`Accounted` gives the exact value of `_retainCount` in between, with the leak after cancel() or
the end of Http, whose in-flight reference nobody gives back, and bounds `_tasks`: nothing
answered stays in it. `Answered` is the promise to the script: once, not after a cancel, and in
the end.

Run `http`: two tasks, one of them for JSON, and three functions, two under one key; 114,000
states. Every clause of the properties speaks of one task or of a pair, so that two are enough for
one to be sent, cancelled or dropped from the function of the other, and the theorems below hold
for any number. Fairness: a request comes to an end because `evhttp_connection_set_timeout` is
always called with a timeout, and functions return. Deadlock is not checked, since a fault stops
the model.

**Proved** (`HttpTaskProofs.tla`), from `KeysAssumption` (a function has a name, and is not
nullptr) and `JsonAssumption` (`Json` is a set of tasks), and for any tasks, functions and names:
`TypeOK` (not part of the run), `Accounted`, `FaultsExplained` and `AnsweredOnce`, the safety half
of `Answered`. The invariant `HInv` says of every state before a fault (`Sound`):

* `Phase`: a task is unsent, queued, being called by the loop, being called inside `send()`, or
  settled, and each phase fixes its count, its registration, `_req`, its request and how often it
  was called.
* `FrameInv`: a task is on the stack once, and its request shows why. This tells a `cancel()` inside
  the function being delivered (a fault) from one inside another's (harmless), and shows that `Return`
  releases what it may.
* `PinInv`: a live task finds its function under its name unless another task with that name has
  a different function or has been deleted (not only `taken`: the pin stays until the other thread
  is there). FaultsExplained needs it before the call fails.

That every queued task is answered in the end is liveness and stays with TLC.

## 8. WebSocket

`WebSocket.tla` models one socket from `open()` to its last event and, as `onReading()`, the
parser. The bytes the peer sends are chosen first, as frames (`frames`, `stream`); the network
then delivers them in any grouping (`Arrive`).

| Variable | In the code |
|---|---|
| `state`, `bev`, `dns`, `reading` | `_state`, `_bev`, the pending query, EV_READ |
| `arrived`, `taken` | the input evbuffer, as a window on `stream` |
| `body`, `btype`, `blen` | `_body`, `_bodyType`, `_bodyLength` |
| `obj`, `held`, `quit` | the object (`taken`: another thread's unlock() has it), whether the script can reach it, whether it called close() |
| `pc`, `next`, `after` | where `onReading()` is or which function runs, what follows it, and whether `onOpen()` is below on the stack |
| `got`, `fault` | history: what ondata was given; undefined behaviour |

`onReading` is `Handshake`, `Rest` (lines 280-300) and `Frame` with `Body`, one step for each
round of its recursion up to a call of the script. Around each call the script may `Close` or
`Drop` the socket, and `ReturnOpen`, `ReturnData`, `ReturnClose` go on as the code does. A header
is two bytes, or three for an extended length. A frame whose first two bytes the code refuses (a
mask, reserved bits, an unknown opcode) is "bad". A pong is exempt from the test of mask and
reserved bits (line 310), so a pong may carry a masking key (`key`), which nothing skips: its
bytes are then read as the next header. The answer to the handshake is "101", another code, one
whose status text is too long for `status[128]`, or one without a status line, which leaves
`status` unset.

`onReading` also reads where it should not: the extended length before it is known to have arrived
(343-351), and the handshake's answer with an `sscanf` that nothing bounds (258). Either may do no
harm or be a fault. So may the deletion of the socket by another thread (`OtherDeletes`), after the last
release on the loop thread; a `taken` socket's events reach no function any more.

`WholeMessages`: for a peer that neither fragments nor sends a pong with a payload or a mask,
`got` is always a prefix of its messages and, when everything has arrived, all of them. For other
peers the code does lose its place: it remembers the length of the last frame instead of the
message's, and skips only what has arrived of a pong, without its key. `FaultsExplained` says that
nothing else makes it read payload as a header, and that a deleted socket or a null `_bev` is used
only after the script dropped or closed the socket inside a function or with the DNS query
pending, or after a close frame that came together with the handshake's answer; that bytes past
the input are read only by that `sscanf` and for a length that was cut, `status` is overrun or
read unset only for such an answer, and another thread frees what the loop uses only after it has
taken a socket with a connection or a query. `LastWord`: after close() or onclose, silence, but
for the onclose of a query that fails.

Run `websocket`: any of the four answers and up to three frames of twelve kinds (empty, short and
extended text, fragments, ping, pong with and without payload, masked pong, close, malformed);
1,872,000 states. Three frames are enough for a fragmented message with a control frame inside,
and for a message after one that was cut. No fairness, since no liveness is claimed: the code has
no timeout of its own and ignores the end of the stream (`WebSocket_event_cb` handles ERROR and
TIMEOUT only).

**Proved** (`WebSocketProofs.tla`), from `FramesAssumption` (the frames and answers have the
fields of the model, any length and, for a pong, any key, `MaxFrames` is a natural number):
`TypeOK` and all that the run checks, for any frames, any number of them and any grouping of their
bytes. Three invariants, each checked by TLC first:

* `Alive`: what the object, `_bev`, the query and the flags may be while a given function of the script
  runs, or none. It alone gives `SilentAfterClose` (`LastWord`) and, with the parser's
  place, `FaultsOnlyThere` (`FaultsExplained`).
* `Shape`: what the peer may send, an answer to the handshake first, and that `stream` is
  made of it. `TypeCorrect` (`TypeOK`) follows from both: `onReading` takes no byte that has not arrived,
  and `_body` and `got` hold bytes of the stream.
* `Parsed`: where the parser is. Either it stands at the head of frame k, the messages of the
  frames before k have been handed out and `_body` is empty (`At`), or it is inside the payload of
  frame k and `_body` is what it has taken of it (`Within`). It holds for a peer that neither
  fragments nor sends a pong with a payload or a mask, until the socket is closed; a message that
  a function is being given counts as handed out. `MessagesWhole` (`WholeMessages`) is its
  consequence when the parser cannot go on.

Stream and messages are both `FlattenSeq` of one piece per frame, and the proof has to know where
in the whole each piece is. `FlattenSeq` is a fold, defined by a recursive function, and the
library's induction theorems are out of the provers' reach (their hypothesis is an operator). The
first part of the module proves what it needs by taking the least counterexample in a set of
numbers instead (`SetInduction`, from `NatLessThanWellFounded` and `WFMin`): `CutStep` and
`CutPrefix` say that the join of k + 1 pieces is the join of k and the next, `PieceAt` that the
bytes of piece k are found behind the join of the first k - 1.

## 9. Surface

`Surface.tla` models KKSurfaceElement with its canvas and the KKSurfaceContexts it installs one
after the other. The main thread is `main` and the main queue `mq`; each context has a FIFO of
blocks, run by its own thread or, for the queue "main", by the main thread when it polls.

| Variable | In the code |
|---|---|
| `elem`, `tree`, `view`, `layer` | the element's life, the view tree's reference, `self.view`, whose image `view.layer.contents` is |
| `cur` | `_context` |
| `ctx` | per context: mode, life, the queue's channel, whether `openlibs` has run, what its scripts can call |
| `run` | the block or script call that runs, and that it holds the element |
| `main`, `mq` | what the main thread is in the middle of; `dispatch_get_main_queue()` |

* `SetView` starts `uninstallSurface`, which is `Recycle` and, for an owned queue, `Joined`;
  `Then` is the rest of setView with `installSurface`, or of `dealloc`.
* `Event` is `changedKey`, `emit` and `didLayouted`. `MainItem` runs one item of the main queue:
  `display`, `setDisplayImage`, or an invocation a script sent.
* `BlockStart` and `BlockEnd` bracket a block. `ScriptCall` is `KKSurfaceContext_selector`, which holds
  the element too (a local of type `id`, lines 314-323) until `BlockEnd`, unless a block around it does.
* An attached queue is constructed without a retain (KKSurfaceContext.mm:42), so that its release
  at recycle takes the count below zero and it is never deleted. `Recycle` ends the context at
  once; what is left in that channel never runs, since nothing polls it.

The queue is taken at the level section 3 establishes: a FIFO whose break is behind everything
posted before it, and join() returns when the loop has. UIKit and GCD are external: weak
references become nil when `dealloc` begins, the main queue is FIFO.

`CurrentContext` is what makes `e.context` safe to read from a block without a lock: join() keeps
`_context` in place until no block of it can run. `FaultsExplained` says where that does not
reach: the last reference dropped by a block or by a script's call joins the loop from itself; an
invocation already on the main queue finds its plain target pointer dead; the base of an owned
queue goes before dns and script context (`early`, recorded without stopping the model, because
every recycle of an owned queue after openlibs does it). `Redrawn`: a canvas that stays gets an
image of its own context and never again one of an earlier one.

Run `surface`: two contexts, two events or script calls; 918,000 states. Two contexts are what it
takes for an image, a block or an invocation of the first to meet the second. Fairness:
the main loop, the loop threads and blocks go on. Deadlock is not checked: the system ends.

**Proved** (`SurfaceProofs.tla`), from `BoundsAssumption` alone and so for any number of contexts
and calls: `TypeOK`, `CurrentContext`, `FaultsExplained`, and `NoStaleImage`, the safety half of
`Redrawn`. The inductive invariant `SInv` adds four parts:

* `LifeInv`: only `cur` is live or about to be joined. It makes "the context a block was posted
  to" and "the context the main thread holds" the same.
* `BlockInv`: a break is in a queue only while the main thread joins it, and a block of an attached
  context runs only while the main thread is in it. Without it a loop could return under a block.
* `MainInv`: where the main thread may be with which `cur`, and that an element the tree has let
  go lives on only for a block or a call of an owned queue. This is the self-join, and why an
  attached queue never meets it.
* `FaultInv`: the state a fault leaves behind.

`NoStaleImage` needs one more, `ImageInv`, which relates `mq` to `cur` and `layer`: the images of
the current context are behind all others in the main queue, and once one of them is shown no
other is left. `InOrder` states it for any queue, with lemmas for `Append` and `Tail`, so that
each action only says what it does to the queue.

`NeverLeftBlank` proves the safety half of the other part of `Redrawn`. `DrawingAhead` says of
every canvas that has a context and lives: its view shows an image of that context, or the display
item, the draw block, the drawing itself or its image is on the way. So neither thread drops a
redraw. It rests on `ImageInv` too: the image that is shown could otherwise be replaced by an
earlier context's with nothing left to draw. `DrawingAhead` is no property of a run (`Redrawn`
checks what it is for); TLC found no violation of it with two contexts.

## 10. Binary

`Binary.tla` has the four functions of `kk-binary.cc` on a heap of list nodes, with recursive
operators like the code, so it is for TLC only. `RoundTrip` compares what BinaryPushContext
rebuilds with the definition `Received` (the value itself, undefined for null) for every value of
depth two and for chains to depth four, 34,000 values in the run `binary`. The code does not
always rebuild what was posted: `BinaryAdd` returns the node it added, not the last of its list,
and the End of a container is written behind that (lines 68 and 85), cutting off the elements of a
container that comes last. RoundTrip is therefore exact in both directions. A value comes through,
and all its nodes are freed, if and only if no container in it ends with a container, except for
an object whose last value is an empty one.

## 11. Model-checked only

* Liveness, which is out of the prover's reach: `SyncReturns`, `EverythingRuns`, `JoinReturns`,
  `Collected`, `EveryTimerFires`, `Delivered`, `DestructionEnds` and the second halves of
  `Answered` and `Redrawn`. What is proved of them is that they can never have become impossible:
  `JoinAwaited`, `ExactlyOnce`, `TimerKept`, `WakeupAhead`, `Attended`, `NeverIdle`,
  `MessagesKept`, `DestructionAhead`, `AnsweredOnce`, `NoStaleImage` and `DrawingAhead` hold in
  every state, for every value of the constants. That the threads then take the steps that are
  left is fairness, and TLC's.
* `RoundTrip`, an induction over values of any depth. Binary is written with RECURSIVE operators,
  as the code is recursive, and the prover handles no module that has them.

The other way round, the type invariants are theorems (of every module that models code, but
Binary) and part of no run, and so are the safety halves `JoinAwaited`, `ExactlyOnce`,
`MessagesKept`, `DestructionAhead`, `AnsweredOnce`, `NoStaleImage`, `DrawingAhead` and EvTimer's
`OnceOnly`.

## 12. Not modelled

* `kk-crypto.cc`, `kk-string.cc`, `js/require.js`, the conversions between Objective-C and script values:
  sequential code without state that a unit test reaches. (`JSContextPushObject` never
  increments the index of an array, so only its last element survives.)
* Drawing (`KKSurfaceCGContext.m`, `KKSurfaceGLContext.m`) and the GL element, which is an empty
  shell; application code.
* `WebSocket::send`: it fills libevent's output buffer and changes no state of the socket. SSL is
  not in the code.
* Host, path and port of a WebSocket URL. A URL without a port connects to port 65535, because
  `evhttp_uri_get_port` returns -1 and the code tests for 0; one without a query copies a null
  pointer, which is the case "partial" of `Open`.
* `main.js` is run twice, by both blocks of `installSurface` (`KKSurfaceElement.mm` 117, 136), as the
  blocks of `Installed` show; whether a script minds is its own affair.
* The arguments of an invocation a script sends: `NSInvocation` does not retain them
  (`KKSurfaceContext.mm:347`).
* An object with wrappers in several script contexts (`HeapObject`'s map): no code in the
  repository makes one.
* A value a script throws that `kk::script::Error` cannot print. It prints outside the protected
  call that caught the value, so that a second exception there would end in the fatal handler,
  which returns.
* A worker created by a worker's script, `Array`/`TObject` templates, logging, and
  the vendored frameworks. The promotion of a Weak to a Strong on a thread that does not
  own the object is not modelled because no code in the repository does it; the lazy creation in
  `atomic()` because its first use precedes every thread the library starts.

## 13. Running

In this directory:

    tlc -config MCDispatchOwned.cfg MCDispatch
    tlc -config MCRefCount.cfg MCRefCount
    tlc -config MCEvTimer.cfg MCEvTimer
    tlc -config MCWebWorker.cfg MCWebWorker
    tlc -config MCHttp.cfg MCHttp
    tlc -config MCWebSocket.cfg MCWebSocket
    tlc -config MCSurface.cfg Surface
    tlc -config MCBinary.cfg Binary
    tlapm DispatchQueueProofs.tla
    tlapm DispatchObjectProofs.tla
    tlapm RefCountProofs.tla
    tlapm EvTimerProofs.tla
    tlapm HttpTaskProofs.tla
    tlapm WebWorkerProofs.tla
    tlapm SurfaceProofs.tla
    tlapm WebSocketProofs.tla

`PROJECT.json` lists every run with its properties, for every property a mutant of the
model that breaks it (operators marked "Mutant" in the modules, used by nothing else),
and for every definition the source lines it stands for.
