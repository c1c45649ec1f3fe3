----------------------------- MODULE RefCount -----------------------------
(***************************************************************************)
(* kk::Object, Strong and Weak (kk-object.cc) over the process-wide        *)
(* MutexAtomic (kk-atomic-pthread.cc).                                     *)
(*                                                                         *)
(* Every count and every weak registration changes under one global mutex. *)
(* An object whose count reaches zero is not deleted there but queued, and *)
(* MutexAtomic::unlock() -- of whatever operation, by whatever thread --   *)
(* deletes what is queued until the queue is empty.  Deleting an object    *)
(* runs its destructor, whose own releases lock, queue and drain again: a  *)
(* thread is a stack of frames.                                            *)
(*                                                                         *)
(* A critical section is one action (queueing under _objectLock happens    *)
(* inside it; a drain on another thread may pop the object at once, and    *)
(* nothing of it is touched after addObject).  The unlocked reads between  *)
(* critical sections are steps of their own.                               *)
(***************************************************************************)
EXTENDS Naturals, Sequences, FiniteSets, Functions

CONSTANTS
    Threads,
    Objects,       \* the objects that may ever be created (a bound)
    Slots,         \* kk::Strong variables, each used by one thread at a time
    Weaks,         \* kk::Weak variables, each used by one thread at a time
    Nil

ASSUME NilAssumption == Nil \notin Objects
ASSUME NameAssumption == Slots \intersect Objects = {}
ASSUME FiniteAssumption == IsFiniteSet(Threads) /\ IsFiniteSet(Slots) /\ IsFiniteSet(Objects)

VARIABLES
    \* objects
    st,            \* "fresh", "live", "queued", "dying" or "freed"
    rc,            \* _retainCount
    weaks,         \* _weakObjects
    \* references
    ref,           \* what each Strong points to; an object's own member is
                   \* ref[object]
    wptr,          \* what each Weak points to
    owner,         \* the thread that may use each Strong and Weak
    \* MutexAtomic and threads
    garbage,       \* MutexAtomic::_objects
    stack,         \* each thread's frames, innermost first
    \* history
    deleter,       \* the thread that freed each object
    faults         \* <<thread, object>>: the thread touched the freed object

objVars == <<st, rc, weaks, deleter>>
refVars == <<ref, wptr, owner>>
vars == <<objVars, refVars, garbage, stack, faults>>

Strongs == Slots \union Objects

\* Frames: the drain loop of unlock(); the destructor of an object, before its
\* members, before its ~Object and before its memory goes; Strong::set before
\* the old object's release and before the assignment; Weak::set before the read
\* of the old pointer, before its unWeak and before the assignment.
DrainFrame == [op |-> "drain"]
DtorFrame(stage, o) == [op |-> stage, obj |-> o]
SetFrame(stage, s, o) == [op |-> stage, slot |-> s, new |-> o]
WeakFrame(stage, w, o, old) == [op |-> stage, slot |-> w, new |-> o, old |-> old]

DtorStages == {"members", "base", "free"}

Frames ==
    {DrainFrame}
    \union {DtorFrame(g, o) : g \in DtorStages, o \in Objects}
    \union {SetFrame(g, s, o) :
              g \in {"release", "assign"}, s \in Strongs, o \in Objects \union {Nil}}
    \union {WeakFrame(g, w, o, old) :
              g \in {"wread", "unweak", "wassign"}, w \in Weaks,
              o \in Objects \union {Nil}, old \in Objects \union {Nil}}

TypeOK ==
    /\ st \in [Objects -> {"fresh", "live", "queued", "dying", "freed"}]
    /\ rc \in [Objects -> Nat]
    /\ weaks \in [Objects -> SUBSET Weaks]
    /\ ref \in [Strongs -> Objects \union {Nil}]
    /\ wptr \in [Weaks -> Objects \union {Nil}]
    /\ owner \in [Slots \union Weaks -> Threads]
    /\ garbage \in Seq(Objects)
    /\ stack \in [Threads -> Seq(Frames)]
    /\ deleter \in [Objects -> Threads \union {Nil}]
    /\ faults \subseteq Threads \X Objects

Init ==
    /\ st = [o \in Objects |-> "fresh"]
    /\ rc = [o \in Objects |-> 0]
    /\ weaks = [o \in Objects |-> {}]
    /\ ref = [s \in Strongs |-> Nil]
    /\ wptr = [w \in Weaks |-> Nil]
    /\ owner \in [Slots \union Weaks -> Threads]
    /\ garbage = <<>>
    /\ stack = [t \in Threads |-> <<>>]
    /\ deleter = [o \in Objects |-> Nil]
    /\ faults = {}

-----------------------------------------------------------------------------
(* What a thread may name.                                                 *)

Idle(t) == stack[t] = <<>>

Top(t, op) == stack[t] # <<>> /\ Head(stack[t]).op = op

\* Replace the innermost frame by the given ones
Continue(t, frames) == stack' = [stack EXCEPT ![t] = frames \o Tail(@)]

Start(t, frames) == stack' = [stack EXCEPT ![t] = frames]

Held(t) == {ref[s] : s \in {x \in Slots : owner[x] = t}} \ {Nil}

\* The Strongs t may assign: its own variables, and the member of an object that
\* nothing but one of t's variables refers to
Assignable(t) ==
    {s \in Slots : owner[s] = t} \union {o \in Held(t) : rc[o] = 1}

\* What t may assign to one: what it holds, a new object, or nothing
Assigned(t) == Held(t) \union {o \in Objects : st[o] = "fresh"} \union {Nil}

-----------------------------------------------------------------------------
(* Strong::set                                                             *)

\* Object::retain() up to its unlock(); a new object has a count of zero
RetainCount(o) ==
    /\ rc' = [rc EXCEPT ![o] = @ + 1]
    /\ st' = [st EXCEPT ![o] = "live"]

\* if(_object != object) object->retain(): count, unlock, drain
SetBegin(t, s, o) ==
    /\ Idle(t)
    /\ s \in Assignable(t)
    /\ o \in Assigned(t)
    /\ o # ref[s]
    /\ IF o = Nil
       THEN /\ Start(t, <<SetFrame("release", s, o)>>)
            /\ UNCHANGED <<st, rc>>
       ELSE /\ RetainCount(o)
            /\ Start(t, <<DrainFrame, SetFrame("release", s, o)>>)
    /\ UNCHANGED <<weaks, deleter, refVars, garbage, faults>>

\* Mutant: release() queues the object one reference early
ReleaseCountEarly(o) ==
    /\ rc' = [rc EXCEPT ![o] = @ - 1]
    /\ IF rc[o] <= 2
       THEN st' = [st EXCEPT ![o] = "queued"] /\ garbage' = Append(garbage, o)
       ELSE UNCHANGED <<st, garbage>>

\* Object::release() up to its unlock(): the last reference queues the object
ReleaseCount(o) ==
    /\ rc' = [rc EXCEPT ![o] = @ - 1]
    /\ IF rc[o] = 1
       THEN st' = [st EXCEPT ![o] = "queued"] /\ garbage' = Append(garbage, o)
       ELSE UNCHANGED <<st, garbage>>

\* Mutant: setting nullptr does not release the old object
SetReleaseUnlessNull(t) ==
    /\ Top(t, "release")
    /\ LET f == Head(stack[t])
           old == ref[f.slot]
       IN  IF old = Nil \/ f.new = Nil
           THEN /\ Continue(t, <<SetFrame("assign", f.slot, f.new)>>)
                /\ UNCHANGED <<st, rc, garbage>>
           ELSE /\ ReleaseCount(old)
                /\ Continue(t, <<DrainFrame, SetFrame("assign", f.slot, f.new)>>)
    /\ UNCHANGED <<weaks, deleter, refVars, faults>>

\* Mutant: release() unlocks the mutex without the drain
SetReleaseUndrained(t) ==
    /\ Top(t, "release")
    /\ LET f == Head(stack[t])
           old == ref[f.slot]
       IN  /\ IF old = Nil THEN UNCHANGED <<st, rc, garbage>> ELSE ReleaseCount(old)
           /\ Continue(t, <<SetFrame("assign", f.slot, f.new)>>)
    /\ UNCHANGED <<weaks, deleter, refVars, faults>>

\* if(_object) _object->release()
SetRelease(t) ==
    /\ Top(t, "release")
    /\ LET f == Head(stack[t])
           old == ref[f.slot]
       IN  IF old = Nil
           THEN /\ Continue(t, <<SetFrame("assign", f.slot, f.new)>>)
                /\ UNCHANGED <<st, rc, garbage>>
           ELSE /\ ReleaseCount(old)
                /\ Continue(t, <<DrainFrame, SetFrame("assign", f.slot, f.new)>>)
    /\ UNCHANGED <<weaks, deleter, refVars, faults>>

\* _object = object
SetAssign(t) ==
    /\ Top(t, "assign")
    /\ LET f == Head(stack[t]) IN ref' = [ref EXCEPT ![f.slot] = f.new]
    /\ Continue(t, <<>>)
    /\ UNCHANGED <<objVars, wptr, owner, garbage, faults>>

-----------------------------------------------------------------------------
(* Weak::set, and the use of a Weak                                        *)

\* Object::weak() and Object::unWeak() up to their unlock()
Register(o, w) == weaks' = [weaks EXCEPT ![o] = @ \union {w}]
Unregister(o, w) == weaks' = [weaks EXCEPT ![o] = @ \ {w}]

\* Mutant: Weak::set reads its old pointer before it registers with the new object
WeakBeginCached(t, w, o) ==
    /\ Idle(t)
    /\ owner[w] = t
    /\ o \in Held(t) \union {Nil}
    /\ o # wptr[w]
    /\ weaks' = IF o = Nil THEN weaks ELSE [weaks EXCEPT ![o] = @ \union {w}]
    /\ Start(t, <<DrainFrame, WeakFrame(IF wptr[w] = Nil THEN "wassign" ELSE "unweak",
                                       w, o, wptr[w])>>)
    /\ UNCHANGED <<st, rc, deleter, refVars, garbage, faults>>

\* if(_object != object) object->weak(&_object): register, unlock, drain.  The
\* caller holds the object.
WeakBegin(t, w, o) ==
    /\ Idle(t)
    /\ owner[w] = t
    /\ o \in Held(t) \union {Nil}
    /\ o # wptr[w]
    /\ IF o = Nil
       THEN /\ Start(t, <<WeakFrame("wread", w, o, Nil)>>)
            /\ UNCHANGED weaks
       ELSE /\ Register(o, w)
            /\ Start(t, <<DrainFrame, WeakFrame("wread", w, o, Nil)>>)
    /\ UNCHANGED <<st, rc, deleter, refVars, garbage, faults>>

\* if(_object): the drain above may have cleared it.  No lock is held.
WeakRead(t) ==
    /\ Top(t, "wread")
    /\ LET f == Head(stack[t])
           old == wptr[f.slot]
       IN  Continue(t, <<WeakFrame(IF old = Nil THEN "wassign" ELSE "unweak",
                                   f.slot, f.new, old)>>)
    /\ UNCHANGED <<objVars, refVars, garbage, faults>>

Touch(t, o) == faults' = IF st[o] = "freed" THEN faults \union {<<t, o>>} ELSE faults

\* _object->unWeak(&_object): unregister, unlock, drain
WeakUnreg(t) ==
    /\ Top(t, "unweak")
    /\ LET f == Head(stack[t])
       IN  /\ Touch(t, f.old)
           /\ Unregister(f.old, f.slot)
           /\ Continue(t, <<DrainFrame, WeakFrame("wassign", f.slot, f.new, Nil)>>)
    /\ UNCHANGED <<st, rc, deleter, refVars, garbage>>

WeakAssign(t) ==
    /\ Top(t, "wassign")
    /\ LET f == Head(stack[t]) IN wptr' = [wptr EXCEPT ![f.slot] = f.new]
    /\ Continue(t, <<>>)
    /\ UNCHANGED <<objVars, ref, owner, garbage, faults>>

-----------------------------------------------------------------------------
(* MutexAtomic::unlock's loop and the destructors it runs                  *)

\* Mutant: the object is popped only after its destructor, by the next round
DrainPeek(t) ==
    /\ Top(t, "drain")
    /\ garbage # <<>>
    /\ garbage' = IF st[Head(garbage)] = "freed" THEN Tail(garbage) ELSE garbage
    /\ st' = [st EXCEPT ![Head(garbage)] = "dying"]
    /\ Continue(t, <<DtorFrame("members", Head(garbage)), DrainFrame>>)
    /\ UNCHANGED <<rc, weaks, deleter, refVars, faults>>

DrainPop(t) ==
    /\ Top(t, "drain")
    /\ garbage # <<>>
    /\ garbage' = Tail(garbage)
    /\ st' = [st EXCEPT ![Head(garbage)] = "dying"]
    /\ Continue(t, <<DtorFrame("members", Head(garbage)), DrainFrame>>)
    /\ UNCHANGED <<rc, weaks, deleter, refVars, faults>>

DrainDone(t) ==
    /\ Top(t, "drain")
    /\ garbage = <<>>
    /\ Continue(t, <<>>)
    /\ UNCHANGED <<objVars, refVars, garbage, faults>>

\* ~Strong of the object's member
DtorMembers(t) ==
    /\ Top(t, "members")
    /\ LET o == Head(stack[t]).obj
       IN  IF ref[o] = Nil
           THEN /\ Continue(t, <<DtorFrame("base", o)>>)
                /\ UNCHANGED <<st, rc, ref, garbage>>
           ELSE /\ ReleaseCount(ref[o])
                /\ ref' = [ref EXCEPT ![o] = Nil]
                /\ Continue(t, <<DrainFrame, DtorFrame("base", o)>>)
    /\ UNCHANGED <<weaks, deleter, wptr, owner, faults>>

\* Mutant: ~Object leaves its Weak references alone
DtorBaseForgetful(t) ==
    /\ Top(t, "base")
    /\ Continue(t, <<DrainFrame, DtorFrame("free", Head(stack[t]).obj)>>)
    /\ UNCHANGED <<objVars, refVars, garbage, faults>>

\* ~Object: under the lock, every registered Weak is cleared; unlock, drain
DtorBase(t) ==
    /\ Top(t, "base")
    /\ LET o == Head(stack[t]).obj
       IN  /\ wptr' = [w \in Weaks |-> IF w \in weaks[o] THEN Nil ELSE wptr[w]]
           /\ Continue(t, <<DrainFrame, DtorFrame("free", o)>>)
    /\ UNCHANGED <<objVars, ref, owner, garbage, faults>>

DtorFree(t) ==
    /\ Top(t, "free")
    /\ LET o == Head(stack[t]).obj
       IN  /\ st' = [st EXCEPT ![o] = "freed"]
           /\ deleter' = [deleter EXCEPT ![o] = t]
    /\ Continue(t, <<>>)
    /\ UNCHANGED <<rc, weaks, refVars, garbage, faults>>

-----------------------------------------------------------------------------
(* A reference that travels: the context that async() takes into a queue    *)
(* carries the Strongs and Weaks of its blocks, made on one thread, to the  *)
(* thread that runs the function and releases them.                        *)
Give(t, x, u) ==
    /\ Idle(t)
    /\ owner[x] = t
    /\ owner' = [owner EXCEPT ![x] = u]
    /\ UNCHANGED <<objVars, ref, wptr, garbage, stack, faults>>

Calls(t) ==
    \/ \E s \in Strongs, o \in Objects \union {Nil} : SetBegin(t, s, o)
    \/ \E w \in Weaks, o \in Objects \union {Nil} : WeakBegin(t, w, o)
    \/ \E x \in Slots \union Weaks, u \in Threads \ {t} : Give(t, x, u)

Step(t) ==
    \/ SetRelease(t) \/ SetAssign(t)
    \/ WeakRead(t) \/ WeakUnreg(t) \/ WeakAssign(t)
    \/ DrainPop(t) \/ DrainDone(t)
    \/ DtorMembers(t) \/ DtorBase(t) \/ DtorFree(t)

Next == \E t \in Threads : Calls(t) \/ Step(t)

Spec == Init /\ [][Next]_vars

\* A thread inside an operation keeps running; nobody has to start one.
FairSpec == Spec /\ \A t \in Threads : WF_vars(Step(t))

-----------------------------------------------------------------------------
(* Properties.                                                             *)

\* The Strong::set calls under way, and the Strongs whose old object they have
\* already released but not overwritten
Setting(o) ==
    {t \in Threads : \E f \in Range(stack[t]) : f.op \in {"release", "assign"} /\ f.new = o}

Stale ==
    {s \in Strongs : \E t \in Threads : \E f \in Range(stack[t]) :
        f.op = "assign" /\ f.slot = s}

Claims(o) == {s \in Strongs \ Stale : ref[s] = o}

\* _retainCount is the number of Strongs on the object, counting a set() that has
\* retained it and not assigned it yet.
CountExact ==
    \A o \in Objects : rc[o] = Cardinality(Claims(o)) + Cardinality(Setting(o))

\* An object some Strong refers to is neither queued for deletion nor deleted.
HeldIsLive ==
    \A o \in Objects : Claims(o) \union Setting(o) # {} => st[o] = "live"

\* The destructors under way: thread and depth of the frame
Dtors ==
    {p \in UNION {{t} \X (1 .. Len(stack[t])) : t \in Threads} :
        stack[p[1]][p[2]].op \in DtorStages}

\* An object is deleted once: it is queued once, it leaves the queue before its
\* destructor, and one frame of one thread runs that destructor.
DeletedOnce ==
    /\ \A i, j \in 1 .. Len(garbage) : garbage[i] = garbage[j] => i = j
    /\ \A o \in Range(garbage) : st[o] = "queued"
    /\ \A p, q \in Dtors : stack[p[1]][p[2]].obj = stack[q[1]][q[2]].obj => p = q

\* Nothing queued for deletion is forgotten: it is in the queue, and some thread
\* has yet to drain that queue before it returns; and what has left the queue is
\* freed, or its destructor is still on some thread's stack.
Attended ==
    \A o \in Objects :
        /\ st[o] = "queued" =>
              o \in Range(garbage) /\ \E t \in Threads : DrainFrame \in Range(stack[t])
        /\ st[o] = "dying" =>
              \E t \in Threads : \E f \in Range(stack[t]) : f.op \in DtorStages /\ f.obj = o

\* Outside a set() that has unregistered it and is about to overwrite it, a Weak
\* never points at freed memory: whoever deletes the object, on whatever thread,
\* clears it first, and set() registers before it assigns.
Unregistered ==
    {w \in Weaks : \E t \in Threads : \E f \in Range(stack[t]) :
        f.op = "wassign" /\ f.slot = w}

WeakCleared ==
    \A w \in Weaks \ Unregistered : wptr[w] # Nil => st[wptr[w]] # "freed"

\* Weak reads its pointer outside the lock and then calls into the object.  That
\* call meets freed memory only when another thread deleted the object: a thread
\* is safe from its own drains, however deep the destructors nest.
OnlyOthersRace == \A x \in faults : deleter[x[2]] # x[1]

\* Whatever is queued for deletion is deleted.
Collected == \A o \in Objects : st[o] = "queued" ~> st[o] = "freed"
=============================================================================
