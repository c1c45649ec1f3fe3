------------------------------ MODULE EvTimer ------------------------------
(***************************************************************************)
(* Script timers (kk-ev.cc): setTimeout, setInterval and clear over        *)
(* libevent's one-shot timers, in one duktape context on one loop thread.  *)
(*                                                                         *)
(* A Timer lives on the C++ heap.  A script object with the callback, whose *)
(* finalizer deletes the Timer, hangs under a property of the global       *)
(* object.  The property's name, which is also the id a script gets, is    *)
(* the Timer's address printed with %x, that is, its low 32 bits.          *)
(*                                                                         *)
(* External: libevent fires a pending event once; duktape finalizes an     *)
(* object at the moment its last reference goes.  An object is referred to *)
(* by its property and, while its callback runs, by the value stack.       *)
(***************************************************************************)
EXTENDS Naturals, FiniteSets

CONSTANTS
    Timers,        \* the Timers that may ever be created (a bound)
    Addrs,         \* where the allocator may put them, one at a time
    Keys,          \* property names
    KeyOf,         \* "__0x%x" of an address
    Nil

ASSUME NilAssumption == Nil \notin Timers /\ Nil \notin Addrs
ASSUME KeyAssumption == KeyOf \in [Addrs -> Keys]

VARIABLES
    \* Timers
    life,          \* "none", "live" or "freed"
    at,            \* its address
    repeats,       \* tv is not zero
    pending,       \* the Timers whose event is in the base
    \* the script's global object
    global,        \* per key: the Timer of the object under it
    \* the thread
    pc,            \* in the event loop, in a callback's function, in
                   \* ev_Timeout_cb after it, in undefined behaviour, or closed
    running,       \* the Timer of ev_Timeout_cb
    found,         \* the Timer of the object ev_Timeout_cb looked up
    \* history
    cleared,       \* Timers whose object a clear() took off its property
    evicted,       \* Timers whose object a younger Timer's took the property of
    calls,         \* how often each Timer's function was called, up to MaxCalls
    faults         \* Timers ev_Timeout_cb read after they had been deleted

timerVars  == <<life, at, repeats, pending>>
threadVars == <<pc, running, found>>
history    == <<cleared, evicted, calls, faults>>
vars == <<timerVars, global, threadVars, history>>

MaxCalls == 2

TypeOK ==
    /\ life \in [Timers -> {"none", "live", "freed"}]
    /\ at \in [Timers -> Addrs \union {Nil}]
    /\ repeats \in [Timers -> BOOLEAN]
    /\ pending \subseteq Timers
    /\ global \in [Keys -> Timers \union {Nil}]
    /\ pc \in {"loop", "fn", "after", "undefined", "closed"}
    /\ running \in Timers \union {Nil}
    /\ found \in Timers \union {Nil}
    /\ cleared \subseteq Timers /\ evicted \subseteq Timers
    /\ calls \in [Timers -> 0 .. MaxCalls]
    /\ faults \subseteq Timers

Init ==
    /\ life = [t \in Timers |-> "none"]
    /\ at = [t \in Timers |-> Nil]
    /\ repeats = [t \in Timers |-> FALSE]
    /\ pending = {}
    /\ global = [k \in Keys |-> Nil]
    /\ pc = "loop"
    /\ running = Nil /\ found = Nil
    /\ cleared = {} /\ evicted = {} /\ faults = {}
    /\ calls = [t \in Timers |-> 0]

-----------------------------------------------------------------------------
Key(t) == KeyOf[at[t]]

FreeAddrs == Addrs \ {at[t] : t \in {u \in Timers : life[u] = "live"}}

\* Mutant: the finalizer leaves the event in the base
FinalizeArmed(gone, mem, events) ==
    /\ life' = [t \in Timers |-> IF t \in gone THEN "freed" ELSE mem[t]]
    /\ pending' = events

\* Mutant: the finalizer frees the event only
FinalizeLeaks(gone, mem, events) ==
    /\ life' = mem
    /\ pending' = events \ gone

\* ev_Timer_dealloc of the objects that lost their last reference: delete the
\* event, then the Timer.  mem and events are life and pending before that.
Finalize(gone, mem, events) ==
    /\ life' = [t \in Timers |-> IF t \in gone THEN "freed" ELSE mem[t]]
    /\ pending' = events \ gone

\* What loses its last reference with the property k: nothing that the value
\* stack still holds
Unreferenced(k) == {global[k]} \ {Nil, found}

\* A script runs in a timer's function, or in any other callback of the loop
InScript == pc \in {"loop", "fn"}

\* ev_newTimer: a new Timer, its object under its key, its event in the base.  An
\* object already under that key is replaced.
NewTimer(rv) ==
    /\ InScript
    /\ \E t \in Timers, a \in FreeAddrs :
          /\ life[t] = "none"
          /\ at' = [at EXCEPT ![t] = a]
          /\ repeats' = [repeats EXCEPT ![t] = rv]
          /\ global' = [global EXCEPT ![KeyOf[a]] = t]
          /\ evicted' = evicted \union ({global[KeyOf[a]]} \ {Nil})
          /\ Finalize(Unreferenced(KeyOf[a]), [life EXCEPT ![t] = "live"],
                      pending \union {t})
    /\ UNCHANGED <<threadVars, cleared, calls, faults>>

SetTimeout == NewTimer(FALSE)

\* An interval of zero is a Timer that does not repeat
SetInterval == \E rv \in BOOLEAN : NewTimer(rv)

\* Mutant: clear() deletes the event and leaves the property
ClearEventOnly(t) ==
    /\ InScript
    /\ life[t] # "none"
    /\ pending' = pending \ {global[Key(t)]}
    /\ cleared' = cleared \union ({global[Key(t)]} \ {Nil})
    /\ UNCHANGED <<life, at, repeats, global, threadVars, evicted, calls, faults>>

\* clear(id), with the id that t's creation returned: delete the property.  The
\* object under it may be another Timer's by now.
Clear(t) ==
    /\ InScript
    /\ life[t] # "none"
    /\ global' = [global EXCEPT ![Key(t)] = Nil]
    /\ cleared' = cleared \union ({global[Key(t)]} \ {Nil})
    /\ Finalize(Unreferenced(Key(t)), life, pending)
    /\ UNCHANGED <<at, repeats, threadVars, evicted, calls, faults>>

-----------------------------------------------------------------------------
(* ev_Timeout_cb                                                           *)

Called(t) == [calls EXCEPT ![t] = IF @ < MaxCalls THEN @ + 1 ELSE @]

\* Mutant: the callback looks for its object under another name
FireMissing(t) ==
    /\ pc = "loop"
    /\ t \in pending
    /\ pending' = pending \ {t}
    /\ running' = t
    /\ pc' = "after"
    /\ UNCHANGED <<life, at, repeats, global, found, history>>

\* The event fires; the callback looks its object up and calls its function.
Fire(t) ==
    /\ pc = "loop"
    /\ t \in pending
    /\ pending' = pending \ {t}
    /\ running' = t
    /\ found' = global[Key(t)]
    /\ IF found' = Nil
       THEN pc' = "after" /\ UNCHANGED calls
       ELSE pc' = "fn" /\ calls' = Called(found')
    /\ UNCHANGED <<life, at, repeats, global, cleared, evicted, faults>>

\* Mutant: the property of a one-shot Timer is deleted before tv is read
FnReturnSpends ==
    /\ pc = "fn"
    /\ pc' = "after"
    /\ found' = Nil
    /\ LET spent == global[Key(found)] = found /\ ~repeats[found]
       IN  /\ global' = IF spent THEN [global EXCEPT ![Key(found)] = Nil] ELSE global
           /\ Finalize(IF global[Key(found)] = found /\ ~spent THEN {} ELSE {found},
                       life, pending)
    /\ UNCHANGED <<at, repeats, running, history>>

\* The function has returned or thrown; duk_pop_n drops the object, and finalizes
\* it if its property is gone.
FnReturn ==
    /\ pc = "fn"
    /\ pc' = "after"
    /\ found' = Nil
    /\ Finalize(IF global[Key(found)] = found THEN {} ELSE {found}, life, pending)
    /\ UNCHANGED <<at, repeats, running, global, history>>

\* tv reads as zero: delete the property.  A deleted Timer is read here too, and
\* then the outcome of the test is anything.
Spent ==
    /\ pc = "after"
    /\ ~repeats[running] \/ life[running] = "freed"
    /\ pc' = "loop"
    /\ running' = Nil
    /\ faults' = IF life[running] = "freed" THEN faults \union {running} ELSE faults
    /\ global' = [global EXCEPT ![Key(running)] = Nil]
    /\ Finalize(Unreferenced(Key(running)), life, pending)
    /\ UNCHANGED <<at, repeats, found, cleared, evicted, calls>>

\* Mutant: the repeating event is left to libevent
RearmForgotten ==
    /\ pc = "after"
    /\ repeats[running] /\ life[running] = "live"
    /\ pc' = "loop"
    /\ running' = Nil
    /\ UNCHANGED <<timerVars, global, found, history>>

\* tv reads as set: evtimer_add again
Rearm ==
    /\ pc = "after"
    /\ repeats[running] /\ life[running] = "live"
    /\ pc' = "loop"
    /\ running' = Nil
    /\ pending' = pending \union {running}
    /\ UNCHANGED <<life, at, repeats, global, found, history>>

\* tv of a deleted Timer reads as set: its deleted event goes to libevent
RearmFreed ==
    /\ pc = "after"
    /\ life[running] = "freed"
    /\ pc' = "undefined"
    /\ faults' = faults \union {running}
    /\ UNCHANGED <<timerVars, global, running, found, cleared, evicted, calls>>

\* duk_destroy_heap finalizes every object that is left
Close ==
    /\ pc = "loop"
    /\ pc' = "closed"
    /\ global' = [k \in Keys |-> Nil]
    /\ Finalize({t \in Timers : life[t] = "live"}, life, pending)
    /\ UNCHANGED <<at, repeats, running, found, history>>

-----------------------------------------------------------------------------
After == Spent \/ Rearm \/ RearmFreed

Next ==
    \/ SetTimeout \/ SetInterval
    \/ \E t \in Timers : Clear(t) \/ Fire(t)
    \/ FnReturn \/ After
    \/ Close

Spec == Init /\ [][Next]_vars

\* Functions return.  libevent serves its timers in the order of their deadlines,
\* so one that is pending again and again between callbacks gets its turn.
FairSpec ==
    /\ Spec
    /\ WF_vars(FnReturn) /\ WF_vars(After)
    /\ \A t \in Timers : SF_vars(Fire(t))

-----------------------------------------------------------------------------
(* Properties.                                                             *)

\* A Timer is alive exactly as long as its object has its property, or its
\* callback's value stack has it: nothing leaks, and nothing is deleted early.
Anchored(t) == global[Key(t)] = t \/ (pc = "fn" /\ found = t)

Owned == \A t \in Timers : life[t] # "none" => (life[t] = "live" <=> Anchored(t))

\* A pending event belongs to a live Timer, and its callback will find that
\* Timer's own object: never a freed one, never another timer's function.
PendingFindsItself == \A t \in pending : life[t] = "live" /\ global[Key(t)] = t

\* A live Timer is never forgotten: its event is pending or its callback runs.
NeverIdle == \A t \in Timers : life[t] = "live" => t \in pending \/ t = running

\* Once clear() has hit a timer its function is not called again, also when the
\* clear() came out of that very function and the tv of the deleted Timer reads as
\* unset.  Where it reads as set (RearmFreed) the event of freed memory goes back to
\* libevent, and the property says nothing of what comes after.
ClearedStaysSilent == [][pc # "fn" /\ pc' = "fn" => found' \notin cleared]_vars

\* A timer that does not repeat, setInterval with 0 included, is called once.
OnceOnly == \A t \in Timers : ~repeats[t] => calls[t] <= 1

\* ev_Timeout_cb reads a deleted Timer only when a clear() hit that Timer, or one
\* with an address that prints the same was made.
OnlyOwnFunctionFrees == faults \subseteq cleared \union evicted

\* A timer that was set is called, unless it is cleared, its key is taken or the
\* context is closed first, or a deleted Timer was read.  That an interval is called
\* again and again is left to NeverIdle: it is pending again after each call.
EveryTimerFires ==
    \A t \in Timers :
        t \in pending ~> \/ calls[t] > 0
                         \/ t \in cleared \union evicted
                         \/ pc = "closed" \/ faults # {}
=============================================================================
