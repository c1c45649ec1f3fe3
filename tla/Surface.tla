------------------------------ MODULE Surface -------------------------------
(***************************************************************************)
(* A canvas element and its script contexts: KKSurfaceElement,             *)
(* KKSurfaceCanvasElement and KKSurfaceContext (src/KKSurface/KKSurface).  *)
(*                                                                         *)
(* The main thread installs a context when the element gets a view and     *)
(* recycles it when the view goes.  A context's blocks run on the thread   *)
(* of an owned DispatchQueue, or on the main thread between its other      *)
(* work when the queue is attached to a polled base.  Blocks hold the      *)
(* element weakly and keep it while they run; what a script asks of the    *)
(* element travels back to the main queue as an invocation that does not.  *)
(* The queue itself is DispatchQueue's: here it is a FIFO, and join() is   *)
(* "the break is queued, the loop has returned".                           *)
(***************************************************************************)
EXTENDS Integers, Sequences

CONSTANTS
    MaxContexts,   \* how many contexts are installed at most
    MaxCalls       \* bound on the events and script calls of a behaviour

ASSUME BoundsAssumption == MaxContexts \in Nat \ {0} /\ MaxCalls \in Nat

Contexts == 1..MaxContexts

VARIABLES
    elem,    \* the element: live, in dealloc, freed
    tree,    \* the view tree refers to it
    view,    \* it has a view
    layer,   \* the context whose image the view shows, 0 for none
    cur,     \* _context, 0 for nil
    ctx,     \* the contexts
    run,     \* per context, the block or call that runs, and whether it holds the element
    main,    \* what the main thread does, and what follows
    mq,      \* the main dispatch queue
    calls,   \* how many events and script calls there were
    fault    \* the first undefined behaviour that stops the model
             \* (a base freed under its users is recorded in the context)

vars == <<elem, tree, view, layer, cur, ctx, run, main, mq, calls, fault>>

Blocks == {"libs", "script", "canvas", "event", "draw", "break"}
NoBlock == [b |-> "none", e |-> FALSE]
Idle == [pc |-> "idle", then |-> "none"]

TypeOK ==
    /\ elem \in {"live", "dealloc", "freed"}
    /\ tree \in BOOLEAN /\ view \in BOOLEAN
    /\ layer \in {0} \cup Contexts /\ cur \in {0} \cup Contexts
    /\ ctx \in [Contexts ->
          [kind  : {"none", "owned", "attached"},
           st    : {"none", "live", "exited", "gone"},
           q     : Seq(Blocks),                       \* the queue's channel
           dns   : BOOLEAN,                           \* openlibs has run
           api   : SUBSET {"emit", "needs"},          \* what scripts can call
           early : BOOLEAN]]                          \* base freed before dns
    /\ run \in [Contexts -> [b : Blocks \cup {"none", "call"}, e : BOOLEAN]]
    /\ main \in [pc : {"idle", "block", "recycle", "join", "then"},
                 then : {"none", "owned", "attached", "noview", "nopath", "dealloc"}]
    /\ mq \in Seq([item : {"emit", "needs", "display", "image"}, c : {0} \cup Contexts])
    /\ calls \in 0..MaxCalls
    /\ fault \in {"none", "target", "selfjoin"}

Init ==
    /\ elem = "live" /\ tree = TRUE /\ view = FALSE /\ layer = 0 /\ cur = 0
    /\ ctx = [c \in Contexts |-> [kind |-> "none", st |-> "none", q |-> <<>>,
                                  dns |-> FALSE, api |-> {}, early |-> FALSE]]
    /\ run = [c \in Contexts |-> NoBlock]
    /\ main = Idle /\ mq = <<>> /\ calls = 0 /\ fault = "none"

------------------------------------------------------------------------------
Item(i, c) == [item |-> i, c |-> c]
Post(b) == [ctx EXCEPT ![cur].q = Append(@, b)]
Unused == {c \in Contexts : ctx[c].st = "none"}
Fresh == CHOOSE c \in Contexts : c \in Unused

(***************************************************************************)
(* The main thread                                                         *)
(***************************************************************************)
\* setView: uninstallSurface, then the view, then installSurface for a queue
\* named in the attributes, when there is a path
SetView(then) ==
    /\ main = Idle /\ tree
    /\ then \in {"owned", "attached"} => Unused # {}
    /\ main' = [pc |-> IF cur = 0 THEN "then" ELSE "recycle", then |-> then]
    /\ UNCHANGED <<elem, tree, view, layer, cur, ctx, run, mq, calls, fault>>

\* The tree lets the element go: dealloc, unless a block still holds it
DropTree ==
    /\ main = Idle /\ tree
    /\ tree' = FALSE
    /\ IF \E c \in Contexts : run[c].e
       THEN UNCHANGED <<elem, main>>
       ELSE /\ elem' = "dealloc"
            /\ main' = [pc |-> IF cur = 0 THEN "then" ELSE "recycle", then |-> "dealloc"]
    /\ UNCHANGED <<view, layer, cur, ctx, run, mq, calls, fault>>

\* Mutants of Recycle: an owned queue is told to break but not joined; the base
\* of an attached one is freed first
RecycleUnjoined ==
    /\ main.pc = "recycle"
    /\ ctx' = IF ctx[cur].kind = "owned" THEN Post("break")
              ELSE [ctx EXCEPT ![cur].st = "gone"]
    /\ cur' = 0
    /\ main' = [main EXCEPT !.pc = "then"]
    /\ UNCHANGED <<elem, tree, view, layer, run, mq, calls, fault>>

RecycleBaseFirst ==
    /\ main.pc = "recycle"
    /\ IF ctx[cur].kind = "owned"
       THEN /\ ctx' = Post("break") /\ main' = [main EXCEPT !.pc = "join"]
            /\ UNCHANGED cur
       ELSE /\ ctx' = [ctx EXCEPT ![cur].st = "gone", ![cur].early = TRUE] /\ cur' = 0
            /\ main' = [main EXCEPT !.pc = "then"]
    /\ UNCHANGED <<elem, tree, view, layer, run, mq, calls, fault>>

\* recycle: an attached queue is not joined, nor deleted, for nothing has retained
\* it and its release takes the count below zero; its base is freed under it
Recycle ==
    /\ main.pc = "recycle"
    /\ IF ctx[cur].kind = "owned"
       THEN /\ ctx' = Post("break") /\ main' = [main EXCEPT !.pc = "join"]
            /\ UNCHANGED cur
       ELSE /\ ctx' = [ctx EXCEPT ![cur].st = "gone"] /\ cur' = 0
            /\ main' = [main EXCEPT !.pc = "then"]
    /\ UNCHANGED <<elem, tree, view, layer, run, mq, calls, fault>>

\* join() has returned; the release of the queue frees its base before the
\* script context and the dns base that have events in it
Joined ==
    /\ main.pc = "join" /\ ctx[cur].st = "exited"
    /\ ctx' = [ctx EXCEPT ![cur].st = "gone", ![cur].early = ctx[cur].dns]
    /\ cur' = 0
    /\ main' = [main EXCEPT !.pc = "then"]
    /\ UNCHANGED <<elem, tree, view, layer, run, mq, calls, fault>>

\* The first openlibs is posted by the context's init; installSurface posts the
\* script twice and willInstallSurfaceContext the canvas; didInstall displays
Installed(kind) == [kind |-> kind, st |-> "live", q |-> <<"libs", "script", "canvas", "script">>,
                    dns |-> FALSE, api |-> {}, early |-> FALSE]

\* Mutant of Then: didInstallSurfaceContext does not display
ThenUndisplayed ==
    /\ main.pc = "then"
    /\ main' = Idle
    /\ layer' = 0
    /\ view' = (main.then \in {"owned", "attached", "nopath"})
    /\ elem' = IF main.then = "dealloc" THEN "freed" ELSE elem
    /\ IF main.then \in {"owned", "attached"}
       THEN /\ cur' = Fresh
            /\ ctx' = [ctx EXCEPT ![Fresh] = Installed(main.then)]
       ELSE UNCHANGED <<cur, ctx>>
    /\ UNCHANGED <<tree, run, mq, calls, fault>>

\* The rest of setView, or of dealloc
Then ==
    /\ main.pc = "then"
    /\ main' = Idle
    /\ layer' = 0
    /\ view' = (main.then \in {"owned", "attached", "nopath"})
    /\ elem' = IF main.then = "dealloc" THEN "freed" ELSE elem
    /\ IF main.then \in {"owned", "attached"}
       THEN /\ cur' = Fresh
            /\ ctx' = [ctx EXCEPT ![Fresh] = Installed(main.then)]
            /\ mq' = Append(mq, Item("display", 0))
       ELSE UNCHANGED <<cur, ctx, mq>>
    /\ UNCHANGED <<tree, run, calls, fault>>

\* changedKey, emit and didLayouted post a block; didLayouted also displays
Event(display) ==
    /\ main = Idle /\ tree /\ calls < MaxCalls
    /\ calls' = calls + 1
    /\ ctx' = IF cur = 0 THEN ctx ELSE Post("event")
    /\ mq' = IF display THEN Append(mq, Item("display", 0)) ELSE mq
    /\ UNCHANGED <<elem, tree, view, layer, cur, run, main, fault>>

\* An item of the main queue: the weak references of display and image are nil
\* when the element goes; the invocations of emit, which goes to the view tree
\* and not back to the script, and of setNeedsDisplay have a plain pointer.
\* _displaying is never set, so each setNeedsDisplay displays.
MainItem ==
    LET x == Head(mq) IN
    /\ main = Idle /\ mq # <<>>
    /\ IF x.item \in {"emit", "needs"} /\ elem # "live"
       THEN fault' = "target" /\ UNCHANGED <<layer, ctx, mq>>
       ELSE /\ mq' = IF x.item = "needs" THEN Append(Tail(mq), Item("display", 0)) ELSE Tail(mq)
            /\ layer' = IF x.item = "image" /\ elem = "live" /\ view THEN x.c ELSE layer
            /\ ctx' = IF x.item = "display" /\ elem = "live" /\ view /\ cur # 0
                      THEN Post("draw") ELSE ctx
            /\ UNCHANGED fault
    /\ UNCHANGED <<elem, tree, view, cur, run, main, calls>>

------------------------------------------------------------------------------
(***************************************************************************)
(* The context's queue, on its own thread or on the main thread            *)
(***************************************************************************)
\* An attached queue runs while the main thread polls it, which it stops at recycle
Polls(c, pc) == ctx[c].kind = "attached" => main.pc = pc

\* A block loads its weak reference; the context's own openlibs needs no element
BlockStart(c) ==
    LET b == Head(ctx[c].q)
        left == [ctx[c] EXCEPT !.q = Tail(@)]
        held == b \notin {"libs", "break"} /\ elem = "live"
    IN  /\ ctx[c].st = "live" /\ ctx[c].q # <<>> /\ run[c] = NoBlock /\ Polls(c, "idle")
        /\ ctx' = [ctx EXCEPT ![c] =
                     CASE b = "libs" -> [left EXCEPT !.dns = TRUE]
                       [] b = "break" -> [left EXCEPT !.st = "exited"]
                       [] OTHER -> left]
        /\ run' = IF held THEN [run EXCEPT ![c] = [b |-> b, e |-> TRUE]] ELSE run
        /\ main' = IF held /\ ctx[c].kind = "attached" THEN [main EXCEPT !.pc = "block"] ELSE main
        /\ UNCHANGED <<elem, tree, view, layer, cur, mq, calls, fault>>

\* A script, in a block or in a timer, calls surface.emit or surface.display.
\* The call keeps the element until it returns, unless it is in dealloc
ScriptCall(c, i) ==
    LET held == run[c] = NoBlock /\ elem = "live"
    IN  /\ ctx[c].st = "live" /\ i \in ctx[c].api /\ calls < MaxCalls
        /\ Polls(c, IF run[c] = NoBlock THEN "idle" ELSE "block")
        /\ calls' = calls + 1
        /\ mq' = Append(mq, Item(i, 0))
        /\ run' = IF held THEN [run EXCEPT ![c] = [b |-> "call", e |-> TRUE]] ELSE run
        /\ main' = IF held /\ ctx[c].kind = "attached" THEN [main EXCEPT !.pc = "block"] ELSE main
        /\ UNCHANGED <<elem, tree, view, layer, cur, ctx, fault>>

\* The block or call has done its work and lets the element go.  If that was the last
\* reference the element is deallocated here: recycle joins the thread it is on
BlockEnd(c) ==
    LET b == run[c].b IN
    /\ run[c].e
    /\ run' = [run EXCEPT ![c] = NoBlock]
    /\ ctx' = [ctx EXCEPT ![c].api =
                 CASE b = "script" -> @ \cup {"emit"}
                   [] b = "canvas" /\ "emit" \in @ -> @ \cup {"needs"}
                   [] OTHER -> @]
    /\ mq' = IF b = "draw" THEN Append(mq, Item("image", c)) ELSE mq
    /\ main' = IF ctx[c].kind = "attached" THEN Idle ELSE main
    /\ IF tree \/ \E d \in Contexts \ {c} : run[d].e
       THEN UNCHANGED <<elem, fault>>
       ELSE elem' = "dealloc" /\ fault' = "selfjoin"
    /\ UNCHANGED <<tree, view, layer, cur, calls>>

MainSteps == Recycle \/ Joined \/ Then \/ MainItem
LoopSteps(c) == BlockStart(c) \/ BlockEnd(c)

Next ==
    /\ fault = "none"
    /\ \/ \E then \in {"owned", "attached", "nopath", "noview"} : SetView(then)
       \/ DropTree
       \/ \E display \in BOOLEAN : Event(display)
       \/ MainSteps
       \/ \E c \in Contexts : \/ LoopSteps(c)
                              \/ \E i \in {"emit", "needs"} : ScriptCall(c, i)

Spec == Init /\ [][Next]_vars

\* The main run loop and the loop threads keep going, and a block returns
FairSpec ==
    /\ Spec
    /\ WF_vars(fault = "none" /\ MainSteps)
    /\ \A c \in Contexts : WF_vars(fault = "none" /\ LoopSteps(c))

------------------------------------------------------------------------------
\* A block that runs against e.context finds the context it was posted to, and
\* finds it whole: the main thread sets _context to nil or to the next context,
\* and frees the old one, only when no block of it can run any more
\* (KKSurfaceElement.mm 73-139, 316-334, KKSurfaceContext.mm 82-110).
CurrentContext ==
    /\ \A c \in Contexts : run[c].e =>
          cur = c /\ ctx[c].st = "live" /\ elem = "live"
    /\ \A c \in Contexts : ctx[c].st = "live" => c = cur

\* Undefined behaviour is reached only where the code leaves it open: a thread
\* joins itself only when a block or a script's call on an owned queue was the last
\* to hold an element whose context nobody recycled before (KKSurfaceElement.mm
\* 20-24, 316-326, KKSurfaceContext.mm 314-323); an invocation of emit or
\* setNeedsDisplay meets a dead element only if it was on the main queue when the
\* element went (KKSurfaceContext.mm 350-353), and no context is left that could post
\* another; and a base is freed before its users only on an owned queue (89-103): a
\* context on the main queue never joins itself, and its base is freed after all its
\* users but the queue, which is never deleted and which nothing of the context
\* reaches any more.
FaultsExplained ==
    /\ fault = "selfjoin" => ~tree /\ cur # 0 /\ ctx[cur].kind = "owned"
    /\ fault = "target" =>
          /\ ~tree /\ cur = 0 /\ elem = "freed"
          /\ \A c \in Contexts : ctx[c].st # "live" /\ run[c] = NoBlock
    /\ \A c \in Contexts : ctx[c].early => ctx[c].kind = "owned" /\ ctx[c].st = "gone"

\* Once a canvas shows an image of its own context, no image of an earlier one,
\* whose drawing was still on its way, takes its place
\* (KKSurfaceCanvasElement.mm 110-146).
NoStaleImage == [][layer # 0 /\ layer = cur /\ cur' = cur => layer' = layer]_vars

\* A canvas that is installed and stays gets an image of its own context, and
\* keeps one (KKSurfaceCanvasElement.mm 60-151).
Redrawn ==
    /\ NoStaleImage
    /\ \A c \in Contexts : cur = c ~> layer = c \/ cur # c \/ fault # "none"
=============================================================================
