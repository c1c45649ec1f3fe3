--------------------------- MODULE SurfaceProofs ----------------------------
(***************************************************************************)
(* Proofs about Surface, for any number of contexts and calls.             *)
(*                                                                         *)
(* SInv adds to the checked properties where a context can be in its life  *)
(* (LifeInv), what a running block means for the main thread (BlockInv),   *)
(* and what the main thread is in the middle of (MainInv).                 *)
(***************************************************************************)
EXTENDS Surface, TLAPS

LifeInv ==
    /\ \A c \in Contexts :
          /\ ctx[c].st = "live" => c = cur
          /\ ctx[c].st = "exited" => c = cur /\ main.pc = "join"
          /\ ctx[c].early => ctx[c].kind = "owned" /\ ctx[c].st = "gone"
    /\ cur # 0 => ctx[cur].st \in {"live", "exited"} /\ ctx[cur].kind \in {"owned", "attached"}

Breaking(q) == \E i \in 1..Len(q) : q[i] = "break"

\* Only join() posts a break, and only it waits for one to be run
BlockInv ==
    /\ \A c \in Contexts :
          /\ run[c].e => /\ cur = c /\ ctx[c].st = "live" /\ elem = "live"
                         /\ ctx[c].kind = "attached" => main.pc = "block"
          /\ ~run[c].e => run[c] = NoBlock
          /\ ctx[c].st = "live" /\ Breaking(ctx[c].q) => main.pc = "join"
    /\ main.pc = "block" => cur # 0 /\ ctx[cur].kind = "attached" /\ run[cur].e

MainInv ==
    /\ main.pc \in {"idle", "block"} => main.then = "none"
    /\ main.pc = "recycle" => cur # 0
    /\ main.pc = "join" => cur # 0 /\ ctx[cur].kind = "owned"
    /\ main.pc = "then" => cur = 0
    /\ main.then \in {"owned", "attached"} => Unused # {}
    /\ main.then = "dealloc" => elem = "dealloc"
    /\ elem = "dealloc" => main.then = "dealloc" \/ fault = "selfjoin"
    /\ elem = "freed" => cur = 0 /\ main.pc = "idle"
    /\ elem # "live" => ~tree
    \* only a block on an owned queue keeps an element the tree has let go
    /\ elem = "live" /\ ~tree =>
          main.pc = "idle" /\ cur # 0 /\ run[cur].e /\ ctx[cur].kind = "owned"

FaultInv ==
    /\ fault = "selfjoin" => ~tree /\ cur # 0 /\ ctx[cur].kind = "owned"
    /\ fault = "target" => ~tree /\ cur = 0 /\ elem = "freed"

SInv == TypeOK /\ LifeInv /\ BlockInv /\ MainInv /\ FaultInv

------------------------------------------------------------------------------
Context == [kind  : {"none", "owned", "attached"},
            st    : {"none", "live", "exited", "gone"},
            q     : Seq(Blocks),
            dns   : BOOLEAN,
            api   : SUBSET {"emit", "needs"},
            early : BOOLEAN]
Items == [item : {"emit", "needs", "display", "image"}, c : {0} \cup Contexts]

LEMMA ContextsTyped == TypeOK => ctx \in [Contexts -> Context]
  BY DEF TypeOK, Context

\* Replacing one context
LEMMA SetTyped ==
    ASSUME ctx \in [Contexts -> Context], NEW c \in Contexts, NEW r \in Context,
           ctx' = [ctx EXCEPT ![c] = r]
    PROVE  ctx' \in [Contexts -> Context]
  OBVIOUS

\* Posting a block to the current context
LEMMA PostTyped ==
    ASSUME TypeOK, cur # 0, NEW b \in Blocks
    PROVE  Post(b) \in [Contexts -> Context]
<1>1. cur \in Contexts /\ ctx[cur].q \in Seq(Blocks) /\ ctx \in [Contexts -> Context]
  BY ContextsTyped DEF TypeOK, Context
<1>2. Append(ctx[cur].q, b) \in Seq(Blocks)
  BY <1>1
<1>3. [ctx[cur] EXCEPT !.q = Append(ctx[cur].q, b)] \in Context
  BY <1>1, <1>2 DEF Context
<1>4. Post(b) = [ctx EXCEPT ![cur] = [ctx[cur] EXCEPT !.q = Append(ctx[cur].q, b)]]
  BY DEF Post
<1> QED
  BY <1>1, <1>3, <1>4

LEMMA BreakingFacts ==
    ASSUME NEW q \in Seq(Blocks), NEW b \in Blocks
    PROVE  /\ Breaking(Append(q, b)) <=> Breaking(q) \/ b = "break"
           /\ q # <<>> /\ Head(q) = "break" => Breaking(q)
           /\ q # <<>> /\ Breaking(Tail(q)) => Breaking(q)
<1>1. Breaking(Append(q, b)) <=> Breaking(q) \/ b = "break"
  <2>1. ASSUME Breaking(q) PROVE Breaking(Append(q, b))
    BY <2>1 DEF Breaking
  <2>2. ASSUME b = "break" PROVE Breaking(Append(q, b))
    <3>1. Len(q) + 1 \in 1..Len(Append(q, b)) /\ Append(q, b)[Len(q) + 1] = b
      OBVIOUS
    <3> QED
      BY <2>2, <3>1 DEF Breaking
  <2>3. ASSUME Breaking(Append(q, b)), b # "break" PROVE Breaking(q)
    BY <2>3 DEF Breaking
  <2> QED
    BY <2>1, <2>2, <2>3
<1>2. q # <<>> /\ Head(q) = "break" => Breaking(q)
  BY DEF Breaking
<1>3. ASSUME q # <<>>, Breaking(Tail(q)) PROVE Breaking(q)
  <2>1. PICK i \in 1..Len(Tail(q)) : Tail(q)[i] = "break"
    BY <1>3 DEF Breaking
  <2>2. i + 1 \in 1..Len(q) /\ q[i + 1] = "break"
    BY <1>3, <2>1
  <2> QED
    BY <2>2 DEF Breaking
<1> QED
  BY <1>1, <1>2, <1>3

\* What a post leaves alone
LEMMA PostEffect ==
    ASSUME TypeOK, cur # 0, NEW b \in Blocks, NEW d \in Contexts
    PROVE  /\ Post(b)[d].kind = ctx[d].kind /\ Post(b)[d].st = ctx[d].st
           /\ Post(b)[d].early = ctx[d].early
           /\ Breaking(Post(b)[d].q) <=> Breaking(ctx[d].q) \/ (d = cur /\ b = "break")
<1>1. cur \in Contexts /\ ctx[d].q \in Seq(Blocks) /\ ctx \in [Contexts -> Context]
  BY ContextsTyped DEF TypeOK, Context
<1>2. Post(b)[d].q = IF d = cur THEN Append(ctx[d].q, b) ELSE ctx[d].q
  BY <1>1 DEF Post, Context
<1> QED
  BY <1>1, <1>2, BreakingFacts DEF Post, Context

LEMMA ItemTyped ==
    ASSUME TypeOK, NEW i \in {"emit", "needs", "display", "image"}, NEW c \in {0} \cup Contexts
    PROVE  /\ Append(mq, Item(i, c)) \in Seq(Items)
           /\ mq # <<>> => /\ Tail(mq) \in Seq(Items) /\ Head(mq) \in Items
                           /\ Append(Tail(mq), Item(i, c)) \in Seq(Items)
<1>1. mq \in Seq(Items) /\ Item(i, c) \in Items
  BY DEF TypeOK, Items, Item
<1>2. mq # <<>> => Tail(mq) \in Seq(Items) /\ Head(mq) \in Items
  BY <1>1
<1> QED
  BY <1>1, <1>2

\* Types are invariant (KKSurfaceElement.mm, KKSurfaceCanvasElement.mm,
\* KKSurfaceContext.mm: every handler of the model).
LEMMA TypeStep == TypeOK /\ LifeInv /\ BlockInv /\ MainInv /\ Next => TypeOK'
<1> SUFFICES ASSUME TypeOK, LifeInv, BlockInv, MainInv, Next PROVE TypeOK'
  OBVIOUS
<1> USE BoundsAssumption
<1>0. ctx \in [Contexts -> Context] /\ mq \in Seq(Items)
  BY ContextsTyped DEF TypeOK, Items
<1>a. ASSUME ctx' \in [Contexts -> Context], mq' \in Seq(Items),
             elem' \in {"live", "dealloc", "freed"}, tree' \in BOOLEAN, view' \in BOOLEAN,
             layer' \in {0} \cup Contexts, cur' \in {0} \cup Contexts,
             run' \in [Contexts -> [b : Blocks \cup {"none", "call"}, e : BOOLEAN]],
             main' \in [pc : {"idle", "block", "recycle", "join", "then"},
                 then : {"none", "owned", "attached", "noview", "nopath", "dealloc"}],
             calls' \in 0..MaxCalls, fault' \in {"none", "target", "selfjoin"}
      PROVE TypeOK'
  BY <1>a DEF TypeOK, Context, Items
<1>1. ASSUME NEW then \in {"owned", "attached", "nopath", "noview"}, SetView(then)
      PROVE TypeOK'
  BY <1>0, <1>1, <1>a DEF SetView, TypeOK
<1>2. CASE DropTree
  <2>1. main' \in [pc : {"idle", "block", "recycle", "join", "then"},
                then : {"none", "owned", "attached", "noview", "nopath", "dealloc"}]
    <3>1. CASE cur = 0
      BY <1>2, <3>1 DEF DropTree, TypeOK
    <3>2. CASE cur # 0
      BY <1>2, <3>2 DEF DropTree, TypeOK
    <3> QED
      BY <3>1, <3>2
  <2> QED
    BY <1>0, <1>2, <1>a, <2>1 DEF DropTree, TypeOK
<1>3. CASE Recycle
  <2>1. cur \in Contexts
    BY <1>3 DEF Recycle, MainInv, TypeOK
  <2>2. ctx' \in [Contexts -> Context]
    <3>1. CASE ctx[cur].kind = "owned"
      BY <1>3, <2>1, <3>1, PostTyped DEF Recycle, Contexts, Blocks
    <3>2. CASE ctx[cur].kind # "owned"
      <4>1. ctx' = [ctx EXCEPT ![cur] = [ctx[cur] EXCEPT !.st = "gone"]]
        BY <1>3, <3>2 DEF Recycle
      <4>2. [ctx[cur] EXCEPT !.st = "gone"] \in Context
        BY <1>0, <2>1 DEF Context
      <4> QED
        BY <1>0, <2>1, <4>1, <4>2, SetTyped
    <3> QED
      BY <3>1, <3>2
  <2> QED
    BY <1>0, <1>3, <1>a, <2>2 DEF Recycle, TypeOK
<1>4. CASE Joined
  <2>1. cur \in Contexts
    BY <1>4 DEF Joined, MainInv, TypeOK
  <2>2. ctx' \in [Contexts -> Context]
    <3>1. ctx' = [ctx EXCEPT ![cur] = [ctx[cur] EXCEPT !.st = "gone", !.early = ctx[cur].dns]]
      BY <1>4, <1>0, <2>1 DEF Joined
    <3>2. [ctx[cur] EXCEPT !.st = "gone", !.early = ctx[cur].dns] \in Context
      BY <1>0, <2>1 DEF Context
    <3> QED
      BY <1>0, <2>1, <3>1, <3>2, SetTyped
  <2> QED
    BY <1>0, <1>4, <1>a, <2>2 DEF Joined, TypeOK
<1>5. CASE Then
  <2>1. CASE main.then \in {"owned", "attached"}
    <3>1. Fresh \in Contexts
      BY <2>1 DEF MainInv, Fresh, Unused
    <3>2. Installed(main.then) \in Context
      BY <2>1 DEF Installed, Context, Blocks
    <3>3. ctx' \in [Contexts -> Context] /\ cur' \in Contexts
      BY <1>0, <1>5, <2>1, <3>1, <3>2 DEF Then
    <3>4. mq' \in Seq(Items)
      BY <1>5, <2>1, ItemTyped DEF Then
    <3> QED
      BY <1>5, <1>a, <3>3, <3>4 DEF Then, TypeOK, Idle
  <2> QED
    BY <1>0, <1>5, <1>a, <2>1 DEF Then, TypeOK, Idle
<1>6. ASSUME NEW display \in BOOLEAN, Event(display) PROVE TypeOK'
  <2>1. ctx' \in [Contexts -> Context]
    BY <1>6, <1>0, PostTyped DEF Event, Blocks
  <2>2. mq' \in Seq(Items)
    BY <1>6, <1>0, ItemTyped DEF Event
  <2> QED
    BY <1>6, <1>a, <2>1, <2>2 DEF Event, TypeOK
<1>7. CASE MainItem
  <2>1. ctx' \in [Contexts -> Context]
    BY <1>7, <1>0, PostTyped DEF MainItem, Blocks
  <2>2. mq' \in Seq(Items) /\ Head(mq) \in Items
    BY <1>7, <1>0, ItemTyped DEF MainItem
  <2>3. layer' \in {0} \cup Contexts
    BY <1>7, <2>2 DEF MainItem, Items, TypeOK
  <2> QED
    BY <1>7, <1>a, <2>1, <2>2, <2>3 DEF MainItem, TypeOK
<1>8. ASSUME NEW c \in Contexts, BlockStart(c) PROVE TypeOK'
  <2>1. Head(ctx[c].q) \in Blocks /\ Tail(ctx[c].q) \in Seq(Blocks)
    <3>1. ctx[c].q \in Seq(Blocks) /\ ctx[c].q # <<>>
      BY <1>0, <1>8 DEF BlockStart, Context
    <3> QED
      BY <3>1
  <2>2. ctx' \in [Contexts -> Context]
    <3> DEFINE left == [ctx[c] EXCEPT !.q = Tail(@)]
               r == CASE Head(ctx[c].q) = "libs" -> [left EXCEPT !.dns = TRUE]
                      [] Head(ctx[c].q) = "break" -> [left EXCEPT !.st = "exited"]
                      [] OTHER -> left
    <3>1. ctx' = [ctx EXCEPT ![c] = r]
      BY <1>8 DEF BlockStart
    <3>2. left \in Context
      BY <1>0, <2>1 DEF Context
    <3>3. [left EXCEPT !.dns = TRUE] \in Context /\ [left EXCEPT !.st = "exited"] \in Context
      <4> HIDE DEF left
      <4> QED
        BY <3>2 DEF Context
    <3>4. r \in Context
      <4> HIDE DEF left
      <4> QED
        BY <3>2, <3>3
    <3> HIDE DEF r
    <3> QED
      BY <1>0, <3>1, <3>4, SetTyped
  <2>3. run' \in [Contexts -> [b : Blocks \cup {"none", "call"}, e : BOOLEAN]]
    BY <1>8, <2>1 DEF BlockStart, TypeOK
  <2> QED
    BY <1>0, <1>8, <1>a, <2>2, <2>3 DEF BlockStart, TypeOK
<1>9. ASSUME NEW c \in Contexts, BlockEnd(c) PROVE TypeOK'
  <2>1. ctx' \in [Contexts -> Context]
    <3> DEFINE a == CASE run[c].b = "script" -> ctx[c].api \cup {"emit"}
                      [] run[c].b = "canvas" /\ "emit" \in ctx[c].api -> ctx[c].api \cup {"needs"}
                      [] OTHER -> ctx[c].api
    <3>1. ctx' = [ctx EXCEPT ![c] = [ctx[c] EXCEPT !.api = a]]
      BY <1>0, <1>9 DEF BlockEnd
    <3>2. ctx[c] \in Context /\ ctx[c].api \in SUBSET {"emit", "needs"}
      BY <1>0 DEF Context
    <3>3. a \in SUBSET {"emit", "needs"}
      BY <3>2
    <3> HIDE DEF a
    <3>4. [ctx[c] EXCEPT !.api = a] \in Context
      BY <3>2, <3>3 DEF Context
    <3> QED
      BY <1>0, <3>1, <3>4, SetTyped
  <2>2. run' \in [Contexts -> [b : Blocks \cup {"none", "call"}, e : BOOLEAN]]
    BY <1>9 DEF BlockEnd, TypeOK, NoBlock
  <2>3. mq' \in Seq(Items)
    BY <1>0, <1>9, ItemTyped DEF BlockEnd
  <2> QED
    BY <1>9, <1>a, <2>1, <2>2, <2>3 DEF BlockEnd, TypeOK, Idle
<1>10. ASSUME NEW c \in Contexts, NEW i \in {"emit", "needs"}, ScriptCall(c, i)
       PROVE TypeOK'
  <2>1. mq' \in Seq(Items)
    BY <1>10, ItemTyped DEF ScriptCall
  <2>2. run' \in [Contexts -> [b : Blocks \cup {"none", "call"}, e : BOOLEAN]]
    BY <1>10 DEF ScriptCall, TypeOK
  <2>3. main' \in [pc : {"idle", "block", "recycle", "join", "then"},
                   then : {"none", "owned", "attached", "noview", "nopath", "dealloc"}]
    BY <1>10 DEF ScriptCall, TypeOK
  <2> QED
    BY <1>0, <1>10, <1>a, <2>1, <2>2, <2>3 DEF ScriptCall, TypeOK
<1> QED
  BY <1>1, <1>2, <1>3, <1>4, <1>5, <1>6, <1>7, <1>8, <1>9, <1>10
  DEF Next, MainSteps, LoopSteps

------------------------------------------------------------------------------
LEMMA InitInv == Init => SInv
<1> SUFFICES ASSUME Init PROVE SInv
  OBVIOUS
<1> USE DEF Init
<1>1. TypeOK
  <2>1. ctx \in [Contexts -> Context]
    BY DEF Context
  <2>2. mq \in Seq(Items) /\ main = Idle /\ calls \in 0..MaxCalls
    BY BoundsAssumption
  <2>3. run \in [Contexts -> [b : Blocks \cup {"none", "call"}, e : BOOLEAN]]
    BY DEF NoBlock
  <2>4. main \in [pc : {"idle", "block", "recycle", "join", "then"},
                  then : {"none", "owned", "attached", "noview", "nopath", "dealloc"}]
    BY <2>2 DEF Idle
  <2>5. cur = 0 /\ layer = 0 /\ elem = "live" /\ tree = TRUE /\ view = FALSE /\ fault = "none"
    OBVIOUS
  <2> HIDE DEF Init
  <2> QED
    BY <2>1, <2>2, <2>3, <2>4, <2>5 DEF TypeOK, Context, Items
<1>2. Unused = Contexts /\ 1 \in Contexts
  BY BoundsAssumption DEF Unused, Contexts
<1>3. LifeInv /\ BlockInv
  BY DEF LifeInv, BlockInv, Idle, NoBlock
<1> QED
  BY <1>1, <1>2, <1>3 DEF SInv, MainInv, FaultInv, Idle

\* The parts of a state that LifeInv, BlockInv and Unused depend on
Same(d) == /\ ctx'[d].kind = ctx[d].kind /\ ctx'[d].st = ctx[d].st
           /\ ctx'[d].early = ctx[d].early
           /\ Breaking(ctx'[d].q) <=> Breaking(ctx[d].q)

\* SInv is inductive
LEMMA InvStep == SInv /\ Next => SInv'
<1> SUFFICES ASSUME SInv, Next PROVE SInv'
  OBVIOUS
<1> USE DEF SInv
<1>0. TypeOK' /\ fault = "none" /\ ctx \in [Contexts -> Context]
  BY TypeStep, ContextsTyped DEF Next
<1> SUFFICES LifeInv' /\ BlockInv' /\ MainInv' /\ FaultInv'
  BY <1>0
<1>1. ASSUME NEW then \in {"owned", "attached", "nopath", "noview"}, SetView(then)
      PROVE LifeInv' /\ BlockInv' /\ MainInv' /\ FaultInv'
  <2> USE <1>0, <1>1 DEF SetView, Idle, TypeOK
  <2>1. LifeInv'
    BY DEF LifeInv
  <2>2. BlockInv'
    BY DEF BlockInv, LifeInv, NoBlock
  <2>3. MainInv'
    BY DEF MainInv, Unused
  <2> QED
    BY <2>1, <2>2, <2>3 DEF FaultInv
<1>2. CASE DropTree
  <2>0. /\ main = Idle /\ tree /\ ~tree' /\ elem = "live"
        /\ UNCHANGED <<view, layer, cur, ctx, run, mq, calls, fault>>
        /\ IF \E c \in Contexts : run[c].e THEN UNCHANGED <<elem, main>>
           ELSE /\ elem' = "dealloc" /\ main'.then = "dealloc"
                /\ main'.pc = IF cur = 0 THEN "then" ELSE "recycle"
    BY <1>2 DEF DropTree, MainInv
  <2>1. LifeInv'
    BY <2>0 DEF LifeInv, Idle
  <2>2. BlockInv'
    BY <2>0 DEF BlockInv, LifeInv, NoBlock, Idle
  <2>3. cur # 0 => ctx[cur].kind \in {"owned", "attached"}
    BY DEF LifeInv
  <2>4. \A c \in Contexts : run[c].e => c = cur /\ c # 0 /\ ctx[c].kind # "attached"
    BY <2>0, BoundsAssumption DEF BlockInv, Contexts, Idle
  <2>5. MainInv'
    BY <2>0, <2>3, <2>4 DEF MainInv, Unused, Idle
  <2> QED
    BY <2>0, <2>1, <2>2, <2>5, <1>0 DEF FaultInv
<1>3. CASE Recycle
  <2>0. /\ cur \in Contexts /\ cur # 0 /\ ctx[cur].st = "live" /\ main.pc = "recycle"
        /\ UNCHANGED <<elem, tree, view, layer, run, mq, calls, fault>>
    BY <1>3, BoundsAssumption DEF Recycle, MainInv, TypeOK, LifeInv, Contexts
  <2>a. CASE ctx[cur].kind = "owned"
    <3>1. /\ main'.pc = "join" /\ main'.then = main.then /\ cur' = cur
          /\ \A d \in Contexts : /\ ctx'[d].kind = ctx[d].kind /\ ctx'[d].st = ctx[d].st
                                 /\ ctx'[d].early = ctx[d].early
      BY <1>3, <2>0, <2>a, PostEffect DEF Recycle, Blocks, TypeOK
    <3>2. LifeInv' /\ BlockInv'
      BY <2>0, <2>a, <3>1 DEF LifeInv, BlockInv
    <3>3. MainInv'
      BY <2>0, <2>a, <3>1 DEF MainInv, Unused
    <3> QED
      BY <1>0, <2>0, <3>2, <3>3 DEF FaultInv
  <2>b. CASE ctx[cur].kind # "owned"
    <3>1. /\ main'.pc = "then" /\ main'.then = main.then /\ cur' = 0
          /\ \A d \in Contexts :
                /\ ctx'[d].kind = ctx[d].kind /\ ctx'[d].early = ctx[d].early
                /\ ctx'[d].q = ctx[d].q
                /\ ctx'[d].st = IF d = cur THEN "gone" ELSE ctx[d].st
      BY <1>0, <1>3, <2>0, <2>b DEF Recycle, TypeOK, Context
    <3>2. \A d \in Contexts : ~run[d].e
      BY <2>0, <2>b DEF BlockInv, LifeInv
    <3>3. LifeInv' /\ BlockInv'
      BY <2>0, <2>b, <3>1, <3>2 DEF LifeInv, BlockInv
    <3>4. MainInv'
      BY <2>0, <2>b, <3>1, <3>2 DEF MainInv, Unused
    <3> QED
      BY <1>0, <2>0, <3>3, <3>4 DEF FaultInv
  <2> QED
    BY <2>a, <2>b
<1>4. CASE Joined
  <2> USE <1>0, <1>4 DEF Joined, TypeOK
  <2>1. LifeInv'
    BY DEF LifeInv, MainInv
  <2>2. BlockInv'
    BY DEF BlockInv, LifeInv, NoBlock, MainInv
  <2>3. MainInv'
    BY DEF MainInv, Unused, LifeInv
  <2> QED
    BY <2>1, <2>2, <2>3 DEF FaultInv
<1>5. CASE Then
  <2>0. /\ main.pc = "then" /\ cur = 0 /\ main' = Idle
        /\ elem' = IF main.then = "dealloc" THEN "freed" ELSE elem
        /\ UNCHANGED <<tree, run, calls, fault>>
        /\ \A d \in Contexts : ~run[d].e /\ run[d] = NoBlock /\ ctx[d].st \notin {"live", "exited"}
    BY <1>5, BoundsAssumption DEF Then, MainInv, BlockInv, LifeInv, Contexts
  <2>a. CASE main.then \in {"owned", "attached"}
    <3>1. Fresh \in Contexts /\ ctx[Fresh].st = "none" /\ Fresh # 0
      BY <2>a, BoundsAssumption DEF MainInv, Fresh, Unused, Contexts
    <3>2. /\ cur' = Fresh /\ elem' = elem
          /\ \A d \in Contexts : ctx'[d] = IF d = Fresh THEN Installed(main.then) ELSE ctx[d]
      BY <1>0, <1>5, <2>0, <2>a, <3>1 DEF Then
    <3>3. /\ Installed(main.then).kind = main.then /\ Installed(main.then).st = "live"
          /\ ~Installed(main.then).early /\ ~Breaking(Installed(main.then).q)
      BY DEF Installed, Breaking
    <3>4. elem = "live" /\ tree
      BY <1>0, <2>0, <2>a DEF MainInv, TypeOK
    <3>5. LifeInv' /\ BlockInv'
      BY <2>0, <2>a, <3>1, <3>2, <3>3 DEF LifeInv, BlockInv, Idle
    <3>6. MainInv'
      BY <2>0, <2>a, <3>1, <3>2, <3>3, <3>4 DEF MainInv, Idle
    <3> QED
      BY <1>0, <2>0, <3>5, <3>6 DEF FaultInv
  <2>b. CASE main.then \notin {"owned", "attached"}
    <3>1. cur' = cur /\ ctx' = ctx
      BY <1>5, <2>b DEF Then
    <3>2. LifeInv' /\ BlockInv'
      BY <2>0, <3>1 DEF LifeInv, BlockInv, Idle
    <3>3. MainInv'
      BY <1>0, <2>0, <2>b, <3>1 DEF MainInv, Idle, TypeOK
    <3> QED
      BY <1>0, <2>0, <3>2, <3>3 DEF FaultInv
  <2> QED
    BY <2>a, <2>b
<1>6. ASSUME NEW display \in BOOLEAN, Event(display)
      PROVE LifeInv' /\ BlockInv' /\ MainInv' /\ FaultInv'
  <2>0. /\ UNCHANGED <<elem, tree, cur, run, main, fault>>
        /\ \A d \in Contexts : Same(d)
    BY <1>6, PostEffect DEF Event, Same, Blocks
  <2>1. LifeInv' /\ BlockInv'
    BY <2>0 DEF LifeInv, BlockInv, Same, TypeOK
  <2>2. MainInv'
    <3>1. Unused' = Unused
      BY <2>0 DEF Unused, Same
    <3>2. cur # 0 => Same(cur)
      BY <2>0 DEF TypeOK
    <3> QED
      BY <2>0, <3>1, <3>2 DEF MainInv, Same
  <2> QED
    BY <1>0, <2>0, <2>1, <2>2 DEF FaultInv
<1>7. CASE MainItem
  <2>0. /\ UNCHANGED <<elem, tree, cur, run, main>> /\ main = Idle
        /\ \A d \in Contexts : Same(d)
        /\ fault' = "none" \/ (fault' = "target" /\ elem # "live")
    BY <1>0, <1>7, PostEffect DEF MainItem, Same, Blocks
  <2>1. LifeInv' /\ BlockInv'
    BY <2>0 DEF LifeInv, BlockInv, Same, TypeOK
  <2>2. MainInv'
    BY <1>0, <2>0 DEF MainInv, Unused, Same, TypeOK, Idle
  <2>3. FaultInv'
    BY <1>0, <2>0 DEF FaultInv, MainInv, Idle, TypeOK
  <2> QED
    BY <2>1, <2>2, <2>3
<1>8. ASSUME NEW c \in Contexts, BlockStart(c)
      PROVE LifeInv' /\ BlockInv' /\ MainInv' /\ FaultInv'
  <2> DEFINE b == Head(ctx[c].q)
             held == b \notin {"libs", "break"} /\ elem = "live"
  <2>0. /\ c = cur /\ c # 0 /\ run[c] = NoBlock /\ ctx[c].st = "live"
        /\ ctx[c].kind \in {"owned", "attached"}
        /\ ctx[c].kind = "attached" => main.pc = "idle"
        /\ UNCHANGED <<elem, tree, cur, fault>>
    BY <1>8, BoundsAssumption DEF BlockStart, Polls, LifeInv, Contexts
  <2>1. /\ b = "break" => Breaking(ctx[c].q)
        /\ Breaking(Tail(ctx[c].q)) => Breaking(ctx[c].q)
    <3>1. ctx[c].q \in Seq(Blocks) /\ ctx[c].q # <<>> /\ "libs" \in Blocks
      BY <1>0, <1>8 DEF BlockStart, Context, Blocks
    <3> QED
      BY <3>1, BreakingFacts
  <2>2. \A d \in Contexts : /\ ctx'[d].kind = ctx[d].kind /\ ctx'[d].early = ctx[d].early
                            /\ d # c => ctx'[d] = ctx[d]
    BY <1>0, <1>8 DEF BlockStart, Context
  <2>3. /\ ctx'[c].q = Tail(ctx[c].q)
        /\ ctx'[c].st = IF b = "break" THEN "exited" ELSE "live"
    BY <1>0, <1>8, <2>0 DEF BlockStart, Context
  <2>4. \A d \in Contexts : run'[d] = IF held /\ d = c THEN [b |-> b, e |-> TRUE] ELSE run[d]
    BY <1>8 DEF BlockStart, TypeOK
  <2>5. /\ main'.then = main.then
        /\ main'.pc = IF held /\ ctx[c].kind = "attached" THEN "block" ELSE main.pc
    BY <1>8 DEF BlockStart, TypeOK
  <2>6. /\ main.pc = "join" \/ ~Breaking(ctx[c].q)
        /\ \A d \in Contexts : d # c => ~run[d].e /\ ctx[d].st \notin {"live", "exited"}
        /\ ~run[c].e
        /\ main.pc # "block"
    BY <2>0 DEF BlockInv, LifeInv, NoBlock
  <2> HIDE DEF b
  <2>7. LifeInv'
    BY <2>0, <2>1, <2>2, <2>3, <2>5, <2>6 DEF LifeInv
  <2>8. BlockInv'
    <3>1. \A d \in Contexts : run'[d].e => d = c /\ held
      BY <2>4, <2>6
    <3>2. held => run'[c].e
      BY <2>4
    <3> QED
      BY <2>0, <2>1, <2>2, <2>3, <2>4, <2>5, <2>6, <3>1, <3>2 DEF BlockInv
  <2>9. MainInv'
    <3>1. Unused' = Unused
      BY <2>0, <2>2, <2>3 DEF Unused
    <3>2. elem = "live" /\ ~tree => FALSE
      BY <2>0, <2>6 DEF MainInv
    <3>3. held /\ ctx[c].kind = "attached" => main.then = "none"
      BY <2>0 DEF MainInv
    <3> QED
      BY <2>0, <2>2, <2>5, <3>1, <3>2, <3>3 DEF MainInv
  <2> QED
    BY <1>0, <2>0, <2>7, <2>8, <2>9 DEF FaultInv
<1>9. ASSUME NEW c \in Contexts, BlockEnd(c)
      PROVE LifeInv' /\ BlockInv' /\ MainInv' /\ FaultInv'
  <2> USE <1>0, <1>9 DEF BlockEnd, TypeOK
  <2>0. c = cur /\ c # 0 /\ elem = "live"
    BY BoundsAssumption DEF BlockInv, Contexts
  <2>1. LifeInv'
    BY <2>0 DEF LifeInv, BlockInv
  <2>2. BlockInv'
    BY <2>0 DEF BlockInv, LifeInv, NoBlock, Idle
  <2>3. MainInv'
    BY <2>0 DEF MainInv, Unused, Idle, BlockInv
  <2>4. FaultInv'
    BY <2>0 DEF FaultInv, MainInv
  <2> QED
    BY <2>1, <2>2, <2>3, <2>4
<1>10. ASSUME NEW c \in Contexts, NEW i \in {"emit", "needs"}, ScriptCall(c, i)
       PROVE LifeInv' /\ BlockInv' /\ MainInv' /\ FaultInv'
  <2> DEFINE held == run[c] = NoBlock /\ elem = "live"
  <2>0. /\ c = cur /\ c # 0 /\ ctx[c].st = "live" /\ ctx[c].kind \in {"owned", "attached"}
        /\ held /\ ctx[c].kind = "attached" => main.pc = "idle"
        /\ UNCHANGED <<elem, tree, cur, ctx, fault>>
    BY <1>10, BoundsAssumption DEF ScriptCall, Polls, LifeInv, Contexts
  <2>1. \A d \in Contexts : run'[d] = IF held /\ d = c THEN [b |-> "call", e |-> TRUE] ELSE run[d]
    BY <1>10 DEF ScriptCall, TypeOK
  <2>2. /\ main'.then = main.then
        /\ main'.pc = IF held /\ ctx[c].kind = "attached" THEN "block" ELSE main.pc
    BY <1>10 DEF ScriptCall, TypeOK
  <2>3. held => main.pc # "block" /\ ~run[c].e
    BY <2>0 DEF BlockInv, NoBlock
  <2>4. LifeInv'
    BY <2>0, <2>2 DEF LifeInv
  <2>5. BlockInv'
    <3>1. Breaking(ctx[c].q) => main.pc = "join"
      BY <2>0 DEF BlockInv
    <3> QED
      BY <2>0, <2>1, <2>2, <2>3, <3>1 DEF BlockInv
  <2>6. MainInv'
    <3>1. Unused' = Unused
      BY <2>0 DEF Unused
    <3>2. held => tree
      BY <2>0, <2>3 DEF MainInv
    <3> QED
      BY <2>0, <2>1, <2>2, <3>1, <3>2 DEF MainInv
  <2> QED
    BY <1>0, <2>0, <2>4, <2>5, <2>6 DEF FaultInv
<1> QED
  BY <1>1, <1>2, <1>3, <1>4, <1>5, <1>6, <1>7, <1>8, <1>9, <1>10
  DEF Next, MainSteps, LoopSteps

LEMMA Invariance == Spec => []SInv
<1>1. SInv /\ UNCHANGED vars => SInv'
  BY DEF SInv, TypeOK, LifeInv, BlockInv, MainInv, FaultInv, Unused, vars
<1> QED
  BY InitInv, InvStep, <1>1, PTL DEF Spec

\* Every reachable state of the element and its contexts is well typed
\* (KKSurfaceElement.mm, KKSurfaceCanvasElement.mm, KKSurfaceContext.mm).
THEOREM TypeCorrect == Spec => []TypeOK
  BY Invariance, PTL DEF SInv

\* A block that holds the element runs against the context it was posted to,
\* and that context is whole (KKSurfaceElement.mm 73-139, 316-334).
THEOREM BlocksMeetTheirContext == Spec => []CurrentContext
<1>1. SInv => CurrentContext
  BY DEF SInv, LifeInv, BlockInv, CurrentContext
<1> QED
  BY <1>1, Invariance, PTL

\* A self-join, a call to a dead target and a base freed early have no other
\* cause than those FaultsExplained names (KKSurfaceElement.mm 20-24,
\* KKSurfaceContext.mm 89-103, 314-323, 350-353).
THEOREM FaultsBounded == Spec => []FaultsExplained
<1>1. SInv => FaultsExplained
  <2> SUFFICES ASSUME SInv PROVE FaultsExplained
    OBVIOUS
  <2>1. fault = "target" =>
          \A c \in Contexts : ctx[c].st # "live" /\ run[c] = NoBlock
    BY BoundsAssumption DEF SInv, FaultInv, LifeInv, BlockInv, Contexts
  <2> QED
    BY <2>1 DEF SInv, FaultInv, LifeInv, FaultsExplained
<1> QED
  BY <1>1, Invariance, PTL

------------------------------------------------------------------------------
\* On the main queue the images of the current context are behind all others,
\* and once one of them is shown the others are gone
InOrder(q, shown, c) ==
    /\ \A i, j \in 1..Len(q) :
          i < j /\ q[i].item = "image" /\ q[j].item = "image" /\ q[i].c = c => q[j].c = c
    /\ shown # 0 /\ shown = c => \A i \in 1..Len(q) : q[i].item = "image" => q[i].c = c

\* Images are of contexts that were installed
OfInstalled(q) == \A i \in 1..Len(q) : q[i].item = "image" =>
                     q[i].c # 0 /\ ctx[q[i].c].st # "none"

ImageInv == InOrder(mq, layer, cur) /\ OfInstalled(mq)

LEMMA AppendInOrder ==
    ASSUME NEW q \in Seq(Items), NEW x \in Items, NEW shown, NEW c, InOrder(q, shown, c),
           x.item = "image" => x.c = c
    PROVE  InOrder(Append(q, x), shown, c)
<1>1. /\ Len(Append(q, x)) = Len(q) + 1
      /\ \A i \in 1..Len(q) + 1 : Append(q, x)[i] = IF i <= Len(q) THEN q[i] ELSE x
  OBVIOUS
<1>2. Len(q) \in Nat
  OBVIOUS
<1> QED
  BY <1>1, <1>2 DEF InOrder

LEMMA AppendOfInstalled ==
    ASSUME NEW q \in Seq(Items), NEW x \in Items, OfInstalled(q),
           x.item = "image" => x.c # 0 /\ ctx[x.c].st # "none"
    PROVE  OfInstalled(Append(q, x))
<1>1. /\ Len(Append(q, x)) = Len(q) + 1
      /\ \A i \in 1..Len(q) + 1 : Append(q, x)[i] = IF i <= Len(q) THEN q[i] ELSE x
  OBVIOUS
<1>2. Len(q) \in Nat
  OBVIOUS
<1> QED
  BY <1>1, <1>2 DEF OfInstalled

LEMMA TailInOrder ==
    ASSUME NEW q \in Seq(Items), q # <<>>, NEW shown, NEW c, InOrder(q, shown, c)
    PROVE  /\ InOrder(Tail(q), shown, c)
           /\ Head(q).item = "image" => InOrder(Tail(q), Head(q).c, c)
           /\ OfInstalled(q) => OfInstalled(Tail(q))
<1>1. /\ Len(q) \in Nat /\ Len(Tail(q)) = Len(q) - 1 /\ Head(q) = q[1] /\ Len(q) >= 1
      /\ \A i \in 1..Len(q) - 1 : Tail(q)[i] = q[i + 1] /\ i + 1 \in 1..Len(q) /\ 1 < i + 1
  OBVIOUS
<1>2. \A i \in 1..Len(q) - 1, j \in 1..Len(q) - 1 : i < j => i + 1 < j + 1
  BY <1>1
<1> QED
  BY <1>1, <1>2 DEF InOrder, OfInstalled

\* A step keeps the order of the images, and shows none of another context in
\* place of the current one's
LEMMA ImageStep ==
    SInv /\ ImageInv /\ Next =>
        ImageInv' /\ (layer # 0 /\ layer = cur /\ cur' = cur => layer' = layer)
<1> SUFFICES ASSUME SInv, ImageInv, Next
             PROVE  /\ ImageInv'
                    /\ layer # 0 /\ layer = cur /\ cur' = cur => layer' = layer
  OBVIOUS
<1>0. /\ fault = "none" /\ ctx \in [Contexts -> Context] /\ mq \in Seq(Items)
      /\ cur \in {0} \cup Contexts /\ layer \in {0} \cup Contexts /\ TypeOK
      /\ 0 \notin Contexts
  BY ContextsTyped, BoundsAssumption DEF Next, SInv, TypeOK, Items, Contexts
<1> DEFINE Kept == \A d \in Contexts : ctx[d].st # "none" => ctx'[d].st # "none"
<1>a. ASSUME NEW q \in Seq(Items), OfInstalled(q), Kept, mq' = q PROVE OfInstalled(mq)'
  <2>1. \A i \in 1..Len(q) : q[i] \in Items
    OBVIOUS
  <2> QED
    BY <1>a, <2>1 DEF OfInstalled, Items
\* Steps that leave the main queue alone
<1>b. ASSUME mq' = mq, layer' = layer, cur' \in {0, cur}, Kept PROVE ImageInv'
  <2>1. InOrder(mq, layer, 0)
    BY <1>0 DEF ImageInv, InOrder, OfInstalled
  <2> QED
    BY <1>0, <1>a, <1>b, <2>1 DEF ImageInv
\* Steps that queue something
<1>c. ASSUME NEW x \in Items, mq' = Append(mq, x), layer' = layer, cur' = cur, Kept,
             x.item = "image" => x.c = cur /\ cur \in Contexts /\ ctx[cur].st # "none"
      PROVE  ImageInv'
  <2>1. OfInstalled(Append(mq, x)) /\ InOrder(Append(mq, x), layer, cur)
    BY <1>0, <1>c, AppendInOrder, AppendOfInstalled DEF ImageInv
  <2>2. Append(mq, x) \in Seq(Items)
    BY <1>0
  <2>3. OfInstalled(mq)'
    BY <1>a, <1>c, <2>1, <2>2
  <2> QED
    BY <1>c, <2>1, <2>3 DEF ImageInv
<1>1. ASSUME NEW then \in {"owned", "attached", "nopath", "noview"}, SetView(then)
      PROVE  ImageInv' /\ layer' = layer
  BY <1>1, <1>b DEF SetView
<1>2. CASE DropTree
  BY <1>2, <1>b DEF DropTree
<1>3. CASE Recycle
  <2>1. Kept
    BY <1>0, <1>3, PostEffect DEF Recycle, Blocks, SInv, MainInv, Context
  <2> QED
    BY <1>3, <1>b, <2>1 DEF Recycle
<1>4. CASE Joined
  <2>1. Kept
    BY <1>0, <1>4 DEF Joined, Context
  <2> QED
    BY <1>4, <1>b, <2>1 DEF Joined
<1>5. CASE Then
  <2>1. cur = 0 /\ layer' = 0
    BY <1>5 DEF Then, SInv, MainInv
  <2>a. CASE main.then \in {"owned", "attached"}
    <3>1. Fresh \in Contexts /\ ctx[Fresh].st = "none"
      BY <2>a DEF SInv, MainInv, Fresh, Unused
    <3>2. /\ cur' = Fresh /\ mq' = Append(mq, Item("display", 0)) /\ Kept
      BY <1>0, <1>5, <2>a, <3>1 DEF Then, Installed, Context
    <3>3. InOrder(mq, 0, Fresh)
      BY <3>1 DEF ImageInv, InOrder, OfInstalled
    <3>4. Item("display", 0) \in Items /\ Item("display", 0).item # "image"
      BY DEF Item, Items
    <3>5. /\ InOrder(Append(mq, Item("display", 0)), 0, Fresh)
          /\ OfInstalled(Append(mq, Item("display", 0)))
      BY <1>0, <3>3, <3>4, AppendInOrder, AppendOfInstalled DEF ImageInv
    <3>6. Append(mq, Item("display", 0)) \in Seq(Items)
      BY <1>0, <3>4
    <3>7. OfInstalled(mq)'
      BY <1>a, <3>2, <3>5, <3>6
    <3>8. ImageInv'
      BY <2>1, <3>2, <3>5, <3>7 DEF ImageInv
    <3> QED
      BY <2>1, <1>0, <3>8
  <2>b. CASE main.then \notin {"owned", "attached"}
    <3>1. cur' = cur /\ mq' = mq /\ Kept
      BY <1>5, <2>b DEF Then
    <3>2. InOrder(mq, 0, cur)
      BY DEF ImageInv, InOrder
    <3> QED
      BY <1>0, <1>a, <2>1, <3>1, <3>2 DEF ImageInv
  <2> QED
    BY <2>a, <2>b
<1>6. ASSUME NEW display \in BOOLEAN, Event(display) PROVE ImageInv' /\ layer' = layer
  <2>1. Kept /\ layer' = layer /\ cur' = cur
    BY <1>0, <1>6, PostEffect DEF Event, Blocks
  <2>2. Item("display", 0) \in Items /\ Item("display", 0).item # "image"
    BY DEF Item, Items
  <2> QED
    BY <1>6, <1>b, <1>c, <2>1, <2>2 DEF Event
<1>7. CASE MainItem
  <2>1. /\ Kept /\ cur' = cur /\ mq # <<>>
    BY <1>0, <1>7, PostEffect DEF MainItem, Blocks
  <2>2. CASE mq' = mq /\ layer' = layer
    BY <1>b, <2>1, <2>2
  <2>3. CASE ~(mq' = mq /\ layer' = layer)
    <3> DEFINE x == Head(mq)
    <3>1. /\ layer' = layer \/ (x.item = "image" /\ layer' = x.c)
          /\ mq' = Tail(mq) \/ mq' = Append(Tail(mq), Item("display", 0))
      BY <1>7, <2>3 DEF MainItem
    <3>2. Tail(mq) \in Seq(Items) /\ Item("display", 0) \in Items /\ Item("display", 0).item # "image"
      BY <1>0, <2>1 DEF Item, Items
    <3>3. InOrder(Tail(mq), layer', cur) /\ OfInstalled(Tail(mq))
      BY <1>0, <2>1, <3>1, TailInOrder DEF ImageInv
    <3>4. mq' \in Seq(Items) /\ InOrder(mq', layer', cur) /\ OfInstalled(mq')
      <4> DEFINE t == Tail(mq)
                 d == Item("display", 0)
      <4>1. t \in Seq(Items) /\ d \in Items /\ d.item # "image"
            /\ InOrder(t, layer', cur) /\ OfInstalled(t)
        BY <3>2, <3>3
      <4>2. mq' = t \/ mq' = Append(t, d)
        BY <3>1
      <4> HIDE DEF t, d
      <4>3. Append(t, d) \in Seq(Items)
        BY <4>1
      <4>4. InOrder(Append(t, d), layer', cur)
        BY <4>1, AppendInOrder
      <4>5. OfInstalled(Append(t, d))
        BY <4>1, AppendOfInstalled
      <4> QED
        BY <4>1, <4>2, <4>3, <4>4, <4>5
    <3>5. layer # 0 /\ layer = cur => layer' = layer
      <4>1. 1 \in 1..Len(mq) /\ mq[1] = Head(mq)
        BY <1>0, <2>1
      <4> QED
        BY <3>1, <4>1 DEF ImageInv, InOrder
    <3> HIDE DEF x
    <3> QED
      BY <1>a, <2>1, <3>4, <3>5 DEF ImageInv
  <2> QED
    BY <2>2, <2>3
<1>8. ASSUME NEW c \in Contexts, BlockStart(c) PROVE ImageInv' /\ layer' = layer
  <2>1. Kept
    BY <1>0, <1>8 DEF BlockStart, Context
  <2> QED
    BY <1>8, <1>b, <2>1 DEF BlockStart
<1>9. ASSUME NEW c \in Contexts, BlockEnd(c) PROVE ImageInv' /\ layer' = layer
  <2>1. Kept
    BY <1>0, <1>9 DEF BlockEnd, Context
  <2>2. c = cur /\ ctx[c].st = "live"
    BY <1>9 DEF BlockEnd, SInv, BlockInv
  <2>3. Item("image", c) \in Items /\ Item("image", c).c = c
    BY DEF Item, Items
  <2> QED
    BY <1>9, <1>b, <1>c, <2>1, <2>2, <2>3 DEF BlockEnd
<1>10. ASSUME NEW c \in Contexts, NEW i \in {"emit", "needs"}, ScriptCall(c, i)
       PROVE  ImageInv' /\ layer' = layer
  <2>1. Item(i, 0) \in Items /\ Item(i, 0).item # "image"
    BY DEF Item, Items
  <2> QED
    BY <1>10, <1>c, <2>1 DEF ScriptCall
<1> QED
  BY <1>1, <1>2, <1>3, <1>4, <1>5, <1>6, <1>7, <1>8, <1>9, <1>10
  DEF Next, MainSteps, LoopSteps, DropTree, Recycle, Joined

\* An image of an earlier context, still on its way through the main queue,
\* never replaces one of the current context (KKSurfaceCanvasElement.mm 110-146).
THEOREM ImagesInOrder == Spec => NoStaleImage
<1>1. Init => ImageInv
  BY DEF Init, ImageInv, InOrder, OfInstalled
<1>2. SInv /\ ImageInv /\ [Next]_vars =>
          ImageInv' /\ [layer # 0 /\ layer = cur /\ cur' = cur => layer' = layer]_vars
  BY ImageStep DEF vars, ImageInv, InOrder, OfInstalled
<1> QED
  BY <1>1, <1>2, Invariance, PTL DEF Spec, NoStaleImage

------------------------------------------------------------------------------
(***************************************************************************)
(* A canvas is never left without an image of its context on its way: the  *)
(* half of Redrawn that no scheduling is needed for.                       *)
(***************************************************************************)
Has(s, x) == \E i \in 1..Len(s) : s[i] = x

Drawing(c) ==
    \/ Has(mq, Item("display", 0))      \* displayed: will post a draw
    \/ Has(ctx[c].q, "draw")            \* posted
    \/ run[c].e /\ run[c].b = "draw"    \* drawn at this moment
    \/ Has(mq, Item("image", c))        \* drawn: on its way to the view

\* Since the display of didInstallSurfaceContext, no step of the main thread or
\* of the context's queue drops the redraw between displaying it, posting it,
\* drawing it and showing its image (KKSurfaceCanvasElement.mm 60-151).
DrawingAhead ==
    cur # 0 /\ elem = "live" /\ fault = "none" => view /\ (layer = cur \/ Drawing(cur))

LEMMA HasAppend ==
    ASSUME NEW S, NEW s \in Seq(S), NEW y \in S, NEW x
    PROVE  Has(Append(s, y), x) <=> Has(s, x) \/ x = y
<1>1. /\ Len(s) \in Nat /\ Len(Append(s, y)) = Len(s) + 1
      /\ \A i \in 1..Len(s) : Append(s, y)[i] = s[i]
      /\ Append(s, y)[Len(s) + 1] = y
  OBVIOUS
<1>2. \A i \in 1..(Len(s) + 1) : i \in 1..Len(s) \/ i = Len(s) + 1
  BY <1>1
<1>3. Len(s) + 1 \in 1..(Len(s) + 1) /\ \A i \in 1..Len(s) : i \in 1..(Len(s) + 1)
  BY <1>1
<1> QED
  BY <1>1, <1>2, <1>3 DEF Has

LEMMA HasHead ==
    ASSUME NEW S, NEW s \in Seq(S), s # <<>>, NEW x
    PROVE  Has(s, x) <=> Head(s) = x \/ Has(Tail(s), x)
<1>1. /\ Len(s) \in Nat \ {0} /\ Len(Tail(s)) = Len(s) - 1 /\ Head(s) = s[1]
      /\ \A i \in 1..Len(Tail(s)) : Tail(s)[i] = s[i + 1]
  OBVIOUS
<1>2. ASSUME Has(s, x) PROVE Head(s) = x \/ Has(Tail(s), x)
  <2>1. PICK i \in 1..Len(s) : s[i] = x
    BY <1>2 DEF Has
  <2>2. CASE i = 1
    BY <1>1, <2>1, <2>2
  <2>3. CASE i # 1
    <3>1. i - 1 \in 1..Len(Tail(s)) /\ Tail(s)[i - 1] = s[i]
      BY <1>1, <2>3
    <3> QED
      BY <2>1, <3>1 DEF Has
  <2> QED
    BY <2>2, <2>3
<1>3. ASSUME Has(Tail(s), x) PROVE Has(s, x)
  <2>1. PICK i \in 1..Len(Tail(s)) : Tail(s)[i] = x
    BY <1>3 DEF Has
  <2>2. i + 1 \in 1..Len(s) /\ s[i + 1] = x
    BY <1>1, <2>1
  <2> QED
    BY <2>2 DEF Has
<1>4. ASSUME Head(s) = x PROVE Has(s, x)
  <2>1. 1 \in 1..Len(s)
    BY <1>1
  <2> QED
    BY <1>1, <1>4, <2>1 DEF Has
<1> QED
  BY <1>2, <1>3, <1>4

\* A post to the current context
LEMMA PostHas ==
    ASSUME TypeOK, cur # 0, NEW b \in Blocks, NEW x
    PROVE  Has(Post(b)[cur].q, x) <=> Has(ctx[cur].q, x) \/ x = b
<1>1. cur \in Contexts /\ ctx[cur].q \in Seq(Blocks) /\ ctx \in [Contexts -> Context]
  BY ContextsTyped DEF TypeOK, Context
<1>2. Post(b)[cur].q = Append(ctx[cur].q, b)
  BY <1>1 DEF Post, Context
<1> QED
  BY <1>1, <1>2, HasAppend

\* A step that takes nothing off the main queue or the context's, ends no draw
\* and touches neither the layer nor the view
LEMMA AheadKept ==
    ASSUME DrawingAhead, cur' = cur, view' = view, layer' = layer,
           cur # 0 => (run[cur].e /\ run[cur].b = "draw" => run'[cur].e /\ run'[cur].b = "draw"),
           elem' = "live" => elem = "live", fault' = "none" => fault = "none",
           \A x : Has(mq, x) => Has(mq', x),
           cur # 0 => (Has(ctx[cur].q, "draw") => Has(ctx'[cur].q, "draw"))
    PROVE  DrawingAhead'
<1> SUFFICES ASSUME cur # 0, elem = "live", fault = "none", layer # cur
             PROVE  view /\ Drawing(cur)'
  BY DEF DrawingAhead
<1>1. view /\ Drawing(cur)
  BY DEF DrawingAhead
<1>2. Has(mq, Item("display", 0)) => Has(mq', Item("display", 0))
  OBVIOUS
<1>3. Has(mq, Item("image", cur)) => Has(mq', Item("image", cur))
  OBVIOUS
<1> QED
  BY <1>1, <1>2, <1>3 DEF Drawing

LEMMA AheadStep ==
    ASSUME SInv, ImageInv, DrawingAhead, Next
    PROVE  DrawingAhead'
<1>0. /\ TypeOK /\ ctx \in [Contexts -> Context] /\ mq \in Seq(Items) /\ cur \in {0} \union Contexts
      /\ \A c \in Contexts : ctx[c].q \in Seq(Blocks)
  BY ContextsTyped DEF SInv, TypeOK, Items, Context
<1>1. fault = "none"
  BY DEF Next
\* the display item, put on the main queue
<1>2. /\ Item("display", 0) \in Items
      /\ \A x : Has(Append(mq, Item("display", 0)), x) <=> Has(mq, x) \/ x = Item("display", 0)
  <2>1. Item("display", 0) \in Items
    BY DEF Item, Items
  <2> QED
    BY <1>0, <2>1, HasAppend
<1>3. ASSUME NEW then \in {"owned", "attached", "nopath", "noview"}, SetView(then)
      PROVE  DrawingAhead'
  BY <1>1, <1>3, AheadKept DEF SetView
<1>4. CASE DropTree
  <2>1. elem' = "live" => elem = "live"
    BY <1>4 DEF DropTree
  <2> QED
    BY <1>1, <1>4, <2>1, AheadKept DEF DropTree
<1>5. CASE Recycle
  <2>1. CASE ctx[cur].kind = "owned"
    <3>1. cur # 0 /\ ctx' = Post("break") /\ cur' = cur
      BY <1>5, <2>1 DEF Recycle, SInv, MainInv
    <3>2. Has(ctx[cur].q, "draw") => Has(ctx'[cur].q, "draw")
      BY <1>0, <3>1, PostHas DEF Blocks
    <3> QED
      BY <1>1, <1>5, <3>1, <3>2, AheadKept DEF Recycle
  <2>2. CASE ctx[cur].kind # "owned"
    BY <1>5, <2>2 DEF Recycle, DrawingAhead
  <2> QED
    BY <2>1, <2>2
<1>6. CASE Joined
  BY <1>6 DEF Joined, DrawingAhead
<1>7. CASE Then
  <2>1. CASE main.then \in {"owned", "attached"}
    <3>1. view' /\ mq' = Append(mq, Item("display", 0))
      BY <1>7, <2>1 DEF Then
    <3>2. Has(mq', Item("display", 0))
      BY <1>2, <3>1
    <3> QED
      BY <3>1, <3>2 DEF DrawingAhead, Drawing
  <2>2. CASE main.then \notin {"owned", "attached"}
    <3>1. cur = 0 /\ cur' = cur
      BY <1>7, <2>2 DEF Then, SInv, MainInv
    <3> QED
      BY <3>1 DEF DrawingAhead
  <2> QED
    BY <2>1, <2>2
<1>8. ASSUME NEW display \in BOOLEAN, Event(display) PROVE DrawingAhead'
  <2>1. \A x : Has(mq, x) => Has(mq', x)
    BY <1>2, <1>8 DEF Event
  <2>2. cur # 0 => (Has(ctx[cur].q, "draw") => Has(ctx'[cur].q, "draw"))
    BY <1>0, <1>8, PostHas DEF Event, Blocks
  <2> QED
    BY <1>1, <1>8, <2>1, <2>2, AheadKept DEF Event
<1>9. CASE MainItem
  <2> DEFINE y == Head(mq)
             r == Tail(mq)
  <2> SUFFICES ASSUME cur' # 0, elem' = "live", fault' = "none", layer' # cur'
               PROVE  view' /\ Drawing(cur)'
    BY <1>9 DEF DrawingAhead, MainItem
  <2>1. /\ mq # <<>> /\ cur' = cur /\ view' = view /\ elem = "live" /\ run' = run
        /\ mq' = IF y.item = "needs" THEN Append(r, Item("display", 0)) ELSE r
        /\ layer' = IF y.item = "image" /\ view THEN y.c ELSE layer
        /\ ctx' = IF y.item = "display" /\ view THEN Post("draw") ELSE ctx
    BY <1>9, <1>1 DEF MainItem
  <2>2. r \in Seq(Items) /\ \A x : Has(mq, x) <=> y = x \/ Has(r, x)
    BY <1>0, <2>1, HasHead
  <2> HIDE DEF y, r
  <2>3. Append(r, Item("display", 0)) \in Seq(Items)
        /\ \A x : Has(Append(r, Item("display", 0)), x) <=> Has(r, x) \/ x = Item("display", 0)
    BY <1>2, <2>2, HasAppend
  <2>4. \A x : Has(r, x) => Has(mq', x)
    BY <2>1, <2>3
  <2>5. view
    BY <1>1, <2>1 DEF DrawingAhead
  <2>6. Has(ctx[cur].q, "draw") => Has(ctx'[cur].q, "draw")
    BY <1>0, <2>1, PostHas DEF Blocks
  <2>7. y = Item("display", 0) => Has(ctx'[cur].q, "draw")
    <3> SUFFICES ASSUME y = Item("display", 0) PROVE Has(ctx'[cur].q, "draw")
      OBVIOUS
    <3>1. ctx' = Post("draw")
      BY <2>1, <2>5 DEF Item
    <3> QED
      BY <1>0, <2>1, <3>1, PostHas DEF Blocks
  <2>8. y # Item("image", cur)
    BY <2>1, <2>5 DEF Item
  \* the image the view shows is not replaced by an earlier one
  <2>9. layer # cur
    <3>1. layer = cur => layer' = layer
      BY <2>1, ImageStep DEF SInv
    <3> QED
      BY <2>1, <3>1
  <2>10. Drawing(cur)
    BY <1>1, <2>1, <2>9 DEF DrawingAhead
  <2>11. Has(mq, Item("display", 0)) => Has(mq', Item("display", 0)) \/ Has(ctx'[cur].q, "draw")
    BY <2>2, <2>4, <2>7
  <2>12. Has(mq, Item("image", cur)) => Has(mq', Item("image", cur))
    BY <2>2, <2>4, <2>8
  <2> QED
    BY <2>1, <2>5, <2>6, <2>10, <2>11, <2>12 DEF Drawing
<1>10. ASSUME NEW c \in Contexts, BlockStart(c) PROVE DrawingAhead'
  <2> DEFINE b == Head(ctx[c].q)
  <2> SUFFICES ASSUME cur # 0, elem = "live", layer # cur
               PROVE  view /\ Drawing(cur)'
    BY <1>10 DEF DrawingAhead, BlockStart
  <2>1. view /\ Drawing(cur)
    BY <1>1 DEF DrawingAhead
  <2>2. /\ c = cur /\ ctx[c].q # <<>> /\ ctx'[c].q = Tail(ctx[c].q) /\ mq' = mq
        /\ run[c] = NoBlock /\ cur' = cur
    BY <1>0, <1>10 DEF BlockStart, SInv, LifeInv, Context
  <2>3. Has(ctx[c].q, "draw") <=> b = "draw" \/ Has(ctx'[c].q, "draw")
    BY <1>0, <2>2, HasHead
  <2>4. b = "draw" => run'[c].e /\ run'[c].b = "draw"
    BY <1>0, <1>10 DEF BlockStart, TypeOK
  <2> HIDE DEF b
  <2> QED
    BY <2>1, <2>2, <2>3, <2>4 DEF Drawing, NoBlock
<1>11. ASSUME NEW c \in Contexts, BlockEnd(c) PROVE DrawingAhead'
  <2> SUFFICES ASSUME cur # 0, elem = "live", layer # cur
               PROVE  view /\ Drawing(cur)'
    BY <1>11 DEF DrawingAhead, BlockEnd
  <2>1. view /\ Drawing(cur)
    BY <1>1 DEF DrawingAhead
  <2>2. c = cur /\ cur' = cur /\ ctx'[c].q = ctx[c].q
    BY <1>0, <1>11 DEF BlockEnd, SInv, BlockInv, Context
  <2>3. Item("image", cur) \in Items
    BY <1>0 DEF Item, Items
  <2>4. mq' = IF run[cur].b = "draw" THEN Append(mq, Item("image", cur)) ELSE mq
    BY <1>11, <2>2 DEF BlockEnd
  <2>5. \A x : Has(Append(mq, Item("image", cur)), x) <=> Has(mq, x) \/ x = Item("image", cur)
    BY <1>0, <2>3, HasAppend
  <2>6. \A x : Has(mq, x) => Has(mq', x)
    BY <2>4, <2>5
  <2>7. run[cur].b = "draw" => Has(mq', Item("image", cur))
    BY <2>4, <2>5
  <2>8. Has(mq, Item("display", 0)) => Has(mq', Item("display", 0))
    BY <2>6
  <2>9. Has(mq, Item("image", cur)) => Has(mq', Item("image", cur))
    BY <2>6
  <2> QED
    BY <2>1, <2>2, <2>7, <2>8, <2>9 DEF Drawing
<1>12. ASSUME NEW c \in Contexts, NEW i \in {"emit", "needs"}, ScriptCall(c, i)
       PROVE  DrawingAhead'
  <2>1. Item(i, 0) \in Items
    BY DEF Item, Items
  <2>2. \A x : Has(mq, x) => Has(mq', x)
    BY <1>0, <1>12, <2>1, HasAppend DEF ScriptCall
  <2>3. /\ UNCHANGED <<elem, view, layer, cur, ctx, fault>>
        /\ cur # 0 => (run[cur].e /\ run[cur].b = "draw" => run'[cur].e /\ run'[cur].b = "draw")
    BY <1>0, <1>12 DEF ScriptCall, NoBlock
  <2> QED
    BY <1>1, <2>2, <2>3, AheadKept
<1> QED
  BY <1>3, <1>4, <1>5, <1>6, <1>7, <1>8, <1>9, <1>10, <1>11, <1>12
  DEF Next, MainSteps, LoopSteps

\* No redraw of an installed canvas is dropped on its way from the display to
\* the view (KKSurfaceCanvasElement.mm 60-151): all that Redrawn needs besides
\* the two threads going on.
THEOREM NeverLeftBlank == Spec => []DrawingAhead
<1>1. Init => ImageInv /\ DrawingAhead
  BY DEF Init, ImageInv, InOrder, OfInstalled, DrawingAhead
<1>2. SInv /\ ImageInv /\ DrawingAhead /\ [Next]_vars => (ImageInv /\ DrawingAhead)'
  <2>1. ASSUME SInv, ImageInv, DrawingAhead, Next PROVE (ImageInv /\ DrawingAhead)'
    BY <2>1, ImageStep, AheadStep
  <2>2. ASSUME ImageInv, DrawingAhead, UNCHANGED vars PROVE (ImageInv /\ DrawingAhead)'
    BY <2>2 DEF vars, ImageInv, InOrder, OfInstalled, DrawingAhead, Drawing, Has
  <2> QED
    BY <2>1, <2>2
<1> QED
  BY <1>1, <1>2, Invariance, PTL DEF Spec
=============================================================================
