--------------------------- MODULE RefCountProofs ---------------------------
(***************************************************************************)
(* Proofs about RefCount, for any number of threads, objects and           *)
(* references.                                                             *)
(*                                                                         *)
(* A thread's stack is the operation it called, below, and the drains and  *)
(* destructors that operation led to, above.  What a thread is doing to    *)
(* its references depends on the former alone, which calls collects;       *)
(* the latter only decide who deletes what.                                *)
(***************************************************************************)
EXTENDS RefCount, SequenceTheorems, FiniteSetTheorems, TLAPS

SetOps == {"release", "assign"}
WeakOps == {"wread", "unweak", "wassign"}
DrainOps == {"drain"} \union DtorStages

\* The operation a thread called, which is its outermost frame
CallOf(q) == IF q = <<>> THEN DrainFrame ELSE q[Len(q)]

calls == [t \in Threads |-> CallOf(stack[t])]

\* A stack is one call with drains and destructors above it; Weak::set reads its
\* old pointer and goes on to unWeak without a drain in between
Shaped(q) ==
    /\ \A i \in 1 .. Len(q) : i < Len(q) => q[i].op \in DrainOps
    /\ q # <<>> => CallOf(q).op \in SetOps \union WeakOps
    /\ CallOf(q).op = "unweak" => Len(q) = 1

\* The objects a stack destroys, each in one frame
Destroyed(q) == {f.obj : f \in {g \in Range(q) : g.op \in DtorStages}}

DestroysOnce(q) ==
    \A i, j \in 1 .. Len(q) :
        q[i].op \in DtorStages /\ q[j].op \in DtorStages /\ q[i].obj = q[j].obj => i = j

StackInv ==
    /\ \A t \in Threads : Shaped(stack[t])
    /\ \A t \in Threads : DestroysOnce(stack[t])
    /\ \A t, u \in Threads : t # u => Destroyed(stack[t]) \intersect Destroyed(stack[u]) = {}
    /\ \A t \in Threads : \A o \in Destroyed(stack[t]) : st[o] = "dying"

GarbageInv ==
    /\ \A i, j \in 1 .. Len(garbage) : garbage[i] = garbage[j] => i = j
    /\ \A i \in 1 .. Len(garbage) : st[garbage[i]] = "queued"

\* The count says whether the object is live
CountInv == CountExact /\ \A o \in Objects : st[o] = "live" <=> rc[o] > 0

\* A Strong has one set() at a time: a variable by its owner, the member of an
\* object by the owner of the one variable that holds the object
SetInv ==
    \A t \in Threads : calls[t].op \in SetOps =>
        LET s == calls[t].slot
        IN  /\ s \in Slots => owner[s] = t
            /\ s \in Objects => /\ \E x \in Slots : owner[x] = t /\ Claims(s) = {x}
                                /\ Setting(s) \subseteq {t}

\* A Weak::set under way has registered with the new object, which its thread
\* holds, and is not about to unregister from it
WeakInv ==
    \A t \in Threads : calls[t].op \in WeakOps =>
        LET f == calls[t]
        IN  /\ owner[f.slot] = t
            /\ f.new # Nil => /\ f.slot \in weaks[f.new]
                              /\ \E x \in Slots : owner[x] = t /\ ref[x] = f.new
            /\ f.op = "wread" => f.new = Nil \/ wptr[f.slot] # f.new
            /\ f.op = "unweak" => /\ f.old # Nil /\ f.old # f.new
                                  /\ st[f.old] = "freed" => deleter[f.old] # t

\* A Weak is registered where it points, and nobody is past clearing it
PointerInv ==
    \A w \in Weaks \ Unregistered : wptr[w] # Nil =>
        /\ w \in weaks[wptr[w]]
        /\ st[wptr[w]] # "freed"
        /\ \A t \in Threads : DtorFrame("free", wptr[w]) \notin Range(stack[t])

FaultInv == \A x \in faults : st[x[2]] = "freed" /\ deleter[x[2]] # x[1]

RInv ==
    /\ TypeOK /\ StackInv /\ GarbageInv /\ CountInv /\ SetInv
    /\ WeakInv /\ PointerInv /\ FaultInv

-----------------------------------------------------------------------------
(* Frames and stacks.                                                      *)

LEMMA FrameFacts ==
    ASSUME NEW f \in Frames
    PROVE  /\ f.op \in SetOps => /\ f.slot \in Strongs /\ f.new \in Objects \union {Nil}
                                 /\ f = SetFrame(f.op, f.slot, f.new)
           /\ f.op \in WeakOps => /\ f.slot \in Weaks /\ f.new \in Objects \union {Nil}
                                  /\ f.old \in Objects \union {Nil}
                                  /\ f = WeakFrame(f.op, f.slot, f.new, f.old)
           /\ f.op \in DtorStages => f.obj \in Objects /\ f = DtorFrame(f.op, f.obj)
           /\ f.op \in SetOps \union WeakOps \union DrainOps
<1>1. CASE f = DrainFrame
  BY <1>1 DEF DrainFrame, SetOps, WeakOps, DrainOps, DtorStages
<1>2. ASSUME NEW g \in DtorStages, NEW o \in Objects, f = DtorFrame(g, o)
      PROVE  /\ f.op = g /\ f.obj = o
  BY <1>2 DEF DtorFrame
<1>3. ASSUME NEW g \in SetOps, NEW s \in Strongs, NEW o \in Objects \union {Nil},
             f = SetFrame(g, s, o)
      PROVE  f.op = g /\ f.slot = s /\ f.new = o
  BY <1>3 DEF SetFrame
<1>4. ASSUME NEW g \in WeakOps, NEW w \in Weaks, NEW o \in Objects \union {Nil},
             NEW old \in Objects \union {Nil}, f = WeakFrame(g, w, o, old)
      PROVE  f.op = g /\ f.slot = w /\ f.new = o /\ f.old = old
  BY <1>4 DEF WeakFrame
<1>5. \/ f = DrainFrame
      \/ \E g \in DtorStages, o \in Objects : f = DtorFrame(g, o)
      \/ \E g \in SetOps, s \in Strongs, o \in Objects \union {Nil} : f = SetFrame(g, s, o)
      \/ \E g \in WeakOps, w \in Weaks, o \in Objects \union {Nil},
            old \in Objects \union {Nil} : f = WeakFrame(g, w, o, old)
  BY DEF Frames, SetOps, WeakOps
<1>6. /\ SetOps \intersect WeakOps = {} /\ SetOps \intersect DrainOps = {}
      /\ WeakOps \intersect DrainOps = {} /\ DtorStages \subseteq DrainOps
  BY DEF SetOps, WeakOps, DrainOps, DtorStages
<1>7. CASE \E g \in DtorStages, o \in Objects : f = DtorFrame(g, o)
  <2>1. PICK g \in DtorStages, o \in Objects : f = DtorFrame(g, o)
    BY <1>7
  <2> QED
    BY <1>2, <1>6, <2>1
<1>8. CASE \E g \in SetOps, s \in Strongs, o \in Objects \union {Nil} : f = SetFrame(g, s, o)
  <2>1. PICK g \in SetOps, s \in Strongs, o \in Objects \union {Nil} : f = SetFrame(g, s, o)
    BY <1>8
  <2> QED
    BY <1>3, <1>6, <2>1
<1>9. CASE \E g \in WeakOps, w \in Weaks, o \in Objects \union {Nil},
               old \in Objects \union {Nil} : f = WeakFrame(g, w, o, old)
  <2>1. PICK g \in WeakOps, w \in Weaks, o \in Objects \union {Nil},
             old \in Objects \union {Nil} : f = WeakFrame(g, w, o, old)
    BY <1>9
  <2> QED
    BY <1>4, <1>6, <2>1
<1> QED
  BY <1>1, <1>5, <1>7, <1>8, <1>9

\* The frames a model step builds
LEMMA FramesBuilt ==
    /\ DrainFrame \in Frames /\ DrainFrame.op = "drain"
    /\ \A g \in DtorStages, o \in Objects :
          DtorFrame(g, o) \in Frames /\ DtorFrame(g, o).op = g /\ DtorFrame(g, o).obj = o
    /\ \A g \in SetOps, s \in Strongs, o \in Objects \union {Nil} :
          /\ SetFrame(g, s, o) \in Frames /\ SetFrame(g, s, o).op = g
          /\ SetFrame(g, s, o).slot = s /\ SetFrame(g, s, o).new = o
    /\ \A g \in WeakOps, w \in Weaks, o \in Objects \union {Nil}, old \in Objects \union {Nil} :
          /\ WeakFrame(g, w, o, old) \in Frames /\ WeakFrame(g, w, o, old).op = g
          /\ WeakFrame(g, w, o, old).slot = w /\ WeakFrame(g, w, o, old).new = o
          /\ WeakFrame(g, w, o, old).old = old
<1>1. DrainFrame \in Frames /\ DrainFrame.op = "drain"
  BY DEF Frames, DrainFrame
<1>2. \A g \in DtorStages, o \in Objects :
          DtorFrame(g, o) \in Frames /\ DtorFrame(g, o).op = g /\ DtorFrame(g, o).obj = o
  BY DEF Frames, DtorFrame
<1>3. \A g \in SetOps, s \in Strongs, o \in Objects \union {Nil} :
          /\ SetFrame(g, s, o) \in Frames /\ SetFrame(g, s, o).op = g
          /\ SetFrame(g, s, o).slot = s /\ SetFrame(g, s, o).new = o
  BY DEF Frames, SetFrame, SetOps
<1>4. \A g \in WeakOps, w \in Weaks, o \in Objects \union {Nil}, old \in Objects \union {Nil} :
          /\ WeakFrame(g, w, o, old) \in Frames /\ WeakFrame(g, w, o, old).op = g
          /\ WeakFrame(g, w, o, old).slot = w /\ WeakFrame(g, w, o, old).new = o
          /\ WeakFrame(g, w, o, old).old = old
  BY DEF Frames, WeakFrame, WeakOps
<1> QED
  BY <1>1, <1>2, <1>3, <1>4

LEMMA WeakFrameBuilt ==
    ASSUME NEW g \in WeakOps, NEW w \in Weaks, NEW o \in Objects \union {Nil},
           NEW old \in Objects \union {Nil}, NEW c, c = WeakFrame(g, w, o, old)
    PROVE  c \in Frames /\ c.op = g /\ c.slot = w /\ c.new = o /\ c.old = old
  BY FramesBuilt

\* The call is the only frame of its kind on a stack
LEMMA CallIsLast ==
    ASSUME NEW q \in Seq(Frames), Shaped(q)
    PROVE  /\ CallOf(q) \in Frames
           /\ \A f \in Range(q) : f \in Frames /\ (f.op \notin DrainOps => f = CallOf(q))
           /\ CallOf(q).op \notin DrainOps => CallOf(q) \in Range(q)
           /\ q # <<>> => CallOf(q).op \in SetOps \union WeakOps
<1>1. Len(q) \in Nat /\ DOMAIN q = 1 .. Len(q) /\ \A i \in 1 .. Len(q) : q[i] \in Frames
  BY LenProperties, ElementOfSeq
<1>2. q # <<>> => Len(q) \in 1 .. Len(q)
  BY <1>1, EmptySeq
<1>3. CallOf(q) \in Frames /\ (q = <<>> => CallOf(q).op = "drain")
  BY <1>1, <1>2, FramesBuilt DEF CallOf
<1>4. \A f \in Range(q) : \E i \in 1 .. Len(q) : f = q[i]
  BY <1>1 DEF Range
<1>5. \A f \in Range(q) : f \in Frames /\ (f.op \notin DrainOps => f = CallOf(q))
  <2> SUFFICES ASSUME NEW i \in 1 .. Len(q), q[i].op \notin DrainOps PROVE q[i] = CallOf(q)
    BY <1>1, <1>4
  <2>1. ~(i < Len(q))
    BY <1>1 DEF Shaped
  <2>2. Len(q) \in Nat
    BY <1>1
  <2>4. i = Len(q)
    BY <2>1, <2>2
  <2>3. q # <<>>
    BY EmptySeq
  <2> QED
    BY <2>3, <2>4 DEF CallOf
<1>6. q # <<>> => CallOf(q) \in Range(q) /\ CallOf(q).op \in SetOps \union WeakOps
  BY <1>1, <1>2 DEF CallOf, Range, Shaped
<1>7. "drain" \in DrainOps
  BY DEF DrainOps
<1> QED
  BY <1>3, <1>5, <1>6, <1>7

\* Putting a drain or a destructor on top of a call
LEMMA PushFacts ==
    ASSUME NEW q \in Seq(Frames), NEW a \in Frames
    PROVE  /\ <<a>> \o q \in Seq(Frames) /\ <<a>> \o q # <<>>
           /\ Range(<<a>> \o q) = {a} \union Range(q)
           /\ CallOf(<<a>> \o q) = IF q = <<>> THEN a ELSE CallOf(q)
           /\ Shaped(q) /\ q # <<>> /\ CallOf(q).op # "unweak" /\ a.op \in DrainOps =>
                  Shaped(<<a>> \o q)
           /\ a.op \in SetOps \union WeakOps => Shaped(<<a>>)
           /\ DestroysOnce(q) /\ (a.op \in DtorStages => a.obj \notin Destroyed(q)) =>
                  DestroysOnce(<<a>> \o q)
<1> DEFINE p == <<a>> \o q
<1>1. /\ p \in Seq(Frames) /\ Len(p) = Len(q) + 1 /\ Len(q) \in Nat /\ p # <<>>
      /\ DOMAIN p = 1 .. Len(q) + 1 /\ DOMAIN q = 1 .. Len(q)
      /\ p[1] = a /\ \A i \in 1 .. Len(q) : p[i + 1] = q[i]
      /\ \A i \in 2 .. Len(p) : p[i] = q[i - 1] /\ i - 1 \in 1 .. Len(q)
  <2>1. <<a>> \in Seq(Frames) /\ Len(<<a>>) = 1 /\ <<a>>[1] = a
    OBVIOUS
  <2>2. p \in Seq(Frames) /\ Len(p) = 1 + Len(q)
        /\ \A i \in 1 .. 1 + Len(q) : p[i] = IF i <= 1 THEN <<a>>[i] ELSE q[i - 1]
    BY <2>1, ConcatProperties
  <2>3. Len(q) \in Nat /\ DOMAIN q = 1 .. Len(q) /\ DOMAIN p = 1 .. Len(p)
    BY <2>2, LenProperties
  <2>4. p # <<>>
    BY <2>2, <2>3, EmptySeq
  <2> HIDE DEF p
  <2> QED
    BY <2>1, <2>2, <2>3, <2>4
<1>2. Range(p) = {a} \union Range(q)
  <2> HIDE DEF p
  <2>1. \A i \in 1 .. Len(q) : i + 1 \in DOMAIN p
    BY <1>1
  <2>2. \A i \in DOMAIN p : p[i] \in {a} \union Range(q)
    <3> TAKE i \in DOMAIN p
    <3>1. i = 1 \/ i \in 2 .. Len(p)
      BY <1>1
    <3> QED
      BY <1>1, <3>1 DEF Range
  <2>3. 1 \in DOMAIN p
    BY <1>1
  <2>4. \A i \in DOMAIN q : \E j \in DOMAIN p : p[j] = q[i]
    BY <1>1, <2>1
  <2>5. a \in Range(p)
    BY <1>1, <2>3 DEF Range
  <2>6. Range(q) \subseteq Range(p)
    BY <2>4 DEF Range
  <2>7. Range(p) \subseteq {a} \union Range(q)
    BY <2>2 DEF Range
  <2> QED
    BY <2>5, <2>6, <2>7
<1>3. q = <<>> <=> Len(q) = 0
  BY EmptySeq
<1>4. CallOf(p) = IF q = <<>> THEN a ELSE CallOf(q)
  <2> HIDE DEF p
  <2> QED
    BY <1>1, <1>3 DEF CallOf
<1>5. ASSUME Shaped(q), q # <<>>, CallOf(q).op # "unweak", a.op \in DrainOps PROVE Shaped(p)
  <2> HIDE DEF p
  <2>1. ASSUME NEW i \in 1 .. Len(p), i < Len(p) PROVE p[i].op \in DrainOps
    <3>1. CASE i = 1
      BY <1>1, <1>3, <1>5, <3>1
    <3>2. CASE i # 1
      <4>1. p[i] = q[i - 1] /\ i - 1 \in 1 .. Len(q) /\ i - 1 < Len(q)
        BY <1>1, <2>1, <3>2
      <4> QED
        BY <1>5, <4>1 DEF Shaped
    <3> QED
      BY <3>1, <3>2
  <2> QED
    BY <1>4, <1>5, <2>1 DEF Shaped
<1>6. ASSUME a.op \in SetOps \union WeakOps PROVE Shaped(<<a>>)
  <2>1. Len(<<a>>) = 1 /\ <<a>> # <<>> /\ <<a>>[1] = a
    OBVIOUS
  <2>2. CallOf(<<a>>) = a
    BY <2>1 DEF CallOf
  <2> QED
    BY <1>6, <2>1, <2>2 DEF Shaped
<1>7. ASSUME DestroysOnce(q), a.op \in DtorStages => a.obj \notin Destroyed(q)
      PROVE  DestroysOnce(p)
  <2> HIDE DEF p
  <2>1. \A i \in 1 .. Len(q) : q[i].op \in DtorStages => q[i].obj \in Destroyed(q)
    BY <1>1 DEF Destroyed, Range
  <2> SUFFICES ASSUME NEW i \in 1 .. Len(p), NEW j \in 1 .. Len(p),
                      p[i].op \in DtorStages, p[j].op \in DtorStages, p[i].obj = p[j].obj
               PROVE  i = j
    BY DEF DestroysOnce
  <2>2. CASE i = 1 /\ j = 1
    BY <2>2
  <2>3. CASE i = 1 /\ j # 1
    BY <1>1, <1>7, <2>1, <2>3
  <2>4. CASE i # 1 /\ j = 1
    BY <1>1, <1>7, <2>1, <2>4
  <2>5. CASE i # 1 /\ j # 1
    <3>1. /\ p[i] = q[i - 1] /\ i - 1 \in 1 .. Len(q)
          /\ p[j] = q[j - 1] /\ j - 1 \in 1 .. Len(q)
      BY <1>1, <2>5
    <3>2. i - 1 = j - 1
      BY <1>7, <3>1 DEF DestroysOnce
    <3> QED
      BY <3>1, <3>2
  <2> QED
    BY <2>2, <2>3, <2>4, <2>5
<1> QED
  BY <1>1, <1>2, <1>4, <1>5, <1>6, <1>7

\* Taking a drain or a destructor off
LEMMA PopFacts ==
    ASSUME NEW q \in Seq(Frames), q # <<>>, Shaped(q), DestroysOnce(q)
    PROVE  /\ Tail(q) \in Seq(Frames) /\ Head(q) \in Range(q)
           /\ Range(q) = {Head(q)} \union Range(Tail(q))
           /\ DestroysOnce(Tail(q))
           /\ Head(q).op \in DtorStages => Head(q).obj \notin Destroyed(Tail(q))
           /\ Head(q).op \in DrainOps =>
                  /\ Shaped(Tail(q)) /\ Tail(q) # <<>>
                  /\ CallOf(Tail(q)) = CallOf(q) /\ CallOf(q).op # "unweak"
           /\ Head(q).op \notin DrainOps => q = <<Head(q)>> /\ Tail(q) = <<>> /\ CallOf(q) = Head(q)
<1> DEFINE r == Tail(q)
<1>1. /\ r \in Seq(Frames) /\ Len(r) = Len(q) - 1 /\ Len(q) \in Nat /\ Len(q) >= 1
      /\ Len(r) \in Nat
      /\ DOMAIN r = 1 .. Len(r) /\ DOMAIN q = 1 .. Len(q) /\ Head(q) = q[1]
      /\ \A i \in 1 .. Len(r) : r[i] = q[i + 1] /\ i + 1 \in 1 .. Len(q)
  <2>1. Tail(q) \in Seq(Frames) /\ Len(Tail(q)) = Len(q) - 1
        /\ \A i \in 1 .. Len(Tail(q)) : Tail(q)[i] = q[i + 1]
    BY HeadTailProperties
  <2>2. Len(q) \in Nat /\ DOMAIN q = 1 .. Len(q) /\ DOMAIN r = 1 .. Len(r) /\ Len(q) # 0
    BY <2>1, LenProperties, EmptySeq
  <2>3. Head(q) = q[1]
    OBVIOUS
  <2> QED
    BY <2>1, <2>2, <2>3
<1> HIDE DEF r
<1>2. Range(q) = {Head(q)} \union Range(r) /\ Head(q) \in Range(q)
  <2>1. \A i \in DOMAIN q : q[i] \in {Head(q)} \union Range(r)
    <3> TAKE i \in DOMAIN q
    <3>1. CASE i = 1
      BY <1>1, <3>1
    <3>2. CASE i # 1
      <4>1. i - 1 \in DOMAIN r /\ r[i - 1] = q[i]
        BY <1>1, <3>2
      <4> QED
        BY <4>1 DEF Range
    <3> QED
      BY <3>1, <3>2
  <2>2. \A i \in DOMAIN r : r[i] \in Range(q)
    BY <1>1 DEF Range
  <2>3. 1 \in DOMAIN q
    BY <1>1
  <2>4. Head(q) \in Range(q)
    BY <1>1, <2>3 DEF Range
  <2>5. Range(r) \subseteq Range(q)
    BY <2>2 DEF Range
  <2>6. Range(q) \subseteq {Head(q)} \union Range(r)
    BY <2>1 DEF Range
  <2> QED
    BY <2>4, <2>5, <2>6
<1>3. DestroysOnce(r)
  <2> SUFFICES ASSUME NEW i \in 1 .. Len(r), NEW j \in 1 .. Len(r),
                      r[i].op \in DtorStages, r[j].op \in DtorStages, r[i].obj = r[j].obj
               PROVE  i = j
    BY DEF DestroysOnce
  <2>1. i + 1 = j + 1
    BY <1>1 DEF DestroysOnce
  <2> QED
    BY <2>1
<1>4. ASSUME Head(q).op \in DtorStages PROVE Head(q).obj \notin Destroyed(r)
  <2> SUFFICES ASSUME Head(q).obj \in Destroyed(r) PROVE FALSE
    OBVIOUS
  <2>1. PICK i \in 1 .. Len(r) : r[i].op \in DtorStages /\ r[i].obj = Head(q).obj
    BY <1>1 DEF Destroyed, Range
  <2>2. i + 1 = 1
    BY <1>1, <1>4, <2>1 DEF DestroysOnce
  <2> QED
    BY <1>1, <2>2
<1>5. DrainOps \intersect (SetOps \union WeakOps) = {}
  BY DEF DrainOps, SetOps, WeakOps, DtorStages
<1>6. ASSUME Head(q).op \in DrainOps
      PROVE  Shaped(r) /\ r # <<>> /\ CallOf(r) = CallOf(q) /\ CallOf(q).op # "unweak"
  <2>1. Len(q) > 1 /\ Len(r) >= 1
    <3>1. ASSUME Len(q) = 1 PROVE FALSE
      <4>1. CallOf(q) = Head(q)
        BY <1>1, <3>1 DEF CallOf
      <4> QED
        BY <1>5, <1>6, <4>1 DEF Shaped
    <3> QED
      BY <1>1, <3>1
  <2>2. r # <<>> /\ CallOf(r) = CallOf(q)
    BY <1>1, <2>1 DEF CallOf
  <2>3. ASSUME NEW i \in 1 .. Len(r), i < Len(r) PROVE r[i].op \in DrainOps
    <3>1. r[i] = q[i + 1] /\ i + 1 \in 1 .. Len(q) /\ i + 1 < Len(q)
      BY <1>1, <2>3
    <3> QED
      BY <3>1 DEF Shaped
  <2>4. CallOf(q).op # "unweak"
    BY <1>1, <2>1 DEF Shaped
  <2> QED
    BY <2>2, <2>3, <2>4 DEF Shaped
<1>7. ASSUME Head(q).op \notin DrainOps PROVE q = <<Head(q)>> /\ r = <<>> /\ CallOf(q) = Head(q)
  <2>1. Len(q) = 1
    BY <1>1, <1>7 DEF Shaped
  <2>2. q = <<Head(q)>>
    BY <1>1, <2>1
  <2>3. r = <<>>
    BY <1>1, <2>1, EmptySeq
  <2> QED
    BY <1>1, <2>1, <2>2, <2>3 DEF CallOf
<1> QED
  BY <1>1, <1>2, <1>3, <1>4, <1>6, <1>7 DEF r

LEMMA PairIsConcat ==
    ASSUME NEW a \in Frames, NEW b \in Frames
    PROVE  <<a>> \in Seq(Frames) /\ <<b>> \in Seq(Frames) /\ <<a>> \o <<b>> = <<a, b>>
<1>1. /\ <<a>> \in Seq(Frames) /\ Len(<<a>>) = 1 /\ <<a>>[1] = a
      /\ <<b>> \in Seq(Frames) /\ Len(<<b>>) = 1 /\ <<b>>[1] = b
      /\ <<a, b>> \in Seq(Frames) /\ Len(<<a, b>>) = 2 /\ <<a, b>>[1] = a /\ <<a, b>>[2] = b
  OBVIOUS
<1> DEFINE p == <<a>> \o <<b>>
<1>2. /\ p \in Seq(Frames) /\ Len(p) = Len(<<a>>) + Len(<<b>>)
      /\ \A i \in 1 .. Len(<<a>>) + Len(<<b>>) :
            p[i] = IF i <= Len(<<a>>) THEN <<a>>[i] ELSE <<b>>[i - Len(<<a>>)]
  BY <1>1, ConcatProperties
<1> HIDE DEF p
<1>3. Len(p) = 2 /\ p[1] = a /\ p[2] = b
  BY <1>1, <1>2
<1>4. \A i \in 1 .. Len(p) : p[i] = <<a, b>>[i]
  BY <1>1, <1>3
<1>5. p = <<a, b>>
  BY <1>1, <1>2, <1>3, <1>4, SeqEqual
<1> QED
  BY <1>1, <1>5 DEF p

\* What replaces the innermost frame of a stack, seen from outside: a drain or
\* destructor replaced by none, one or two of their kind
LEMMA UpperFrames ==
    ASSUME NEW q \in Seq(Frames), q # <<>>, Shaped(q), DestroysOnce(q), Head(q).op \in DrainOps
    PROVE  /\ LET p == <<>> \o Tail(q)
              IN  /\ p \in Seq(Frames) /\ Shaped(p) /\ DestroysOnce(p) /\ CallOf(p) = CallOf(q)
                  /\ Range(p) \subseteq Range(q)
                  /\ Head(q).op \in DtorStages => Head(q).obj \notin Destroyed(p)
           /\ \A a \in Frames :
                 LET p == <<a>> \o Tail(q)
                 IN  a.op \in DrainOps /\ (a.op \in DtorStages => a.obj \notin Destroyed(Tail(q))) =>
                     /\ p \in Seq(Frames) /\ Shaped(p) /\ DestroysOnce(p) /\ CallOf(p) = CallOf(q)
                     /\ Range(p) = {a} \union Range(Tail(q))
           /\ \A a, b \in Frames :
                 LET p == <<a, b>> \o Tail(q)
                 IN  /\ a.op \in DrainOps /\ b.op \in DrainOps
                     /\ a.op = "drain" \/ b.op = "drain"
                     /\ a.op \in DtorStages => a.obj \notin Destroyed(Tail(q))
                     /\ b.op \in DtorStages => b.obj \notin Destroyed(Tail(q))
                     =>
                     /\ p \in Seq(Frames) /\ Shaped(p) /\ DestroysOnce(p) /\ CallOf(p) = CallOf(q)
                     /\ Range(p) = {a, b} \union Range(Tail(q))
<1> DEFINE r == Tail(q)
<1>1. /\ r \in Seq(Frames) /\ Shaped(r) /\ DestroysOnce(r) /\ r # <<>>
      /\ CallOf(r) = CallOf(q) /\ CallOf(r).op # "unweak"
      /\ Range(q) = {Head(q)} \union Range(r)
      /\ Head(q).op \in DtorStages => Head(q).obj \notin Destroyed(r)
  BY PopFacts
<1> HIDE DEF r
<1>2. <<>> \o r = r
  BY <1>1, ConcatEmptySeq
<1>3. ASSUME NEW a \in Frames, a.op \in DrainOps,
             a.op \in DtorStages => a.obj \notin Destroyed(r)
      PROVE  LET p == <<a>> \o r
             IN  /\ p \in Seq(Frames) /\ Shaped(p) /\ DestroysOnce(p) /\ CallOf(p) = CallOf(q)
                 /\ Range(p) = {a} \union Range(r) /\ p # <<>>
  BY <1>1, <1>3, PushFacts
<1>4. ASSUME NEW a \in Frames, NEW b \in Frames, a.op \in DrainOps, b.op \in DrainOps,
             a.op = "drain" \/ b.op = "drain",
             a.op \in DtorStages => a.obj \notin Destroyed(r),
             b.op \in DtorStages => b.obj \notin Destroyed(r)
      PROVE  LET p == <<a, b>> \o r
             IN  /\ p \in Seq(Frames) /\ Shaped(p) /\ DestroysOnce(p) /\ CallOf(p) = CallOf(q)
                 /\ Range(p) = {a, b} \union Range(r)
  <2> DEFINE m == <<b>> \o r
  <2>1. /\ m \in Seq(Frames) /\ Shaped(m) /\ DestroysOnce(m) /\ CallOf(m) = CallOf(q)
        /\ Range(m) = {b} \union Range(r) /\ m # <<>>
    BY <1>3, <1>4
  <2>2. <<a, b>> \o r = <<a>> \o m
    <3>1. <<a>> \in Seq(Frames) /\ <<b>> \in Seq(Frames) /\ <<a>> \o <<b>> = <<a, b>>
      BY <1>4, PairIsConcat
    <3>2. (<<a>> \o <<b>>) \o r = <<a>> \o (<<b>> \o r)
      BY <1>1, <3>1, ConcatAssociative
    <3> QED
      BY <3>1, <3>2
  <2> HIDE DEF m
  <2>3. a.op \in DtorStages => a.obj \notin Destroyed(m)
    <3>1. "drain" \notin DtorStages
      BY DEF DtorStages
    <3> QED
      BY <1>4, <2>1, <3>1 DEF Destroyed
  <2>4. CallOf(m).op # "unweak"
    BY <1>1, <2>1
  <2>5. LET p == <<a>> \o m
        IN  /\ p \in Seq(Frames) /\ Shaped(p) /\ DestroysOnce(p) /\ CallOf(p) = CallOf(m)
            /\ Range(p) = {a} \union Range(m)
    BY <1>4, <2>1, <2>3, <2>4, PushFacts
  <2>6. {a} \union ({b} \union Range(r)) = {a, b} \union Range(r)
    OBVIOUS
  <2> QED
    BY <2>1, <2>2, <2>5, <2>6
<1> QED
  BY <1>1, <1>2, <1>3, <1>4 DEF r

\* A call alone, or with the drain of the unlock() it just did
LEMMA CallFrames ==
    /\ <<>> \in Seq(Frames) /\ Shaped(<<>>) /\ DestroysOnce(<<>>)
    /\ CallOf(<<>>) = DrainFrame /\ Range(<<>>) = {} /\ Destroyed(<<>>) = {}
    /\ \A c \in Frames : c.op \in SetOps \union WeakOps =>
          /\ <<c>> \in Seq(Frames) /\ Shaped(<<c>>) /\ DestroysOnce(<<c>>)
          /\ CallOf(<<c>>) = c /\ Range(<<c>>) = {c} /\ Destroyed(<<c>>) = {}
          /\ c.op # "unweak" =>
                LET p == <<DrainFrame, c>>
                IN  /\ p \in Seq(Frames) /\ Shaped(p) /\ DestroysOnce(p)
                    /\ CallOf(p) = c /\ Range(p) = {DrainFrame, c} /\ Destroyed(p) = {}
<1>1. /\ <<>> \in Seq(Frames) /\ Shaped(<<>>) /\ DestroysOnce(<<>>)
      /\ CallOf(<<>>) = DrainFrame /\ Range(<<>>) = {} /\ Destroyed(<<>>) = {}
  <2>1. <<>> \in Seq(Frames) /\ Len(<<>>) = 0 /\ DOMAIN <<>> = {}
    OBVIOUS
  <2>2. CallOf(<<>>) = DrainFrame /\ DrainFrame.op # "unweak"
    BY DEF CallOf, DrainFrame
  <2>3. Range(<<>>) = {}
    BY <2>1 DEF Range
  <2>4. \A i \in 1 .. Len(<<>>) : FALSE
    BY <2>1
  <2> QED
    BY <2>1, <2>2, <2>3, <2>4 DEF Shaped, DestroysOnce, Destroyed
<1> SUFFICES ASSUME NEW c \in Frames, c.op \in SetOps \union WeakOps
             PROVE  /\ <<c>> \in Seq(Frames) /\ Shaped(<<c>>) /\ DestroysOnce(<<c>>)
                    /\ CallOf(<<c>>) = c /\ Range(<<c>>) = {c} /\ Destroyed(<<c>>) = {}
                    /\ c.op # "unweak" =>
                          LET p == <<DrainFrame, c>>
                          IN  /\ p \in Seq(Frames) /\ Shaped(p) /\ DestroysOnce(p)
                              /\ CallOf(p) = c /\ Range(p) = {DrainFrame, c} /\ Destroyed(p) = {}
  BY <1>1
<1>2. c.op \notin DtorStages /\ "drain" \notin DtorStages /\ DrainFrame.op = "drain"
      /\ "drain" \in DrainOps
  BY DEF SetOps, WeakOps, DtorStages, DrainFrame, DrainOps
<1>3. <<c>> \o <<>> = <<c>> /\ <<c>> \in Seq(Frames) /\ <<c>> # <<>>
  OBVIOUS
<1>4. /\ Shaped(<<c>>) /\ DestroysOnce(<<c>>) /\ CallOf(<<c>>) = c /\ Range(<<c>>) = {c}
  BY <1>1, <1>2, <1>3, PushFacts
<1>5. <<DrainFrame>> \o <<c>> = <<DrainFrame, c>>
  BY PairIsConcat, FramesBuilt
<1>6. ASSUME c.op # "unweak"
      PROVE  LET p == <<DrainFrame, c>>
             IN  /\ p \in Seq(Frames) /\ Shaped(p) /\ DestroysOnce(p)
                 /\ CallOf(p) = c /\ Range(p) = {DrainFrame, c}
  <2>1. DrainFrame \in Frames /\ DrainFrame.op \notin DtorStages /\ DrainFrame.op \in DrainOps
    BY <1>2, FramesBuilt
  <2> DEFINE p == <<DrainFrame>> \o <<c>>
  <2>2. /\ p \in Seq(Frames) /\ Shaped(p) /\ DestroysOnce(p) /\ CallOf(p) = c
        /\ Range(p) = {DrainFrame} \union {c}
    BY <1>3, <1>4, <1>6, <2>1, PushFacts
  <2> QED
    BY <1>5, <2>2
<1> QED
  BY <1>2, <1>3, <1>4, <1>6 DEF Destroyed

-----------------------------------------------------------------------------
(* The references in terms of the calls under way.                         *)

SettingIn(c, o) == {t \in Threads : c[t].op \in SetOps /\ c[t].new = o}
StaleIn(c) == {s \in Strongs : \E t \in Threads : c[t].op = "assign" /\ c[t].slot = s}
ClaimsIn(c, r, o) == {s \in Strongs \ StaleIn(c) : r[s] = o}
UnregisteredIn(c) == {w \in Weaks : \E t \in Threads : c[t].op = "wassign" /\ c[t].slot = w}

LEMMA CallViews ==
    ASSUME NEW S \in [Threads -> Seq(Frames)], \A t \in Threads : Shaped(S[t])
    PROVE  LET c == [t \in Threads |-> CallOf(S[t])]
           IN  /\ c \in [Threads -> Frames]
               /\ \A o : SettingIn(c, o) =
                     {t \in Threads : \E f \in Range(S[t]) : f.op \in {"release", "assign"} /\ f.new = o}
               /\ StaleIn(c) = {s \in Strongs : \E t \in Threads : \E f \in Range(S[t]) :
                                   f.op = "assign" /\ f.slot = s}
               /\ UnregisteredIn(c) = {w \in Weaks : \E t \in Threads : \E f \in Range(S[t]) :
                                          f.op = "wassign" /\ f.slot = w}
<1> DEFINE c == [t \in Threads |-> CallOf(S[t])]
<1>1. \A t \in Threads : /\ c[t] \in Frames
                         /\ \A f \in Range(S[t]) : f.op \notin DrainOps => f = c[t]
                         /\ c[t].op \notin DrainOps => c[t] \in Range(S[t])
  BY CallIsLast
<1>2. c \in [Threads -> Frames]
  BY <1>1
<1> HIDE DEF c
<1>3. SetOps \intersect DrainOps = {} /\ SetOps = {"release", "assign"}
      /\ "assign" \notin DrainOps /\ "wassign" \notin DrainOps
  BY DEF SetOps, DrainOps, DtorStages
<1> QED
  BY <1>1, <1>2, <1>3 DEF c, SettingIn, StaleIn, UnregisteredIn

LEMMA Views ==
    ASSUME TypeOK, StackInv
    PROVE  /\ calls \in [Threads -> Frames]
           /\ \A o : Setting(o) = SettingIn(calls, o) /\ Claims(o) = ClaimsIn(calls, ref, o)
           /\ Unregistered = UnregisteredIn(calls)
<1>1. stack \in [Threads -> Seq(Frames)] /\ \A t \in Threads : Shaped(stack[t])
  BY DEF TypeOK, StackInv
<1>2. Stale = StaleIn(calls)
  BY <1>1, CallViews DEF Stale, calls
<1> QED
  BY <1>1, <1>2, CallViews DEF Setting, Claims, ClaimsIn, Unregistered, calls

LEMMA ViewsNext ==
    ASSUME stack' \in [Threads -> Seq(Frames)], \A t \in Threads : Shaped(stack'[t])
    PROVE  /\ calls' \in [Threads -> Frames]
           /\ \A o : Setting(o)' = SettingIn(calls', o) /\ Claims(o)' = ClaimsIn(calls', ref', o)
           /\ Unregistered' = UnregisteredIn(calls')
<1>1. Stale' = StaleIn(calls')
  BY CallViews DEF Stale, calls
<1> QED
  BY <1>1, CallViews DEF Setting, Claims, ClaimsIn, Unregistered, calls

\* A step that replaces one thread's stack
LEMMA StackStep ==
    ASSUME TypeOK, StackInv, NEW t \in Threads, NEW p \in Seq(Frames), Shaped(p), DestroysOnce(p),
           stack' = [stack EXCEPT ![t] = p],
           \A o \in Destroyed(p) : /\ st'[o] = "dying"
                                   /\ \A u \in Threads \ {t} : o \notin Destroyed(stack[u]),
           \A u \in Threads \ {t} : \A o \in Destroyed(stack[u]) : st'[o] = "dying"
    PROVE  /\ stack' \in [Threads -> Seq(Frames)] /\ StackInv'
           /\ calls' = [calls EXCEPT ![t] = CallOf(p)]
           /\ Unregistered' = UnregisteredIn(calls')
           /\ \A o : Setting(o)' = SettingIn(calls', o) /\ Claims(o)' = ClaimsIn(calls', ref', o)
<1>1. /\ stack \in [Threads -> Seq(Frames)] /\ stack' \in [Threads -> Seq(Frames)]
      /\ \A u \in Threads : stack'[u] = IF u = t THEN p ELSE stack[u]
  BY DEF TypeOK
<1>2. StackInv'
  BY <1>1 DEF StackInv
<1>3. calls' = [calls EXCEPT ![t] = CallOf(p)]
  BY <1>1 DEF calls
<1>4. \A u \in Threads : Shaped(stack'[u])
  BY <1>1 DEF StackInv
<1> QED
  BY <1>1, <1>2, <1>3, <1>4, ViewsNext

-----------------------------------------------------------------------------
(* What the invariant says about counts and holders.                       *)

LEMMA FiniteRefs ==
    /\ \A C \in SUBSET Strongs : IsFiniteSet(C) /\ Cardinality(C) \in Nat
    /\ \A U \in SUBSET Threads : IsFiniteSet(U) /\ Cardinality(U) \in Nat
<1>1. IsFiniteSet(Strongs)
  BY FiniteAssumption, FS_Union DEF Strongs
<1> QED
  BY <1>1, FiniteAssumption, FS_Subset, FS_CardinalityType

LEMMA ClaimsTyped ==
    \A c, r, o : ClaimsIn(c, r, o) \subseteq Strongs /\ SettingIn(c, o) \subseteq Threads
  BY DEF ClaimsIn, SettingIn

\* A claimed object has a count, and is live
LEMMA HeldLive ==
    ASSUME TypeOK, CountInv
    PROVE  HeldIsLive
<1> SUFFICES ASSUME NEW o \in Objects, Claims(o) \union Setting(o) # {} PROVE st[o] = "live"
  BY DEF HeldIsLive
<1>1. Claims(o) \in SUBSET Strongs /\ Setting(o) \in SUBSET Threads
  BY DEF Claims, Setting
<1>2. /\ IsFiniteSet(Claims(o)) /\ Cardinality(Claims(o)) \in Nat
      /\ IsFiniteSet(Setting(o)) /\ Cardinality(Setting(o)) \in Nat
  BY <1>1, FiniteRefs
<1>3. Cardinality(Claims(o)) > 0 \/ Cardinality(Setting(o)) > 0
  BY <1>2, FS_EmptySet
<1>4. rc[o] > 0
  BY <1>2, <1>3 DEF CountInv, CountExact
<1> QED
  BY <1>4 DEF CountInv

\* Two threads never set the same Strong
LEMMA OneSetter ==
    ASSUME RInv, NEW t \in Threads, NEW u \in Threads,
           calls[t].op \in SetOps, calls[u].op \in SetOps, calls[t].slot = calls[u].slot
    PROVE  t = u
<1>1. calls \in [Threads -> Frames] /\ calls[t].slot \in Strongs
  BY Views, FrameFacts DEF RInv
<1>2. CASE calls[t].slot \in Slots
  BY <1>2 DEF RInv, SetInv
<1>3. CASE calls[t].slot \in Objects
  <2>1. PICK x \in Slots : owner[x] = t /\ Claims(calls[t].slot) = {x}
    BY <1>3 DEF RInv, SetInv
  <2>2. PICK y \in Slots : owner[y] = u /\ Claims(calls[t].slot) = {y}
    BY <1>3 DEF RInv, SetInv
  <2> QED
    BY <2>1, <2>2
<1> QED
  BY <1>1, <1>2, <1>3 DEF Strongs

\* What a thread that is not in a set() holds in its variables is claimed
LEMMA HolderClaims ==
    ASSUME RInv, NEW t \in Threads, calls[t].op \notin SetOps,
           NEW x \in Slots, owner[x] = t, ref[x] # Nil
    PROVE  x \in Claims(ref[x]) /\ ref[x] \in Objects /\ st[ref[x]] = "live"
<1>1. x \notin StaleIn(calls)
  <2> SUFFICES ASSUME NEW u \in Threads, calls[u].op = "assign", calls[u].slot = x PROVE FALSE
    BY DEF StaleIn
  <2>1. owner[x] = u
    BY DEF RInv, SetInv, SetOps
  <2> QED
    BY <2>1 DEF SetOps
<1>2. x \in Claims(ref[x]) /\ ref[x] \in Objects
  BY <1>1, Views DEF RInv, TypeOK, ClaimsIn, Strongs
<1> QED
  BY <1>2, HeldLive DEF RInv, HeldIsLive

\* An object whose member is being set is claimed
LEMMA MemberSetLive ==
    ASSUME RInv, NEW t \in Threads, calls[t].op \in SetOps, calls[t].slot \in Objects
    PROVE  st[calls[t].slot] = "live"
<1>1. Claims(calls[t].slot) # {}
  BY DEF RInv, SetInv
<1> QED
  BY <1>1, HeldLive DEF RInv, HeldIsLive

LEMMA ReleaseEffect ==
    ASSUME RInv, NEW o \in Objects, rc[o] > 0, ReleaseCount(o)
    PROVE  /\ st' \in [Objects -> {"fresh", "live", "queued", "dying", "freed"}]
           /\ rc' \in [Objects -> Nat] /\ garbage' \in Seq(Objects)
           /\ \A p \in Objects : /\ rc'[p] = IF p = o THEN rc[o] - 1 ELSE rc[p]
                                 /\ st'[p] = IF p = o /\ rc[o] = 1 THEN "queued" ELSE st[p]
                                 /\ st'[p] = "live" <=> rc'[p] > 0
           /\ st[o] = "live"
           /\ GarbageInv'
<1>1. /\ st \in [Objects -> {"fresh", "live", "queued", "dying", "freed"}]
      /\ rc \in [Objects -> Nat] /\ garbage \in Seq(Objects) /\ st[o] = "live"
      /\ \A p \in Objects : st[p] = "live" <=> rc[p] > 0
  BY DEF RInv, TypeOK, CountInv
<1>2. /\ rc' = [rc EXCEPT ![o] = rc[o] - 1]
      /\ rc[o] = 1 => st' = [st EXCEPT ![o] = "queued"] /\ garbage' = Append(garbage, o)
      /\ rc[o] # 1 => st' = st /\ garbage' = garbage
  BY DEF ReleaseCount
<1>3. rc[o] \in Nat /\ rc[o] - 1 \in Nat /\ (rc[o] - 1 > 0 <=> rc[o] # 1)
  BY <1>1
<1>4. /\ st' \in [Objects -> {"fresh", "live", "queued", "dying", "freed"}]
      /\ rc' \in [Objects -> Nat] /\ garbage' \in Seq(Objects)
  <2>1. Append(garbage, o) \in Seq(Objects)
    BY <1>1, AppendProperties
  <2>2. garbage' \in Seq(Objects)
    BY <1>1, <1>2, <2>1
  <2>3. st' \in [Objects -> {"fresh", "live", "queued", "dying", "freed"}]
    BY <1>1, <1>2
  <2> QED
    BY <1>1, <1>2, <1>3, <2>2, <2>3
<1>5. \A p \in Objects : /\ rc'[p] = IF p = o THEN rc[o] - 1 ELSE rc[p]
                         /\ st'[p] = IF p = o /\ rc[o] = 1 THEN "queued" ELSE st[p]
  BY <1>1, <1>2
<1>6. \A p \in Objects : st'[p] = "live" <=> rc'[p] > 0
  BY <1>1, <1>3, <1>5
<1>7. GarbageInv'
  <2>1. Len(garbage) \in Nat /\ \A i \in 1 .. Len(garbage) :
            garbage[i] \in Objects /\ st[garbage[i]] = "queued" /\ garbage[i] # o
    BY <1>1 DEF RInv, GarbageInv
  <2>2. CASE rc[o] # 1
    BY <1>2, <2>2 DEF RInv, GarbageInv
  <2>3. CASE rc[o] = 1
    <3>1. /\ Len(garbage') = Len(garbage) + 1
          /\ \A i \in 1 .. Len(garbage) + 1 :
                garbage'[i] = IF i <= Len(garbage) THEN garbage[i] ELSE o
      <4>1. garbage' = Append(garbage, o)
        BY <1>2, <2>3
      <4>2. /\ Len(Append(garbage, o)) = Len(garbage) + 1
            /\ \A i \in 1 .. Len(garbage) : Append(garbage, o)[i] = garbage[i]
            /\ Append(garbage, o)[Len(garbage) + 1] = o
        BY <1>1, AppendProperties
      <4> QED
        BY <2>1, <4>1, <4>2
    <3>2. \A i \in 1 .. Len(garbage') : st'[garbage'[i]] = "queued"
      BY <1>5, <2>1, <2>3, <3>1
    <3>3. \A i, j \in 1 .. Len(garbage) : garbage[i] = garbage[j] => i = j
      BY DEF RInv, GarbageInv
    <3>4. \A i, j \in 1 .. Len(garbage') : garbage'[i] = garbage'[j] => i = j
      BY <2>1, <3>1, <3>3
    <3> QED
      BY <3>2, <3>4 DEF GarbageInv
  <2> QED
    BY <2>2, <2>3
<1> QED
  BY <1>1, <1>4, <1>5, <1>6, <1>7

-----------------------------------------------------------------------------
(* Steps that leave part of the invariant alone.                           *)

StackMoves(c) ==
    /\ stack' \in [Threads -> Seq(Frames)] /\ StackInv'
    /\ calls' = c /\ calls' \in [Threads -> Frames]
    /\ Unregistered' = UnregisteredIn(calls')
    /\ \A o : Setting(o)' = SettingIn(calls', o) /\ Claims(o)' = ClaimsIn(calls', ref', o)

\* No frame that is about to free an object is new
NoneFreed == \A u \in Threads, o \in Objects :
    DtorFrame("free", o) \in Range(stack'[u]) => DtorFrame("free", o) \in Range(stack[u])

LEMMA SetKept ==
    ASSUME RInv, StackMoves(calls'),
           ref' = ref, rc' = rc, \A o \in Objects : st'[o] = "live" <=> st[o] = "live",
           \A u \in Threads : calls'[u] = calls[u]
                              \/ (calls[u].op \notin SetOps /\ calls'[u].op \notin SetOps),
           \A u \in Threads, x \in Slots :
              calls[u].op \in SetOps /\ owner[x] = u => owner'[x] = u
    PROVE  CountInv' /\ SetInv'
<1>1. StaleIn(calls') = StaleIn(calls)
  BY DEF StaleIn, SetOps
<1>2. \A o : Setting(o)' = Setting(o) /\ Claims(o)' = Claims(o)
  <2>1. \A o : SettingIn(calls', o) = SettingIn(calls, o)
    BY DEF SettingIn
  <2>2. \A o : ClaimsIn(calls', ref', o) = ClaimsIn(calls, ref, o)
    BY <1>1 DEF ClaimsIn
  <2> QED
    BY <2>1, <2>2, Views DEF RInv, StackMoves
<1>3. CountInv'
  BY <1>2 DEF RInv, CountInv, CountExact
<1>4. SetInv'
  <2> SUFFICES ASSUME NEW t \in Threads, calls'[t].op \in SetOps
               PROVE  /\ calls'[t].slot \in Slots => owner'[calls'[t].slot] = t
                      /\ calls'[t].slot \in Objects =>
                            /\ \E x \in Slots : owner'[x] = t /\ Claims(calls'[t].slot) = {x}
                            /\ Setting(calls'[t].slot) \subseteq {t}
    BY <1>2 DEF SetInv
  <2>1. calls'[t] = calls[t] /\ calls[t].op \in SetOps
    OBVIOUS
  <2> QED
    BY <2>1 DEF RInv, SetInv
<1> QED
  BY <1>3, <1>4

LEMMA WeakKept ==
    ASSUME RInv, StackMoves(calls'), NoneFreed,
           weaks' = weaks, wptr' = wptr, deleter' = deleter, faults' = faults,
           \A o \in Objects : st'[o] = "freed" <=> st[o] = "freed",
           \A u \in Threads : calls'[u] = calls[u]
                              \/ (calls[u].op \notin WeakOps /\ calls'[u].op \notin WeakOps),
           \A u \in Threads, x \in Slots \union Weaks :
              calls[u].op \in WeakOps /\ owner[x] = u =>
                  owner'[x] = u /\ (x \in Slots => ref'[x] = ref[x])
    PROVE  WeakInv' /\ PointerInv' /\ FaultInv'
<1>0. /\ calls \in [Threads -> Frames] /\ Unregistered = UnregisteredIn(calls)
      /\ wptr \in [Weaks -> Objects \union {Nil}] /\ faults \subseteq Threads \X Objects
  BY Views DEF RInv, TypeOK
<1>1. Unregistered' = Unregistered
  BY <1>0 DEF StackMoves, UnregisteredIn, WeakOps
<1>2. WeakInv'
  <2> SUFFICES ASSUME NEW t \in Threads, calls'[t].op \in WeakOps
               PROVE  /\ owner'[calls'[t].slot] = t
                      /\ calls'[t].new # Nil =>
                            /\ calls'[t].slot \in weaks'[calls'[t].new]
                            /\ \E x \in Slots : owner'[x] = t /\ ref'[x] = calls'[t].new
                      /\ calls'[t].op = "wread" =>
                            calls'[t].new = Nil \/ wptr'[calls'[t].slot] # calls'[t].new
                      /\ calls'[t].op = "unweak" =>
                            /\ calls'[t].old # Nil /\ calls'[t].old # calls'[t].new
                            /\ st'[calls'[t].old] = "freed" => deleter'[calls'[t].old] # t
    BY DEF WeakInv
  <2>1. calls'[t] = calls[t] /\ calls[t].op \in WeakOps
    OBVIOUS
  <2>2. calls[t].slot \in Weaks /\ calls[t].old \in Objects \union {Nil}
    BY <1>0, <2>1, FrameFacts
  <2>3. /\ owner[calls[t].slot] = t
        /\ calls[t].new # Nil => /\ calls[t].slot \in weaks[calls[t].new]
                                 /\ \E x \in Slots : owner[x] = t /\ ref[x] = calls[t].new
        /\ calls[t].op = "wread" => calls[t].new = Nil \/ wptr[calls[t].slot] # calls[t].new
        /\ calls[t].op = "unweak" => /\ calls[t].old # Nil /\ calls[t].old # calls[t].new
                                     /\ st[calls[t].old] = "freed" => deleter[calls[t].old] # t
    BY <2>1 DEF RInv, WeakInv
  <2> QED
    BY <2>1, <2>2, <2>3
<1>3. PointerInv'
  BY <1>0, <1>1 DEF RInv, PointerInv, NoneFreed
<1>4. FaultInv'
  <2>1. \A x \in faults : x[2] \in Objects
    BY <1>0
  <2> QED
    BY <2>1 DEF RInv, FaultInv
<1> QED
  BY <1>2, <1>3, <1>4

-----------------------------------------------------------------------------
(* What a step does to its thread's stack.                                 *)

LEMMA TopFacts ==
    ASSUME RInv, NEW t \in Threads, NEW op, Top(t, op)
    PROVE  LET f == Head(stack[t])
           IN  /\ stack[t] \in Seq(Frames) /\ stack[t] # <<>>
               /\ Shaped(stack[t]) /\ DestroysOnce(stack[t])
               /\ f \in Frames /\ f.op = op
               /\ op \notin DrainOps => calls[t] = f /\ Tail(stack[t]) = <<>>
               /\ op \in DtorStages =>
                     /\ f.obj \in Objects /\ f = DtorFrame(op, f.obj) /\ st[f.obj] = "dying"
                     /\ f.obj \in Destroyed(stack[t]) /\ f \in Range(stack[t])
                     /\ \A u \in Threads \ {t} : f.obj \notin Destroyed(stack[u])
<1> DEFINE f == Head(stack[t])
<1>1. /\ stack[t] \in Seq(Frames) /\ stack[t] # <<>> /\ f.op = op
      /\ Shaped(stack[t]) /\ DestroysOnce(stack[t])
  BY DEF RInv, TypeOK, StackInv, Top
<1>2. f \in Frames /\ f \in Range(stack[t])
  BY <1>1, PopFacts, CallIsLast
<1>3. ASSUME op \notin DrainOps PROVE calls[t] = f /\ Tail(stack[t]) = <<>>
  BY <1>1, <1>3, PopFacts DEF calls
<1>4. ASSUME op \in DtorStages
      PROVE  /\ f.obj \in Objects /\ f = DtorFrame(op, f.obj) /\ st[f.obj] = "dying"
             /\ f.obj \in Destroyed(stack[t]) /\ f \in Range(stack[t])
             /\ \A u \in Threads \ {t} : f.obj \notin Destroyed(stack[u])
  <2>1. f.obj \in Destroyed(stack[t])
    BY <1>1, <1>2, <1>4 DEF Destroyed
  <2> QED
    BY <1>1, <1>2, <1>4, <2>1, FrameFacts DEF RInv, StackInv
<1> QED
  BY <1>1, <1>2, <1>3, <1>4

\* A call begins, goes on or ends
LEMMA CallStep ==
    ASSUME RInv, NEW t \in Threads, NEW g \in Seq(Frames),
           Shaped(g), DestroysOnce(g), Destroyed(g) = {},
           \/ stack[t] = <<>> /\ Start(t, g)
           \/ Tail(stack[t]) = <<>> /\ Continue(t, g),
           \A o \in Objects : st[o] = "dying" => st'[o] = "dying"
    PROVE  StackMoves([calls EXCEPT ![t] = CallOf(g)]) /\ NoneFreed
<1>1. stack' = [stack EXCEPT ![t] = g]
  BY ConcatEmptySeq DEF Start, Continue
<1>2. stack \in [Threads -> Seq(Frames)] /\ \A u \in Threads : Shaped(stack[u])
  BY DEF RInv, TypeOK, StackInv
<1>3. \A u \in Threads : \A o \in Destroyed(stack[u]) : st[o] = "dying" /\ o \in Objects
  <2> SUFFICES ASSUME NEW u \in Threads, NEW f \in Range(stack[u]), f.op \in DtorStages
               PROVE  f.obj \in Objects
    BY DEF RInv, StackInv, Destroyed
  <2>1. f \in Frames
    BY <1>2, CallIsLast
  <2> QED
    BY <2>1, FrameFacts
<1>4. StackMoves([calls EXCEPT ![t] = CallOf(g)])
  <2>1. CallOf(g) \in Frames /\ calls \in [Threads -> Frames]
    BY CallIsLast, Views DEF RInv
  <2>2. /\ stack' \in [Threads -> Seq(Frames)] /\ StackInv'
        /\ calls' = [calls EXCEPT ![t] = CallOf(g)]
        /\ Unregistered' = UnregisteredIn(calls')
        /\ \A o : Setting(o)' = SettingIn(calls', o) /\ Claims(o)' = ClaimsIn(calls', ref', o)
    BY <1>1, <1>3, StackStep DEF RInv
  <2> QED
    BY <2>1, <2>2 DEF StackMoves
<1>5. NoneFreed
  <2> SUFFICES ASSUME NEW o \in Objects, DtorFrame("free", o) \in Range(g) PROVE FALSE
    BY <1>1, <1>2 DEF NoneFreed
  <2>1. DtorFrame("free", o).op \in DtorStages
    BY FramesBuilt DEF DtorStages
  <2> QED
    BY <2>1 DEF Destroyed
<1> QED
  BY <1>4, <1>5

\* A drain or a destructor goes on above the call
LEMMA UpperStep ==
    ASSUME RInv, NEW t \in Threads, NEW p \in Seq(Frames), Shaped(p), DestroysOnce(p),
           CallOf(p) = CallOf(stack[t]), stack' = [stack EXCEPT ![t] = p],
           \A o \in Destroyed(p) : /\ st'[o] = "dying"
                                   /\ \A u \in Threads \ {t} : o \notin Destroyed(stack[u]),
           \A u \in Threads \ {t} : \A o \in Destroyed(stack[u]) : st'[o] = "dying"
    PROVE  StackMoves(calls)
<1>1. /\ stack' \in [Threads -> Seq(Frames)] /\ StackInv'
      /\ calls' = [calls EXCEPT ![t] = CallOf(p)]
      /\ Unregistered' = UnregisteredIn(calls')
      /\ \A o : Setting(o)' = SettingIn(calls', o) /\ Claims(o)' = ClaimsIn(calls', ref', o)
  BY StackStep DEF RInv
<1>2. calls \in [Threads -> Frames] /\ CallOf(p) = calls[t]
  BY Views DEF RInv, calls
<1>3. calls' = calls
  BY <1>1, <1>2
<1> QED
  BY <1>1, <1>2, <1>3 DEF StackMoves

\* The objects a stack destroys follow from its frames
LEMMA DestroyedFacts ==
    /\ \A p, q : Range(p) \subseteq Range(q) => Destroyed(p) \subseteq Destroyed(q)
    /\ \A p, q, a : Range(p) = {a} \union Range(q) =>
          Destroyed(p) = Destroyed(q) \union (IF a.op \in DtorStages THEN {a.obj} ELSE {})
  BY DEF Destroyed

-----------------------------------------------------------------------------
(* Strong::set.                                                            *)

\* A set() changes one Strong and its thread's call, and nothing a Weak::set needs
LEMMA SetLeavesWeak ==
    ASSUME RInv, NEW t \in Threads, NEW c \in Frames, StackMoves([calls EXCEPT ![t] = c]), NoneFreed,
           calls[t].op \notin WeakOps, c.op \notin WeakOps, UNCHANGED <<weaks, wptr, deleter, faults, owner>>,
           \A o \in Objects : st'[o] = "freed" <=> st[o] = "freed",
           \A x \in Slots : ref'[x] # ref[x] => owner[x] = t
    PROVE  WeakInv' /\ PointerInv' /\ FaultInv'
<1>1. /\ StackMoves(calls') /\ calls \in [Threads -> Frames]
      /\ \A u \in Threads : calls'[u] = IF u = t THEN c ELSE calls[u]
  BY Views DEF StackMoves, RInv
<1>2. \A u \in Threads : calls'[u] = calls[u]
                         \/ (calls[u].op \notin WeakOps /\ calls'[u].op \notin WeakOps)
  BY <1>1
<1>3. \A u \in Threads, x \in Slots \union Weaks :
          calls[u].op \in WeakOps /\ owner[x] = u =>
              owner'[x] = u /\ (x \in Slots => ref'[x] = ref[x])
  OBVIOUS
<1> QED
  BY <1>1, <1>2, <1>3, WeakKept

LEMMA SetReleaseStep ==
    ASSUME RInv, NEW t \in Threads, SetRelease(t)
    PROVE  RInv'
<1> DEFINE f == Head(stack[t])
           old == ref[f.slot]
           c == SetFrame("assign", f.slot, f.new)
<1>1. /\ Tail(stack[t]) = <<>> /\ calls[t] = f /\ f.op = "release" /\ f \in Frames
      /\ f.slot \in Strongs /\ f.new \in Objects \union {Nil}
  <2>1. "release" \notin DrainOps /\ "release" \in SetOps
    BY DEF DrainOps, DtorStages, SetOps
  <2> QED
    BY <2>1, TopFacts, FrameFacts DEF SetRelease
<1>2. c \in Frames /\ c.op = "assign" /\ c.slot = f.slot /\ c.new = f.new
  BY <1>1, FramesBuilt DEF SetOps
<1>3. old \in Objects \union {Nil} /\ UNCHANGED <<weaks, deleter, refVars, faults>>
  BY <1>1 DEF SetRelease, RInv, TypeOK
<1>4. /\ old = Nil => Continue(t, <<c>>) /\ UNCHANGED <<st, rc, garbage>>
      /\ old # Nil => Continue(t, <<DrainFrame, c>>) /\ ReleaseCount(old)
  BY DEF SetRelease
<1> HIDE DEF c, old, f
<1>5. \A u \in Threads : calls[u].op = "assign" => calls[u].slot # f.slot
  <2>1. "assign" \in SetOps /\ "release" \in SetOps
    BY DEF SetOps
  <2> QED
    BY <1>1, <2>1, OneSetter
<1>6. old # Nil => old \in Objects /\ f.slot \in Claims(old) /\ rc[old] > 0 /\ st[old] = "live"
  <2> SUFFICES ASSUME old # Nil PROVE f.slot \in Claims(old) /\ rc[old] > 0 /\ st[old] = "live"
    BY <1>3
  <2>1. f.slot \in Claims(old)
    BY <1>1, <1>5, Views DEF RInv, ClaimsIn, StaleIn, old
  <2> QED
    BY <1>3, <2>1, HeldLive DEF RInv, HeldIsLive, CountInv
\* the object and its count
<1>7. /\ st' \in [Objects -> {"fresh", "live", "queued", "dying", "freed"}]
      /\ rc' \in [Objects -> Nat] /\ garbage' \in Seq(Objects)
      /\ \A p \in Objects : /\ rc'[p] = IF p = old THEN rc[p] - 1 ELSE rc[p]
                            /\ st[p] # "live" => st'[p] = st[p]
                            /\ st[p] = "live" => st'[p] \in {"live", "queued"}
                            /\ st'[p] = "live" <=> rc'[p] > 0
      /\ GarbageInv'
  <2>1. CASE old = Nil
    <3>1. UNCHANGED <<st, rc, garbage>>
      BY <1>4, <2>1
    <3> QED
      BY <2>1, <3>1, NilAssumption DEF RInv, TypeOK, GarbageInv, CountInv
  <2>2. CASE old # Nil
    BY <1>4, <1>6, <2>2, ReleaseEffect
  <2> QED
    BY <2>1, <2>2
\* the stack
<1>8. StackMoves([calls EXCEPT ![t] = c]) /\ NoneFreed
  <2>1. \A o \in Objects : st[o] = "dying" => st'[o] = "dying"
    BY <1>7
  <2>2. CASE old = Nil
    BY <1>1, <1>2, <1>4, <2>1, <2>2, CallFrames, CallStep DEF SetOps
  <2>3. CASE old # Nil
    BY <1>1, <1>2, <1>4, <2>1, <2>3, CallFrames, CallStep DEF SetOps
  <2> QED
    BY <2>2, <2>3
<1>9. /\ calls \in [Threads -> Frames]
      /\ \A u \in Threads : calls'[u] = IF u = t THEN c ELSE calls[u]
      /\ \A u \in Threads : calls'[u].slot = calls[u].slot
                            /\ (calls'[u].op \in SetOps <=> calls[u].op \in SetOps)
  BY <1>1, <1>2, <1>8, Views DEF StackMoves, RInv, SetOps
<1>10. /\ \A o : Setting(o)' = Setting(o)
       /\ \A o : Claims(o)' = Claims(o) \ {f.slot}
  <2>1. StaleIn(calls') = StaleIn(calls) \union {f.slot}
    BY <1>1, <1>2, <1>9 DEF StaleIn
  <2>2. \A o : SettingIn(calls', o) = SettingIn(calls, o)
    BY <1>1, <1>2, <1>9 DEF SettingIn, SetOps
  <2>3. \A o : ClaimsIn(calls', ref', o) = ClaimsIn(calls, ref, o) \ {f.slot}
    BY <1>3, <2>1 DEF ClaimsIn, refVars
  <2> QED
    BY <1>8, <2>2, <2>3, Views DEF RInv, StackMoves
<1>11. CountInv'
  <2> SUFFICES ASSUME NEW o \in Objects
               PROVE  rc'[o] = Cardinality(Claims(o)') + Cardinality(Setting(o)')
    BY <1>7 DEF CountInv, CountExact
  <2>1. /\ IsFiniteSet(Claims(o)) /\ Cardinality(Claims(o)) \in Nat
        /\ Cardinality(Setting(o)) \in Nat
    BY FiniteRefs DEF Claims, Setting
  <2>2. rc[o] = Cardinality(Claims(o)) + Cardinality(Setting(o))
    BY DEF RInv, CountInv, CountExact
  <2>3. CASE o = old
    <3>1. f.slot \in Claims(o)
      BY <1>6, <2>3, NilAssumption
    <3>2. Cardinality(Claims(o) \ {f.slot}) = Cardinality(Claims(o)) - 1
      BY <2>1, <3>1, FS_RemoveElement
    <3>3. Claims(o)' = Claims(o) \ {f.slot} /\ Setting(o)' = Setting(o) /\ rc'[o] = rc[o] - 1
      BY <1>7, <1>10, <2>3
    <3> QED
      BY <2>1, <2>2, <3>2, <3>3
  <2>4. CASE o # old
    <3>1. f.slot \notin Claims(o)
      BY <2>4 DEF Claims, old
    <3> QED
      BY <1>7, <1>10, <2>2, <2>4, <3>1
  <2> QED
    BY <2>3, <2>4
<1>12. SetInv'
  <2> SUFFICES ASSUME NEW u \in Threads, calls'[u].op \in SetOps, NEW s, s = calls[u].slot
               PROVE  /\ s \in Slots => owner[s] = u
                      /\ s \in Objects => /\ \E x \in Slots : owner[x] = u /\ Claims(s)' = {x}
                                          /\ Setting(s)' \subseteq {u}
    BY <1>3, <1>9 DEF SetInv, refVars
  <2>1. calls[u].op \in SetOps
    BY <1>9
  <2>2. s \in Slots => owner[s] = u
    BY <2>1 DEF RInv, SetInv
  <2>3. ASSUME s \in Objects
        PROVE  (\E x \in Slots : owner[x] = u /\ Claims(s)' = {x}) /\ Setting(s)' \subseteq {u}
    <3>1. PICK x \in Slots : owner[x] = u /\ Claims(s) = {x}
      BY <2>1, <2>3 DEF RInv, SetInv
    <3>2. x # f.slot
      <4> SUFFICES ASSUME x = f.slot PROVE FALSE
        OBVIOUS
      <4>1. owner[x] = t
        BY <1>1, <1>9 DEF RInv, SetInv, SetOps
      <4> QED
        BY <1>1, <2>3, <3>1, <4>1, NameAssumption
    <3>3. Setting(s) \subseteq {u}
      BY <2>1, <2>3 DEF RInv, SetInv
    <3>4. Claims(s)' = {x} /\ Setting(s)' = Setting(s)
      BY <1>10, <3>1, <3>2
    <3> QED
      BY <3>1, <3>3, <3>4
  <2> QED
    BY <2>2, <2>3
<1>13. WeakInv' /\ PointerInv' /\ FaultInv'
  <2>1. UNCHANGED <<weaks, wptr, deleter, faults, owner, ref>>
    BY <1>3 DEF refVars
  <2>2. \A o \in Objects : st'[o] = "freed" <=> st[o] = "freed"
    BY <1>7
  <2>3. calls[t].op \notin WeakOps /\ c.op \notin WeakOps
    BY <1>1, <1>2 DEF WeakOps
  <2> QED
    BY <1>2, <1>8, <2>1, <2>2, <2>3, SetLeavesWeak
<1>14. TypeOK'
  BY <1>3, <1>7, <1>8 DEF StackMoves, RInv, TypeOK, refVars
<1> QED
  BY <1>7, <1>8, <1>11, <1>12, <1>13, <1>14 DEF RInv, StackMoves

LEMMA SetAssignStep ==
    ASSUME RInv, NEW t \in Threads, SetAssign(t)
    PROVE  RInv'
<1> DEFINE f == Head(stack[t])
<1>1. /\ Tail(stack[t]) = <<>> /\ calls[t] = f /\ f.op = "assign" /\ f \in Frames
      /\ f.slot \in Strongs /\ f.new \in Objects \union {Nil}
  <2>1. "assign" \notin DrainOps /\ "assign" \in SetOps
    BY DEF DrainOps, DtorStages, SetOps
  <2> QED
    BY <2>1, TopFacts, FrameFacts DEF SetAssign
<1>2. /\ ref' = [ref EXCEPT ![f.slot] = f.new] /\ Continue(t, <<>>)
      /\ UNCHANGED <<st, rc, weaks, deleter, wptr, owner, garbage, faults>>
  BY DEF SetAssign, objVars
<1> HIDE DEF f
<1>3. ref \in [Strongs -> Objects \union {Nil}] /\ ref' \in [Strongs -> Objects \union {Nil}]
      /\ ref'[f.slot] = f.new /\ \A s \in Strongs : s # f.slot => ref'[s] = ref[s]
  BY <1>1, <1>2 DEF RInv, TypeOK
<1>4. StackMoves([calls EXCEPT ![t] = DrainFrame]) /\ NoneFreed
  BY <1>1, <1>2, CallFrames, CallStep
<1>5. /\ calls \in [Threads -> Frames] /\ DrainFrame.op = "drain" /\ DrainFrame \in Frames
      /\ "drain" \notin SetOps \union WeakOps /\ "assign" \in SetOps /\ "assign" \notin WeakOps
      /\ \A u \in Threads : calls'[u] = IF u = t THEN DrainFrame ELSE calls[u]
  BY <1>4, Views, FramesBuilt DEF StackMoves, RInv, SetOps, WeakOps
<1>6. \A u \in Threads : u # t /\ calls[u].op = "assign" => calls[u].slot # f.slot
  BY <1>1, <1>5, OneSetter
<1>7. f.slot \in StaleIn(calls) /\ StaleIn(calls') = StaleIn(calls) \ {f.slot}
  BY <1>1, <1>5, <1>6 DEF StaleIn
<1>8. /\ \A o : Setting(o)' = IF o = f.new THEN Setting(o) \ {t} ELSE Setting(o)
      /\ \A o : Claims(o)' = IF o = f.new THEN Claims(o) \union {f.slot} ELSE Claims(o)
      /\ \A o : f.slot \notin Claims(o)
      /\ t \in Setting(f.new)
  <2>1. \A o : SettingIn(calls', o) = IF o = f.new THEN SettingIn(calls, o) \ {t}
                                      ELSE SettingIn(calls, o)
    BY <1>1, <1>5 DEF SettingIn
  <2>2. \A o : ClaimsIn(calls', ref', o) = IF o = f.new THEN ClaimsIn(calls, ref, o) \union {f.slot}
                                           ELSE ClaimsIn(calls, ref, o)
    BY <1>1, <1>3, <1>7 DEF ClaimsIn
  <2>3. \A o : f.slot \notin ClaimsIn(calls, ref, o)
    BY <1>7 DEF ClaimsIn
  <2>4. t \in SettingIn(calls, f.new)
    BY <1>1, <1>5 DEF SettingIn
  <2> QED
    BY <1>4, <2>1, <2>2, <2>3, <2>4, Views DEF RInv, StackMoves
<1>9. CountInv'
  <2> SUFFICES ASSUME NEW o \in Objects
               PROVE  rc'[o] = Cardinality(Claims(o)') + Cardinality(Setting(o)')
    BY <1>2 DEF RInv, CountInv, CountExact
  <2>1. /\ IsFiniteSet(Claims(o)) /\ Cardinality(Claims(o)) \in Nat
        /\ IsFiniteSet(Setting(o)) /\ Cardinality(Setting(o)) \in Nat
    BY FiniteRefs DEF Claims, Setting
  <2>2. rc'[o] = Cardinality(Claims(o)) + Cardinality(Setting(o))
    BY <1>2 DEF RInv, CountInv, CountExact
  <2>3. CASE o = f.new
    <3>1. Cardinality(Claims(o) \union {f.slot}) = Cardinality(Claims(o)) + 1
      BY <1>8, <2>1, FS_AddElement
    <3>2. Cardinality(Setting(o) \ {t}) = Cardinality(Setting(o)) - 1
      BY <1>8, <2>1, <2>3, FS_RemoveElement
    <3>3. Claims(o)' = Claims(o) \union {f.slot} /\ Setting(o)' = Setting(o) \ {t}
      BY <1>8, <2>3
    <3> QED
      BY <2>1, <2>2, <3>1, <3>2, <3>3
  <2>4. CASE o # f.new
    BY <1>8, <2>2, <2>4
  <2> QED
    BY <2>3, <2>4
<1>10. SetInv'
  <2> SUFFICES ASSUME NEW u \in Threads, calls'[u].op \in SetOps, NEW s, s = calls'[u].slot
               PROVE  /\ s \in Slots => owner[s] = u
                      /\ s \in Objects => /\ \E x \in Slots : owner[x] = u /\ Claims(s)' = {x}
                                          /\ Setting(s)' \subseteq {u}
    BY <1>2 DEF SetInv
  <2>1. u # t /\ calls'[u] = calls[u]
    BY <1>5
  <2>2. s \in Slots => owner[s] = u
    BY <2>1 DEF RInv, SetInv
  <2>3. ASSUME s \in Objects
        PROVE  (\E x \in Slots : owner[x] = u /\ Claims(s)' = {x}) /\ Setting(s)' \subseteq {u}
    <3>1. PICK x \in Slots : owner[x] = u /\ Claims(s) = {x}
      BY <2>1, <2>3 DEF RInv, SetInv
    <3>2. Setting(s) \subseteq {u}
      BY <2>1, <2>3 DEF RInv, SetInv
    <3>3. s # f.new
      BY <1>8, <2>1, <3>2
    <3>4. Claims(s)' = {x} /\ Setting(s)' = Setting(s)
      BY <1>8, <3>1, <3>3
    <3> QED
      BY <3>1, <3>2, <3>4
  <2> QED
    BY <2>2, <2>3
<1>11. WeakInv' /\ PointerInv' /\ FaultInv'
  <2>1. \A x \in Slots : ref'[x] # ref[x] => owner[x] = t
    <3> SUFFICES ASSUME NEW x \in Slots, x = f.slot PROVE owner[x] = t
      BY <1>3 DEF Strongs
    <3> QED
      BY <1>1, <1>5 DEF RInv, SetInv
  <2> QED
    BY <1>1, <1>2, <1>4, <1>5, <2>1, SetLeavesWeak
<1>12. TypeOK' /\ GarbageInv'
  BY <1>2, <1>3, <1>4 DEF StackMoves, RInv, TypeOK, GarbageInv
<1> QED
  BY <1>4, <1>9, <1>10, <1>11, <1>12 DEF RInv, StackMoves

LEMMA SetBeginStep ==
    ASSUME RInv, NEW t \in Threads, NEW s \in Strongs, NEW o \in Objects \union {Nil},
           SetBegin(t, s, o)
    PROVE  RInv'
<1> DEFINE c == SetFrame("release", s, o)
<1>1. /\ c \in Frames /\ c.op = "release" /\ c.slot = s /\ c.new = o
      /\ "release" \in SetOps /\ "release" \notin WeakOps
  BY FramesBuilt DEF SetOps, WeakOps
<1>2. /\ o = Nil => Start(t, <<c>>) /\ UNCHANGED <<st, rc>>
      /\ o # Nil => Start(t, <<DrainFrame, c>>) /\ RetainCount(o)
      /\ UNCHANGED <<weaks, deleter, ref, wptr, owner, garbage, faults>>
      /\ stack[t] = <<>> /\ s \in Assignable(t) /\ o \in Assigned(t) /\ o # ref[s]
  BY DEF SetBegin, refVars, Idle
<1> HIDE DEF c
<1>3. calls[t] = DrainFrame /\ calls[t].op = "drain" /\ "drain" \notin SetOps \union WeakOps
  BY <1>2, FramesBuilt DEF calls, CallOf, SetOps, WeakOps
\* what t assigns is new or held, and what it holds is claimed
<1>4. ASSUME NEW p \in Held(t)
      PROVE  /\ p \in Objects /\ st[p] = "live"
             /\ \E x \in Slots : owner[x] = t /\ x \in Claims(p)
  <2>1. PICK x \in Slots : owner[x] = t /\ ref[x] = p /\ p # Nil
    BY <1>4 DEF Held
  <2> QED
    BY <1>3, <2>1, HolderClaims
<1>5. o # Nil => /\ o \in Objects /\ st[o] \in {"fresh", "live"}
                 /\ st[o] = "fresh" \/ \E x \in Slots : owner[x] = t /\ x \in Claims(o)
  BY <1>2, <1>4 DEF Assigned
<1>6. /\ st \in [Objects -> {"fresh", "live", "queued", "dying", "freed"}]
      /\ rc \in [Objects -> Nat] /\ \A p \in Objects : st[p] = "live" <=> rc[p] > 0
  BY DEF RInv, TypeOK, CountInv
<1>7. /\ st' \in [Objects -> {"fresh", "live", "queued", "dying", "freed"}]
      /\ rc' \in [Objects -> Nat]
      /\ \A p \in Objects : /\ rc'[p] = IF p = o THEN rc[p] + 1 ELSE rc[p]
                            /\ st'[p] = IF p = o THEN "live" ELSE st[p]
                            /\ st'[p] = "live" <=> rc'[p] > 0
  <2>1. CASE o = Nil
    BY <1>2, <1>6, <2>1, NilAssumption
  <2>2. CASE o # Nil
    BY <1>2, <1>5, <1>6, <2>2 DEF RetainCount
  <2> QED
    BY <2>1, <2>2
<1>8. StackMoves([calls EXCEPT ![t] = c]) /\ NoneFreed
  <2>1. \A p \in Objects : st[p] = "dying" => st'[p] = "dying"
    BY <1>5, <1>7, NilAssumption
  <2>2. /\ <<c>> \in Seq(Frames) /\ Shaped(<<c>>) /\ DestroysOnce(<<c>>)
        /\ CallOf(<<c>>) = c /\ Destroyed(<<c>>) = {}
        /\ <<DrainFrame, c>> \in Seq(Frames) /\ Shaped(<<DrainFrame, c>>)
        /\ DestroysOnce(<<DrainFrame, c>>)
        /\ CallOf(<<DrainFrame, c>>) = c /\ Destroyed(<<DrainFrame, c>>) = {}
    BY <1>1, CallFrames
  <2>3. CASE o = Nil
    <3>1. stack[t] = <<>> /\ Start(t, <<c>>)
      BY <1>2, <2>3
    <3> QED
      BY <2>1, <2>2, <3>1, CallStep
  <2>4. CASE o # Nil
    <3>1. stack[t] = <<>> /\ Start(t, <<DrainFrame, c>>)
      BY <1>2, <2>4
    <3> QED
      BY <2>1, <2>2, <3>1, CallStep
  <2> QED
    BY <2>3, <2>4
<1>9. /\ calls \in [Threads -> Frames]
      /\ \A u \in Threads : calls'[u] = IF u = t THEN c ELSE calls[u]
  BY <1>8, Views DEF StackMoves, RInv
<1>10. /\ \A p : Setting(p)' = IF p = o THEN Setting(p) \union {t} ELSE Setting(p)
       /\ \A p : Claims(p)' = Claims(p)
       /\ \A p : t \notin Setting(p)
  <2>1. StaleIn(calls') = StaleIn(calls)
    BY <1>1, <1>3, <1>9 DEF StaleIn
  <2>2. \A p : SettingIn(calls', p) = IF p = o THEN SettingIn(calls, p) \union {t}
                                      ELSE SettingIn(calls, p)
    BY <1>1, <1>3, <1>9 DEF SettingIn
  <2>3. \A p : ClaimsIn(calls', ref', p) = ClaimsIn(calls, ref, p)
    BY <1>2, <2>1 DEF ClaimsIn
  <2>4. \A p : t \notin SettingIn(calls, p)
    BY <1>3 DEF SettingIn
  <2> QED
    BY <1>8, <2>2, <2>3, <2>4, Views DEF RInv, StackMoves
<1>11. CountInv'
  <2> SUFFICES ASSUME NEW p \in Objects
               PROVE  rc'[p] = Cardinality(Claims(p)') + Cardinality(Setting(p)')
    BY <1>7 DEF CountInv, CountExact
  <2>1. /\ Cardinality(Claims(p)) \in Nat
        /\ IsFiniteSet(Setting(p)) /\ Cardinality(Setting(p)) \in Nat
    BY FiniteRefs DEF Claims, Setting
  <2>2. rc[p] = Cardinality(Claims(p)) + Cardinality(Setting(p))
    BY DEF RInv, CountInv, CountExact
  <2>3. CASE p = o
    <3>1. Cardinality(Setting(p) \union {t}) = Cardinality(Setting(p)) + 1
      BY <1>10, <2>1, FS_AddElement
    <3>2. Claims(p)' = Claims(p) /\ Setting(p)' = Setting(p) \union {t} /\ rc'[p] = rc[p] + 1
      BY <1>7, <1>10, <2>3
    <3> QED
      BY <2>1, <2>2, <3>1, <3>2
  <2>4. CASE p # o
    BY <1>7, <1>10, <2>2, <2>4
  <2> QED
    BY <2>3, <2>4
<1>12. SetInv'
  <2> SUFFICES ASSUME NEW u \in Threads, calls'[u].op \in SetOps, NEW m, m = calls'[u].slot
               PROVE  /\ m \in Slots => owner[m] = u
                      /\ m \in Objects => /\ \E x \in Slots : owner[x] = u /\ Claims(m)' = {x}
                                          /\ Setting(m)' \subseteq {u}
    <3>1. owner' = owner
      BY <1>2
    <3> QED
      BY <3>1 DEF SetInv
  <2>1. CASE u = t
    <3>1. m = s
      BY <1>1, <1>9, <2>1
    <3>2. CASE s \in Slots
      BY <1>2, <1>4, <2>1, <3>1, <3>2, NameAssumption DEF Assignable
    <3>3. CASE s \notin Slots
      <4>1. s \in Held(t) /\ rc[s] = 1
        BY <1>2, <3>3 DEF Assignable
      <4>2. PICK x \in Slots : owner[x] = t /\ x \in Claims(s)
        BY <1>4, <4>1
      <4>3. s \in Objects
        BY <1>4, <4>1
      <4>4. /\ IsFiniteSet(Claims(s)) /\ Cardinality(Claims(s)) \in Nat
            /\ IsFiniteSet(Setting(s)) /\ Cardinality(Setting(s)) \in Nat
        BY FiniteRefs DEF Claims, Setting
      <4>5. Cardinality(Claims(s)) + Cardinality(Setting(s)) = 1
        BY <4>1, <4>3 DEF RInv, CountInv, CountExact
      <4>6. Cardinality(Claims(s)) # 0
        BY <4>2, <4>4, FS_EmptySet
      <4>7. Cardinality(Claims(s)) = 1 /\ Cardinality(Setting(s)) = 0
        BY <4>4, <4>5, <4>6
      <4>8. Claims(s) = {x} /\ Setting(s) = {}
        BY <4>2, <4>4, <4>7, FS_Singleton, FS_EmptySet
      <4>9. Claims(s)' = {x} /\ Setting(s)' \subseteq {t}
        BY <1>10, <4>8
      <4> QED
        BY <2>1, <3>1, <3>3, <4>2, <4>9
    <3> QED
      BY <3>2, <3>3
  <2>2. CASE u # t
    <3>1. calls'[u] = calls[u]
      BY <1>9, <2>2
    <3>2. m \in Slots => owner[m] = u
      BY <3>1 DEF RInv, SetInv
    <3>3. ASSUME m \in Objects
          PROVE  (\E x \in Slots : owner[x] = u /\ Claims(m)' = {x}) /\ Setting(m)' \subseteq {u}
      <4>1. PICK x \in Slots : owner[x] = u /\ Claims(m) = {x}
        BY <3>1, <3>3 DEF RInv, SetInv
      <4>2. Setting(m) \subseteq {u}
        BY <3>1, <3>3 DEF RInv, SetInv
      <4>3. st[m] = "live"
        BY <3>1, <3>3, MemberSetLive
      <4>4. m # o
        BY <1>5, <2>2, <4>1, <4>3, NilAssumption, <3>3
      <4>5. Claims(m)' = {x} /\ Setting(m)' = Setting(m)
        BY <1>10, <4>1, <4>4
      <4> QED
        BY <4>1, <4>2, <4>5
    <3> QED
      BY <3>2, <3>3
  <2> QED
    BY <2>1, <2>2
<1>13. WeakInv' /\ PointerInv' /\ FaultInv'
  <2>1. \A p \in Objects : st'[p] = "freed" <=> st[p] = "freed"
    BY <1>5, <1>7, NilAssumption
  <2>2. calls[t].op \notin WeakOps /\ c.op \notin WeakOps
    BY <1>1, <1>3
  <2> QED
    BY <1>1, <1>2, <1>8, <2>1, <2>2, SetLeavesWeak
<1>14. TypeOK' /\ GarbageInv'
  <2>1. TypeOK'
    BY <1>2, <1>7, <1>8 DEF StackMoves, RInv, TypeOK
  <2>2. \A i \in 1 .. Len(garbage) : garbage[i] \in Objects
    BY DEF RInv, TypeOK
  <2>3. /\ \A i \in 1 .. Len(garbage) : st[garbage[i]] = "queued"
        /\ \A i, j \in 1 .. Len(garbage) : garbage[i] = garbage[j] => i = j
    BY DEF RInv, GarbageInv
  <2>4. \A i \in 1 .. Len(garbage) : garbage[i] # o
    BY <1>5, <2>2, <2>3, NilAssumption
  <2>5. garbage' = garbage
    BY <1>2
  <2>6. GarbageInv'
    BY <1>7, <2>2, <2>3, <2>4, <2>5 DEF GarbageInv
  <2> QED
    BY <2>1, <2>6
<1> QED
  BY <1>8, <1>11, <1>12, <1>13, <1>14 DEF RInv, StackMoves
-----------------------------------------------------------------------------
(* Weak::set.                                                              *)

\* A Weak has one set() at a time
LEMMA OneWeakSetter ==
    ASSUME RInv, NEW t \in Threads, NEW u \in Threads,
           calls[t].op \in WeakOps, calls[u].op \in WeakOps, calls[t].slot = calls[u].slot
    PROVE  t = u
<1>1. owner[calls[t].slot] = t /\ owner[calls[u].slot] = u
  BY DEF RInv, WeakInv
<1> QED
  BY <1>1

\* An object about to be freed is dying
LEMMA FreeIsDying ==
    ASSUME RInv, NEW o \in Objects, NEW u \in Threads,
           DtorFrame("free", o) \in Range(stack[u])
    PROVE  st[o] = "dying"
<1>1. DtorFrame("free", o).op \in DtorStages /\ DtorFrame("free", o).obj = o
  BY FramesBuilt DEF DtorStages
<1>2. o \in Destroyed(stack[u])
  BY <1>1 DEF Destroyed
<1> QED
  BY <1>2 DEF RInv, StackInv

\* A Weak::set changes nothing a Strong::set needs
LEMMA WeakLeavesSet ==
    ASSUME RInv, NEW t \in Threads, NEW c \in Frames, StackMoves([calls EXCEPT ![t] = c]),
           calls[t].op \notin SetOps, c.op \notin SetOps,
           UNCHANGED <<st, rc, ref, owner, garbage>>
    PROVE  /\ CountInv' /\ SetInv' /\ GarbageInv' /\ StackInv'
           /\ stack' \in [Threads -> Seq(Frames)] /\ calls \in [Threads -> Frames]
           /\ \A u \in Threads : calls'[u] = IF u = t THEN c ELSE calls[u]
           /\ Unregistered = UnregisteredIn(calls) /\ Unregistered' = UnregisteredIn(calls')
<1>1. /\ StackMoves(calls') /\ calls \in [Threads -> Frames]
      /\ \A u \in Threads : calls'[u] = IF u = t THEN c ELSE calls[u]
  BY Views DEF StackMoves, RInv
<1>2. \A u \in Threads : calls'[u] = calls[u]
                         \/ (calls[u].op \notin SetOps /\ calls'[u].op \notin SetOps)
  BY <1>1
<1>3. CountInv' /\ SetInv'
  BY <1>1, <1>2, SetKept
<1>4. GarbageInv'
  BY DEF RInv, GarbageInv
<1> QED
  BY <1>1, <1>3, <1>4, Views DEF StackMoves, RInv

LEMMA WeakBeginStep ==
    ASSUME RInv, NEW t \in Threads, NEW w \in Weaks, NEW o \in Objects \union {Nil},
           WeakBegin(t, w, o)
    PROVE  RInv'
<1> DEFINE c == WeakFrame("wread", w, o, Nil)
<1>1. /\ c \in Frames /\ c.op = "wread" /\ c.slot = w /\ c.new = o
      /\ "wread" \in WeakOps /\ "wread" \notin SetOps
  BY FramesBuilt DEF SetOps, WeakOps
<1>2. /\ o = Nil => Start(t, <<c>>) /\ weaks' = weaks
      /\ o # Nil => Start(t, <<DrainFrame, c>>) /\ Register(o, w)
      /\ UNCHANGED <<st, rc, deleter, ref, wptr, owner, garbage, faults>>
      /\ stack[t] = <<>> /\ owner[w] = t /\ o \in Held(t) \union {Nil} /\ o # wptr[w]
  BY DEF WeakBegin, refVars, Idle
<1> HIDE DEF c
<1>3. calls[t] = DrainFrame /\ calls[t].op = "drain" /\ "drain" \notin SetOps \union WeakOps
  BY <1>2, FramesBuilt DEF calls, CallOf, SetOps, WeakOps
<1>4. StackMoves([calls EXCEPT ![t] = c]) /\ NoneFreed
  <2>1. \A p \in Objects : st[p] = "dying" => st'[p] = "dying"
    BY <1>2
  <2>2. /\ <<c>> \in Seq(Frames) /\ Shaped(<<c>>) /\ DestroysOnce(<<c>>)
        /\ CallOf(<<c>>) = c /\ Destroyed(<<c>>) = {}
        /\ <<DrainFrame, c>> \in Seq(Frames) /\ Shaped(<<DrainFrame, c>>)
        /\ DestroysOnce(<<DrainFrame, c>>)
        /\ CallOf(<<DrainFrame, c>>) = c /\ Destroyed(<<DrainFrame, c>>) = {}
    BY <1>1, CallFrames
  <2>3. CASE o = Nil
    <3>1. stack[t] = <<>> /\ Start(t, <<c>>)
      BY <1>2, <2>3
    <3> QED
      BY <2>1, <2>2, <3>1, CallStep
  <2>4. CASE o # Nil
    <3>1. stack[t] = <<>> /\ Start(t, <<DrainFrame, c>>)
      BY <1>2, <2>4
    <3> QED
      BY <2>1, <2>2, <3>1, CallStep
  <2> QED
    BY <2>3, <2>4
<1>5. /\ CountInv' /\ SetInv' /\ GarbageInv' /\ StackInv'
      /\ stack' \in [Threads -> Seq(Frames)] /\ calls \in [Threads -> Frames]
      /\ \A u \in Threads : calls'[u] = IF u = t THEN c ELSE calls[u]
      /\ Unregistered = UnregisteredIn(calls) /\ Unregistered' = UnregisteredIn(calls')
  BY <1>1, <1>2, <1>3, <1>4, WeakLeavesSet
<1>6. /\ weaks \in [Objects -> SUBSET Weaks] /\ weaks' \in [Objects -> SUBSET Weaks]
      /\ \A p \in Objects : weaks[p] \subseteq weaks'[p]
      /\ o # Nil => w \in weaks'[o]
  <2>1. weaks \in [Objects -> SUBSET Weaks]
    BY DEF RInv, TypeOK
  <2>2. o # Nil => o \in Objects
    OBVIOUS
  <2> QED
    BY <1>2, <2>1, <2>2 DEF Register
<1>7. WeakInv'
  <2> SUFFICES ASSUME NEW u \in Threads, NEW f, f = calls'[u], f.op \in WeakOps
               PROVE  /\ owner[f.slot] = u
                      /\ f.new # Nil => /\ f.slot \in weaks'[f.new]
                                        /\ \E x \in Slots : owner[x] = u /\ ref[x] = f.new
                      /\ f.op = "wread" => f.new = Nil \/ wptr[f.slot] # f.new
                      /\ f.op = "unweak" => /\ f.old # Nil /\ f.old # f.new
                                            /\ st[f.old] = "freed" => deleter[f.old] # u
    <3>1. owner' = owner /\ wptr' = wptr /\ ref' = ref /\ st' = st /\ deleter' = deleter
      BY <1>2
    <3> QED
      BY <3>1 DEF WeakInv
  <2>1. CASE u = t
    <3>1. f = c
      BY <1>5, <2>1
    <3>2. o # Nil => \E x \in Slots : owner[x] = t /\ ref[x] = o
      BY <1>2 DEF Held
    <3> QED
      BY <1>1, <1>2, <1>6, <2>1, <3>1, <3>2
  <2>2. CASE u # t
    <3>1. f = calls[u] /\ f \in Frames
      BY <1>5, <2>2
    <3>2. f.new \in Objects \union {Nil}
      BY <3>1, FrameFacts
    <3>3. /\ owner[f.slot] = u
          /\ f.new # Nil => /\ f.slot \in weaks[f.new]
                            /\ \E x \in Slots : owner[x] = u /\ ref[x] = f.new
          /\ f.op = "wread" => f.new = Nil \/ wptr[f.slot] # f.new
          /\ f.op = "unweak" => /\ f.old # Nil /\ f.old # f.new
                                /\ st[f.old] = "freed" => deleter[f.old] # u
      BY <3>1 DEF RInv, WeakInv
    <3> QED
      BY <1>6, <3>2, <3>3
  <2> QED
    BY <2>1, <2>2
<1>8. PointerInv'
  <2>1. Unregistered' = Unregistered
    BY <1>1, <1>3, <1>5 DEF UnregisteredIn, WeakOps
  <2>2. wptr \in [Weaks -> Objects \union {Nil}] /\ wptr' = wptr /\ st' = st
    BY <1>2 DEF RInv, TypeOK
  <2> QED
    BY <1>4, <1>6, <2>1, <2>2 DEF RInv, PointerInv, NoneFreed
<1>9. FaultInv' /\ TypeOK'
  BY <1>2, <1>5, <1>6 DEF RInv, FaultInv, TypeOK
<1> QED
  BY <1>5, <1>7, <1>8, <1>9 DEF RInv

LEMMA WeakReadStep ==
    ASSUME RInv, NEW t \in Threads, WeakRead(t)
    PROVE  RInv'
<1> DEFINE f == Head(stack[t])
           old == wptr[f.slot]
           c == WeakFrame(IF old = Nil THEN "wassign" ELSE "unweak", f.slot, f.new, old)
<1>1. /\ Tail(stack[t]) = <<>> /\ calls[t] = f /\ f.op = "wread" /\ f \in Frames
      /\ f.slot \in Weaks /\ f.new \in Objects \union {Nil}
  <2>1. "wread" \notin DrainOps /\ "wread" \in WeakOps
    BY DEF DrainOps, DtorStages, WeakOps
  <2> QED
    BY <2>1, TopFacts, FrameFacts DEF WeakRead
<1>2. /\ Continue(t, <<c>>)
      /\ UNCHANGED <<st, rc, weaks, deleter, ref, wptr, owner, garbage, faults>>
  BY DEF WeakRead, refVars, objVars
<1>3. old \in Objects \union {Nil}
  BY <1>1 DEF RInv, TypeOK
<1>4. /\ c \in Frames /\ c.slot = f.slot /\ c.new = f.new /\ c.old = old
      /\ c.op = IF old = Nil THEN "wassign" ELSE "unweak"
  <2> DEFINE g == IF old = Nil THEN "wassign" ELSE "unweak"
  <2>1. g \in WeakOps /\ c = WeakFrame(g, f.slot, f.new, old)
    BY DEF WeakOps
  <2> HIDE DEF f, old, c, g
  <2>2. c \in Frames /\ c.op = g /\ c.slot = f.slot /\ c.new = f.new /\ c.old = old
    BY <1>1, <1>3, <2>1, WeakFrameBuilt
  <2> QED
    BY <2>2 DEF g
<1> HIDE DEF f, old, c
<1>5. c.op \in WeakOps /\ c.op \notin SetOps /\ f.op \in WeakOps /\ f.op \notin SetOps
  BY <1>1, <1>4 DEF WeakOps, SetOps
<1>6. StackMoves([calls EXCEPT ![t] = c]) /\ NoneFreed
  <2>1. /\ <<c>> \in Seq(Frames) /\ Shaped(<<c>>) /\ DestroysOnce(<<c>>)
        /\ CallOf(<<c>>) = c /\ Destroyed(<<c>>) = {}
    BY <1>4, <1>5, CallFrames
  <2>2. \A p \in Objects : st[p] = "dying" => st'[p] = "dying"
    BY <1>2
  <2> QED
    BY <1>1, <1>2, <2>1, <2>2, CallStep
<1>7. /\ CountInv' /\ SetInv' /\ GarbageInv' /\ StackInv'
      /\ stack' \in [Threads -> Seq(Frames)] /\ calls \in [Threads -> Frames]
      /\ \A u \in Threads : calls'[u] = IF u = t THEN c ELSE calls[u]
      /\ Unregistered = UnregisteredIn(calls) /\ Unregistered' = UnregisteredIn(calls')
  BY <1>1, <1>2, <1>4, <1>5, <1>6, WeakLeavesSet
\* nobody else is setting this Weak, so what it points at is not freed
<1>8. old # Nil => st[old] # "freed"
  <2> SUFFICES ASSUME f.slot \in Unregistered PROVE FALSE
    BY <1>1 DEF RInv, PointerInv, old
  <2>1. PICK u \in Threads : calls[u].op = "wassign" /\ calls[u].slot = f.slot
    BY <1>7 DEF UnregisteredIn
  <2>2. u = t
    BY <1>1, <1>5, <2>1, OneWeakSetter DEF WeakOps
  <2> QED
    BY <1>1, <2>1, <2>2
<1>9. WeakInv'
  <2> SUFFICES ASSUME NEW u \in Threads, NEW g, g = calls'[u], g.op \in WeakOps
               PROVE  /\ owner[g.slot] = u
                      /\ g.new # Nil => /\ g.slot \in weaks[g.new]
                                        /\ \E x \in Slots : owner[x] = u /\ ref[x] = g.new
                      /\ g.op = "wread" => g.new = Nil \/ wptr[g.slot] # g.new
                      /\ g.op = "unweak" => /\ g.old # Nil /\ g.old # g.new
                                            /\ st[g.old] = "freed" => deleter[g.old] # u
    <3>1. /\ owner' = owner /\ wptr' = wptr /\ ref' = ref /\ st' = st /\ deleter' = deleter
          /\ weaks' = weaks
      BY <1>2
    <3> QED
      BY <3>1 DEF WeakInv
  <2>1. CASE u = t
    <3>1. g = c
      BY <1>7, <2>1
    <3>2. /\ owner[f.slot] = t
          /\ f.new # Nil => /\ f.slot \in weaks[f.new]
                            /\ \E x \in Slots : owner[x] = t /\ ref[x] = f.new
          /\ f.new = Nil \/ wptr[f.slot] # f.new
      BY <1>1, <1>5 DEF RInv, WeakInv
    <3> QED
      BY <1>4, <1>8, <2>1, <3>1, <3>2 DEF old
  <2>2. CASE u # t
    <3>1. g = calls[u]
      BY <1>7, <2>2
    <3> QED
      BY <3>1 DEF RInv, WeakInv
  <2> QED
    BY <2>1, <2>2
<1>10. PointerInv'
  <2>1. Unregistered \subseteq Unregistered'
    BY <1>1, <1>7 DEF UnregisteredIn
  <2>2. /\ wptr \in [Weaks -> Objects \union {Nil}] /\ wptr' = wptr /\ st' = st
        /\ weaks' = weaks
    BY <1>2 DEF RInv, TypeOK
  <2> QED
    BY <1>6, <2>1, <2>2 DEF RInv, PointerInv, NoneFreed
<1>11. FaultInv' /\ TypeOK'
  BY <1>2, <1>7 DEF RInv, FaultInv, TypeOK
<1> QED
  BY <1>7, <1>9, <1>10, <1>11 DEF RInv
LEMMA WeakUnregStep ==
    ASSUME RInv, NEW t \in Threads, WeakUnreg(t)
    PROVE  RInv'
<1> DEFINE f == Head(stack[t])
           c == WeakFrame("wassign", f.slot, f.new, Nil)
<1>1. /\ Tail(stack[t]) = <<>> /\ calls[t] = f /\ f.op = "unweak" /\ f \in Frames
      /\ f.slot \in Weaks /\ f.new \in Objects \union {Nil} /\ f.old \in Objects \union {Nil}
      /\ f.op \in WeakOps /\ f.op \notin SetOps
  <2>1. "unweak" \notin DrainOps /\ "unweak" \in WeakOps /\ "unweak" \notin SetOps
    BY DEF DrainOps, DtorStages, WeakOps, SetOps
  <2> QED
    BY <2>1, TopFacts, FrameFacts DEF WeakUnreg
<1>2. /\ Continue(t, <<DrainFrame, c>>) /\ Touch(t, f.old) /\ Unregister(f.old, f.slot)
      /\ UNCHANGED <<st, rc, deleter, ref, wptr, owner, garbage>>
  BY DEF WeakUnreg, refVars
<1>3. /\ c \in Frames /\ c.op = "wassign" /\ c.slot = f.slot /\ c.new = f.new
      /\ c.op \in WeakOps /\ c.op \notin SetOps
  <2>1. "wassign" \in WeakOps /\ "wassign" \notin SetOps /\ Nil \in Objects \union {Nil}
    BY DEF WeakOps, SetOps
  <2>2. c = WeakFrame("wassign", f.slot, f.new, Nil)
    OBVIOUS
  <2> HIDE DEF f, c
  <2> QED
    BY <1>1, <2>1, <2>2, WeakFrameBuilt
<1> HIDE DEF f, c
<1>4. StackMoves([calls EXCEPT ![t] = c]) /\ NoneFreed
  <2>1. /\ <<DrainFrame, c>> \in Seq(Frames) /\ Shaped(<<DrainFrame, c>>)
        /\ DestroysOnce(<<DrainFrame, c>>)
        /\ CallOf(<<DrainFrame, c>>) = c /\ Destroyed(<<DrainFrame, c>>) = {}
    BY <1>3, CallFrames
  <2>2. \A p \in Objects : st[p] = "dying" => st'[p] = "dying"
    BY <1>2
  <2> QED
    BY <1>1, <1>2, <2>1, <2>2, CallStep
<1>5. /\ CountInv' /\ SetInv' /\ GarbageInv' /\ StackInv'
      /\ stack' \in [Threads -> Seq(Frames)] /\ calls \in [Threads -> Frames]
      /\ \A u \in Threads : calls'[u] = IF u = t THEN c ELSE calls[u]
      /\ Unregistered = UnregisteredIn(calls) /\ Unregistered' = UnregisteredIn(calls')
  BY <1>1, <1>2, <1>3, <1>4, WeakLeavesSet
<1>6. /\ owner[f.slot] = t /\ f.old \in Objects /\ f.old # f.new
      /\ f.new # Nil => f.slot \in weaks[f.new] /\ \E x \in Slots : owner[x] = t /\ ref[x] = f.new
      /\ st[f.old] = "freed" => deleter[f.old] # t
  BY <1>1 DEF RInv, WeakInv
<1>7. /\ weaks' \in [Objects -> SUBSET Weaks]
      /\ \A p \in Objects : weaks[p] \ {f.slot} \subseteq weaks'[p]
      /\ \A p \in Objects : p # f.old => weaks'[p] = weaks[p]
  <2>1. weaks \in [Objects -> SUBSET Weaks]
    BY DEF RInv, TypeOK
  <2> QED
    BY <1>2, <1>6, <2>1 DEF Unregister
<1>8. WeakInv'
  <2> SUFFICES ASSUME NEW u \in Threads, NEW g, g = calls'[u], g.op \in WeakOps
               PROVE  /\ owner[g.slot] = u
                      /\ g.new # Nil => /\ g.slot \in weaks'[g.new]
                                        /\ \E x \in Slots : owner[x] = u /\ ref[x] = g.new
                      /\ g.op = "wread" => g.new = Nil \/ wptr[g.slot] # g.new
                      /\ g.op = "unweak" => /\ g.old # Nil /\ g.old # g.new
                                            /\ st[g.old] = "freed" => deleter[g.old] # u
    <3>1. owner' = owner /\ wptr' = wptr /\ ref' = ref /\ st' = st /\ deleter' = deleter
      BY <1>2
    <3> QED
      BY <3>1 DEF WeakInv
  <2>1. CASE u = t
    <3>1. g = c
      BY <1>5, <2>1
    <3> QED
      BY <1>1, <1>3, <1>6, <1>7, <2>1, <3>1
  <2>2. CASE u # t
    <3>1. g = calls[u] /\ g \in Frames
      BY <1>5, <2>2
    <3>2. g.new \in Objects \union {Nil}
      BY <3>1, FrameFacts
    <3>3. g.slot # f.slot
      BY <1>1, <2>2, <3>1, OneWeakSetter
    <3>4. /\ owner[g.slot] = u
          /\ g.new # Nil => /\ g.slot \in weaks[g.new]
                            /\ \E x \in Slots : owner[x] = u /\ ref[x] = g.new
          /\ g.op = "wread" => g.new = Nil \/ wptr[g.slot] # g.new
          /\ g.op = "unweak" => /\ g.old # Nil /\ g.old # g.new
                                /\ st[g.old] = "freed" => deleter[g.old] # u
      BY <3>1 DEF RInv, WeakInv
    <3> QED
      BY <1>7, <3>2, <3>3, <3>4
  <2> QED
    BY <2>1, <2>2
<1>9. PointerInv'
  <2>1. Unregistered' = Unregistered \union {f.slot}
    BY <1>1, <1>3, <1>5 DEF UnregisteredIn
  <2>2. wptr \in [Weaks -> Objects \union {Nil}] /\ wptr' = wptr /\ st' = st
    BY <1>2 DEF RInv, TypeOK
  <2> QED
    BY <1>4, <1>7, <2>1, <2>2 DEF RInv, PointerInv, NoneFreed
<1>10. FaultInv' /\ faults' \subseteq Threads \X Objects
  <2>1. faults' = faults \/ (faults' = faults \union {<<t, f.old>>} /\ st[f.old] = "freed")
    BY <1>2 DEF Touch
  <2>2. /\ faults \subseteq Threads \X Objects /\ st' = st /\ deleter' = deleter
        /\ \A x \in faults : st[x[2]] = "freed" /\ deleter[x[2]] # x[1]
    BY <1>2 DEF RInv, TypeOK, FaultInv
  <2> QED
    BY <1>6, <2>1, <2>2 DEF FaultInv
<1>11. TypeOK'
  BY <1>2, <1>5, <1>7, <1>10 DEF RInv, TypeOK
<1> QED
  BY <1>5, <1>8, <1>9, <1>10, <1>11 DEF RInv

LEMMA WeakAssignStep ==
    ASSUME RInv, NEW t \in Threads, WeakAssign(t)
    PROVE  RInv'
<1> DEFINE f == Head(stack[t])
<1>1. /\ Tail(stack[t]) = <<>> /\ calls[t] = f /\ f.op = "wassign" /\ f \in Frames
      /\ f.slot \in Weaks /\ f.new \in Objects \union {Nil}
      /\ f.op \in WeakOps /\ f.op \notin SetOps
  <2>1. "wassign" \notin DrainOps /\ "wassign" \in WeakOps /\ "wassign" \notin SetOps
    BY DEF DrainOps, DtorStages, WeakOps, SetOps
  <2> QED
    BY <2>1, TopFacts, FrameFacts DEF WeakAssign
<1>2. /\ Continue(t, <<>>) /\ wptr' = [wptr EXCEPT ![f.slot] = f.new]
      /\ UNCHANGED <<st, rc, weaks, deleter, ref, owner, garbage, faults>>
  BY DEF WeakAssign, objVars
<1> HIDE DEF f
<1>3. /\ DrainFrame.op = "drain" /\ DrainFrame \in Frames
      /\ "drain" \notin SetOps /\ "drain" \notin WeakOps
  BY FramesBuilt DEF SetOps, WeakOps
<1>4. StackMoves([calls EXCEPT ![t] = DrainFrame]) /\ NoneFreed
  BY <1>1, <1>2, CallFrames, CallStep
<1>5. /\ CountInv' /\ SetInv' /\ GarbageInv' /\ StackInv'
      /\ stack' \in [Threads -> Seq(Frames)] /\ calls \in [Threads -> Frames]
      /\ \A u \in Threads : calls'[u] = IF u = t THEN DrainFrame ELSE calls[u]
      /\ Unregistered = UnregisteredIn(calls) /\ Unregistered' = UnregisteredIn(calls')
  BY <1>1, <1>2, <1>3, <1>4, WeakLeavesSet
<1>6. /\ wptr \in [Weaks -> Objects \union {Nil}] /\ wptr' \in [Weaks -> Objects \union {Nil}]
      /\ \A w \in Weaks : wptr'[w] = IF w = f.slot THEN f.new ELSE wptr[w]
  BY <1>1, <1>2 DEF RInv, TypeOK
<1>7. WeakInv'
  <2> SUFFICES ASSUME NEW u \in Threads, NEW g, g = calls'[u], g.op \in WeakOps
               PROVE  /\ owner[g.slot] = u
                      /\ g.new # Nil => /\ g.slot \in weaks[g.new]
                                        /\ \E x \in Slots : owner[x] = u /\ ref[x] = g.new
                      /\ g.op = "wread" => g.new = Nil \/ wptr'[g.slot] # g.new
                      /\ g.op = "unweak" => /\ g.old # Nil /\ g.old # g.new
                                            /\ st[g.old] = "freed" => deleter[g.old] # u
    <3>1. /\ owner' = owner /\ ref' = ref /\ st' = st /\ deleter' = deleter
          /\ weaks' = weaks
      BY <1>2
    <3> QED
      BY <3>1 DEF WeakInv
  <2>1. u # t /\ g = calls[u] /\ g \in Frames
    BY <1>3, <1>5
  <2>2. g.slot # f.slot /\ g.slot \in Weaks
    BY <1>1, <2>1, OneWeakSetter, FrameFacts
  <2>3. wptr'[g.slot] = wptr[g.slot]
    BY <1>6, <2>2
  <2> QED
    BY <2>1, <2>3 DEF RInv, WeakInv
\* the thread holds the object it now points at
<1>8. ASSUME f.new # Nil
      PROVE  /\ f.slot \in weaks[f.new] /\ st[f.new] = "live"
             /\ \A u \in Threads : DtorFrame("free", f.new) \notin Range(stack[u])
  <2>1. PICK x \in Slots : owner[x] = t /\ ref[x] = f.new
    BY <1>1, <1>8 DEF RInv, WeakInv
  <2>2. st[f.new] = "live" /\ f.new \in Objects
    BY <1>1, <1>8, <2>1, HolderClaims
  <2> QED
    BY <1>1, <1>8, <2>2, FreeIsDying DEF RInv, WeakInv
<1>9. PointerInv'
  <2> SUFFICES ASSUME NEW w \in Weaks, w \notin Unregistered', NEW o, o = wptr'[w], o # Nil
               PROVE  /\ w \in weaks[o] /\ st[o] # "freed"
                      /\ \A u \in Threads : DtorFrame("free", o) \notin Range(stack'[u])
    <3>1. weaks' = weaks /\ st' = st
      BY <1>2
    <3> QED
      BY <3>1 DEF PointerInv
  <2>1. o \in Objects
    BY <1>6
  <2>2. /\ w \in weaks[o] /\ st[o] # "freed"
        /\ \A u \in Threads : DtorFrame("free", o) \notin Range(stack[u])
    <3>1. CASE w = f.slot
      <4>1. o = f.new
        BY <1>6, <3>1
      <4> QED
        BY <1>8, <3>1, <4>1
    <3>2. CASE w # f.slot
      <4>1. w \notin Unregistered
        BY <1>1, <1>5, <3>2 DEF UnregisteredIn
      <4>2. o = wptr[w]
        BY <1>6, <3>2
      <4> QED
        BY <4>1, <4>2 DEF RInv, PointerInv
    <3> QED
      BY <3>1, <3>2
  <2> QED
    BY <1>4, <2>1, <2>2 DEF NoneFreed
<1>10. FaultInv' /\ TypeOK'
  BY <1>2, <1>5, <1>6 DEF RInv, FaultInv, TypeOK
<1> QED
  BY <1>5, <1>7, <1>9, <1>10 DEF RInv
-----------------------------------------------------------------------------
(* The drain and the destructors.                                          *)

LEMMA DyingObjects ==
    ASSUME RInv
    PROVE  \A u \in Threads : \A o \in Destroyed(stack[u]) : o \in Objects /\ st[o] = "dying"
<1> SUFFICES ASSUME NEW u \in Threads, NEW f \in Range(stack[u]), f.op \in DtorStages
             PROVE  f.obj \in Objects
  BY DEF RInv, StackInv, Destroyed
<1>1. stack[u] \in Seq(Frames) /\ Shaped(stack[u])
  BY DEF RInv, TypeOK, StackInv
<1>2. f \in Frames
  BY <1>1, CallIsLast
<1> QED
  BY <1>2, FrameFacts

\* The innermost drain or destructor is replaced
LEMMA DrainStep ==
    ASSUME RInv, NEW t \in Threads, NEW p \in Seq(Frames), stack' = [stack EXCEPT ![t] = p],
           Shaped(p), DestroysOnce(p), CallOf(p) = CallOf(stack[t]),
           \A h \in Range(p) : h.op \in DtorStages =>
              \/ h \in Range(stack[t])
              \/ st'[h.obj] = "dying" /\ \A u \in Threads \ {t} : h.obj \notin Destroyed(stack[u]),
           \A o \in Objects : st[o] = "dying" /\ st'[o] # "dying" =>
              o \notin Destroyed(p) /\ \A u \in Threads \ {t} : o \notin Destroyed(stack[u])
    PROVE  /\ StackMoves(calls)
           /\ \A u \in Threads : stack'[u] = IF u = t THEN p ELSE stack[u]
<1>1. stack' = [stack EXCEPT ![t] = p] /\ stack \in [Threads -> Seq(Frames)]
  BY DEF RInv, TypeOK
<1>2. ASSUME NEW o \in Destroyed(p)
      PROVE  st'[o] = "dying" /\ \A u \in Threads \ {t} : o \notin Destroyed(stack[u])
  <2>1. PICK h \in Range(p) : h.op \in DtorStages /\ o = h.obj
    BY <1>2 DEF Destroyed
  <2>2. CASE h \notin Range(stack[t])
    BY <2>1, <2>2
  <2>3. CASE h \in Range(stack[t])
    <3>1. o \in Destroyed(stack[t])
      BY <2>1, <2>3 DEF Destroyed
    <3>2. o \in Objects /\ st[o] = "dying"
      BY <3>1, DyingObjects
    <3>3. \A u \in Threads \ {t} : o \notin Destroyed(stack[u])
      BY <3>1 DEF RInv, StackInv
    <3> QED
      BY <1>2, <3>2, <3>3
  <2> QED
    BY <2>2, <2>3
<1>3. \A u \in Threads \ {t} : \A o \in Destroyed(stack[u]) : st'[o] = "dying"
  BY DyingObjects
<1>4. StackMoves(calls)
  BY <1>1, <1>2, <1>3, UpperStep
<1> QED
  BY <1>1, <1>4

\* A step of a drain that changes neither references nor counts
LEMMA DrainLeavesSet ==
    ASSUME RInv, StackMoves(calls), UNCHANGED <<ref, rc, owner>>,
           \A o \in Objects : st'[o] = "live" <=> st[o] = "live"
    PROVE  CountInv' /\ SetInv'
<1>1. calls' = calls /\ StackMoves(calls')
  BY DEF StackMoves
<1> QED
  BY <1>1, SetKept

LEMMA DrainLeavesWeak ==
    ASSUME RInv, StackMoves(calls), NoneFreed, UNCHANGED <<weaks, wptr, deleter, faults, owner>>,
           \A x \in Slots : ref'[x] = ref[x],
           \A o \in Objects : st'[o] = "freed" <=> st[o] = "freed"
    PROVE  WeakInv' /\ PointerInv' /\ FaultInv'
<1>1. calls' = calls /\ StackMoves(calls')
  BY DEF StackMoves
<1> QED
  BY <1>1, WeakKept

LEMMA DrainDoneStep ==
    ASSUME RInv, NEW t \in Threads, DrainDone(t)
    PROVE  RInv'
<1>1. /\ stack[t] \in Seq(Frames) /\ stack[t] # <<>> /\ Shaped(stack[t])
      /\ DestroysOnce(stack[t]) /\ Head(stack[t]).op \in DrainOps
  BY TopFacts DEF DrainDone, DrainOps
<1>2. /\ Continue(t, <<>>)
      /\ UNCHANGED <<st, rc, weaks, deleter, ref, wptr, owner, garbage, faults>>
  BY DEF DrainDone, objVars, refVars
<1> DEFINE p == <<>> \o Tail(stack[t])
<1>3. /\ p \in Seq(Frames) /\ Shaped(p) /\ DestroysOnce(p) /\ CallOf(p) = CallOf(stack[t])
      /\ Range(p) \subseteq Range(stack[t])
  BY <1>1, UpperFrames
<1>4. p = <<>> \o Tail(stack[t])
  OBVIOUS
<1> HIDE DEF p
<1>5. /\ StackMoves(calls)
      /\ \A u \in Threads : stack'[u] = IF u = t THEN p ELSE stack[u]
  <2>1. stack' = [stack EXCEPT ![t] = p]
    BY <1>2, <1>4 DEF Continue
  <2>2. \A o \in Objects : st[o] = "dying" => st'[o] = "dying"
    BY <1>2
  <2> QED
    BY <1>3, <2>1, <2>2, DrainStep
<1>6. NoneFreed
  BY <1>3, <1>5 DEF NoneFreed
<1>7. CountInv' /\ SetInv'
  BY <1>2, <1>5, DrainLeavesSet
<1>8. WeakInv' /\ PointerInv' /\ FaultInv'
  BY <1>2, <1>5, <1>6, DrainLeavesWeak
<1>9. TypeOK' /\ GarbageInv'
  BY <1>2, <1>5 DEF StackMoves, RInv, TypeOK, GarbageInv
<1> QED
  BY <1>5, <1>7, <1>8, <1>9 DEF RInv, StackMoves

LEMMA DrainPopStep ==
    ASSUME RInv, NEW t \in Threads, DrainPop(t)
    PROVE  RInv'
<1> DEFINE o == Head(garbage)
           a == DtorFrame("members", o)
           p == <<a, DrainFrame>> \o Tail(stack[t])
<1>1. /\ stack[t] \in Seq(Frames) /\ stack[t] # <<>> /\ Shaped(stack[t])
      /\ DestroysOnce(stack[t]) /\ Head(stack[t]).op \in DrainOps
  BY TopFacts DEF DrainPop, DrainOps
<1>2. /\ Continue(t, <<a, DrainFrame>>) /\ garbage # <<>> /\ garbage' = Tail(garbage)
      /\ st' = [st EXCEPT ![o] = "dying"]
      /\ UNCHANGED <<rc, weaks, deleter, ref, wptr, owner, faults>>
  BY DEF DrainPop, refVars
\* the oldest object queued leaves the queue
<1>3. /\ o \in Objects /\ st[o] = "queued" /\ Tail(garbage) \in Seq(Objects)
      /\ \A i \in 1 .. Len(Tail(garbage)) :
            /\ Tail(garbage)[i] \in Objects /\ st[Tail(garbage)[i]] = "queued"
            /\ Tail(garbage)[i] # o
      /\ \A i, j \in 1 .. Len(Tail(garbage)) : Tail(garbage)[i] = Tail(garbage)[j] => i = j
  <2>1. garbage \in Seq(Objects) /\ Len(garbage) \in Nat /\ Len(garbage) # 0
    BY <1>2, EmptySeq, LenProperties DEF RInv, TypeOK
  <2>2. /\ Tail(garbage) \in Seq(Objects) /\ Len(Tail(garbage)) = Len(garbage) - 1
        /\ \A i \in 1 .. Len(Tail(garbage)) : Tail(garbage)[i] = garbage[i + 1]
    BY <1>2, <2>1, HeadTailProperties
  <2>3. o = garbage[1] /\ 1 \in 1 .. Len(garbage)
    BY <2>1
  <2>4. \A i \in 1 .. Len(garbage) : garbage[i] \in Objects
    BY <2>1, ElementOfSeq
  <2>5. \A i, j \in 1 .. Len(garbage) : garbage[i] = garbage[j] => i = j
    BY DEF RInv, GarbageInv
  <2>6. \A i \in 1 .. Len(garbage) : st[garbage[i]] = "queued"
    BY DEF RInv, GarbageInv
  <2>7. \A i \in 1 .. Len(Tail(garbage)) : i + 1 \in 1 .. Len(garbage) /\ i + 1 # 1
    BY <2>1, <2>2
  <2> QED
    BY <2>2, <2>3, <2>4, <2>5, <2>6, <2>7
<1>4. /\ a \in Frames /\ a.op = "members" /\ a.obj = o
      /\ DrainFrame \in Frames /\ DrainFrame.op = "drain"
      /\ "members" \in DtorStages /\ "drain" \notin DtorStages /\ "members" # "free"
  BY <1>3, FramesBuilt DEF DtorStages
<1>5. p = <<a, DrainFrame>> \o Tail(stack[t])
  OBVIOUS
<1> HIDE DEF o, a, p
<1>6. /\ st' \in [Objects -> {"fresh", "live", "queued", "dying", "freed"}]
      /\ \A x \in Objects : st'[x] = IF x = o THEN "dying" ELSE st[x]
  BY <1>2, <1>3 DEF RInv, TypeOK
<1>7. \A u \in Threads : o \notin Destroyed(stack[u])
  BY <1>3, DyingObjects
<1>8. /\ p \in Seq(Frames) /\ Shaped(p) /\ DestroysOnce(p) /\ CallOf(p) = CallOf(stack[t])
      /\ Range(p) \subseteq {a, DrainFrame} \union Range(stack[t])
  <2>1. Range(Tail(stack[t])) \subseteq Range(stack[t])
    BY <1>1, PopFacts
  <2>2. o \notin Destroyed(Tail(stack[t]))
    BY <1>7, <2>1, DestroyedFacts
  <2>3. "members" \in DrainOps /\ "drain" \in DrainOps
    BY DEF DrainOps, DtorStages
  <2>4. /\ p \in Seq(Frames) /\ Shaped(p) /\ DestroysOnce(p) /\ CallOf(p) = CallOf(stack[t])
        /\ Range(p) = {a, DrainFrame} \union Range(Tail(stack[t]))
    BY <1>1, <1>4, <1>5, <2>2, <2>3, UpperFrames
  <2> QED
    BY <2>1, <2>4
<1>9. /\ StackMoves(calls)
      /\ \A u \in Threads : stack'[u] = IF u = t THEN p ELSE stack[u]
  <2>1. \A h \in Range(p) : h.op \in DtorStages =>
            \/ h \in Range(stack[t])
            \/ st'[h.obj] = "dying" /\ \A u \in Threads \ {t} : h.obj \notin Destroyed(stack[u])
    <3> SUFFICES ASSUME NEW h \in Range(p), h.op \in DtorStages, h \notin Range(stack[t])
                 PROVE  /\ st'[h.obj] = "dying"
                        /\ \A u \in Threads \ {t} : h.obj \notin Destroyed(stack[u])
      OBVIOUS
    <3>1. h = a /\ h.obj = o
      BY <1>4, <1>8
    <3>2. st'[o] = "dying"
      BY <1>3, <1>6
    <3> QED
      BY <1>7, <3>1, <3>2
  <2>2. \A x \in Objects : st[x] = "dying" /\ st'[x] # "dying" =>
            x \notin Destroyed(p) /\ \A u \in Threads \ {t} : x \notin Destroyed(stack[u])
    BY <1>6
  <2>3. stack' = [stack EXCEPT ![t] = p]
    BY <1>2, <1>5 DEF Continue
  <2> QED
    BY <1>8, <2>1, <2>2, <2>3, DrainStep
<1>10. NoneFreed
  <2>1. \A x \in Objects : DtorFrame("free", x).op = "free"
    BY FramesBuilt DEF DtorStages
  <2>2. \A x \in Objects : DtorFrame("free", x) \notin {a, DrainFrame}
    BY <1>4, <2>1
  <2> QED
    BY <1>8, <1>9, <2>2 DEF NoneFreed
<1>11. CountInv' /\ SetInv'
  BY <1>2, <1>3, <1>6, <1>9, DrainLeavesSet
<1>12. WeakInv' /\ PointerInv' /\ FaultInv'
  BY <1>2, <1>3, <1>6, <1>9, <1>10, DrainLeavesWeak
<1>13. GarbageInv'
  BY <1>2, <1>3, <1>6 DEF GarbageInv
<1>14. TypeOK'
  BY <1>2, <1>3, <1>6, <1>9 DEF StackMoves, RInv, TypeOK
<1> QED
  BY <1>9, <1>11, <1>12, <1>13, <1>14 DEF RInv, StackMoves
LEMMA DtorMembersStep ==
    ASSUME RInv, NEW t \in Threads, DtorMembers(t)
    PROVE  RInv'
<1> DEFINE f == Head(stack[t])
           o == f.obj
           old == ref[o]
           a == DtorFrame("base", o)
           g == IF old = Nil THEN <<a>> ELSE <<DrainFrame, a>>
           p == g \o Tail(stack[t])
<1>1. /\ stack[t] \in Seq(Frames) /\ stack[t] # <<>> /\ Shaped(stack[t])
      /\ DestroysOnce(stack[t]) /\ f.op = "members" /\ f.op \in DrainOps /\ f.op \in DtorStages
      /\ o \in Objects /\ st[o] = "dying" /\ o \in Destroyed(stack[t])
      /\ \A u \in Threads \ {t} : o \notin Destroyed(stack[u])
  BY TopFacts DEF DtorMembers, DrainOps, DtorStages
<1>2. /\ old = Nil => UNCHANGED <<st, rc, ref, garbage>>
      /\ old # Nil => ReleaseCount(old) /\ ref' = [ref EXCEPT ![o] = Nil]
      /\ Continue(t, g)
      /\ UNCHANGED <<weaks, deleter, wptr, owner, faults>>
  BY DEF DtorMembers
<1>3. old \in Objects \union {Nil} /\ ref \in [Strongs -> Objects \union {Nil}] /\ o \in Strongs
  BY <1>1 DEF RInv, TypeOK, Strongs
<1>4. /\ a \in Frames /\ a.op = "base" /\ a.obj = o
      /\ DrainFrame \in Frames /\ DrainFrame.op = "drain"
      /\ "base" \in DtorStages /\ "base" \in DrainOps /\ "drain" \in DrainOps /\ "base" # "free"
  BY <1>1, FramesBuilt DEF DtorStages, DrainOps
\* the stack has the shape it had
<1>5. /\ p \in Seq(Frames) /\ Shaped(p) /\ DestroysOnce(p) /\ CallOf(p) = CallOf(stack[t])
      /\ Range(p) \subseteq {a, DrainFrame} \union Range(stack[t])
  <2>1. o \notin Destroyed(Tail(stack[t])) /\ Range(Tail(stack[t])) \subseteq Range(stack[t])
    BY <1>1, PopFacts
  <2> HIDE DEF a, o, f, old
  <2>2. CASE old = Nil
    <3>1. p = <<a>> \o Tail(stack[t])
      BY <2>2
    <3> HIDE DEF p
    <3>2. /\ p \in Seq(Frames) /\ Shaped(p) /\ DestroysOnce(p) /\ CallOf(p) = CallOf(stack[t])
          /\ Range(p) = {a} \union Range(Tail(stack[t]))
      BY <1>1, <1>4, <2>1, <3>1, UpperFrames DEF f
    <3> QED
      BY <2>1, <3>2
  <2>3. CASE old # Nil
    <3>1. p = <<DrainFrame, a>> \o Tail(stack[t])
      BY <2>3
    <3> HIDE DEF p
    <3>2. "drain" \notin DtorStages
      BY DEF DtorStages
    <3>3. /\ p \in Seq(Frames) /\ Shaped(p) /\ DestroysOnce(p) /\ CallOf(p) = CallOf(stack[t])
          /\ Range(p) = {DrainFrame, a} \union Range(Tail(stack[t]))
      BY <1>1, <1>4, <2>1, <3>1, <3>2, UpperFrames DEF f
    <3> QED
      BY <2>1, <3>3
  <2> QED
    BY <2>2, <2>3
<1>6. stack' = [stack EXCEPT ![t] = p]
  BY <1>2 DEF Continue
<1> HIDE DEF f, o, a, g, p
<1>7. calls \in [Threads -> Frames]
  BY Views DEF RInv
\* the member of a dying object is in nobody's set()
<1>8. \A u \in Threads : calls[u].op \in SetOps => calls[u].slot # o
  BY <1>1, MemberSetLive
<1>9. o \notin StaleIn(calls)
  BY <1>8 DEF StaleIn, SetOps
<1>10. old # Nil => old \in Objects /\ o \in Claims(old) /\ rc[old] > 0 /\ st[old] = "live"
  <2> SUFFICES ASSUME old # Nil PROVE o \in Claims(old) /\ rc[old] > 0 /\ st[old] = "live"
    BY <1>3
  <2>1. o \in Claims(old)
    BY <1>3, <1>9, Views DEF RInv, ClaimsIn
  <2> QED
    BY <1>3, <2>1, HeldLive DEF RInv, HeldIsLive, CountInv
<1>11. /\ st' \in [Objects -> {"fresh", "live", "queued", "dying", "freed"}]
       /\ rc' \in [Objects -> Nat] /\ garbage' \in Seq(Objects)
       /\ \A x \in Objects : /\ rc'[x] = IF x = old THEN rc[x] - 1 ELSE rc[x]
                             /\ st[x] # "live" => st'[x] = st[x]
                             /\ st[x] = "live" => st'[x] \in {"live", "queued"}
                             /\ st'[x] = "live" <=> rc'[x] > 0
       /\ GarbageInv'
  <2>1. CASE old = Nil
    <3>1. UNCHANGED <<st, rc, garbage>>
      BY <1>2, <2>1
    <3> QED
      BY <2>1, <3>1, NilAssumption DEF RInv, TypeOK, GarbageInv, CountInv
  <2>2. CASE old # Nil
    BY <1>2, <1>10, <2>2, ReleaseEffect
  <2> QED
    BY <2>1, <2>2
<1>12. /\ ref' \in [Strongs -> Objects \union {Nil}]
       /\ \A s \in Strongs : ref'[s] = IF s = o THEN Nil ELSE ref[s]
  <2>1. CASE old = Nil
    BY <1>2, <1>3, <2>1
  <2>2. CASE old # Nil
    BY <1>2, <1>3, <2>2
  <2> QED
    BY <2>1, <2>2
<1>13. /\ StackMoves(calls)
       /\ \A u \in Threads : stack'[u] = IF u = t THEN p ELSE stack[u]
  <2>1. \A h \in Range(p) : h.op \in DtorStages =>
            \/ h \in Range(stack[t])
            \/ st'[h.obj] = "dying" /\ \A u \in Threads \ {t} : h.obj \notin Destroyed(stack[u])
    <3> SUFFICES ASSUME NEW h \in Range(p), h.op \in DtorStages, h \notin Range(stack[t])
                 PROVE  /\ st'[h.obj] = "dying"
                        /\ \A u \in Threads \ {t} : h.obj \notin Destroyed(stack[u])
      OBVIOUS
    <3>1. st'[o] = "dying"
      BY <1>1, <1>11
    <3>2. "drain" \notin DtorStages
      BY DEF DtorStages
    <3>3. h = a /\ h.obj = o
      BY <1>4, <1>5, <3>2
    <3> QED
      BY <1>1, <3>1, <3>3
  <2>2. \A x \in Objects : st[x] = "dying" /\ st'[x] # "dying" =>
            x \notin Destroyed(p) /\ \A u \in Threads \ {t} : x \notin Destroyed(stack[u])
    BY <1>11
  <2> QED
    BY <1>5, <1>6, <2>1, <2>2, DrainStep
<1>14. NoneFreed
  <2>1. \A x \in Objects : DtorFrame("free", x).op = "free"
    BY FramesBuilt DEF DtorStages
  <2>2. \A x \in Objects : DtorFrame("free", x) \notin {a, DrainFrame}
    BY <1>4, <2>1
  <2> QED
    BY <1>5, <1>13, <2>2 DEF NoneFreed
<1>15. /\ calls' = calls
       /\ \A x : Setting(x)' = Setting(x)
       /\ \A x \in Objects : Claims(x)' = Claims(x) \ {o}
  <2>1. calls' = calls
    BY <1>13 DEF StackMoves
  <2>2. \A x \in Objects : ClaimsIn(calls, ref', x) = ClaimsIn(calls, ref, x) \ {o}
    BY <1>12, NilAssumption DEF ClaimsIn
  <2> QED
    BY <1>13, <2>1, <2>2, Views DEF RInv, StackMoves
<1>16. CountInv'
  <2> SUFFICES ASSUME NEW x \in Objects
               PROVE  rc'[x] = Cardinality(Claims(x)') + Cardinality(Setting(x)')
    BY <1>11 DEF CountInv, CountExact
  <2>1. /\ IsFiniteSet(Claims(x)) /\ Cardinality(Claims(x)) \in Nat
        /\ Cardinality(Setting(x)) \in Nat
    BY FiniteRefs DEF Claims, Setting
  <2>2. rc[x] = Cardinality(Claims(x)) + Cardinality(Setting(x))
    BY DEF RInv, CountInv, CountExact
  <2>3. CASE x = old
    <3>1. o \in Claims(x)
      BY <1>10, <2>3, NilAssumption
    <3>2. Cardinality(Claims(x) \ {o}) = Cardinality(Claims(x)) - 1
      BY <2>1, <3>1, FS_RemoveElement
    <3>3. Claims(x)' = Claims(x) \ {o} /\ Setting(x)' = Setting(x) /\ rc'[x] = rc[x] - 1
      BY <1>11, <1>15, <2>3
    <3> QED
      BY <2>1, <2>2, <3>2, <3>3
  <2>4. CASE x # old
    <3>1. o \notin Claims(x)
      BY <2>4 DEF Claims
    <3>2. Claims(x)' = Claims(x)
      BY <1>15, <3>1
    <3>3. Setting(x)' = Setting(x) /\ rc'[x] = rc[x]
      BY <1>11, <1>15, <2>4
    <3> QED
      BY <2>2, <3>2, <3>3
  <2> QED
    BY <2>3, <2>4
<1>17. SetInv'
  <2> SUFFICES ASSUME NEW u \in Threads, calls[u].op \in SetOps, NEW s, s = calls[u].slot
               PROVE  /\ s \in Slots => owner[s] = u
                      /\ s \in Objects => /\ \E x \in Slots : owner[x] = u /\ Claims(s)' = {x}
                                          /\ Setting(s)' \subseteq {u}
    <3>1. owner' = owner
      BY <1>2
    <3> QED
      BY <1>15, <3>1 DEF SetInv
  <2>1. s \in Slots => owner[s] = u
    BY DEF RInv, SetInv
  <2>2. ASSUME s \in Objects
        PROVE  (\E x \in Slots : owner[x] = u /\ Claims(s)' = {x}) /\ Setting(s)' \subseteq {u}
    <3>1. PICK x \in Slots : owner[x] = u /\ Claims(s) = {x}
      BY <2>2 DEF RInv, SetInv
    <3>2. Setting(s) \subseteq {u}
      BY <2>2 DEF RInv, SetInv
    <3>3. x # o
      BY <1>1, NameAssumption
    <3>4. Claims(s)' = {x} /\ Setting(s)' = Setting(s)
      BY <1>15, <2>2, <3>1, <3>3
    <3> QED
      BY <3>1, <3>2, <3>4
  <2> QED
    BY <2>1, <2>2
<1>18. WeakInv' /\ PointerInv' /\ FaultInv'
  <2>1. UNCHANGED <<weaks, wptr, deleter, faults, owner>>
    BY <1>2
  <2>2. \A x \in Objects : st'[x] = "freed" <=> st[x] = "freed"
    BY <1>11
  <2>3. \A x \in Slots : ref'[x] = ref[x]
    BY <1>1, <1>12, NameAssumption DEF Strongs
  <2> QED
    BY <1>13, <1>14, <2>1, <2>2, <2>3, DrainLeavesWeak
<1>19. TypeOK'
  BY <1>2, <1>11, <1>12, <1>13 DEF StackMoves, RInv, TypeOK
<1> QED
  BY <1>11, <1>13, <1>16, <1>17, <1>18, <1>19 DEF RInv, StackMoves
LEMMA DtorBaseStep ==
    ASSUME RInv, NEW t \in Threads, DtorBase(t)
    PROVE  RInv'
<1> DEFINE f == Head(stack[t])
           o == f.obj
           a == DtorFrame("free", o)
           p == <<DrainFrame, a>> \o Tail(stack[t])
<1>1. /\ stack[t] \in Seq(Frames) /\ stack[t] # <<>> /\ Shaped(stack[t])
      /\ DestroysOnce(stack[t]) /\ f.op = "base" /\ f.op \in DrainOps /\ f.op \in DtorStages
      /\ o \in Objects /\ st[o] = "dying" /\ o \in Destroyed(stack[t])
      /\ \A u \in Threads \ {t} : o \notin Destroyed(stack[u])
  BY TopFacts DEF DtorBase, DrainOps, DtorStages
<1>2. /\ wptr' = [w \in Weaks |-> IF w \in weaks[o] THEN Nil ELSE wptr[w]]
      /\ stack' = [stack EXCEPT ![t] = p]
      /\ UNCHANGED <<st, rc, weaks, deleter, ref, owner, garbage, faults>>
  BY DEF DtorBase, Continue, objVars
<1>3. /\ a \in Frames /\ a.op = "free" /\ a.obj = o
      /\ DrainFrame \in Frames /\ DrainFrame.op = "drain"
      /\ "free" \in DtorStages /\ "free" \in DrainOps /\ "drain" \in DrainOps
      /\ "drain" \notin DtorStages
  BY <1>1, FramesBuilt DEF DtorStages, DrainOps
<1>4. /\ p \in Seq(Frames) /\ Shaped(p) /\ DestroysOnce(p) /\ CallOf(p) = CallOf(stack[t])
      /\ Range(p) \subseteq {a, DrainFrame} \union Range(stack[t])
  <2>1. o \notin Destroyed(Tail(stack[t])) /\ Range(Tail(stack[t])) \subseteq Range(stack[t])
    BY <1>1, PopFacts
  <2>2. p = <<DrainFrame, a>> \o Tail(stack[t])
    OBVIOUS
  <2> HIDE DEF a, o, p
  <2>3. /\ p \in Seq(Frames) /\ Shaped(p) /\ DestroysOnce(p) /\ CallOf(p) = CallOf(stack[t])
        /\ Range(p) = {DrainFrame, a} \union Range(Tail(stack[t]))
    BY <1>1, <1>3, <2>1, <2>2, UpperFrames
  <2> QED
    BY <2>1, <2>3
<1>5. a = DtorFrame("free", o)
  OBVIOUS
<1> HIDE DEF f, o, a, p
<1>6. /\ StackMoves(calls)
      /\ \A u \in Threads : stack'[u] = IF u = t THEN p ELSE stack[u]
  <2>1. \A h \in Range(p) : h.op \in DtorStages =>
            \/ h \in Range(stack[t])
            \/ st'[h.obj] = "dying" /\ \A u \in Threads \ {t} : h.obj \notin Destroyed(stack[u])
    BY <1>1, <1>2, <1>3, <1>4
  <2>2. \A x \in Objects : st[x] = "dying" => st'[x] = "dying"
    BY <1>2
  <2> QED
    BY <1>2, <1>4, <2>1, <2>2, DrainStep
<1>7. CountInv' /\ SetInv'
  BY <1>2, <1>6, DrainLeavesSet
<1>8. /\ wptr' \in [Weaks -> Objects \union {Nil}]
      /\ \A w \in Weaks : wptr'[w] = IF w \in weaks[o] THEN Nil ELSE wptr[w]
      /\ calls' = calls /\ calls \in [Threads -> Frames]
      /\ Unregistered' = Unregistered
  <2>1. wptr \in [Weaks -> Objects \union {Nil}]
    BY DEF RInv, TypeOK
  <2>2. calls' = calls /\ Unregistered' = UnregisteredIn(calls)
    BY <1>6 DEF StackMoves
  <2>3. calls \in [Threads -> Frames] /\ Unregistered = UnregisteredIn(calls)
    BY Views DEF RInv
  <2> QED
    BY <1>2, <2>1, <2>2, <2>3
<1>9. WeakInv'
  <2> SUFFICES ASSUME NEW u \in Threads, NEW g, g = calls[u], g.op \in WeakOps
               PROVE  /\ owner[g.slot] = u
                      /\ g.new # Nil => /\ g.slot \in weaks[g.new]
                                        /\ \E x \in Slots : owner[x] = u /\ ref[x] = g.new
                      /\ g.op = "wread" => g.new = Nil \/ wptr'[g.slot] # g.new
                      /\ g.op = "unweak" => /\ g.old # Nil /\ g.old # g.new
                                            /\ st[g.old] = "freed" => deleter[g.old] # u
    <3>1. /\ owner' = owner /\ ref' = ref /\ st' = st /\ deleter' = deleter
          /\ weaks' = weaks /\ calls' = calls
      BY <1>2, <1>8
    <3> QED
      BY <3>1 DEF WeakInv
  <2>1. g.slot \in Weaks
    BY <1>8, FrameFacts
  <2>2. wptr'[g.slot] = Nil \/ wptr'[g.slot] = wptr[g.slot]
    BY <1>8, <2>1
  <2> QED
    BY <2>2 DEF RInv, WeakInv
\* a Weak that still points somewhere was not registered with the object
<1>10. PointerInv'
  <2> SUFFICES ASSUME NEW w \in Weaks, w \notin Unregistered, NEW x, x = wptr'[w], x # Nil
               PROVE  /\ w \in weaks[x] /\ st[x] # "freed"
                      /\ \A u \in Threads : DtorFrame("free", x) \notin Range(stack'[u])
    <3>1. weaks' = weaks /\ st' = st /\ Unregistered' = Unregistered
      BY <1>2, <1>8
    <3> QED
      BY <3>1 DEF PointerInv
  <2>1. w \notin weaks[o] /\ x = wptr[w] /\ x \in Objects
    BY <1>8
  <2>2. /\ w \in weaks[x] /\ st[x] # "freed"
        /\ \A u \in Threads : DtorFrame("free", x) \notin Range(stack[u])
    BY <2>1 DEF RInv, PointerInv
  <2>3. DtorFrame("free", x).op = "free" /\ DtorFrame("free", x).obj = x
    BY <2>1, FramesBuilt DEF DtorStages
  <2>4. DtorFrame("free", x) # a /\ DtorFrame("free", x) # DrainFrame
    BY <1>3, <2>1, <2>2, <2>3
  <2> QED
    BY <1>4, <1>6, <2>2, <2>4
<1>11. FaultInv' /\ GarbageInv' /\ TypeOK'
  BY <1>2, <1>6, <1>8 DEF StackMoves, RInv, FaultInv, GarbageInv, TypeOK
<1> QED
  BY <1>6, <1>7, <1>9, <1>10, <1>11 DEF RInv, StackMoves

LEMMA DtorFreeStep ==
    ASSUME RInv, NEW t \in Threads, DtorFree(t)
    PROVE  RInv'
<1> DEFINE f == Head(stack[t])
           o == f.obj
           p == <<>> \o Tail(stack[t])
<1>1. /\ stack[t] \in Seq(Frames) /\ stack[t] # <<>> /\ Shaped(stack[t])
      /\ DestroysOnce(stack[t]) /\ f.op \in DrainOps /\ f.op \in DtorStages
      /\ o \in Objects /\ st[o] = "dying" /\ o \in Destroyed(stack[t])
      /\ f = DtorFrame("free", o) /\ f \in Range(stack[t])
      /\ \A u \in Threads \ {t} : o \notin Destroyed(stack[u])
  BY TopFacts DEF DtorFree, DrainOps, DtorStages
<1>2. /\ st' = [st EXCEPT ![o] = "freed"] /\ deleter' = [deleter EXCEPT ![o] = t]
      /\ stack' = [stack EXCEPT ![t] = p]
      /\ UNCHANGED <<rc, weaks, ref, wptr, owner, garbage, faults>>
  BY DEF DtorFree, Continue, refVars
<1>3. /\ p \in Seq(Frames) /\ Shaped(p) /\ DestroysOnce(p) /\ CallOf(p) = CallOf(stack[t])
      /\ Range(p) \subseteq Range(stack[t]) /\ o \notin Destroyed(p)
  BY <1>1, UpperFrames
<1> HIDE DEF f, o, p
<1>4. /\ st \in [Objects -> {"fresh", "live", "queued", "dying", "freed"}]
      /\ st' \in [Objects -> {"fresh", "live", "queued", "dying", "freed"}]
      /\ \A x \in Objects : st'[x] = IF x = o THEN "freed" ELSE st[x]
      /\ deleter' \in [Objects -> Threads \union {Nil}]
      /\ \A x \in Objects : deleter'[x] = IF x = o THEN t ELSE deleter[x]
  BY <1>1, <1>2 DEF RInv, TypeOK
<1>5. /\ StackMoves(calls)
      /\ \A u \in Threads : stack'[u] = IF u = t THEN p ELSE stack[u]
  <2>1. \A x \in Objects : st[x] = "dying" /\ st'[x] # "dying" => x = o
    BY <1>4
  <2>2. \A x \in Objects : st[x] = "dying" /\ st'[x] # "dying" =>
            x \notin Destroyed(p) /\ \A u \in Threads \ {t} : x \notin Destroyed(stack[u])
    BY <1>1, <1>3, <2>1
  <2> QED
    BY <1>2, <1>3, <2>2, DrainStep
<1>6. NoneFreed
  BY <1>3, <1>5 DEF NoneFreed
<1>7. CountInv' /\ SetInv'
  BY <1>1, <1>2, <1>4, <1>5, DrainLeavesSet
<1>8. /\ calls' = calls /\ calls \in [Threads -> Frames] /\ Unregistered' = Unregistered
  BY <1>5, Views DEF StackMoves, RInv
\* a thread that deletes is not itself between reading a Weak and unWeak
<1>9. WeakInv'
  <2> SUFFICES ASSUME NEW u \in Threads, NEW g, g = calls[u], g.op \in WeakOps
               PROVE  /\ owner[g.slot] = u
                      /\ g.new # Nil => /\ g.slot \in weaks[g.new]
                                        /\ \E x \in Slots : owner[x] = u /\ ref[x] = g.new
                      /\ g.op = "wread" => g.new = Nil \/ wptr[g.slot] # g.new
                      /\ g.op = "unweak" => /\ g.old # Nil /\ g.old # g.new
                                            /\ st'[g.old] = "freed" => deleter'[g.old] # u
    <3>1. /\ owner' = owner /\ ref' = ref /\ wptr' = wptr
          /\ weaks' = weaks /\ calls' = calls
      BY <1>2, <1>8
    <3> QED
      BY <3>1 DEF WeakInv
  <2>1. /\ owner[g.slot] = u
        /\ g.new # Nil => /\ g.slot \in weaks[g.new]
                          /\ \E x \in Slots : owner[x] = u /\ ref[x] = g.new
        /\ g.op = "wread" => g.new = Nil \/ wptr[g.slot] # g.new
        /\ g.op = "unweak" => /\ g.old # Nil /\ g.old # g.new
                              /\ st[g.old] = "freed" => deleter[g.old] # u
    BY DEF RInv, WeakInv
  <2>2. g.old \in Objects \union {Nil}
    BY <1>8, FrameFacts
  <2>3. g.op = "unweak" => u # t
    <3>1. CallOf(stack[t]).op # "unweak"
      BY <1>1, PopFacts DEF f
    <3> QED
      BY <3>1 DEF calls
  <2> QED
    BY <1>4, <2>1, <2>2, <2>3
\* no Weak points at an object about to be freed
<1>10. PointerInv'
  <2> SUFFICES ASSUME NEW w \in Weaks, w \notin Unregistered, NEW x, x = wptr[w], x # Nil
               PROVE  /\ w \in weaks[x] /\ st'[x] # "freed"
                      /\ \A u \in Threads : DtorFrame("free", x) \notin Range(stack'[u])
    <3>1. weaks' = weaks /\ wptr' = wptr /\ Unregistered' = Unregistered
      BY <1>2, <1>8
    <3> QED
      BY <3>1 DEF PointerInv
  <2>1. x \in Objects
    BY DEF RInv, TypeOK
  <2>2. /\ w \in weaks[x] /\ st[x] # "freed"
        /\ \A u \in Threads : DtorFrame("free", x) \notin Range(stack[u])
    BY DEF RInv, PointerInv
  <2>3. x # o
    BY <1>1, <2>2
  <2> QED
    BY <1>4, <1>6, <2>1, <2>2, <2>3 DEF NoneFreed
<1>11. FaultInv'
  <2> SUFFICES ASSUME NEW x \in faults PROVE st'[x[2]] = "freed" /\ deleter'[x[2]] # x[1]
    BY <1>2 DEF FaultInv
  <2>1. st[x[2]] = "freed" /\ deleter[x[2]] # x[1] /\ x[2] \in Objects
    BY DEF RInv, TypeOK, FaultInv
  <2> QED
    BY <1>1, <1>4, <2>1
<1>12. GarbageInv'
  <2>1. \A i \in 1 .. Len(garbage) : garbage[i] \in Objects /\ st[garbage[i]] = "queued"
    BY ElementOfSeq DEF RInv, TypeOK, GarbageInv
  <2>2. \A i \in 1 .. Len(garbage) : st'[garbage[i]] = "queued"
    BY <1>1, <1>4, <2>1
  <2> QED
    BY <1>2, <2>2 DEF RInv, GarbageInv
<1>13. TypeOK'
  BY <1>2, <1>4, <1>5 DEF StackMoves, RInv, TypeOK
<1> QED
  BY <1>5, <1>7, <1>9, <1>10, <1>11, <1>12, <1>13 DEF RInv, StackMoves

-----------------------------------------------------------------------------
(* A reference changes hands.                                              *)

LEMMA GiveStep ==
    ASSUME RInv, NEW t \in Threads, NEW x \in Slots \union Weaks, NEW u \in Threads,
           Give(t, x, u)
    PROVE  RInv'
<1>1. /\ stack[t] = <<>> /\ owner[x] = t /\ owner' = [owner EXCEPT ![x] = u]
      /\ UNCHANGED <<st, rc, weaks, deleter, ref, wptr, garbage, stack, faults>>
  BY DEF Give, Idle, objVars
<1>2. calls[t].op \notin SetOps \union WeakOps
  BY <1>1, FramesBuilt DEF calls, CallOf, SetOps, WeakOps
<1>3. /\ owner' \in [Slots \union Weaks -> Threads]
      /\ \A y \in Slots \union Weaks : owner[y] # t => owner'[y] = owner[y]
  BY <1>1 DEF RInv, TypeOK
<1>4. StackMoves(calls') /\ NoneFreed /\ calls' = calls
  <2>1. stack' \in [Threads -> Seq(Frames)] /\ StackInv' /\ \A v \in Threads : Shaped(stack'[v])
    BY <1>1 DEF RInv, TypeOK, StackInv
  <2>2. calls' = calls
    BY <1>1 DEF calls
  <2> QED
    BY <1>1, <2>1, <2>2, ViewsNext DEF StackMoves, NoneFreed
<1>5. CountInv' /\ SetInv'
  <2>1. \A v \in Threads, y \in Slots : calls[v].op \in SetOps /\ owner[y] = v => owner'[y] = v
    BY <1>2, <1>3
  <2> QED
    BY <1>1, <1>4, <2>1, SetKept
<1>6. WeakInv' /\ PointerInv' /\ FaultInv'
  <2>1. \A v \in Threads, y \in Slots \union Weaks : calls[v].op \in WeakOps /\ owner[y] = v =>
            owner'[y] = v /\ (y \in Slots => ref'[y] = ref[y])
    BY <1>1, <1>2, <1>3
  <2> QED
    BY <1>1, <1>4, <2>1, WeakKept
<1>7. TypeOK' /\ GarbageInv'
  BY <1>1, <1>3 DEF RInv, TypeOK, GarbageInv
<1> QED
  BY <1>4, <1>5, <1>6, <1>7 DEF RInv, StackMoves
-----------------------------------------------------------------------------
(* The invariant.                                                          *)

LEMMA InitInv ==
    ASSUME Init
    PROVE  RInv
<1>1. /\ stack \in [Threads -> Seq(Frames)] /\ garbage \in Seq(Objects)
      /\ \A t \in Threads : stack[t] = <<>>
  BY CallFrames DEF Init
<1>2. TypeOK
  BY <1>1 DEF Init, TypeOK
<1>3. StackInv
  BY <1>1, CallFrames DEF StackInv
<1>4. \A t \in Threads : calls[t] = DrainFrame
  BY <1>1, CallFrames DEF calls
<1>5. DrainFrame.op = "drain" /\ "drain" \notin SetOps \union WeakOps
  BY FramesBuilt DEF SetOps, WeakOps
<1>6. \A o \in Objects : Claims(o) = {} /\ Setting(o) = {}
  <2>1. \A o \in Objects : ClaimsIn(calls, ref, o) = {}
    BY NilAssumption DEF Init, ClaimsIn
  <2>2. \A o : SettingIn(calls, o) = {}
    BY <1>4, <1>5 DEF SettingIn
  <2> QED
    BY <1>2, <1>3, <2>1, <2>2, Views
<1>7. CountInv
  <2>1. \A o \in Objects : rc[o] = 0 /\ st[o] = "fresh"
    BY DEF Init
  <2> QED
    BY <1>6, <2>1, FS_EmptySet DEF CountInv, CountExact
<1>8. SetInv /\ WeakInv
  BY <1>4, <1>5 DEF SetInv, WeakInv
<1>9. GarbageInv /\ PointerInv /\ FaultInv
  <2>1. Len(garbage) = 0
    BY DEF Init
  <2>2. GarbageInv
    BY <2>1 DEF GarbageInv
  <2> QED
    BY <2>2 DEF Init, PointerInv, FaultInv
<1> QED
  BY <1>2, <1>3, <1>7, <1>8, <1>9 DEF RInv

LEMMA StutterInv ==
    ASSUME RInv, UNCHANGED vars
    PROVE  RInv'
<1>1. UNCHANGED <<st, rc, weaks, deleter, ref, wptr, owner, garbage, stack, faults>>
  BY DEF vars, objVars, refVars
<1>2. TypeOK' /\ StackInv' /\ GarbageInv' /\ FaultInv'
  BY <1>1 DEF RInv, TypeOK, StackInv, GarbageInv, FaultInv
<1>3. StackMoves(calls') /\ NoneFreed /\ calls' = calls
  <2>1. stack' \in [Threads -> Seq(Frames)] /\ \A t \in Threads : Shaped(stack'[t])
    BY <1>1 DEF RInv, TypeOK, StackInv
  <2>2. calls' = calls
    BY <1>1 DEF calls
  <2> QED
    BY <1>1, <1>2, <2>1, <2>2, ViewsNext DEF StackMoves, NoneFreed
<1>4. CountInv' /\ SetInv'
  BY <1>1, <1>3, SetKept
<1>5. WeakInv' /\ PointerInv'
  BY <1>1, <1>3, WeakKept
<1> QED
  BY <1>2, <1>4, <1>5 DEF RInv

LEMMA InvStep ==
    ASSUME RInv, [Next]_vars
    PROVE  RInv'
<1>1. ASSUME NEW t \in Threads, Calls(t) PROVE RInv'
  <2>1. CASE \E s \in Strongs, o \in Objects \union {Nil} : SetBegin(t, s, o)
    BY <2>1, SetBeginStep
  <2>2. CASE \E w \in Weaks, o \in Objects \union {Nil} : WeakBegin(t, w, o)
    BY <2>2, WeakBeginStep
  <2>3. CASE \E x \in Slots \union Weaks, u \in Threads \ {t} : Give(t, x, u)
    BY <2>3, GiveStep
  <2> QED
    BY <1>1, <2>1, <2>2, <2>3 DEF Calls
<1>2. ASSUME NEW t \in Threads, Step(t) PROVE RInv'
  <2>1. CASE SetRelease(t) \/ SetAssign(t)
    BY <2>1, SetReleaseStep, SetAssignStep
  <2>2. CASE WeakRead(t) \/ WeakUnreg(t) \/ WeakAssign(t)
    BY <2>2, WeakReadStep, WeakUnregStep, WeakAssignStep
  <2>3. CASE DrainPop(t) \/ DrainDone(t)
    BY <2>3, DrainPopStep, DrainDoneStep
  <2>4. CASE DtorMembers(t) \/ DtorBase(t) \/ DtorFree(t)
    BY <2>4, DtorMembersStep, DtorBaseStep, DtorFreeStep
  <2> QED
    BY <1>2, <2>1, <2>2, <2>3, <2>4 DEF Step
<1> QED
  BY <1>1, <1>2, StutterInv DEF Next

LEMMA Invariance == Spec => []RInv
<1>1. Init => RInv
  BY InitInv
<1>2. RInv /\ [Next]_vars => RInv'
  BY InvStep
<1> QED
  BY <1>1, <1>2, PTL DEF Spec

-----------------------------------------------------------------------------
(* What follows.                                                           *)

\* Every variable has the type it was given: no count is ever decremented below
\* zero, whatever the interleaving of Object::retain, release and the drains
\* (kk-object.cc, kk-atomic-pthread.cc).
THEOREM TypeCorrect == Spec => []TypeOK
<1>1. RInv => TypeOK
  BY DEF RInv
<1> QED
  BY <1>1, Invariance, PTL

\* An object's _retainCount is the number of Strongs on it, a Strong::set that has
\* retained it and not yet assigned it included and one that has released its old
\* object and not yet overwritten it excluded: Object::retain and release never
\* lose or invent a reference.
THEOREM CountsExact == Spec => []CountExact
<1>1. RInv => CountExact
  BY DEF RInv, CountInv
<1> QED
  BY <1>1, Invariance, PTL

\* An object a Strong refers to is neither queued by release() nor deleted by a
\* drain, of this thread or another.
THEOREM HeldNeverDeleted == Spec => []HeldIsLive
<1>1. RInv => HeldIsLive
  BY HeldLive DEF RInv
<1> QED
  BY <1>1, Invariance, PTL

LEMMA OneDestructor ==
    ASSUME RInv
    PROVE  DeletedOnce
<1>1. \A i, j \in 1 .. Len(garbage) : garbage[i] = garbage[j] => i = j
  BY DEF RInv, GarbageInv
<1>2. \A o \in Range(garbage) : st[o] = "queued"
  <2>1. DOMAIN garbage = 1 .. Len(garbage)
    BY LenProperties DEF RInv, TypeOK
  <2> QED
    BY <2>1 DEF RInv, GarbageInv, Range
<1>3. ASSUME NEW p \in Dtors, NEW q \in Dtors,
             stack[p[1]][p[2]].obj = stack[q[1]][q[2]].obj
      PROVE  p = q
  <2>0. \A r \in Dtors : \E t \in Threads : \E i \in 1 .. Len(stack[t]) :
            r = <<t, i>> /\ stack[t][i].op \in DtorStages
    BY DEF Dtors
  <2>1. PICK t \in Threads : \E i \in 1 .. Len(stack[t]) :
            p = <<t, i>> /\ stack[t][i].op \in DtorStages
    BY <2>0
  <2>2. PICK i \in 1 .. Len(stack[t]) : p = <<t, i>> /\ stack[t][i].op \in DtorStages
    BY <2>1
  <2>3. PICK u \in Threads : \E j \in 1 .. Len(stack[u]) :
            q = <<u, j>> /\ stack[u][j].op \in DtorStages
    BY <2>0
  <2>4. PICK j \in 1 .. Len(stack[u]) : q = <<u, j>> /\ stack[u][j].op \in DtorStages
    BY <2>3
  <2>5. stack[t][i].obj = stack[u][j].obj
    BY <1>3, <2>2, <2>4
  <2>6. \A v \in Threads : DOMAIN stack[v] = 1 .. Len(stack[v])
    BY LenProperties DEF RInv, TypeOK
  <2>7. stack[t][i].obj \in Destroyed(stack[t]) /\ stack[u][j].obj \in Destroyed(stack[u])
    BY <2>2, <2>4, <2>6 DEF Destroyed, Range
  <2>8. t = u
    BY <2>5, <2>7 DEF RInv, StackInv
  <2>9. i = j
    BY <2>2, <2>4, <2>5, <2>8 DEF RInv, StackInv, DestroysOnce
  <2> QED
    BY <2>2, <2>4, <2>8, <2>9
<1> QED
  BY <1>1, <1>2, <1>3 DEF DeletedOnce

\* An object is queued once, leaves the queue before its destructor and is
\* destroyed by one frame of one thread, although every unlock() of the one mutex
\* drains the queue and the destructors it runs drain it again.
THEOREM EachDeletedOnce == Spec => []DeletedOnce
<1>1. RInv => DeletedOnce
  BY OneDestructor
<1> QED
  BY <1>1, Invariance, PTL

\* No Weak points at freed memory outside the set() that is about to overwrite it:
\* ~Object clears every registered Weak, and Weak::set registers before it assigns.
THEOREM WeaksCleared == Spec => []WeakCleared
<1>1. RInv => WeakCleared
  BY DEF RInv, PointerInv, WeakCleared
<1> QED
  BY <1>1, Invariance, PTL

\* The unlocked read in Weak::set meets freed memory only when another thread freed
\* it: a thread's own drains cannot come between that read and unWeak().
THEOREM OwnDrainsSafe == Spec => []OnlyOthersRace
<1>1. RInv => OnlyOthersRace
  BY DEF RInv, FaultInv, OnlyOthersRace
<1> QED
  BY <1>1, Invariance, PTL
-----------------------------------------------------------------------------
(* Nothing queued for deletion is forgotten: the half of Collected that is *)
(* an invariant.  Whoever queues an object drains before it returns, and a *)
(* drain ends only when the queue is empty; but the drain that is left may *)
(* be another thread's.                                                    *)

LEMMA ConcatRange ==
    ASSUME NEW p \in Seq(Frames), NEW q \in Seq(Frames)
    PROVE  p \o q \in Seq(Frames) /\ Range(p \o q) = Range(p) \union Range(q)
<1> DEFINE r == p \o q
<1>1. /\ r \in Seq(Frames) /\ Len(r) = Len(p) + Len(q)
      /\ \A i \in 1 .. Len(p) + Len(q) : r[i] = IF i <= Len(p) THEN p[i] ELSE q[i - Len(p)]
  BY ConcatProperties
<1>2. /\ Len(p) \in Nat /\ Len(q) \in Nat
      /\ DOMAIN p = 1 .. Len(p) /\ DOMAIN q = 1 .. Len(q) /\ DOMAIN r = 1 .. Len(r)
  BY <1>1, LenProperties
<1> HIDE DEF r
<1>3. \A i \in DOMAIN r : r[i] \in Range(p) \union Range(q)
  <2> TAKE i \in DOMAIN r
  <2>1. CASE i <= Len(p)
    <3>1. i \in DOMAIN p /\ r[i] = p[i]
      BY <1>1, <1>2, <2>1
    <3> QED
      BY <3>1 DEF Range
  <2>2. CASE ~(i <= Len(p))
    <3>1. i - Len(p) \in DOMAIN q /\ r[i] = q[i - Len(p)]
      BY <1>1, <1>2, <2>2
    <3> QED
      BY <3>1 DEF Range
  <2> QED
    BY <2>1, <2>2
<1>4. \A i \in DOMAIN p : i \in DOMAIN r /\ r[i] = p[i]
  BY <1>1, <1>2
<1>5. \A i \in DOMAIN q : \E j \in DOMAIN r : r[j] = q[i]
  <2> TAKE i \in DOMAIN q
  <2>1. i + Len(p) \in DOMAIN r /\ ~(i + Len(p) <= Len(p)) /\ i + Len(p) - Len(p) = i
    BY <1>1, <1>2
  <2>2. r[i + Len(p)] = q[i]
    BY <1>1, <1>2, <2>1
  <2> QED
    BY <2>1, <2>2
<1>6. Range(r) = Range(p) \union Range(q)
  BY <1>3, <1>4, <1>5 DEF Range
<1> QED
  BY <1>1, <1>6 DEF r

\* The innermost frame is replaced, and the others stay
LEMMA ContinueFacts ==
    ASSUME RInv, NEW t \in Threads, NEW op, Top(t, op), NEW g \in Seq(Frames), Continue(t, g)
    PROVE  /\ \A u \in Threads \ {t} : stack'[u] = stack[u]
           /\ Range(stack[t]) = {Head(stack[t])} \union Range(Tail(stack[t]))
           /\ Range(stack'[t]) = Range(g) \union Range(Tail(stack[t]))
<1>1. /\ stack[t] \in Seq(Frames) /\ stack[t] # <<>> /\ Shaped(stack[t])
      /\ DestroysOnce(stack[t])
  BY TopFacts
<1>2. /\ Tail(stack[t]) \in Seq(Frames)
      /\ Range(stack[t]) = {Head(stack[t])} \union Range(Tail(stack[t]))
  BY <1>1, PopFacts
<1>3. /\ \A u \in Threads \ {t} : stack'[u] = stack[u]
      /\ stack'[t] = g \o Tail(stack[t])
  BY DEF Continue, RInv, TypeOK
<1> QED
  BY <1>2, <1>3, ConcatRange

\* What is queued has a drain ahead of it
LEMMA DrainAhead ==
    ASSUME RInv, Attended, garbage # <<>>
    PROVE  \E t \in Threads : DrainFrame \in Range(stack[t])
<1>1. garbage \in Seq(Objects) /\ 1 \in 1 .. Len(garbage)
  BY EmptySeq, LenProperties DEF RInv, TypeOK
<1>2. garbage[1] \in Objects /\ st[garbage[1]] = "queued"
  BY <1>1, ElementOfSeq DEF RInv, GarbageInv
<1> QED
  BY <1>2 DEF Attended

\* The step of a frame: what it queues it follows with a drain, and what it takes
\* out of the queue it puts on its stack
LEMMA AttendStep ==
    ASSUME RInv, Attended, NEW t \in Threads, NEW op, Top(t, op),
           NEW g \in Seq(Frames), Continue(t, g), NEW f, f = Head(stack[t]),
           \A o \in Objects : st'[o] = "queued" => o \in Range(garbage'),
           garbage' # <<>> => \/ DrainFrame \in Range(g)
                              \/ garbage # <<>> /\ f # DrainFrame,
           \A o \in Objects : st'[o] = "dying" =>
               \/ \E h \in Range(g) : h.op \in DtorStages /\ h.obj = o
               \/ st[o] = "dying" /\ ~(f.op \in DtorStages /\ f.obj = o)
    PROVE  Attended'
<1>1. /\ \A u \in Threads \ {t} : stack'[u] = stack[u]
      /\ Range(stack[t]) = {f} \union Range(Tail(stack[t]))
      /\ Range(stack'[t]) = Range(g) \union Range(Tail(stack[t]))
  BY ContinueFacts
<1>2. \A u \in Threads : \A h \in Range(stack[u]) : h = f \/ h \in Range(stack'[u])
  BY <1>1
<1>3. garbage' # <<>> => \E u \in Threads : DrainFrame \in Range(stack'[u])
  BY <1>1, <1>2, DrainAhead
<1>4. ASSUME NEW o \in Objects, st'[o] = "queued"
      PROVE  /\ o \in Range(garbage')
             /\ \E u \in Threads : DrainFrame \in Range(stack'[u])
  <2>1. o \in Range(garbage')
    BY <1>4
  <2>2. garbage' # <<>>
    BY <2>1, CallFrames
  <2> QED
    BY <1>3, <2>1, <2>2
<1>5. ASSUME NEW o \in Objects, st'[o] = "dying"
      PROVE  \E u \in Threads : \E h \in Range(stack'[u]) : h.op \in DtorStages /\ h.obj = o
  <2>1. CASE \E h \in Range(g) : h.op \in DtorStages /\ h.obj = o
    BY <1>1, <2>1
  <2>2. CASE st[o] = "dying" /\ ~(f.op \in DtorStages /\ f.obj = o)
    <3>1. PICK u \in Threads : \E h \in Range(stack[u]) : h.op \in DtorStages /\ h.obj = o
      BY <2>2 DEF Attended
    <3>2. PICK h \in Range(stack[u]) : h.op \in DtorStages /\ h.obj = o
      BY <3>1
    <3> QED
      BY <1>2, <2>2, <3>2
  <2> QED
    BY <1>5, <2>1, <2>2
<1> QED
  BY <1>4, <1>5 DEF Attended

\* The call of an idle thread queues and takes out nothing
LEMMA AttendCall ==
    ASSUME RInv, Attended, NEW t \in Threads, Idle(t),
           \A u \in Threads \ {t} : stack'[u] = stack[u], garbage' = garbage,
           \A o \in Objects : st'[o] \in {"queued", "dying"} => st'[o] = st[o]
    PROVE  Attended'
<1>1. Range(stack[t]) = {}
  BY CallFrames DEF Idle
<1>2. \A u \in Threads : Range(stack[u]) \subseteq Range(stack'[u])
  BY <1>1
<1> QED
  BY <1>2 DEF Attended

\* release() queues the object it counts down to zero, and nothing else changes
LEMMA ReleaseQueues ==
    ASSUME RInv, Attended, NEW o \in Objects, ReleaseCount(o)
    PROVE  /\ \A p \in Objects : st'[p] = "queued" => p \in Range(garbage')
           /\ \A p \in Objects : st'[p] = "dying" => st[p] = "dying"
<1>1. /\ st \in [Objects -> {"fresh", "live", "queued", "dying", "freed"}]
      /\ garbage \in Seq(Objects)
  BY DEF RInv, TypeOK
<1>2. CASE rc[o] # 1
  BY <1>2 DEF ReleaseCount, Attended
<1>3. CASE rc[o] = 1
  <2>1. garbage' = Append(garbage, o) /\ st' = [st EXCEPT ![o] = "queued"]
    BY <1>3 DEF ReleaseCount
  <2>2. /\ DOMAIN garbage = 1 .. Len(garbage) /\ Len(garbage) \in Nat
        /\ Append(garbage, o) \in Seq(Objects) /\ Len(Append(garbage, o)) = Len(garbage) + 1
        /\ \A i \in 1 .. Len(garbage) : Append(garbage, o)[i] = garbage[i]
        /\ Append(garbage, o)[Len(garbage) + 1] = o
    BY <1>1, AppendProperties, LenProperties
  <2>3. DOMAIN Append(garbage, o) = 1 .. Len(garbage) + 1
    BY <2>2, LenProperties
  <2>4. \A i \in DOMAIN garbage : i \in DOMAIN garbage' /\ garbage'[i] = garbage[i]
    BY <2>1, <2>2, <2>3
  <2>5. \E i \in DOMAIN garbage' : garbage'[i] = o
    <3>1. Len(garbage) + 1 \in DOMAIN garbage'
      BY <2>1, <2>2, <2>3
    <3> QED
      BY <2>1, <2>2, <3>1
  <2>6. Range(garbage) \subseteq Range(garbage') /\ o \in Range(garbage')
    BY <2>4, <2>5 DEF Range
  <2>7. \A p \in Objects : st'[p] = IF p = o THEN "queued" ELSE st[p]
    BY <1>1, <2>1
  <2> QED
    BY <2>6, <2>7 DEF Attended
<1> QED
  BY <1>2, <1>3

LEMMA AttendRelease ==
    ASSUME RInv, Attended, NEW t \in Threads, SetRelease(t)
    PROVE  Attended'
<1> DEFINE f == Head(stack[t])
           old == ref[f.slot]
           c == SetFrame("assign", f.slot, f.new)
           g == IF old = Nil THEN <<c>> ELSE <<DrainFrame, c>>
<1>1. /\ f.op = "release" /\ f.slot \in Strongs /\ f.new \in Objects \union {Nil}
      /\ "release" \notin DtorStages /\ f # DrainFrame
  <2>1. "release" \in SetOps /\ "release" \notin DtorStages /\ "release" # "drain"
    BY DEF SetOps, DtorStages
  <2>2. f \in Frames /\ f.op = "release"
    BY TopFacts DEF SetRelease
  <2> QED
    BY <2>1, <2>2, FrameFacts, FramesBuilt
<1>2. c \in Frames /\ DrainFrame \in Frames /\ c.op = "assign"
  BY <1>1, FramesBuilt DEF SetOps
<1>3. /\ Top(t, "release") /\ Continue(t, g)
      /\ old = Nil => UNCHANGED <<st, garbage>>
      /\ old # Nil => ReleaseCount(old)
  BY DEF SetRelease
<1>4. old \in Objects \union {Nil}
  BY <1>1 DEF RInv, TypeOK
<1> HIDE DEF c, old, f
<1>5. g \in Seq(Frames) /\ (old # Nil => DrainFrame \in Range(g))
  <2>1. c.op \in SetOps \union WeakOps /\ c.op # "unweak"
    BY <1>2 DEF SetOps
  <2> QED
    BY <1>2, <2>1, CallFrames
<1> HIDE DEF g
<1>6. \A o \in Objects : /\ st'[o] = "queued" => o \in Range(garbage')
                         /\ st'[o] = "dying" => st[o] = "dying"
  <2>1. CASE old = Nil
    BY <1>3, <2>1 DEF Attended
  <2>2. CASE old # Nil
    BY <1>3, <1>4, <2>2, ReleaseQueues
  <2> QED
    BY <2>1, <2>2
<1>7. garbage' # <<>> => DrainFrame \in Range(g) \/ (garbage # <<>> /\ f # DrainFrame)
  BY <1>1, <1>3, <1>5
<1> QED
  BY <1>1, <1>3, <1>5, <1>6, <1>7, AttendStep DEF f

LEMMA AttendMembers ==
    ASSUME RInv, Attended, NEW t \in Threads, DtorMembers(t)
    PROVE  Attended'
<1> DEFINE f == Head(stack[t])
           o == f.obj
           old == ref[o]
           a == DtorFrame("base", o)
           g == IF old = Nil THEN <<a>> ELSE <<DrainFrame, a>>
<1>1. f.op = "members" /\ o \in Objects /\ f # DrainFrame
  <2>1. "members" \in DtorStages /\ "members" # "drain"
    BY DEF DtorStages
  <2> QED
    BY <2>1, TopFacts, FramesBuilt DEF DtorMembers
<1>2. /\ a \in Frames /\ a.op = "base" /\ a.obj = o /\ "base" \in DtorStages
      /\ DrainFrame \in Frames
  BY <1>1, FramesBuilt DEF DtorStages
<1>3. /\ Top(t, "members") /\ Continue(t, g)
      /\ old = Nil => UNCHANGED <<st, garbage>>
      /\ old # Nil => ReleaseCount(old)
  BY DEF DtorMembers
<1>4. old \in Objects \union {Nil}
  <2>1. ref \in [Strongs -> Objects \union {Nil}] /\ o \in Strongs
    BY <1>1 DEF RInv, TypeOK, Strongs
  <2> QED
    BY <2>1
<1> HIDE DEF a, old, o, f
<1>5. g \in Seq(Frames) /\ a \in Range(g) /\ (old # Nil => DrainFrame \in Range(g))
  <2>1. <<a>> \in Seq(Frames) /\ <<DrainFrame>> \in Seq(Frames)
        /\ <<DrainFrame>> \o <<a>> = <<DrainFrame, a>>
    BY <1>2, PairIsConcat
  <2>2. Range(<<a>>) = {a} /\ Range(<<DrainFrame>>) = {DrainFrame}
    BY DEF Range
  <2>3. /\ <<DrainFrame, a>> \in Seq(Frames)
        /\ Range(<<DrainFrame, a>>) = Range(<<DrainFrame>>) \union Range(<<a>>)
    BY <2>1, ConcatRange
  <2>4. CASE old = Nil
    BY <2>1, <2>2, <2>4
  <2>5. CASE old # Nil
    BY <2>2, <2>3, <2>5
  <2> QED
    BY <2>4, <2>5
<1> HIDE DEF g
<1>6. \A x \in Objects : /\ st'[x] = "queued" => x \in Range(garbage')
                         /\ st'[x] = "dying" => st[x] = "dying"
  <2>1. CASE old = Nil
    BY <1>3, <2>1 DEF Attended
  <2>2. CASE old # Nil
    BY <1>3, <1>4, <2>2, ReleaseQueues
  <2> QED
    BY <2>1, <2>2
<1>7. garbage' # <<>> => DrainFrame \in Range(g) \/ (garbage # <<>> /\ f # DrainFrame)
  BY <1>1, <1>3, <1>5
<1>8. \A x \in Objects : st'[x] = "dying" =>
          \/ \E h \in Range(g) : h.op \in DtorStages /\ h.obj = x
          \/ st[x] = "dying" /\ ~(f.op \in DtorStages /\ f.obj = x)
  BY <1>2, <1>5, <1>6 DEF o
<1> QED
  BY <1>3, <1>5, <1>6, <1>7, <1>8, AttendStep DEF f

LEMMA AttendPop ==
    ASSUME RInv, Attended, NEW t \in Threads, DrainPop(t)
    PROVE  Attended'
<1> DEFINE f == Head(stack[t])
           o == Head(garbage)
           a == DtorFrame("members", o)
           g == <<a, DrainFrame>>
<1>1. /\ garbage \in Seq(Objects) /\ garbage # <<>> /\ o \in Objects
      /\ Range(garbage) = {o} \union Range(Tail(garbage))
  <2>1. garbage \in Seq(Objects) /\ garbage # <<>> /\ Len(garbage) \in Nat /\ Len(garbage) # 0
        /\ DOMAIN garbage = 1 .. Len(garbage)
    BY EmptySeq, LenProperties DEF RInv, TypeOK, DrainPop
  <2>2. /\ Tail(garbage) \in Seq(Objects) /\ Len(Tail(garbage)) = Len(garbage) - 1
        /\ \A i \in 1 .. Len(Tail(garbage)) : Tail(garbage)[i] = garbage[i + 1]
    BY <2>1, HeadTailProperties
  <2>3. o = garbage[1] /\ DOMAIN Tail(garbage) = 1 .. Len(Tail(garbage))
    BY <2>1, <2>2, LenProperties
  <2>4. garbage[1] \in Objects
    BY <2>1, ElementOfSeq
  <2>5. \A i \in DOMAIN garbage : i = 1 \/ \E j \in DOMAIN Tail(garbage) : Tail(garbage)[j] = garbage[i]
    <3> TAKE i \in DOMAIN garbage
    <3>1. i # 1 => i - 1 \in 1 .. Len(Tail(garbage)) /\ (i - 1) + 1 = i
      BY <2>1, <2>2
    <3> QED
      BY <2>2, <2>3, <3>1
  <2>6. \A j \in DOMAIN Tail(garbage) : \E i \in DOMAIN garbage : Tail(garbage)[j] = garbage[i]
    <3> TAKE j \in DOMAIN Tail(garbage)
    <3>1. j + 1 \in DOMAIN garbage
      BY <2>1, <2>2, <2>3
    <3> QED
      BY <2>2, <2>3, <3>1
  <2>7. 1 \in DOMAIN garbage
    BY <2>1
  <2> HIDE DEF o
  <2>8. Range(garbage) = {o} \union Range(Tail(garbage))
    BY <2>3, <2>5, <2>6, <2>7 DEF Range
  <2> QED
    BY <2>1, <2>3, <2>4, <2>8
<1>2. /\ a \in Frames /\ a.op = "members" /\ a.obj = o /\ "members" \in DtorStages
      /\ DrainFrame \in Frames /\ "drain" \notin DtorStages
  BY <1>1, FramesBuilt DEF DtorStages
<1>3. /\ Top(t, "drain") /\ Continue(t, g) /\ garbage' = Tail(garbage)
      /\ st' = [st EXCEPT ![o] = "dying"]
  BY DEF DrainPop
<1>4. f.op = "drain"
  BY <1>3 DEF Top
<1>5. st \in [Objects -> {"fresh", "live", "queued", "dying", "freed"}]
  BY DEF RInv, TypeOK
<1> HIDE DEF a, o, f
<1>6. g \in Seq(Frames) /\ a \in Range(g) /\ DrainFrame \in Range(g)
  <2>1. <<a>> \in Seq(Frames) /\ <<DrainFrame>> \in Seq(Frames)
        /\ <<a>> \o <<DrainFrame>> = <<a, DrainFrame>>
    BY <1>2, PairIsConcat
  <2>2. Range(<<a>>) = {a} /\ Range(<<DrainFrame>>) = {DrainFrame}
    BY DEF Range
  <2>3. /\ <<a>> \o <<DrainFrame>> \in Seq(Frames)
        /\ Range(<<a>> \o <<DrainFrame>>) = {a} \union {DrainFrame}
    BY <2>1, <2>2, ConcatRange
  <2> QED
    BY <2>1, <2>3
<1> HIDE DEF g
<1>7. \A x \in Objects : st'[x] = IF x = o THEN "dying" ELSE st[x]
  BY <1>1, <1>3, <1>5
<1>8. \A x \in Objects : st'[x] = "queued" => x \in Range(garbage')
  BY <1>1, <1>3, <1>7 DEF Attended
<1>9. \A x \in Objects : st'[x] = "dying" =>
          \/ \E h \in Range(g) : h.op \in DtorStages /\ h.obj = x
          \/ st[x] = "dying" /\ ~(f.op \in DtorStages /\ f.obj = x)
  BY <1>2, <1>4, <1>6, <1>7
<1> QED
  BY <1>3, <1>6, <1>8, <1>9, AttendStep DEF f

LEMMA AttendFree ==
    ASSUME RInv, Attended, NEW t \in Threads, DtorFree(t)
    PROVE  Attended'
<1> DEFINE f == Head(stack[t])
<1>1. f.op = "free" /\ f.obj \in Objects /\ f # DrainFrame
  <2>1. "free" \in DtorStages /\ "free" # "drain"
    BY DEF DtorStages
  <2> QED
    BY <2>1, TopFacts, FramesBuilt DEF DtorFree
<1>2. /\ Top(t, "free") /\ Continue(t, <<>>) /\ garbage' = garbage
      /\ st' = [st EXCEPT ![f.obj] = "freed"]
  BY DEF DtorFree
<1> HIDE DEF f
<1>3. \A x \in Objects : st'[x] = IF x = f.obj THEN "freed" ELSE st[x]
  BY <1>1, <1>2 DEF RInv, TypeOK
<1>4. \A x \in Objects : st'[x] = "queued" => x \in Range(garbage')
  BY <1>2, <1>3 DEF Attended
<1>5. \A x \in Objects : st'[x] = "dying" =>
          \/ \E h \in Range(<<>>) : h.op \in DtorStages /\ h.obj = x
          \/ st[x] = "dying" /\ ~(f.op \in DtorStages /\ f.obj = x)
  BY <1>3
<1> QED
  BY <1>1, <1>2, <1>4, <1>5, CallFrames, AttendStep DEF f

\* The frames of a set() but its release queue nothing and take nothing out
LEMMA AttendOthers ==
    ASSUME RInv, Attended, NEW t \in Threads, NEW op, op \in SetOps \union WeakOps, Top(t, op),
           NEW g \in Seq(Frames), Continue(t, g), UNCHANGED <<st, garbage>>
    PROVE  Attended'
<1> DEFINE f == Head(stack[t])
<1>1. f.op = op /\ op \notin DtorStages /\ f # DrainFrame
  BY FramesBuilt DEF Top, SetOps, WeakOps, DtorStages
<1>2. \A x \in Objects : st'[x] = "queued" => x \in Range(garbage')
  BY DEF Attended
<1> HIDE DEF f
<1>3. garbage' # <<>> => DrainFrame \in Range(g) \/ (garbage # <<>> /\ f # DrainFrame)
  BY <1>1
<1>4. \A x \in Objects : st'[x] = "dying" =>
          \/ \E h \in Range(g) : h.op \in DtorStages /\ h.obj = x
          \/ st[x] = "dying" /\ ~(f.op \in DtorStages /\ f.obj = x)
  BY <1>1
<1> QED
  BY <1>2, <1>3, <1>4, AttendStep DEF f

LEMMA AttendBase ==
    ASSUME RInv, Attended, NEW t \in Threads, DtorBase(t)
    PROVE  Attended'
<1> DEFINE f == Head(stack[t])
           a == DtorFrame("free", f.obj)
           g == <<DrainFrame, a>>
<1>1. Top(t, "base") /\ Continue(t, g) /\ st' = st /\ garbage' = garbage
  BY DEF DtorBase, objVars
<1>2. f.obj \in Objects /\ "free" \in DtorStages
  <2>1. "base" \in DtorStages /\ "free" \in DtorStages
    BY DEF DtorStages
  <2> QED
    BY <1>1, <2>1, TopFacts
<1>3. /\ a \in Frames /\ a.op \in DtorStages /\ a.obj = f.obj
      /\ DrainFrame \in Frames
  BY <1>2, FramesBuilt
<1> HIDE DEF a, f
<1>4. g \in Seq(Frames) /\ a \in Range(g) /\ DrainFrame \in Range(g)
  <2>1. <<a>> \in Seq(Frames) /\ <<DrainFrame>> \in Seq(Frames)
        /\ <<DrainFrame>> \o <<a>> = <<DrainFrame, a>>
    BY <1>3, PairIsConcat
  <2>2. Range(<<a>>) = {a} /\ Range(<<DrainFrame>>) = {DrainFrame}
    BY DEF Range
  <2>3. /\ <<DrainFrame>> \o <<a>> \in Seq(Frames)
        /\ Range(<<DrainFrame>> \o <<a>>) = {DrainFrame} \union {a}
    BY <2>1, <2>2, ConcatRange
  <2> QED
    BY <2>1, <2>3
<1> HIDE DEF g
<1>5. \A x \in Objects : st'[x] = "queued" => x \in Range(garbage')
  BY <1>1 DEF Attended
<1>6. \A x \in Objects : st'[x] = "dying" =>
          \/ \E h \in Range(g) : h.op \in DtorStages /\ h.obj = x
          \/ st[x] = "dying" /\ ~(f.op \in DtorStages /\ f.obj = x)
  BY <1>1, <1>3, <1>4
<1> QED
  BY <1>1, <1>4, <1>5, <1>6, AttendStep DEF f

LEMMA AttendDone ==
    ASSUME RInv, Attended, NEW t \in Threads, DrainDone(t)
    PROVE  Attended'
<1> DEFINE f == Head(stack[t])
<1>1. /\ Top(t, "drain") /\ Continue(t, <<>>) /\ st' = st
      /\ garbage' = <<>> /\ garbage = <<>>
  BY DEF DrainDone, objVars
<1>2. f.op = "drain" /\ "drain" \notin DtorStages
  BY <1>1 DEF Top, DtorStages
<1> HIDE DEF f
<1>3. \A x \in Objects : st'[x] = "queued" => x \in Range(garbage')
  BY <1>1 DEF Attended
<1>4. \A x \in Objects : st'[x] = "dying" =>
          \/ \E h \in Range(<<>>) : h.op \in DtorStages /\ h.obj = x
          \/ st[x] = "dying" /\ ~(f.op \in DtorStages /\ f.obj = x)
  BY <1>1, <1>2
<1> QED
  BY <1>1, <1>3, <1>4, CallFrames, AttendStep DEF f

LEMMA AttendedStep ==
    ASSUME RInv, Attended, NEW t \in Threads, Step(t)
    PROVE  Attended'
<1> DEFINE f == Head(stack[t])
<1>0. /\ {"assign", "wread", "unweak", "wassign"} \subseteq SetOps \union WeakOps
      /\ {"wread", "unweak", "wassign"} = WeakOps
      /\ <<>> \in Seq(Frames) /\ DrainFrame \in Frames
  BY CallFrames, FramesBuilt DEF SetOps, WeakOps
\* a Weak::set names a Weak and an object
<1>1. ASSUME NEW op \in WeakOps, Top(t, op)
      PROVE  /\ f.slot \in Weaks /\ f.new \in Objects \union {Nil}
             /\ wptr[f.slot] \in Objects \union {Nil}
  <2>1. f.slot \in Weaks /\ f.new \in Objects \union {Nil}
    BY <1>1, TopFacts, FrameFacts
  <2> QED
    BY <2>1 DEF RInv, TypeOK
<1>2. CASE SetAssign(t)
  BY <1>0, <1>2, AttendOthers DEF SetAssign, objVars
<1>3. CASE WeakRead(t)
  <2> DEFINE c == WeakFrame(IF wptr[f.slot] = Nil THEN "wassign" ELSE "unweak",
                            f.slot, f.new, wptr[f.slot])
  <2>1. Top(t, "wread") /\ Continue(t, <<c>>) /\ UNCHANGED <<st, garbage>>
    BY <1>3 DEF WeakRead, objVars
  <2>2. c \in Frames
    <3>1. /\ f.slot \in Weaks /\ f.new \in Objects \union {Nil}
          /\ wptr[f.slot] \in Objects \union {Nil}
      BY <1>0, <1>1, <2>1
    <3> HIDE DEF f
    <3>2. (IF wptr[f.slot] = Nil THEN "wassign" ELSE "unweak") \in WeakOps
      BY <1>0
    <3> QED
      BY <3>1, <3>2, FramesBuilt
  <2> HIDE DEF c
  <2>3. <<c>> \in Seq(Frames)
    BY <2>2
  <2> QED
    BY <1>0, <2>1, <2>3, AttendOthers
<1>4. CASE WeakUnreg(t)
  <2> DEFINE c == WeakFrame("wassign", f.slot, f.new, Nil)
  <2>1. Top(t, "unweak") /\ Continue(t, <<DrainFrame, c>>) /\ UNCHANGED <<st, garbage>>
    BY <1>4 DEF WeakUnreg
  <2>2. c \in Frames
    BY <1>0, <1>1, <2>1, FramesBuilt
  <2> HIDE DEF c
  <2>3. <<DrainFrame, c>> \in Seq(Frames)
    BY <1>0, <2>2
  <2> QED
    BY <1>0, <2>1, <2>3, AttendOthers
<1>5. CASE WeakAssign(t)
  BY <1>0, <1>5, AttendOthers DEF WeakAssign, objVars
<1> QED
  BY <1>2, <1>3, <1>4, <1>5, AttendRelease, AttendMembers, AttendPop, AttendFree,
     AttendBase, AttendDone DEF Step

LEMMA AttendedCalls ==
    ASSUME RInv, Attended, NEW t \in Threads, Calls(t)
    PROVE  Attended'
<1>0. stack \in [Threads -> Seq(Frames)]
  BY DEF RInv, TypeOK
<1>1. ASSUME NEW s \in Strongs, NEW o \in Objects \union {Nil}, SetBegin(t, s, o)
      PROVE  Attended'
  <2>1. /\ Idle(t) /\ garbage' = garbage
        /\ o = Nil => Start(t, <<SetFrame("release", s, o)>>) /\ st' = st
        /\ o # Nil => /\ Start(t, <<DrainFrame, SetFrame("release", s, o)>>)
                      /\ st' = [st EXCEPT ![o] = "live"]
    BY <1>1 DEF SetBegin, RetainCount
  <2>2. \A u \in Threads \ {t} : stack'[u] = stack[u]
    BY <1>0, <2>1 DEF Start
  <2>3. \A x \in Objects : st'[x] = IF x = o /\ o # Nil THEN "live" ELSE st[x]
    BY <2>1 DEF RInv, TypeOK
  <2>4. \A x \in Objects : st'[x] \in {"queued", "dying"} => st'[x] = st[x]
    BY <2>3
  <2> QED
    BY <2>1, <2>2, <2>4, AttendCall
<1>2. ASSUME NEW w \in Weaks, NEW o \in Objects \union {Nil}, WeakBegin(t, w, o)
      PROVE  Attended'
  <2>1. /\ Idle(t) /\ garbage' = garbage /\ st' = st
        /\ o = Nil => Start(t, <<WeakFrame("wread", w, o, Nil)>>)
        /\ o # Nil => Start(t, <<DrainFrame, WeakFrame("wread", w, o, Nil)>>)
    BY <1>2 DEF WeakBegin
  <2>2. \A u \in Threads \ {t} : stack'[u] = stack[u]
    BY <1>0, <2>1 DEF Start
  <2> QED
    BY <2>1, <2>2, AttendCall
<1>3. ASSUME NEW x \in Slots \union Weaks, NEW u \in Threads \ {t}, Give(t, x, u)
      PROVE  Attended'
  <2>1. Idle(t) /\ garbage' = garbage /\ st' = st /\ stack' = stack
    BY <1>3 DEF Give, objVars
  <2> QED
    BY <2>1, AttendCall
<1> QED
  BY <1>1, <1>2, <1>3 DEF Calls

\* An object whose last reference is gone is never lost on its way to delete:
\* while it waits in MutexAtomic's queue some thread still has the drain loop of
\* an unlock() ahead of it, whichever threads queued and popped in between, and
\* what a drain popped stays on a stack until its memory goes.
THEOREM NeverForgotten == Spec => []Attended
<1>1. Init => Attended
  BY DEF Init, Attended
<1>2. RInv /\ Attended /\ [Next]_vars => Attended'
  <2> SUFFICES ASSUME RInv, Attended, [Next]_vars PROVE Attended'
    OBVIOUS
  <2>1. CASE UNCHANGED vars
    <3>1. st' = st /\ garbage' = garbage /\ stack' = stack
      BY <2>1 DEF vars, objVars
    <3> QED
      BY <3>1 DEF Attended
  <2>2. CASE Next
    BY <2>2, AttendedStep, AttendedCalls DEF Next
  <2> QED
    BY <2>1, <2>2
<1> QED
  BY <1>1, <1>2, Invariance, PTL DEF Spec
=============================================================================
