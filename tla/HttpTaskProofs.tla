--------------------------- MODULE HttpTaskProofs ---------------------------
(***************************************************************************)
(* Proofs about HttpTask, for any number of tasks, functions and names.    *)
(*                                                                         *)
(* Until undefined behaviour is reached a task is unsent (or lost by a     *)
(* send() that threw), registered with its Http, or settled; a registered  *)
(* one is queued in libevent or inside the one call of its function, and   *)
(* is then on the stack once.                                              *)
(***************************************************************************)
EXTENDS HttpTask, SequenceTheorems, TLAPS

TaskRec == [obj : {"none", "leaked", "live"} \cup Fates, count : 0..3, wrapper : BOOLEAN,
            fn : Fns \cup {Nil}, req : BOOLEAN,
            ev : {"none", "queued", "calling", "orphan", "freed", "failed"},
            lost : BOOLEAN, called : 0..2]

Frame == [task : Tasks, why : Why]

OnStack(t) == \E i \in DOMAIN stack : stack[i].task = t

\* The phases of a task: it was never sent, or send() threw before it registered it
Unsent(t, r) ==
    /\ t \notin reg /\ ~OnStack(t)
    /\ r.obj \in {"none", "leaked"} /\ r.count = 0 /\ ~r.wrapper /\ r.fn = Nil
    /\ ~r.req /\ r.ev = "none" /\ ~r.lost /\ r.called = 0

\* Http::_tasks and the callbacks hold it, and its function is yet to be called
Queued(t, r) ==
    /\ t \in reg /\ http /\ ~OnStack(t)
    /\ r.obj = "live" /\ r.count = 2 + B(r.wrapper) /\ r.fn # Nil
    /\ r.req /\ r.ev = "queued" /\ ~r.lost /\ r.called = 0

\* The loop is calling its function
Answering(t, r) ==
    /\ t \in reg /\ http /\ OnStack(t) /\ ~InSend(t)
    /\ r.obj = "live" /\ r.count = 2 + B(r.wrapper) /\ r.fn # Nil
    /\ r.req /\ r.ev \in {"calling", "failed"} /\ ~r.lost /\ r.called = 1

\* send() is calling its function: the callbacks hold nothing yet
SendCalling(t, r) ==
    /\ t \in reg /\ http /\ OnStack(t) /\ InSend(t)
    /\ r.obj = "live" /\ r.count = 2 /\ r.wrapper /\ r.fn # Nil
    /\ r.req /\ r.ev \in {"calling", "orphan"} /\ ~r.lost /\ r.called = 1

\* What is left is its wrapper, and the reference of a callback that never comes
Settled(t, r) ==
    /\ t \notin reg /\ ~OnStack(t)
    /\ r.count = B(r.wrapper) + B(r.lost) /\ r.fn # Nil
    /\ r.obj \in IF r.wrapper \/ r.lost THEN {"live"} ELSE Fates
    /\ ~r.req /\ r.ev \in {"freed", "orphan"} /\ (r.lost => r.ev = "freed")
    /\ r.called = IF r.lost THEN 0 ELSE 1

Phase(t) ==
    \/ Unsent(t, task[t]) \/ Queued(t, task[t]) \/ Answering(t, task[t])
    \/ SendCalling(t, task[t]) \/ Settled(t, task[t])

\* A task is on the stack once, and what became of its request says why
FrameInv ==
    /\ \A i, j \in DOMAIN stack : stack[i].task = stack[j].task => i = j
    /\ \A i \in DOMAIN stack :
          /\ stack[i].why = "url" => task[stack[i].task].ev = "orphan"
          /\ stack[i].why = "error" => task[stack[i].task].ev = "failed"
          /\ stack[i].why \in {"done", "refused"} => task[stack[i].task].ev = "calling"

\* A live task finds its function, unless another function of the same name was
\* sent with or another task with that name has gone
Pinned(t) ==
    \/ glob[KeyOf[task[t].fn]] = task[t].fn
    \/ \E u \in Tasks \ {t} :
          /\ task[u].fn # Nil /\ KeyOf[task[u].fn] = KeyOf[task[t].fn]
          /\ task[u].obj = "freed" \/ task[u].fn # task[t].fn

PinInv == \A t \in Tasks : task[t].obj = "live" => Pinned(t)

\* While nothing has gone wrong
Sound == (held => http) /\ (\A t \in Tasks : Phase(t)) /\ FrameInv /\ PinInv

HInv == TypeOK /\ FaultsExplained /\ (fault = None => Sound)

-----------------------------------------------------------------------------
(* The stack and the references of a task.                                 *)

LEMMA Types ==
    ASSUME TypeOK
    PROVE  /\ task \in [Tasks -> TaskRec] /\ stack \in Seq(Frame)
           /\ DOMAIN stack = 1 .. Len(stack) /\ Len(stack) \in Nat
           /\ \A i \in DOMAIN stack : stack[i] \in Frame /\ stack[i].task \in Tasks
                                      /\ stack[i].why \in Why
<1>1. task \in [Tasks -> TaskRec] /\ stack \in Seq(Frame)
  BY DEF TypeOK, TaskRec, Frame
<1>2. DOMAIN stack = 1 .. Len(stack) /\ Len(stack) \in Nat
      /\ \A i \in 1 .. Len(stack) : stack[i] \in Frame
  BY <1>1, LenProperties, ElementOfSeq
<1> QED
  BY <1>1, <1>2 DEF Frame

LEMMA PushFacts ==
    ASSUME TypeOK, NEW t \in Tasks, NEW why \in Why, ~OnStack(t),
           stack' = Append(stack, [task |-> t, why |-> why])
    PROVE  /\ stack' \in Seq(Frame) /\ Len(stack') = Len(stack) + 1
           /\ DOMAIN stack' = 1 .. Len(stack) + 1
           /\ \A i \in DOMAIN stack : i \in DOMAIN stack' /\ stack'[i] = stack[i]
           /\ stack'[Len(stack) + 1].task = t /\ stack'[Len(stack) + 1].why = why
           /\ \A u \in Tasks : OnStack(u)' <=> OnStack(u) \/ u = t
           /\ \A u \in Tasks : InSend(u)' <=> InSend(u) \/ (u = t /\ why \in {"url", "refused"})
<1> DEFINE f == [task |-> t, why |-> why]
<1>1. f \in Frame /\ f.task = t /\ f.why = why
  BY DEF Frame
<1> HIDE DEF f
<1>2. /\ Append(stack, f) \in Seq(Frame) /\ Len(Append(stack, f)) = Len(stack) + 1
      /\ \A i \in 1 .. Len(stack) : Append(stack, f)[i] = stack[i]
      /\ Append(stack, f)[Len(stack) + 1] = f
  BY <1>1, Types, AppendProperties
<1>3. stack' = Append(stack, f)
  BY DEF f
<1>4. /\ stack' \in Seq(Frame) /\ Len(stack') = Len(stack) + 1
      /\ DOMAIN stack' = 1 .. Len(stack) + 1 /\ DOMAIN stack = 1 .. Len(stack)
      /\ Len(stack) \in Nat
      /\ \A i \in 1 .. Len(stack) : stack'[i] = stack[i]
      /\ stack'[Len(stack) + 1] = f
  BY <1>2, <1>3, Types, LenProperties
<1>5. /\ \A i \in DOMAIN stack : i \in DOMAIN stack' /\ stack'[i] = stack[i]
      /\ Len(stack) + 1 \in DOMAIN stack'
      /\ \A i \in DOMAIN stack' : i \in DOMAIN stack \/ i = Len(stack) + 1
  BY <1>4
<1>6. \A u \in Tasks : OnStack(u)' <=> OnStack(u) \/ u = t
  BY <1>1, <1>4, <1>5 DEF OnStack
<1>7. \A u \in Tasks : InSend(u)' <=> InSend(u) \/ (u = t /\ why \in {"url", "refused"})
  BY <1>1, <1>4, <1>5 DEF InSend
<1> QED
  BY <1>1, <1>4, <1>5, <1>6, <1>7

LEMMA PopFacts ==
    ASSUME TypeOK, FrameInv, stack # <<>>, stack' = Front(stack)
    PROVE  /\ Len(stack) \in DOMAIN stack /\ Last(stack) = stack[Len(stack)]
           /\ stack' \in Seq(Frame)
           /\ \A i \in DOMAIN stack' : i \in DOMAIN stack /\ stack'[i] = stack[i]
                                       /\ stack[i].task # Last(stack).task
           /\ \A u \in Tasks : OnStack(u)' <=> OnStack(u) /\ u # Last(stack).task
           /\ \A u \in Tasks : u # Last(stack).task => (InSend(u)' <=> InSend(u))
<1>1. /\ stack \in Seq(Frame) /\ DOMAIN stack = 1 .. Len(stack)
      /\ Len(stack) \in Nat /\ Len(stack) # 0
      /\ \A i \in 1 .. Len(stack) : stack[i] \in Frame
  BY Types, EmptySeq
<1>2. Last(stack) = stack[Len(stack)]
  BY DEF Last
<1>3. /\ Front(stack) \in Seq(Frame) /\ Len(Front(stack)) = Len(stack) - 1
      /\ \A i \in 1 .. Len(stack) - 1 : Front(stack)[i] = stack[i]
  <2>1. /\ SubSeq(stack, 1, Len(stack) - 1) \in Seq(Frame)
        /\ Len(SubSeq(stack, 1, Len(stack) - 1)) = Len(stack) - 1
        /\ \A i \in 1 .. Len(stack) - 1 : SubSeq(stack, 1, Len(stack) - 1)[i] = stack[i]
    BY <1>1, SubSeqProperties
  <2> QED
    BY <2>1 DEF Front
<1>4. /\ stack' \in Seq(Frame) /\ DOMAIN stack' = 1 .. Len(stack) - 1
      /\ \A i \in 1 .. Len(stack) - 1 : stack'[i] = stack[i]
  BY <1>3, LenProperties
<1>5. /\ \A i \in DOMAIN stack' : i \in DOMAIN stack /\ i # Len(stack) /\ stack'[i] = stack[i]
      /\ \A i \in DOMAIN stack : i \in DOMAIN stack' \/ i = Len(stack)
      /\ Len(stack) \in DOMAIN stack
  BY <1>1, <1>4
<1>6. \A i \in DOMAIN stack' : stack[i].task # Last(stack).task
  BY <1>2, <1>5 DEF FrameInv
<1>7. \A u \in Tasks : OnStack(u)' <=> OnStack(u) /\ u # Last(stack).task
  BY <1>2, <1>5, <1>6 DEF OnStack
<1>8. \A u \in Tasks : u # Last(stack).task => (InSend(u)' <=> InSend(u))
  BY <1>2, <1>5 DEF InSend
<1> QED
  BY <1>2, <1>4, <1>5, <1>6, <1>7, <1>8

LEMMA ReleaseFacts ==
    ASSUME NEW r \in TaskRec, r.count > 0, NEW d \in Fates
    PROVE  /\ Release(r, d) \in TaskRec /\ Release(r, d).count = r.count - 1
           /\ Release(r, d).obj = IF r.count = 1 THEN d ELSE r.obj
           /\ Release(r, d).wrapper = r.wrapper /\ Release(r, d).fn = r.fn
           /\ Release(r, d).req = r.req /\ Release(r, d).ev = r.ev
           /\ Release(r, d).lost = r.lost /\ Release(r, d).called = r.called
<1> DEFINE q == Release(r, d)
<1>1. /\ r.count \in 1 .. 3 /\ r.count - 1 \in 0 .. 3 /\ r.obj \in {"none", "leaked", "live"} \cup Fates
      /\ r.wrapper \in BOOLEAN /\ r.fn \in Fns \cup {Nil} /\ r.req \in BOOLEAN
      /\ r.ev \in {"none", "queued", "calling", "orphan", "freed", "failed"}
      /\ r.lost \in BOOLEAN /\ r.called \in 0 .. 2
  BY DEF TaskRec
<1>2. /\ q.count = r.count - 1 /\ q.obj = IF r.count = 1 THEN d ELSE r.obj
      /\ q.wrapper = r.wrapper /\ q.fn = r.fn /\ q.req = r.req /\ q.ev = r.ev
      /\ q.lost = r.lost /\ q.called = r.called
  BY DEF Release, TaskRec
<1>3. ASSUME NEW x \in 0 .. 3, NEW y \in {"none", "leaked", "live"} \cup Fates
      PROVE  [r EXCEPT !.count = x, !.obj = y] \in TaskRec
  BY DEF TaskRec
<1>4. (IF r.count = 1 THEN d ELSE r.obj) \in {"none", "leaked", "live"} \cup Fates
  BY <1>1
<1>5. q \in TaskRec
  BY <1>1, <1>3, <1>4 DEF Release
<1> QED
  BY <1>2, <1>5 DEF q

\* What happens to the other tasks and to the stack leaves a task in its phase
LEMMA PhaseKept ==
    ASSUME NEW u \in Tasks, Phase(u), task'[u] = task[u], u \in reg' <=> u \in reg,
           OnStack(u)' <=> OnStack(u), OnStack(u) => (InSend(u)' <=> InSend(u)),
           u \in reg => http' = http
    PROVE  Phase(u)'
<1>1. CASE Unsent(u, task[u])
  BY <1>1 DEF Phase, Unsent
<1>2. CASE Queued(u, task[u])
  BY <1>2 DEF Phase, Queued
<1>3. CASE Answering(u, task[u])
  BY <1>3 DEF Phase, Answering
<1>4. CASE SendCalling(u, task[u])
  BY <1>4 DEF Phase, SendCalling
<1>5. CASE Settled(u, task[u])
  BY <1>5 DEF Phase, Settled
<1> QED
  BY <1>1, <1>2, <1>3, <1>4, <1>5 DEF Phase
LEMMA ToQueued ==
    ASSUME NEW u \in Tasks, NEW s, task'[u] = s, u \in reg', http', ~OnStack(u)',
           s.obj = "live", s.count = 2 + B(s.wrapper), s.fn # Nil,
           s.req, s.ev = "queued", ~s.lost, s.called = 0
    PROVE  Phase(u)'
<1>1. Queued(u, task[u])'
  BY DEF Queued
<1> QED
  BY <1>1 DEF Phase

LEMMA ToAnswering ==
    ASSUME NEW u \in Tasks, NEW s, task'[u] = s, u \in reg', http',
           OnStack(u)', ~InSend(u)',
           s.obj = "live", s.count = 2 + B(s.wrapper), s.fn # Nil,
           s.req, s.ev \in {"calling", "failed"}, ~s.lost, s.called = 1
    PROVE  Phase(u)'
<1>1. Answering(u, task[u])'
  BY DEF Answering
<1> QED
  BY <1>1 DEF Phase

LEMMA ToSendCalling ==
    ASSUME NEW u \in Tasks, NEW s, task'[u] = s, u \in reg', http',
           OnStack(u)', InSend(u)',
           s.obj = "live", s.count = 2, s.wrapper, s.fn # Nil,
           s.req, s.ev \in {"calling", "orphan"}, ~s.lost, s.called = 1
    PROVE  Phase(u)'
<1>1. SendCalling(u, task[u])'
  BY DEF SendCalling
<1> QED
  BY <1>1 DEF Phase

LEMMA ToSettled ==
    ASSUME NEW u \in Tasks, NEW s, task'[u] = s, u \notin reg', ~OnStack(u)',
           s.count = B(s.wrapper) + B(s.lost), s.fn # Nil,
           s.obj \in IF s.wrapper \/ s.lost THEN {"live"} ELSE Fates,
           ~s.req, s.ev \in {"freed", "orphan"}, s.lost => s.ev = "freed",
           s.called = IF s.lost THEN 0 ELSE 1
    PROVE  Phase(u)'
<1>1. Settled(u, task[u])'
  BY DEF Settled
<1> QED
  BY <1>1 DEF Phase

LEMMA PhaseFacts ==
    ASSUME Sound, NEW t \in Tasks
    PROVE  /\ task[t].obj = "none" => Unsent(t, task[t])
           /\ task[t].obj = "live" => task[t].fn # Nil
           /\ task[t].obj = "taken" => Settled(t, task[t])
           /\ task[t].ev = "queued" => Queued(t, task[t])
           /\ task[t].wrapper /\ ~InSend(t) =>
                 /\ task[t].obj = "live"
                 /\ Queued(t, task[t]) \/ Answering(t, task[t]) \/ Settled(t, task[t])
           /\ t \in reg =>
                 Queued(t, task[t]) \/ Answering(t, task[t]) \/ SendCalling(t, task[t])
           /\ OnStack(t) => Answering(t, task[t]) \/ SendCalling(t, task[t])
<1>1. Phase(t)
  BY DEF Sound
<1>2. CASE Unsent(t, task[t])
  BY <1>2 DEF Unsent
<1>3. CASE Queued(t, task[t])
  BY <1>3 DEF Queued
<1>4. CASE Answering(t, task[t])
  BY <1>4 DEF Answering
<1>5. CASE SendCalling(t, task[t])
  BY <1>5 DEF SendCalling
<1>6. CASE Settled(t, task[t])
  BY <1>6 DEF Settled, Fates
<1> QED
  BY <1>1, <1>2, <1>3, <1>4, <1>5, <1>6 DEF Phase

LEMMA FrameKept ==
    ASSUME FrameInv, stack' = stack,
           \A i \in DOMAIN stack : task'[stack[i].task].ev = task[stack[i].task].ev
    PROVE  FrameInv'
  BY DEF FrameInv

\* A task that is being called by the loop says so on the stack
LEMMA AnsweringFrame ==
    ASSUME TypeOK, FrameInv, NEW t \in Tasks, OnStack(t), ~InSend(t)
    PROVE  \/ task[t].ev = "failed"
           \/ \E i \in DOMAIN stack : stack[i] = [task |-> t, why |-> "done"]
<1>1. PICK i \in DOMAIN stack : stack[i].task = t
  BY DEF OnStack
<1>2. stack[i].why \in Why /\ stack[i] \in Frame
  BY Types
<1>3. stack[i].why \in {"done", "error"}
  BY <1>1, <1>2 DEF InSend, Why
<1>4. CASE stack[i].why = "error"
  BY <1>1, <1>4 DEF FrameInv
<1>5. CASE stack[i].why = "done"
  <2>1. stack[i] = [task |-> t, why |-> "done"]
    BY <1>1, <1>2, <1>5 DEF Frame
  <2> QED
    BY <2>1
<1> QED
  BY <1>3, <1>4, <1>5

\* A live task changes, and if it is deleted its name with it
LEMMA UnpinStep ==
    ASSUME TypeOK, Sound, NEW t \in Tasks, NEW s \in TaskRec,
           task[t].obj \in {"live", "taken"}, task[t].fn # Nil, s.fn = task[t].fn,
           s.obj \in {"live"} \cup Fates, s.obj = "live" => task[t].obj = "live",
           task' = [task EXCEPT ![t] = s], glob' = Unpinned(t, s)
    PROVE  PinInv' /\ glob' \in [Keys -> Fns \cup {Nil}]
<1>1. /\ task \in [Tasks -> TaskRec] /\ glob \in [Keys -> Fns \cup {Nil}]
      /\ \A u \in Tasks : task'[u] = IF u = t THEN s ELSE task[u]
      /\ \A u \in Tasks : task'[u].fn = task[u].fn /\ task[u].fn \in Fns \cup {Nil}
      /\ \A u \in Tasks : task[u].obj = "freed" => task'[u].obj = "freed"
      /\ \A u \in Tasks : task'[u].obj = "live" => task[u].obj = "live"
  <2>1. task \in [Tasks -> TaskRec] /\ glob \in [Keys -> Fns \cup {Nil}]
    BY Types DEF TypeOK
  <2>2. \A u \in Tasks : task[u].fn \in Fns \cup {Nil}
    BY <2>1 DEF TaskRec
  <2> QED
    BY <2>1, <2>2
<1>2. \A u \in Tasks : task[u].obj = "live" => task[u].fn \in Fns
  BY <1>1, PhaseFacts
<1>3. \A f \in Fns : KeyOf[f] \in Keys
  BY KeysAssumption
<1>4. glob' \in [Keys -> Fns \cup {Nil}]
  BY <1>1 DEF Unpinned
<1>5. ASSUME NEW u \in Tasks, task'[u].obj = "live" PROVE Pinned(u)'
  <2>1. task[u].obj = "live" /\ Pinned(u) /\ KeyOf[task[u].fn] \in Keys
    BY <1>1, <1>2, <1>3, <1>5 DEF Sound, PinInv
  <2>2. CASE \E v \in Tasks \ {u} :
               /\ task[v].fn # Nil /\ KeyOf[task[v].fn] = KeyOf[task[u].fn]
               /\ task[v].obj = "freed" \/ task[v].fn # task[u].fn
    BY <1>1, <2>2 DEF Pinned
  <2>3. CASE glob[KeyOf[task[u].fn]] = task[u].fn
    <3>1. CASE s.obj # "freed"
      BY <1>1, <2>3, <3>1 DEF Pinned, Unpinned
    <3>2. CASE s.obj = "freed" /\ KeyOf[task[u].fn] = KeyOf[task[t].fn]
      <4>1. t \in Tasks \ {u} /\ task'[t].obj = "freed" /\ task[t].fn # Nil
        BY <1>1, <1>5, <3>2, PhaseFacts
      <4> QED
        BY <1>1, <3>2, <4>1 DEF Pinned
    <3>3. CASE s.obj = "freed" /\ KeyOf[task[u].fn] # KeyOf[task[t].fn]
      <4>1. glob'[KeyOf[task[u].fn]] = glob[KeyOf[task[u].fn]]
        BY <1>1, <2>1, <3>3 DEF Unpinned
      <4> QED
        BY <1>1, <2>3, <4>1 DEF Pinned
    <3> QED
      BY <3>1, <3>2, <3>3
  <2> QED
    BY <2>1, <2>2, <2>3 DEF Pinned
<1> QED
  BY <1>4, <1>5 DEF PinInv

\* The functions stay where they are
LEMMA PinKept ==
    ASSUME TypeOK, Sound, glob' = glob,
           \A u \in Tasks : /\ task'[u].fn = task[u].fn
                            /\ task[u].obj = "freed" => task'[u].obj = "freed"
                            /\ task'[u].obj = "live" => task[u].obj = "live"
    PROVE  PinInv'
<1> SUFFICES ASSUME NEW u \in Tasks, task'[u].obj = "live" PROVE Pinned(u)'
  BY DEF PinInv
<1>1. Pinned(u)
  BY DEF Sound, PinInv
<1> QED
  BY <1>1 DEF Pinned

-----------------------------------------------------------------------------
(* What the script does.                                                   *)

LEMMA DropStep ==
    ASSUME TypeOK, Sound, fault = None, NEW t \in Tasks, Drop(t)
    PROVE  HInv'
<1> PICK d \in Fates :
       task[t].obj = "live" => task' = [task EXCEPT ![t] = [Release(@, d) EXCEPT !.wrapper = FALSE]]
  BY DEF Drop, Fates
<1> DEFINE r == task[t]
           s == [Release(r, d) EXCEPT !.wrapper = FALSE]
<1>1. /\ r \in TaskRec /\ task \in [Tasks -> TaskRec] /\ r.wrapper /\ ~InSend(t)
      /\ r.obj = "live"
      /\ Queued(t, r) \/ Answering(t, r) \/ Settled(t, r)
  BY Types, PhaseFacts DEF Drop
<1>2. /\ task' = [task EXCEPT ![t] = s] /\ glob' = Unpinned(t, s)
      /\ UNCHANGED <<http, held, kept, reg, stack, fault>>
  BY <1>1 DEF Drop
<1>3. r.count > 0 /\ r.fn # Nil
  BY <1>1 DEF Queued, Answering, Settled, B
<1>4. /\ s \in TaskRec /\ s.count = r.count - 1 /\ ~s.wrapper
      /\ s.obj = IF r.count = 1 THEN d ELSE r.obj
      /\ s.fn = r.fn /\ s.req = r.req /\ s.ev = r.ev /\ s.lost = r.lost /\ s.called = r.called
  <2> DEFINE q == Release(r, d)
  <2>1. /\ q \in TaskRec /\ q.count = r.count - 1
        /\ q.obj = IF r.count = 1 THEN d ELSE r.obj
        /\ q.fn = r.fn /\ q.req = r.req /\ q.ev = r.ev /\ q.lost = r.lost /\ q.called = r.called
    BY <1>1, <1>3, ReleaseFacts
  <2> HIDE DEF q
  <2>2. [q EXCEPT !.wrapper = FALSE] \in TaskRec
    BY <2>1 DEF TaskRec
  <2> QED
    BY <2>1, <2>2 DEF q, TaskRec
<1> HIDE DEF s, r
<1>5. \A u \in Tasks : task'[u] = IF u = t THEN s ELSE task[u]
  BY <1>1, <1>2
<1>6. ASSUME NEW u \in Tasks PROVE Phase(u)'
  <2>1. (OnStack(u)' <=> OnStack(u)) /\ (InSend(u)' <=> InSend(u)) /\ Phase(u)
    BY <1>2 DEF OnStack, InSend, Sound
  <2>2. CASE u # t
    BY <1>2, <1>5, <2>1, <2>2, PhaseKept
  <2>3. CASE u = t /\ Queued(t, r)
    <3>1. s.count = 2 + B(s.wrapper) /\ s.obj = "live"
      BY <1>1, <1>4, <2>3 DEF Queued, B
    <3>2. u \in reg' /\ http' /\ task'[u] = s
      BY <1>2, <1>5, <2>3 DEF Queued
    <3>3. s.fn # Nil /\ s.req /\ s.ev = r.ev /\ ~s.lost /\ s.called = r.called
      BY <1>4, <2>3 DEF Queued
    <3> QED
      BY <2>1, <2>3, <3>1, <3>2, <3>3, ToQueued DEF Queued
  <2>4. CASE u = t /\ Answering(t, r)
    <3>1. s.count = 2 + B(s.wrapper) /\ s.obj = "live"
      BY <1>1, <1>4, <2>4 DEF Answering, B
    <3>2. u \in reg' /\ http' /\ task'[u] = s
      BY <1>2, <1>5, <2>4 DEF Answering
    <3>3. s.fn # Nil /\ s.req /\ s.ev = r.ev /\ ~s.lost /\ s.called = r.called
      BY <1>4, <2>4 DEF Answering
    <3> QED
      BY <2>1, <2>4, <3>1, <3>2, <3>3, ToAnswering DEF Answering
  <2>5. CASE u = t /\ Settled(t, r)
    BY <1>1, <1>2, <1>4, <1>5, <2>1, <2>5 DEF Phase, Settled, B
  <2> QED
    BY <1>1, <2>2, <2>3, <2>4, <2>5
<1>7. FrameInv'
  BY <1>2, <1>4, <1>5, FrameKept, Types DEF Sound, r
<1>8. PinInv' /\ glob' \in [Keys -> Fns \cup {Nil}]
  <2>1. s.obj \in {"live"} \cup Fates
    BY <1>1, <1>4
  <2> QED
    BY <1>1, <1>2, <1>3, <1>4, <2>1, UnpinStep DEF r
<1>9. TypeOK'
  BY <1>1, <1>2, <1>4, <1>8 DEF TypeOK, TaskRec
<1>10. FaultsExplained'
  BY <1>2 DEF FaultsExplained, None
<1> QED
  BY <1>2, <1>6, <1>7, <1>8, <1>9, <1>10 DEF HInv, Sound
LEMMA RemovedFacts ==
    ASSUME NEW t \in reg, http, NEW r \in TaskRec, r.count > 0, NEW d \in Fates
    PROVE  /\ Removed(t, r, d) \in TaskRec /\ Removed(t, r, d).count = r.count - 1
           /\ Removed(t, r, d).obj = IF r.count = 1 THEN d ELSE r.obj
           /\ Removed(t, r, d).wrapper = r.wrapper /\ Removed(t, r, d).fn = r.fn
           /\ ~Removed(t, r, d).req /\ Removed(t, r, d).ev = r.ev
           /\ Removed(t, r, d).lost = r.lost /\ Removed(t, r, d).called = r.called
<1> DEFINE q == Release(r, d)
<1>1. /\ q \in TaskRec /\ q.count = r.count - 1
      /\ q.obj = IF r.count = 1 THEN d ELSE r.obj
      /\ q.wrapper = r.wrapper /\ q.fn = r.fn /\ q.ev = r.ev
      /\ q.lost = r.lost /\ q.called = r.called
  BY ReleaseFacts
<1>2. Removed(t, r, d) = [q EXCEPT !.req = FALSE]
  BY DEF Removed
<1> HIDE DEF q
<1>3. [q EXCEPT !.req = FALSE] \in TaskRec
  BY <1>1 DEF TaskRec
<1> QED
  BY <1>1, <1>2, <1>3 DEF TaskRec

\* The request that went wrong is one that had failed, or one being answered
LEMMA RequestFault ==
    ASSUME TypeOK, NEW t \in Tasks, Fault("request", t),
           \/ task[t].ev = "failed"
           \/ \E i \in DOMAIN stack : stack[i] = [task |-> t, why |-> "done"]
    PROVE  HInv'
<1>1. /\ fault' = [kind |-> "request", task |-> t]
      /\ UNCHANGED <<http, held, kept, glob, reg, task, stack>>
  BY DEF Fault
<1>2. fault' # None
  BY <1>1 DEF None
<1>3. fault' \in [kind : {"none", "request", "task", "function", "thread", "fatal"}, task : Tasks \cup {Nil}]
  BY <1>1
<1>4. TypeOK'
  BY <1>1, <1>3 DEF TypeOK
<1>5. FaultsExplained'
  BY <1>1 DEF FaultsExplained
<1> QED
  BY <1>2, <1>4, <1>5 DEF HInv

LEMMA ForgetStep ==
    ASSUME TypeOK, Sound, fault = None, NEW f \in Fns, Forget(f)
    PROVE  HInv'
<1>1. kept' = kept \ {f} /\ UNCHANGED <<http, held, glob, reg, task, stack, fault>>
  BY DEF Forget
<1>2. ASSUME NEW u \in Tasks PROVE Phase(u)'
  <2>1. (OnStack(u)' <=> OnStack(u)) /\ (InSend(u)' <=> InSend(u)) /\ Phase(u)
    BY <1>1 DEF OnStack, InSend, Sound
  <2> QED
    BY <1>1, <2>1, PhaseKept
<1>3. FrameInv' /\ PinInv'
  BY <1>1, FrameKept, PinKept DEF Sound
<1>4. TypeOK' /\ FaultsExplained'
  BY <1>1 DEF TypeOK, FaultsExplained, None
<1> QED
  BY <1>1, <1>2, <1>3, <1>4 DEF HInv, Sound

LEMMA CancelStep ==
    ASSUME TypeOK, Sound, fault = None, NEW t \in Tasks, Cancel(t)
    PROVE  HInv'
<1> PICK d \in Fates :
       task[t].obj = "live" /\ task[t].ev = "queued" =>
          task' = [task EXCEPT ![t] =
                      [Removed(t, task[t], d) EXCEPT !.ev = "freed", !.lost = TRUE]]
  BY DEF Cancel, Fates
<1> DEFINE r == task[t]
           q == Removed(t, r, d)
           s == [q EXCEPT !.ev = "freed", !.lost = TRUE]
<1>1. /\ r \in TaskRec /\ task \in [Tasks -> TaskRec] /\ r.obj = "live" /\ r.req
      /\ r.wrapper /\ ~InSend(t)
      /\ Queued(t, r) \/ Answering(t, r) \/ Settled(t, r)
  BY Types, PhaseFacts DEF Cancel
<1>2. CASE r.ev # "queued"
  <2>1. Answering(t, r)
    BY <1>1, <1>2 DEF Queued, Settled
  <2>2. Fault("request", t)
    BY <1>1, <1>2 DEF Cancel
  <2> QED
    BY <2>1, <2>2, AnsweringFrame, RequestFault DEF Answering, Sound
<1>3. CASE r.ev = "queued"
  <2>1. Queued(t, r) /\ t \in reg /\ http /\ ~OnStack(t) /\ r.count = 3 /\ r.fn # Nil
    BY <1>1, <1>3, PhaseFacts DEF Queued, B
  <2>2. /\ task' = [task EXCEPT ![t] = s] /\ glob' = Unpinned(t, s)
        /\ reg' = reg \ {t} /\ UNCHANGED <<http, held, kept, stack, fault>>
    BY <1>1, <1>3, <2>1 DEF Cancel, Unregistered
  <2>3. /\ s \in TaskRec /\ s.count = 2 /\ s.wrapper /\ s.obj = "live" /\ ~s.req
        /\ s.fn = r.fn /\ s.ev = "freed" /\ s.lost /\ s.called = 0
    <3>1. /\ q \in TaskRec /\ q.count = 2 /\ q.obj = "live" /\ q.wrapper /\ q.fn = r.fn
          /\ ~q.req /\ q.called = 0
      BY <1>1, <2>1, RemovedFacts DEF Queued
    <3> HIDE DEF q
    <3>2. s \in TaskRec
      BY <3>1 DEF TaskRec
    <3> QED
      BY <3>1, <3>2 DEF TaskRec
  <2> HIDE DEF s
  <2>4. \A u \in Tasks : task'[u] = IF u = t THEN s ELSE task[u]
    BY <1>1, <2>2
  <2>5. ASSUME NEW u \in Tasks PROVE Phase(u)'
    <3>1. (OnStack(u)' <=> OnStack(u)) /\ (InSend(u)' <=> InSend(u)) /\ Phase(u)
      BY <2>2 DEF OnStack, InSend, Sound
    <3>2. CASE u # t
      BY <2>2, <2>4, <3>1, <3>2, PhaseKept
    <3>3. CASE u = t
      <4>1. task'[u] = s /\ u \notin reg' /\ ~OnStack(u)'
        BY <2>1, <2>2, <2>4, <3>1, <3>3
      <4>2. s.count = B(s.wrapper) + B(s.lost)
        BY <2>3 DEF B
      <4> QED
        BY <2>1, <2>3, <4>1, <4>2, ToSettled
    <3> QED
      BY <3>2, <3>3
  <2>6. FrameInv'
    <3>1. \A i \in DOMAIN stack : stack[i].task \in Tasks /\ stack[i].task # t
      BY <2>1, Types DEF OnStack
    <3> QED
      BY <2>2, <2>4, <3>1, FrameKept DEF Sound
  <2>7. PinInv' /\ glob' \in [Keys -> Fns \cup {Nil}]
    BY <1>1, <2>1, <2>2, <2>3, UnpinStep
  <2>8. TypeOK'
    BY <1>1, <2>2, <2>3, <2>7 DEF TypeOK, TaskRec
  <2>9. FaultsExplained'
    BY <2>2 DEF FaultsExplained, None
  <2> QED
    BY <2>2, <2>5, <2>6, <2>7, <2>8, <2>9 DEF HInv, Sound
<1> QED
  BY <1>2, <1>3
LEMMA DropHttpStep ==
    ASSUME TypeOK, Sound, fault = None, DropHttp
    PROVE  HInv'
<1>1. http /\ ~Sending /\ task \in [Tasks -> TaskRec]
      /\ reg \subseteq Tasks
  BY Types DEF DropHttp, TypeOK, Sound
<1>2. ASSUME NEW t \in reg, task[t].ev # "queued", Fault("request", t)
      PROVE  HInv'
  <2>1. ~InSend(t) /\ t \in Tasks
    BY <1>1 DEF Sending, InSend
  <2>2. Answering(t, task[t])
    BY <1>2, <2>1, PhaseFacts DEF Queued, SendCalling
  <2> QED
    BY <1>2, <2>1, <2>2, AnsweringFrame, RequestFault DEF Answering, Sound
<1>3. ASSUME \A t \in reg : task[t].ev = "queued", http' = FALSE, held' = FALSE, reg' = {},
             task' = [t \in Tasks |-> IF t \in reg THEN Dealloced(t) ELSE task[t]],
             UNCHANGED <<kept, glob, stack, fault>>
      PROVE  HInv'
  <2>1. \A u \in reg : Queued(u, task[u])
    BY <1>1, <1>3, PhaseFacts
  <2>2. \A u \in Tasks : ~OnStack(u)
    BY <2>1, PhaseFacts DEF Queued, Answering, SendCalling
  <2>3. \A u \in Tasks : task'[u] = IF u \in reg THEN Dealloced(u) ELSE task[u]
    BY <1>3
  <2>4. ASSUME NEW u \in reg
        PROVE  /\ task'[u] \in TaskRec /\ task'[u].count = task[u].count - 1
               /\ task'[u].obj = "live" /\ task[u].obj = "live"
               /\ task'[u].wrapper = task[u].wrapper
               /\ task'[u].fn = task[u].fn /\ ~task'[u].req /\ task'[u].ev = "freed"
               /\ task'[u].lost /\ task'[u].called = 0
    <3> DEFINE q == Release(task[u], "freed")
    <3>1. /\ task[u].count \in {2, 3} /\ task[u].obj = "live" /\ task[u].called = 0
          /\ task[u] \in TaskRec
      BY <1>1, <2>1 DEF Queued, B
    <3>2. /\ q \in TaskRec /\ q.count = task[u].count - 1 /\ q.obj = "live"
          /\ q.wrapper = task[u].wrapper /\ q.fn = task[u].fn /\ q.called = 0
      BY <3>1, ReleaseFacts DEF Fates
    <3>3. task'[u] = [q EXCEPT !.req = FALSE, !.ev = "freed", !.lost = TRUE]
      BY <1>1, <2>3 DEF Dealloced
    <3> HIDE DEF q
    <3>4. [q EXCEPT !.req = FALSE, !.ev = "freed", !.lost = TRUE] \in TaskRec
      BY <3>2 DEF TaskRec
    <3> QED
      BY <3>1, <3>2, <3>3, <3>4 DEF TaskRec
  <2>5. ASSUME NEW u \in Tasks PROVE Phase(u)'
    <3>1. (OnStack(u)' <=> OnStack(u)) /\ (InSend(u)' <=> InSend(u)) /\ Phase(u)
      BY <1>3 DEF OnStack, InSend, Sound
    <3>2. CASE u \notin reg
      BY <1>3, <2>3, <3>1, <3>2, PhaseKept
    <3>3. CASE u \in reg
      <4>1. task[u].count = 2 + B(task[u].wrapper) /\ task[u].fn # Nil
        BY <2>1, <3>3 DEF Queued
      <4>2. task'[u].count = B(task'[u].wrapper) + B(task'[u].lost)
        BY <2>4, <3>3, <4>1 DEF B
      <4>3. u \notin reg' /\ ~OnStack(u)'
        BY <1>3, <2>2, <3>1
      <4> DEFINE s == task'[u]
      <4>4. /\ task'[u] = s /\ s.count = B(s.wrapper) + B(s.lost) /\ s.fn # Nil
            /\ s.obj = "live" /\ ~s.req /\ s.ev = "freed" /\ s.lost /\ s.called = 0
        BY <2>4, <3>3, <4>1, <4>2
      <4> HIDE DEF s
      <4> QED
        BY <4>3, <4>4, ToSettled
    <3> QED
      BY <3>2, <3>3
  <2>6. FrameInv'
    <3>1. \A i \in DOMAIN stack : FALSE
      BY <2>2, Types DEF OnStack
    <3> QED
      BY <1>3, <3>1, FrameKept DEF Sound
  <2>7. PinInv'
    <3>1. \A u \in Tasks : task'[u].fn = task[u].fn /\ task'[u].obj = task[u].obj
      BY <2>3, <2>4
    <3> QED
      BY <1>3, <3>1, PinKept
  <2>8. TypeOK'
    <3>1. \A u \in Tasks : task'[u] \in TaskRec
      BY <1>1, <2>3, <2>4
    <3>2. task' \in [Tasks -> TaskRec]
      BY <1>3, <3>1
    <3> QED
      BY <1>3, <3>2 DEF TypeOK, TaskRec
  <2>9. FaultsExplained'
    BY <1>3 DEF FaultsExplained, None
  <2> QED
    BY <1>3, <2>5, <2>6, <2>7, <2>8, <2>9 DEF HInv, Sound
<1>4. ASSUME held' = FALSE, UNCHANGED <<http, kept, glob, reg, task, stack, fault>>
      PROVE  HInv'
  <2>1. ASSUME NEW u \in Tasks PROVE Phase(u)'
    <3>1. (OnStack(u)' <=> OnStack(u)) /\ (InSend(u)' <=> InSend(u)) /\ Phase(u)
      BY <1>4 DEF OnStack, InSend, Sound
    <3> QED
      BY <1>4, <3>1, PhaseKept
  <2>2. FrameInv' /\ PinInv'
    BY <1>4, FrameKept, PinKept DEF Sound
  <2>3. TypeOK' /\ FaultsExplained'
    BY <1>4 DEF TypeOK, FaultsExplained, None
  <2> QED
    BY <1>4, <2>1, <2>2, <2>3 DEF HInv, Sound
<1> QED
  BY <1>2, <1>3, <1>4 DEF DropHttp

-----------------------------------------------------------------------------
(* What another thread deletes.                                            *)

LEMMA ThreadFault ==
    ASSUME TypeOK, NEW t \in Tasks, Fault("thread", t),
           task[t].obj = "taken" \/ (~held /\ http /\ t \in reg)
    PROVE  HInv'
<1>1. /\ fault' = [kind |-> "thread", task |-> t]
      /\ UNCHANGED <<http, held, kept, glob, reg, task, stack>>
  BY DEF Fault
<1>2. fault' # None
  BY <1>1 DEF None
<1>3. TypeOK'
  BY <1>1 DEF TypeOK
<1>4. FaultsExplained'
  BY <1>1 DEF FaultsExplained
<1> QED
  BY <1>2, <1>3, <1>4 DEF HInv

LEMMA OtherDeletesStep ==
    ASSUME TypeOK, Sound, fault = None, NEW t \in Tasks, OtherDeletes(t)
    PROVE  HInv'
<1> DEFINE s == [task[t] EXCEPT !.obj = "freed"]
<1>1. /\ task[t] \in TaskRec /\ task \in [Tasks -> TaskRec] /\ task[t].obj = "taken"
      /\ Settled(t, task[t])
  BY Types, PhaseFacts DEF OtherDeletes
<1>2. CASE Fault("thread", t)
  BY <1>1, <1>2, ThreadFault
<1>3. CASE /\ task' = [task EXCEPT ![t] = s] /\ glob' = Unpinned(t, task'[t])
           /\ UNCHANGED <<http, held, kept, reg, stack, fault>>
  <2>1. /\ s \in TaskRec /\ s.obj = "freed" /\ s.count = task[t].count
        /\ s.wrapper = task[t].wrapper /\ s.fn = task[t].fn /\ s.req = task[t].req
        /\ s.ev = task[t].ev /\ s.lost = task[t].lost /\ s.called = task[t].called
    BY <1>1 DEF TaskRec, Fates
  <2> HIDE DEF s
  <2>2. \A u \in Tasks : task'[u] = IF u = t THEN s ELSE task[u]
    BY <1>1, <1>3
  <2>3. ASSUME NEW u \in Tasks PROVE Phase(u)'
    <3>1. (OnStack(u)' <=> OnStack(u)) /\ (InSend(u)' <=> InSend(u)) /\ Phase(u)
      BY <1>3 DEF OnStack, InSend, Sound
    <3>2. CASE u # t
      BY <1>3, <2>2, <3>1, <3>2, PhaseKept
    <3>3. CASE u = t
      <4>1. ~s.wrapper /\ ~s.lost /\ s.obj \in Fates
        BY <1>1, <2>1 DEF Settled, Fates
      <4>2. task'[u] = s /\ u \notin reg' /\ ~OnStack(u)'
        BY <1>1, <1>3, <2>2, <3>1, <3>3 DEF Settled
      <4> QED
        BY <1>1, <2>1, <4>1, <4>2, ToSettled DEF Settled
    <3> QED
      BY <3>2, <3>3
  <2>4. FrameInv'
    BY <1>3, <2>1, <2>2, FrameKept, Types DEF Sound
  <2>5. PinInv' /\ glob' \in [Keys -> Fns \cup {Nil}]
    <3>1. glob' = Unpinned(t, s) /\ task[t].fn # Nil /\ s.obj \in {"live"} \cup Fates
      BY <1>1, <1>3, <2>1, <2>2 DEF Settled, Fates
    <3> QED
      BY <1>1, <1>3, <2>1, <3>1, UnpinStep
  <2>6. TypeOK'
    BY <1>1, <1>3, <2>1, <2>5 DEF TypeOK, TaskRec
  <2>7. FaultsExplained'
    BY <1>3 DEF FaultsExplained, None
  <2> QED
    BY <1>3, <2>3, <2>4, <2>5, <2>6, <2>7 DEF HInv, Sound
<1> QED
  BY <1>2, <1>3 DEF OtherDeletes

LEMMA OtherDeletesHttpStep ==
    ASSUME TypeOK, Sound, fault = None, OtherDeletesHttp
    PROVE  HInv'
<1>1. CASE \E t \in reg : Fault("thread", t)
  <2>1. reg \subseteq Tasks /\ ~held /\ http
    BY DEF OtherDeletesHttp, TypeOK
  <2> QED
    BY <1>1, <2>1, ThreadFault
<1>2. CASE reg = {} /\ http' = FALSE /\ UNCHANGED <<held, kept, glob, reg, task, stack, fault>>
  <2>1. ~held
    BY DEF OtherDeletesHttp
  <2>2. ASSUME NEW u \in Tasks PROVE Phase(u)'
    <3>1. (OnStack(u)' <=> OnStack(u)) /\ (InSend(u)' <=> InSend(u)) /\ Phase(u)
      BY <1>2 DEF OnStack, InSend, Sound
    <3> QED
      BY <1>2, <3>1, PhaseKept
  <2>3. FrameInv' /\ PinInv'
    BY <1>2, FrameKept, PinKept DEF Sound
  <2>4. TypeOK' /\ FaultsExplained'
    BY <1>2 DEF TypeOK, FaultsExplained, None
  <2> QED
    BY <1>2, <2>1, <2>2, <2>3, <2>4 DEF HInv, Sound
<1> QED
  BY <1>1, <1>2 DEF OtherDeletesHttp

-----------------------------------------------------------------------------
(* What libevent does.                                                     *)

LEMMA EofStep ==
    ASSUME TypeOK, Sound, fault = None, NEW t \in Tasks, Eof(t)
    PROVE  HInv'
<1>1. /\ fault' = [kind |-> "request", task |-> t]
      /\ task' = [task EXCEPT ![t].ev = "failed"]
      /\ UNCHANGED <<http, held, kept, glob, reg, stack>>
  BY DEF Eof
<1>2. task \in [Tasks -> TaskRec] /\ task[t] \in TaskRec
  BY Types
<1>3. [task[t] EXCEPT !.ev = "failed"] \in TaskRec
      /\ [task[t] EXCEPT !.ev = "failed"].ev = "failed"
  BY <1>2 DEF TaskRec
<1>4. task' \in [Tasks -> TaskRec] /\ task'[t].ev = "failed"
  BY <1>1, <1>2, <1>3
<1>5. fault' \in [kind : {"none", "request", "task", "function", "thread", "fatal"}, task : Tasks \cup {Nil}]
      /\ fault' # None
  BY <1>1 DEF None
<1>6. TypeOK'
  BY <1>1, <1>4, <1>5 DEF TypeOK, TaskRec
<1>7. FaultsExplained'
  BY <1>1, <1>4 DEF FaultsExplained
<1> QED
  BY <1>5, <1>6, <1>7 DEF HInv
LEMMA UndecodableStep ==
    ASSUME TypeOK, Sound, fault = None, NEW t \in Tasks, Undecodable(t)
    PROVE  HInv'
<1>1. /\ fault' = [kind |-> "fatal", task |-> t] /\ t \in Json /\ stack = <<>>
      /\ task' = [task EXCEPT ![t].ev = "calling"] /\ task[t].ev = "queued"
      /\ UNCHANGED <<http, held, kept, glob, reg, stack>>
  BY DEF Undecodable
<1>2. task \in [Tasks -> TaskRec] /\ task[t] \in TaskRec /\ Queued(t, task[t])
  BY <1>1, Types, PhaseFacts
<1>3. /\ [task[t] EXCEPT !.ev = "calling"] \in TaskRec
      /\ [task[t] EXCEPT !.ev = "calling"].called = 0
  BY <1>2 DEF TaskRec, Queued
<1>4. task' \in [Tasks -> TaskRec] /\ task'[t].called = 0 /\ t \in reg
  BY <1>1, <1>2, <1>3 DEF Queued
<1>5. fault' # None
  BY <1>1 DEF None
<1>6. TypeOK'
  BY <1>1, <1>4 DEF TypeOK, TaskRec
<1>7. FaultsExplained'
  BY <1>1, <1>4 DEF FaultsExplained
<1> QED
  BY <1>5, <1>6, <1>7 DEF HInv

\* The loop calls the function of a queued task, or what is under its name
LEMMA AnswerStep ==
    ASSUME TypeOK, Sound, fault = None, NEW t \in Tasks, NEW why \in {"done", "error"},
           NEW e, e = IF why = "done" THEN "calling" ELSE "failed",
           stack = <<>>, task[t].ev = "queued",
           Call(t, why, [task[t] EXCEPT !.ev = e]), UNCHANGED <<http, held, kept, glob, reg>>
    PROVE  HInv'
<1> DEFINE r == task[t]
           q == [r EXCEPT !.ev = e]
           s == [q EXCEPT !.called = @ + 1]
<1>1. /\ r \in TaskRec /\ task \in [Tasks -> TaskRec] /\ Queued(t, r)
      /\ r.obj = "live" /\ r.fn \in Fns /\ r.fn # Nil /\ r.called = 0
  <2>1. r \in TaskRec /\ task \in [Tasks -> TaskRec] /\ Queued(t, r)
    BY Types, PhaseFacts
  <2> QED
    BY <2>1 DEF Queued, TaskRec
<1>2. /\ q \in TaskRec /\ q.fn = r.fn /\ q.obj = "live" /\ q.count = r.count
      /\ q.wrapper = r.wrapper /\ q.req = r.req /\ q.ev = e /\ q.lost = r.lost
      /\ q.called = 0
  <2>1. e \in {"none", "queued", "calling", "orphan", "freed", "failed"}
    OBVIOUS
  <2> QED
    BY <1>1, <2>1 DEF TaskRec
<1>3. CASE Alive(q.fn)
  <2>1. /\ task' = [task EXCEPT ![t] = s]
        /\ stack' = Append(stack, [task |-> t, why |-> why]) /\ fault' = fault
    BY <1>3 DEF Call
  <2>2. /\ s \in TaskRec /\ s.fn = r.fn /\ s.obj = "live" /\ s.count = 2 + B(s.wrapper)
        /\ s.req /\ s.ev = e /\ ~s.lost /\ s.called = 1
    <3>1. r.count = 2 + B(r.wrapper) /\ r.req /\ ~r.lost
      BY <1>1 DEF Queued
    <3> HIDE DEF q
    <3>2. [q EXCEPT !.called = 1] \in TaskRec
      BY <1>2 DEF TaskRec
    <3>3. s = [q EXCEPT !.called = 1]
      BY <1>2
    <3> HIDE DEF s
    <3> QED
      BY <1>2, <3>1, <3>2, <3>3 DEF TaskRec
  <2> HIDE DEF s, q
  <2>3. \A u \in Tasks : task'[u] = IF u = t THEN s ELSE task[u]
    BY <1>1, <2>1
  <2>4. why \in Why /\ ~OnStack(t)
    BY <1>1 DEF Why, Queued
  <2>5. /\ stack' \in Seq(Frame) /\ DOMAIN stack' = {1}
        /\ stack'[1].task = t /\ stack'[1].why = why
        /\ \A u \in Tasks : OnStack(u)' <=> OnStack(u) \/ u = t
        /\ \A u \in Tasks : InSend(u)' <=> InSend(u)
    <3>1. Len(stack) = 0
      BY EmptySeq
    <3>2. 1 .. Len(stack) + 1 = {1}
      BY <3>1
    <3> QED
      BY <2>1, <2>4, <3>1, <3>2, PushFacts
  <2>6. ASSUME NEW u \in Tasks PROVE Phase(u)'
    <3>1. Phase(u)
      BY DEF Sound
    <3>2. CASE u # t
      BY <2>3, <2>5, <3>1, <3>2, PhaseKept
    <3>3. CASE u = t
      <4>1. t \in reg' /\ http' /\ ~InSend(t)
        BY <1>1, <2>5 DEF Queued, OnStack, InSend
      <4>2. OnStack(u)' /\ ~InSend(u)'
        BY <2>5, <3>3, <4>1
      <4>3. s.ev \in {"calling", "failed"} /\ task'[u] = s /\ s.fn # Nil
        BY <1>1, <2>2, <2>3, <3>3
      <4> QED
        BY <2>2, <3>3, <4>1, <4>2, <4>3, ToAnswering
    <3> QED
      BY <3>2, <3>3
  <2>7. FrameInv'
    <3>1. task'[t].ev = e
      BY <2>2, <2>3
    <3>2. \A i \in DOMAIN stack' : i = 1
      BY <2>5
    <3> QED
      BY <2>5, <3>1, <3>2 DEF FrameInv
  <2>8. PinInv'
    <3>1. \A u \in Tasks : task'[u].fn = task[u].fn /\ task'[u].obj = task[u].obj
      BY <1>1, <2>2, <2>3
    <3> QED
      BY <3>1, PinKept
  <2>9. TypeOK'
    <3>1. task' \in [Tasks -> TaskRec]
      BY <1>1, <2>1, <2>2
    <3> QED
      BY <2>1, <2>5, <3>1 DEF TypeOK, TaskRec, Frame
  <2>10. FaultsExplained'
    BY <2>1 DEF FaultsExplained, None
  <2> QED
    BY <2>6, <2>7, <2>8, <2>9, <2>10 DEF HInv, Sound
<1>4. CASE ~Alive(q.fn)
  <2>1. /\ fault' = [kind |-> "function", task |-> t] /\ task' = task /\ stack' = stack
    BY <1>4 DEF Call
  <2>2. glob[KeyOf[r.fn]] # r.fn
    BY <1>2, <1>4 DEF Alive
  <2>3. Pinned(t)
    BY <1>1 DEF Sound, PinInv
  <2>4. \E u \in Tasks \ {t} :
          /\ task[u].fn # Nil /\ KeyOf[task[u].fn] = KeyOf[task[t].fn]
          /\ task[u].obj = "freed" \/ task[u].fn # task[t].fn
    BY <2>2, <2>3 DEF Pinned
  <2>5. FaultsExplained'
    BY <2>1, <2>4 DEF FaultsExplained
  <2>6. TypeOK'
    <3>1. fault' \in [kind : {"none", "request", "task", "function", "thread", "fatal"},
                      task : Tasks \cup {Nil}]
      BY <2>1
    <3> QED
      BY <2>1, <3>1 DEF TypeOK
  <2>7. fault' # None
    BY <2>1 DEF None
  <2> QED
    BY <2>5, <2>6, <2>7 DEF HInv
<1> QED
  BY <1>3, <1>4

LEMMA NetworkStep ==
    ASSUME TypeOK, Sound, fault = None, NEW t \in Tasks, Network(t)
    PROVE  HInv'
<1>1. CASE Complete(t)
  BY <1>1, AnswerStep DEF Complete
<1>2. CASE Fail(t)
  BY <1>2, AnswerStep DEF Fail
<1> QED
  BY <1>1, <1>2, EofStep, UndecodableStep DEF Network
-----------------------------------------------------------------------------
(* What send() does.                                                       *)

\* A function is pinned under its name, which another function may have had
LEMMA PinStep ==
    ASSUME TypeOK, Sound, NEW t \in Tasks, NEW f \in Fns, task[t].obj = "none",
           NEW s \in TaskRec, s.fn = f, s.obj = "live",
           task' = [task EXCEPT ![t] = s], glob' = [glob EXCEPT ![KeyOf[f]] = f]
    PROVE  PinInv' /\ glob' \in [Keys -> Fns \cup {Nil}]
<1>1. /\ task \in [Tasks -> TaskRec] /\ glob \in [Keys -> Fns \cup {Nil}]
      /\ \A u \in Tasks : task'[u] = IF u = t THEN s ELSE task[u]
      /\ \A u \in Tasks : task[u].fn \in Fns \cup {Nil}
      /\ task[t].fn = Nil /\ f # Nil /\ KeyOf[f] \in Keys
  <2>1. task \in [Tasks -> TaskRec] /\ glob \in [Keys -> Fns \cup {Nil}]
    BY Types DEF TypeOK
  <2>2. \A u \in Tasks : task[u].fn \in Fns \cup {Nil}
    BY <2>1 DEF TaskRec
  <2>3. task[t].fn = Nil
    BY PhaseFacts DEF Unsent
  <2> QED
    BY <2>1, <2>2, <2>3, KeysAssumption
<1>2. glob' \in [Keys -> Fns \cup {Nil}] /\ glob'[KeyOf[f]] = f
  BY <1>1
<1>3. ASSUME NEW u \in Tasks, task'[u].obj = "live" PROVE Pinned(u)'
  <2>1. CASE u = t
    BY <1>1, <1>2, <2>1 DEF Pinned
  <2>2. CASE u # t
    <3>1. /\ task'[u] = task[u] /\ task'[t].fn = f /\ task[u].fn \in Fns
          /\ KeyOf[task[u].fn] \in Keys /\ Pinned(u)
      BY <1>1, <1>3, <2>2, PhaseFacts, KeysAssumption DEF Sound, PinInv
    <3>2. CASE \E v \in Tasks \ {u} :
                 /\ task[v].fn # Nil /\ KeyOf[task[v].fn] = KeyOf[task[u].fn]
                 /\ task[v].obj = "freed" \/ task[v].fn # task[u].fn
      BY <1>1, <3>1, <3>2 DEF Pinned
    <3>3. CASE glob[KeyOf[task[u].fn]] = task[u].fn
      <4>1. CASE KeyOf[task[u].fn] # KeyOf[f]
        <5>1. glob'[KeyOf[task[u].fn]] = glob[KeyOf[task[u].fn]]
          BY <1>1, <3>1, <4>1
        <5> QED
          BY <3>1, <3>3, <5>1 DEF Pinned
      <4>2. CASE KeyOf[task[u].fn] = KeyOf[f] /\ task[u].fn = f
        BY <1>2, <3>1, <4>2 DEF Pinned
      <4>3. CASE KeyOf[task[u].fn] = KeyOf[f] /\ task[u].fn # f
        <5>1. t \in Tasks \ {u}
          BY <2>2
        <5> QED
          BY <1>1, <3>1, <4>3, <5>1 DEF Pinned
      <4> QED
        BY <4>1, <4>2, <4>3
    <3> QED
      BY <3>1, <3>2, <3>3 DEF Pinned
  <2> QED
    BY <2>1, <2>2
<1> QED
  BY <1>2, <1>3 DEF PinInv

LEMMA SendStep ==
    ASSUME TypeOK, Sound, fault = None, NEW t \in Tasks, NEW f \in Fns, Send(t, f)
    PROVE  HInv'
<1> DEFINE m == Made(t, f)
<1>1. /\ http /\ f \in kept /\ reg' = reg \cup {t} /\ UNCHANGED <<http, held, kept>>
      /\ glob' = [glob EXCEPT ![KeyOf[f]] = f] /\ task[t].obj = "none"
      /\ task \in [Tasks -> TaskRec] /\ task[t] \in TaskRec /\ Unsent(t, task[t])
      /\ ~OnStack(t) /\ ~InSend(t) /\ f # Nil
  <2>1. Unsent(t, task[t])
    BY PhaseFacts DEF Send
  <2> QED
    BY <2>1, Types, KeysAssumption DEF Send, Unsent, OnStack, InSend, Sound
<1>2. /\ m \in TaskRec /\ m.obj = "live" /\ m.count = 2 /\ m.wrapper /\ m.fn = f
      /\ m.req /\ ~m.lost /\ m.called = 0
  <2>1. task[t].called = 0 /\ ~task[t].lost
    BY <1>1 DEF Unsent
  <2>2. ASSUME NEW o \in {"none", "leaked", "live"} \cup Fates, NEW c \in 0 .. 3,
               NEW w \in BOOLEAN, NEW g \in Fns \cup {Nil}, NEW b \in BOOLEAN
        PROVE  [task[t] EXCEPT !.obj = o, !.count = c, !.wrapper = w, !.fn = g,
                               !.req = b] \in TaskRec
    BY <1>1 DEF TaskRec
  <2>3. 2 \in 0 .. 3 /\ TRUE \in BOOLEAN /\ f \in Fns \cup {Nil}
        /\ "live" \in {"none", "leaked", "live"} \cup Fates
    OBVIOUS
  <2>4. m \in TaskRec
    BY <2>2, <2>3 DEF Made
  <2>5. /\ m.obj = "live" /\ m.count = 2 /\ m.wrapper /\ m.fn = f /\ m.req
        /\ m.lost = task[t].lost /\ m.called = task[t].called
    BY <1>1 DEF Made, TaskRec
  <2> QED
    BY <2>1, <2>4, <2>5
<1> HIDE DEF m
<1>3. ASSUME NEW s \in TaskRec, s.fn = f, s.obj = "live", s.wrapper, s.req, ~s.lost,
             task' = [task EXCEPT ![t] = s], fault' = fault, stack' \in Seq(Frame),
             \A u \in Tasks : u # t => (OnStack(u)' <=> OnStack(u)),
             \A u \in Tasks : u # t => (InSend(u)' <=> InSend(u)),
             FrameInv', Phase(t)'
      PROVE  HInv'
  <2>1. \A u \in Tasks : task'[u] = IF u = t THEN s ELSE task[u]
    BY <1>1, <1>3
  <2>2. ASSUME NEW u \in Tasks PROVE Phase(u)'
    <3>1. CASE u # t
      <4>1. Phase(u) /\ (u \in reg' <=> u \in reg)
        BY <1>1, <3>1 DEF Sound
      <4> QED
        BY <1>1, <1>3, <2>1, <3>1, <4>1, PhaseKept
    <3> QED
      BY <1>3, <3>1
  <2>3. PinInv' /\ glob' \in [Keys -> Fns \cup {Nil}]
    BY <1>1, <1>3, PinStep
  <2>4. TypeOK'
    <3>1. task' \in [Tasks -> TaskRec] /\ reg' \subseteq Tasks
      BY <1>1, <1>3 DEF TypeOK
    <3> QED
      BY <1>1, <1>3, <2>3, <3>1 DEF TypeOK, TaskRec, Frame
  <2>5. FaultsExplained'
    BY <1>3 DEF FaultsExplained, None
  <2> QED
    BY <1>1, <1>3, <2>2, <2>3, <2>4, <2>5 DEF HInv, Sound
<1>4. CASE SendQueued(t, f)
  <2> DEFINE s == [m EXCEPT !.count = @ + 1, !.ev = "queued"]
  <2>1. task' = [task EXCEPT ![t] = s] /\ UNCHANGED <<stack, fault>>
    BY <1>4 DEF SendQueued, m
  <2>2. /\ s \in TaskRec /\ s.fn = f /\ s.obj = "live" /\ s.wrapper /\ s.req
        /\ ~s.lost /\ s.count = 3 /\ s.ev = "queued" /\ s.called = 0
    <3>1. [m EXCEPT !.count = 3, !.ev = "queued"] \in TaskRec
      <4>1. ASSUME NEW c \in 0 .. 3 PROVE [m EXCEPT !.count = c, !.ev = "queued"] \in TaskRec
        BY <1>2 DEF TaskRec
      <4> QED
        BY <4>1
    <3>2. s = [m EXCEPT !.count = 3, !.ev = "queued"]
      BY <1>2
    <3> QED
      BY <1>2, <3>1, <3>2 DEF TaskRec
  <2> HIDE DEF s
  <2>3. \A u \in Tasks : task'[u] = IF u = t THEN s ELSE task[u]
    BY <1>1, <2>1
  <2>4. \A u \in Tasks : (OnStack(u)' <=> OnStack(u)) /\ (InSend(u)' <=> InSend(u))
    BY <2>1 DEF OnStack, InSend
  <2>5. FrameInv'
    <3>1. \A i \in DOMAIN stack : stack[i].task \in Tasks /\ stack[i].task # t
      BY <1>1, Types DEF OnStack
    <3> QED
      BY <2>1, <2>3, <3>1, FrameKept DEF Sound
  <2>6. Phase(t)'
    <3>1. t \in reg' /\ http' /\ ~OnStack(t)' /\ task'[t] = s
      BY <1>1, <2>3, <2>4
    <3>2. s.count = 2 + B(s.wrapper)
      BY <2>2 DEF B
    <3> QED
      BY <1>1, <2>2, <3>1, <3>2, ToQueued
  <2>7. stack' \in Seq(Frame)
    BY <2>1, Types
  <2> QED
    BY <1>3, <2>1, <2>2, <2>4, <2>5, <2>6, <2>7
<1>5. ASSUME NEW why \in {"url", "refused"}, NEW e,
             e = IF why = "url" THEN "orphan" ELSE "calling",
             Call(t, why, [m EXCEPT !.ev = e])
      PROVE  HInv'
  <2> DEFINE q == [m EXCEPT !.ev = e]
             s == [q EXCEPT !.called = @ + 1]
  <2>1. /\ q \in TaskRec /\ q.obj = "live" /\ q.count = 2 /\ q.wrapper /\ q.fn = f
        /\ q.req /\ ~q.lost /\ q.called = 0 /\ q.ev = e
    <3>1. e \in {"none", "queued", "calling", "orphan", "freed", "failed"}
      BY <1>5
    <3> QED
      BY <1>2, <3>1 DEF TaskRec
  <2>2. /\ task' = [task EXCEPT ![t] = s] /\ fault' = fault
        /\ stack' = Append(stack, [task |-> t, why |-> why])
    BY <1>1, <1>5, <2>1 DEF Call, Alive
  <2> HIDE DEF q
  <2>3. /\ s \in TaskRec /\ s.fn = f /\ s.obj = "live" /\ s.wrapper /\ s.req
        /\ ~s.lost /\ s.count = 2 /\ s.ev = e /\ s.called = 1
    <3>1. [q EXCEPT !.called = 1] \in TaskRec
      BY <2>1 DEF TaskRec
    <3>2. s = [q EXCEPT !.called = 1]
      BY <2>1
    <3> QED
      BY <2>1, <3>1, <3>2 DEF TaskRec
  <2> HIDE DEF s
  <2>4. \A u \in Tasks : task'[u] = IF u = t THEN s ELSE task[u]
    BY <1>1, <2>2
  <2>5. /\ stack' \in Seq(Frame) /\ DOMAIN stack' = 1 .. Len(stack) + 1
        /\ \A i \in DOMAIN stack : i \in DOMAIN stack' /\ stack'[i] = stack[i]
        /\ stack'[Len(stack) + 1].task = t /\ stack'[Len(stack) + 1].why = why
        /\ \A u \in Tasks : OnStack(u)' <=> OnStack(u) \/ u = t
        /\ \A u \in Tasks : InSend(u)' <=> InSend(u) \/ u = t
    <3>1. why \in Why
      BY DEF Why
    <3> QED
      BY <1>1, <2>2, <3>1, PushFacts
  <2>6. FrameInv'
    <3>1. \A i \in DOMAIN stack' : i \in DOMAIN stack \/ i = Len(stack) + 1
      BY <2>5, Types
    <3>2. \A i \in DOMAIN stack : stack[i].task \in Tasks /\ stack[i].task # t
      BY <1>1, Types DEF OnStack
    <3>3. task'[t].ev = e
      BY <2>3, <2>4
    <3>4. \A i \in DOMAIN stack :
            stack'[i] = stack[i] /\ task'[stack[i].task].ev = task[stack[i].task].ev
      BY <2>4, <2>5, <3>2
    <3>5. \A i, j \in DOMAIN stack' : stack'[i].task = stack'[j].task => i = j
      BY <2>5, <3>1, <3>2 DEF Sound, FrameInv
    <3>6. ASSUME NEW i \in DOMAIN stack'
          PROVE  /\ stack'[i].why = "url" => task'[stack'[i].task].ev = "orphan"
                 /\ stack'[i].why = "error" => task'[stack'[i].task].ev = "failed"
                 /\ stack'[i].why \in {"done", "refused"} =>
                       task'[stack'[i].task].ev = "calling"
      <4>1. CASE i \in DOMAIN stack
        BY <3>4, <4>1 DEF Sound, FrameInv
      <4>2. CASE i = Len(stack) + 1
        BY <1>5, <2>5, <3>3, <4>2
      <4> QED
        BY <3>1, <4>1, <4>2
    <3> QED
      BY <3>5, <3>6 DEF FrameInv
  <2>7. Phase(t)'
    <3>1. t \in reg' /\ http' /\ OnStack(t)' /\ InSend(t)' /\ task'[t] = s
      BY <1>1, <2>4, <2>5
    <3>2. s.ev \in {"calling", "orphan"}
      BY <1>5, <2>3
    <3> QED
      BY <1>1, <2>3, <3>1, <3>2, ToSendCalling
  <2> QED
    BY <1>3, <2>2, <2>3, <2>5, <2>6, <2>7
<1>6. CASE SendBadUrl(t, f)
  BY <1>5, <1>6 DEF SendBadUrl, m
<1>7. CASE SendRefused(t, f)
  BY <1>5, <1>7 DEF SendRefused, m
<1> QED
  BY <1>4, <1>6, <1>7 DEF Send

LEMMA SendThrowsStep ==
    ASSUME TypeOK, Sound, fault = None, NEW t \in Tasks, SendThrows(t)
    PROVE  HInv'
<1> DEFINE s == [task[t] EXCEPT !.obj = "leaked"]
<1>1. /\ task[t] \in TaskRec /\ task \in [Tasks -> TaskRec] /\ task[t].obj = "none"
      /\ Unsent(t, task[t])
      /\ task' = [task EXCEPT ![t] = s]
      /\ UNCHANGED <<http, held, kept, glob, reg, stack, fault>>
  BY Types, PhaseFacts DEF SendThrows
<1>2. /\ s \in TaskRec /\ s.obj = "leaked" /\ s.count = task[t].count
      /\ s.wrapper = task[t].wrapper /\ s.fn = task[t].fn /\ s.req = task[t].req
      /\ s.ev = task[t].ev /\ s.lost = task[t].lost /\ s.called = task[t].called
  BY <1>1 DEF TaskRec
<1> HIDE DEF s
<1>3. \A u \in Tasks : task'[u] = IF u = t THEN s ELSE task[u]
  BY <1>1
<1>4. ASSUME NEW u \in Tasks PROVE Phase(u)'
  <2>1. (OnStack(u)' <=> OnStack(u)) /\ (InSend(u)' <=> InSend(u)) /\ Phase(u)
    BY <1>1 DEF OnStack, InSend, Sound
  <2>2. CASE u # t
    BY <1>1, <1>3, <2>1, <2>2, PhaseKept
  <2>3. CASE u = t
    BY <1>1, <1>2, <1>3, <2>1, <2>3 DEF Phase, Unsent
  <2> QED
    BY <2>2, <2>3
<1>5. FrameInv'
  BY <1>1, <1>2, <1>3, FrameKept, Types DEF Sound
<1>6. PinInv'
  <2>1. \A u \in Tasks : /\ task'[u].fn = task[u].fn
                         /\ task[u].obj = "freed" => task'[u].obj = "freed"
                         /\ task'[u].obj = "live" => task[u].obj = "live"
    BY <1>1, <1>2, <1>3
  <2> QED
    BY <1>1, <2>1, PinKept
<1>7. TypeOK' /\ FaultsExplained'
  BY <1>1, <1>2 DEF TypeOK, TaskRec, FaultsExplained, None
<1> QED
  BY <1>1, <1>4, <1>5, <1>6, <1>7 DEF HInv, Sound
-----------------------------------------------------------------------------
(* A function returns.                                                     *)

LEMMA ReturnOfStep ==
    ASSUME TypeOK, Sound, fault = None, stack # <<>>, NEW t \in Tasks, NEW why \in Why,
           NEW d \in Fates, t = Last(stack).task, why = Last(stack).why, ReturnOf(t, why, d)
    PROVE  HInv'
<1> DEFINE n == Len(stack)
           r == task[t]
           q == Removed(t, r, d)
           s == IF why \in {"done", "refused"} THEN [Release(q, d) EXCEPT !.ev = "freed"] ELSE q
<1>1. /\ stack # <<>> /\ stack' = Front(stack)
      /\ task' = [task EXCEPT ![t] = s] /\ reg' = Unregistered(t)
      /\ glob' = Unpinned(t, s) /\ UNCHANGED <<http, held, kept>>
      /\ fault' = CASE why = "refused" -> [kind |-> "task", task |-> t]
                    [] why = "error" -> [kind |-> "request", task |-> t]
                    [] OTHER -> fault
  BY DEF ReturnOf
<1>2. /\ n \in DOMAIN stack /\ stack[n].task = t /\ stack[n].why = why
      /\ stack' \in Seq(Frame)
      /\ \A i \in DOMAIN stack' : i \in DOMAIN stack /\ stack'[i] = stack[i]
                                  /\ stack[i].task # t
      /\ \A u \in Tasks : OnStack(u)' <=> OnStack(u) /\ u # t
      /\ \A u \in Tasks : u # t => (InSend(u)' <=> InSend(u))
  BY <1>1, PopFacts DEF Sound
<1>3. task \in [Tasks -> TaskRec] /\ r \in TaskRec
  BY <1>2, Types
<1>4. Answering(t, r) \/ SendCalling(t, r)
  BY <1>2, <1>3, PhaseFacts DEF OnStack
<1> HIDE DEF n, r
<1>5. InSend(t) <=> why \in {"url", "refused"}
  <2>1. \A i \in DOMAIN stack : stack[i].task = t => i = n
    BY <1>2 DEF Sound, FrameInv
  <2> QED
    BY <1>2, <2>1 DEF InSend
<1>6. /\ why = "url" => r.ev = "orphan"
      /\ why = "error" => r.ev = "failed"
      /\ why \in {"done", "refused"} => r.ev = "calling"
  BY <1>2 DEF Sound, FrameInv, r
<1>7. /\ t \in reg /\ http /\ r.obj = "live" /\ r.count \in {2, 3} /\ r.fn # Nil
      /\ r.count = 2 + B(r.wrapper) \/ (r.count = 2 /\ r.wrapper)
      /\ r.req /\ ~r.lost /\ r.called = 1
  BY <1>4 DEF Answering, SendCalling, B
<1>8. /\ q \in TaskRec /\ q.count = r.count - 1 /\ q.obj = "live"
      /\ q.wrapper = r.wrapper /\ q.fn = r.fn /\ ~q.req /\ q.ev = r.ev
      /\ ~q.lost /\ q.called = 1
  BY <1>3, <1>7, RemovedFacts
<1> HIDE DEF q
<1>9. /\ s \in TaskRec /\ s.fn = r.fn /\ s.wrapper = r.wrapper /\ ~s.req /\ ~s.lost
      /\ s.called = 1 /\ s.obj \in {"live"} \cup Fates
      /\ why \in {"done", "refused"} =>
            /\ s.count = r.count - 2 /\ s.ev = "freed"
            /\ s.obj = IF r.count = 2 THEN d ELSE "live"
      /\ why \notin {"done", "refused"} =>
            s.count = r.count - 1 /\ s.ev = r.ev /\ s.obj = "live"
  <2>1. CASE why \in {"done", "refused"}
    <3> DEFINE p == Release(q, d)
    <3>1. /\ p \in TaskRec /\ p.count = r.count - 2
          /\ p.obj = IF r.count = 2 THEN d ELSE "live"
          /\ p.wrapper = r.wrapper /\ p.fn = r.fn /\ ~p.req /\ ~p.lost /\ p.called = 1
      BY <1>7, <1>8, ReleaseFacts
    <3>2. s = [p EXCEPT !.ev = "freed"]
      BY <2>1
    <3> HIDE DEF p, s
    <3>3. [p EXCEPT !.ev = "freed"] \in TaskRec
      BY <3>1 DEF TaskRec
    <3>4. /\ s \in TaskRec /\ s.count = p.count /\ s.obj = p.obj /\ s.wrapper = p.wrapper
          /\ s.fn = p.fn /\ s.req = p.req /\ s.lost = p.lost /\ s.called = p.called
          /\ s.ev = "freed"
      BY <3>1, <3>2, <3>3 DEF TaskRec
    <3> QED
      BY <2>1, <3>1, <3>4
  <2>2. CASE why \notin {"done", "refused"}
    BY <1>8, <2>2
  <2> QED
    BY <2>1, <2>2
<1> HIDE DEF s
<1>10. \A u \in Tasks : task'[u] = IF u = t THEN s ELSE task[u]
  BY <1>1, <1>3
<1>11. PinInv' /\ glob' \in [Keys -> Fns \cup {Nil}]
  BY <1>1, <1>3, <1>7, <1>9, UnpinStep DEF r
<1>12. TypeOK'
  <2>1. fault' \in [kind : {"none", "request", "task", "function", "thread", "fatal"}, task : Tasks \cup {Nil}]
    BY <1>1, <1>3 DEF TypeOK
  <2>2. task' \in [Tasks -> TaskRec] /\ reg' \subseteq Tasks
    BY <1>1, <1>3, <1>9 DEF Unregistered, TypeOK
  <2> QED
    BY <1>1, <1>2, <1>11, <2>1, <2>2 DEF TypeOK, TaskRec, Frame
<1>13. task'[t] = s
  BY <1>3, <1>10
<1>14. CASE why = "error"
  <2>1. fault' = [kind |-> "request", task |-> t] /\ task'[t].ev = "failed"
    BY <1>1, <1>6, <1>9, <1>13, <1>14
  <2> QED
    BY <1>12, <2>1 DEF HInv, FaultsExplained, None
<1>15. CASE why = "refused"
  <2>1. r.wrapper
    BY <1>4, <1>5, <1>15 DEF Answering, SendCalling
  <2>2. /\ fault' = [kind |-> "task", task |-> t] /\ task'[t].ev = "freed"
        /\ task'[t].called = 1 /\ task'[t].wrapper
    BY <1>1, <1>9, <1>13, <1>15, <2>1
  <2> QED
    BY <1>12, <2>2 DEF HInv, FaultsExplained, None
<1>16. CASE why \in {"done", "url"}
  <2>1. fault' = None
    BY <1>1, <1>16
  <2>2. FaultsExplained'
    BY <2>1 DEF FaultsExplained, None
  <2>3. reg' = reg \ {t} /\ ~OnStack(t)'
    BY <1>1, <1>2, <1>3, <1>7 DEF Unregistered
  <2>4. Phase(t)'
    <3>1. s.ev \in {"freed", "orphan"}
      BY <1>6, <1>9, <1>16
    <3>2. CASE why = "done"
      <4>1. r.count = 2 + B(r.wrapper)
        BY <1>4, <1>5, <3>2 DEF Answering, SendCalling
      <4>2. s.count = r.count - 2 /\ s.obj = IF r.count = 2 THEN d ELSE "live"
        BY <1>9, <3>2
      <4>3. s.count = B(s.wrapper) + B(s.lost)
            /\ s.obj \in IF s.wrapper \/ s.lost THEN {"live"} ELSE Fates
        <5>1. CASE r.wrapper
          BY <1>9, <4>1, <4>2, <5>1 DEF B
        <5>2. CASE ~r.wrapper
          BY <1>9, <4>1, <4>2, <5>2 DEF B
        <5> QED
          BY <5>1, <5>2
      <4> QED
        BY <1>3, <1>7, <1>9, <1>13, <2>3, <3>1, <4>3, ToSettled
    <3>3. CASE why = "url"
      <4>1. r.count = 2 /\ r.wrapper
        BY <1>4, <1>5, <3>3 DEF Answering, SendCalling
      <4>2. s.count = 1 /\ s.obj = "live" /\ s.wrapper
        BY <1>9, <3>3, <4>1
      <4>3. s.count = B(s.wrapper) + B(s.lost)
        BY <1>9, <4>2 DEF B
      <4> QED
        BY <1>3, <1>7, <1>9, <1>13, <2>3, <3>1, <4>2, <4>3, ToSettled
    <3> QED
      BY <1>16, <3>2, <3>3
  <2>5. ASSUME NEW u \in Tasks PROVE Phase(u)'
    <3>1. CASE u # t
      BY <1>1, <1>2, <1>10, <2>3, <3>1, PhaseKept DEF Sound
    <3> QED
      BY <2>4, <3>1
  <2>6. FrameInv'
    <3>1. \A i \in DOMAIN stack' : task'[stack'[i].task].ev = task[stack[i].task].ev
      <4>1. \A i \in DOMAIN stack : stack[i].task \in Tasks
        BY Types
      <4> QED
        BY <1>2, <1>10, <4>1
    <3> QED
      BY <1>2, <3>1 DEF Sound, FrameInv
  <2> QED
    BY <1>1, <1>11, <1>12, <2>2, <2>5, <2>6 DEF HInv, Sound
<1> QED
  BY <1>3, <1>14, <1>15, <1>16 DEF Why

LEMMA ReturnStep ==
    ASSUME TypeOK, Sound, fault = None, Return
    PROVE  HInv'
<1>1. PICK i \in DOMAIN stack : stack[i] = Last(stack)
  <2>1. Len(stack) \in Nat /\ Len(stack) # 0 /\ DOMAIN stack = 1 .. Len(stack)
    BY Types, EmptySeq DEF Return
  <2>2. Len(stack) \in DOMAIN stack
    BY <2>1
  <2> QED
    BY <2>2 DEF Last
<1>2. Last(stack).task \in Tasks /\ Last(stack).why \in Why
  BY <1>1, Types
<1> QED
  BY <1>2, ReturnOfStep DEF Return

-----------------------------------------------------------------------------
(* The invariant.                                                          *)

LEMMA HInvInit ==
    ASSUME Init
    PROVE  HInv
<1>1. /\ http = TRUE /\ held = TRUE /\ reg = {} /\ stack = <<>> /\ fault = None /\ kept = Fns
      /\ glob = [k \in Keys |-> Nil] /\ task \in [Tasks -> TaskRec] /\ DOMAIN stack = {}
  BY DEF Init, TaskRec
<1>2. \A t \in Tasks : Unsent(t, task[t])
  BY <1>1 DEF Init, Unsent, OnStack
<1>3. PinInv
  BY <1>2 DEF PinInv, Unsent
<1>4. TypeOK
  BY <1>1 DEF TypeOK, TaskRec, None
<1>5. FaultsExplained
  BY <1>1 DEF FaultsExplained, None
<1> QED
  BY <1>1, <1>2, <1>3, <1>4, <1>5 DEF HInv, Sound, Phase, FrameInv

LEMMA HInvStutter ==
    ASSUME HInv, UNCHANGED vars
    PROVE  HInv'
<1>1. UNCHANGED <<http, held, kept, glob, reg, task, stack, fault>>
  BY DEF vars
<1>2. TypeOK' /\ FaultsExplained'
  BY <1>1 DEF HInv, TypeOK, FaultsExplained
<1>3. ASSUME fault = None, NEW u \in Tasks PROVE Phase(u)'
  <2>1. (OnStack(u)' <=> OnStack(u)) /\ (InSend(u)' <=> InSend(u)) /\ Phase(u)
    BY <1>1, <1>3 DEF OnStack, InSend, Sound, HInv
  <2> QED
    BY <1>1, <2>1, PhaseKept
<1>4. ASSUME fault = None PROVE FrameInv' /\ PinInv'
  BY <1>1, <1>4, FrameKept, PinKept DEF Sound, HInv
<1> QED
  BY <1>1, <1>2, <1>3, <1>4 DEF HInv, Sound

LEMMA HInvStep ==
    ASSUME HInv, [Next]_vars
    PROVE  HInv'
<1>1. CASE UNCHANGED vars
  BY <1>1, HInvStutter
<1>2. CASE Next
  <2>1. TypeOK /\ Sound /\ fault = None
    BY <1>2 DEF HInv, Next
  <2>2. ASSUME NEW t \in Tasks, NEW f \in Fns, Send(t, f) PROVE HInv'
    BY <2>1, <2>2, SendStep
  <2>3. ASSUME NEW t \in Tasks, \/ SendThrows(t) \/ Cancel(t) \/ Drop(t)
                                \/ Network(t) \/ OtherDeletes(t)
        PROVE  HInv'
    BY <2>1, <2>3, SendThrowsStep, CancelStep, DropStep, NetworkStep, OtherDeletesStep
  <2>4. ASSUME NEW f \in Fns, Forget(f) PROVE HInv'
    BY <2>1, <2>4, ForgetStep
  <2>5. CASE DropHttp \/ OtherDeletesHttp \/ Return
    BY <2>1, <2>5, DropHttpStep, OtherDeletesHttpStep, ReturnStep
  <2> QED
    BY <1>2, <2>2, <2>3, <2>4, <2>5 DEF Next
<1> QED
  BY <1>1, <1>2

LEMMA Invariance == Spec => []HInv
BY HInvInit, HInvStep, PTL DEF Spec
-----------------------------------------------------------------------------
(* The theorems.                                                           *)

\* What a state is made of: no task is retained more than three times, and none
\* is called more than twice (the _retainCount of kk-object.cc, kk-http.cc)
THEOREM TypeCorrect == Spec => []TypeOK
BY Invariance, PTL DEF HInv

\* A request, a task or a function is used after it is gone, the loop runs on
\* after an uncaught script error, and another thread reaches into this one,
\* only in the circumstances FaultsExplained names (kk-http.cc 68-116, 160-162,
\* 217-219, 291-294, kk-script.cc 130-157, kk-atomic-pthread.cc 33-58), for any
\* number of tasks and functions
THEOREM FaultsOnlyThere == Spec => []FaultsExplained
BY Invariance, PTL DEF HInv

LEMMA AccountedState ==
    ASSUME TypeOK, Sound, NEW t \in Tasks
    PROVE  /\ ~InSend(t) => task[t].count =
                 B(task[t].wrapper) + B(t \in reg)
                    + B(InFlight(t) \/ \E i \in DOMAIN stack :
                                          stack[i] = [task |-> t, why |-> "error"])
           /\ task[t].obj = "live" <=> task[t].count > 0
           /\ t \in reg => http /\ task[t].req
           /\ t \in reg => \/ task[t].ev = "queued"
                           \/ \E i \in DOMAIN stack : stack[i].task = t
<1> DEFINE E == \E i \in DOMAIN stack : stack[i] = [task |-> t, why |-> "error"]
<1>1. E => OnStack(t)
  BY DEF OnStack
<1>2. Phase(t) /\ task[t] \in TaskRec /\ task[t].count \in Nat
  BY Types DEF Sound, TaskRec
<1>3. CASE Unsent(t, task[t])
  BY <1>1, <1>3 DEF Unsent, InFlight, B
<1>4. CASE Queued(t, task[t])
  BY <1>2, <1>4 DEF Queued, InFlight, B
<1>5. CASE Answering(t, task[t])
  <2>1. InFlight(t) \/ E
    <3>1. PICK i \in DOMAIN stack : stack[i].task = t
      BY <1>5 DEF Answering, OnStack
    <3>2. stack[i] \in Frame /\ stack[i].why \in {"done", "error"}
      BY <1>5, <3>1, Types DEF Answering, InSend, Why
    <3>3. stack[i].why = "done" => task[t].ev = "calling"
      BY <3>1 DEF Sound, FrameInv
    <3>4. stack[i].why = "error" => stack[i] = [task |-> t, why |-> "error"]
      BY <3>1, <3>2 DEF Frame
    <3> QED
      BY <3>2, <3>3, <3>4 DEF InFlight
  <2> HIDE DEF E
  <2> QED
    BY <1>2, <1>5, <2>1 DEF Answering, OnStack, B, E
<1>6. CASE SendCalling(t, task[t])
  BY <1>2, <1>6 DEF SendCalling, OnStack
<1>7. CASE Settled(t, task[t])
  <2>1. ~E /\ (InFlight(t) <=> task[t].lost) /\ t \notin reg
    BY <1>1, <1>7 DEF Settled, InFlight
  <2>2. /\ task[t].count = B(task[t].wrapper) + B(task[t].lost)
        /\ task[t].obj \in IF task[t].wrapper \/ task[t].lost THEN {"live"} ELSE Fates
    BY <1>7 DEF Settled
  <2> HIDE DEF E
  <2> QED
    BY <1>2, <2>1, <2>2 DEF B, E, Fates
<1> QED
  BY <1>2, <1>3, <1>4, <1>5, <1>6, <1>7 DEF Phase

\* A task is retained exactly by its wrapper, Http::_tasks and the callback that
\* is still to come, is deleted with the last of them, and leaves Http::_tasks
\* once it is answered (kk-http.cc 90-105, 160-162, 275-295)
THEOREM ReferencesAccounted == Spec => []Accounted
<1>1. HInv => Accounted
  BY AccountedState DEF HInv, Accounted
<1> QED
  BY <1>1, Invariance, PTL

LEMMA AnsweredStep ==
    ASSUME TypeOK, Sound, fault = None, Next, NEW u \in Tasks,
           task[u].lost \/ task[u].called = 1
    PROVE  task'[u].called = task[u].called
<1>1. task \in [Tasks -> TaskRec] /\ Phase(u)
  BY Types DEF Sound
<1>2. task[u].obj # "none" /\ task[u].ev # "queued"
  BY <1>1 DEF Phase, Unsent, Queued, Answering, SendCalling, Settled, Fates
<1>3. \A r \in TaskRec, d \in Fates : Release(r, d).called = r.called
  BY DEF Release, TaskRec
<1>4. \A t : \A r \in TaskRec, d \in Fates : Removed(t, r, d).called = r.called
  <2>1. \A r \in TaskRec : [r EXCEPT !.req = FALSE].called = r.called
    BY DEF TaskRec
  <2>2. ASSUME NEW t, NEW r \in TaskRec, NEW d \in Fates, http /\ t \in reg
        PROVE  [Release(r, d) EXCEPT !.req = FALSE].called = r.called
    BY DEF Release, TaskRec
  <2> QED
    BY <2>1, <2>2 DEF Removed
<1>5. ASSUME NEW t \in Tasks, NEW s, task' = [task EXCEPT ![t] = s],
             t = u => s.called = task[u].called
      PROVE  task'[u].called = task[u].called
  BY <1>1, <1>5
<1>6. ASSUME NEW t \in Tasks, NEW f \in Fns, Send(t, f)
      PROVE  task'[u].called = task[u].called
  <2>1. t # u
    BY <1>2, <1>6 DEF Send
  <2> QED
    BY <1>1, <1>6, <2>1 DEF Send, SendQueued, SendBadUrl, SendRefused, Call
<1>7. ASSUME NEW t \in Tasks, Cancel(t) PROVE task'[u].called = task[u].called
  <2>1. CASE task' = task
    BY <2>1
  <2>2. CASE \E d \in Fates :
               /\ task[t].ev = "queued"
               /\ task' = [task EXCEPT ![t] =
                            [Removed(t, task[t], d) EXCEPT !.ev = "freed", !.lost = TRUE]]
    BY <1>2, <1>5, <2>2
  <2> QED
    BY <1>7, <2>1, <2>2 DEF Cancel, Fault
<1>8. ASSUME NEW t \in Tasks, Drop(t) PROVE task'[u].called = task[u].called
  <2>1. CASE task' = task
    BY <2>1
  <2>2. CASE \E d \in Fates :
               task' = [task EXCEPT ![t] = [Release(@, d) EXCEPT !.wrapper = FALSE]]
    <3> PICK d \in Fates :
          task' = [task EXCEPT ![t] = [Release(@, d) EXCEPT !.wrapper = FALSE]]
      BY <2>2
    <3>1. task' = [task EXCEPT ![t] = [Release(task[t], d) EXCEPT !.wrapper = FALSE]]
      OBVIOUS
    <3>2. [Release(task[t], d) EXCEPT !.wrapper = FALSE].called = task[t].called
      BY <1>1 DEF Release, TaskRec
    <3> QED
      BY <1>5, <3>1, <3>2
  <2> QED
    BY <1>8, <2>1, <2>2 DEF Drop, Fault
<1>9. ASSUME NEW t \in Tasks, Network(t) PROVE task'[u].called = task[u].called
  <2>1. t # u
    BY <1>2, <1>9 DEF Network, Complete, Undecodable, Fail, Eof
  <2> QED
    BY <1>1, <1>9, <2>1 DEF Network, Complete, Undecodable, Fail, Eof, Call
<1>10. CASE DropHttp
  <2>1. CASE task' = task
    BY <2>1
  <2>2. CASE /\ \A t \in reg : task[t].ev = "queued"
             /\ task' = [t \in Tasks |-> IF t \in reg THEN Dealloced(t) ELSE task[t]]
    BY <1>2, <2>2
  <2> QED
    BY <1>10, <2>1, <2>2 DEF DropHttp, Fault
<1>11. CASE Return
  <2> PICK d \in Fates : ReturnOf(Last(stack).task, Last(stack).why, d)
    BY <1>11 DEF Return
  <2> DEFINE t == Last(stack).task
             why == Last(stack).why
             q == Removed(t, task[t], d)
             s == IF why \in {"done", "refused"} THEN [Release(q, d) EXCEPT !.ev = "freed"]
                  ELSE q
  <2>1. task' = [task EXCEPT ![t] = s]
    BY DEF ReturnOf
  <2>2. CASE t # u
    BY <1>1, <2>1, <2>2
  <2>3. CASE t = u
    <3>1. task'[u] = s
      BY <1>1, <2>1, <2>3
    <3>2. s.called = task[u].called
      <4>1. q.called = task[u].called /\ task[u] \in TaskRec
        BY <1>1, <1>4, <2>3
      <4>2. [Release(q, d) EXCEPT !.ev = "freed"].called = q.called
        <5>1. q = [(IF http /\ t \in reg THEN Release(task[u], d) ELSE task[u]) EXCEPT !.req = FALSE]
          BY <2>3 DEF Removed
        <5> QED
          BY <4>1, <5>1 DEF Release, TaskRec
      <4> QED
        BY <4>1, <4>2
    <3> QED
      BY <3>1, <3>2
  <2> QED
    BY <2>2, <2>3
<1>12. CASE \E f \in Fns : Forget(f)
  BY <1>12 DEF Forget
<1>13. ASSUME NEW t \in Tasks, SendThrows(t) PROVE task'[u].called = task[u].called
  <2>1. t # u
    BY <1>2, <1>13 DEF SendThrows
  <2> QED
    BY <1>1, <1>13, <2>1 DEF SendThrows
<1>14. ASSUME NEW t \in Tasks, OtherDeletes(t) PROVE task'[u].called = task[u].called
  <2>1. [task[t] EXCEPT !.obj = "freed"].called = task[t].called
    BY <1>1 DEF TaskRec
  <2> QED
    BY <1>1, <1>14, <2>1 DEF OtherDeletes, Fault
<1>15. CASE OtherDeletesHttp
  BY <1>15 DEF OtherDeletesHttp, Fault
<1> QED
  BY <1>6, <1>7, <1>8, <1>9, <1>10, <1>11, <1>12, <1>13, <1>14, <1>15 DEF Next

\* onload or onfail is called once for a request, and not at all once cancel() or
\* ~Http has let it go (kk-http.cc 90-105, 118-157, 275-295)
THEOREM CalledOnce == Spec => AnsweredOnce
<1>1. HInv /\ [Next]_vars => [\A t \in Tasks : task[t].lost \/ task[t].called = 1 =>
                                  task'[t].called = task[t].called]_vars
  BY AnsweredStep DEF HInv, Next
<1> QED
  BY <1>1, Invariance, PTL DEF Spec, AnsweredOnce
=============================================================================
