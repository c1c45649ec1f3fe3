------------------------ MODULE DispatchObjectProofs ------------------------
(***************************************************************************)
(* The lifetime of DispatchObjects: nobody who has not been woken touches  *)
(* a deleted object, and no sync() caller sleeps past its broadcast.  And  *)
(* the two ends of a queue's life: its timer is kept until something       *)
(* breaks the queue, and an owned queue leaves a clean heap behind.  A     *)
(* break posted to a loop on another thread than _pid's stays posted, the  *)
(* break join() waits for is always on its way, and every object pushed is *)
(* run exactly once.                                                       *)
(***************************************************************************)
EXTENDS DispatchQueueProofs

Holding == wpc \in {"func", "join", "release"}

\* A queued object is queued once, and alive.
ChanLive ==
    /\ \A i, j \in 1 .. Len(chan) : chan[i] = chan[j] => i = j
    /\ \A t \in Range(chan) : heap[t] = "alive"

\* The object run() holds is alive and no longer queued.
CurLive ==
    /\ Holding => cur \notin Range(chan) /\ heap[cur] = "alive"
    /\ ~Holding => cur = NoTask

\* A sync() caller owns its object alone; before its push nobody else knows the
\* object, and until it is woken the object is on its way to the broadcast.
SyncLive ==
    \A c \in Clients :
        /\ InSync(c) => heap[obj[c]] # "none"
        /\ cpc[c] = "push" =>
              heap[obj[c]] = "alive" /\ obj[c] \notin Range(chan) /\ obj[c] # cur
        /\ cpc[c] \in {"wait", "asleep"} =>
              obj[c] \in Range(chan) \/ (obj[c] = cur /\ wpc \in {"func", "join"})
        /\ \A d \in Clients : InSync(c) /\ InSync(d) /\ obj[c] = obj[d] => c = d

\* The destructor runs when no client is inside sync().
AloneAtEnd == dropped \/ Dropping => \A c \in Clients : ~InSync(c)

ObjInv == ChanLive /\ CurLive /\ SyncLive /\ AloneAtEnd

-----------------------------------------------------------------------------
(* Facts about sequences as sets.                                          *)

LEMMA RangeAppend ==
    ASSUME NEW S, NEW s \in Seq(S), NEW e \in S
    PROVE  Range(Append(s, e)) = Range(s) \union {e}
<1>1. /\ Append(s, e) \in Seq(S) /\ Len(Append(s, e)) = Len(s) + 1
      /\ \A i \in 1 .. Len(s) : Append(s, e)[i] = s[i]
      /\ Append(s, e)[Len(s) + 1] = e
  OBVIOUS
<1>2. /\ DOMAIN s = 1 .. Len(s) /\ Len(s) \in Nat
      /\ DOMAIN Append(s, e) = 1 .. (Len(s) + 1)
  BY <1>1, LenProperties
<1>3. ASSUME NEW x \in Range(Append(s, e)) PROVE x \in Range(s) \union {e}
  <2>1. PICK i \in 1 .. (Len(s) + 1) : x = Append(s, e)[i]
    BY <1>2 DEF Range
  <2>2. i \in 1 .. Len(s) \/ i = Len(s) + 1
    BY <1>2
  <2>3. QED
    BY <1>1, <1>2, <2>1, <2>2 DEF Range
<1>4. ASSUME NEW x \in Range(s) PROVE x \in Range(Append(s, e))
  <2>1. PICK i \in 1 .. Len(s) : x = s[i]
    BY <1>2 DEF Range
  <2>2. i \in 1 .. (Len(s) + 1) /\ Append(s, e)[i] = x
    BY <1>1, <1>2, <2>1
  <2>3. QED
    BY <1>2, <2>2 DEF Range
<1>5. e \in Range(Append(s, e))
  BY <1>1, <1>2 DEF Range
<1>6. QED
  BY <1>3, <1>4, <1>5

\* Popping a sequence without repetitions takes its head out of the set.
LEMMA RangeTail ==
    ASSUME NEW S, NEW s \in Seq(S), s # <<>>,
           \A i, j \in 1 .. Len(s) : s[i] = s[j] => i = j
    PROVE  /\ Head(s) \in Range(s)
           /\ Range(Tail(s)) = Range(s) \ {Head(s)}
           /\ \A i, j \in 1 .. Len(Tail(s)) : Tail(s)[i] = Tail(s)[j] => i = j
<1>1. /\ Tail(s) \in Seq(S) /\ Len(Tail(s)) = Len(s) - 1
      /\ \A i \in 1 .. Len(Tail(s)) : Tail(s)[i] = s[i + 1]
  BY HeadTailProperties
<1>2. /\ DOMAIN s = 1 .. Len(s) /\ Len(s) \in Nat \ {0}
      /\ DOMAIN Tail(s) = 1 .. (Len(s) - 1)
  BY <1>1, LenProperties, EmptySeq
<1>3. Head(s) = s[1]
  OBVIOUS
<1>4. Head(s) \in Range(s)
  BY <1>2, <1>3 DEF Range
<1>5. ASSUME NEW x \in Range(Tail(s)) PROVE x \in Range(s) \ {Head(s)}
  <2>1. PICK i \in 1 .. (Len(s) - 1) : x = Tail(s)[i]
    BY <1>2 DEF Range
  <2>2. i + 1 \in 1 .. Len(s) /\ i + 1 # 1 /\ x = s[i + 1]
    BY <1>1, <1>2, <2>1
  <2>3. QED
    BY <1>2, <1>3, <2>2 DEF Range
<1>6. ASSUME NEW x \in Range(s) \ {Head(s)} PROVE x \in Range(Tail(s))
  <2>1. PICK i \in 1 .. Len(s) : x = s[i]
    BY <1>2 DEF Range
  <2>2. i - 1 \in 1 .. (Len(s) - 1) /\ (i - 1) + 1 = i
    BY <1>2, <1>3, <2>1
  <2>3. x = Tail(s)[i - 1]
    BY <1>1, <2>1, <2>2
  <2>4. QED
    BY <1>2, <2>2, <2>3 DEF Range
<1>7. \A i, j \in 1 .. Len(Tail(s)) : Tail(s)[i] = Tail(s)[j] => i = j
  <2> TAKE i, j \in 1 .. Len(Tail(s))
  <2> HAVE Tail(s)[i] = Tail(s)[j]
  <2>1. i + 1 \in 1 .. Len(s) /\ j + 1 \in 1 .. Len(s)
    BY <1>1, <1>2
  <2>2. s[i + 1] = s[j + 1]
    BY <1>1
  <2>3. i + 1 = j + 1
    BY <2>1, <2>2
  <2>4. QED
    BY <1>1, <1>2, <2>3
<1>8. QED
  BY <1>4, <1>5, <1>6, <1>7

-----------------------------------------------------------------------------
(* Steps that leave objects and channel alone.                             *)

\* Every client stays where it is or moves outside sync().
OutsideSync ==
    \A c \in Clients : cpc'[c] = cpc[c] \/ (~InSync(c) /\ ~InSync(c)')

LEMMA CalmStep ==
    ASSUME ObjInv, UNCHANGED <<chan, heap, cur, obj>>, OutsideSync,
           Holding' <=> Holding,
           wpc \in {"func", "join"} => wpc' \in {"func", "join"},
           dropped' \/ Dropping' => \A c \in Clients : ~InSync(c)
    PROVE  ObjInv'
<1>1. ChanLive' /\ CurLive'
  BY DEF ObjInv, ChanLive, CurLive
<1>2. \A c \in Clients : InSync(c)' => InSync(c) /\ cpc'[c] = cpc[c]
  BY DEF OutsideSync, InSync
<1>3. SyncLive'
  BY <1>2 DEF ObjInv, SyncLive, InSync
<1>4. AloneAtEnd'
  BY <1>2 DEF AloneAtEnd
<1>5. QED
  BY <1>1, <1>3, <1>4 DEF ObjInv

-----------------------------------------------------------------------------
(* Steps that allocate or push.                                            *)

\* A fresh object is neither queued nor held nor any caller's.
LEMMA FreshObject ==
    ASSUME ObjInv, NEW t \in Tasks, heap[t] = "none"
    PROVE  /\ t \notin Range(chan)
           /\ Holding => t # cur
           /\ \A c \in Clients : InSync(c) => obj[c] # t
BY DEF ObjInv, ChanLive, CurLive, SyncLive

\* Pushing an object that is alive and not queued keeps the channel sound.
LEMMA PushLive ==
    ASSUME TypeOK, ChanLive, NEW t \in Tasks, t \notin Range(chan), Push(t),
           heap'[t] = "alive", \A u \in Range(chan) : heap'[u] = "alive"
    PROVE  ChanLive' /\ Range(chan') = Range(chan) \union {t}
<1>1. Range(chan') = Range(chan) \union {t}
  BY RangeAppend DEF Push, TypeOK
<1>2. /\ Len(chan') = Len(chan) + 1 /\ Len(chan) \in Nat
      /\ \A i \in 1 .. Len(chan) : chan'[i] = chan[i]
      /\ chan'[Len(chan) + 1] = t
  BY LenProperties DEF Push, TypeOK
<1>3. \A i \in 1 .. Len(chan) : chan[i] \in Range(chan)
  BY LenProperties DEF Range, TypeOK
<1>4. ASSUME NEW i \in 1 .. Len(chan'), NEW j \in 1 .. Len(chan'), chan'[i] = chan'[j]
      PROVE  i = j
  BY <1>2, <1>3, <1>4 DEF ChanLive
<1>5. QED
  BY <1>1, <1>4 DEF ChanLive

LEMMA PostStep ==
    ASSUME TInv, ObjInv, NEW t \in Tasks, NEW k, Post(t, k),
           UNCHANGED <<cur, obj>>, OutsideSync,
           Holding' <=> Holding,
           wpc \in {"func", "join"} => wpc' \in {"func", "join"},
           dropped' \/ Dropping' => \A c \in Clients : ~InSync(c)
    PROVE  ObjInv'
<1>1. /\ heap[t] = "none" /\ heap'[t] = "alive"
      /\ \A u \in Tasks : u # t => heap'[u] = heap[u]
      /\ Push(t)
  BY DEF Post, New, TInv, TypeOK
<1>2. /\ t \notin Range(chan) /\ (Holding => t # cur)
      /\ \A c \in Clients : InSync(c) => obj[c] # t
  BY <1>1, FreshObject
<1>3. Range(chan) \subseteq Tasks
  BY LenProperties DEF Range, TInv, TypeOK
<1>4. ChanLive' /\ Range(chan') = Range(chan) \union {t}
  BY <1>1, <1>2, <1>3, PushLive DEF ObjInv, ChanLive, TInv
<1>5. CurLive'
  BY <1>1, <1>2, <1>4 DEF ObjInv, CurLive, Holding, TInv
<1>6. \A c \in Clients : InSync(c)' => InSync(c) /\ cpc'[c] = cpc[c]
  BY DEF OutsideSync, InSync
<1>7. \A c \in Clients : InSync(c) => obj[c] \in Tasks
  BY DEF TInv
<1>8. SyncLive'
  BY <1>1, <1>2, <1>4, <1>6, <1>7 DEF ObjInv, SyncLive, InSync
<1>9. AloneAtEnd'
  BY <1>6 DEF AloneAtEnd
<1>10. QED
  BY <1>4, <1>5, <1>8, <1>9 DEF ObjInv

-----------------------------------------------------------------------------
(* The steps of a sync() call.                                             *)

LEMMA SyncCallStep ==
    ASSUME TInv, ObjInv, NEW c \in Clients,
           \/ SyncLock(c) \/ SyncPush(c) \/ SyncSleep(c) \/ SpuriousWakeup(c)
           \/ SyncRelock(c) \/ SyncReturn(c)
    PROVE  ObjInv'
<1> USE DEF queueVars, eventVars, ownerVars, loopVars, clientVars, Goto
<1>1. /\ cpc \in [Clients -> ClientStates] /\ obj \in [Clients -> Tasks \union {NoTask}]
      /\ heap \in [Tasks -> {"none", "alive", "freed"}] /\ Owner \in Clients
      /\ \A d \in Clients : InSync(d) => obj[d] \in Tasks
  BY ThreadsAssumption DEF TInv, TypeOK
<1>2. CASE SyncLock(c)
  <2>1. PICK t \in Tasks : New(t, "sync") /\ obj' = [obj EXCEPT ![c] = t]
    BY <1>2 DEF SyncLock
  <2>2. /\ heap[t] = "none" /\ heap'[t] = "alive"
        /\ \A u \in Tasks : u # t => heap'[u] = heap[u]
    BY <1>1, <2>1 DEF New
  <2>3. /\ t \notin Range(chan) /\ (Holding => t # cur)
        /\ \A d \in Clients : InSync(d) => obj[d] # t
    BY <2>2, FreshObject
  <2>4. /\ UNCHANGED <<chan, cur, wpc, dropped>> /\ ~dropped /\ ~Dropping /\ ~InSync(c)
        /\ cpc'[c] = "push" /\ obj'[c] = t
        /\ \A d \in Clients : d # c => cpc'[d] = cpc[d] /\ obj'[d] = obj[d]
    BY <1>1, <1>2, <2>1 DEF SyncLock, Calls, InSync
  <2>5. Range(chan) \subseteq Tasks /\ t # NoTask
    BY LenProperties, NoTaskAssumption DEF Range, TInv, TypeOK
  <2>6. ChanLive' /\ CurLive'
    BY <2>2, <2>3, <2>4, <2>5 DEF ObjInv, ChanLive, CurLive, Holding, TInv
  <2>7. SyncLive'
    BY <1>1, <2>2, <2>3, <2>4, <2>5 DEF ObjInv, SyncLive, CurLive, InSync
  <2>8. AloneAtEnd'
    BY <1>1, <2>4 DEF AloneAtEnd, Dropping
  <2>9. QED
    BY <2>6, <2>7, <2>8 DEF ObjInv
<1>3. CASE SyncPush(c)
  <2>1. /\ cpc[c] = "push" /\ cpc'[c] = "wait" /\ Push(obj[c])
        /\ \A d \in Clients : d # c => cpc'[d] = cpc[d]
        /\ UNCHANGED <<heap, cur, wpc, obj, dropped>>
    BY <1>1, <1>3 DEF SyncPush
  <2>2. /\ obj[c] \in Tasks /\ heap[obj[c]] = "alive"
        /\ obj[c] \notin Range(chan) /\ obj[c] # cur /\ InSync(c)
    BY <1>1, <2>1 DEF ObjInv, SyncLive, InSync
  <2>3. ChanLive' /\ Range(chan') = Range(chan) \union {obj[c]}
    BY <2>1, <2>2, PushLive DEF ObjInv, ChanLive, TInv
  <2>4. CurLive'
    BY <2>1, <2>2, <2>3 DEF ObjInv, CurLive, Holding
  <2>5. SyncLive'
    BY <1>1, <2>1, <2>2, <2>3 DEF ObjInv, SyncLive, InSync
  <2>6. AloneAtEnd'
    BY <1>1, <2>1, <2>2 DEF ObjInv, AloneAtEnd, Dropping
  <2>7. QED
    BY <2>3, <2>4, <2>5, <2>6 DEF ObjInv
<1>4. CASE SyncSleep(c) \/ SpuriousWakeup(c) \/ SyncRelock(c) \/ SyncReturn(c)
  <2>1. /\ UNCHANGED <<chan, heap, cur, wpc, dropped>> /\ InSync(c)
        /\ cpc'[c] = "asleep" => cpc[c] = "wait"
        /\ cpc'[c] \in {"asleep", "woken", "unlock", "idle", "dead"}
        /\ InSync(c)' => obj'[c] = obj[c]
        /\ \A d \in Clients : d # c => cpc'[d] = cpc[d] /\ obj'[d] = obj[d]
    <3>1. CASE SyncSleep(c)
      BY <1>1, <3>1 DEF SyncSleep, InSync
    <3>2. CASE SpuriousWakeup(c)
      BY <1>1, <3>2 DEF SpuriousWakeup, InSync
    <3>3. CASE SyncRelock(c)
      BY <1>1, <3>3 DEF SyncRelock, InSync
    <3>4. CASE SyncReturn(c)
      BY <1>1, <3>4 DEF SyncReturn, InSync
    <3>5. QED
      BY <1>4, <3>1, <3>2, <3>3, <3>4
  <2>2. ChanLive' /\ CurLive'
    BY <2>1 DEF ObjInv, ChanLive, CurLive, Holding
  <2>3. SyncLive'
    BY <2>1 DEF ObjInv, SyncLive, InSync
  <2>4. AloneAtEnd'
    BY <1>1, <2>1 DEF ObjInv, AloneAtEnd, Dropping, InSync
  <2>5. QED
    BY <2>2, <2>3, <2>4 DEF ObjInv
<1>5. QED
  BY <1>2, <1>3, <1>4

-----------------------------------------------------------------------------
(* The steps of run() that move or delete an object, and the destructor.   *)

LEMMA PopStep ==
    ASSUME TInv, ObjInv, Pop
    PROVE  ObjInv'
<1>1. /\ chan # <<>> /\ cur' = Head(chan) /\ chan' = Tail(chan)
      /\ wpc = "pop" /\ wpc' = "func"
      /\ UNCHANGED <<heap, cpc, obj, dropped>>
  BY DEF Pop, queueVars, eventVars, ownerVars, clientVars
<1>2. /\ Head(chan) \in Range(chan) /\ Range(chan') = Range(chan) \ {Head(chan)}
      /\ \A i, j \in 1 .. Len(chan') : chan'[i] = chan'[j] => i = j
  BY <1>1, RangeTail DEF ObjInv, ChanLive, TInv, TypeOK
<1>3. ChanLive' /\ CurLive'
  BY <1>1, <1>2 DEF ObjInv, ChanLive, CurLive, Holding
<1>4. SyncLive'
  BY <1>1, <1>2 DEF ObjInv, SyncLive, InSync
<1>5. AloneAtEnd'
  BY <1>1 DEF ObjInv, AloneAtEnd, Dropping, InSync
<1>6. QED
  BY <1>3, <1>4, <1>5 DEF ObjInv

LEMMA JoinObjectStep ==
    ASSUME TInv, ObjInv, JoinObject
    PROVE  ObjInv'
<1>1. /\ wpc = "join" /\ wpc' = "release" /\ Holders(cur) = {}
      /\ UNCHANGED <<chan, heap, cur, obj, dropped>>
      /\ \A c \in Clients : cpc'[c] = IF obj[c] = cur /\ cpc[c] = "asleep"
                                       THEN "woken" ELSE cpc[c]
  BY DEF JoinObject, queueVars, eventVars, ownerVars
<1>2. \A c \in Clients : InSync(c)' <=> InSync(c)
  BY <1>1 DEF InSync
<1>3. \A c \in Clients : cpc'[c] \in {"wait", "asleep"} => obj[c] # cur
  BY <1>1 DEF Holders
<1>4. ChanLive' /\ CurLive'
  BY <1>1 DEF ObjInv, ChanLive, CurLive, Holding
<1>5. SyncLive'
  <2>1. ASSUME NEW c \in Clients, cpc'[c] \in {"wait", "asleep"}
        PROVE  obj[c] \in Range(chan)
    BY <1>1, <1>3, <2>1 DEF ObjInv, SyncLive
  <2>2. QED
    BY <1>1, <1>2, <2>1 DEF ObjInv, SyncLive
<1>6. AloneAtEnd'
  BY <1>1, <1>2, ThreadsAssumption DEF ObjInv, AloneAtEnd, Dropping
<1>7. QED
  BY <1>4, <1>5, <1>6 DEF ObjInv

\* When run() deletes the object it holds, no caller relies on it any more: each
\* was woken by the broadcast, or has left.
LEMMA ReleaseStep ==
    ASSUME TInv, ObjInv, Release
    PROVE  ObjInv'
<1>1. /\ wpc = "release" /\ wpc' = "pop" /\ cur' = NoTask /\ cur \in Tasks
      /\ UNCHANGED <<chan, cpc, obj, dropped>>
  BY DEF Release, queueVars, eventVars, ownerVars, clientVars, TInv
<1>2. /\ \A u \in Tasks : u # cur => heap'[u] = heap[u]
      /\ heap'[cur] # "none" /\ heap[cur] # "none"
  BY <1>1 DEF Release, ReleaseObject, TInv, TypeOK, ObjInv, CurLive, Holding
<1>3. Range(chan) \subseteq Tasks
  BY LenProperties DEF Range, TInv, TypeOK
<1>4. ChanLive' /\ CurLive'
  BY <1>1, <1>2, <1>3 DEF ObjInv, ChanLive, CurLive, Holding
<1>5. \A c \in Clients : InSync(c) => obj[c] \in Tasks /\ obj[c] # NoTask
  BY NoTaskAssumption DEF TInv
<1>6. SyncLive'
  BY <1>1, <1>2, <1>5 DEF ObjInv, SyncLive, InSync
<1>7. AloneAtEnd'
  BY <1>1 DEF ObjInv, AloneAtEnd, Dropping, InSync
<1>8. QED
  BY <1>4, <1>6, <1>7 DEF ObjInv

LEMMA DestroyStep ==
    ASSUME TInv, OwnerInv, ObjInv, DropJoined \/ DropReturn
    PROVE  ObjInv'
<1> USE DEF queueVars, eventVars, ownerVars, loopVars, clientVars, Goto
<1>1. \A c \in Clients : ~InSync(c)
  BY DEF DropJoined, DropReturn, Drops, ObjInv, AloneAtEnd, Dropping, InSync
<1>2. /\ UNCHANGED <<cur, wpc, obj>> /\ ~Holding
      /\ chan' = <<>>
  BY DEF DropJoined, DropReturn, Destroy, DestroyChan, Drops, Calls, Holding,
         OwnerInv, OwnerWaits
<1>3. \A c \in Clients : ~InSync(c)'
  BY <1>1, ThreadsAssumption DEF DropJoined, DropReturn, InSync, TInv, TypeOK
<1>4. ChanLive'
  BY <1>2, EmptySeq DEF ChanLive, Range
<1>5. CurLive'
  BY <1>2 DEF ObjInv, CurLive, Holding
<1>6. SyncLive' /\ AloneAtEnd'
  BY <1>3 DEF SyncLive, AloneAtEnd, InSync
<1>7. QED
  BY <1>4, <1>5, <1>6 DEF ObjInv

-----------------------------------------------------------------------------
LEMMA ObjInvInit == Init => ObjInv
<1> SUFFICES ASSUME Init PROVE ObjInv
  OBVIOUS
<1>1. ChanLive
  BY EmptySeq DEF Init, ChanLive, Range
<1>2. CurLive /\ SyncLive /\ AloneAtEnd
  BY ThreadsAssumption DEF Init, CurLive, SyncLive, AloneAtEnd, Holding, InSync, Dropping
<1>3. QED
  BY <1>1, <1>2 DEF ObjInv

LEMMA ObjInvStep ==
    ASSUME IInv, ObjInv, [Next]_vars
    PROVE  ObjInv'
<1> USE ThreadsAssumption
    DEF queueVars, eventVars, ownerVars, loopVars, clientVars, Goto
<1>1. TInv /\ OwnerInv /\ cpc \in [Clients -> ClientStates]
  BY DEF IInv, TInv, TypeOK
<1>2. dropped \/ Dropping => \A c \in Clients : ~InSync(c)
  BY DEF ObjInv, AloneAtEnd
<1>3. ASSUME NEW c \in Clients,
             \/ Async(c) \/ SyncLock(c) \/ SpuriousWakeup(c)
             \/ BreakRead(c) \/ BreakNow(c) \/ ClientSteps(c)
      PROVE  ObjInv'
  <2>1. CASE Async(c)
    BY <1>1, <1>2, <2>1, PostStep DEF Async, OutsideSync, Holding, InSync, Dropping
  <2>2. CASE BreakRead(c)
    BY <1>1, <1>2, <2>2, CalmStep DEF BreakRead, Calls, OutsideSync, Holding, InSync, Dropping
  <2>3. CASE BreakNow(c)
    BY <1>1, <1>2, <2>3, CalmStep DEF BreakNow, OutsideSync, Holding, InSync, Dropping
  <2>4. CASE BreakPost(c)
    BY <1>1, <1>2, <2>4, PostStep DEF BreakPost, OutsideSync, Holding, InSync, Dropping
  <2>5. QED
    BY <1>1, <1>3, <2>1, <2>2, <2>3, <2>4, SyncCallStep DEF ClientSteps
<1>4. CASE UNCHANGED vars
  BY <1>2, <1>4, CalmStep DEF vars, OutsideSync, Holding, InSync, Dropping
<1>5. CASE Join
  BY <1>1, <1>2, <1>5, PostStep DEF Join, Calls, OutsideSync, Holding, InSync, Dropping
<1>6. CASE JoinReturn
  BY <1>1, <1>2, <1>6, CalmStep DEF JoinReturn, OutsideSync, Holding, InSync, Dropping
<1>7. CASE DropUnarm
  <2>1. \A c \in Clients : ~InSync(c)
    BY <1>7 DEF DropUnarm, Drops, InSync
  <2>2. OutsideSync
    BY <1>1, <1>7, <2>1 DEF DropUnarm, OutsideSync, InSync
  <2>3. UNCHANGED <<chan, heap, cur, obj, wpc>>
    BY <1>7 DEF DropUnarm
  <2>4. QED
    BY <2>1, <2>2, <2>3, CalmStep DEF Holding
<1>8. CASE DropBreak
  BY <1>1, <1>2, <1>8, PostStep DEF DropBreak, OutsideSync, Holding, InSync, Dropping
<1>9. CASE DropJoined \/ DropReturn
  BY <1>1, <1>9, DestroyStep
<1>10. CASE Tick \/ PopEmpty \/ FuncReturn \/ Rearm \/ Exit \/ HostLoop
  BY <1>2, <1>10, CalmStep DEF Tick, PopEmpty, FuncReturn, Rearm, Exit, HostLoop,
                               OutsideSync, Holding, InSync, Dropping
<1>11. CASE FuncAsync
  BY <1>1, <1>2, <1>11, PostStep DEF FuncAsync, OutsideSync, Holding, InSync, Dropping
<1>12. CASE RunBreak \/ FuncBreak \/ EventBreak
  <2>1. /\ UNCHANGED <<cur, cpc, obj, dropped>>
        /\ wpc' = wpc \/ (wpc = "func" /\ wpc' = "join")
    BY <1>12 DEF RunBreak, FuncBreak, EventBreak
  <2>2. CASE UNCHANGED queueVars
    BY <1>2, <2>1, <2>2, CalmStep DEF OutsideSync, Holding, InSync, Dropping
  <2>3. CASE \E t \in Tasks : Post(t, "break")
    BY <1>1, <1>2, <2>1, <2>3, PostStep DEF OutsideSync, Holding, InSync, Dropping
  <2>4. QED
    BY <1>12, <2>2, <2>3 DEF RunBreak, FuncBreak, EventBreak, LoopBreaks
<1>13. CASE Pop \/ JoinObject \/ Release
  BY <1>1, <1>13, PopStep, JoinObjectStep, ReleaseStep
<1>14. QED
  BY <1>3, <1>4, <1>5, <1>6, <1>7, <1>8, <1>9, <1>10, <1>11, <1>12, <1>13
     DEF Next, OwnerSteps, LoopSteps

LEMMA ObjInvariance == Spec => []ObjInv
BY ObjInvInit, ObjInvStep, Invariance, PTL DEF Spec

\* A DispatchObject is not deleted while it is queued, held by run(), or the
\* object of a sync() caller that has not been woken.
THEOREM NoEarlyDelete == Spec => []LiveObjects
<1>1. IInv /\ ObjInv => LiveObjects
  <2> SUFFICES ASSUME IInv, ObjInv, NEW t \in InUse \ {NoTask} PROVE heap[t] = "alive"
    BY DEF LiveObjects
  <2>1. CASE t \in Range(chan)
    BY <2>1 DEF ObjInv, ChanLive
  <2>2. CASE t = cur
    BY <2>2 DEF ObjInv, CurLive
  <2>3. CASE \E c \in Clients : t = obj[c] /\ cpc[c] \in {"push", "wait", "asleep"}
    BY <2>3 DEF ObjInv, SyncLive, ChanLive, CurLive, Holding
  <2>4. QED
    BY <2>1, <2>2, <2>3 DEF InUse
<1>2. QED
  BY <1>1, Invariance, ObjInvariance, PTL

\* A sync() caller never sleeps past the broadcast that should wake it.
THEOREM NoLostWakeup == Spec => []WakeupAhead
<1>1. ObjInv => WakeupAhead
  BY DEF ObjInv, SyncLive, WakeupAhead
<1>2. QED
  BY <1>1, ObjInvariance, PTL


-----------------------------------------------------------------------------
(* The timer.                                                              *)

\* Only loopbreak() makes the loop return, and it leaves its mark first.
BreakInv == evbreak \/ wpc = "exited" => loopbreak

TimerInv == BreakInv /\ TimerKept

LEMMA TimerInvInit == Init => TimerInv
BY DEF Init, TimerInv, BreakInv, TimerKept

\* A step of a client that is not in the destructor leaves the timer alone.
LEMMA TimerClient ==
    ASSUME TInv, TimerInv, NEW c \in Clients,
           \/ Async(c) \/ SyncLock(c) \/ SpuriousWakeup(c)
           \/ BreakRead(c) \/ BreakNow(c) \/ ClientSteps(c)
    PROVE  TimerInv'
<1> USE ThreadsAssumption
    DEF TimerInv, BreakInv, TimerKept, Dropping, Goto, TInv, TypeOK, queueVars,
        eventVars, ownerVars, loopVars, clientVars
<1>1. CASE Async(c) \/ BreakNow(c)
  BY <1>1 DEF Async, BreakNow
<1>2. CASE SyncLock(c) \/ SpuriousWakeup(c) \/ BreakRead(c)
  BY <1>2 DEF SyncLock, SpuriousWakeup, BreakRead, Calls
<1>3. CASE ClientSteps(c)
  BY <1>3 DEF ClientSteps, SyncPush, SyncSleep, SyncRelock, SyncReturn, BreakPost
<1>4. QED
  BY <1>1, <1>2, <1>3

LEMMA TimerInvStep ==
    ASSUME TInv, TimerInv, [Next]_vars
    PROVE  TimerInv'
<1> USE ThreadsAssumption
    DEF TimerInv, BreakInv, TimerKept, Dropping, Goto, TInv, TypeOK, queueVars,
        eventVars, ownerVars, loopVars, clientVars
<1>1. CASE UNCHANGED vars
  BY <1>1 DEF vars
<1>2. CASE Join
  BY <1>2 DEF Join, Calls
<1>3. CASE JoinReturn
  BY <1>3 DEF JoinReturn
<1>4. CASE DropJoined
  BY <1>4 DEF DropJoined, Destroy
<1>5. CASE DropUnarm
  BY <1>5 DEF DropUnarm
<1>6. CASE DropBreak \/ DropReturn
  BY <1>6 DEF DropBreak, DropReturn, Destroy
<1>7. CASE FuncAsync
  BY <1>7 DEF FuncAsync
<1>8. CASE RunBreak \/ FuncBreak \/ EventBreak
  BY <1>8 DEF RunBreak, FuncBreak, EventBreak, LoopBreaks
<1>9. CASE Tick \/ PopEmpty \/ Exit \/ HostLoop
  BY <1>9 DEF Tick, PopEmpty, Exit, HostLoop
<1>10. CASE Rearm
  BY <1>10 DEF Rearm
<1>11. CASE Pop \/ FuncReturn \/ Release
  BY <1>11 DEF Pop, FuncReturn, Release
<1>12. CASE JoinObject
  BY <1>12 DEF JoinObject
<1>13. QED
  BY <1>1, <1>2, <1>3, <1>4, <1>5, <1>6, <1>7, <1>8, <1>9, <1>10, <1>11, <1>12,
     TimerClient DEF Next, OwnerSteps, LoopSteps

\* Until the queue is broken, or its destructor has begun, the one-shot timer is
\* pending or run() will re-arm it (kk-dispatch.cc, run()).
THEOREM TimerNeverLost == Spec => []TimerKept
<1>1. TimerInv => TimerKept
  BY DEF TimerInv
<1>2. IInv => TInv
  BY DEF IInv
<1>3. QED
  BY <1>1, <1>2, TimerInvInit, TimerInvStep, Invariance, PTL DEF Spec

-----------------------------------------------------------------------------
(* The heap of an owned queue.                                             *)

\* Every object that is alive has a way to its deletion: it is queued, run()
\* holds it, or a sync() caller is about to push it.
HeapInv ==
    ~Attached =>
        \A t \in Tasks : heap[t] = "alive" =>
            t \in Range(chan) \/ t = cur \/ \E c \in Clients : cpc[c] = "push" /\ obj[c] = t

\* Nobody but the owner is inside a call when the destructor has begun, and
\* nothing is pushed after it has finished.
QuietInv ==
    /\ Dropping => \A c \in Clients \ {Owner} : cpc[c] = "idle"
    /\ dropped => chan = <<>> /\ \A c \in Clients : cpc[c] = "idle"

EndInv == HeapInv /\ QuietInv

LEMMA EndInvInit == Init => EndInv
BY ThreadsAssumption DEF Init, EndInv, HeapInv, QuietInv, Dropping

LEMMA QuietStepEnd ==
    ASSUME TInv, OwnerInv, QuietInv, [Next]_vars
    PROVE  QuietInv'
<1> USE ThreadsAssumption
    DEF QuietInv, Dropping, Goto, TInv, TypeOK, queueVars, eventVars, ownerVars,
        loopVars, clientVars
<1>1. CASE UNCHANGED vars
  BY <1>1 DEF vars
<1>2. ASSUME NEW c \in Clients,
             \/ Async(c) \/ SyncLock(c) \/ SpuriousWakeup(c)
             \/ BreakRead(c) \/ BreakNow(c) \/ ClientSteps(c)
      PROVE  QuietInv'
  <2>1. CASE Async(c) \/ BreakNow(c)
    BY <2>1 DEF Async, BreakNow, Calls
  <2>2. CASE SyncLock(c) \/ SpuriousWakeup(c) \/ BreakRead(c)
    BY <2>2 DEF SyncLock, SpuriousWakeup, BreakRead, Calls
  <2>3. CASE ClientSteps(c)
    BY <2>3 DEF ClientSteps, SyncPush, SyncSleep, SyncRelock, SyncReturn, BreakPost
  <2>4. QED
    BY <1>2, <2>1, <2>2, <2>3
<1>3. CASE Join
  BY <1>3 DEF Join, Calls
<1>4. CASE JoinReturn
  BY <1>4 DEF JoinReturn
<1>5. CASE DropJoined
  BY <1>5 DEF DropJoined, Drops, Destroy, DestroyChan
<1>6. CASE DropUnarm
  BY <1>6 DEF DropUnarm, Drops, Calls
<1>7. CASE DropBreak
  BY <1>7 DEF DropBreak
<1>8. CASE DropReturn
  BY <1>8 DEF DropReturn, Destroy, DestroyChan
<1>9. CASE FuncAsync \/ FuncBreak \/ RunBreak
  <2>1. ~dropped
    BY <1>9 DEF FuncAsync, FuncBreak, RunBreak, OwnerInv
  <2>2. UNCHANGED <<cpc, dropped>>
    BY <1>9 DEF FuncAsync, FuncBreak, RunBreak
  <2>3. QED
    BY <2>1, <2>2
<1>10. CASE EventBreak
  BY <1>10 DEF EventBreak
<1>11. CASE Tick \/ PopEmpty \/ FuncReturn \/ Release \/ Rearm \/ Exit \/ HostLoop
  BY <1>11 DEF Tick, PopEmpty, FuncReturn, Release, Rearm, Exit, HostLoop
<1>12. CASE Pop
  BY <1>12 DEF Pop
<1>13. CASE JoinObject
  BY <1>13 DEF JoinObject
<1>14. QED
  BY <1>1, <1>2, <1>3, <1>4, <1>5, <1>6, <1>7, <1>8, <1>9, <1>10, <1>11, <1>12, <1>13
     DEF Next, OwnerSteps, LoopSteps

-----------------------------------------------------------------------------
(* HeapInv, step by step.                                                  *)

\* Steps that neither allocate, push, pop nor delete.
LEMMA HeapCalm ==
    ASSUME HeapInv, UNCHANGED <<chan, heap, cur>>,
           \A c \in Clients : cpc[c] = "push" => cpc'[c] = "push" /\ obj'[c] = obj[c]
    PROVE  HeapInv'
BY DEF HeapInv

LEMMA HeapPost ==
    ASSUME TInv, HeapInv, NEW t \in Tasks, NEW k, Post(t, k), cur' = cur,
           \A c \in Clients : cpc[c] = "push" => cpc'[c] = "push" /\ obj'[c] = obj[c]
    PROVE  HeapInv'
<1>1. Range(chan') = Range(chan) \union {t}
  BY RangeAppend DEF Post, Push, TInv, TypeOK
<1>2. \A u \in Tasks : u # t => heap'[u] = heap[u]
  BY DEF Post, New, TInv, TypeOK
<1>3. QED
  BY <1>1, <1>2 DEF HeapInv

LEMMA HeapSync ==
    ASSUME TInv, HeapInv, NEW c \in Clients,
           \/ SyncLock(c) \/ SyncPush(c) \/ SyncSleep(c) \/ SpuriousWakeup(c)
           \/ SyncRelock(c) \/ SyncReturn(c)
    PROVE  HeapInv'
<1> USE DEF Goto, queueVars, eventVars, ownerVars, loopVars, clientVars
<1>1. /\ cpc \in [Clients -> ClientStates] /\ obj \in [Clients -> Tasks \union {NoTask}]
      /\ heap \in [Tasks -> {"none", "alive", "freed"}]
  BY DEF TInv, TypeOK
<1>2. CASE SyncLock(c)
  <2>1. PICK t \in Tasks : New(t, "sync") /\ obj' = [obj EXCEPT ![c] = t]
    BY <1>2 DEF SyncLock
  <2>2. /\ UNCHANGED <<chan, cur>> /\ cpc[c] = "idle"
        /\ cpc'[c] = "push" /\ obj'[c] = t
        /\ \A d \in Clients : d # c => cpc'[d] = cpc[d] /\ obj'[d] = obj[d]
        /\ \A u \in Tasks : u # t => heap'[u] = heap[u]
    BY <1>1, <1>2, <2>1 DEF SyncLock, Calls, New
  <2>3. QED
    BY <2>2 DEF HeapInv
<1>3. CASE SyncPush(c)
  <2>1. /\ UNCHANGED <<heap, cur, obj>>
        /\ \A d \in Clients : d # c => cpc'[d] = cpc[d]
    BY <1>1, <1>3 DEF SyncPush
  <2>2. Range(chan') = Range(chan) \union {obj[c]}
    BY <1>3, RangeAppend DEF SyncPush, Push, TInv, TypeOK, InSync
  <2>3. QED
    BY <2>1, <2>2 DEF HeapInv
<1>4. CASE SyncSleep(c) \/ SpuriousWakeup(c) \/ SyncRelock(c) \/ SyncReturn(c)
  BY <1>1, <1>4, HeapCalm DEF SyncSleep, SpuriousWakeup, SyncRelock, SyncReturn
<1>5. QED
  BY <1>2, <1>3, <1>4

\* The steps of run() that move or delete an object.
LEMMA HeapRun ==
    ASSUME TInv, ObjInv, HeapInv, Pop \/ Release
    PROVE  HeapInv'
<1> USE DEF queueVars, eventVars, ownerVars, loopVars, clientVars
<1>1. CASE Pop
  <2>1. /\ cur' = Head(chan) /\ UNCHANGED <<heap, cpc, obj>> /\ cur = NoTask
        /\ chan # <<>> /\ chan' = Tail(chan)
    BY <1>1 DEF Pop, ObjInv, CurLive, Holding
  <2>2. Range(chan') = Range(chan) \ {Head(chan)}
    BY <2>1, RangeTail DEF ObjInv, ChanLive, TInv, TypeOK
  <2>3. QED
    BY <2>1, <2>2, NoTaskAssumption DEF HeapInv
<1>2. CASE Release
  <2>1. UNCHANGED <<chan, cpc, obj>> /\ cur \in Tasks
    BY <1>2 DEF Release, TInv
  <2>2. ~Attached => heap'[cur] = "freed"
    BY <1>2, <2>1 DEF Release, ReleaseObject, TInv, TypeOK
  <2>3. \A u \in Tasks : u # cur => heap'[u] = heap[u]
    BY <1>2, <2>1 DEF Release, ReleaseObject, TInv, TypeOK
  <2>4. QED
    BY <2>1, <2>2, <2>3 DEF HeapInv
<1>3. QED
  BY <1>1, <1>2

\* The destructor frees what is queued, when nothing else is alive.
LEMMA HeapDestroy ==
    ASSUME TInv, OwnerInv, ObjInv, HeapInv, DropJoined \/ DropReturn
    PROVE  HeapInv'
<1> SUFFICES ASSUME ~Attached, NEW t \in Tasks PROVE heap'[t] # "alive"
  BY DEF HeapInv
<1>1. wpc = "exited" /\ \A c \in Clients : cpc[c] # "push"
  BY DEF DropJoined, DropReturn, Drops, Calls, OwnerInv, OwnerWaits, ObjInv,
         AloneAtEnd, Dropping, InSync
<1>2. cur = NoTask
  BY <1>1 DEF ObjInv, CurLive, Holding
<1>3. heap[t] = "alive" => t \in Range(chan)
  BY <1>1, <1>2, NoTaskAssumption DEF HeapInv
<1>4. heap'[t] = IF t \in Range(chan) THEN "freed" ELSE heap[t]
  BY DEF DropJoined, DropReturn, Destroy, DestroyChan
<1>5. QED
  BY <1>3, <1>4

LEMMA HeapStep ==
    ASSUME IInv, ObjInv, HeapInv, [Next]_vars
    PROVE  HeapInv'
<1> USE ThreadsAssumption
    DEF Goto, queueVars, eventVars, ownerVars, loopVars, clientVars
<1>1. TInv /\ OwnerInv /\ cpc \in [Clients -> ClientStates]
  BY DEF IInv, TInv, TypeOK
<1>2. ASSUME NEW c \in Clients,
             \/ Async(c) \/ SyncLock(c) \/ SpuriousWakeup(c)
             \/ BreakRead(c) \/ BreakNow(c) \/ ClientSteps(c)
      PROVE  HeapInv'
  <2>1. CASE Async(c)
    BY <1>1, <2>1, HeapPost DEF Async
  <2>2. CASE BreakRead(c) \/ BreakNow(c)
    BY <1>1, <2>2, HeapCalm DEF BreakRead, BreakNow, Calls
  <2>3. CASE BreakPost(c)
    BY <1>1, <2>3, HeapPost DEF BreakPost
  <2>4. QED
    BY <1>1, <1>2, <2>1, <2>2, <2>3, HeapSync DEF ClientSteps
<1>3. CASE UNCHANGED vars
  BY <1>3, HeapCalm DEF vars
<1>4. CASE Join
  BY <1>1, <1>4, HeapPost DEF Join, Calls
<1>5. CASE DropBreak
  BY <1>1, <1>5, HeapPost DEF DropBreak
<1>6. CASE JoinReturn \/ DropUnarm
  BY <1>1, <1>6, HeapCalm DEF JoinReturn, DropUnarm, Drops, Calls
<1>7. CASE DropJoined \/ DropReturn
  BY <1>1, <1>7, HeapDestroy
<1>8. CASE Tick \/ PopEmpty \/ FuncReturn \/ Rearm \/ Exit \/ HostLoop
  BY <1>8, HeapCalm DEF Tick, PopEmpty, FuncReturn, Rearm, Exit, HostLoop
<1>9. CASE JoinObject
  BY <1>9, HeapCalm DEF JoinObject
<1>10. CASE FuncAsync
  BY <1>1, <1>10, HeapPost DEF FuncAsync
<1>11. CASE RunBreak \/ FuncBreak \/ EventBreak
  <2>1. UNCHANGED <<cur, cpc, obj>>
    BY <1>11 DEF RunBreak, FuncBreak, EventBreak
  <2>2. UNCHANGED queueVars \/ \E t \in Tasks : Post(t, "break")
    BY <1>11 DEF RunBreak, FuncBreak, EventBreak, LoopBreaks
  <2>3. QED
    BY <1>1, <2>1, <2>2, HeapCalm, HeapPost
<1>12. CASE Pop \/ Release
  BY <1>1, <1>12, HeapRun
<1>13. QED
  BY <1>2, <1>3, <1>4, <1>5, <1>6, <1>7, <1>8, <1>9, <1>10, <1>11, <1>12
     DEF Next, OwnerSteps, LoopSteps

\* ~DispatchQueue of an owned queue finishes after its loop has returned, and
\* leaves no DispatchObject behind.
THEOREM EndsClean == Spec => []CleanEnd
<1>1. IInv /\ ObjInv /\ EndInv => CleanEnd
  <2> SUFFICES ASSUME IInv, ObjInv, EndInv, dropped, ~Attached
               PROVE  wpc = "exited" /\ \A t \in Tasks : heap[t] # "alive"
    BY DEF CleanEnd
  <2>1. wpc = "exited"
    BY DEF IInv, OwnerInv
  <2>2. cur = NoTask
    BY <2>1 DEF ObjInv, CurLive, Holding
  <2>3. chan = <<>> /\ \A c \in Clients : cpc[c] # "push"
    BY DEF EndInv, QuietInv
  <2>4. Range(chan) = {}
    BY <2>3, EmptySeq DEF Range
  <2>5. QED
    BY <2>1, <2>2, <2>3, <2>4, NoTaskAssumption DEF EndInv, HeapInv
<1>2. IInv /\ ObjInv /\ EndInv /\ [Next]_vars => EndInv'
  BY HeapStep, QuietStepEnd DEF IInv, EndInv
<1>3. QED
  BY <1>1, <1>2, EndInvInit, Invariance, ObjInvariance, PTL DEF Spec

-----------------------------------------------------------------------------
(* A break on a loop that is not _pid's thread.                            *)

BreakQueued == \E t \in Range(chan) : kind[t] = "break"

\* The break run() is done with has posted the next one.
SpinInv ==
    Creator # Loop /\ ~loopbreak /\ ~dropped /\ wpc \in {"join", "release"}
        /\ kind[cur] = "break" => BreakQueued

\* An object keeps its kind while somebody may still touch it.
LEMMA KindStays ==
    ASSUME TInv, [Next]_vars, NEW t \in Tasks, heap[t] = "alive"
    PROVE  kind'[t] = kind[t]
<1> USE DEF TInv, TypeOK, queueVars, eventVars, ownerVars, loopVars, clientVars
<1>1. ASSUME NEW u \in Tasks, NEW k \in Kinds, New(u, k) PROVE kind'[t] = kind[t]
  BY <1>1 DEF New
<1>2. ASSUME NEW c \in Clients,
             \/ Async(c) \/ SyncLock(c) \/ SpuriousWakeup(c)
             \/ BreakRead(c) \/ BreakNow(c) \/ ClientSteps(c)
      PROVE  kind'[t] = kind[t]
  BY <1>1, <1>2 DEF Async, SyncLock, SpuriousWakeup, BreakRead, BreakNow, ClientSteps,
     SyncPush, SyncSleep, SyncRelock, SyncReturn, BreakPost, Post, Kinds
<1>3. CASE Join \/ DropBreak \/ FuncAsync
  BY <1>1, <1>3 DEF Join, DropBreak, FuncAsync, Post, Kinds
<1>4. CASE FuncBreak \/ EventBreak \/ RunBreak
  BY <1>1, <1>4 DEF FuncBreak, EventBreak, RunBreak, LoopBreaks, Post, Kinds
<1>5. CASE DropJoined \/ DropUnarm \/ JoinReturn \/ DropReturn \/ HostLoop \/ Tick \/ Pop
  BY <1>5 DEF DropJoined, DropUnarm, JoinReturn, DropReturn, HostLoop, Tick, Pop
<1>6. CASE PopEmpty \/ FuncReturn \/ JoinObject \/ Release \/ Rearm \/ Exit \/ UNCHANGED vars
  BY <1>6 DEF PopEmpty, FuncReturn, JoinObject, Release, Rearm, Exit, vars
<1> QED
  BY <1>2, <1>3, <1>4, <1>5, <1>6 DEF Next, OwnerSteps, LoopSteps

LEMMA RangeInTasks ==
    ASSUME TInv PROVE \A t \in Range(chan) : t \in Tasks
BY LenProperties, ElementOfSeq DEF TInv, TypeOK, Range

\* Until the queue is deleted only run() takes objects out of its channel.
LEMMA StaysQueued ==
    ASSUME TInv, [Next]_vars, ~Pop, ~dropped'
    PROVE  Range(chan) \subseteq Range(chan')
<1>1. CASE PushStep
  <2>1. PICK t \in Tasks : chan' = Append(chan, t)
    BY <1>1 DEF PushStep, Push
  <2> QED
    BY <2>1, RangeAppend DEF TInv, TypeOK
<1>2. CASE QuietStep
  BY <1>2 DEF QuietStep
<1> QED
  BY <1>1, <1>2, QueueSteps

LEMMA BreakStaysQueued ==
    ASSUME TInv, ObjInv, [Next]_vars, ~Pop, ~dropped', BreakQueued
    PROVE  BreakQueued'
<1>1. PICK t \in Range(chan) : kind[t] = "break"
  BY DEF BreakQueued
<1>2. t \in Tasks /\ heap[t] = "alive"
  BY RangeInTasks DEF ObjInv, ChanLive
<1>3. kind'[t] = "break" /\ t \in Range(chan')
  BY <1>1, <1>2, KindStays, StaysQueued
<1> QED
  BY <1>3 DEF BreakQueued

LEMMA BreakAgain ==
    ASSUME TInv, NEW t \in Tasks, Post(t, "break")
    PROVE  BreakQueued'
<1>1. kind'[t] = "break"
  BY DEF Post, New, TInv, TypeOK
<1>2. t \in Range(chan')
  BY RangeAppend DEF Post, Push, TInv, TypeOK
<1> QED
  BY <1>1, <1>2 DEF BreakQueued

\* Neither is ever taken back
LEMMA MarksStay ==
    ASSUME [Next]_vars PROVE (loopbreak => loopbreak') /\ (dropped => dropped')
<1> USE DEF queueVars, eventVars, ownerVars, loopVars, clientVars
<1>1. ASSUME NEW c \in Clients,
             \/ Async(c) \/ SyncLock(c) \/ SpuriousWakeup(c)
             \/ BreakRead(c) \/ BreakNow(c) \/ ClientSteps(c)
      PROVE  (loopbreak => loopbreak') /\ (dropped => dropped')
  BY <1>1 DEF Async, SyncLock, SpuriousWakeup, BreakRead, BreakNow, ClientSteps,
     SyncPush, SyncSleep, SyncRelock, SyncReturn, BreakPost
<1>2. CASE Join \/ DropBreak \/ FuncAsync
  BY <1>2 DEF Join, DropBreak, FuncAsync
<1>3. CASE FuncBreak \/ EventBreak \/ RunBreak
  BY <1>3 DEF FuncBreak, EventBreak, RunBreak, LoopBreaks
<1>4. CASE DropJoined \/ DropUnarm \/ DropReturn
  <2>1. dropped => dropped'
    BY <1>4 DEF DropJoined, DropUnarm, DropReturn, Destroy
  <2>2. loopbreak' = loopbreak
    BY <1>4 DEF DropJoined, DropUnarm, DropReturn
  <2> QED
    BY <2>1, <2>2
<1>6. CASE JoinReturn \/ HostLoop \/ Tick \/ Pop
  BY <1>6 DEF JoinReturn, HostLoop, Tick, Pop
<1>5. CASE PopEmpty \/ FuncReturn \/ JoinObject \/ Release \/ Rearm \/ Exit \/ UNCHANGED vars
  BY <1>5 DEF PopEmpty, FuncReturn, JoinObject, Release, Rearm, Exit, vars
<1> QED
  BY <1>1, <1>2, <1>3, <1>4, <1>5, <1>6 DEF Next, OwnerSteps, LoopSteps

LEMMA LoopStays ==
    ASSUME [Next]_vars
    PROVE  \/ UNCHANGED <<wpc, cur>>
           \/ UNCHANGED cur /\ wpc \notin {"func", "join", "release"}
                            /\ wpc' \notin {"func", "join", "release"}
           \/ Pop \/ RunBreak \/ FuncReturn \/ JoinObject \/ Release
<1> USE DEF queueVars, eventVars, ownerVars, loopVars, clientVars
<1>1. ASSUME NEW c \in Clients,
             \/ Async(c) \/ SyncLock(c) \/ SpuriousWakeup(c)
             \/ BreakRead(c) \/ BreakNow(c) \/ ClientSteps(c)
      PROVE  UNCHANGED <<wpc, cur>>
  BY <1>1 DEF Async, SyncLock, SpuriousWakeup, BreakRead, BreakNow, ClientSteps,
     SyncPush, SyncSleep, SyncRelock, SyncReturn, BreakPost
<1>2. CASE \/ Join \/ DropBreak \/ FuncAsync \/ FuncBreak \/ EventBreak
           \/ DropJoined \/ DropUnarm \/ JoinReturn \/ DropReturn \/ UNCHANGED vars
  BY <1>2 DEF Join, DropBreak, FuncAsync, FuncBreak, EventBreak, DropJoined, DropUnarm,
     JoinReturn, DropReturn, vars
<1>3. CASE HostLoop \/ Tick \/ PopEmpty \/ Rearm \/ Exit
  BY <1>3 DEF HostLoop, Tick, PopEmpty, Rearm, Exit
<1> QED
  BY <1>1, <1>2, <1>3 DEF Next, OwnerSteps, LoopSteps

LEMMA SpinStep ==
    ASSUME IInv, ObjInv, SpinInv, [Next]_vars
    PROVE  SpinInv'
<1> SUFFICES ASSUME Creator # Loop, ~loopbreak', ~dropped', wpc' \in {"join", "release"},
                    kind'[cur'] = "break"
             PROVE  BreakQueued'
  BY DEF SpinInv
<1>1. ~loopbreak /\ ~dropped
  BY MarksStay
<1>2. TInv
  BY DEF IInv
<1>3. CASE UNCHANGED cur /\ wpc \in {"join", "release"}
  <2>1. cur \in Tasks /\ heap[cur] = "alive" /\ ~Pop
    BY <1>2, <1>3 DEF TInv, ObjInv, CurLive, Holding, Pop
  <2>2. kind[cur] = "break"
    BY <1>2, <1>3, <2>1, KindStays
  <2>3. BreakQueued
    BY <1>1, <1>3, <2>2 DEF SpinInv
  <2> QED
    BY <1>2, <2>1, <2>3, BreakStaysQueued
<1>4. CASE RunBreak
  <2>1. PICK t \in Tasks : Post(t, "break")
    BY <1>1, <1>4 DEF RunBreak, LoopBreaks
  <2> QED
    BY <1>2, <2>1, BreakAgain
<1>5. CASE FuncReturn
  BY <1>5 DEF FuncReturn, queueVars
<1>6. CASE JoinObject
  BY <1>3, <1>6 DEF JoinObject
<1>7. CASE Pop \/ Release
  BY <1>7 DEF Pop, Release
<1> QED
  BY <1>3, <1>4, <1>5, <1>6, <1>7, LoopStays

\* A posted break stays posted until run() deletes it, and after that too when it
\* has posted the next one.
LEMMA PostedStays ==
    ASSUME TInv, ObjInv, [Next]_vars, BreakPosted, ~dropped',
           Release /\ kind[cur] = "break" => BreakQueued
    PROVE  BreakPosted'
<1>1. \A t \in Range(chan') : t \in Tasks
  <2>1. TInv'
    BY TInvStep
  <2>2. Range(chan') = Range(chan)' /\ chan' \in Seq(Tasks)
    BY <2>1 DEF TInv, TypeOK
  <2> QED
    BY <2>2, LenProperties, ElementOfSeq DEF Range
<1>2. BreakQueued' => BreakPosted'
  BY <1>1, NoTaskAssumption DEF BreakQueued, BreakPosted
<1>3. CASE BreakQueued
  <2>1. CASE ~Pop
    BY <1>2, <1>3, <2>1, BreakStaysQueued
  <2>2. CASE Pop
    <3>1. PICK t \in Range(chan) : kind[t] = "break"
      BY <1>3 DEF BreakQueued
    <3>2. t \in Tasks
      BY <3>1, RangeInTasks
    <3>3. chan # <<>> /\ chan' = Tail(chan) /\ cur' = Head(chan) /\ kind' = kind
      BY <2>2 DEF Pop
    <3>4. t = Head(chan) \/ t \in Range(Tail(chan))
      BY <3>1, <3>3, RangeTail DEF TInv, TypeOK, ObjInv, ChanLive
    <3> QED
      BY <3>1, <3>2, <3>3, <3>4, NoTaskAssumption DEF BreakPosted
  <2> QED
    BY <2>1, <2>2
<1>4. CASE ~BreakQueued
  <2>1. cur # NoTask /\ kind[cur] = "break"
    BY <1>4 DEF BreakQueued, BreakPosted
  <2>2. Holding /\ cur \in Tasks /\ heap[cur] = "alive"
    BY <2>1 DEF ObjInv, CurLive, Holding, TInv
  <2>3. ~Release /\ ~Pop
    BY <1>4, <2>1, <2>2 DEF Pop, Holding
  <2>4. cur' = cur
    BY <2>3, LoopStays DEF RunBreak, FuncReturn, JoinObject
  <2>5. kind'[cur] = "break"
    BY <2>1, <2>2, KindStays
  <2> QED
    BY <2>1, <2>4, <2>5 DEF BreakPosted
<1> QED
  BY <1>3, <1>4

\* On a loop that is not _pid's thread a posted break is posted again each time
\* it is run, so run() does not return until the queue is broken by that thread.
LEMMA SpinsOn ==
    ASSUME IInv, ObjInv, SpinInv, [Next]_vars, BreakPosted, Creator # Loop,
           ~loopbreak', ~dropped'
    PROVE  BreakPosted'
<1>1. ~loopbreak /\ ~dropped /\ TInv
  BY MarksStay DEF IInv
<1>2. Release /\ kind[cur] = "break" => BreakQueued
  BY <1>1 DEF SpinInv, Release
<1> QED
  BY <1>1, <1>2, PostedStays

\* A queue whose loop does not run on the thread in _pid never finishes a break
\* that was posted to it: the break is posted again until _pid's thread makes one
\* itself, or the queue is deleted (kk-dispatch.cc, loopbreak()).
THEOREM ForeignBreakKept == Spec => ForeignBreakSpins
<1>1. Init => SpinInv
  BY DEF Init, SpinInv
<1>2. Spec => []SpinInv
  BY <1>1, SpinStep, Invariance, ObjInvariance, PTL DEF Spec
<1>3. IInv /\ ObjInv /\ SpinInv /\ [Next]_vars =>
        [BreakPosted /\ Creator # Loop /\ ~(loopbreak' \/ dropped') => BreakPosted']_vars
  BY SpinsOn
<1> QED
  BY <1>2, <1>3, Invariance, ObjInvariance, PTL DEF Spec, ForeignBreakSpins

-----------------------------------------------------------------------------
(* The two waits of the owner: join(), whose break is always on its way,   *)
(* and ~DispatchQueue on a queue nobody joined, which may wait for ever.   *)

\* An owned queue's loop runs on _pid's thread and nothing clears its break flag,
\* so a break that was run, by anybody, is there for the loop to see.
OwnedBreak ==
    ~Attached =>
        /\ loopbreak <=> evbreak
        /\ wpc \in {"join", "release"} /\ kind[cur] = "break" => loopbreak

JoinInv == OwnedBreak /\ (cpc[Owner] = "joining" => loopbreak \/ BreakPosted)

\* A step of one's own making leaves the flags alone, or is loopbreak() on the
\* thread in _pid, or is the host's loop clearing the flag of its base.
LEMMA FlagSteps ==
    ASSUME [Next]_vars
    PROVE  \/ UNCHANGED <<loopbreak, evbreak>>
           \/ loopbreak' /\ evbreak'
           \/ Attached
<1> USE DEF queueVars, eventVars, ownerVars, loopVars, clientVars
<1>1. ASSUME NEW c \in Clients,
             \/ Async(c) \/ SyncLock(c) \/ SpuriousWakeup(c)
             \/ BreakRead(c) \/ BreakNow(c) \/ ClientSteps(c)
      PROVE  UNCHANGED <<loopbreak, evbreak>> \/ (loopbreak' /\ evbreak')
  BY <1>1 DEF Async, SyncLock, SpuriousWakeup, BreakRead, BreakNow, ClientSteps,
     SyncPush, SyncSleep, SyncRelock, SyncReturn, BreakPost
<1>2. CASE FuncBreak \/ EventBreak \/ RunBreak
  BY <1>2 DEF FuncBreak, EventBreak, RunBreak, LoopBreaks
<1>3. CASE Join \/ DropBreak \/ FuncAsync \/ DropJoined \/ DropUnarm \/ DropReturn \/ JoinReturn
  BY <1>3 DEF Join, DropBreak, FuncAsync, DropJoined, DropUnarm, DropReturn, JoinReturn
<1>4. CASE HostLoop
  BY <1>4 DEF HostLoop
<1>5. CASE Tick \/ Pop \/ PopEmpty \/ FuncReturn \/ JoinObject \/ Release \/ Rearm \/ Exit
  BY <1>5 DEF Tick, Pop, PopEmpty, FuncReturn, JoinObject, Release, Rearm, Exit
<1>6. CASE UNCHANGED vars
  BY <1>6 DEF vars
<1> QED
  BY <1>1, <1>2, <1>3, <1>4, <1>5, <1>6 DEF Next, OwnerSteps, LoopSteps

LEMMA OwnedBreakStep ==
    ASSUME TInv, ObjInv, OwnedBreak, [Next]_vars
    PROVE  OwnedBreak'
<1> SUFFICES ASSUME ~Attached PROVE OwnedBreak'
  BY DEF OwnedBreak
<1>1. (loopbreak <=> evbreak)'
  BY FlagSteps DEF OwnedBreak
<1>2. ASSUME wpc' \in {"join", "release"}, kind'[cur'] = "break", ~loopbreak'
      PROVE  FALSE
  <2>1. ~loopbreak
    BY <1>2, MarksStay
  <2>2. CASE UNCHANGED cur /\ wpc \in {"join", "release"}
    <3>1. cur \in Tasks /\ heap[cur] = "alive"
      BY <2>2 DEF TInv, ObjInv, CurLive, Holding
    <3>2. kind[cur] = "break"
      BY <1>2, <2>2, <3>1, KindStays
    <3> QED
      BY <2>1, <2>2, <3>2 DEF OwnedBreak
  <2>3. CASE RunBreak
    BY <1>2, <2>1, <2>3, ModeAssumption DEF RunBreak, LoopBreaks
  <2>4. CASE FuncReturn
    BY <1>2, <2>4 DEF FuncReturn, queueVars
  <2>5. CASE JoinObject
    BY <2>2, <2>5 DEF JoinObject
  <2>6. CASE Pop \/ Release
    BY <1>2, <2>6 DEF Pop, Release
  <2> QED
    BY <1>2, <2>2, <2>3, <2>4, <2>5, <2>6, LoopStays
<1> QED
  BY <1>1, <1>2 DEF OwnedBreak

\* Only Join sends the owner to its wait.
LEMMA JoinStarts ==
    ASSUME TInv, [Next]_vars, cpc'[Owner] = "joining"
    PROVE  cpc[Owner] = "joining" \/ Join
<1> USE ThreadsAssumption DEF TInv, TypeOK, Goto, queueVars, eventVars, ownerVars,
        loopVars, clientVars
<1>1. ASSUME NEW c \in Clients,
             \/ Async(c) \/ SyncLock(c) \/ SpuriousWakeup(c)
             \/ BreakRead(c) \/ BreakNow(c) \/ ClientSteps(c)
      PROVE  cpc[Owner] = "joining"
  BY <1>1 DEF Async, SyncLock, SpuriousWakeup, BreakRead, BreakNow, ClientSteps,
     SyncPush, SyncSleep, SyncRelock, SyncReturn, BreakPost
<1>2. CASE DropJoined \/ DropUnarm \/ OwnerSteps
  BY <1>2 DEF DropJoined, DropUnarm, OwnerSteps, JoinReturn, DropBreak, DropReturn
<1>3. CASE FuncAsync \/ FuncBreak \/ EventBreak \/ RunBreak \/ HostLoop
  BY <1>3 DEF FuncAsync, FuncBreak, EventBreak, RunBreak, HostLoop
<1>4. CASE Tick \/ Pop \/ PopEmpty \/ FuncReturn \/ Release \/ Rearm \/ Exit
  BY <1>4 DEF Tick, Pop, PopEmpty, FuncReturn, Release, Rearm, Exit
<1>5. CASE JoinObject
  BY <1>5 DEF JoinObject
<1>6. CASE UNCHANGED vars
  BY <1>6 DEF vars
<1> QED
  BY <1>1, <1>2, <1>3, <1>4, <1>5, <1>6 DEF Next, LoopSteps

LEMMA JoinInvStep ==
    ASSUME IInv, ObjInv, JoinInv, [Next]_vars
    PROVE  JoinInv'
<1>1. TInv
  BY DEF IInv
<1>2. OwnedBreak'
  BY <1>1, OwnedBreakStep DEF JoinInv
<1>3. ASSUME cpc'[Owner] = "joining", ~loopbreak' PROVE BreakPosted'
  <2>1. TInv' /\ OwnerInv'
    BY TInvStep, OwnerStep DEF IInv
  <2>2. ~dropped' /\ ~Attached
    BY <1>3, <2>1 DEF OwnerInv, OwnerWaits
  <2>3. CASE cpc[Owner] = "joining"
    <3>1. BreakPosted
      BY <1>3, <2>3, MarksStay DEF JoinInv
    <3>2. Release => kind[cur] # "break"
      BY <1>3, <2>2, MarksStay DEF JoinInv, OwnedBreak, Release
    <3> QED
      BY <1>1, <2>2, <3>1, <3>2, PostedStays
  <2>4. CASE Join
    <3>1. BreakQueued'
      BY <1>1, <2>4, BreakAgain DEF Join
    <3>2. \A t \in Range(chan') : t \in Tasks
      <4>1. Range(chan') = Range(chan)' /\ chan' \in Seq(Tasks)
        BY <2>1 DEF TInv, TypeOK
      <4> QED
        BY <4>1, LenProperties, ElementOfSeq DEF Range
    <3> QED
      BY <3>1, <3>2, NoTaskAssumption DEF BreakQueued, BreakPosted
  <2> QED
    BY <1>1, <1>3, <2>3, <2>4, JoinStarts
<1> QED
  BY <1>2, <1>3 DEF JoinInv

\* While join() waits, its break is on its way: the loop has been broken, or the
\* break is queued or running and the timer that leads run() to it is kept.
JoinAwaited ==
    cpc[Owner] = "joining" =>
        \/ evbreak
        \/ BreakPosted /\ (armed \/ wpc \notin {"loop", "exited"})

\* join() never waits for a loop that nothing will break any more.
THEOREM JoinNeverStuck == Spec => []JoinAwaited
<1>1. Init => JoinInv
  BY ThreadsAssumption DEF Init, JoinInv, OwnedBreak
<1>2. Spec => []JoinInv
  BY <1>1, JoinInvStep, Invariance, ObjInvariance, PTL DEF Spec
<1>3. IInv /\ TimerInv /\ JoinInv => JoinAwaited
  <2> SUFFICES ASSUME IInv, TimerInv, JoinInv, cpc[Owner] = "joining", ~evbreak
               PROVE  BreakPosted /\ (armed \/ wpc \notin {"loop", "exited"})
    BY DEF JoinAwaited
  <2>1. ~dropped /\ ~Attached /\ ~Dropping
    BY DEF IInv, OwnerInv, OwnerWaits, Dropping
  <2>2. ~loopbreak
    BY <2>1 DEF JoinInv, OwnedBreak
  <2> QED
    BY <2>1, <2>2 DEF JoinInv, TimerInv, TimerKept
<1>4. IInv => TInv
  BY DEF IInv
<1> QED
  BY <1>2, <1>3, <1>4, TimerInvInit, TimerInvStep, Invariance, PTL DEF Spec

\* A destructor that waits on an idle loop whose timer it has deleted goes on
\* waiting until somebody else breaks the queue.
LEMMA HungStep ==
    ASSUME TInv, OwnerInv, [Next]_vars, Hung
    PROVE  Hung' \/ loopbreak'
<1>1. ~Attached
  BY DEF OwnerInv, OwnerWaits, Hung
<1> USE ThreadsAssumption DEF Hung, Goto, TInv, TypeOK, queueVars, eventVars, ownerVars,
        loopVars, clientVars
<1>2. ASSUME NEW c \in Clients,
             \/ Async(c) \/ SyncLock(c) \/ SpuriousWakeup(c)
             \/ BreakRead(c) \/ BreakNow(c) \/ ClientSteps(c)
      PROVE  Hung'
  <2>1. SpuriousWakeup(c) \/ ClientSteps(c)
    BY <1>2 DEF Async, SyncLock, BreakRead, BreakNow, Calls, Dropping
  <2> QED
    BY <2>1 DEF SpuriousWakeup, ClientSteps, SyncPush, SyncSleep, SyncRelock, SyncReturn,
       BreakPost
<1>3. ~(Join \/ DropJoined \/ DropUnarm \/ OwnerSteps)
  BY DEF Join, DropJoined, DropUnarm, OwnerSteps, JoinReturn, DropBreak, DropReturn, Drops,
     Calls
<1>4. ~(FuncAsync \/ FuncBreak \/ LoopSteps \/ HostLoop)
  BY <1>1 DEF FuncAsync, FuncBreak, LoopSteps, Tick, Pop, PopEmpty, RunBreak, FuncReturn,
     JoinObject, Release, Rearm, Exit, HostLoop
<1>5. CASE EventBreak
  BY <1>1, <1>5, ModeAssumption DEF EventBreak, LoopBreaks
<1>6. CASE UNCHANGED vars
  BY <1>6 DEF vars
<1> QED
  BY <1>2, <1>3, <1>4, <1>5, <1>6 DEF Next

\* ~DispatchQueue on a queue nobody joined deletes the timer before it posts the
\* break, so only a callback that breaks the base from elsewhere can end it.
THEOREM UnjoinedStaysHung == Spec => UnjoinedHangs
<1>1. IInv /\ [Next]_vars => [Hung => Hung' \/ loopbreak']_vars
  BY HungStep DEF IInv
<1> QED
  BY <1>1, Invariance, PTL DEF Spec, UnjoinedHangs

-----------------------------------------------------------------------------
(* Exactly once: nothing pushed is lost, and nothing is run twice.         *)

\* An object is pushed once: none is pushed before it is allocated, and a sync()
\* caller's object enters the channel by that caller's push only.
PushedInv ==
    /\ \A i, j \in 1 .. Len(pushed) : pushed[i] = pushed[j] => i = j
    /\ \A i \in 1 .. Len(pushed) : heap[pushed[i]] # "none"
    /\ \A c \in Clients : cpc[c] = "push" => \A i \in 1 .. Len(pushed) : pushed[i] # obj[c]

\* No step makes a client ready to push but SyncLock.
PushersStay == \A c \in Clients : cpc'[c] = "push" => cpc[c] = "push" /\ obj'[c] = obj[c]

FreshPush == \E t \in Tasks : heap[t] = "none" /\ heap'[t] = "alive" /\ pushed' = Append(pushed, t)

LEMMA PushSteps ==
    ASSUME TInv, [Next]_vars
    PROVE  \/ PushersStay /\ (UNCHANGED pushed \/ FreshPush)
           \/ \E c \in Clients : SyncPush(c) \/ SyncLock(c)
<1> USE ThreadsAssumption DEF TInv, TypeOK, Goto, queueVars, eventVars, ownerVars,
        loopVars, clientVars
<1>1. ASSUME NEW t \in Tasks, NEW k, Post(t, k) PROVE FreshPush
  BY <1>1 DEF Post, New, Push, FreshPush
<1>2. ASSUME UNCHANGED cpc, UNCHANGED obj PROVE PushersStay
  BY <1>2 DEF PushersStay
<1>3. ASSUME NEW c \in Clients,
             \/ Async(c) \/ SpuriousWakeup(c) \/ BreakRead(c) \/ BreakNow(c)
             \/ SyncSleep(c) \/ SyncRelock(c) \/ SyncReturn(c) \/ BreakPost(c)
      PROVE  PushersStay /\ (UNCHANGED pushed \/ FreshPush)
  <2>1. PushersStay
    BY <1>3 DEF Async, SpuriousWakeup, BreakRead, BreakNow, SyncSleep, SyncRelock,
       SyncReturn, BreakPost, PushersStay
  <2>2. UNCHANGED pushed \/ FreshPush
    BY <1>1, <1>3 DEF Async, SpuriousWakeup, BreakRead, BreakNow, SyncSleep, SyncRelock,
       SyncReturn, BreakPost
  <2> QED
    BY <2>1, <2>2
<1>4. CASE Join \/ DropBreak \/ DropUnarm \/ DropJoined \/ DropReturn \/ JoinReturn
  <2>1. PushersStay
    BY <1>4 DEF Join, DropBreak, DropUnarm, DropJoined, DropReturn, JoinReturn, PushersStay
  <2>2. UNCHANGED pushed \/ FreshPush
    BY <1>1, <1>4 DEF Join, DropBreak, DropUnarm, DropJoined, DropReturn, JoinReturn
  <2> QED
    BY <2>1, <2>2
<1>5. CASE FuncAsync \/ FuncBreak \/ EventBreak \/ RunBreak
  <2>1. PushersStay
    BY <1>2, <1>5 DEF FuncAsync, FuncBreak, EventBreak, RunBreak
  <2>2. UNCHANGED pushed \/ FreshPush
    BY <1>1, <1>5 DEF FuncAsync, FuncBreak, EventBreak, RunBreak, LoopBreaks
  <2> QED
    BY <2>1, <2>2
<1>6. CASE HostLoop \/ Tick \/ Pop \/ PopEmpty \/ FuncReturn \/ Release \/ Rearm \/ Exit
  BY <1>2, <1>6 DEF HostLoop, Tick, Pop, PopEmpty, FuncReturn, Release, Rearm, Exit
<1>7. CASE JoinObject
  BY <1>7 DEF JoinObject, PushersStay
<1>8. CASE UNCHANGED vars
  BY <1>2, <1>8 DEF vars
<1> QED
  BY <1>3, <1>4, <1>5, <1>6, <1>7, <1>8 DEF Next, ClientSteps, OwnerSteps, LoopSteps

\* An object that was allocated stays allocated, or deleted.
LEMMA HeapGrows ==
    ASSUME TInv, [Next]_vars, NEW t \in Tasks, heap[t] # "none"
    PROVE  heap'[t] # "none"
<1> USE DEF TInv, TypeOK, queueVars, eventVars, ownerVars, loopVars, clientVars
<1>1. ASSUME NEW u \in Tasks, NEW k, New(u, k) PROVE heap'[t] # "none"
  BY <1>1 DEF New
<1>2. ASSUME NEW c \in Clients,
             \/ Async(c) \/ SyncLock(c) \/ SpuriousWakeup(c)
             \/ BreakRead(c) \/ BreakNow(c) \/ ClientSteps(c)
      PROVE  heap'[t] # "none"
  BY <1>1, <1>2 DEF Async, SyncLock, SpuriousWakeup, BreakRead, BreakNow, ClientSteps,
     SyncPush, SyncSleep, SyncRelock, SyncReturn, BreakPost, Post
<1>3. CASE Join \/ DropBreak \/ FuncAsync \/ FuncBreak \/ EventBreak \/ RunBreak
  BY <1>1, <1>3 DEF Join, DropBreak, FuncAsync, FuncBreak, EventBreak, RunBreak, LoopBreaks,
     Post
<1>4. CASE DropJoined \/ DropReturn
  BY <1>4 DEF DropJoined, DropReturn, Destroy, DestroyChan
<1>5. CASE DropUnarm \/ JoinReturn \/ HostLoop \/ Tick \/ Pop \/ PopEmpty \/ FuncReturn
  BY <1>5 DEF DropUnarm, JoinReturn, HostLoop, Tick, Pop, PopEmpty, FuncReturn
<1>6. CASE JoinObject \/ Rearm \/ Exit \/ UNCHANGED vars
  BY <1>6 DEF JoinObject, Rearm, Exit, vars
<1>7. CASE Release
  BY <1>7 DEF Release, ReleaseObject
<1> QED
  BY <1>2, <1>3, <1>4, <1>5, <1>6, <1>7 DEF Next, OwnerSteps, LoopSteps

\* Pushing an object that was never pushed keeps the history free of repetitions.
LEMMA PushNew ==
    ASSUME NEW S, NEW s \in Seq(S), NEW t \in S,
           \A i, j \in 1 .. Len(s) : s[i] = s[j] => i = j,
           \A i \in 1 .. Len(s) : s[i] # t
    PROVE  \A i, j \in 1 .. Len(Append(s, t)) :
               Append(s, t)[i] = Append(s, t)[j] => i = j
OBVIOUS

LEMMA PushedInvStep ==
    ASSUME TInv, ObjInv, PushedInv, [Next]_vars
    PROVE  PushedInv'
<1>1. /\ pushed \in Seq(Tasks) /\ Len(pushed) \in Nat
      /\ \A i \in 1 .. Len(pushed) : pushed[i] \in Tasks
  BY LenProperties, ElementOfSeq DEF TInv, TypeOK
<1>2. \A i \in 1 .. Len(pushed) : heap'[pushed[i]] # "none"
  BY <1>1, HeapGrows DEF PushedInv
<1>3. ASSUME UNCHANGED pushed, PushersStay PROVE PushedInv'
  BY <1>2, <1>3 DEF PushedInv, PushersStay
<1>4. ASSUME NEW t \in Tasks, pushed' = Append(pushed, t), heap'[t] # "none",
             \A i \in 1 .. Len(pushed) : pushed[i] # t,
             \A c \in Clients : cpc'[c] = "push" =>
                 cpc[c] = "push" /\ obj'[c] = obj[c] /\ obj[c] # t
      PROVE  PushedInv'
  <2>1. /\ Len(pushed') = Len(pushed) + 1
        /\ \A i \in 1 .. Len(pushed) : pushed'[i] = pushed[i]
        /\ pushed'[Len(pushed) + 1] = t
    BY <1>1, <1>4
  <2>2. \A i \in 1 .. Len(pushed') : i \in 1 .. Len(pushed) \/ i = Len(pushed) + 1
    BY <1>1, <2>1
  <2>3. \A i, j \in 1 .. Len(pushed') : pushed'[i] = pushed'[j] => i = j
    BY <1>1, <1>4, PushNew DEF PushedInv
  <2>4. \A i \in 1 .. Len(pushed') : heap'[pushed'[i]] # "none"
    BY <1>2, <1>4, <2>1, <2>2
  <2>5. \A c \in Clients : cpc'[c] = "push" => \A i \in 1 .. Len(pushed') : pushed'[i] # obj'[c]
    BY <1>4, <2>1, <2>2 DEF PushedInv
  <2> QED
    BY <2>3, <2>4, <2>5 DEF PushedInv
<1>5. CASE PushersStay /\ FreshPush
  <2>1. PICK t \in Tasks : heap[t] = "none" /\ heap'[t] = "alive" /\ pushed' = Append(pushed, t)
    BY <1>5 DEF FreshPush
  <2>2. \A c \in Clients : cpc[c] = "push" => obj[c] # t
    BY <2>1 DEF ObjInv, SyncLive
  <2>3. \A i \in 1 .. Len(pushed) : pushed[i] # t
    BY <2>1 DEF PushedInv
  <2> QED
    BY <1>4, <1>5, <2>1, <2>2, <2>3 DEF PushersStay
<1>6. ASSUME NEW c \in Clients, SyncPush(c) PROVE PushedInv'
  <2>1. /\ obj[c] \in Tasks /\ pushed' = Append(pushed, obj[c])
        /\ heap' = heap /\ heap[obj[c]] = "alive" /\ obj' = obj
        /\ \A d \in Clients : cpc'[d] = "push" => d # c /\ cpc[d] = "push"
    BY <1>6 DEF SyncPush, Push, TInv, TypeOK, InSync, ObjInv, SyncLive, Goto
  <2>2. \A d \in Clients : cpc'[d] = "push" => obj[d] # obj[c]
    BY <1>6, <2>1 DEF SyncPush, ObjInv, SyncLive, InSync
  <2>3. \A i \in 1 .. Len(pushed) : pushed[i] # obj[c]
    BY <1>6 DEF SyncPush, PushedInv
  <2> QED
    BY <1>4, <2>1, <2>2, <2>3
<1>7. ASSUME NEW c \in Clients, SyncLock(c) PROVE PushedInv'
  <2>1. PICK t \in Tasks : New(t, "sync") /\ obj' = [obj EXCEPT ![c] = t]
    BY <1>7 DEF SyncLock
  <2>2. heap[t] = "none" /\ obj'[c] = t /\ pushed' = pushed
    BY <1>7, <2>1 DEF SyncLock, New, TInv, TypeOK
  <2>3. \A d \in Clients \ {c} : cpc'[d] = cpc[d] /\ obj'[d] = obj[d]
    BY <1>7, <2>1 DEF SyncLock, Goto, TInv, TypeOK
  <2>4. \A i \in 1 .. Len(pushed) : pushed[i] # t
    BY <2>2 DEF PushedInv
  <2>5. \A d \in Clients : cpc'[d] = "push" => \A i \in 1 .. Len(pushed) : pushed[i] # obj'[d]
    BY <2>2, <2>3, <2>4 DEF PushedInv
  <2> QED
    BY <1>2, <2>2, <2>5 DEF PushedInv
<1> QED
  BY <1>3, <1>5, <1>6, <1>7, PushSteps

\* What was pushed is in the channel or was started, and nothing is started twice.
ExactlyOnce ==
    /\ ~dropped => Range(pushed) = Range(started) \union Range(chan)
    /\ \A i, j \in 1 .. Len(started) : started[i] = started[j] => i = j

\* Every object pushed waits in the channel until run() starts it, for as long as
\* the queue exists, and run() starts none twice (kk-chan.cc, run()).
THEOREM RunsExactlyOnce == Spec => []ExactlyOnce
<1>1. Init => PushedInv
  <2>1. Len(<<>>) = 0
    BY EmptySeq
  <2> QED
    BY <2>1 DEF Init, PushedInv
<1>2. Spec => []PushedInv
  <2>1. IInv => TInv
    BY DEF IInv
  <2> QED
    BY <1>1, <2>1, PushedInvStep, Invariance, ObjInvariance, PTL DEF Spec
<1>3. IInv /\ PushedInv => ExactlyOnce
  <2> SUFFICES ASSUME IInv, PushedInv PROVE ExactlyOnce
    OBVIOUS
  <2>1. /\ Len(pushed) \in Nat /\ Len(started) \in Nat /\ Len(chan) \in Nat
        /\ DOMAIN pushed = 1 .. Len(pushed) /\ DOMAIN started = 1 .. Len(started)
        /\ DOMAIN chan = 1 .. Len(chan)
    BY LenProperties DEF IInv, TInv, TypeOK
  <2>2. /\ Len(started) <= Len(pushed)
        /\ \A i \in 1 .. Len(started) : i \in 1 .. Len(pushed) /\ started[i] = pushed[i]
    <3>1. Len(started) <= Len(pushed) /\ \A i \in 1 .. Len(started) : started[i] = pushed[i]
      BY DEF IInv, OrderInv
    <3>2. \A i \in 1 .. Len(started) : i \in 1 .. Len(pushed)
      BY <2>1, <3>1
    <3> QED
      BY <3>1, <3>2
  <2>3. ASSUME ~dropped PROVE Range(pushed) = Range(started) \union Range(chan)
    <3>1. /\ Len(pushed) = Len(started) + Len(chan)
          /\ \A i \in 1 .. Len(chan) : chan[i] = pushed[Len(started) + i]
      BY <2>3 DEF IInv, OrderInv
    <3>2. ASSUME NEW i \in 1 .. Len(pushed) PROVE pushed[i] \in Range(started) \union Range(chan)
      <4>1. CASE i <= Len(started)
        BY <2>1, <2>2, <4>1 DEF Range
      <4>2. CASE ~(i <= Len(started))
        <5>1. i - Len(started) \in 1 .. Len(chan) /\ Len(started) + (i - Len(started)) = i
          BY <2>1, <3>1, <4>2
        <5>2. chan[i - Len(started)] = pushed[i]
          BY <3>1, <5>1
        <5> QED
          BY <2>1, <5>1, <5>2 DEF Range
      <4> QED
        BY <4>1, <4>2
    <3>3. ASSUME NEW i \in 1 .. Len(chan) PROVE chan[i] \in Range(pushed)
      <4>1. Len(started) + i \in 1 .. Len(pushed)
        BY <2>1, <3>1
      <4> QED
        BY <2>1, <3>1, <4>1 DEF Range
    <3> QED
      BY <2>1, <2>2, <3>2, <3>3 DEF Range
  <2>4. \A i, j \in 1 .. Len(started) : started[i] = started[j] => i = j
    BY <2>2 DEF PushedInv
  <2> QED
    BY <2>3, <2>4 DEF ExactlyOnce
<1> QED
  BY <1>2, <1>3, Invariance, PTL
=============================================================================
