------------------------ MODULE DispatchQueueProofs ------------------------
(***************************************************************************)
(* What DispatchQueue guarantees for every set of clients and tasks, owned *)
(* or attached.                                                            *)
(***************************************************************************)
EXTENDS DispatchQueue, SequenceTheorems, TLAPS

-----------------------------------------------------------------------------
(* Type correctness.  A sync() caller between its allocation and its return *)
(* has an object, and run() has one between its pop and its release.        *)

InSync(c) == cpc[c] \in {"push", "wait", "asleep", "woken", "unlock"}

TInv ==
    /\ TypeOK
    /\ \A c \in Clients : InSync(c) => obj[c] \in Tasks
    /\ wpc \in {"func", "join", "release"} => cur \in Tasks

\* Pushing keeps the channel and its history sequences of tasks.
LEMMA PushType ==
    ASSUME chan \in Seq(Tasks), pushed \in Seq(Tasks), NEW t \in Tasks, Push(t)
    PROVE  chan' \in Seq(Tasks) /\ pushed' \in Seq(Tasks)
BY DEF Push

\* A post is well typed, whatever its kind.
LEMMA PostType ==
    ASSUME chan \in Seq(Tasks), pushed \in Seq(Tasks),
           heap \in [Tasks -> {"none", "alive", "freed"}], kind \in [Tasks -> Kinds],
           NEW t \in Tasks, NEW k \in Kinds, Post(t, k)
    PROVE  /\ chan' \in Seq(Tasks) /\ pushed' \in Seq(Tasks)
           /\ heap' \in [Tasks -> {"none", "alive", "freed"}]
           /\ kind' \in [Tasks -> Kinds]
BY PushType DEF Post, New

LEMMA TInvInit == Init => TInv
<1> SUFFICES ASSUME Init PROVE TInv
  OBVIOUS
<1>1. <<>> \in Seq(Tasks)
  BY EmptySeq
<1>2. TypeOK
  BY <1>1 DEF Init, TypeOK, Kinds, LoopStates, ClientStates
<1>3. QED
  BY <1>2 DEF Init, TInv, InSync

LEMMA TInvClient ==
    ASSUME TInv, NEW c \in Clients,
           \/ Async(c) \/ SyncLock(c) \/ SpuriousWakeup(c)
           \/ BreakRead(c) \/ BreakNow(c) \/ ClientSteps(c)
    PROVE  TInv'
<1> USE DEF TInv, InSync, LoopStates, ClientStates, queueVars, eventVars,
            ownerVars, loopVars, clientVars, Goto
<1>1. CASE Async(c)
  BY <1>1, PostType DEF Async, TypeOK, Kinds
<1>2. CASE SyncLock(c)
  BY <1>2 DEF SyncLock, TypeOK, Kinds, New
<1>3. CASE SpuriousWakeup(c)
  BY <1>3 DEF SpuriousWakeup, TypeOK
<1>4. CASE BreakRead(c)
  BY <1>4 DEF BreakRead, TypeOK
<1>5. CASE BreakNow(c)
  BY <1>5 DEF BreakNow, TypeOK
<1>6. CASE SyncPush(c)
  BY <1>6, PushType DEF SyncPush, TypeOK
<1>7. CASE SyncSleep(c)
  BY <1>7 DEF SyncSleep, TypeOK
<1>8. CASE SyncRelock(c)
  BY <1>8 DEF SyncRelock, TypeOK
<1>9. CASE SyncReturn(c)
  BY <1>9 DEF SyncReturn, TypeOK
<1>10. CASE BreakPost(c)
  BY <1>10, PostType DEF BreakPost, TypeOK, Kinds
<1>11. QED
  BY <1>1, <1>2, <1>3, <1>4, <1>5, <1>6, <1>7, <1>8, <1>9, <1>10 DEF ClientSteps

LEMMA TInvOwner ==
    ASSUME TInv, Join \/ DropJoined \/ DropUnarm \/ OwnerSteps
    PROVE  TInv'
<1> USE ThreadsAssumption
    DEF TInv, InSync, LoopStates, ClientStates, queueVars, eventVars,
        ownerVars, loopVars, clientVars, Goto
<1>1. ASSUME DestroyChan PROVE chan' \in Seq(Tasks) /\ heap' \in [Tasks -> {"none", "alive", "freed"}]
  BY <1>1, EmptySeq DEF DestroyChan, TypeOK
<1>2. CASE Join
  BY <1>2, PostType DEF Join, TypeOK, Kinds
<1>3. CASE DropJoined
  BY <1>1, <1>3 DEF DropJoined, Destroy, TypeOK
<1>4. CASE DropUnarm
  BY <1>4 DEF DropUnarm, TypeOK
<1>5. CASE JoinReturn
  BY <1>5 DEF JoinReturn, TypeOK
<1>6. CASE DropBreak
  BY <1>6, PostType DEF DropBreak, TypeOK, Kinds
<1>7. CASE DropReturn
  BY <1>1, <1>7 DEF DropReturn, Destroy, TypeOK
<1>8. QED
  BY <1>2, <1>3, <1>4, <1>5, <1>6, <1>7 DEF OwnerSteps

\* loopbreak() on the loop thread leaves what it writes well typed.
LEMMA LoopBreaksType ==
    ASSUME TypeOK, NEW inRun \in BOOLEAN, LoopBreaks(inRun)
    PROVE  /\ chan' \in Seq(Tasks) /\ pushed' \in Seq(Tasks)
           /\ heap' \in [Tasks -> {"none", "alive", "freed"}]
           /\ kind' \in [Tasks -> Kinds]
           /\ loopbreak' \in BOOLEAN /\ evbreak' \in BOOLEAN
           /\ due' \in Nat
<1>1. Len(pushed) \in Nat
  BY LenProperties DEF TypeOK
<1>2. "break" \in Kinds
  BY DEF Kinds
<1>3. CASE loopbreak /\ UNCHANGED <<queueVars, loopbreak, evbreak, due>>
  BY <1>3 DEF TypeOK, queueVars
<1>4. CASE /\ loopbreak' = TRUE /\ evbreak' = TRUE
           /\ due' = (IF inRun THEN Len(pushed) ELSE 0)
           /\ UNCHANGED queueVars
  BY <1>1, <1>4 DEF TypeOK, queueVars
<1>5. CASE /\ \E t \in Tasks : Post(t, "break")
           /\ UNCHANGED <<loopbreak, evbreak, due>>
  BY <1>2, <1>5, PostType DEF TypeOK
<1>6. QED
  BY <1>3, <1>4, <1>5 DEF LoopBreaks

LEMMA TInvLoop ==
    ASSUME TInv, LoopSteps \/ HostLoop \/ FuncAsync \/ FuncBreak \/ EventBreak
    PROVE  TInv'
<1> USE DEF TInv, InSync, LoopStates, ClientStates, queueVars, eventVars,
            ownerVars, loopVars, clientVars
<1>1. CASE Tick
  BY <1>1 DEF Tick, TypeOK
<1>2. CASE Pop
  BY <1>2, HeadTailProperties DEF Pop, TypeOK
<1>3. CASE PopEmpty
  BY <1>3 DEF PopEmpty, TypeOK
<1>4. CASE RunBreak
  BY <1>4, LoopBreaksType DEF RunBreak, TypeOK
<1>5. CASE FuncReturn
  BY <1>5 DEF FuncReturn, TypeOK
<1>6. CASE JoinObject
  BY <1>6 DEF JoinObject, TypeOK
<1>7. CASE Release
  BY <1>7 DEF Release, ReleaseObject, TypeOK
<1>8. CASE Rearm
  BY <1>8 DEF Rearm, TypeOK
<1>9. CASE Exit
  BY <1>9 DEF Exit, TypeOK
<1>10. CASE HostLoop
  BY <1>10 DEF HostLoop, TypeOK
<1>11. CASE FuncAsync
  BY <1>11, PostType DEF FuncAsync, TypeOK, Kinds
<1>12. CASE FuncBreak
  BY <1>12, LoopBreaksType DEF FuncBreak, TypeOK
<1>13. CASE EventBreak
  BY <1>13, LoopBreaksType DEF EventBreak, TypeOK
<1>14. QED
  BY <1>1, <1>2, <1>3, <1>4, <1>5, <1>6, <1>7, <1>8, <1>9, <1>10, <1>11,
     <1>12, <1>13 DEF LoopSteps

LEMMA TInvStep == TInv /\ [Next]_vars => TInv'
<1>1. ASSUME TInv, UNCHANGED vars PROVE TInv'
  BY <1>1 DEF vars, queueVars, eventVars, ownerVars, loopVars, clientVars,
              TInv, TypeOK, InSync
<1>2. QED
  BY <1>1, TInvClient, TInvOwner, TInvLoop DEF Next

\* Every variable keeps its type in every behaviour.
THEOREM TypeCorrect == Spec => []TypeOK
<1>1. TInv => TypeOK
  BY DEF TInv
<1>2. QED
  BY <1>1, TInvInit, TInvStep, PTL DEF Spec

-----------------------------------------------------------------------------
(* The order of the queue.  Seen from the channel and its history, a step  *)
(* pushes one object, pops the oldest, destroys the channel, or does none. *)

PushStep == (\E t \in Tasks : Push(t)) /\ UNCHANGED <<started, dropped>>

QuietStep ==
    /\ UNCHANGED <<pushed, started>>
    /\ dropped' \/ UNCHANGED <<chan, dropped>>

LEMMA QueueSteps ==
    ASSUME TInv, [Next]_vars
    PROVE  PushStep \/ QuietStep \/ Pop
<1> USE DEF PushStep, QuietStep, TInv, InSync, queueVars, eventVars, ownerVars,
            loopVars, clientVars
<1>1. CASE UNCHANGED vars
  BY <1>1 DEF vars
<1>2. ASSUME NEW c \in Clients,
             \/ Async(c) \/ SyncLock(c) \/ SpuriousWakeup(c)
             \/ BreakRead(c) \/ BreakNow(c) \/ ClientSteps(c)
      PROVE  PushStep \/ QuietStep
  BY <1>2 DEF Async, SyncLock, SpuriousWakeup, BreakRead, BreakNow, ClientSteps,
              SyncPush, SyncSleep, SyncRelock, SyncReturn, BreakPost, Post
<1>3. CASE Join \/ DropJoined \/ DropUnarm \/ OwnerSteps
  BY <1>3 DEF Join, DropJoined, DropUnarm, OwnerSteps, JoinReturn, DropBreak,
              DropReturn, Destroy, Post
<1>4. CASE FuncAsync \/ FuncBreak \/ EventBreak \/ RunBreak
  BY <1>4 DEF FuncAsync, FuncBreak, EventBreak, RunBreak, LoopBreaks, Post
<1>5. CASE HostLoop \/ Tick \/ PopEmpty \/ FuncReturn \/ JoinObject
           \/ Release \/ Rearm \/ Exit
  BY <1>5 DEF HostLoop, Tick, PopEmpty, FuncReturn, JoinObject, Release, Rearm, Exit
<1>6. QED
  BY <1>1, <1>2, <1>3, <1>4, <1>5 DEF Next, LoopSteps

\* What was started is a prefix of what was pushed, and until the queue is
\* destroyed its channel holds exactly the rest.
OrderInv ==
    /\ Len(started) <= Len(pushed)
    /\ \A i \in 1 .. Len(started) : started[i] = pushed[i]
    /\ ~dropped =>
          /\ Len(pushed) = Len(started) + Len(chan)
          /\ \A i \in 1 .. Len(chan) : chan[i] = pushed[Len(started) + i]

LEMMA PushOrder ==
    ASSUME TypeOK, OrderInv, PushStep
    PROVE  OrderInv'
<1>1. PICK t \in Tasks : Push(t)
  BY DEF PushStep
<1>2. /\ Len(pushed') = Len(pushed) + 1
      /\ \A i \in 1 .. Len(pushed) : pushed'[i] = pushed[i]
      /\ pushed'[Len(pushed) + 1] = t
  BY <1>1 DEF Push, TypeOK
<1>3. /\ Len(chan') = Len(chan) + 1
      /\ \A i \in 1 .. Len(chan) : chan'[i] = chan[i]
      /\ chan'[Len(chan) + 1] = t
  BY <1>1 DEF Push, TypeOK
<1>4. Len(pushed) \in Nat /\ Len(chan) \in Nat /\ Len(started) \in Nat
  BY LenProperties DEF TypeOK
<1>5. started' = started /\ dropped' = dropped
  BY DEF PushStep
<1>6. /\ Len(started') <= Len(pushed')
      /\ \A i \in 1 .. Len(started') : started'[i] = pushed'[i]
  BY <1>2, <1>4, <1>5 DEF OrderInv
<1>7. ASSUME ~dropped'
      PROVE  /\ Len(pushed') = Len(started') + Len(chan')
             /\ \A i \in 1 .. Len(chan') : chan'[i] = pushed'[Len(started') + i]
  <2>1. Len(pushed') = Len(started') + Len(chan')
    BY <1>2, <1>3, <1>4, <1>5, <1>7 DEF OrderInv
  <2>2. ASSUME NEW i \in 1 .. Len(chan)
        PROVE  chan'[i] = pushed'[Len(started') + i]
    <3>1. Len(started) + i \in 1 .. Len(pushed)
      BY <1>4, <1>5, <1>7 DEF OrderInv
    <3>2. QED
      BY <1>2, <1>3, <1>5, <1>7, <3>1 DEF OrderInv
  <2>3. chan'[Len(chan) + 1] = pushed'[Len(started') + (Len(chan) + 1)]
    <3>1. Len(started') + (Len(chan) + 1) = Len(pushed) + 1
      BY <1>4, <1>5, <1>7 DEF OrderInv
    <3>2. QED
      BY <1>2, <1>3, <3>1
  <2>4. QED
    BY <1>3, <1>4, <2>1, <2>2, <2>3
<1>8. QED
  BY <1>6, <1>7 DEF OrderInv

\* The object popped is the oldest one not started yet.
LEMMA PopOldest ==
    ASSUME TypeOK, OrderInv, ~dropped, chan # <<>>
    PROVE  Len(started) < Len(pushed) /\ Head(chan) = pushed[Len(started) + 1]
<1>1. Len(chan) \in Nat \ {0} /\ Len(started) \in Nat /\ Len(pushed) \in Nat
  BY LenProperties, EmptySeq DEF TypeOK
<1>2. Head(chan) = chan[1]
  BY DEF TypeOK
<1>3. QED
  BY <1>1, <1>2 DEF OrderInv

LEMMA PopOrder ==
    ASSUME TypeOK, OrderInv, ~dropped, Pop
    PROVE  OrderInv'
<1>1. Len(chan) \in Nat \ {0} /\ Len(started) \in Nat /\ Len(pushed) \in Nat
  BY LenProperties, EmptySeq DEF TypeOK, Pop
<1>2. /\ Len(started') = Len(started) + 1
      /\ \A i \in 1 .. Len(started) : started'[i] = started[i]
      /\ started'[Len(started) + 1] = pushed[Len(started) + 1]
  BY PopOldest DEF Pop, TypeOK
<1>3. /\ Len(chan') = Len(chan) - 1
      /\ \A i \in 1 .. Len(chan') : chan'[i] = chan[i + 1]
  BY HeadTailProperties DEF Pop, TypeOK
<1>4. pushed' = pushed /\ dropped' = dropped
  BY DEF Pop, queueVars, ownerVars
<1>5. /\ Len(started') <= Len(pushed')
      /\ \A i \in 1 .. Len(started') : started'[i] = pushed'[i]
  <2>1. Len(started') <= Len(pushed')
    BY <1>1, <1>2, <1>4, PopOldest DEF Pop
  <2>2. ASSUME NEW i \in 1 .. Len(started')
        PROVE  started'[i] = pushed'[i]
    BY <1>1, <1>2, <1>4, <2>2 DEF OrderInv
  <2>3. QED
    BY <2>1, <2>2
<1>6. Len(pushed') = Len(started') + Len(chan')
  <2>1. Len(pushed) = Len(started) + Len(chan)
    BY DEF OrderInv
  <2>2. Len(started') = Len(started) + 1 /\ Len(chan') = Len(chan) - 1
    BY <1>2, <1>3
  <2>3. Len(pushed') = Len(pushed)
    BY <1>4
  <2>4. QED
    BY <1>1, <2>1, <2>2, <2>3
<1>7. ASSUME NEW i \in 1 .. Len(chan')
      PROVE  chan'[i] = pushed'[Len(started') + i]
  <2>1. i + 1 \in 1 .. Len(chan) /\ chan'[i] = chan[i + 1]
    BY <1>1, <1>3
  <2>2. chan[i + 1] = pushed[Len(started) + (i + 1)]
    BY <2>1 DEF OrderInv
  <2>3. Len(started) + (i + 1) = Len(started') + i
    BY <1>1, <1>2
  <2>4. QED
    BY <1>4, <2>1, <2>2, <2>3
<1>8. QED
  BY <1>5, <1>6, <1>7 DEF OrderInv

-----------------------------------------------------------------------------
(* The owner's protocol: once join() or the destructor has come back from  *)
(* pthread_join the loop is gone, and a destroyed queue's timer is deleted. *)

OwnerWaits == cpc[Owner] \in {"joining", "dropBreak", "dropJoin"}

OwnerInv ==
    /\ Attached => ~joined
    /\ OwnerWaits => joined /\ ~dropped
    /\ joined /\ ~OwnerWaits => wpc = "exited"
    /\ dropped => ~armed /\ (wpc = "exited" \/ (Attached /\ wpc = "loop"))

LEMMA OwnerStep ==
    ASSUME TInv, OwnerInv, [Next]_vars
    PROVE  OwnerInv'
<1> USE ThreadsAssumption
    DEF OwnerInv, OwnerWaits, queueVars, eventVars, ownerVars, loopVars,
        clientVars, Goto, TInv, TypeOK, ClientStates
<1>1. ASSUME UNCHANGED <<armed, joined, dropped, cpc, wpc>> PROVE OwnerInv'
  BY <1>1
<1>2. ASSUME NEW c \in Clients,
             \/ Async(c) \/ SyncLock(c) \/ SpuriousWakeup(c)
             \/ BreakRead(c) \/ BreakNow(c) \/ ClientSteps(c)
      PROVE  OwnerInv'
  <2>1. CASE Async(c) \/ BreakNow(c)
    BY <2>1 DEF Async, BreakNow
  <2>2. CASE SyncLock(c) \/ SpuriousWakeup(c) \/ BreakRead(c)
    BY <2>2 DEF SyncLock, SpuriousWakeup, BreakRead, Calls
  <2>3. CASE ClientSteps(c)
    BY <2>3 DEF ClientSteps, SyncPush, SyncSleep, SyncRelock, SyncReturn, BreakPost
  <2>4. QED
    BY <1>2, <2>1, <2>2, <2>3
<1>3. CASE Join
  <2>1. cpc'[Owner] = "joining" /\ joined' /\ ~dropped' /\ ~Attached
    BY <1>3 DEF Join, Calls
  <2>2. QED
    BY <2>1
<1>4. CASE JoinReturn
  <2>1. wpc' = "exited" /\ ~armed' /\ joined' = joined /\ dropped' = dropped
    BY <1>4 DEF JoinReturn
  <2>2. cpc'[Owner] = "idle"
    BY <1>4 DEF JoinReturn
  <2>3. QED
    BY <2>1, <2>2
<1>5. CASE DropJoined
  BY <1>5 DEF DropJoined, Drops, Destroy, Calls
<1>6. CASE DropUnarm
  BY <1>6 DEF DropUnarm, Drops, Calls
<1>7. CASE DropBreak \/ DropReturn
  BY <1>7 DEF DropBreak, DropReturn, Destroy
<1>8. CASE UNCHANGED vars \/ FuncAsync \/ FuncBreak \/ EventBreak
  BY <1>1, <1>8 DEF vars, FuncAsync, FuncBreak, EventBreak
<1>9. CASE HostLoop
  BY <1>9 DEF HostLoop
<1>10. CASE LoopSteps
  <2>1. CASE Tick
    BY <2>1 DEF Tick
  <2>2. CASE wpc \in {"pop", "func", "join", "release", "rearm"}
    <3>1. UNCHANGED <<joined, dropped>> /\ ~dropped
      BY <1>10, <2>2 DEF LoopSteps, Tick, Pop, PopEmpty, RunBreak, FuncReturn,
                         JoinObject, Release, Rearm, Exit
    <3>2. ~joined \/ OwnerWaits
      BY <2>2
    <3>3. OwnerWaits' <=> OwnerWaits
      BY <1>10, <2>2 DEF LoopSteps, Tick, Pop, PopEmpty, RunBreak, FuncReturn,
                         JoinObject, Release, Rearm, Exit
    <3>4. QED
      BY <3>1, <3>2, <3>3
  <2>3. CASE Exit
    BY <2>3 DEF Exit
  <2>4. QED
    BY <1>10, <2>1, <2>2, <2>3 DEF LoopSteps, Pop, PopEmpty, RunBreak, FuncReturn,
                                   JoinObject, Release, Rearm
<1>11. QED
  BY <1>2, <1>3, <1>4, <1>5, <1>6, <1>7, <1>8, <1>9, <1>10 DEF Next, OwnerSteps

-----------------------------------------------------------------------------
(* The drain: run() leaves its loop on an empty channel only, so every     *)
(* push that preceded its break has been started by then.                  *)

DrainInv ==
    /\ due <= Len(pushed)
    /\ wpc \in {"rearm", "loop", "exited"} => due <= Len(started)

LEMMA DrainStep ==
    ASSUME TInv, OrderInv, OwnerInv, DrainInv, OrderInv', TInv', [Next]_vars
    PROVE  DrainInv'
<1> DEFINE Same == due' = due /\ started' = started
<1> USE DEF queueVars, eventVars, ownerVars, loopVars, clientVars
<1>1. /\ Len(pushed) \in Nat /\ Len(started) \in Nat /\ due \in Nat
      /\ Len(pushed') \in Nat /\ Len(started') \in Nat /\ due' \in Nat
  BY LenProperties DEF TInv, TypeOK
<1>2. Len(pushed) <= Len(pushed')
  <2>1. CASE PushStep
    BY <1>1, <2>1 DEF PushStep, Push, TInv, TypeOK
  <2>2. CASE QuietStep \/ Pop
    BY <1>1, <2>2 DEF QuietStep, Pop
  <2>3. QED
    BY <2>1, <2>2, QueueSteps
<1>3. ASSUME due' = due, started' = started,
             wpc' \in {"rearm", "loop", "exited"} => wpc \in {"rearm", "loop", "exited"}
      PROVE  DrainInv'
  BY <1>1, <1>2, <1>3 DEF DrainInv
<1>4. ASSUME NEW c \in Clients,
             \/ Async(c) \/ SyncLock(c) \/ SpuriousWakeup(c)
             \/ BreakRead(c) \/ BreakNow(c) \/ ClientSteps(c)
      PROVE  DrainInv'
  BY <1>3, <1>4 DEF Async, SyncLock, SpuriousWakeup, BreakRead, BreakNow, ClientSteps,
                    SyncPush, SyncSleep, SyncRelock, SyncReturn, BreakPost
<1>5. CASE \/ UNCHANGED vars \/ Join \/ DropJoined \/ DropUnarm \/ OwnerSteps
           \/ FuncAsync \/ HostLoop
  BY <1>3, <1>5 DEF vars, Join, DropJoined, DropUnarm, OwnerSteps, JoinReturn,
                    DropBreak, DropReturn, FuncAsync, HostLoop
<1>6. CASE Tick \/ FuncReturn \/ JoinObject \/ Release \/ Rearm \/ Exit
  BY <1>3, <1>6 DEF Tick, FuncReturn, JoinObject, Release, Rearm, Exit
<1>7. CASE Pop
  BY <1>1, <1>2, <1>7 DEF Pop, DrainInv
<1>8. CASE PopEmpty
  <2>1. ~dropped /\ chan = <<>>
    BY <1>8 DEF PopEmpty, OwnerInv
  <2>2. Len(pushed) = Len(started)
    BY <1>1, <2>1, EmptySeq DEF OrderInv
  <2>3. QED
    BY <1>8, <2>2 DEF PopEmpty, DrainInv
<1>9. CASE FuncBreak \/ RunBreak
  BY <1>1, <1>2, <1>9 DEF FuncBreak, RunBreak, LoopBreaks, DrainInv
<1>10. CASE EventBreak
  BY <1>1, <1>2, <1>10 DEF EventBreak, LoopBreaks, DrainInv
<1>11. QED
  BY <1>4, <1>5, <1>6, <1>7, <1>8, <1>9, <1>10 DEF Next, LoopSteps

-----------------------------------------------------------------------------
(* The inductive invariant and what follows from it.                       *)

IInv == TInv /\ OrderInv /\ OwnerInv /\ DrainInv

LEMMA IInvInit == Init => IInv
<1> SUFFICES ASSUME Init PROVE IInv
  OBVIOUS
<1>1. Len(<<>>) = 0
  BY EmptySeq
<1>2. OrderInv
  BY <1>1 DEF Init, OrderInv
<1>3. OwnerInv
  BY ThreadsAssumption DEF Init, OwnerInv, OwnerWaits
<1>4. DrainInv
  BY <1>1 DEF Init, DrainInv
<1>5. QED
  BY <1>2, <1>3, <1>4, TInvInit DEF IInv

LEMMA IInvStep == IInv /\ [Next]_vars => IInv'
<1> SUFFICES ASSUME IInv, [Next]_vars PROVE IInv'
  OBVIOUS
<1>1. TInv' /\ OwnerInv'
  BY TInvStep, OwnerStep DEF IInv
<1>2. OrderInv'
  <2>1. CASE PushStep
    BY <2>1, PushOrder DEF IInv, TInv
  <2>2. CASE QuietStep
    BY <2>2 DEF QuietStep, IInv, OrderInv
  <2>3. CASE Pop
    <3>1. ~dropped
      BY <2>3 DEF Pop, IInv, OwnerInv
    <3>2. QED
      BY <2>3, <3>1, PopOrder DEF IInv, TInv
  <2>4. QED
    BY <2>1, <2>2, <2>3, QueueSteps DEF IInv
<1>3. DrainInv'
  BY <1>1, <1>2, DrainStep DEF IInv
<1>4. QED
  BY <1>1, <1>2, <1>3 DEF IInv

LEMMA Invariance == Spec => []IInv
BY IInvInit, IInvStep, PTL DEF Spec

\* Everything pushed before a break that run() made has been started when the
\* loop returns: join() drains the queue.
THEOREM DrainsBeforeExit == Spec => []BreakDrains
<1>1. IInv => BreakDrains
  <2> SUFFICES ASSUME IInv, wpc = "exited" PROVE Len(started) >= due
    BY DEF BreakDrains
  <2>1. Len(started) \in Nat /\ due \in Nat
    BY LenProperties DEF IInv, TInv, TypeOK
  <2>2. QED
    BY <2>1 DEF IInv, DrainInv
<1>2. QED
  BY <1>1, Invariance, PTL

-----------------------------------------------------------------------------
(* The queue implements TaskQueue.                                         *)

LEMMA AbstractPush ==
    ASSUME NEW t \in Tasks, Push(t), UNCHANGED <<started, wpc>>
    PROVE  Abstract!Submit(t)
BY DEF Push, Abstract!Submit

LEMMA AbstractStep ==
    ASSUME IInv, [Next]_vars
    PROVE  [Abstract!Next]_Abstract!vars
<1> USE DEF queueVars, eventVars, ownerVars, loopVars, clientVars
<1>1. ASSUME UNCHANGED <<pushed, started, wpc>> PROVE UNCHANGED Abstract!vars
  BY <1>1 DEF Abstract!vars
<1>2. ASSUME NEW c \in Clients,
             \/ Async(c) \/ SyncLock(c) \/ SpuriousWakeup(c)
             \/ BreakRead(c) \/ BreakNow(c) \/ ClientSteps(c)
      PROVE  [Abstract!Next]_Abstract!vars
  <2>1. CASE Async(c) \/ BreakPost(c)
    BY <2>1, AbstractPush DEF Async, BreakPost, Post, Abstract!Next
  <2>2. CASE SyncPush(c)
    BY <2>2, AbstractPush DEF SyncPush, Abstract!Next, IInv, TInv, InSync
  <2>3. CASE \/ SyncLock(c) \/ SpuriousWakeup(c) \/ BreakRead(c) \/ BreakNow(c)
             \/ SyncSleep(c) \/ SyncRelock(c) \/ SyncReturn(c)
    BY <1>1, <2>3 DEF SyncLock, SpuriousWakeup, BreakRead, BreakNow, SyncSleep,
                      SyncRelock, SyncReturn
  <2>4. QED
    BY <1>2, <2>1, <2>2, <2>3 DEF ClientSteps
<1>3. CASE Join \/ DropBreak \/ FuncAsync
  BY <1>3, AbstractPush DEF Join, DropBreak, FuncAsync, Post, Abstract!Next
<1>4. CASE UNCHANGED vars \/ DropJoined \/ DropUnarm \/ JoinReturn \/ DropReturn
  BY <1>1, <1>4 DEF vars, DropJoined, DropUnarm, JoinReturn, DropReturn
<1>5. CASE FuncBreak \/ EventBreak
  <2>1. CASE UNCHANGED queueVars
    BY <1>1, <1>5, <2>1 DEF FuncBreak, EventBreak
  <2>2. CASE \E t \in Tasks : Post(t, "break")
    BY <1>5, <2>2, AbstractPush DEF FuncBreak, EventBreak, Post, Abstract!Next
  <2>3. QED
    BY <1>5, <2>1, <2>2 DEF FuncBreak, EventBreak, LoopBreaks
<1>6. CASE RunBreak
  <2>1. wpc = "func" /\ wpc' = "join" /\ started' = started
    BY <1>6 DEF RunBreak
  <2>2. CASE UNCHANGED queueVars
    BY <2>1, <2>2 DEF Abstract!End, Abstract!Next
  <2>3. CASE \E t \in Tasks : Post(t, "break")
    BY <2>1, <2>3 DEF Post, Push, Abstract!SubmitAndEnd, Abstract!Next
  <2>4. QED
    BY <1>6, <2>2, <2>3 DEF RunBreak, LoopBreaks
<1>7. CASE FuncReturn
  BY <1>7 DEF FuncReturn, Abstract!End, Abstract!Next
<1>8. CASE Pop
  <2>1. ~dropped /\ chan # <<>> /\ wpc = "pop" /\ wpc' = "func"
    BY <1>8 DEF Pop, IInv, OwnerInv
  <2>2. Len(started) < Len(pushed) /\ Head(chan) = pushed[Len(started) + 1]
    BY <2>1, PopOldest DEF IInv, TInv
  <2>3. started' = Append(started, pushed[Len(started) + 1]) /\ pushed' = pushed
    BY <1>8, <2>2 DEF Pop
  <2>4. Abstract!Begin
    BY <2>1, <2>2, <2>3 DEF Abstract!Begin
  <2>5. QED
    BY <2>4 DEF Abstract!Next
<1>9. CASE Exit
  BY <1>9 DEF Exit, Abstract!Stop, Abstract!Next, Abstract!vars
<1>10. CASE Tick \/ PopEmpty \/ JoinObject \/ Release \/ Rearm
  BY <1>10 DEF Tick, PopEmpty, JoinObject, Release, Rearm, Abstract!vars
<1>11. CASE HostLoop
  BY <1>11 DEF HostLoop, Abstract!vars
<1>12. QED
  BY <1>2, <1>3, <1>4, <1>5, <1>6, <1>7, <1>8, <1>9, <1>10, <1>11
     DEF Next, OwnerSteps, LoopSteps

\* Whatever the clients do, the queue starts what was pushed in push order, one
\* at a time, each object once, and nothing after an owned queue's loop returned.
THEOREM Refinement == Spec => Implements
<1>1. Init => Abstract!Init
  BY DEF Init, Abstract!Init
<1>2. QED
  BY <1>1, AbstractStep, Invariance, PTL DEF Spec, Implements, Abstract!Spec

=============================================================================
