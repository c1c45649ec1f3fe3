-------------------------- MODULE WebWorkerProofs --------------------------
(***************************************************************************)
(* What holds of a WebWorker for any messages and any number of breaks,    *)
(* whichever thread runs its destructor.                                   *)
(***************************************************************************)
EXTENDS WebWorker, SequenceTheorems, TLAPS

Running == {"idle", "script", "posting", "discard"}
Thieves == {"other", "worker"}

\* How the wrapper, the WebWorker and the two threads depend on one another.
LifeInv ==
    /\ wrapper = "live" <=> life = "live"
    /\ wrapper = "none" <=> life = "none"
    /\ life = "none" => /\ wpc = "none" /\ breaks = 0 /\ mchan = <<>>
                        /\ wchan = <<>> /\ posted = <<>> /\ taken = <<>>
    /\ life \in {"none", "live", "queued"} => dpc = "none" /\ destroyer = "none"
    /\ life = "queued" => mpc = "release"
    /\ life \in {"dying", "freed"} => destroyer # "none"
    /\ life = "freed" <=> dpc = "done"
    /\ wpc = "undefined" <=> destroyer = "worker"
    /\ destroyer = "worker" => dpc = "none"
    /\ wpc = "none" => life = "none"
    /\ breaking => wrapper = "live"

\* The main side comes out of release() with the WebWorker freed, or taken by
\* another thread.
ReleaseInv ==
    /\ mpc # "release" /\ wrapper = "finalized" =>
          life = "freed" \/ destroyer \in Thieves
    /\ mainq # "live" =>
          early \/ destroyer \in Thieves \/ life \in {"none", "freed"}

FaultInv ==
    /\ faults \intersect {"heapptr", "selfjoin"} # {} => destroyer \in Thieves
    /\ "queue" \in faults => mainq # "live" /\ (early \/ destroyer \in Thieves)

\* terminate() has room for the break it is about to post.
BreakBound == breaking => breaks < MaxBreaks

\* A break has been posted.
Broken == breaks > 0 \/ dpc \notin {"none", "join"}

\* The first break stands in the channel behind all that is due, until the worker
\* has run it.
BreakAt(i) ==
    /\ wchan[i] = Break
    /\ \A j \in 1 .. i - 1 : wchan[j] # Break
    /\ Len(taken) + (i - 1) >= due

BreakInv ==
    /\ ~Broken => /\ \A i \in 1 .. Len(wchan) : wchan[i] # Break
                  /\ Len(posted) = Len(taken) + Len(wchan)
                  /\ ~loopbreak
    /\ Broken /\ ~loopbreak /\ wpc \in Running => \E i \in 1 .. Len(wchan) : BreakAt(i)
    /\ loopbreak => Len(taken) >= due
    /\ wpc = "exited" => loopbreak

WInv == TypeOK /\ BreakBound /\ LifeInv /\ ThreadEndsFirst /\ ReleaseInv /\ FaultInv

-----------------------------------------------------------------------------
(* Type correctness.                                                       *)

Flags ==
    /\ mpc \in {"loop", "fn", "discard", "release", "recycle", "recycled"}
    /\ breaking \in BOOLEAN
    /\ mainq \in {"live", "dying", "gone"}
    /\ wrapper \in {"none", "live", "finalized"}
    /\ life \in {"none", "live", "queued", "dying", "freed"}
    /\ dpc \in {"none", "join", "wait", "members", "base", "done"}
    /\ destroyer \in {"main", "worker", "other", "none"}
    /\ wpc \in {"none", "idle", "script", "posting", "discard", "exited", "undefined"}
    /\ listening \subseteq Sides
    /\ loopbreak \in BOOLEAN
    /\ early \in BOOLEAN
    /\ faults \subseteq {"heapptr", "selfjoin", "queue"}

Streams ==
    /\ mchan \in Seq(Replies)
    /\ wchan \in Seq(Tasks \union {Break})
    /\ posted \in Seq(Tasks) /\ taken \in Seq(Tasks)
    /\ replied \in Seq(Replies) /\ heard \in Seq(Replies)
    /\ breaks \in 0 .. MaxBreaks
    /\ due \in Nat
    /\ BreakBound

LEMMA TypeSplit == TypeOK /\ BreakBound <=> Flags /\ Streams
BY DEF TypeOK, Flags, Streams, Threads, Faults

LEMMA FlagsStep == Flags /\ [Next]_vars => Flags'
<1> SUFFICES ASSUME Flags, [Next]_vars PROVE Flags'
  OBVIOUS
<1> USE DEF mainVars, lifeVars, workVars, history
<1>1. CASE UNCHANGED vars
  BY <1>1 DEF Flags, vars
<1>2. CASE Alloc
  <2>1. listening' \in SUBSET {"main"}
    BY <1>2 DEF Alloc
  <2>2. listening' \subseteq Sides
    BY <2>1 DEF Sides
  <2>3. /\ life' = "live" /\ wrapper' = "live" /\ wpc' = "idle"
        /\ UNCHANGED <<mpc, breaking, mainq, dpc, destroyer, loopbreak, early, faults>>
    BY <1>2 DEF Alloc
  <2>4. QED
    BY <2>2, <2>3 DEF Flags
<1>3. CASE Terminate
  BY <1>3 DEF Flags, Terminate
<1>4. CASE Recycle
  BY <1>4 DEF Flags, Recycle
<1>5. CASE Finalize
  BY <1>5 DEF Flags, Finalize
<1>6. CASE \E m \in Posts : Post(m)
  BY <1>6 DEF Flags, Post
<1>7. CASE TerminatePost
  <2>1. breaking' \in BOOLEAN
    BY <1>7, Zenon DEF TerminatePost
  <2>2. UNCHANGED <<mpc, mainq, wrapper, life, dpc, destroyer, wpc, loopbreak, early, faults,
                    listening>>
    BY <1>7 DEF TerminatePost
  <2>3. QED
    BY <2>1, <2>2 DEF Flags
<1>8. CASE Hear
  <2>1. mpc' \in {mpc, "fn", "discard"}
    BY <1>8 DEF Hear
  <2>2. faults' = faults \/ faults' = faults \union {"heapptr"}
    BY <1>8 DEF Hear
  <2>3. UNCHANGED <<breaking, mainq, wrapper, life, dpc, destroyer, wpc, loopbreak, early,
                  listening>>
    BY <1>8 DEF Hear
  <2>4. faults' \subseteq {"heapptr", "selfjoin", "queue"}
    BY <2>2 DEF Flags
  <2>5. mpc' \in {"loop", "fn", "discard", "release", "recycle", "recycled"}
    BY <2>1 DEF Flags
  <2>6. QED
    BY <2>3, <2>4, <2>5 DEF Flags
<1>9. CASE HearReturn
  BY <1>9 DEF Flags, HearReturn
<1>10. CASE RecycleUnlink
  BY <1>10 DEF Flags, RecycleUnlink
<1>11. CASE ReleaseReturn
  BY <1>11 DEF Flags, ReleaseReturn
<1>12. CASE \E d \in {"main", "other"} : Take(d)
  BY <1>12 DEF Flags, Take
<1>13. CASE TakeSelf
  BY <1>13 DEF Flags, TakeSelf
<1>14. CASE JoinPost
  BY <1>14 DEF Flags, JoinPost
<1>15. CASE JoinReturn
  BY <1>15 DEF Flags, JoinReturn
<1>16. CASE FreeMembers
  BY <1>16 DEF Flags, FreeMembers
<1>17. CASE Unlink
  BY <1>17 DEF Flags, Unlink
<1>18. CASE WorkBreak
  BY <1>18 DEF Flags, WorkBreak
<1>19. CASE WorkReturn
  BY <1>19 DEF Flags, WorkReturn
<1>20. CASE Exit
  BY <1>20 DEF Flags, Exit
<1>21. CASE Reply
  BY <1>21 DEF Flags, Reply
<1>22. CASE Work
  BY <1>22 DEF Flags, Work
<1>23. CASE ReplyPost
  <2>1. faults' = faults \/ faults' = faults \union {"queue"}
    BY <1>23 DEF ReplyPost
  <2>2. /\ wpc' = "script"
        /\ UNCHANGED <<mpc, breaking, mainq, wrapper, life, dpc, destroyer, loopbreak, early,
                       listening>>
    BY <1>23 DEF ReplyPost
  <2>3. faults' \subseteq {"heapptr", "selfjoin", "queue"}
    BY <2>1 DEF Flags
  <2>4. QED
    BY <2>2, <2>3 DEF Flags
<1>24. CASE \E side \in Sides : Listen(side) \/ Unlisten(side)
  <2>1. PICK side \in Sides : Listen(side) \/ Unlisten(side)
    BY <1>24
  <2>2. listening' = listening \union {side} \/ listening' = listening \ {side}
    BY <2>1 DEF Listen, Unlisten
  <2>3. listening' \subseteq Sides
    BY <2>2 DEF Flags
  <2>4. UNCHANGED <<mpc, breaking, mainq, wrapper, life, dpc, destroyer, wpc, loopbreak,
                    early, faults>>
    BY <2>1 DEF Listen, Unlisten
  <2>5. QED
    BY <2>3, <2>4 DEF Flags
<1>25. QED
  BY <1>1, <1>2, <1>3, <1>4, <1>5, <1>6, <1>7, <1>8, <1>9, <1>10, <1>11, <1>12,
     <1>13, <1>14, <1>15, <1>16, <1>17, <1>18, <1>19, <1>20, <1>21, <1>22, <1>23, <1>24
     DEF Next, MainSteps, WorkSteps, Destroy

LEMMA StreamsStep == Streams /\ [Next]_vars => Streams'
<1> SUFFICES ASSUME Streams, [Next]_vars PROVE Streams'
  OBVIOUS
<1> USE BreaksAssumption DEF mainVars, workVars, history, Enqueue, PostBreak
<1>1. CASE UNCHANGED vars
  BY <1>1 DEF Streams, BreakBound, vars
<1>2. CASE Alloc
  BY <1>2 DEF Streams, BreakBound, Alloc, Tasks
<1>3. CASE Terminate
  BY <1>3 DEF Streams, BreakBound, Terminate
<1>4. CASE Recycle
  BY <1>4 DEF Streams, BreakBound, Recycle
<1>5. CASE Finalize
  BY <1>5 DEF Streams, BreakBound, Finalize
<1>6. CASE \E m \in Posts : Post(m)
  BY <1>6 DEF Streams, BreakBound, Post, Tasks
<1>7. CASE TerminatePost
  <2>1. /\ wchan' = Append(wchan, Break) /\ due' \in {due, Len(posted)}
        /\ breaks' = breaks + 1 /\ ~breaking' /\ UNCHANGED <<mchan, posted, taken, replied,
                                                             heard>>
    BY <1>7 DEF TerminatePost
  <2>2. breaks < MaxBreaks
    BY <1>7 DEF TerminatePost, Streams, BreakBound
  <2>3. QED
    BY <2>1, <2>2 DEF Streams, BreakBound
<1>8. CASE Hear
  <2>1. mchan \in Seq(Replies) /\ mchan # <<>> /\ mchan' = Tail(mchan)
    BY <1>8 DEF Hear, Streams
  <2>2. heard' = heard \/ heard' = Append(heard, Head(mchan))
    BY <1>8 DEF Hear
  <2>3. UNCHANGED <<breaking, wchan, posted, taken, replied, breaks, due>>
    BY <1>8 DEF Hear
  <2>4. mchan' \in Seq(Replies) /\ Head(mchan) \in Replies
    BY <2>1, HeadTailProperties
  <2>5. heard' \in Seq(Replies)
    <3>1. heard \in Seq(Replies) /\ Append(heard, Head(mchan)) \in Seq(Replies)
      BY <2>4, AppendProperties, Zenon DEF Streams
    <3>2. QED
      BY <2>2, <3>1, Zenon
  <2>6. QED
    BY <2>3, <2>4, <2>5 DEF Streams, BreakBound
<1>9. CASE HearReturn
  BY <1>9 DEF Streams, BreakBound, HearReturn
<1>10. CASE RecycleUnlink
  BY <1>10 DEF Streams, BreakBound, RecycleUnlink
<1>11. CASE ReleaseReturn
  BY <1>11 DEF Streams, BreakBound, ReleaseReturn
<1>12. CASE \E d \in {"main", "other"} : Take(d)
  BY <1>12 DEF Streams, BreakBound, Take
<1>13. CASE TakeSelf
  BY <1>13 DEF Streams, BreakBound, TakeSelf
<1>14. CASE JoinPost
  BY <1>14 DEF Streams, BreakBound, JoinPost
<1>15. CASE JoinReturn
  BY <1>15 DEF Streams, BreakBound, JoinReturn
<1>16. CASE FreeMembers
  BY <1>16 DEF Streams, BreakBound, FreeMembers
<1>17. CASE Unlink
  BY <1>17 DEF Streams, BreakBound, Unlink
<1>18. CASE WorkBreak
  BY <1>18 DEF Streams, BreakBound, WorkBreak
<1>19. CASE WorkReturn
  BY <1>19 DEF Streams, BreakBound, WorkReturn
<1>20. CASE Exit
  BY <1>20 DEF Streams, BreakBound, Exit
<1>21. CASE Reply
  BY <1>21 DEF Streams, BreakBound, Reply
<1>22. CASE Work
  <2>1. wchan # <<>> /\ Head(wchan) # Break /\ wchan' = Tail(wchan)
    BY <1>22 DEF Work
  <2>2. taken' = taken \/ taken' = Append(taken, Head(wchan))
    BY <1>22 DEF Work
  <2>3. UNCHANGED <<breaking, mchan, posted, replied, heard, breaks, due>>
    BY <1>22 DEF Work
  <2>4. wchan' \in Seq(Tasks \union {Break}) /\ Head(wchan) \in Tasks
    BY <2>1, HeadTailProperties DEF Streams
  <2>5. taken' \in Seq(Tasks)
    <3>1. taken \in Seq(Tasks) /\ Append(taken, Head(wchan)) \in Seq(Tasks)
      BY <2>4, AppendProperties, Zenon DEF Streams
    <3>2. QED
      BY <2>2, <3>1, Zenon
  <2>6. QED
    BY <2>3, <2>4, <2>5 DEF Streams, BreakBound
<1>23. CASE ReplyPost
  <2>1. PICK r \in Replies : /\ mchan' = mchan \/ mchan' = Append(mchan, r)
                             /\ replied' = replied \/ replied' = Append(replied, r)
    BY <1>23 DEF ReplyPost, NewReplies
  <2>2. UNCHANGED <<breaking, wchan, posted, taken, heard, breaks, due>>
    BY <1>23 DEF ReplyPost
  <2>3. /\ mchan \in Seq(Replies) /\ Append(mchan, r) \in Seq(Replies)
        /\ replied \in Seq(Replies) /\ Append(replied, r) \in Seq(Replies)
    BY AppendProperties, Zenon DEF Streams
  <2>4. mchan' \in Seq(Replies) /\ replied' \in Seq(Replies)
    BY <2>1, <2>3, Zenon
  <2>5. QED
    BY <2>2, <2>4 DEF Streams, BreakBound
<1>24. CASE \E side \in Sides : Listen(side) \/ Unlisten(side)
  BY <1>24 DEF Streams, BreakBound, Listen, Unlisten
<1>25. QED
  BY <1>1, <1>2, <1>3, <1>4, <1>5, <1>6, <1>7, <1>8, <1>9, <1>10, <1>11, <1>12,
     <1>13, <1>14, <1>15, <1>16, <1>17, <1>18, <1>19, <1>20, <1>21, <1>22, <1>23, <1>24
     DEF Next, MainSteps, WorkSteps, Destroy

LEMMA TypeStep ==
    TypeOK /\ BreakBound /\ [Next]_vars => (TypeOK /\ BreakBound)'
<1>1. (TypeOK /\ BreakBound)' <=> (Flags /\ Streams)'
  BY DEF TypeOK, Flags, Streams, Threads, Faults
<1>2. QED
  BY <1>1, TypeSplit, FlagsStep, StreamsStep


-----------------------------------------------------------------------------
(* The invariant.                                                          *)

LEMMA WInvInit == Init => WInv /\ BreakInv
<1> SUFFICES ASSUME Init PROVE WInv /\ BreakInv
  OBVIOUS
<1>1. Flags
  BY DEF Init, Flags
<1>2. Streams
  BY BreaksAssumption DEF Init, Streams, BreakBound
<1>3. LifeInv /\ ThreadEndsFirst /\ ReleaseInv /\ FaultInv
  BY DEF Init, LifeInv, ThreadEndsFirst, ReleaseInv, FaultInv
<1>4. BreakInv
  BY DEF Init, BreakInv, Broken, Running
<1>5. QED
  BY <1>1, <1>2, <1>3, <1>4, TypeSplit DEF WInv

LEMMA WInvStep == WInv /\ [Next]_vars => WInv'
<1> SUFFICES ASSUME WInv, [Next]_vars
             PROVE  (LifeInv /\ ThreadEndsFirst /\ ReleaseInv /\ FaultInv)'
  BY TypeStep DEF WInv
<1>a. Flags /\ LifeInv /\ ThreadEndsFirst /\ ReleaseInv /\ FaultInv
  BY TypeSplit DEF WInv
<1> USE <1>a
    DEF Flags, LifeInv, ThreadEndsFirst, ReleaseInv, FaultInv, Thieves, Enqueue, PostBreak,
        MainScript, mainVars, lifeVars, workVars, history
<1>1. CASE UNCHANGED vars
  BY <1>1 DEF vars
<1>2. CASE Alloc
  BY <1>2 DEF Alloc
<1>3. CASE Terminate
  BY <1>3 DEF Terminate
<1>4. CASE Recycle
  <2>1. mpc = "loop" /\ ~breaking /\ mainq = "live"
    BY <1>4 DEF Recycle
  <2>2. mpc' = "recycle" /\ mainq' = "dying" /\ mchan' = <<>>
    BY <1>4 DEF Recycle
  <2>3. early' = (wrapper = "live")
    BY <1>4, Zenon DEF Recycle
  <2>4. /\ UNCHANGED <<breaking, wrapper, life, dpc, destroyer, wpc, wchan>>
        /\ UNCHANGED <<posted, taken, breaks, faults>>
    BY <1>4 DEF Recycle
  <2>5. LifeInv'
    BY <2>1, <2>2, <2>4
  <2>6. ThreadEndsFirst'
    BY <2>4
  <2>7. ReleaseInv'
    <3>1. CASE wrapper = "live"
      <4>1. early'
        BY <2>3, <3>1, Zenon
      <4>2. QED
        BY <4>1, <3>1, <2>4
    <3>2. CASE wrapper = "none"
      BY <3>2, <2>4
    <3>3. CASE wrapper = "finalized"
      BY <3>3, <2>1, <2>4
    <3>4. QED
      BY <3>1, <3>2, <3>3
  <2>8. FaultInv'
    BY <2>1, <2>2, <2>3, <2>4
  <2>9. QED
    BY <2>5, <2>6, <2>7, <2>8
<1>5. CASE Finalize
  BY <1>5 DEF Finalize
<1>6. CASE \E m \in Posts : Post(m)
  BY <1>6 DEF Post
<1>7. CASE TerminatePost
  BY <1>7 DEF TerminatePost
<1>8. CASE Hear
  <2>1. CASE life # "freed" /\ wrapper = "live"
    BY <1>8, <2>1 DEF Hear
  <2>2. CASE ~(life # "freed" /\ wrapper = "live")
    BY <1>8, <2>2 DEF Hear
  <2>3. QED
    BY <2>1, <2>2
<1>9. CASE HearReturn
  BY <1>9 DEF HearReturn
<1>10. CASE RecycleUnlink
  BY <1>10 DEF RecycleUnlink
<1>11. CASE ReleaseReturn
  BY <1>11 DEF ReleaseReturn
<1>12. CASE \E d \in {"main", "other"} : Take(d)
  BY <1>12 DEF Take
<1>13. CASE TakeSelf
  BY <1>13 DEF TakeSelf
<1>14. CASE JoinPost
  BY <1>14 DEF JoinPost
<1>15. CASE JoinReturn
  BY <1>15 DEF JoinReturn
<1>16. CASE FreeMembers
  BY <1>16 DEF FreeMembers
<1>17. CASE Unlink
  BY <1>17 DEF Unlink
<1>18. CASE WorkBreak
  BY <1>18 DEF WorkBreak
<1>19. CASE WorkReturn
  BY <1>19 DEF WorkReturn
<1>20. CASE Exit
  BY <1>20 DEF Exit
<1>21. CASE Reply
  BY <1>21 DEF Reply
<1>22. CASE Work
  BY <1>22 DEF Work
<1>23. CASE ReplyPost
  <2>1. PICK r \in NewReplies :
            IF mainq = "live"
            THEN mchan' = Append(mchan, r) /\ replied' = Append(replied, r) /\ UNCHANGED faults
            ELSE faults' = faults \union {"queue"} /\ UNCHANGED <<mchan, replied>>
    BY <1>23 DEF ReplyPost
  <2>2. CASE mainq = "live"
    BY <1>23, <2>1, <2>2 DEF ReplyPost
  <2>3. CASE mainq # "live"
    BY <1>23, <2>1, <2>3 DEF ReplyPost
  <2>4. QED
    BY <2>2, <2>3
<1>24. CASE \E side \in Sides : Listen(side) \/ Unlisten(side)
  BY <1>24 DEF Listen, Unlisten
<1>25. QED
  BY <1>1, <1>2, <1>3, <1>4, <1>5, <1>6, <1>7, <1>8, <1>9, <1>10, <1>11, <1>12,
     <1>13, <1>14, <1>15, <1>16, <1>17, <1>18, <1>19, <1>20, <1>21, <1>22, <1>23, <1>24
     DEF Next, MainSteps, WorkSteps, Destroy

LEMMA Invariance == Spec => []WInv
BY WInvInit, WInvStep, PTL DEF Spec

\* For every set of messages and number of breaks, the variables keep their types.
THEOREM TypeCorrect == Spec => []TypeOK
BY Invariance, PTL DEF WInv

\* The worker's context, dns base and queue are freed only when its thread has ended,
\* whichever thread destroys the WebWorker (~WebWorker after _queue->join()).
THEOREM ThreadOutlived == Spec => []ThreadEndsFirst
BY Invariance, PTL DEF WInv

\* A freed WebWorker or queue is used only when another thread took the deletion, or
\* when recycle deleted the main queue under a live worker.
THEOREM FaultsBounded == Spec => []FaultsExplained
<1>1. WInv => FaultsExplained
  BY DEF WInv, FaultInv, FaultsExplained, Thieves
<1>2. QED
  BY <1>1, Invariance, PTL

-----------------------------------------------------------------------------
(* The break comes after what is due.                                      *)

\* What BreakStep needs of WInv.
Ground ==
    /\ Streams
    /\ life \in {"none", "live", "queued"} => dpc = "none"
    /\ life = "none" => wpc = "none" /\ breaks = 0 /\ wchan = <<>> /\ posted = <<>> /\ taken = <<>>
    /\ life = "freed" => dpc = "done"
    /\ dpc \in {"members", "base", "done"} => wpc = "exited"

\* A step that leaves the channel, the counts and the place of the break alone.
LEMMA BreakQuiet ==
    ASSUME BreakInv, UNCHANGED <<wchan, loopbreak, posted, taken, due>>,
           Broken' <=> Broken,
           wpc' \in Running => wpc \in Running,
           wpc' = "exited" => wpc = "exited" \/ loopbreak
    PROVE  BreakInv'
BY DEF BreakInv, BreakAt

\* A message is posted to the worker.
LEMMA BreakPosted ==
    ASSUME Ground, BreakInv, NEW m \in Tasks,
           wchan' = Append(wchan, m), posted' = Append(posted, m),
           UNCHANGED <<loopbreak, taken, breaks, due, dpc>>,
           Broken /\ wpc' \in Running => wpc \in Running,
           wpc' = "exited" => wpc = "exited"
    PROVE  BreakInv'
<1>1. m # Break /\ m \in Tasks \union {Break}
  BY ItemAssumption DEF Tasks
<1>2. /\ Len(wchan') = Len(wchan) + 1
      /\ \A i \in 1 .. Len(wchan) : wchan'[i] = wchan[i]
      /\ wchan'[Len(wchan) + 1] = m
      /\ Len(posted') = Len(posted) + 1
      /\ Len(wchan) \in Nat /\ Len(posted) \in Nat /\ Len(taken) \in Nat
  BY <1>1, AppendProperties, LenProperties DEF Ground, Streams
<1>3. Broken' <=> Broken
  BY DEF Broken
<1>4. ASSUME ~Broken
      PROVE  /\ \A i \in 1 .. Len(wchan') : wchan'[i] # Break
             /\ Len(posted') = Len(taken') + Len(wchan')
             /\ ~loopbreak'
  BY <1>1, <1>2, <1>4 DEF BreakInv
<1>5. ASSUME NEW i \in 1 .. Len(wchan), BreakAt(i)
      PROVE  i \in 1 .. Len(wchan') /\ BreakAt(i)'
  BY <1>2, <1>5 DEF BreakAt
<1>6. ASSUME Broken, ~loopbreak, wpc' \in Running
      PROVE  \E i \in 1 .. Len(wchan') : BreakAt(i)'
  BY <1>5, <1>6 DEF BreakInv
<1>7. QED
  BY <1>3, <1>4, <1>6 DEF BreakInv

\* A break is posted, by terminate() or by the destructor.
LEMMA BreakBreaks ==
    ASSUME Ground, BreakInv, PostBreak, Broken',
           UNCHANGED <<wpc, loopbreak, posted, taken>>
    PROVE  BreakInv'
<1>1. /\ Len(wchan') = Len(wchan) + 1
      /\ \A i \in 1 .. Len(wchan) : wchan'[i] = wchan[i]
      /\ wchan'[Len(wchan) + 1] = Break
      /\ Len(wchan) \in Nat /\ Len(posted) \in Nat /\ Len(taken) \in Nat
  BY AppendProperties, LenProperties DEF Ground, Streams, PostBreak, Enqueue
<1>2. CASE Broken
  <2>1. due' = due
    BY <1>2, BreaksAssumption DEF PostBreak, Broken, Ground, Streams
  <2>2. ASSUME NEW i \in 1 .. Len(wchan), BreakAt(i)
        PROVE  i \in 1 .. Len(wchan') /\ BreakAt(i)'
    BY <1>1, <2>1, <2>2 DEF BreakAt
  <2>3. ASSUME ~loopbreak, wpc \in Running
        PROVE  \E i \in 1 .. Len(wchan') : BreakAt(i)'
    BY <1>2, <2>2, <2>3 DEF BreakInv
  <2>4. QED
    BY <2>1, <2>3 DEF BreakInv
<1>3. CASE ~Broken
  <2>1. due' = Len(posted) /\ Len(posted) = Len(taken) + Len(wchan) /\ ~loopbreak
    BY <1>3, BreaksAssumption DEF PostBreak, Broken, BreakInv, Ground, Streams
  <2>2. \A i \in 1 .. Len(wchan) : wchan[i] # Break
    BY <1>3 DEF BreakInv
  <2>3. PICK n \in Nat : n = Len(wchan) + 1
    BY <1>1
  <2>4. n \in 1 .. Len(wchan') /\ BreakAt(n)'
    BY <1>1, <2>1, <2>2, <2>3 DEF BreakAt
  <2>5. QED
    BY <2>1, <2>4 DEF BreakInv
<1>4. QED
  BY <1>2, <1>3

LEMMA BreakStep == Ground /\ BreakInv /\ [Next]_vars => BreakInv'
<1> SUFFICES ASSUME Ground, BreakInv, [Next]_vars PROVE BreakInv'
  OBVIOUS
<1> USE DEF mainVars, lifeVars, workVars, history
<1>0. /\ wchan # <<>> => /\ Head(wchan) = wchan[1] /\ Len(wchan) >= 1
                         /\ Len(Tail(wchan)) = Len(wchan) - 1
                         /\ \A i \in 1 .. Len(Tail(wchan)) : Tail(wchan)[i] = wchan[i + 1]
      /\ Len(wchan) \in Nat /\ Len(taken) \in Nat /\ due \in Nat
  BY HeadTailProperties, LenProperties, EmptySeq DEF Ground, Streams
<1>1. CASE UNCHANGED vars
  BY <1>1, BreakQuiet DEF vars, Broken
<1>2. CASE Alloc
  <2>1. /\ Open \in Tasks /\ wchan' = Append(wchan, Open) /\ posted' = Append(posted, Open)
        /\ UNCHANGED <<loopbreak, taken, breaks, due, dpc>> /\ wpc' = "idle" /\ life = "none"
    BY <1>2 DEF Alloc, Enqueue, Tasks
  <2>2. ~Broken
    BY <2>1 DEF Ground, Broken
  <2>3. QED
    BY <2>1, <2>2, BreakPosted
<1>3. CASE Terminate
  BY <1>3, BreakQuiet DEF Terminate, Broken
<1>4. CASE Recycle
  BY <1>4, BreakQuiet DEF Recycle, Broken
<1>5. CASE Finalize
  BY <1>5, BreakQuiet DEF Finalize, Broken
<1>6. CASE \E m \in Posts : Post(m)
  <2>1. PICK m \in Posts : Post(m)
    BY <1>6
  <2>2. /\ m \in Tasks /\ wchan' = Append(wchan, m) /\ posted' = Append(posted, m)
        /\ UNCHANGED <<loopbreak, taken, breaks, due, dpc, wpc>>
    BY <2>1 DEF Post, Enqueue, Tasks
  <2>3. QED
    BY <2>2, BreakPosted
<1>7. CASE TerminatePost
  <2>1. PostBreak /\ breaks' = breaks + 1 /\ UNCHANGED <<wpc, loopbreak, posted, taken>>
    BY <1>7 DEF TerminatePost
  <2>2. Broken'
    BY <2>1, BreaksAssumption DEF Ground, Streams, Broken
  <2>3. QED
    BY <2>1, <2>2, BreakBreaks
<1>8. CASE Hear
  BY <1>8, BreakQuiet DEF Hear, Broken
<1>9. CASE HearReturn
  BY <1>9, BreakQuiet DEF HearReturn, Broken
<1>10. CASE RecycleUnlink
  BY <1>10, BreakQuiet DEF RecycleUnlink, Broken
<1>11. CASE ReleaseReturn
  BY <1>11, BreakQuiet DEF ReleaseReturn, Broken
<1>12. CASE \E d \in {"main", "other"} : Take(d)
  <2>1. dpc = "none" /\ dpc' = "join"
    BY <1>12 DEF Take, Ground
  <2>2. UNCHANGED <<wpc, wchan, loopbreak, posted, taken, breaks, due>>
    BY <1>12 DEF Take
  <2>3. QED
    BY <2>1, <2>2, BreakQuiet DEF Broken
<1>13. CASE TakeSelf
  BY <1>13, BreakQuiet DEF TakeSelf, Broken, Running
<1>14. CASE JoinPost
  <2>1. PostBreak /\ dpc' = "wait" /\ UNCHANGED <<wpc, loopbreak, posted, taken>>
    BY <1>14 DEF JoinPost
  <2>2. Broken'
    BY <2>1 DEF Broken
  <2>3. QED
    BY <2>1, <2>2, BreakBreaks
<1>15. CASE JoinReturn
  BY <1>15, BreakQuiet DEF JoinReturn, Broken
<1>16. CASE FreeMembers
  <2>1. /\ dpc = "members" /\ dpc' = "base"
        /\ UNCHANGED <<wpc, loopbreak, posted, taken, breaks, due>>
    BY <1>16 DEF FreeMembers
  <2>2. Broken /\ Broken' /\ wpc = "exited"
    BY <2>1 DEF Broken, Ground
  <2>3. QED
    BY <2>1, <2>2 DEF BreakInv, Running
<1>17. CASE Unlink
  BY <1>17, BreakQuiet DEF Unlink, Broken
<1>18. CASE WorkBreak
  <2>1. /\ wpc = "idle" /\ wchan # <<>> /\ Head(wchan) = Break /\ loopbreak'
        /\ UNCHANGED <<dpc, wpc, posted, taken, breaks, due>>
    BY <1>18, Zenon DEF WorkBreak
  <2>2. wchan[1] = Break /\ 1 \in 1 .. Len(wchan)
    BY <1>0, <2>1
  <2>3. Broken /\ Broken'
    BY <2>1, <2>2 DEF BreakInv, Broken
  <2>4. Len(taken) >= due
    <3>1. CASE loopbreak
      BY <3>1 DEF BreakInv
    <3>2. CASE ~loopbreak
      <4>1. PICK i \in 1 .. Len(wchan) : BreakAt(i)
        BY <2>1, <2>3, <3>2 DEF BreakInv, Running
      <4>2. i = 1
        BY <2>2, <4>1 DEF BreakAt
      <4>3. QED
        BY <1>0, <4>1, <4>2 DEF BreakAt
    <3>3. QED
      BY <3>1, <3>2
  <2>5. QED
    BY <2>1, <2>3, <2>4 DEF BreakInv
<1>19. CASE WorkReturn
  BY <1>19, BreakQuiet DEF WorkReturn, Broken, Running
<1>20. CASE Exit
  BY <1>20, BreakQuiet DEF Exit, Broken, Running
<1>21. CASE Reply
  BY <1>21, BreakQuiet DEF Reply, Broken, Running
<1>22. CASE Work
  <2>1. /\ wpc = "idle" /\ wchan # <<>> /\ Head(wchan) # Break /\ wchan' = Tail(wchan)
        /\ UNCHANGED <<dpc, loopbreak, posted, breaks, due>>
    BY <1>22 DEF Work
  <2>2. wpc' \in {"script", "discard"} /\ taken' = Append(taken, Head(wchan))
    BY <1>22, <2>1 DEF Work, Ground
  <2>3. Len(taken') = Len(taken) + 1
    <3>1. Head(wchan) \in Tasks
      BY <2>1, HeadTailProperties DEF Ground, Streams
    <3>2. taken \in Seq(Tasks)
      BY DEF Ground, Streams
    <3>3. QED
      BY <2>2, <3>1, <3>2, AppendProperties
  <2>4. Broken' <=> Broken
    BY <2>1 DEF Broken
  <2>5. ASSUME ~Broken
        PROVE  /\ \A i \in 1 .. Len(wchan') : wchan'[i] # Break
               /\ Len(posted') = Len(taken') + Len(wchan')
               /\ ~loopbreak'
    BY <1>0, <2>1, <2>3, <2>5 DEF BreakInv
  <2>6. ASSUME NEW i \in 1 .. Len(wchan), BreakAt(i)
        PROVE  i - 1 \in 1 .. Len(wchan') /\ BreakAt(i - 1)'
    BY <1>0, <2>1, <2>3, <2>6 DEF BreakAt
  <2>7. ASSUME Broken, ~loopbreak
        PROVE  \E i \in 1 .. Len(wchan') : BreakAt(i)'
    BY <2>1, <2>6, <2>7 DEF BreakInv, Running
  <2>8. QED
    BY <1>0, <2>1, <2>2, <2>3, <2>4, <2>5, <2>7 DEF BreakInv
<1>23. CASE ReplyPost
  BY <1>23, BreakQuiet DEF ReplyPost, Broken, Running
<1>24. CASE \E side \in Sides : Listen(side) \/ Unlisten(side)
  BY <1>24, BreakQuiet DEF Listen, Unlisten, Broken
<1>25. QED
  BY <1>1, <1>2, <1>3, <1>4, <1>5, <1>6, <1>7, <1>8, <1>9, <1>10, <1>11, <1>12,
     <1>13, <1>14, <1>15, <1>16, <1>17, <1>18, <1>19, <1>20, <1>21, <1>22, <1>23, <1>24
     DEF Next, MainSteps, WorkSteps, Destroy

LEMMA BreakAlways == Spec => []BreakInv
<1>1. WInv => Ground
  BY TypeSplit DEF WInv, LifeInv, ThreadEndsFirst, Ground
<1>2. Init => BreakInv
  BY WInvInit
<1>3. QED
  BY <1>1, <1>2, Invariance, BreakStep, PTL DEF Spec

\* Neither terminate() nor the destructor cuts the stream off: when the thread has
\* ended, all that was posted before the first break has arrived.
THEOREM StreamNotCut == Spec => []TakenBeforeBreak
<1>1. BreakInv => TakenBeforeBreak
  BY DEF BreakInv, TakenBeforeBreak
<1>2. QED
  BY <1>1, BreakAlways, PTL

-----------------------------------------------------------------------------
(* The two streams.                                                        *)

\* A channel carries what comes after the first n elements of p: c counts how far
\* each item goes.  A break carries nothing.
Counts(c, ch, p, n) ==
    /\ c \in [0 .. Len(ch) -> Nat] /\ c[0] = n /\ c[Len(ch)] = Len(p)
    /\ \A i \in 1 .. Len(ch) :
          IF ch[i] = Break THEN c[i] = c[i - 1]
          ELSE c[i] = c[i - 1] + 1 /\ c[i] <= Len(p) /\ ch[i] = p[c[i]]

Carries(ch, p, n) == \E c : Counts(c, ch, p, n)

LEMMA CarriesBreak ==
    ASSUME NEW ch \in Seq(Tasks \union {Break}), NEW p, NEW n, Carries(ch, p, n)
    PROVE  Carries(Append(ch, Break), p, n)
<1> DEFINE h == Append(ch, Break)
           m == Len(ch)
<1>1. /\ m \in Nat /\ Len(h) = m + 1 /\ h[m + 1] = Break
      /\ \A i \in 1 .. m : h[i] = ch[i]
  BY LenProperties, AppendProperties
<1>2. PICK c : Counts(c, ch, p, n)
  BY DEF Carries
<1> DEFINE d == [i \in 0 .. m + 1 |-> IF i = m + 1 THEN c[m] ELSE c[i]]
<1> HIDE DEF h, m
<1>3. c \in [0 .. m -> Nat] /\ c[0] = n /\ c[m] = Len(p)
  BY <1>2 DEF Counts, m
<1>4. d \in [0 .. m + 1 -> Nat] /\ d[0] = n /\ d[m + 1] = Len(p)
  BY <1>1, <1>3
<1>5. ASSUME NEW i \in 1 .. m + 1
      PROVE  IF h[i] = Break THEN d[i] = d[i - 1]
             ELSE d[i] = d[i - 1] + 1 /\ d[i] <= Len(p) /\ h[i] = p[d[i]]
  <2>1. CASE i = m + 1
    BY <1>1, <2>1
  <2>2. CASE i # m + 1
    <3>1. i \in 1 .. m /\ d[i] = c[i] /\ d[i - 1] = c[i - 1] /\ h[i] = ch[i]
      BY <1>1, <2>2
    <3> QED
      BY <1>2, <3>1 DEF Counts, m
  <2> QED
    BY <2>1, <2>2
<1> HIDE DEF d
<1>6. Counts(d, h, p, n)
  BY <1>1, <1>4, <1>5 DEF Counts
<1> QED
  BY <1>6 DEF Carries, h

LEMMA CarriesTask ==
    ASSUME NEW ch \in Seq(Tasks \union {Break}), NEW p \in Seq(Tasks), NEW n,
           NEW x \in Tasks, Carries(ch, p, n)
    PROVE  Carries(Append(ch, x), Append(p, x), n)
<1> DEFINE h == Append(ch, x)
           q == Append(p, x)
           m == Len(ch)
           l == Len(p)
<1>1. /\ m \in Nat /\ Len(h) = m + 1 /\ h[m + 1] = x
      /\ \A i \in 1 .. m : h[i] = ch[i]
  BY LenProperties, AppendProperties
<1>2. /\ l \in Nat /\ Len(q) = l + 1 /\ q[l + 1] = x
      /\ \A i \in 1 .. l : q[i] = p[i]
  BY LenProperties, AppendProperties
<1>3. PICK c : Counts(c, ch, p, n)
  BY DEF Carries
<1>4. x # Break
  BY ItemAssumption DEF Tasks
<1> DEFINE d == [i \in 0 .. m + 1 |-> IF i = m + 1 THEN l + 1 ELSE c[i]]
<1> HIDE DEF h, q, m, l
<1>5. c \in [0 .. m -> Nat] /\ c[0] = n /\ c[m] = l
  BY <1>3 DEF Counts, m, l
<1>6. d \in [0 .. m + 1 -> Nat] /\ d[0] = n /\ d[m + 1] = l + 1 /\ d[m] = l
  BY <1>1, <1>2, <1>5
<1>7. ASSUME NEW i \in 1 .. m + 1
      PROVE  IF h[i] = Break THEN d[i] = d[i - 1]
             ELSE d[i] = d[i - 1] + 1 /\ d[i] <= Len(q) /\ h[i] = q[d[i]]
  <2>1. CASE i = m + 1
    <3>1. i - 1 = m
      BY <1>1, <2>1
    <3> QED
      BY <1>1, <1>2, <1>4, <1>6, <2>1, <3>1
  <2>2. CASE i # m + 1
    <3>1. i \in 1 .. m /\ d[i] = c[i] /\ d[i - 1] = c[i - 1] /\ h[i] = ch[i]
      BY <1>1, <2>2
    <3>2. IF ch[i] = Break THEN c[i] = c[i - 1]
          ELSE c[i] = c[i - 1] + 1 /\ c[i] <= l /\ ch[i] = p[c[i]]
      BY <1>3, <3>1 DEF Counts, m, l
    <3>3. c[i - 1] \in Nat
      BY <1>1, <1>5, <3>1
    <3>4. ch[i] # Break => c[i] \in 1 .. l
      BY <1>2, <3>2, <3>3
    <3> QED
      BY <1>2, <3>1, <3>2, <3>4
  <2> QED
    BY <2>1, <2>2
<1> HIDE DEF d
<1>8. Counts(d, h, q, n)
  BY <1>1, <1>2, <1>6, <1>7 DEF Counts
<1> QED
  BY <1>8 DEF Carries, h, q

LEMMA CarriesTail ==
    ASSUME NEW ch \in Seq(Tasks \union {Break}), ch # <<>>, NEW p, Len(p) \in Nat,
       NEW n \in Nat,
           Carries(ch, p, n)
    PROVE  /\ Head(ch) = Break => Carries(Tail(ch), p, n)
           /\ Head(ch) # Break => /\ n < Len(p) /\ Head(ch) = p[n + 1]
                                  /\ Carries(Tail(ch), p, n + 1)
<1> DEFINE h == Tail(ch)
           m == Len(ch)
<1>1. /\ m \in Nat /\ m >= 1 /\ Len(h) = m - 1 /\ Head(ch) = ch[1]
      /\ \A i \in 1 .. m - 1 : h[i] = ch[i + 1]
  BY LenProperties, EmptySeq, HeadTailProperties
<1>2. PICK c : Counts(c, ch, p, n)
  BY DEF Carries
<1> DEFINE d == [i \in 0 .. m - 1 |-> c[i + 1]]
<1> HIDE DEF h, m
<1>3. c \in [0 .. m -> Nat] /\ c[0] = n /\ c[m] = Len(p)
  BY <1>2 DEF Counts, m
<1>4. d \in [0 .. m - 1 -> Nat] /\ d[0] = c[1] /\ d[m - 1] = Len(p)
  BY <1>1, <1>3
<1>5. IF ch[1] = Break THEN c[1] = n
      ELSE c[1] = n + 1 /\ c[1] <= Len(p) /\ ch[1] = p[c[1]]
  <2>1. 1 \in 1 .. m /\ 1 - 1 = 0
    BY <1>1
  <2>2. IF ch[1] = Break THEN c[1] = c[1 - 1]
        ELSE c[1] = c[1 - 1] + 1 /\ c[1] <= Len(p) /\ ch[1] = p[c[1]]
    BY <1>2, <2>1 DEF Counts, m
  <2> QED
    BY <1>3, <2>1, <2>2
<1>6. ASSUME NEW i \in 1 .. m - 1
      PROVE  IF h[i] = Break THEN d[i] = d[i - 1]
             ELSE d[i] = d[i - 1] + 1 /\ d[i] <= Len(p) /\ h[i] = p[d[i]]
  <2> DEFINE j == i + 1
  <2>1. j \in 1 .. m /\ d[i] = c[j] /\ d[i - 1] = c[j - 1] /\ h[i] = ch[j]
    BY <1>1
  <2> HIDE DEF j, d
  <2>2. IF ch[j] = Break THEN c[j] = c[j - 1]
        ELSE c[j] = c[j - 1] + 1 /\ c[j] <= Len(p) /\ ch[j] = p[c[j]]
    BY <1>2, <2>1 DEF Counts, m
  <2> QED
    BY <2>1, <2>2
<1> HIDE DEF d
<1>7. Counts(d, h, p, c[1])
  BY <1>1, <1>4, <1>6 DEF Counts
<1>8. Carries(h, p, c[1])
  BY <1>7 DEF Carries
<1>9. CASE ch[1] = Break
  BY <1>1, <1>5, <1>8, <1>9 DEF h
<1>10. CASE ch[1] # Break
  <2>1. c[1] = n + 1 /\ n + 1 <= Len(p) /\ ch[1] = p[n + 1]
    BY <1>5, <1>10
  <2> QED
    BY <1>1, <1>8, <1>10, <2>1 DEF h
<1> QED
  BY <1>9, <1>10

\* What is under way to the main side is what has been replied and not heard
Follows(ch, p, n) ==
    /\ Len(p) = n + Len(ch)
    /\ \A i \in 1 .. Len(ch) : ch[i] = p[n + i]

StreamInv ==
    /\ dpc \notin {"base", "done"} => Carries(wchan, posted, Len(taken))
    /\ wrapper # "finalized" /\ mainq = "live" => Follows(mchan, replied, Len(heard))

LEMMA FollowsMore ==
    ASSUME NEW ch \in Seq(Replies), NEW p \in Seq(Replies), NEW n \in Nat, NEW x \in Replies,
           Follows(ch, p, n)
    PROVE  Follows(Append(ch, x), Append(p, x), n)
<1> DEFINE h == Append(ch, x)
           q == Append(p, x)
<1>1. /\ Len(ch) \in Nat /\ Len(h) = Len(ch) + 1 /\ h[Len(ch) + 1] = x
      /\ \A i \in 1 .. Len(ch) : h[i] = ch[i]
  BY LenProperties, AppendProperties
<1>2. /\ Len(p) \in Nat /\ Len(q) = Len(p) + 1 /\ q[Len(p) + 1] = x
      /\ \A i \in 1 .. Len(p) : q[i] = p[i]
  BY LenProperties, AppendProperties
<1> HIDE DEF h, q
<1>3. Len(q) = n + Len(h)
  BY <1>1, <1>2 DEF Follows
<1>4. ASSUME NEW i \in 1 .. Len(h) PROVE h[i] = q[n + i]
  <2>1. CASE i = Len(ch) + 1
    <3>1. n + i = Len(p) + 1
      BY <1>1, <1>2, <2>1 DEF Follows
    <3> QED
      BY <1>1, <1>2, <2>1, <3>1
  <2>2. CASE i # Len(ch) + 1
    <3>1. i \in 1 .. Len(ch) /\ n + i \in 1 .. Len(p)
      BY <1>1, <1>2, <2>2 DEF Follows
    <3> QED
      BY <1>1, <1>2, <3>1 DEF Follows
  <2> QED
    BY <2>1, <2>2
<1> QED
  BY <1>3, <1>4 DEF Follows, h, q

LEMMA FollowsTail ==
    ASSUME NEW ch \in Seq(Replies), ch # <<>>, NEW p, NEW n \in Nat, Follows(ch, p, n)
    PROVE  n < Len(p) /\ Head(ch) = p[n + 1] /\ Follows(Tail(ch), p, n + 1)
<1> DEFINE h == Tail(ch)
<1>1. /\ Len(ch) \in Nat /\ Len(ch) >= 1 /\ Len(h) = Len(ch) - 1 /\ Head(ch) = ch[1]
      /\ \A i \in 1 .. Len(ch) - 1 : h[i] = ch[i + 1]
  BY LenProperties, EmptySeq, HeadTailProperties
<1> HIDE DEF h
<1>2. Len(p) = n + 1 + Len(h) /\ n < Len(p) /\ ch[1] = p[n + 1]
  BY <1>1 DEF Follows
<1>3. ASSUME NEW i \in 1 .. Len(h) PROVE h[i] = p[n + 1 + i]
  <2> DEFINE j == i + 1
  <2>1. j \in 1 .. Len(ch) /\ n + j = n + 1 + i /\ h[i] = ch[j]
    BY <1>1
  <2> HIDE DEF j
  <2>2. ch[j] = p[n + j]
    BY <2>1 DEF Follows
  <2> QED
    BY <2>1, <2>2
<1> QED
  BY <1>1, <1>2, <1>3 DEF Follows, h

LEMMA StreamInit == Init => StreamInv
<1> SUFFICES ASSUME Init PROVE StreamInv
  OBVIOUS
<1>1. Counts([i \in 0 .. 0 |-> 0], <<>>, <<>>, 0)
  BY DEF Counts
<1> QED
  BY <1>1 DEF Init, StreamInv, Carries, Follows

\* The items go through the channel in the order they were posted.
LEMMA StreamStep == WInv /\ StreamInv /\ [Next]_vars => StreamInv'
<1> SUFFICES ASSUME WInv, StreamInv, [Next]_vars PROVE StreamInv'
  OBVIOUS
<1> USE DEF mainVars, lifeVars, workVars, history
<1>a. /\ wchan \in Seq(Tasks \union {Break}) /\ posted \in Seq(Tasks) /\ taken \in Seq(Tasks)
      /\ mchan \in Seq(Replies) /\ replied \in Seq(Replies) /\ heard \in Seq(Replies)
  BY DEF WInv, TypeOK
<1>b. Len(taken) \in Nat /\ Len(heard) \in Nat /\ Len(posted) \in Nat
  BY <1>a, LenProperties
<1>1. ASSUME UNCHANGED <<wchan, posted, taken, mchan, replied, heard>>,
             dpc' \notin {"base", "done"} => dpc \notin {"base", "done"},
             wrapper' # "finalized" /\ mainq' = "live" => wrapper # "finalized" /\ mainq = "live"
      PROVE  StreamInv'
  BY <1>1 DEF StreamInv
<1>2. ASSUME NEW x \in Tasks, wchan' = Append(wchan, x), posted' = Append(posted, x),
             UNCHANGED <<taken, mchan, replied, heard, dpc, mainq>>,
             wrapper' # "finalized" => wrapper # "finalized"
      PROVE  StreamInv'
  <2>1. dpc \notin {"base", "done"} => Carries(wchan', posted', Len(taken))
    BY <1>a, <1>2, CarriesTask DEF StreamInv
  <2> QED
    BY <1>2, <2>1 DEF StreamInv
<1>3. ASSUME PostBreak, UNCHANGED <<posted, taken, mchan, replied, heard, mainq, wrapper>>,
             dpc' \notin {"base", "done"} => dpc \notin {"base", "done"}
      PROVE  StreamInv'
  <2>1. dpc \notin {"base", "done"} => Carries(wchan', posted, Len(taken))
    BY <1>a, <1>3, CarriesBreak DEF StreamInv, PostBreak, Enqueue
  <2> QED
    BY <1>3, <2>1 DEF StreamInv
<1>4. CASE Alloc
  <2>1. Open \in Tasks
    BY DEF Tasks
  <2> QED
    BY <1>2, <1>4, <2>1 DEF Alloc, Enqueue, WInv, LifeInv
<1>5. ASSUME NEW m \in Posts, Post(m) PROVE StreamInv'
  <2>1. m \in Tasks
    BY DEF Tasks
  <2> QED
    BY <1>2, <1>5, <2>1 DEF Post, Enqueue
<1>6. CASE TerminatePost
  BY <1>3, <1>6 DEF TerminatePost
<1>7. CASE JoinPost
  BY <1>3, <1>7 DEF JoinPost
<1>8. CASE Hear
  <2>1. UNCHANGED <<wchan, posted, taken, replied, dpc, wrapper, mainq>>
        /\ mainq = "live" /\ mchan # <<>> /\ mchan' = Tail(mchan)
    BY <1>8 DEF Hear
  <2>2. CASE wrapper = "finalized"
    BY <2>1, <2>2 DEF StreamInv
  <2>3. CASE wrapper # "finalized"
    <3>1. wrapper = "live"
      <4>1. wrapper # "none"
        BY <2>1 DEF WInv, LifeInv
      <4> QED
        BY <2>3, <4>1 DEF WInv, TypeOK
    <3>2. heard' = Append(heard, Head(mchan))
      BY <1>8, <3>1 DEF Hear, WInv, LifeInv
    <3>3. Follows(mchan, replied, Len(heard))
      BY <2>1, <2>3 DEF StreamInv
    <3>4. Follows(mchan', replied, Len(heard) + 1)
      BY <1>a, <1>b, <2>1, <3>3, FollowsTail
    <3>5. Len(heard') = Len(heard) + 1
      BY <1>a, <2>1, <3>2, HeadTailProperties, AppendProperties
    <3> QED
      BY <2>1, <3>4, <3>5 DEF StreamInv
  <2> QED
    BY <2>2, <2>3
<1>9. CASE Recycle
  BY <1>9 DEF Recycle, StreamInv
<1>10. CASE FreeMembers
  BY <1>10 DEF FreeMembers, StreamInv
<1>11. CASE WorkBreak \/ Work
  <2>1. /\ UNCHANGED <<posted, mchan, replied, heard, dpc, wrapper, mainq>>
        /\ wpc = "idle" /\ wchan # <<>> /\ wchan' = Tail(wchan)
    BY <1>11 DEF WorkBreak, Work
  <2>2. dpc \notin {"base", "done"}
    BY <2>1 DEF WInv, ThreadEndsFirst
  <2>3. Carries(wchan, posted, Len(taken))
    BY <2>2 DEF StreamInv
  <2>4. CASE WorkBreak
    <3>1. Carries(wchan', posted, Len(taken))
      BY <1>a, <1>b, <2>1, <2>3, <2>4, CarriesTail DEF WorkBreak
    <3> QED
      BY <2>1, <2>4, <3>1 DEF WorkBreak, StreamInv
  <2>5. CASE Work
    <3>1. Carries(wchan', posted, Len(taken) + 1)
      BY <1>a, <1>b, <2>1, <2>3, <2>5, CarriesTail DEF Work
    <3>2. taken' = Append(taken, Head(wchan))
      BY <2>2, <2>5 DEF Work, WInv, LifeInv
    <3>3. Head(wchan) \in Tasks
      <4>1. Head(wchan) \in Tasks \union {Break} /\ Head(wchan) # Break
        BY <1>a, <2>1, <2>5, HeadTailProperties DEF Work
      <4> QED
        BY <4>1
    <3>4. Len(taken') = Len(taken) + 1
      BY <1>a, <3>2, <3>3, AppendProperties
    <3> QED
      BY <2>1, <3>1, <3>4 DEF StreamInv
  <2> QED
    BY <1>11, <2>4, <2>5
<1>12. CASE ReplyPost
  <2>1. UNCHANGED <<wchan, posted, taken, heard, dpc, wrapper, mainq>>
    BY <1>12 DEF ReplyPost
  <2>2. CASE mainq = "live"
    <3>1. PICK r \in Replies : mchan' = Append(mchan, r) /\ replied' = Append(replied, r)
      BY <1>12, <2>2 DEF ReplyPost, NewReplies
    <3>2. wrapper # "finalized" => Follows(mchan', replied', Len(heard))
      BY <1>a, <1>b, <2>2, <3>1, FollowsMore DEF StreamInv
    <3> QED
      BY <2>1, <3>2 DEF StreamInv
  <2>3. CASE mainq # "live"
    BY <2>1, <2>3 DEF StreamInv
  <2> QED
    BY <2>2, <2>3
<1>13. CASE Terminate
  BY <1>1, <1>13 DEF Terminate
<1>17. CASE Finalize
  BY <1>1, <1>17 DEF Finalize
<1>18. CASE HearReturn
  BY <1>1, <1>18 DEF HearReturn
<1>19. CASE RecycleUnlink
  BY <1>1, <1>19 DEF RecycleUnlink
<1>20. CASE ReleaseReturn
  BY <1>1, <1>20 DEF ReleaseReturn
<1>14. ASSUME NEW d \in {"main", "other"}, Take(d) PROVE StreamInv'
  BY <1>1, <1>14 DEF Take, WInv, LifeInv
<1>21. CASE TakeSelf
  BY <1>1, <1>21 DEF TakeSelf
<1>22. CASE JoinReturn
  BY <1>1, <1>22 DEF JoinReturn
<1>23. CASE Unlink
  BY <1>1, <1>23 DEF Unlink
<1>15. CASE WorkReturn \/ Exit \/ Reply
  BY <1>1, <1>15 DEF WorkReturn, Exit, Reply
<1>16. CASE UNCHANGED vars
  BY <1>1, <1>16 DEF vars
<1>24. CASE \E side \in Sides : Listen(side) \/ Unlisten(side)
  BY <1>1, <1>24 DEF Listen, Unlisten
<1> QED
  BY <1>4, <1>5, <1>6, <1>7, <1>8, <1>9, <1>10, <1>11, <1>12, <1>13, <1>14, <1>15, <1>16,
   <1>17, <1>18, <1>19, <1>20, <1>21, <1>22, <1>23, <1>24
   DEF Next, MainSteps, WorkSteps, Destroy

LEMMA StreamAlways == Spec => [](WInv /\ StreamInv)
BY StreamInit, StreamStep, WInvInit, WInvStep, PTL DEF Spec

-----------------------------------------------------------------------------
(* Both streams are task queues.                                           *)

LEMMA ToWorkerStep ==
    ASSUME WInv, StreamInv, [Next]_vars
    PROVE  [ToWorker!Next]_ToWorker!vars
<1> USE DEF mainVars, lifeVars, workVars, history
<1>1. ASSUME UNCHANGED <<posted, taken, wpc>> PROVE UNCHANGED ToWorker!vars
  BY <1>1 DEF ToWorker!vars
<1>2. CASE Alloc
  <2>1. wpc = "none" /\ wpc' = "idle" /\ posted' = Append(posted, Open) /\ taken' = taken
    BY <1>2 DEF Alloc, WInv, LifeInv
  <2>2. Open \in Tasks
    BY DEF Tasks
  <2> QED
    BY <2>1, <2>2 DEF ToWorker!Submit, ToWorker!Next
<1>3. ASSUME NEW m \in Posts, Post(m) PROVE [ToWorker!Next]_ToWorker!vars
  <2>1. m \in Tasks
    BY DEF Tasks
  <2> QED
    BY <1>3, <2>1 DEF Post, ToWorker!Submit, ToWorker!Next
<1>4. CASE Work
  <2>1. wpc = "idle" /\ wpc' \in {"script", "discard"} /\ wchan # <<>> /\ Head(wchan) # Break
        /\ posted' = posted /\ taken' = Append(taken, Head(wchan))
    BY <1>4 DEF Work, WInv, LifeInv, ThreadEndsFirst
  <2>2. Carries(wchan, posted, Len(taken))
    BY <2>1 DEF StreamInv, WInv, ThreadEndsFirst
  <2>3. /\ wchan \in Seq(Tasks \union {Break}) /\ Len(posted) \in Nat /\ Len(taken) \in Nat
    BY LenProperties DEF WInv, TypeOK
  <2>4. Len(taken) < Len(posted) /\ Head(wchan) = posted[Len(taken) + 1]
    BY <2>1, <2>2, <2>3, CarriesTail
  <2>5. ToWorker!Begin
    BY <2>1, <2>4 DEF ToWorker!Begin
  <2> QED
    BY <2>5 DEF ToWorker!Next
<1>5. CASE WorkReturn
  BY <1>5 DEF WorkReturn, ToWorker!End, ToWorker!Next
<1>6. CASE TakeSelf
  <2>1. wpc \in {"idle", "script", "posting"} /\ wpc' = "undefined"
        /\ UNCHANGED <<posted, taken>>
    BY <1>6 DEF TakeSelf
  <2>2. CASE wpc = "idle"
    BY <2>1, <2>2 DEF ToWorker!vars
  <2>3. CASE wpc # "idle"
    BY <2>1, <2>3 DEF ToWorker!End, ToWorker!Next
  <2> QED
    BY <2>2, <2>3
<1>7. CASE Exit
  BY <1>7 DEF Exit, ToWorker!Stop, ToWorker!Next
<1>8. CASE Reply
  BY <1>8 DEF Reply, ToWorker!vars
<1>9. CASE ReplyPost
  BY <1>9 DEF ReplyPost, ToWorker!vars
<1>10. CASE Terminate \/ TerminatePost \/ Recycle \/ RecycleUnlink
  BY <1>1, <1>10 DEF Terminate, TerminatePost, Recycle, RecycleUnlink
<1>11. CASE Hear \/ HearReturn \/ Finalize \/ ReleaseReturn
  BY <1>1, <1>11 DEF Hear, HearReturn, Finalize, ReleaseReturn
<1>12. ASSUME NEW d \in {"main", "other"}, Take(d) PROVE UNCHANGED ToWorker!vars
  BY <1>1, <1>12 DEF Take
<1>13. CASE JoinPost \/ JoinReturn \/ FreeMembers \/ Unlink \/ WorkBreak
  BY <1>1, <1>13 DEF JoinPost, JoinReturn, FreeMembers, Unlink, WorkBreak
<1>14. CASE UNCHANGED vars
  BY <1>1, <1>14 DEF vars
<1>15. CASE \E side \in Sides : Listen(side) \/ Unlisten(side)
  BY <1>1, <1>15 DEF Listen, Unlisten
<1> QED
  BY <1>2, <1>3, <1>4, <1>5, <1>6, <1>7, <1>8, <1>9, <1>10, <1>11, <1>12, <1>13, <1>14,
     <1>15
     DEF Next, MainSteps, WorkSteps, Destroy

LEMMA ToMainStep ==
    ASSUME WInv, StreamInv, [Next]_vars
    PROVE  [ToMain!Next]_ToMain!vars
<1> USE DEF mainVars, lifeVars, workVars, history
<1>1. ASSUME UNCHANGED <<replied, heard, mpc, mainq, wrapper>> PROVE UNCHANGED ToMain!vars
  BY <1>1 DEF ToMain!vars
<1>2. CASE Alloc
  <2>1. mainq = "live" /\ wrapper # "finalized" /\ wrapper' = "live"
        /\ UNCHANGED <<replied, heard, mpc, mainq>>
    BY <1>2 DEF Alloc, WInv, LifeInv
  <2> QED
    BY <2>1 DEF ToMain!vars
<1>3. CASE ReplyPost
  <2>1. UNCHANGED <<heard, mpc, mainq, wrapper>>
    BY <1>3 DEF ReplyPost
  <2>2. CASE mainq = "live"
    <3>1. PICK r \in Replies : replied' = Append(replied, r)
      BY <1>3, <2>2 DEF ReplyPost, NewReplies
    <3>2. ToMain!Submit(r)
      BY <2>1, <3>1 DEF ToMain!Submit
    <3> QED
      BY <3>2 DEF ToMain!Next
  <2>3. CASE mainq # "live"
    BY <1>1, <1>3, <2>1, <2>3 DEF ReplyPost
  <2> QED
    BY <2>2, <2>3
<1>4. CASE Hear
  <2>1. /\ mpc = "loop" /\ mainq = "live" /\ mchan # <<>>
        /\ UNCHANGED <<replied, mainq, wrapper>>
    BY <1>4 DEF Hear
  <2>2. CASE wrapper = "live"
    <3>1. mpc' \in {"fn", "discard"} /\ heard' = Append(heard, Head(mchan))
      BY <1>4, <2>2 DEF Hear, WInv, LifeInv
    <3>2. Follows(mchan, replied, Len(heard))
      BY <2>1, <2>2 DEF StreamInv
    <3>3. mchan \in Seq(Replies) /\ Len(heard) \in Nat
      BY LenProperties DEF WInv, TypeOK
    <3>4. Len(heard) < Len(replied) /\ Head(mchan) = replied[Len(heard) + 1]
      BY <2>1, <3>2, <3>3, FollowsTail
    <3>5. ToMain!Begin
      BY <2>1, <2>2, <3>1, <3>4 DEF ToMain!Begin
    <3> QED
      BY <3>5 DEF ToMain!Next
  <2>3. CASE wrapper # "live"
    BY <1>1, <1>4, <2>1, <2>3 DEF Hear
  <2> QED
    BY <2>2, <2>3
<1>5. CASE HearReturn
  BY <1>5 DEF HearReturn, ToMain!End, ToMain!Next
<1>6. CASE Recycle
  BY <1>6 DEF Recycle, ToMain!Stop, ToMain!Next
<1>7. CASE RecycleUnlink
  BY <1>7 DEF RecycleUnlink, ToMain!vars
<1>8. CASE Finalize
  BY <1>8 DEF Finalize, ToMain!Stop, ToMain!Next
<1>9. CASE ReleaseReturn
  BY <1>9 DEF ReleaseReturn, ToMain!vars
<1>10. ASSUME NEW m \in Posts, Post(m) PROVE UNCHANGED ToMain!vars
  BY <1>1, <1>10 DEF Post
<1>11. CASE Terminate \/ TerminatePost \/ TakeSelf
  BY <1>1, <1>11 DEF Terminate, TerminatePost, TakeSelf
<1>12. ASSUME NEW d \in {"main", "other"}, Take(d) PROVE UNCHANGED ToMain!vars
  BY <1>1, <1>12 DEF Take
<1>13. CASE JoinPost \/ JoinReturn \/ FreeMembers \/ Unlink
  BY <1>1, <1>13 DEF JoinPost, JoinReturn, FreeMembers, Unlink
<1>14. CASE WorkBreak \/ Work \/ WorkReturn \/ Exit \/ Reply
  BY <1>1, <1>14 DEF WorkBreak, Work, WorkReturn, Exit, Reply
<1>15. CASE UNCHANGED vars
  BY <1>1, <1>15 DEF vars
<1>16. CASE \E side \in Sides : Listen(side) \/ Unlisten(side)
  BY <1>1, <1>16 DEF Listen, Unlisten
<1> QED
  BY <1>2, <1>3, <1>4, <1>5, <1>6, <1>7, <1>8, <1>9, <1>10, <1>11, <1>12, <1>13, <1>14,
     <1>15, <1>16 DEF Next, MainSteps, WorkSteps, Destroy

\* In both directions a WebWorker is a TaskQueue: its messages arrive at the other
\* side at most once, in the order of posting and one at a time, whatever the breaks
\* among them, and none after the wrapper or the main queue has gone.
THEOREM StreamsOrdered == Spec => TwoStreams
<1>1. Init => ToWorker!Init /\ ToMain!Init
  BY DEF Init, ToWorker!Init, ToMain!Init
<1>2. Spec => ToWorker!Spec
  BY <1>1, StreamAlways, ToWorkerStep, PTL DEF Spec, ToWorker!Spec
<1>3. Spec => ToMain!Spec
  BY <1>1, StreamAlways, ToMainStep, PTL DEF Spec, ToMain!Spec
<1> QED
  BY <1>2, <1>3 DEF TwoStreams

-----------------------------------------------------------------------------
(* Nothing is lost on the way, and the destructor's wait is answered.      *)

\* s is what t begins with.
Prefix(s, t) == Len(s) <= Len(t) /\ \A i \in 1 .. Len(s) : s[i] = t[i]

\* What p has beyond its first n elements stands in the channel ch.
Queued(ch, p, n) ==
    \A i \in 1 .. Len(p) : n < i => \E k \in 1 .. Len(ch) : ch[k] = p[i]

Distinct(p) == \A i, j \in 1 .. Len(p) : p[i] = p[j] => i = j

\* What arrived on each side is a prefix of what the other posted, and the rest is under
\* way until the queue that carries it is deleted, or the wrapper is finalized.  What
\* arrived was given to onmessage, or the script had been run and had set none.
MessagesKept ==
    /\ DiscardsExplained
    /\ Prefix(taken, posted) /\ Prefix(heard, replied)
    /\ dpc \notin {"base", "done"} => Queued(wchan, posted, Len(taken))
    /\ wrapper # "finalized" /\ mainq = "live" => Queued(mchan, replied, Len(heard))

LEMMA AppendFacts ==
    ASSUME NEW S, NEW s \in Seq(S), NEW x \in S
    PROVE  /\ Len(Append(s, x)) = Len(s) + 1 /\ Len(s) \in Nat
           /\ \A i \in 1 .. Len(s) : Append(s, x)[i] = s[i]
           /\ Append(s, x)[Len(s) + 1] = x
           /\ \A i \in 1 .. Len(Append(s, x)) : i \in 1 .. Len(s) \/ i = Len(s) + 1
BY LenProperties, AppendProperties

\* The longer one grows, or the shorter one by the element that is next.
LEMMA PrefixGrows ==
    ASSUME NEW S, NEW s \in Seq(S), NEW t \in Seq(S), NEW x \in S, Prefix(s, t)
    PROVE  Prefix(s, Append(t, x))
BY AppendFacts, LenProperties DEF Prefix

LEMMA PrefixNext ==
    ASSUME NEW S, NEW s \in Seq(S), NEW t \in Seq(S), Prefix(s, t), Len(s) < Len(t)
    PROVE  Prefix(Append(s, t[Len(s) + 1]), t)
<1>1. Len(s) \in Nat /\ Len(t) \in Nat
  BY LenProperties
<1>2. Len(s) + 1 \in 1 .. Len(t)
  BY <1>1
<1>3. t[Len(s) + 1] \in S
  BY <1>2, ElementOfSeq
<1> DEFINE x == t[Len(s) + 1]
           a == Append(s, x)
<1>4. /\ Len(a) = Len(s) + 1 /\ a[Len(s) + 1] = x
      /\ \A i \in 1 .. Len(s) : a[i] = s[i]
      /\ \A i \in 1 .. Len(a) : i \in 1 .. Len(s) \/ i = Len(s) + 1
  BY <1>3, AppendFacts
<1> HIDE DEF a
<1>5. \A i \in 1 .. Len(a) : a[i] = t[i]
  BY <1>4 DEF Prefix
<1> QED
  BY <1>1, <1>4, <1>5 DEF Prefix, a

LEMMA DistinctGrows ==
    ASSUME NEW S, NEW p \in Seq(S), NEW x \in S, Distinct(p),
           \A i \in 1 .. Len(p) : p[i] # x
    PROVE  Distinct(Append(p, x))
<1> DEFINE q == Append(p, x)
<1>1. /\ Len(q) = Len(p) + 1 /\ q[Len(p) + 1] = x
      /\ \A i \in 1 .. Len(p) : q[i] = p[i]
      /\ \A i \in 1 .. Len(q) : i \in 1 .. Len(p) \/ i = Len(p) + 1
  BY AppendFacts
<1> HIDE DEF q
<1>2. Distinct(q)
  BY <1>1 DEF Distinct
<1> QED
  BY <1>2 DEF q

\* Another item enters the channel, and with it the stream or not.
LEMMA QueuedMore ==
    ASSUME NEW S, NEW ch \in Seq(S), NEW p, NEW n, NEW x \in S, Queued(ch, p, n)
    PROVE  Queued(Append(ch, x), p, n)
<1> DEFINE h == Append(ch, x)
<1>1. /\ Len(h) = Len(ch) + 1 /\ Len(ch) \in Nat
      /\ \A i \in 1 .. Len(ch) : h[i] = ch[i]
  BY AppendFacts
<1> HIDE DEF h
<1>2. \A k \in 1 .. Len(ch) : k \in 1 .. Len(h) /\ h[k] = ch[k]
  BY <1>1
<1>3. Queued(h, p, n)
  BY <1>2 DEF Queued
<1> QED
  BY <1>3 DEF h

LEMMA QueuedBoth ==
    ASSUME NEW S, NEW ch \in Seq(S), NEW T, NEW p \in Seq(T), NEW n, NEW x \in S \intersect T,
           Queued(ch, p, n)
    PROVE  Queued(Append(ch, x), Append(p, x), n)
<1> DEFINE h == Append(ch, x)
           q == Append(p, x)
<1>1. Queued(h, p, n)
  BY QueuedMore
<1>2. /\ \A i \in 1 .. Len(p) : q[i] = p[i]
      /\ q[Len(p) + 1] = x
      /\ \A i \in 1 .. Len(q) : i \in 1 .. Len(p) \/ i = Len(p) + 1
  BY AppendFacts
<1>3. Len(ch) + 1 \in 1 .. Len(h) /\ h[Len(ch) + 1] = x
  BY AppendFacts
<1> HIDE DEF h, q
<1>4. Queued(h, q, n)
  BY <1>1, <1>2, <1>3 DEF Queued
<1> QED
  BY <1>4 DEF h, q

\* What leaves the channel is not among the items still due.
LEMMA QueuedTail ==
    ASSUME NEW S, NEW ch \in Seq(S), ch # <<>>, NEW p, NEW n \in Nat, NEW m \in Nat, n <= m,
           Len(p) \in Nat, Queued(ch, p, n),
           \A i \in 1 .. Len(p) : m < i => p[i] # Head(ch)
    PROVE  Queued(Tail(ch), p, m)
<1> DEFINE h == Tail(ch)
<1>1. /\ Len(ch) \in Nat /\ Len(h) = Len(ch) - 1 /\ Head(ch) = ch[1]
      /\ \A i \in 1 .. Len(ch) - 1 : h[i] = ch[i + 1]
  BY LenProperties, EmptySeq, HeadTailProperties
<1> HIDE DEF h
<1>2. ASSUME NEW i \in 1 .. Len(p), m < i PROVE \E k \in 1 .. Len(h) : h[k] = p[i]
  <2>1. n < i
    BY <1>2
  <2>2. PICK k \in 1 .. Len(ch) : ch[k] = p[i]
    BY <2>1 DEF Queued
  <2>3. k # 1
    BY <1>1, <1>2, <2>2
  <2> DEFINE j == k - 1
  <2>4. j \in 1 .. Len(h) /\ j \in 1 .. Len(ch) - 1 /\ j + 1 = k
    BY <1>1, <2>3
  <2> HIDE DEF j
  <2>5. h[j] = p[i]
    BY <1>1, <2>2, <2>4
  <2> QED
    BY <2>4, <2>5
<1>3. Queued(h, p, m)
  BY <1>2 DEF Queued
<1> QED
  BY <1>3 DEF h

\* A message and the item that carries it are as new as each other.
NewItem(x) ==
    /\ x \in Tasks /\ \A i \in 1 .. Len(posted) : posted[i] # x
    /\ wchan' = Append(wchan, x) /\ posted' = Append(posted, x)
    /\ UNCHANGED <<taken, dpc>>

NextItem ==
    /\ wchan # <<>> /\ wchan' = Tail(wchan)
    /\ Len(taken) < Len(posted) /\ Head(wchan) = posted[Len(taken) + 1]
    /\ taken' = Append(taken, posted[Len(taken) + 1])
    /\ UNCHANGED <<posted, dpc>>

\* Seen from the worker's stream, a step posts a message or a break, takes the next
\* one of either, deletes the queue, or does nothing.
LEMMA WorkerStreamSteps ==
    ASSUME WInv, StreamInv, [Next]_vars
    PROVE  \/ \E x \in Tasks : NewItem(x)
           \/ NextItem
           \/ /\ UNCHANGED <<posted, taken>>
              /\ \/ UNCHANGED wchan \/ wchan' = Append(wchan, Break) \/ WorkBreak
                 \/ dpc' \in {"base", "done"}
              /\ dpc' \notin {"base", "done"} => dpc \notin {"base", "done"}
<1> USE DEF mainVars, lifeVars, workVars, history
<1>1. CASE Alloc
  <2>1. posted = <<>> /\ Open \in Tasks
    BY <1>1 DEF Alloc, WInv, LifeInv, Tasks
  <2>2. Len(posted) = 0
    BY <2>1, EmptySeq
  <2>3. NewItem(Open)
    BY <1>1, <2>1, <2>2 DEF Alloc, Enqueue, NewItem
  <2> QED
    BY <2>1, <2>3
<1>2. ASSUME NEW m \in Posts, Post(m) PROVE \E x \in Tasks : NewItem(x)
  <2>1. m \in Tasks /\ NewItem(m)
    BY <1>2 DEF Post, Enqueue, NewItem, Tasks
  <2> QED
    BY <2>1
<1>3. CASE Work
  <2>1. /\ wpc = "idle" /\ wchan # <<>> /\ Head(wchan) # Break /\ wchan' = Tail(wchan)
        /\ UNCHANGED <<posted, dpc>>
    BY <1>3 DEF Work
  <2>2. dpc \notin {"base", "done"} /\ life # "freed"
    BY <2>1 DEF WInv, LifeInv, ThreadEndsFirst
  <2>3. taken' = Append(taken, Head(wchan))
    BY <1>3, <2>2 DEF Work
  <2>4. Len(posted) \in Nat /\ Len(taken) \in Nat /\ wchan \in Seq(Tasks \union {Break})
    BY LenProperties DEF WInv, TypeOK
  <2>5. Len(taken) < Len(posted) /\ Head(wchan) = posted[Len(taken) + 1]
    BY <2>1, <2>2, <2>4, CarriesTail DEF StreamInv
  <2>6. NextItem
    BY <2>1, <2>3, <2>5 DEF NextItem
  <2> QED
    BY <2>6
<1>4. CASE WorkBreak
  BY <1>4 DEF WorkBreak
<1>5. CASE TerminatePost
  BY <1>5 DEF TerminatePost, PostBreak, Enqueue
<1>6. CASE JoinPost
  BY <1>6 DEF JoinPost, PostBreak, Enqueue
<1>7. CASE FreeMembers
  BY <1>7 DEF FreeMembers
<1>8. CASE JoinReturn \/ Unlink
  BY <1>8 DEF JoinReturn, Unlink
<1>9. CASE Terminate \/ Recycle \/ RecycleUnlink \/ Finalize \/ ReleaseReturn
  BY <1>9 DEF Terminate, Recycle, RecycleUnlink, Finalize, ReleaseReturn
<1>10. CASE Hear \/ HearReturn
  BY <1>10 DEF Hear, HearReturn
<1>11. CASE \E d \in {"main", "other"} : Take(d)
  <2>1. dpc = "none"
    BY <1>11 DEF Take, WInv, LifeInv
  <2> QED
    BY <1>11, <2>1 DEF Take
<1>12. CASE TakeSelf \/ WorkReturn \/ Exit \/ Reply
  BY <1>12 DEF TakeSelf, WorkReturn, Exit, Reply
<1>13. CASE ReplyPost
  BY <1>13 DEF ReplyPost
<1>14. CASE UNCHANGED vars
  BY <1>14 DEF vars
<1>15. CASE \E side \in Sides : Listen(side) \/ Unlisten(side)
  BY <1>15 DEF Listen, Unlisten
<1> QED
  BY <1>1, <1>2, <1>3, <1>4, <1>5, <1>6, <1>7, <1>8, <1>9, <1>10, <1>11, <1>12, <1>13, <1>14,
     <1>15
     DEF Next, MainSteps, WorkSteps, Destroy

WorkerKept ==
    /\ Distinct(posted) /\ Prefix(taken, posted)
    /\ dpc \notin {"base", "done"} => Queued(wchan, posted, Len(taken))

LEMMA WorkerKeptStep ==
    ASSUME WInv, StreamInv, WorkerKept, [Next]_vars
    PROVE  WorkerKept'
<1> DEFINE Items == Tasks \union {Break}
<1>1. /\ wchan \in Seq(Items) /\ posted \in Seq(Tasks) /\ taken \in Seq(Tasks)
      /\ Len(posted) \in Nat /\ Len(taken) \in Nat
  BY LenProperties DEF WInv, TypeOK
<1>2. ASSUME NEW x \in Tasks, NewItem(x) PROVE WorkerKept'
  <2>1. x \in Items \intersect Tasks
    OBVIOUS
  <2>2. Distinct(posted') /\ Prefix(taken', posted')
    BY <1>1, <1>2, DistinctGrows, PrefixGrows DEF NewItem, WorkerKept
  <2>3. dpc \notin {"base", "done"} => Queued(wchan', posted', Len(taken))
    BY <1>1, <1>2, <2>1, QueuedBoth DEF NewItem, WorkerKept
  <2> QED
    BY <1>2, <2>2, <2>3 DEF NewItem, WorkerKept
<1>3. CASE NextItem
  <2>1. Prefix(taken', posted) /\ Len(taken') = Len(taken) + 1
    <3>1. Len(taken) + 1 \in 1 .. Len(posted)
      BY <1>1, <1>3 DEF NextItem
    <3>2. posted[Len(taken) + 1] \in Tasks
      BY <1>1, <3>1, ElementOfSeq
    <3> QED
      BY <1>1, <1>3, <3>2, PrefixNext, AppendFacts DEF NextItem, WorkerKept
  <2>2. ASSUME dpc \notin {"base", "done"} PROVE Queued(wchan', posted, Len(taken) + 1)
    <3> DEFINE m == Len(taken) + 1
    <3>1. m \in Nat /\ Len(taken) <= m /\ m \in 1 .. Len(posted)
      BY <1>1, <1>3 DEF NextItem
    <3>2. wchan # <<>> /\ wchan' = Tail(wchan) /\ Head(wchan) = posted[m]
      BY <1>3 DEF NextItem
    <3>3. Queued(wchan, posted, Len(taken))
      BY <2>2 DEF WorkerKept
    <3> HIDE DEF m
    <3>4. \A i \in 1 .. Len(posted) : m < i => posted[i] # Head(wchan)
      BY <3>1, <3>2 DEF WorkerKept, Distinct
    <3>5. Queued(wchan', posted, m)
      BY <1>1, <3>1, <3>2, <3>3, <3>4, QueuedTail
    <3> QED
      BY <3>5 DEF m
  <2> QED
    BY <1>3, <2>1, <2>2 DEF NextItem, WorkerKept
<1>4. ASSUME UNCHANGED <<posted, taken>>,
             dpc' \notin {"base", "done"} => dpc \notin {"base", "done"},
             \/ UNCHANGED wchan \/ wchan' = Append(wchan, Break) \/ WorkBreak
             \/ dpc' \in {"base", "done"}
      PROVE  WorkerKept'
  <2>1. ASSUME dpc' \notin {"base", "done"} PROVE Queued(wchan', posted, Len(taken))
    <3>1. Queued(wchan, posted, Len(taken))
      BY <1>4, <2>1 DEF WorkerKept
    <3>2. CASE UNCHANGED wchan
      BY <3>1, <3>2
    <3>3. CASE wchan' = Append(wchan, Break)
      BY <1>1, <3>1, <3>3, QueuedMore
    <3>4. CASE WorkBreak
      <4>1. \A i \in 1 .. Len(posted) : posted[i] \in Tasks
        BY <1>1, ElementOfSeq
      <4>2. Break \notin Tasks
        BY ItemAssumption DEF Tasks
      <4> QED
        BY <1>1, <3>1, <3>4, <4>1, <4>2, QueuedTail DEF WorkBreak
    <3> QED
      BY <1>4, <2>1, <3>2, <3>3, <3>4
  <2> QED
    BY <1>4, <2>1 DEF WorkerKept
<1> QED
  BY <1>2, <1>3, <1>4, WorkerStreamSteps

\* What the main script heard is a prefix of what was replied; the rest follows from
\* the order of the main channel.
LEMMA HeardStep ==
    ASSUME WInv, StreamInv, Prefix(heard, replied), [Next]_vars
    PROVE  Prefix(heard, replied)'
<1>1. replied \in Seq(Replies) /\ heard \in Seq(Replies)
  BY DEF WInv, TypeOK
<1>2. CASE \E r \in Replies : ToMain!Submit(r) \/ ToMain!SubmitAndEnd(r)
  <2>1. PICK r \in Replies : replied' = Append(replied, r) /\ heard' = heard
    BY <1>2 DEF ToMain!Submit, ToMain!SubmitAndEnd
  <2> QED
    BY <1>1, <2>1, PrefixGrows
<1>3. CASE ToMain!Begin
  BY <1>1, <1>3, PrefixNext DEF ToMain!Begin
<1>4. CASE ToMain!End \/ ToMain!Stop \/ UNCHANGED ToMain!vars
  BY <1>4 DEF ToMain!End, ToMain!Stop, ToMain!vars
<1> QED
  BY <1>2, <1>3, <1>4, ToMainStep DEF ToMain!Next

\* The worker's script is opened before anything else is posted; a message is discarded
\* while nothing can set the onmessage that was found missing.
EarInv ==
    /\ life # "none" => Len(posted) > 0 /\ posted[1] = Open
    /\ wpc = "discard" => "worker" \notin listening /\ Len(taken) > 1
    /\ mpc = "discard" => "main" \notin listening

LEMMA EarStep ==
    ASSUME WInv, StreamInv, EarInv, [Next]_vars
    PROVE  EarInv'
<1> USE DEF EarInv, mainVars, lifeVars, workVars, history
<1>a. /\ posted \in Seq(Tasks) /\ Len(posted) \in Nat /\ Open \in Tasks
      /\ taken \in Seq(Tasks) /\ Len(taken) \in Nat
  BY LenProperties DEF WInv, TypeOK, Tasks
<1>1. CASE Alloc
  <2>1. /\ posted = <<>> /\ posted' = Append(posted, Open)
        /\ life' = "live" /\ wpc' = "idle" /\ mpc' = mpc /\ mpc # "discard"
    BY <1>1 DEF Alloc, MainScript, WInv, LifeInv
  <2>2. Len(posted') = 1 /\ posted'[1] = Open
    BY <1>a, <2>1, AppendFacts, EmptySeq
  <2> QED
    BY <2>1, <2>2
<1>2. ASSUME NEW m \in Posts, Post(m) PROVE EarInv'
  <2>1. /\ posted' = Append(posted, m) /\ m \in Tasks /\ life # "none"
        /\ UNCHANGED <<life, mpc, wpc, taken, listening>>
    BY <1>2 DEF Post, WInv, LifeInv, Tasks
  <2>2. Len(posted') = Len(posted) + 1 /\ \A i \in 1 .. Len(posted) : posted'[i] = posted[i]
    BY <1>a, <2>1, AppendFacts
  <2> QED
    BY <1>a, <2>1, <2>2
<1>3. CASE Work
  <2>1. /\ wpc = "idle" /\ wchan # <<>> /\ Head(wchan) # Break /\ wpc # "exited"
        /\ UNCHANGED <<life, mpc, posted, listening>>
    BY <1>3 DEF Work
  <2>2. dpc \notin {"base", "done"} /\ life \notin {"none", "freed"}
    BY <2>1 DEF WInv, LifeInv, ThreadEndsFirst
  <2>3. /\ taken' = Append(taken, Head(wchan))
        /\ wpc' = "discard" => Head(wchan) # Open /\ "worker" \notin listening
    BY <1>3, <2>2 DEF Work
  <2>4. wchan \in Seq(Tasks \union {Break})
    BY DEF WInv, TypeOK
  <2>5. Head(wchan) = posted[Len(taken) + 1]
    BY <1>a, <2>1, <2>2, <2>4, CarriesTail DEF StreamInv
  <2>6. Head(wchan) \in Tasks
    <3>1. Head(wchan) \in Tasks \union {Break}
      BY <2>1, <2>4, HeadTailProperties
    <3> QED
      BY <2>1, <3>1
  <2>7. Len(taken') = Len(taken) + 1
    BY <1>a, <2>3, <2>6, AppendFacts
  <2>8. wpc' = "discard" => Len(taken) # 0
    BY <2>2, <2>3, <2>5
  <2> QED
    BY <1>a, <2>1, <2>3, <2>7, <2>8
<1>4. CASE Hear
  <2>1. /\ mpc' = "discard" => "main" \notin listening
        /\ UNCHANGED <<life, wpc, posted, taken, listening>>
    BY <1>4 DEF Hear
  <2> QED
    BY <2>1
<1>5. CASE \E side \in Sides : Listen(side) \/ Unlisten(side)
  BY <1>5 DEF Listen, Unlisten, ScriptRuns, MainScript, Sides
<1>6. CASE WorkReturn \/ Exit \/ Reply
  BY <1>6 DEF WorkReturn, Exit, Reply
<1>7. CASE ReplyPost
  BY <1>7 DEF ReplyPost
<1>8. CASE Terminate \/ TerminatePost \/ Recycle \/ RecycleUnlink \/ ReleaseReturn \/ HearReturn
  BY <1>8 DEF Terminate, TerminatePost, Recycle, RecycleUnlink, ReleaseReturn, HearReturn
<1>9. CASE Finalize \/ TakeSelf \/ Unlink
  BY <1>9 DEF Finalize, TakeSelf, Unlink, WInv, LifeInv
<1>10. ASSUME NEW d \in {"main", "other"}, Take(d) PROVE EarInv'
  BY <1>10 DEF Take
<1>11. CASE JoinPost \/ JoinReturn \/ FreeMembers \/ WorkBreak
  BY <1>11 DEF JoinPost, JoinReturn, FreeMembers, WorkBreak, WInv, LifeInv
<1>12. CASE UNCHANGED vars
  BY <1>12 DEF vars
<1> QED
  BY <1>1, <1>2, <1>3, <1>4, <1>5, <1>6, <1>7, <1>8, <1>9, <1>10, <1>11, <1>12
     DEF Next, MainSteps, WorkSteps, Destroy

\* A message is lost neither on its way to the worker nor on its way back: it is next
\* in line until the queue that carries it is deleted (kk-wk.cc, both postMessage), and
\* where it arrives it is given to onmessage unless the script, run before any message,
\* has set none.
THEOREM NoMessageLost == Spec => []MessagesKept
<1>1. Init => WorkerKept /\ Prefix(heard, replied) /\ EarInv
  <2>1. Len(<<>>) = 0
    BY EmptySeq
  <2> QED
    BY <2>1 DEF Init, WorkerKept, Prefix, Queued, Distinct, EarInv
<1>2. Spec => [](WorkerKept /\ Prefix(heard, replied) /\ EarInv)
  BY <1>1, WorkerKeptStep, HeardStep, EarStep, StreamAlways, PTL DEF Spec
<1>4. WInv /\ WorkerKept /\ EarInv => DiscardsExplained
  <2> SUFFICES ASSUME WInv, WorkerKept, EarInv, wpc = "discard" PROVE taken[1] = Open
    BY DEF EarInv, DiscardsExplained
  <2>1. life # "none"
    BY DEF WInv, LifeInv
  <2>2. Len(taken) \in Nat /\ Len(taken) > 1 /\ posted[1] = Open
    BY <2>1, LenProperties DEF WInv, TypeOK, EarInv
  <2> QED
    BY <2>2 DEF WorkerKept, Prefix
<1>3. WInv /\ StreamInv /\ WorkerKept /\ Prefix(heard, replied) /\ DiscardsExplained
        => MessagesKept
  <2> SUFFICES ASSUME WInv, Follows(mchan, replied, Len(heard)),
                      NEW i \in 1 .. Len(replied), Len(heard) < i
               PROVE  \E k \in 1 .. Len(mchan) : mchan[k] = replied[i]
    BY DEF StreamInv, WorkerKept, MessagesKept, Queued
  <2>1. Len(replied) = Len(heard) + Len(mchan)
        /\ Len(heard) \in Nat /\ Len(mchan) \in Nat
    BY LenProperties DEF WInv, TypeOK, Follows
  <2> DEFINE k == i - Len(heard)
  <2>2. k \in 1 .. Len(mchan) /\ Len(heard) + k = i
    BY <2>1
  <2> HIDE DEF k
  <2>3. mchan[k] = replied[i]
    BY <2>2 DEF Follows
  <2> QED
    BY <2>2, <2>3
<1> QED
  BY <1>2, <1>3, <1>4, StreamAlways, PTL

\* A WebWorker that another thread than the worker's destroys is in its destructor.
DyingInv == life = "dying" /\ dpc = "none" => wpc = "undefined"

LEMMA DyingStep ==
    ASSUME WInv, DyingInv, [Next]_vars
    PROVE  DyingInv'
<1> USE DEF DyingInv, mainVars, lifeVars, workVars, history
<1>1. CASE Alloc \/ Finalize \/ TakeSelf \/ Unlink
  BY <1>1 DEF Alloc, Finalize, TakeSelf, Unlink
<1>2. CASE \E d \in {"main", "other"} : Take(d)
  BY <1>2 DEF Take
<1>3. CASE JoinPost \/ JoinReturn \/ FreeMembers
  BY <1>3 DEF JoinPost, JoinReturn, FreeMembers
<1>4. CASE Work \/ WorkReturn \/ Exit \/ Reply \/ ReplyPost
  BY <1>4 DEF Work, WorkReturn, Exit, Reply, ReplyPost
<1>5. CASE Terminate \/ TerminatePost \/ Recycle \/ RecycleUnlink \/ ReleaseReturn
  BY <1>5 DEF Terminate, TerminatePost, Recycle, RecycleUnlink, ReleaseReturn
<1>6. CASE Hear \/ HearReturn \/ WorkBreak \/ \E m \in Posts : Post(m)
  BY <1>6 DEF Hear, HearReturn, WorkBreak, Post
<1>7. CASE UNCHANGED vars
  BY <1>7 DEF vars
<1>8. CASE \E side \in Sides : Listen(side) \/ Unlisten(side)
  BY <1>8 DEF Listen, Unlisten
<1> QED
  BY <1>1, <1>2, <1>3, <1>4, <1>5, <1>6, <1>7, <1>8 DEF Next, MainSteps, WorkSteps, Destroy

\* Once the wrapper is finalized the end of the WebWorker is in somebody's hands: it
\* waits for the drain of the release that queued it, or for a destructor, and that
\* one's wait for a break that was run or is still queued.
DestructionAhead ==
    wrapper = "finalized" =>
        \/ life = "freed" \/ wpc = "undefined"
        \/ life = "queued" /\ mpc = "release"
        \/ dpc \in {"join", "members", "base"}
        \/ dpc = "wait" /\ (loopbreak \/ \E i \in 1 .. Len(wchan) : wchan[i] = Break)

\* The destructor never waits for a thread that nothing tells to end (~WebWorker,
\* _queue->join()).
THEOREM DestructorNeverStuck == Spec => []DestructionAhead
<1>1. Init => DyingInv
  BY DEF Init, DyingInv
<1>2. WInv /\ BreakInv /\ DyingInv => DestructionAhead
  <2> SUFFICES ASSUME WInv, BreakInv, DyingInv, wrapper = "finalized", life # "freed",
                      wpc # "undefined", ~(life = "queued" /\ mpc = "release"),
                      dpc \notin {"join", "members", "base"}
               PROVE  /\ dpc = "wait"
                      /\ loopbreak \/ \E i \in 1 .. Len(wchan) : wchan[i] = Break
    BY DEF DestructionAhead
  <2>1. life = "dying"
    BY DEF WInv, LifeInv, TypeOK
  <2>2. dpc = "wait"
    BY <2>1 DEF WInv, LifeInv, TypeOK, DyingInv
  <2>3. Broken
    BY <2>2 DEF Broken
  <2>4. wpc = "exited" \/ wpc \in Running
    BY <2>1 DEF WInv, LifeInv, TypeOK, Running
  <2> QED
    BY <2>2, <2>3, <2>4 DEF BreakInv, BreakAt
<1> QED
  BY <1>1, <1>2, DyingStep, Invariance, BreakAlways, PTL DEF Spec
=============================================================================
