--------------------------- MODULE EvTimerProofs ---------------------------
(***************************************************************************)
(* What the script timers guarantee for any number of Timers, any addresses *)
(* and any way of printing them, collisions and reuse included.            *)
(***************************************************************************)
EXTENDS EvTimer, TLAPS

\* Properties name live Timers, each under the key of its address.
Names ==
    /\ \A t \in Timers : life[t] # "none" => at[t] \in Addrs
    /\ \A k \in Keys : global[k] # Nil => life[global[k]] = "live" /\ Key(global[k]) = k

\* The value stack holds the object of the Timer whose function runs.
Stack ==
    /\ pc = "fn" => found \in Timers /\ found = running /\ life[found] = "live"
    /\ pc # "fn" => found = Nil
    /\ pc = "after" => running \in Timers /\ life[running] # "none"
    /\ pc \in {"loop", "closed"} => running = Nil
    /\ running \notin pending

Living == \A t \in Timers : life[t] = "live" => Anchored(t)

\* An object that lost its property does not get it back, and the running Timer's
\* can only have lost it that way.
Lost == cleared \union evicted

LostInv ==
    /\ \A t \in Lost : life[t] # "none" /\ \A k \in Keys : global[k] # t
    /\ pc \in {"fn", "after"} => global[Key(running)] = running \/ running \in Lost
    /\ faults \subseteq Lost

\* A pending Timer that does not repeat has not been called.
CallInv ==
    /\ \A t \in Timers : life[t] = "none" => calls[t] = 0
    /\ \A t \in pending : ~repeats[t] => calls[t] = 0

EInv ==
    /\ TypeOK /\ Names /\ Stack /\ Living /\ LostInv /\ CallInv
    /\ PendingFindsItself /\ NeverIdle /\ OnceOnly

LEMMA EInvInit == Init => EInv
BY NilAssumption, KeyAssumption
   DEF Init, EInv, TypeOK, Names, Stack, Living, Lost, LostInv, CallInv,
       PendingFindsItself, NeverIdle, OnceOnly, MaxCalls

-----------------------------------------------------------------------------
(* What the operators do.                                                  *)

\* A live Timer's key is a property name.
LEMMA KeyType ==
    ASSUME TypeOK, Names, NEW t \in Timers, life[t] # "none"
    PROVE  Key(t) \in Keys
BY KeyAssumption DEF Names, Key

\* Deleting one property keeps EInv, whoever asks for it: the object under it is
\* finalized unless its function runs.
LEMMA Delete ==
    ASSUME EInv, NEW k \in Keys,
           global' = [global EXCEPT ![k] = Nil],
           Finalize(Unreferenced(k), life, pending),
           UNCHANGED <<at, repeats, calls>>
    PROVE  /\ life' \in [Timers -> {"none", "live", "freed"}]
           /\ pending' \subseteq pending
           /\ global' \in [Keys -> Timers \union {Nil}]
           /\ \A t \in Timers : life'[t] = "none" <=> life[t] = "none"
           /\ \A t \in Timers : life'[t] = "live" => life[t] = "live"
           /\ Names'
           /\ \A t \in Timers : life'[t] = "live" => global'[Key(t)] = t \/ t = found
           /\ found # Nil => life'[found] = life[found]
           /\ \A j \in Keys : global'[j] # Nil => global'[j] = global[j]
           /\ \A t \in pending' : life'[t] = "live" /\ global'[Key(t)] = t
           /\ \A t \in Timers : life'[t] = "live" /\ t \in pending => t \in pending' \/ t = found
<1> USE NilAssumption, KeyAssumption
    DEF EInv, TypeOK, Names, Key, Finalize, Unreferenced, Stack, PendingFindsItself
<1>1. life' \in [Timers -> {"none", "live", "freed"}] /\ pending' \subseteq pending
  OBVIOUS
<1>2. global' \in [Keys -> Timers \union {Nil}]
  OBVIOUS
<1>3. global[k] = Nil \/ (global[k] \in Timers /\ life[global[k]] = "live" /\ Key(global[k]) = k)
  OBVIOUS
<1>4. \A t \in Timers : life'[t] = IF t = global[k] /\ t # found THEN "freed" ELSE life[t]
  OBVIOUS
<1>5. \A j \in Keys : global'[j] = IF j = k THEN Nil ELSE global[j]
  OBVIOUS
<1>6. Names'
  BY <1>3, <1>4, <1>5
<1>7. /\ \A t \in Timers : life'[t] = "none" <=> life[t] = "none"
      /\ \A t \in Timers : life'[t] = "live" => life[t] = "live"
      /\ found # Nil => life'[found] = life[found]
  BY <1>3, <1>4
<1>8. \A t \in Timers : life'[t] = "live" => global'[Key(t)] = t \/ t = found
  <2> SUFFICES ASSUME NEW t \in Timers, life'[t] = "live", t # found
               PROVE  global'[Key(t)] = t
    OBVIOUS
  <2>1. life[t] = "live" /\ t # global[k]
    BY <1>4
  <2>2. global[Key(t)] = t
    BY <2>1 DEF Living, Anchored
  <2>3. Key(t) \in Keys
    BY <2>1
  <2>4. QED
    BY <1>5, <2>1, <2>2, <2>3
<1>9. \A t \in pending' : life'[t] = "live" /\ global'[Key(t)] = t
  <2> SUFFICES ASSUME NEW t \in pending' PROVE life'[t] = "live" /\ global'[Key(t)] = t
    OBVIOUS
  <2>1. t \in pending /\ t \in Timers /\ life[t] = "live" /\ global[Key(t)] = t
    OBVIOUS
  <2>2. t # found
    BY <2>1
  <2>3. t # global[k]
    BY <2>1, <2>2
  <2>4. QED
    BY <1>4, <1>5, <2>1, <2>3
<1>10. \A j \in Keys : global'[j] # Nil => global'[j] = global[j]
  BY <1>5
<1>11. \A t \in Timers : life'[t] = "live" /\ t \in pending => t \in pending' \/ t = found
  BY <1>4
<1>12. QED
  BY <1>1, <1>2, <1>6, <1>7, <1>8, <1>9, <1>10, <1>11

-----------------------------------------------------------------------------
(* The steps.                                                              *)

LEMMA ClearStep ==
    ASSUME EInv, NEW t \in Timers, Clear(t)
    PROVE  EInv'
<1>1. /\ InScript /\ Key(t) \in Keys
      /\ UNCHANGED <<at, repeats, calls, evicted, faults>>
      /\ UNCHANGED <<pc, running, found>>
      /\ global' = [global EXCEPT ![Key(t)] = Nil]
      /\ cleared' = cleared \union ({global[Key(t)]} \ {Nil})
      /\ Finalize(Unreferenced(Key(t)), life, pending)
  BY KeyType DEF Clear, threadVars, EInv
<1>2. /\ life' \in [Timers -> {"none", "live", "freed"}] /\ pending' \subseteq pending
      /\ global' \in [Keys -> Timers \union {Nil}]
      /\ \A u \in Timers : life'[u] = "none" <=> life[u] = "none"
      /\ \A u \in Timers : life'[u] = "live" => life[u] = "live"
      /\ Names'
      /\ \A u \in Timers : life'[u] = "live" => global'[Key(u)] = u \/ u = found
      /\ found # Nil => life'[found] = life[found]
      /\ \A j \in Keys : global'[j] # Nil => global'[j] = global[j]
      /\ \A u \in pending' : life'[u] = "live" /\ global'[Key(u)] = u
      /\ \A u \in Timers : life'[u] = "live" /\ u \in pending => u \in pending' \/ u = found
  BY <1>1, Delete
<1>3. /\ global[Key(t)] \in Timers \union {Nil}
      /\ global[Key(t)] # Nil => life[global[Key(t)]] = "live" /\ Key(global[Key(t)]) = Key(t)
      /\ global'[Key(t)] = Nil
      /\ \A j \in Keys \ {Key(t)} : global'[j] = global[j]
  BY <1>1 DEF EInv, TypeOK, Names
<1>4. \A u \in Timers : Key(u)' = Key(u)
  BY <1>1 DEF Key
<1>5. TypeOK'
  BY <1>1, <1>2, <1>3 DEF EInv, TypeOK
<1>6. Stack'
  BY <1>1, <1>2, NilAssumption DEF EInv, Stack, InScript
<1>7. Living'
  <2>1. \A u \in Timers : u = found => pc = "fn"
    BY NilAssumption DEF EInv, Stack
  <2>2. QED
    BY <1>1, <1>2, <1>4, <2>1 DEF Living, Anchored
<1>8. LostInv'
  <2>1. ASSUME NEW u \in Lost' PROVE life'[u] # "none" /\ \A k \in Keys : global'[k] # u
    <3>1. u \in Timers /\ (u \in Lost \/ u = global[Key(t)])
      BY <1>1, <1>3, <2>1 DEF Lost, EInv, TypeOK
    <3>2. CASE u \in Lost
      BY <1>2, <3>1, <3>2, NilAssumption DEF EInv, LostInv
    <3>3. CASE u = global[Key(t)]
      <4>1. life[u] # "none" /\ \A k \in Keys : global[k] = u => k = Key(t)
        BY <1>3, <3>1, <3>3, NilAssumption DEF EInv, Names
      <4>2. QED
        BY <1>2, <1>3, <3>1, <4>1, NilAssumption
    <3>4. QED
      BY <3>1, <3>2, <3>3
  <2>2. ASSUME pc' \in {"fn", "after"}
        PROVE  global'[Key(running)] = running \/ running \in Lost'
    <3>1. pc = "fn" /\ running \in Timers /\ life[running] = "live"
      BY <1>1, <2>2 DEF InScript, EInv, Stack
    <3>2. Key(running) \in Keys
      BY <3>1, KeyType DEF EInv
    <3>3. global[Key(running)] = running \/ running \in Lost
      BY <3>1 DEF EInv, LostInv
    <3>4. QED
      BY <1>1, <1>3, <3>1, <3>2, <3>3, NilAssumption DEF Lost
  <2>3. QED
    BY <1>1, <1>4, <2>1, <2>2 DEF EInv, LostInv, Lost, Key
<1>9. CallInv' /\ OnceOnly'
  BY <1>1, <1>2 DEF EInv, CallInv, OnceOnly
<1>10. PendingFindsItself'
  BY <1>1, <1>2, <1>4 DEF EInv, TypeOK, PendingFindsItself
<1>11. NeverIdle'
  BY <1>1, <1>2, NilAssumption DEF EInv, NeverIdle, Stack
<1>12. QED
  BY <1>2, <1>5, <1>6, <1>7, <1>8, <1>9, <1>10, <1>11 DEF EInv

LEMMA SpentStep ==
    ASSUME EInv, Spent
    PROVE  EInv'
<1>1. /\ pc = "after" /\ pc' = "loop" /\ running \in Timers /\ life[running] # "none"
      /\ running' = Nil /\ found = Nil /\ found' = Nil
      /\ faults' = IF life[running] = "freed" THEN faults \union {running} ELSE faults
      /\ ~repeats[running] \/ life[running] = "freed"
      /\ UNCHANGED <<at, repeats, calls, evicted, cleared>>
      /\ global' = [global EXCEPT ![Key(running)] = Nil]
      /\ Finalize(Unreferenced(Key(running)), life, pending)
  BY DEF Spent, EInv, Stack
<1>2. Key(running) \in Keys
  BY <1>1, KeyType DEF EInv
<1>3. /\ life' \in [Timers -> {"none", "live", "freed"}] /\ pending' \subseteq pending
      /\ global' \in [Keys -> Timers \union {Nil}]
      /\ \A u \in Timers : life'[u] = "none" <=> life[u] = "none"
      /\ \A u \in Timers : life'[u] = "live" => life[u] = "live"
      /\ Names'
      /\ \A u \in Timers : life'[u] = "live" => global'[Key(u)] = u \/ u = found
      /\ \A j \in Keys : global'[j] # Nil => global'[j] = global[j]
      /\ \A u \in pending' : life'[u] = "live" /\ global'[Key(u)] = u
      /\ \A u \in Timers : life'[u] = "live" /\ u \in pending => u \in pending' \/ u = found
  BY <1>1, <1>2, Delete
<1>4. \A u \in Timers : Key(u)' = Key(u)
  BY <1>1 DEF Key
<1>5. life'[running] # "live"
  <2>1. global'[Key(running)] = Nil
    BY <1>1, <1>2 DEF EInv, TypeOK
  <2>2. QED
    BY <1>1, <1>3, <2>1, NilAssumption
<1>6. TypeOK'
  BY <1>1, <1>3 DEF EInv, TypeOK
<1>7. Stack'
  BY <1>1, <1>3, NilAssumption DEF EInv, Stack, TypeOK
<1>8. Living'
  BY <1>1, <1>3, <1>4, NilAssumption DEF Living, Anchored
<1>9. LostInv'
  <2>1. running \in Lost \/ life[running] # "freed"
    BY <1>1, <1>2, NilAssumption DEF EInv, LostInv, Names
  <2>2. Lost \subseteq Timers /\ Lost' = Lost
    BY <1>1 DEF EInv, TypeOK, Lost
  <2>3. \A u \in Lost : life'[u] # "none" /\ \A k \in Keys : global'[k] # u
    BY <1>3, <2>2, NilAssumption DEF EInv, LostInv
  <2>4. QED
    BY <1>1, <2>1, <2>2, <2>3 DEF EInv, LostInv
<1>10. CallInv' /\ OnceOnly'
  BY <1>1, <1>3 DEF EInv, CallInv, OnceOnly
<1>11. PendingFindsItself'
  BY <1>3, <1>4 DEF EInv, TypeOK, PendingFindsItself
<1>12. NeverIdle'
  BY <1>1, <1>3, <1>5, NilAssumption DEF EInv, NeverIdle
<1>13. QED
  BY <1>3, <1>6, <1>7, <1>8, <1>9, <1>10, <1>11, <1>12 DEF EInv

LEMMA NewStep ==
    ASSUME EInv, NEW rv \in BOOLEAN, NewTimer(rv)
    PROVE  EInv'
<1>1. PICK t \in Timers, a \in FreeAddrs :
          /\ life[t] = "none"
          /\ at' = [at EXCEPT ![t] = a]
          /\ repeats' = [repeats EXCEPT ![t] = rv]
          /\ global' = [global EXCEPT ![KeyOf[a]] = t]
          /\ evicted' = evicted \union ({global[KeyOf[a]]} \ {Nil})
          /\ Finalize(Unreferenced(KeyOf[a]), [life EXCEPT ![t] = "live"],
                      pending \union {t})
  BY DEF NewTimer
<1> DEFINE k == KeyOf[a]
           old == global[k]
<1>2. /\ InScript /\ UNCHANGED <<pc, running, found, cleared, calls, faults>>
  BY DEF NewTimer, threadVars
<1>3. a \in Addrs /\ k \in Keys /\ a # Nil
  BY KeyAssumption, NilAssumption DEF FreeAddrs
<1>4. /\ old \in Timers \union {Nil} /\ old # t /\ t # found /\ t # running
      /\ old # Nil => life[old] = "live" /\ Key(old) = k
      /\ \A j \in Keys : global[j] # t
      /\ t \notin pending
  BY <1>1, <1>2, <1>3, NilAssumption
     DEF EInv, TypeOK, Names, Stack, InScript, PendingFindsItself
<1>5. /\ \A u \in Timers : life'[u] =
             IF u = old /\ u # found THEN "freed" ELSE IF u = t THEN "live" ELSE life[u]
      /\ life' \in [Timers -> {"none", "live", "freed"}]
      /\ pending' = (pending \union {t}) \ ({old} \ {Nil, found})
  BY <1>1, NilAssumption DEF Finalize, Unreferenced, EInv, TypeOK
<1>6. /\ global' \in [Keys -> Timers \union {Nil}] /\ global'[k] = t
      /\ \A j \in Keys \ {k} : global'[j] = global[j]
      /\ at' \in [Timers -> Addrs \union {Nil}] /\ at'[t] = a
      /\ \A u \in Timers \ {t} : at'[u] = at[u] /\ repeats'[u] = repeats[u]
      /\ repeats' \in [Timers -> BOOLEAN]
  BY <1>1, <1>3 DEF EInv, TypeOK
<1>7. Key(t)' = k /\ \A u \in Timers \ {t} : Key(u)' = Key(u)
  BY <1>6 DEF Key
<1>8. \A u \in Timers : life[u] # "none" => Key(u) \in Keys
  BY KeyType DEF EInv
<1>9. TypeOK'
  BY <1>1, <1>2, <1>4, <1>5, <1>6 DEF EInv, TypeOK
<1>10. Names'
  <2>1. \A u \in Timers : life'[u] # "none" => at'[u] \in Addrs
    BY <1>3, <1>4, <1>5, <1>6, NilAssumption DEF EInv, Names
  <2>2. ASSUME NEW j \in Keys, global'[j] # Nil
        PROVE  life'[global'[j]] = "live" /\ KeyOf[at'[global'[j]]] = j
    <3>1. CASE j = k
      BY <1>4, <1>5, <1>6, <3>1
    <3>2. CASE j # k
      <4>1. /\ global'[j] = global[j] /\ global[j] \in Timers \ {t}
            /\ life[global[j]] = "live" /\ Key(global[j]) = j
        BY <1>4, <1>6, <2>2, <3>2 DEF EInv, Names, TypeOK
      <4>2. global[j] # old
        BY <1>4, <2>2, <3>2, <4>1
      <4>3. QED
        BY <1>5, <1>6, <4>1, <4>2 DEF Key
    <3>3. QED
      BY <3>1, <3>2
  <2>3. QED
    BY <2>1, <2>2 DEF Names, Key
<1>11. \A u \in Timers : u = found => pc = "fn" /\ u = running
  BY NilAssumption DEF EInv, Stack
<1>12. Stack'
  <2>1. found # Nil => life'[found] = life[found]
    BY <1>1, <1>4, <1>5, <1>11 DEF EInv, TypeOK
  <2>2. running \notin pending'
    BY <1>4, <1>5 DEF EInv, Stack
  <2>3. QED
    BY <1>2, <2>1, <2>2, NilAssumption DEF EInv, Stack, InScript
<1>13. \A u \in Timers \ {t} : life'[u] = "live" => life[u] = "live"
  BY <1>4, <1>5
<1>14. ASSUME NEW u \in Timers \ {t}, life'[u] = "live", u # found
       PROVE  global'[Key(u)] = u
  <2>1. life[u] = "live" /\ u # old
    BY <1>5, <1>13, <1>14
  <2>2. global[Key(u)] = u /\ Key(u) \in Keys
    BY <1>8, <1>14, <2>1 DEF EInv, Living, Anchored
  <2>3. QED
    BY <1>6, <2>1, <2>2
<1>15. Living'
  <2>1. ASSUME NEW u \in Timers, life'[u] = "live" PROVE Anchored(u)'
    <3>1. CASE u = t
      BY <1>6, <1>7, <3>1 DEF Anchored
    <3>2. CASE u = found
      BY <1>2, <1>11, <3>2 DEF Anchored
    <3>3. CASE u # t /\ u # found
      BY <1>7, <1>14, <2>1, <3>3 DEF Anchored
    <3>4. QED
      BY <3>1, <3>2, <3>3
  <2>2. QED
    BY <2>1 DEF Living
<1>16. LostInv'
  <2>1. Lost' = Lost \union ({old} \ {Nil}) /\ t \notin Lost /\ Lost \subseteq Timers
    BY <1>1, <1>2 DEF Lost, EInv, LostInv, TypeOK
  <2>2. ASSUME NEW u \in Lost' PROVE life'[u] # "none" /\ \A j \in Keys : global'[j] # u
    <3>1. CASE u \in Lost
      BY <1>5, <1>6, <2>1, <3>1 DEF EInv, LostInv
    <3>2. CASE u = old /\ u # Nil
      <4>1. \A j \in Keys \ {k} : global[j] # u
        BY <1>4, <3>2 DEF EInv, Names
      <4>2. QED
        BY <1>4, <1>5, <1>6, <3>2, <4>1
    <3>3. QED
      BY <2>1, <2>2, <3>1, <3>2
  <2>3. ASSUME pc' \in {"fn", "after"}
        PROVE  global'[Key(running)'] = running' \/ running' \in Lost'
    <3>1. /\ pc = "fn" /\ running \in Timers \ {t} /\ life[running] = "live"
          /\ running' = running
      BY <1>2, <1>4, <2>3 DEF InScript, EInv, Stack
    <3>2. Key(running)' = Key(running) /\ Key(running) \in Keys
      BY <1>2, <1>7, <1>8, <3>1 DEF Key
    <3>3. global[Key(running)] = running \/ running \in Lost
      BY <3>1 DEF EInv, LostInv
    <3>4. CASE Key(running) = k /\ global[Key(running)] = running
      BY <2>1, <3>1, <3>4, NilAssumption
    <3>5. CASE Key(running) # k
      BY <1>6, <2>1, <3>1, <3>2, <3>3, <3>5
    <3>6. QED
      BY <2>1, <3>1, <3>3, <3>4, <3>5
  <2>4. QED
    BY <1>2, <2>1, <2>2, <2>3 DEF EInv, LostInv, Key
<1>17. CallInv' /\ OnceOnly'
  <2>1. calls[t] = 0
    BY <1>1 DEF EInv, CallInv
  <2>2. \A u \in Timers : life'[u] = "none" => life[u] = "none"
    BY <1>4, <1>5
  <2>3. \A u \in pending' : u \in pending \union {t}
    BY <1>5
  <2>4. QED
    BY <1>2, <1>6, <2>1, <2>2, <2>3 DEF EInv, TypeOK, CallInv, OnceOnly
<1>18. PendingFindsItself'
  <2>1. ASSUME NEW u \in pending' PROVE life'[u] = "live" /\ global'[Key(u)'] = u
    <3>1. CASE u = t
      BY <1>4, <1>5, <1>6, <1>7, <3>1
    <3>2. CASE u # t
      <4>1. u \in pending /\ u \in Timers \ {t} /\ u # found /\ u # old
        BY <1>5, <1>11, <2>1, <3>2, NilAssumption DEF EInv, TypeOK, Stack
      <4>2. life'[u] = "live"
        BY <1>5, <4>1 DEF EInv, PendingFindsItself
      <4>3. QED
        BY <1>7, <1>14, <4>1, <4>2
    <3>3. QED
      BY <3>1, <3>2
  <2>2. QED
    BY <2>1 DEF PendingFindsItself, Key
<1>19. NeverIdle'
  BY <1>2, <1>4, <1>5, <1>11, <1>13 DEF EInv, NeverIdle
<1>20. QED
  BY <1>9, <1>10, <1>12, <1>15, <1>16, <1>17, <1>18, <1>19 DEF EInv

LEMMA FireStep ==
    ASSUME EInv, NEW t \in Timers, Fire(t)
    PROVE  EInv'
<1>1. /\ pc = "loop" /\ t \in pending /\ pending' = pending \ {t}
      /\ running' = t /\ found' = t /\ pc' = "fn" /\ calls' = Called(t)
      /\ life[t] = "live" /\ global[Key(t)] = t /\ running = Nil /\ found = Nil
      /\ UNCHANGED <<life, at, repeats, global, cleared, evicted, faults>>
  BY NilAssumption DEF Fire, EInv, PendingFindsItself, Stack
<1>2. /\ calls' \in [Timers -> 0 .. MaxCalls] /\ calls[t] \in 0 .. MaxCalls
      /\ calls[t] = 0 => calls'[t] = 1
      /\ \A u \in Timers \ {t} : calls'[u] = calls[u]
  BY <1>1 DEF Called, EInv, TypeOK, MaxCalls
<1>3. TypeOK' /\ Stack'
  BY <1>1, <1>2 DEF EInv, TypeOK, Stack
<1>4. Names' /\ PendingFindsItself'
  BY <1>1 DEF EInv, Names, PendingFindsItself, Key
<1>5. Living'
  BY <1>1, NilAssumption DEF EInv, Living, Anchored, Key
<1>6. LostInv'
  BY <1>1 DEF EInv, LostInv, Lost, Key
<1>7. CallInv'
  BY <1>1, <1>2 DEF EInv, TypeOK, CallInv
<1>8. OnceOnly'
  BY <1>1, <1>2 DEF EInv, CallInv, OnceOnly
<1>9. NeverIdle'
  BY <1>1, NilAssumption DEF EInv, NeverIdle
<1>10. QED
  BY <1>3, <1>4, <1>5, <1>6, <1>7, <1>8, <1>9 DEF EInv

LEMMA ReturnStep ==
    ASSUME EInv, FnReturn
    PROVE  EInv'
<1> DEFINE gone == global[Key(running)] # running
<1>1. /\ pc = "fn" /\ pc' = "after" /\ found' = Nil /\ found = running
      /\ running \in Timers /\ life[running] = "live" /\ running \notin pending
      /\ UNCHANGED <<at, repeats, running, global, cleared, evicted, calls, faults>>
  BY DEF FnReturn, history, EInv, Stack
<1>2. /\ life' \in [Timers -> {"none", "live", "freed"}]
      /\ \A u \in Timers : life'[u] = IF u = running /\ gone THEN "freed" ELSE life[u]
      /\ pending' = pending
  BY <1>1 DEF FnReturn, Finalize, EInv, TypeOK
<1>3. TypeOK' /\ Stack'
  BY <1>1, <1>2 DEF EInv, TypeOK, Stack
<1>4. Names'
  <2>1. ASSUME NEW k \in Keys, global[k] # Nil PROVE life'[global[k]] = "live"
    BY <1>1, <1>2, <2>1 DEF EInv, Names, TypeOK
  <2>2. QED
    BY <1>1, <1>2, <2>1 DEF EInv, Names, Key
<1>5. Living'
  BY <1>1, <1>2 DEF EInv, Living, Anchored, Key
<1>6. PendingFindsItself' /\ NeverIdle'
  BY <1>1, <1>2 DEF EInv, TypeOK, PendingFindsItself, NeverIdle, Key
<1>7. LostInv'
  BY <1>1, <1>2 DEF EInv, LostInv, Lost, Key, TypeOK
<1>8. CallInv' /\ OnceOnly'
  BY <1>1, <1>2 DEF EInv, CallInv, OnceOnly
<1>9. QED
  BY <1>3, <1>4, <1>5, <1>6, <1>7, <1>8 DEF EInv

LEMMA RearmStep ==
    ASSUME EInv, Rearm \/ RearmFreed
    PROVE  EInv'
<1> USE DEF timerVars, history
<1>1. /\ pc = "after" /\ running \in Timers /\ found = Nil
      /\ UNCHANGED <<life, at, repeats, global, found, cleared, evicted, calls>>
  BY DEF Rearm, RearmFreed, EInv, Stack
<1>2. CASE Rearm
  <2>1. /\ pc' = "loop" /\ running' = Nil /\ pending' = pending \union {running}
        /\ life[running] = "live" /\ repeats[running] /\ faults' = faults
    BY <1>2 DEF Rearm
  <2>2. global[Key(running)] = running
    BY <1>1, <2>1 DEF EInv, Living, Anchored
  <2>3. TypeOK' /\ Stack'
    BY <1>1, <2>1, NilAssumption DEF EInv, TypeOK, Stack
  <2>4. Names' /\ Living' /\ LostInv' /\ CallInv' /\ OnceOnly'
    BY <1>1, <2>1 DEF EInv, Names, Living, Anchored, LostInv, Lost, CallInv, OnceOnly, Key
  <2>5. PendingFindsItself' /\ NeverIdle'
    BY <1>1, <2>1, <2>2 DEF EInv, PendingFindsItself, NeverIdle, Key
  <2>6. QED
    BY <2>3, <2>4, <2>5 DEF EInv
<1>3. CASE RearmFreed
  <2>1. /\ pc' = "undefined" /\ faults' = faults \union {running}
        /\ life[running] = "freed" /\ UNCHANGED <<pending, running>>
    BY <1>3 DEF RearmFreed
  <2>2. running \in Lost
    <3>1. Key(running) \in Keys
      BY <1>1, <2>1, KeyType DEF EInv
    <3>2. QED
      BY <1>1, <2>1, <3>1, NilAssumption DEF EInv, LostInv, Names
  <2>3. TypeOK' /\ Stack'
    BY <1>1, <2>1 DEF EInv, TypeOK, Stack
  <2>4. Names' /\ Living' /\ CallInv' /\ OnceOnly'
    BY <1>1, <2>1 DEF EInv, Names, Living, Anchored, CallInv, OnceOnly, Key
  <2>5. LostInv'
    BY <1>1, <2>1, <2>2 DEF EInv, LostInv, Lost
  <2>6. PendingFindsItself' /\ NeverIdle'
    BY <1>1, <2>1 DEF EInv, PendingFindsItself, NeverIdle, Key
  <2>7. QED
    BY <2>3, <2>4, <2>5, <2>6 DEF EInv
<1>4. QED
  BY <1>2, <1>3

LEMMA CloseStep ==
    ASSUME EInv, Close
    PROVE  EInv'
<1>1. /\ pc = "loop" /\ pc' = "closed" /\ found = Nil /\ running = Nil
      /\ global' = [k \in Keys |-> Nil]
      /\ UNCHANGED <<at, repeats, running, found, cleared, evicted, calls, faults>>
  BY DEF Close, history, EInv, Stack
<1>2. /\ life' \in [Timers -> {"none", "live", "freed"}]
      /\ \A t \in Timers : life'[t] = IF life[t] = "live" THEN "freed" ELSE life[t]
      /\ pending' = {}
  BY DEF Close, Finalize, EInv, TypeOK, PendingFindsItself
<1>3. TypeOK' /\ Stack'
  BY <1>1, <1>2 DEF EInv, TypeOK, Stack
<1>4. Names' /\ Living' /\ PendingFindsItself' /\ NeverIdle'
  BY <1>1, <1>2 DEF EInv, Names, Living, PendingFindsItself, NeverIdle
<1>5. LostInv'
  BY <1>1, <1>2, NilAssumption DEF EInv, LostInv, Lost, TypeOK
<1>6. CallInv' /\ OnceOnly'
  BY <1>1, <1>2 DEF EInv, CallInv, OnceOnly
<1>7. QED
  BY <1>3, <1>4, <1>5, <1>6 DEF EInv

LEMMA EInvStep == EInv /\ [Next]_vars => EInv'
<1> SUFFICES ASSUME EInv, [Next]_vars PROVE EInv'
  OBVIOUS
<1>1. CASE UNCHANGED vars
  BY <1>1 DEF vars, timerVars, threadVars, history, EInv, TypeOK, Names, Stack, Living,
              Anchored, Lost, LostInv, CallInv, PendingFindsItself, NeverIdle,
              OnceOnly, Key
<1>2. CASE SetTimeout \/ SetInterval
  BY <1>2, NewStep DEF SetTimeout, SetInterval
<1>3. CASE \E t \in Timers : Clear(t) \/ Fire(t)
  BY <1>3, ClearStep, FireStep
<1>4. CASE FnReturn \/ After \/ Close
  BY <1>4, ReturnStep, SpentStep, RearmStep, CloseStep DEF After
<1>5. QED
  BY <1>1, <1>2, <1>3, <1>4 DEF Next

LEMMA Invariance == Spec => []EInv
BY EInvInit, EInvStep, PTL DEF Spec

-----------------------------------------------------------------------------
(* The theorems.                                                           *)

\* Every reachable state is well typed.
THEOREM TypeCorrect == Spec => []TypeOK
BY Invariance, PTL DEF EInv

\* ev_Timeout_cb never runs for a deleted Timer or another timer's function.
THEOREM FiresOwnFunction == Spec => []PendingFindsItself
BY Invariance, PTL DEF EInv

\* A live Timer's event is pending unless its callback runs.
THEOREM NeverForgotten == Spec => []NeverIdle
BY Invariance, PTL DEF EInv

\* A Timer that does not repeat is called at most once.
THEOREM CalledOnce == Spec => []OnceOnly
BY Invariance, PTL DEF EInv

\* A deleted Timer is read only after it has lost its property.
THEOREM FaultsAreOwn == Spec => []OnlyOwnFunctionFrees
<1>1. EInv => OnlyOwnFunctionFrees
  BY DEF EInv, LostInv, Lost, OnlyOwnFunctionFrees
<1>2. QED
  BY <1>1, Invariance, PTL

\* A Timer is alive exactly while its property or the value stack holds its object.
THEOREM NoLeakNoEarlyDelete == Spec => []Owned
<1>1. EInv => Owned
  <2> SUFFICES ASSUME EInv, NEW t \in Timers, life[t] # "none", Anchored(t)
               PROVE  life[t] = "live"
    BY DEF EInv, Living, Owned
  <2>1. CASE global[Key(t)] = t
    <3>1. Key(t) \in Keys
      BY KeyType DEF EInv
    <3>2. QED
      BY <2>1, <3>1, NilAssumption DEF EInv, Names
  <2>2. CASE pc = "fn" /\ found = t
    BY <2>2 DEF EInv, Stack
  <2>3. QED
    BY <2>1, <2>2 DEF Anchored
<1>2. QED
  BY <1>1, Invariance, PTL

\* Once clear() has hit a timer, its function is not called again.
THEOREM ClearIsFinal == Spec => ClearedStaysSilent
<1>1. EInv /\ [Next]_vars => [pc # "fn" /\ pc' = "fn" => found' \notin cleared]_vars
  <2> SUFFICES ASSUME EInv, Next, pc # "fn", pc' = "fn" PROVE found' \notin cleared
    OBVIOUS
  <2>1. PICK u \in Timers : Fire(u)
    BY DEF Next, SetTimeout, SetInterval, NewTimer, Clear, FnReturn, After, Spent,
           Rearm, RearmFreed, Close, threadVars
  <2>2. u \in pending /\ life[u] = "live" /\ found' = global[Key(u)]
    BY <2>1 DEF Fire, EInv, PendingFindsItself
  <2>3. Key(u) \in Keys
    BY <2>2, KeyType DEF EInv
  <2>4. QED
    BY <2>2, <2>3 DEF EInv, TypeOK, LostInv, Lost
<1>2. QED
  BY <1>1, Invariance, PTL DEF Spec, ClearedStaysSilent

=============================================================================
