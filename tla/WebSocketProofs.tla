-------------------------- MODULE WebSocketProofs ---------------------------
(***************************************************************************)
(* What is proved about WebSocket for every choice of frames and answers,  *)
(* any number of them and any grouping of their bytes.                     *)
(*                                                                         *)
(* The argument has three invariants.  Alive says where the socket is when *)
(* each function of the script runs; TypeOK rests on it.  Placed says      *)
(* where in the peer's stream the parser is: between two frames, or inside *)
(* a payload whose first bytes are in _body, with the messages of the      *)
(* frames before handed out.  The stream and the messages are sequences    *)
(* joined from one piece per frame, and the first part of the module says  *)
(* where each piece of such a sequence is.                                 *)
(***************************************************************************)
EXTENDS WebSocket, SequenceTheorems, WellFoundedInduction, TLAPS

(***************************************************************************)
(* Sequences joined from pieces.  FlattenSeq is defined with a recursive   *)
(* function; what it computes is shown by induction, for which the least   *)
(* element of a set of numbers is taken (NatLessThanWellFounded, WFMin).   *)
(***************************************************************************)
\* A set of numbers that has 0, and with each number the next, has them all
LEMMA SetInduction ==
  ASSUME NEW T \in SUBSET Nat, 0 \in T, \A n \in T : n + 1 \in T
  PROVE  \A n \in Nat : n \in T
<1> SUFFICES ASSUME NEW z \in Nat, z \notin T PROVE FALSE
  OBVIOUS
<1> DEFINE U == Nat \ T
<1>1. IsWellFoundedOn(OpToRel(<, Nat), Nat)
  BY NatLessThanWellFounded, Zenon
<1>2. \E x \in U : \A y \in U : ~ (<<y, x>> \in OpToRel(<, Nat))
  <2>1. U \subseteq Nat /\ U # {}
    OBVIOUS
  <2> HIDE DEF U
  <2> QED BY <1>1, <2>1, WFMin, Zenon
<1>3. PICK x \in U : \A y \in U : ~ (y < x)
  BY <1>2 DEF OpToRel
<1>4. x - 1 \in T
  BY <1>3
<1> QED BY <1>4

\* The pieces of a sequence joined from the left, one more at each place
Joins(g, s, n) ==
    g = [i \in 1 .. n |-> IF i = 1 THEN s[i] ELSE g[i - 1] \o s[i]]

LEMMA JoinsFacts ==
    ASSUME NEW s, NEW n \in Nat, NEW g, Joins(g, s, n), NEW i \in 1 .. n
    PROVE  g[i] = IF i = 1 THEN s[i] ELSE g[i - 1] \o s[i]
<1> DEFINE e == [j \in 1 .. n |-> IF j = 1 THEN s[j] ELSE g[j - 1] \o s[j]]
<1>1. g = e
  BY DEF Joins
<1>2. e[i] = IF i = 1 THEN s[i] ELSE g[i - 1] \o s[i]
  OBVIOUS
<1> HIDE DEF e
<1> QED
  BY <1>1, <1>2

LEMMA JoinsMore ==
    ASSUME NEW s, NEW m \in Nat, NEW g, Joins(g, s, m)
    PROVE  \E h : Joins(h, s, m + 1)
<1> DEFINE h == [i \in 1 .. m + 1 |-> IF i = m + 1
                                      THEN IF i = 1 THEN s[i] ELSE g[m] \o s[i]
                                      ELSE g[i]]
<1>1. ASSUME NEW i \in 1 .. m + 1
      PROVE  h[i] = IF i = 1 THEN s[i] ELSE h[i - 1] \o s[i]
  <2>1. CASE i = m + 1
    BY <2>1
  <2>2. CASE i # m + 1
    <3>1. i \in 1 .. m /\ h[i] = g[i]
      BY <2>2
    <3>2. g[i] = IF i = 1 THEN s[i] ELSE g[i - 1] \o s[i]
      BY <3>1, JoinsFacts
    <3>3. i # 1 => h[i - 1] = g[i - 1]
      BY <3>1
    <3> QED
      BY <3>1, <3>2, <3>3
  <2> QED
    BY <2>1, <2>2
<1>2. h = [i \in 1 .. m + 1 |-> h[i]]
  OBVIOUS
<1> HIDE DEF h
<1>3. Joins(h, s, m + 1)
  BY <1>1, <1>2 DEF Joins
<1> QED
  BY <1>3

LEMMA JoinsExist ==
    ASSUME NEW s, NEW n \in Nat
    PROVE  \E g : Joins(g, s, n)
<1> DEFINE T == {m \in Nat : \E g : Joins(g, s, m)}
<1>1. 0 \in T
  <2>1. Joins([i \in 1 .. 0 |-> s], s, 0)
    BY DEF Joins
  <2> QED
    BY <2>1
<1>2. ASSUME NEW m \in T PROVE m + 1 \in T
  BY JoinsMore
<1> HIDE DEF T
<1>3. T \in SUBSET Nat
  BY DEF T
<1>4. n \in T
  BY <1>1, <1>2, <1>3, SetInduction
<1> QED
  BY <1>4 DEF T

\* What FlattenSeq computes, from the function it recurs with
LEMMA FlattenJoins ==
    ASSUME NEW s, Len(s) \in Nat \ {0}
    PROVE  \E g : Joins(g, s, Len(s)) /\ FlattenSeq(s) = g[Len(s)]
<1> DEFINE g == CHOOSE h : h = [i \in 1 .. Len(s) |-> IF i = 1 THEN s[i] ELSE h[i - 1] \o s[i]]
<1>1. Joins(g, s, Len(s))
  BY JoinsExist DEF Joins
<1>2. FlattenSeq(s) = g[Len(s)]
  BY DEF FlattenSeq
<1> QED
  BY <1>1, <1>2

Agree(s, t, n) == \A i \in 1 .. n : s[i] = t[i]

LEMMA JoinsAgree ==
    ASSUME NEW s, NEW t, NEW n \in Nat, NEW m \in Nat, NEW g, NEW h,
           Joins(g, s, n), Joins(h, t, m), n <= m, Agree(s, t, n)
    PROVE  Agree(g, h, n)
<1> DEFINE T == {i \in Nat : i \in 1 .. n => g[i] = h[i]}
<1>1. 0 \in T
  OBVIOUS
<1>2. ASSUME NEW i \in T PROVE i + 1 \in T
  <2>1. i \in Nat /\ (i \in 1 .. n => g[i] = h[i])
    OBVIOUS
  <2>2. ASSUME i + 1 \in 1 .. n PROVE g[i + 1] = h[i + 1]
    <3> DEFINE q == i + 1
    <3>1. /\ q \in 1 .. n /\ q \in 1 .. m /\ q - 1 = i
          /\ q # 1 => i \in 1 .. n
      BY <2>1, <2>2
    <3> HIDE DEF q
    <3>2. s[q] = t[q]
      BY <3>1 DEF Agree
    <3>3. g[q] = IF q = 1 THEN s[q] ELSE g[q - 1] \o s[q]
      BY <3>1, JoinsFacts
    <3>4. h[q] = IF q = 1 THEN t[q] ELSE h[q - 1] \o t[q]
      BY <3>1, JoinsFacts
    <3>5. g[q] = h[q]
      BY <2>1, <3>1, <3>2, <3>3, <3>4
    <3> QED
      BY <3>5 DEF q
  <2> QED
    BY <2>1, <2>2
<1>3. T \in SUBSET Nat
  OBVIOUS
<1> HIDE DEF T
<1>4. \A i \in Nat : i \in T
  BY <1>1, <1>2, <1>3, SetInduction
<1> QED
  BY <1>4 DEF T, Agree

\* The first k pieces of a sequence, joined
Cut(s, k) == FlattenSeq(SubSeq(s, 1, k))

LEMMA CutStep ==
    ASSUME NEW S, NEW s \in Seq(Seq(S)), NEW k \in 1 .. Len(s)
    PROVE  /\ Cut(s, 0) = <<>>
           /\ Cut(s, k) = IF k = 1 THEN s[1] ELSE Cut(s, k - 1) \o s[k]
<1>1. Len(s) \in Nat /\ \A i \in 1 .. Len(s) : s[i] \in Seq(S)
  BY LenProperties, ElementOfSeq
<1>2. Cut(s, 0) = <<>>
  <2>1. SubSeq(s, 1, 0) = <<>>
    BY SubSeqEmpty
  <2> QED
    BY <2>1 DEF Cut, FlattenSeq
<1>3. ASSUME NEW m \in 1 .. Len(s)
      PROVE  /\ Len(SubSeq(s, 1, m)) = m
             /\ \A i \in 1 .. m : SubSeq(s, 1, m)[i] = s[i]
             /\ \E g : Joins(g, SubSeq(s, 1, m), m) /\ Cut(s, m) = g[m]
  <2>1. /\ Len(SubSeq(s, 1, m)) = m
        /\ \A i \in 1 .. m : SubSeq(s, 1, m)[i] = s[i]
    <3>1. \A i \in 1 .. m : s[i] \in Seq(S)
      BY <1>1
    <3> QED
      BY <1>1, <3>1, SubSeqProperties
  <2>2. m \in Nat \ {0}
    BY <1>1
  <2> QED
    BY <2>1, <2>2, FlattenJoins DEF Cut
<1>4. PICK g : Joins(g, SubSeq(s, 1, k), k) /\ Cut(s, k) = g[k]
  BY <1>3
<1>5. k \in Nat /\ k \in 1 .. k
  BY <1>1
<1>6. g[k] = IF k = 1 THEN SubSeq(s, 1, k)[k] ELSE g[k - 1] \o SubSeq(s, 1, k)[k]
  <2> DEFINE t == SubSeq(s, 1, k)
  <2>1. Joins(g, t, k)
    BY <1>4
  <2> HIDE DEF t
  <2>2. g[k] = IF k = 1 THEN t[k] ELSE g[k - 1] \o t[k]
    BY <1>5, <2>1, JoinsFacts
  <2> QED
    BY <2>2 DEF t
<1>7. SubSeq(s, 1, k)[k] = s[k]
  BY <1>3, <1>5
<1>8. CASE k = 1
  BY <1>2, <1>4, <1>6, <1>7, <1>8
<1>9. CASE k # 1
  <2>1. k - 1 \in 1 .. Len(s) /\ k - 1 \in Nat /\ k - 1 \in 1 .. k - 1 /\ k - 1 <= k
    BY <1>1, <1>9
  <2>2. PICK h : Joins(h, SubSeq(s, 1, k - 1), k - 1) /\ Cut(s, k - 1) = h[k - 1]
    BY <1>3, <2>1
  <2>3. \A i \in 1 .. k - 1 : SubSeq(s, 1, k - 1)[i] = SubSeq(s, 1, k)[i]
    BY <1>3, <1>5, <2>1
  <2>4. Agree(h, g, k - 1)
    <3>1. Agree(SubSeq(s, 1, k - 1), SubSeq(s, 1, k), k - 1)
      BY <2>3 DEF Agree
    <3> QED
      BY <1>4, <1>5, <2>1, <2>2, <3>1, JoinsAgree
  <2>5. h[k - 1] = g[k - 1]
    BY <2>1, <2>4 DEF Agree
  <2> QED
    BY <1>2, <1>4, <1>6, <1>7, <1>9, <2>2, <2>5
<1> QED
  BY <1>8, <1>9

LEMMA CutFacts ==
    ASSUME NEW S, NEW s \in Seq(Seq(S))
    PROVE  /\ \A k \in 0 .. Len(s) : Cut(s, k) \in Seq(S)
           /\ Cut(s, 0) = <<>> /\ Cut(s, Len(s)) = FlattenSeq(s)
           /\ \A k \in 1 .. Len(s) : Cut(s, k) = Cut(s, k - 1) \o s[k]
<1>1. Len(s) \in Nat /\ \A i \in 1 .. Len(s) : s[i] \in Seq(S)
  BY LenProperties, ElementOfSeq
<1>2. Cut(s, 0) = <<>>
  BY SubSeqEmpty DEF Cut, FlattenSeq
<1>3. \A k \in 1 .. Len(s) : Cut(s, k) = Cut(s, k - 1) \o s[k]
  <2> TAKE k \in 1 .. Len(s)
  <2>0. Cut(s, k) = IF k = 1 THEN s[1] ELSE Cut(s, k - 1) \o s[k]
    BY CutStep
  <2>1. CASE k = 1
    <3>1. s[1] \in Seq(S)
      BY <1>1, <2>1
    <3>2. <<>> \o s[1] = s[1]
      BY <3>1, ConcatEmptySeq
    <3>3. k - 1 = 0
      BY <2>1
    <3> QED
      BY <1>2, <2>0, <2>1, <3>2, <3>3
  <2> QED
    BY <2>0, <2>1
<1> DEFINE T == {k \in Nat : k \in 0 .. Len(s) => Cut(s, k) \in Seq(S)}
<1>4. 0 \in T
  BY <1>2, EmptySeq
<1>5. ASSUME NEW k \in T PROVE k + 1 \in T
  <2>1. k \in Nat /\ (k \in 0 .. Len(s) => Cut(s, k) \in Seq(S))
    OBVIOUS
  <2>2. ASSUME k + 1 \in 0 .. Len(s) PROVE Cut(s, k + 1) \in Seq(S)
    <3>1. k \in 0 .. Len(s) /\ k + 1 \in 1 .. Len(s) /\ k + 1 - 1 = k
      BY <1>1, <2>1, <2>2
    <3> DEFINE m == k + 1
    <3>2. m \in 1 .. Len(s) /\ m - 1 = k
      BY <3>1
    <3> HIDE DEF m
    <3>3. Cut(s, m) = Cut(s, k) \o s[m] /\ s[m] \in Seq(S) /\ Cut(s, k) \in Seq(S)
      BY <1>1, <1>3, <2>1, <3>1, <3>2
    <3>4. Cut(s, m) \in Seq(S)
      BY <3>3, ConcatProperties
    <3> QED
      BY <3>4 DEF m
  <2> QED
    BY <2>1, <2>2
<1>6. T \in SUBSET Nat
  OBVIOUS
<1> HIDE DEF T
<1>7. \A k \in Nat : k \in T
  BY <1>4, <1>5, <1>6, SetInduction
<1>8. \A k \in 0 .. Len(s) : Cut(s, k) \in Seq(S)
  BY <1>1, <1>7 DEF T
<1>9. Cut(s, Len(s)) = FlattenSeq(s)
  BY SubSeqFull DEF Cut
<1> QED
  BY <1>2, <1>3, <1>8, <1>9

\* A shorter cut begins a longer one
LEMMA CutPrefix ==
    ASSUME NEW S, NEW s \in Seq(Seq(S)), NEW j \in 0 .. Len(s), NEW k \in j .. Len(s)
    PROVE  /\ Len(Cut(s, j)) <= Len(Cut(s, k))
           /\ \A p \in 1 .. Len(Cut(s, j)) : Cut(s, k)[p] = Cut(s, j)[p]
<1>1. Len(s) \in Nat /\ \A i \in 1 .. Len(s) : s[i] \in Seq(S)
  BY LenProperties, ElementOfSeq
<1> DEFINE Q(n) == /\ Len(Cut(s, j)) <= Len(Cut(s, n))
                   /\ \A p \in 1 .. Len(Cut(s, j)) : Cut(s, n)[p] = Cut(s, j)[p]
           T == {n \in Nat : n \in j .. Len(s) => Q(n)}
<1>2. \A n \in 0 .. Len(s) : Cut(s, n) \in Seq(S) /\ Len(Cut(s, n)) \in Nat
  BY CutFacts, LenProperties
<1>3. Q(j)
  BY <1>2
<1>4. 0 \in T
  <2>1. 0 \in j .. Len(s) => j = 0
    BY <1>1
  <2> QED
    BY <1>3, <2>1
<1>5. ASSUME NEW n \in T PROVE n + 1 \in T
  <2>1. n \in Nat /\ (n \in j .. Len(s) => Q(n))
    OBVIOUS
  <2>2. ASSUME n + 1 \in j .. Len(s) PROVE Q(n + 1)
    <3>1. CASE n + 1 = j
      BY <1>3, <3>1
    <3>2. CASE n + 1 # j
      <4>1. /\ n \in j .. Len(s) /\ n \in 0 .. Len(s) /\ n + 1 \in 1 .. Len(s)
            /\ n + 1 - 1 = n
        BY <1>1, <2>1, <2>2, <3>2
      <4>2. Q(n)
        BY <2>1, <4>1
      <4> DEFINE m == n + 1
                 a == Cut(s, n)
                 b == s[m]
      <4>3. m \in 1 .. Len(s) /\ m - 1 = n
        BY <4>1
      <4>4. a \in Seq(S) /\ b \in Seq(S) /\ Cut(s, m) = a \o b
        <5> HIDE DEF m
        <5>1. Cut(s, m) = Cut(s, m - 1) \o s[m]
          BY <4>3, CutFacts
        <5> QED
          BY <1>1, <1>2, <4>1, <4>3, <5>1
      <4> HIDE DEF m, a, b
      <4>5. /\ Len(Cut(s, m)) = Len(a) + Len(b)
            /\ \A p \in 1 .. Len(a) + Len(b) :
                  Cut(s, m)[p] = IF p <= Len(a) THEN a[p] ELSE b[p - Len(a)]
        BY <4>4, ConcatProperties
      <4>6. Len(a) \in Nat /\ Len(b) \in Nat
        BY <4>4, LenProperties
      <4>7. Len(Cut(s, j)) \in Nat
        BY <1>1, <1>2
      <4>8. /\ Len(Cut(s, j)) <= Len(a)
            /\ \A p \in 1 .. Len(Cut(s, j)) : a[p] = Cut(s, j)[p]
        BY <4>2 DEF a
      <4>9. Q(m)
        <5> HIDE DEF T
        <5>1. Len(Cut(s, j)) <= Len(Cut(s, m))
          BY <4>5, <4>6, <4>7, <4>8
        <5>2. ASSUME NEW p \in 1 .. Len(Cut(s, j)) PROVE Cut(s, m)[p] = Cut(s, j)[p]
          <6>1. p \in 1 .. Len(a) + Len(b) /\ p <= Len(a)
            BY <4>6, <4>7, <4>8
          <6> QED
            BY <4>5, <4>8, <6>1
        <5> QED
          BY <5>1, <5>2
      <4> QED
        BY <4>9 DEF m
    <3> QED
      BY <3>1, <3>2
  <2> HIDE DEF Q
  <2> QED
    BY <2>1, <2>2
<1>6. T \in SUBSET Nat
  OBVIOUS
<1> HIDE DEF T
<1>7. \A n \in Nat : n \in T
  BY <1>4, <1>5, <1>6, SetInduction
<1>9. k \in Nat /\ k \in j .. Len(s)
  BY <1>1
<1>8. Q(k)
  BY <1>7, <1>9 DEF T
<1> QED
  BY <1>8

\* Where each piece is
LEMMA PieceAt ==
    ASSUME NEW S, NEW s \in Seq(Seq(S)), NEW k \in 1 .. Len(s)
    PROVE  /\ Len(Cut(s, k - 1)) \in Nat /\ Len(s[k]) \in Nat
           /\ Len(Cut(s, k)) = Len(Cut(s, k - 1)) + Len(s[k])
           /\ Len(Cut(s, k)) <= Len(FlattenSeq(s))
           /\ \A p \in 1 .. Len(s[k]) : FlattenSeq(s)[Len(Cut(s, k - 1)) + p] = s[k][p]
<1>1. Len(s) \in Nat /\ k - 1 \in 0 .. Len(s) /\ k \in 0 .. Len(s) /\ Len(s) \in k .. Len(s)
  BY LenProperties
<1>2. /\ Cut(s, k - 1) \in Seq(S) /\ Cut(s, k) = Cut(s, k - 1) \o s[k] /\ s[k] \in Seq(S)
      /\ Cut(s, Len(s)) = FlattenSeq(s)
  BY <1>1, CutFacts, ElementOfSeq
<1>3. /\ Len(Cut(s, k - 1)) \in Nat /\ Len(s[k]) \in Nat
      /\ Len(Cut(s, k)) = Len(Cut(s, k - 1)) + Len(s[k])
      /\ \A p \in 1 .. Len(Cut(s, k - 1)) + Len(s[k]) :
            Cut(s, k)[p] = IF p <= Len(Cut(s, k - 1)) THEN Cut(s, k - 1)[p]
                           ELSE s[k][p - Len(Cut(s, k - 1))]
  <2> DEFINE a == Cut(s, k - 1)
             b == s[k]
  <2>1. a \in Seq(S) /\ b \in Seq(S) /\ Cut(s, k) = a \o b
    BY <1>2
  <2> HIDE DEF a, b
  <2>2. /\ Len(Cut(s, k)) = Len(a) + Len(b)
        /\ \A p \in 1 .. Len(a) + Len(b) :
              Cut(s, k)[p] = IF p <= Len(a) THEN a[p] ELSE b[p - Len(a)]
    BY <2>1, ConcatProperties
  <2>3. Len(a) \in Nat /\ Len(b) \in Nat
    BY <2>1, LenProperties
  <2> QED
    BY <2>2, <2>3 DEF a, b
<1>4. /\ Len(Cut(s, k)) <= Len(FlattenSeq(s))
      /\ \A p \in 1 .. Len(Cut(s, k)) : FlattenSeq(s)[p] = Cut(s, k)[p]
  BY <1>1, <1>2, CutPrefix
<1>5. ASSUME NEW p \in 1 .. Len(s[k])
      PROVE  FlattenSeq(s)[Len(Cut(s, k - 1)) + p] = s[k][p]
  <2> DEFINE o == Len(Cut(s, k - 1))
             q == o + p
  <2>1. o \in Nat /\ q \in 1 .. o + Len(s[k]) /\ ~(q <= o) /\ q - o = p
    BY <1>3
  <2> QED
    BY <1>3, <1>4, <2>1
<1> QED
  BY <1>3, <1>4, <1>5

(***************************************************************************)
(* The life of the socket                                                  *)
(***************************************************************************)
\* Where the socket is when each function runs, and who may have closed it
Alive ==
    /\ bev \in {"nil", "live"}
    /\ quit => bev = "nil" /\ obj # "none"
    /\ obj = "none" => ~held /\ bev = "nil" /\ ~dns /\ state = "None" /\ pc = "idle"
    /\ obj \in {"taken", "freed"} => ~held
    /\ pc \in {"read", "frame"} => bev = "live" /\ state \in {"Connected", "Opened"}
    /\ pc = "frame" => state = "Opened"
    /\ pc \in {"open", "data"} => state = "Opened" /\ (bev = "nil" => quit)
    /\ pc = "data" => next \in {"read", "frame"}
    /\ pc = "close" => state = "Closed"
    /\ state = "Closed" /\ bev = "live" => pc = "close"
    /\ dns => state = "None" /\ (bev = "nil" => quit \/ obj \in {"taken", "freed"})
    /\ reading => state \in {"Connected", "Opened", "Closed"}

LEMMA AliveInit == Init => Alive
BY DEF Init, Alive, Functions

\* What the two ways a message may end, and waiting, do to the life
LEMMA DeliverLife ==
    ASSUME NEW b, NEW type, NEW n, Deliver(b, type, n)
    PROVE  /\ UNCHANGED <<state, bev, dns, reading, obj, held, quit>>
           /\ (pc' = n /\ next' = next) \/ (pc' = "data" /\ next' = n)
           /\ fault' = fault /\ after' = after
BY DEF Deliver, Go, life, owner

LEMMA WaitLife ==
    ASSUME Wait
    PROVE  UNCHANGED <<state, bev, dns, reading, obj, held, quit>> /\ pc' = "idle"
BY DEF Wait, Finish, life, owner

LEMMA FaultLife ==
    ASSUME NEW kind, Fault(kind)
    PROVE  UNCHANGED <<state, bev, dns, reading, obj, held, quit, pc, next>>
BY DEF Fault, life, owner, control

LEMMA RestLife ==
    ASSUME Rest
    PROVE  /\ pc = "read" /\ state = "Opened"
           /\ \/ Wait
              \/ \E b, type : Deliver(b, type, "frame")
              \/ pc' = "frame" /\ UNCHANGED <<next, after, life, owner, message, got, fault>>
BY DEF Rest, Go

LEMMA FrameLife ==
    ASSUME Frame
    PROVE  /\ pc = "frame"
           /\ \/ Wait
              \/ Fault("sync") \/ Fault("read")
              \/ Closing("this")
              \/ \E b, type : Deliver(b, type, "read")
              \/ pc' = "read" /\ UNCHANGED <<next, after, life, owner, got, fault>>
BY DEF Frame, Body, Go

LEMMA AliveNext == Alive /\ [Next]_vars => Alive'
<1> SUFFICES ASSUME Alive, [Next]_vars PROVE Alive'
  OBVIOUS
<1> USE DEF Alive, vars, peer, life, owner, message, control
<1>1. ASSUME NEW url \in {"bad", "partial", "address", "name"}, Open(url) PROVE Alive'
  BY <1>1 DEF Open
<1>2. CASE Close
  BY <1>2 DEF Close, Script, Functions
<1>3. CASE Drop
  <2>1. CASE pc = "idle"
    BY <1>3, <2>1 DEF Drop, Script
  <2>2. CASE pc # "idle"
    BY <1>3, <2>2 DEF Drop, Script
  <2> QED
    BY <2>1, <2>2
<1>4. ASSUME NEW found \in BOOLEAN, DnsAnswer(found) PROVE Alive'
  <2>1. CASE obj = "freed" \/ (found /\ bev = "nil")
    <3>1. Fault("object") \/ Fault("bev")
      BY <1>4, <2>1 DEF DnsAnswer
    <3> QED
      BY <3>1 DEF Fault
  <2>2. CASE ~(obj = "freed" \/ (found /\ bev = "nil"))
    BY <1>4, <2>2 DEF DnsAnswer
  <2> QED
    BY <2>1, <2>2
<1>5. CASE Connected
  BY <1>5 DEF Connected
<1>6. CASE Written
  BY <1>6 DEF Written
<1>7. CASE Broken
  BY <1>7 DEF Broken, Closing
<1>8. CASE Arrive
  BY <1>8 DEF Arrive, Go
<1>9. CASE Handshake
  <2>1. CASE Fault("read") \/ Fault("status")
    BY <2>1, FaultLife
  <2>2. CASE ~(Fault("read") \/ Fault("status"))
    BY <1>9, <2>2 DEF Handshake, Wait, Finish, Closing
  <2> QED
    BY <2>1, <2>2
<1>10. CASE Rest
  <2>1. CASE Wait
    BY <1>10, <2>1, RestLife, WaitLife
  <2>2. ASSUME NEW b, NEW type, Deliver(b, type, "frame") PROVE Alive'
    BY <1>10, <2>2, RestLife, DeliverLife
  <2> QED
    BY <1>10, <2>1, <2>2, RestLife
<1>11. CASE Frame
  <2>1. CASE Wait
    BY <1>11, <2>1, FrameLife, WaitLife
  <2>2. ASSUME NEW b, NEW type, Deliver(b, type, "read") PROVE Alive'
    BY <1>11, <2>2, FrameLife, DeliverLife
  <2>3. CASE Fault("sync") \/ Fault("read")
    BY <2>3, FaultLife
  <2>4. CASE Closing("this")
    BY <1>11, <2>4, FrameLife DEF Closing
  <2> QED
    BY <1>11, <2>1, <2>2, <2>3, <2>4, FrameLife
<1>12. CASE Return
  <2>1. ASSUME Fault("object") \/ Fault("bev") PROVE Alive'
    BY <2>1, FaultLife
  <2>2. CASE ReturnOpen
    <3>1. CASE held /\ bev # "nil"
      <4>1. pc = "open" /\ pc' = "read" /\ UNCHANGED <<state, bev, dns, reading, obj, held,
                                                       quit, next>>
        BY <2>2, <3>1 DEF ReturnOpen
      <4> QED
        BY <3>1, <4>1
    <3>2. CASE ~(held /\ bev # "nil")
      BY <2>1, <2>2, <3>2 DEF ReturnOpen
    <3> QED
      BY <3>1, <3>2
  <2>3. CASE ReturnData
    <3>1. CASE held /\ bev # "nil"
      <4>1. pc = "data" /\ pc' = next /\ UNCHANGED <<state, bev, dns, reading, obj, held,
                                                     quit, next>>
        BY <2>3, <3>1 DEF ReturnData, Go
      <4> QED
        BY <3>1, <4>1
    <3>2. CASE ~(held /\ bev # "nil")
      BY <2>1, <2>3, <3>2 DEF ReturnData
    <3> QED
      BY <3>1, <3>2
  <2>4. CASE ReturnClose
    BY <2>4 DEF ReturnClose
  <2> QED
    BY <1>12, <2>2, <2>3, <2>4 DEF Return
<1>13. CASE OtherDeletes
  <2>1. CASE Fault("thread")
    BY <2>1, FaultLife
  <2>2. CASE ~Fault("thread")
    BY <1>13, <2>2 DEF OtherDeletes
  <2> QED
    BY <2>1, <2>2
<1>14. CASE UNCHANGED vars
  BY <1>14
<1> QED
  BY <1>1, <1>2, <1>3, <1>4, <1>5, <1>6, <1>7, <1>8, <1>9, <1>10, <1>11, <1>12, <1>13,
     <1>14 DEF Next, OnReading

\* The socket's life, however the functions, the network and the script meet
LEMMA AliveAlways == Spec => []Alive
BY AliveInit, AliveNext, PTL DEF Spec

\* onclose is the last the script hears of a socket it has closed or that was
\* closed, unless a query was still pending: no message and no other function
\* follows (kk-ws.cc 138-149, 447-514)
THEOREM SilentAfterClose == Spec => LastWord
<1> DEFINE Silent == quit \/ state = "Closed" =>
              /\ got' = got
              /\ pc' \in Functions /\ pc' # pc =>
                    pc' = "close" /\ dns /\ state # "Closed"
<1>1. Alive /\ [Next]_vars => [Silent]_vars
  <2> SUFFICES ASSUME Alive, Next, quit \/ state = "Closed"
               PROVE  /\ got' = got
                      /\ pc' \in Functions /\ pc' # pc =>
                            pc' = "close" /\ dns /\ state # "Closed"
    OBVIOUS
  <2> USE DEF Alive, Functions
  <2>1. ASSUME NEW url \in {"bad", "partial", "address", "name"}, Open(url)
        PROVE  got' = got /\ pc' = pc
    BY <2>1 DEF Open, control
  <2>2. CASE Close
    BY <2>2 DEF Close, control
  <2>3. CASE Drop \/ OtherDeletes
    BY <2>3 DEF Drop, OtherDeletes, Fault, control
  <2>4. ASSUME NEW found \in BOOLEAN, DnsAnswer(found)
        PROVE  got' = got /\ (pc' = pc \/ (pc' = "close" /\ dns /\ state # "Closed"))
    BY <2>4 DEF DnsAnswer, Fault, control
  <2>5. CASE Connected \/ Written
    BY <2>5 DEF Connected, Written, control
  <2>6. CASE Broken \/ Arrive \/ OnReading
    <3>1. bev = "live" /\ pc # "close"
      BY <2>6 DEF Broken, Arrive, OnReading, Handshake, Rest, Frame
    <3> QED
      BY <3>1
  <2>7. CASE Return
    <3>1. CASE Fault("object") \/ Fault("bev")
      BY <3>1 DEF Fault, control
    <3>2. CASE ~(Fault("object") \/ Fault("bev"))
      BY <2>7, <3>2 DEF Return, ReturnOpen, ReturnData, ReturnClose, Go
    <3> QED
      BY <3>1, <3>2
  <2> QED
    BY <2>1, <2>2, <2>3, <2>4, <2>5, <2>6, <2>7 DEF Next
<1> QED
  BY <1>1, AliveAlways, PTL DEF Spec, LastWord

(***************************************************************************)
(* What the peer sends, as frames, bytes and messages                      *)
(***************************************************************************)
\* The answer to the handshake comes first, and once
Shape ==
    /\ frames \in Seq(Frames \cup Answers) /\ stream = Bytes(frames)
    /\ Len(frames) >= 1 /\ frames[1] \in Answers
    /\ \A k \in 2 .. Len(frames) : frames[k] \in Frames

LEMMA ShapeInit == Init => Shape
<1> SUFFICES ASSUME Init PROVE Shape
  OBVIOUS
<1>1. PICK a \in Answers, n \in 0 .. MaxFrames : \E fs \in [1 .. n -> Frames] :
         frames = <<a>> \o fs
  BY DEF Init
<1>2. PICK fs \in [1 .. n -> Frames] : frames = <<a>> \o fs
  BY <1>1
<1> DEFINE S == Frames \cup Answers
           b == <<a>>
<1>3. n \in Nat
  BY FramesAssumption
<1>4. fs \in Seq(S) /\ Len(fs) = n /\ b \in Seq(S) /\ Len(b) = 1 /\ b[1] = a
  <2>1. fs \in Seq(Frames) /\ Len(fs) = n
    BY <1>3, IsASeq, LenProperties
  <2>2. fs \in Seq(S)
    BY <2>1, SeqMonotonic
  <2> QED
    BY <2>1, <2>2
<1> HIDE DEF b, S
<1>5. /\ frames \in Seq(S) /\ Len(frames) = 1 + n
      /\ \A k \in 1 .. 1 + n : frames[k] = IF k <= 1 THEN b[k] ELSE fs[k - 1]
  BY <1>2, <1>4, ConcatProperties DEF b
<1>6. frames[1] \in Answers
  BY <1>3, <1>4, <1>5
<1>7. ASSUME NEW k \in 2 .. 1 + n PROVE frames[k] \in Frames
  <2>1. frames[k] = fs[k - 1] /\ k - 1 \in 1 .. n
    BY <1>3, <1>5
  <2> QED
    BY <2>1
<1> QED
  BY <1>3, <1>5, <1>6, <1>7 DEF Init, Shape, S

LEMMA PeerStays == [Next]_vars => UNCHANGED <<frames, stream>>
BY DEF vars, peer, Next, Open, Close, Drop, OtherDeletes, DnsAnswer, Fault, Connected,
   Written, Broken, Closing, Arrive, OnReading, Handshake, Wait, Rest, Deliver, Frame, Body, Return,
   ReturnOpen, ReturnData, ReturnClose

LEMMA ShapeNext == Shape /\ [Next]_vars => Shape'
BY PeerStays DEF Shape

\* What a part of a sequence is
LEMMA PartOf ==
    ASSUME NEW S, NEW s \in Seq(S), NEW a \in Nat, NEW m \in Nat, a + m <= Len(s)
    PROVE  /\ SubSeq(s, a + 1, a + m) = [i \in 1 .. m |-> s[a + i]]
           /\ SubSeq(s, a + 1, a + m) \in Seq(S) /\ Len(SubSeq(s, a + 1, a + m)) = m
<1> DEFINE t == SubSeq(s, a + 1, a + m)
<1>1. Len(s) \in Nat /\ \A i \in 1 .. Len(s) : s[i] \in S
  BY LenProperties, ElementOfSeq
<1>2. \A i \in a + 1 .. a + m : s[i] \in S
  BY <1>1
<1>3. /\ t \in Seq(S) /\ Len(t) = IF a + 1 <= a + m THEN (a + m) - (a + 1) + 1 ELSE 0
      /\ \A i \in 1 .. (a + m) - (a + 1) + 1 : t[i] = s[a + 1 + i - 1]
  BY <1>2, SubSeqProperties
<1> HIDE DEF t
<1>4. Len(t) = m
  BY <1>3
<1>5. ASSUME NEW i \in 1 .. m PROVE t[i] = s[a + i]
  <2>1. a + 1 + i - 1 = a + i /\ i \in 1 .. (a + m) - (a + 1) + 1
    OBVIOUS
  <2> QED
    BY <1>3, <2>1
<1>6. t = [i \in 1 .. m |-> t[i]]
  BY <1>3, <1>4, LenProperties
<1> QED
  BY <1>3, <1>4, <1>5, <1>6 DEF t

LEMMA FrameFields ==
    ASSUME Shape, NEW k \in 1 .. Len(frames)
    PROVE  /\ frames[k].fin \in BOOLEAN /\ frames[k].head \in {2, 3}
           /\ frames[k].key \in Nat /\ frames[k].len \in Nat
           /\ frames[k].op # "pong" => frames[k].key = 0
           /\ k = 1 => /\ frames[k].op \in AnswerOps
                       /\ frames[k].head = 2 /\ frames[k].key = 0 /\ frames[k].len = 0
           /\ k # 1 => frames[k].op \in FrameOps
           /\ Len(frames) \in Nat /\ DOMAIN frames = 1 .. Len(frames)
<1>1. Len(frames) \in Nat /\ DOMAIN frames = 1 .. Len(frames)
  BY LenProperties DEF Shape
<1>2. frames[k] \in Frames \cup Answers
  BY ElementOfSeq DEF Shape
<1>3. k # 1 => frames[k] \in Frames
  BY <1>1 DEF Shape
<1>4. frames[k] \in [op : AnswerOps \cup FrameOps, fin : BOOLEAN, head : {2, 3},
                      key : Nat, len : Nat]
  BY <1>2, FramesAssumption
<1> QED
  BY <1>1, <1>3, <1>4, FramesAssumption DEF Shape

\* The frames' bytes, and the messages the frames are
Pieces(fs) == [k \in DOMAIN fs |-> [i \in 1 .. fs[k].head + fs[k].key + fs[k].len |-> <<k, i>>]]
Letter(fs, k) == [type |-> "Text",
                  body |-> [i \in 1 .. fs[k].len |-> <<k, fs[k].head + i>>]]
Letters(fs) == [k \in DOMAIN fs |-> IF fs[k].op = "text" THEN <<Letter(fs, k)>> ELSE <<>>]

\* Where the k-th frame ends, and what has been sent by then
Off(fs, k) == Len(Cut(Pieces(fs), k))
Sent(fs, k) == Cut(Letters(fs), k)

Size(k) == frames[k].head + frames[k].key + frames[k].len

LEMMA SizeFacts ==
    ASSUME Shape, NEW k \in 1 .. Len(frames)
    PROVE  /\ Size(k) \in Nat /\ Size(k) >= 2 /\ frames[k].head \in Nat
           /\ frames[k].head <= Size(k)
<1> DEFINE h == frames[k].head
           y == frames[k].key
           l == frames[k].len
<1>1. h \in Nat /\ h >= 2 /\ y \in Nat /\ l \in Nat
  BY FrameFields
<1>2. Size(k) = h + y + l
  BY DEF Size
<1> HIDE DEF h, y, l
<1>3. Size(k) \in Nat /\ Size(k) >= 2 /\ h <= Size(k)
  BY <1>1, <1>2
<1> QED
  BY <1>1, <1>3 DEF h

Places == (1 .. Len(frames)) \X Nat
Boxes == [type : {"Text"}, body : Seq(Places)]

LEMMA PiecesType ==
    ASSUME Shape
    PROVE  /\ Pieces(frames) \in Seq(Seq(Places)) /\ Len(Pieces(frames)) = Len(frames)
           /\ \A k \in 1 .. Len(frames) :
                /\ Pieces(frames)[k] = [i \in 1 .. Size(k) |-> <<k, i>>]
                /\ Len(Pieces(frames)[k]) = Size(k)
<1>1. Len(frames) \in Nat /\ DOMAIN frames = 1 .. Len(frames)
  BY LenProperties DEF Shape
<1>2. ASSUME NEW k \in 1 .. Len(frames)
      PROVE  /\ Pieces(frames)[k] = [i \in 1 .. Size(k) |-> <<k, i>>]
             /\ Pieces(frames)[k] \in Seq(Places)
             /\ Len(Pieces(frames)[k]) = Size(k)
  <2> DEFINE n == Size(k)
  <2>1. n \in Nat
    BY SizeFacts
  <2>2. Pieces(frames)[k] = [i \in 1 .. n |-> <<k, i>>]
    BY <1>1 DEF Pieces, Size
  <2> HIDE DEF n
  <2>3. [i \in 1 .. n |-> <<k, i>>] \in [1 .. n -> Places]
    BY <1>1, <2>1 DEF Places
  <2>4. [i \in 1 .. n |-> <<k, i>>] \in Seq(Places)
    BY <2>1, <2>3, IsASeq
  <2>5. Len([i \in 1 .. n |-> <<k, i>>]) = n
    BY <2>1, <2>4, LenProperties
  <2> QED
    BY <2>2, <2>4, <2>5 DEF n
<1>3. Pieces(frames) \in [1 .. Len(frames) -> Seq(Places)]
  BY <1>1, <1>2 DEF Pieces
<1>4. Pieces(frames) \in Seq(Seq(Places))
  BY <1>1, <1>3, IsASeq
<1>5. Len(Pieces(frames)) = Len(frames)
  BY <1>1, <1>3, <1>4, LenProperties
<1> QED
  BY <1>2, <1>4, <1>5

\* Each frame's bytes are at its place in the stream
LEMMA Offsets ==
    ASSUME Shape
    PROVE  /\ stream \in Seq(Places) /\ Len(stream) \in Nat
           /\ Off(frames, 0) = 0 /\ Off(frames, Len(frames)) = Len(stream)
           /\ \A k \in 1 .. Len(frames) :
                /\ Off(frames, k - 1) \in Nat
                /\ Off(frames, k) = Off(frames, k - 1) + Size(k)
                /\ Off(frames, k) <= Len(stream)
                /\ \A p \in 1 .. Size(k) :
                      stream[Off(frames, k - 1) + p] = <<k, p>>
<1> DEFINE s == Pieces(frames)
<1>1. /\ s \in Seq(Seq(Places)) /\ Len(s) = Len(frames)
      /\ \A k \in 1 .. Len(frames) :
           /\ s[k] = [i \in 1 .. Size(k) |-> <<k, i>>]
           /\ Len(s[k]) = Size(k)
  BY PiecesType
<1>2. stream = FlattenSeq(s)
  BY DEF Shape, Bytes, Pieces
<1>3. Len(frames) \in Nat
  BY LenProperties DEF Shape
<1> HIDE DEF s
<1>4. /\ \A k \in 0 .. Len(s) : Cut(s, k) \in Seq(Places)
      /\ Cut(s, 0) = <<>> /\ Cut(s, Len(s)) = stream
  BY <1>1, <1>2, CutFacts
<1>5. stream \in Seq(Places) /\ Len(stream) \in Nat
  <2>1. Len(s) \in 0 .. Len(s)
    BY <1>1, <1>3
  <2> QED
    BY <1>4, <2>1, LenProperties
<1>6. Off(frames, 0) = 0 /\ Off(frames, Len(frames)) = Len(stream)
  BY <1>1, <1>4 DEF Off, s
<1>7. ASSUME NEW k \in 1 .. Len(frames)
      PROVE  /\ Off(frames, k - 1) \in Nat
             /\ Off(frames, k) = Off(frames, k - 1) + Size(k)
             /\ Off(frames, k) <= Len(stream)
             /\ \A p \in 1 .. Size(k) :
                   stream[Off(frames, k - 1) + p] = <<k, p>>
  <2>1. k \in 1 .. Len(s)
    BY <1>1
  <2>2. /\ Len(Cut(s, k - 1)) \in Nat /\ Len(s[k]) \in Nat
        /\ Len(Cut(s, k)) = Len(Cut(s, k - 1)) + Len(s[k])
        /\ Len(Cut(s, k)) <= Len(FlattenSeq(s))
        /\ \A p \in 1 .. Len(s[k]) : FlattenSeq(s)[Len(Cut(s, k - 1)) + p] = s[k][p]
    <3>1. s \in Seq(Seq(Places))
      BY <1>1
    <3> QED
      BY <2>1, <3>1, PieceAt
  <2>3. Size(k) \in Nat
    BY SizeFacts
  <2>4. Off(frames, k) = Len(Cut(s, k)) /\ Off(frames, k - 1) = Len(Cut(s, k - 1))
    BY DEF Off, s
  <2>5. /\ s[k] = [i \in 1 .. Size(k) |-> <<k, i>>]
        /\ Len(s[k]) = Size(k)
    BY <1>1
  <2>6. ASSUME NEW p \in 1 .. Size(k)
        PROVE  stream[Off(frames, k - 1) + p] = <<k, p>>
    <3>1. stream[Off(frames, k - 1) + p] = s[k][p]
      BY <1>2, <2>2, <2>4, <2>5
    <3> QED
      BY <2>5, <3>1
  <2> QED
    BY <1>2, <2>2, <2>3, <2>4, <2>5, <2>6
<1> QED
  BY <1>5, <1>6, <1>7

LEMMA LettersType ==
    ASSUME Shape
    PROVE  /\ Letters(frames) \in Seq(Seq(Boxes)) /\ Len(Letters(frames)) = Len(frames)
           /\ \A k \in 1 .. Len(frames) :
                Letters(frames)[k] = IF frames[k].op = "text"
                                     THEN <<Letter(frames, k)>> ELSE <<>>
<1>1. Len(frames) \in Nat /\ DOMAIN frames = 1 .. Len(frames)
  BY LenProperties DEF Shape
<1>2. ASSUME NEW k \in 1 .. Len(frames)
      PROVE  /\ Letters(frames)[k] = IF frames[k].op = "text"
                                     THEN <<Letter(frames, k)>> ELSE <<>>
             /\ Letters(frames)[k] \in Seq(Boxes)
  <2>1. Letters(frames)[k] = IF frames[k].op = "text"
                             THEN <<Letter(frames, k)>> ELSE <<>>
    BY <1>1 DEF Letters
  <2>2. Letter(frames, k) \in Boxes
    <3> DEFINE m == frames[k].len
               h == frames[k].head
    <3>1. m \in Nat /\ h \in Nat
      BY FrameFields
    <3> HIDE DEF m, h
    <3>2. [i \in 1 .. m |-> <<k, h + i>>] \in [1 .. m -> Places]
      BY <1>1, <3>1 DEF Places
    <3>3. [i \in 1 .. m |-> <<k, h + i>>] \in Seq(Places)
      BY <3>1, <3>2, IsASeq
    <3> QED
      BY <3>3 DEF Letter, Boxes, m, h
  <2> QED
    BY <2>1, <2>2
<1>3. Letters(frames) \in [1 .. Len(frames) -> Seq(Boxes)]
  BY <1>1, <1>2 DEF Letters
<1>4. Letters(frames) \in Seq(Seq(Boxes))
  BY <1>1, <1>3, IsASeq
<1>5. Len(Letters(frames)) = Len(frames)
  BY <1>1, <1>3, <1>4, LenProperties
<1> QED
  BY <1>2, <1>4, <1>5

\* What has been sent after each frame, and after all of them
LEMMA Sending ==
    ASSUME Shape
    PROVE  /\ Sent(frames, 0) = <<>> /\ Sent(frames, Len(frames)) = Expected
           /\ \A k \in 0 .. Len(frames) :
                Sent(frames, k) \in Seq(Boxes) /\ IsPrefix(Sent(frames, k), Expected)
           /\ \A k \in 1 .. Len(frames) :
                Sent(frames, k) = IF frames[k].op = "text"
                                  THEN Append(Sent(frames, k - 1), Letter(frames, k))
                                  ELSE Sent(frames, k - 1)
<1> DEFINE s == Letters(frames)
<1>1. /\ s \in Seq(Seq(Boxes)) /\ Len(s) = Len(frames)
      /\ \A k \in 1 .. Len(frames) :
           s[k] = IF frames[k].op = "text" THEN <<Letter(frames, k)>> ELSE <<>>
  BY LettersType
<1>2. Expected = FlattenSeq(s)
  BY DEF Expected, Whole, Letters, Letter
<1>3. Len(frames) \in Nat
  BY LenProperties DEF Shape
<1> HIDE DEF s
<1>4. s \in Seq(Seq(Boxes))
  BY <1>1
<1>5. /\ \A k \in 0 .. Len(frames) : Cut(s, k) \in Seq(Boxes)
      /\ Cut(s, 0) = <<>> /\ Cut(s, Len(frames)) = Expected
      /\ \A k \in 1 .. Len(frames) : Cut(s, k) = Cut(s, k - 1) \o s[k]
  <2>1. /\ \A k \in 0 .. Len(s) : Cut(s, k) \in Seq(Boxes)
        /\ Cut(s, 0) = <<>> /\ Cut(s, Len(s)) = FlattenSeq(s)
        /\ \A k \in 1 .. Len(s) : Cut(s, k) = Cut(s, k - 1) \o s[k]
    BY <1>4, CutFacts
  <2> QED
    BY <1>1, <1>2, <2>1
<1>6. ASSUME NEW k \in 0 .. Len(frames) PROVE IsPrefix(Cut(s, k), Expected)
  <2>1. k \in 0 .. Len(s) /\ Len(s) \in k .. Len(s)
    BY <1>1, <1>3
  <2>2. /\ Len(Cut(s, k)) <= Len(Cut(s, Len(s)))
        /\ \A p \in 1 .. Len(Cut(s, k)) : Cut(s, Len(s))[p] = Cut(s, k)[p]
    BY <1>4, <2>1, CutPrefix
  <2> DEFINE a == Cut(s, k)
             b == Expected
  <2>3. Cut(s, Len(s)) = b
    BY <1>1, <1>5
  <2>4. Len(frames) \in 0 .. Len(frames)
    BY <1>3
  <2>5. a \in Seq(Boxes) /\ b \in Seq(Boxes)
    BY <1>5, <2>4
  <2>6. Len(a) <= Len(b) /\ \A p \in 1 .. Len(a) : b[p] = a[p]
    BY <2>2, <2>3
  <2> HIDE DEF a, b
  <2>7. Len(a) \in Nat /\ Len(b) \in Nat
    BY <2>5, LenProperties
  <2>8. SubSeq(a, 1, Len(a)) = SubSeq(b, 1, Len(a))
    <3> DEFINE m == Len(a)
    <3>1. /\ SubSeq(a, 0 + 1, 0 + m) = [i \in 1 .. m |-> a[0 + i]]
          /\ SubSeq(b, 0 + 1, 0 + m) = [i \in 1 .. m |-> b[0 + i]]
      BY <2>5, <2>6, <2>7, PartOf
    <3>2. \A i \in 1 .. m : a[0 + i] = b[0 + i]
      BY <2>6, <2>7
    <3>3. [i \in 1 .. m |-> a[0 + i]] = [i \in 1 .. m |-> b[0 + i]]
      BY <3>2
    <3> QED
      BY <2>7, <3>1, <3>3
  <2> QED
    BY <2>6, <2>8 DEF IsPrefix, a, b
<1>7. ASSUME NEW k \in 1 .. Len(frames)
      PROVE  Cut(s, k) = IF frames[k].op = "text"
                         THEN Append(Cut(s, k - 1), Letter(frames, k))
                         ELSE Cut(s, k - 1)
  <2> DEFINE a == Cut(s, k - 1)
             e == Letter(frames, k)
  <2>1. a \in Seq(Boxes)
    BY <1>3, <1>5
  <2>2. Cut(s, k) = a \o s[k]
    BY <1>5
  <2>3. s[k] = IF frames[k].op = "text" THEN <<e>> ELSE <<>>
    BY <1>1
  <2>4. s[k] \in Seq(Boxes)
    BY <1>1, ElementOfSeq
  <2> HIDE DEF a, e
  <2>5. CASE frames[k].op = "text"
    <3>1. s[k] = <<e>>
      BY <2>3, <2>5
    <3>2. e \in Boxes
      BY <2>4, <3>1, ElementOfSeq
    <3>3. Append(a, e) = a \o <<e>>
      BY <2>1, <3>2, AppendIsConcat
    <3> QED
      BY <2>2, <2>5, <3>1, <3>3 DEF a, e
  <2>6. CASE frames[k].op # "text"
    <3>1. s[k] = <<>>
      BY <2>3, <2>6
    <3>2. a \o <<>> = a
      BY <2>1, ConcatEmptySeq
    <3> QED
      BY <2>2, <2>6, <3>1, <3>2 DEF a, e
  <2> QED
    BY <2>5, <2>6
<1> QED
  BY <1>5, <1>6, <1>7 DEF Sent, s

(***************************************************************************)
(* Types                                                                   *)
(***************************************************************************)
LEMMA PartType ==
    ASSUME Shape, NEW a \in Nat, NEW m \in Nat, a + m <= Len(stream)
    PROVE  /\ SubSeq(stream, a + 1, a + m) \in Seq(Range(stream))
           /\ Len(SubSeq(stream, a + 1, a + m)) = m
<1>1. stream \in Seq(Range(stream))
  BY Offsets, SeqOfRange
<1> QED
  BY <1>1, PartOf

\* The frame at the head of the input
LEMMA HeadFrame ==
    ASSUME Shape, TypeOK, N >= 2
    PROVE  stream[taken + 1][1] \in 1 .. Len(frames)
<1>1. taken + 1 \in 1 .. Len(stream) /\ stream \in Seq(Places)
  BY Offsets DEF TypeOK, N
<1>2. stream[taken + 1] \in Places
  BY <1>1, ElementOfSeq
<1> QED
  BY <1>2 DEF Places

LEMMA TypeInit == Init => TypeOK
<1> SUFFICES ASSUME Init PROVE TypeOK
  OBVIOUS
<1>1. Shape /\ Len(stream) \in Nat
  BY ShapeInit, Offsets
<1>2. arrived \in 0 .. Len(stream) /\ taken \in 0 .. arrived
  BY <1>1 DEF Init
<1>3. /\ body \in Seq(Range(stream)) /\ got \in Seq([type : Types, body : Seq(Range(stream))])
      /\ btype \in Types /\ blen \in Nat
  BY EmptySeq DEF Init, Types
<1> QED
  BY <1>1, <1>2, <1>3 DEF Init, TypeOK, Shape

\* What is said of the stream, the body and the messages, apart from the rest
DataOK ==
    /\ frames \in Seq(Frames \cup Answers) /\ stream = Bytes(frames)
    /\ arrived \in 0..Len(stream) /\ taken \in 0..arrived
    /\ body \in Seq(Range(stream)) /\ btype \in Types /\ blen \in Nat
    /\ got \in Seq([type : Types, body : Seq(Range(stream))])

LEMMA DataStays ==
    ASSUME TypeOK, UNCHANGED <<peer, arrived, taken, message, got>>
    PROVE  DataOK'
<1>1. DataOK
  BY DEF TypeOK, DataOK
<1>2. UNCHANGED <<frames, stream, arrived, taken, body, btype, blen, got>>
  BY DEF peer, message
<1> QED
  BY <1>1, <1>2 DEF DataOK

Faults == {"none", "url", "object", "bev", "sync", "read", "status", "thread"}

LEMMA WaitType == TypeOK /\ Wait => TypeOK'
<1> SUFFICES ASSUME TypeOK, Wait PROVE TypeOK'
  OBVIOUS
<1>1. /\ UNCHANGED <<peer, arrived, taken, life, owner, message, got, next>>
      /\ pc' = "idle" /\ after' = FALSE /\ fault' \in {fault, "bev"}
  BY DEF Wait, Finish
<1>2. fault' \in Faults
  BY <1>1 DEF TypeOK, Faults
<1>3. DataOK'
  BY <1>1, DataStays
<1>4. UNCHANGED <<state, bev, dns, reading, obj, held, quit, next>>
  BY <1>1 DEF life, owner
<1>6. /\ state \in {"None", "Resolve", "Connected", "Opened", "Closed"}
      /\ bev \in {"nil", "live"} /\ dns \in BOOLEAN /\ reading \in BOOLEAN
      /\ obj \in {"none", "live", "taken", "freed"} /\ held \in BOOLEAN /\ quit \in BOOLEAN
      /\ next \in {"idle", "read", "frame", "this"}
  BY DEF TypeOK
<1>5. /\ state' \in {"None", "Resolve", "Connected", "Opened", "Closed"}
      /\ bev' \in {"nil", "live"} /\ dns' \in BOOLEAN /\ reading' \in BOOLEAN
      /\ obj' \in {"none", "live", "taken", "freed"} /\ held' \in BOOLEAN /\ quit' \in BOOLEAN
      /\ pc' \in {"idle", "read", "frame"} \cup Functions
      /\ next' \in {"idle", "read", "frame", "this"} /\ after' \in BOOLEAN
  BY <1>1, <1>4, <1>6
<1> QED
  BY <1>2, <1>3, <1>5 DEF TypeOK, DataOK, Faults

LEMMA DeliverType ==
    ASSUME TypeOK, NEW b \in Seq(Range(stream)), NEW type \in Types,
           NEW n \in {"read", "frame"}, Deliver(b, type, n), taken' \in 0 .. arrived
    PROVE  TypeOK'
<1>1. UNCHANGED <<frames, stream, arrived, state, bev, dns, reading, obj, held, quit, fault,
                  after>>
  BY DEF Deliver, Go, peer, life, owner
<1>2. body' \in Seq(Range(stream')) /\ btype' \in Types /\ blen' \in Nat
  BY <1>1, EmptySeq DEF Deliver, Types
<1>3. pc' \in {"idle", "read", "frame"} \cup Functions
      /\ next' \in {"idle", "read", "frame", "this"}
  BY DEF Deliver, Go, TypeOK, Functions
<1>4. got' \in Seq([type : Types, body : Seq(Range(stream'))])
  <2> DEFINE R == [type : Types, body : Seq(Range(stream))]
             e == [type |-> type, body |-> b]
  <2>1. got \in Seq(R) /\ e \in R
    BY DEF TypeOK
  <2>2. got' = got \/ got' = Append(got, e)
    BY DEF Deliver
  <2> HIDE DEF R, e
  <2>3. got' \in Seq(R)
    BY <2>1, <2>2, AppendProperties
  <2> QED
    BY <1>1, <2>3 DEF R
<1> QED
  BY <1>1, <1>2, <1>3, <1>4 DEF TypeOK

LEMMA RestType == ASSUME TypeOK, Shape, Rest PROVE TypeOK'
<1> DEFINE v == blen - Len(body)
           m == IF v > 0 /\ N >= v THEN v ELSE 0
           b == body \o Input(m)
<1>1. /\ arrived \in Nat /\ taken \in Nat /\ taken <= arrived /\ arrived <= Len(stream)
      /\ blen \in Nat /\ Len(body) \in Nat /\ body \in Seq(Range(stream)) /\ btype \in Types
      /\ Len(stream) \in Nat
  BY Offsets, LenProperties DEF TypeOK
<1>2. m \in Nat /\ taken + m <= arrived
  BY <1>1 DEF N
<1>3. Input(m) \in Seq(Range(stream))
  <2> HIDE DEF m
  <2>1. taken + m <= Len(stream)
    BY <1>1, <1>2
  <2>2. SubSeq(stream, taken + 1, taken + m) \in Seq(Range(stream))
    BY <1>1, <1>2, <2>1, PartType
  <2> QED
    BY <2>2 DEF Input
<1>4. b \in Seq(Range(stream))
  <2> HIDE DEF m
  <2> QED
    BY <1>1, <1>3, ConcatProperties
<1>5. \/ Wait
      \/ taken' = taken + m /\ Deliver(b, btype, "frame")
      \/ pc' = "frame" /\ UNCHANGED <<next, after, peer, arrived, taken, life, owner, message,
                                      got, fault>>
  BY DEF Rest, Go
<1> HIDE DEF b, m
<1>6. CASE Wait
  BY <1>6, WaitType
<1>7. CASE taken' = taken + m /\ Deliver(b, btype, "frame")
  BY <1>1, <1>2, <1>4, <1>7, DeliverType
<1>8. CASE pc' = "frame" /\ UNCHANGED <<next, after, peer, arrived, taken, life, owner,
                                        message, got, fault>>
  BY <1>8 DEF TypeOK, peer, life, owner, message
<1> QED
  BY <1>5, <1>6, <1>7, <1>8

LEMMA BodyType ==
    ASSUME TypeOK, Shape, N >= 2, NEW k \in 1 .. Len(frames), N >= frames[k].head,
           pc = "frame",
           Body(frames[k], IF frames[k].len > N - frames[k].head
                           THEN N - frames[k].head ELSE frames[k].len)
    PROVE  TypeOK'
<1> DEFINE f == frames[k]
           h == frames[k].head
           l == frames[k].len
           m == IF l > N - h THEN N - h ELSE l
           b == body \o SubSeq(stream, taken + h + 1, taken + h + m)
           type == CASE f.op = "text" -> "Text" [] f.op = "ping" -> "Ping"
                     [] OTHER -> btype
<1>1. /\ arrived \in Nat /\ taken \in Nat /\ taken <= arrived /\ arrived <= Len(stream)
      /\ blen \in Nat /\ Len(body) \in Nat /\ body \in Seq(Range(stream)) /\ btype \in Types
      /\ Len(stream) \in Nat
  BY Offsets, LenProperties DEF TypeOK
<1>2. h \in Nat /\ l \in Nat
  BY FrameFields
<1>3. /\ m \in Nat /\ taken + h + m <= arrived
      /\ taken + h + m \in 0 .. arrived /\ taken + h \in Nat
  <2> HIDE DEF h, l
  <2>1. N = arrived - taken /\ N \in Int /\ h <= N
    BY <1>1 DEF N, h
  <2>2. m \in Nat /\ h + m <= N
    BY <1>2, <2>1
  <2> HIDE DEF m
  <2>3. h + m <= arrived - taken
    BY <2>1, <2>2
  <2>4. arrived \in Nat /\ taken \in Nat
    BY <1>1
  <2> QED
    BY <1>2, <2>2, <2>3, <2>4
<1>4. b \in Seq(Range(stream))
  <2> HIDE DEF m, h
  <2>0. taken + h + m <= Len(stream)
    BY <1>1, <1>2, <1>3
  <2>1. SubSeq(stream, taken + h + 1, taken + h + m) \in Seq(Range(stream))
    BY <1>3, <2>0, PartType
  <2> QED
    BY <1>1, <2>1, ConcatProperties
<1>5. type \in Types
  BY <1>1 DEF Types
<1>6. /\ taken' = taken + h + m
      /\ \/ pc' = "read" /\ UNCHANGED <<next, after, peer, arrived, life, owner, message, got,
                                        fault>>
         \/ Deliver(b, type, "read")
         \/ /\ body' = b /\ btype' = type /\ blen' = l /\ pc' = "read"
            /\ UNCHANGED <<next, after, peer, arrived, life, owner, got, fault>>
  BY DEF Body, Go
<1> HIDE DEF h, l, m, b, type
<1>7. CASE pc' = "read" /\ UNCHANGED <<next, after, peer, arrived, life, owner, message, got,
                                       fault>>
  BY <1>3, <1>6, <1>7 DEF TypeOK, peer, life, owner, message
<1>8. CASE Deliver(b, type, "read")
  BY <1>3, <1>4, <1>5, <1>6, <1>8, DeliverType
<1>9. CASE /\ body' = b /\ btype' = type /\ blen' = l /\ pc' = "read"
           /\ UNCHANGED <<next, after, peer, arrived, life, owner, got, fault>>
  BY <1>2, <1>3, <1>4, <1>5, <1>6, <1>9 DEF TypeOK, peer, life, owner
<1> QED
  BY <1>6, <1>7, <1>8, <1>9

LEMMA FaultType ==
    ASSUME TypeOK, NEW kind \in Faults, Fault(kind) PROVE TypeOK'
BY DEF Fault, Faults, TypeOK, peer, life, owner, message, control

LEMMA ClosingType ==
    ASSUME TypeOK, NEW n \in {"idle", "this"}, Closing(n), taken' \in 0 .. arrived PROVE TypeOK'
BY DEF Closing, TypeOK, peer, life, owner, message, control, Functions

LEMMA FrameType == ASSUME TypeOK, Shape, Frame PROVE TypeOK'
<1> DEFINE k == stream[taken + 1][1]
           f == frames[k]
<1>1. CASE N < 2
  BY <1>1, WaitType DEF Frame
<1>2. CASE N >= 2
  <2>1. k \in 1 .. Len(frames)
    BY <1>2, HeadFrame
  <2>2. /\ pc = "frame"
        /\ \/ Fault("sync") \/ Fault("read")
           \/ Closing("this") /\ taken' = taken
           \/ Wait
           \/ /\ ~(N < f.head)
              /\ Body(f, IF f.len > N - f.head THEN N - f.head ELSE f.len)
    <3>1. ~(N < 2)
      BY <1>2 DEF N, TypeOK
    <3> QED
      BY <3>1 DEF Frame
  <2> HIDE DEF k
  <2>3. f.head \in Nat /\ N \in Int /\ taken \in 0 .. arrived
    <3>1. f.head \in {2, 3}
      BY <2>1, FrameFields
    <3> QED
      BY <3>1, Offsets DEF N, TypeOK
  <2>4. CASE Fault("sync") \/ Fault("read")
    BY <2>4, FaultType DEF Faults
  <2>5. CASE Closing("this") /\ taken' = taken
    BY <2>3, <2>5, ClosingType
  <2>6. CASE Wait
    BY <2>6, WaitType
  <2>7. CASE /\ ~(N < f.head)
             /\ Body(f, IF f.len > N - f.head THEN N - f.head ELSE f.len)
    BY <1>2, <2>1, <2>2, <2>3, <2>7, BodyType
  <2> QED
    BY <2>2, <2>4, <2>5, <2>6, <2>7
<1> QED
  BY <1>1, <1>2, Offsets DEF N, TypeOK

LEMMA TypeNext == TypeOK /\ Shape /\ Alive /\ [Next]_vars => TypeOK'
<1> SUFFICES ASSUME TypeOK, Shape, Alive, [Next]_vars PROVE TypeOK'
  OBVIOUS
<1> USE DEF vars, peer, life, owner, message, control
<1>1. ASSUME NEW url \in {"bad", "partial", "address", "name"}, Open(url) PROVE TypeOK'
  BY <1>1 DEF Open, TypeOK
<1>2. CASE Close
  BY <1>2 DEF Close, TypeOK
<1>3. CASE Drop
  <2>1. UNCHANGED <<peer, arrived, taken, state, dns, reading, quit, message, control, got,
                    fault>>
    BY <1>3 DEF Drop
  <2>2. held' = FALSE /\ obj' \in {obj, "taken", "freed"} /\ bev' \in {bev, "nil"}
    BY <1>3 DEF Drop
  <2>3. /\ held' \in BOOLEAN /\ obj' \in {"none", "live", "taken", "freed"}
        /\ bev' \in {"nil", "live"}
    BY <2>2 DEF TypeOK
  <2> QED
    BY <2>1, <2>3 DEF TypeOK
<1>4. ASSUME NEW found \in BOOLEAN, DnsAnswer(found) PROVE TypeOK'
  <2>1. CASE Fault("object") \/ Fault("bev")
    BY <2>1, FaultType DEF Faults
  <2>2. CASE ~(Fault("object") \/ Fault("bev"))
    <3>1. /\ UNCHANGED <<peer, arrived, taken, bev, reading, owner, message, after, got, fault>>
          /\ state' \in {"Resolve", "Closed"} /\ dns' = FALSE
          /\ pc' \in {pc, "close"} /\ next' \in {next, "idle"}
      BY <1>4, <2>2 DEF DnsAnswer
    <3>2. /\ pc' \in {"idle", "read", "frame"} \cup Functions
          /\ next' \in {"idle", "read", "frame", "this"}
      BY <3>1 DEF TypeOK, Functions
    <3>3. DataOK'
      BY <3>1, DataStays
    <3> QED
      BY <3>1, <3>2, <3>3 DEF TypeOK, DataOK
  <2> QED
    BY <2>1, <2>2
<1>5. CASE Connected \/ Written
  <2>1. CASE Connected
    BY <2>1 DEF Connected, TypeOK
  <2>2. CASE Written
    BY <2>2 DEF Written, TypeOK
  <2> QED
    BY <1>5, <2>1, <2>2
<1>6. CASE Broken
  BY <1>6, ClosingType DEF Broken, TypeOK
<1>7. CASE Arrive
  <2>1. PICK n \in arrived + 1 .. Len(stream) : arrived' = n
    BY <1>7 DEF Arrive
  <2> QED
    BY <1>7, <2>1, Offsets DEF Arrive, Go, TypeOK
<1>8. CASE Handshake
  <2>1. CASE N < 2
    BY <1>8, <2>1, WaitType DEF Handshake
  <2>2. CASE Fault("read") \/ Fault("status")
    BY <2>2, FaultType DEF Faults
  <2>3. CASE ~(N < 2) /\ ~(Fault("read") \/ Fault("status"))
    <3>0. taken' = taken + 2
      BY <1>8, <2>3 DEF Handshake
    <3>1. taken' \in 0 .. arrived
      BY <2>3, <3>0, Offsets DEF TypeOK, N
    <3>2. CASE Closing("idle")
      BY <3>1, <3>2, ClosingType
    <3>3. CASE ~Closing("idle")
      <4>1. /\ UNCHANGED <<peer, arrived, bev, dns, reading, owner, message, next, after,
                            got, fault>>
            /\ state' = "Opened" /\ pc' = "open"
        BY <1>8, <2>3, <3>3 DEF Handshake
      <4> QED
        BY <3>1, <4>1 DEF TypeOK, Functions
    <3> QED
      BY <3>2, <3>3
  <2> QED
    BY <2>1, <2>2, <2>3
<1>9. CASE Rest
  BY <1>9, RestType
<1>10. CASE Frame
  BY <1>10, FrameType
<1>11. CASE Return
  <2>1. CASE Fault("object") \/ Fault("bev")
    BY <2>1, FaultType DEF Faults
  <2>2. CASE ReturnOpen /\ ~(Fault("object") \/ Fault("bev"))
    <3>1. /\ UNCHANGED <<peer, arrived, taken, life, owner, message, next, got, fault>>
          /\ pc' = "read" /\ after' = TRUE
      BY <2>2 DEF ReturnOpen
    <3> QED
      BY <3>1 DEF TypeOK
  <2>3. CASE ReturnData /\ ~(Fault("object") \/ Fault("bev"))
    BY <2>3 DEF ReturnData, Go, Alive, TypeOK
  <2>4. CASE ReturnClose
    BY <2>4 DEF ReturnClose, TypeOK
  <2> QED
    BY <1>11, <2>1, <2>2, <2>3, <2>4 DEF Return
<1>12. CASE OtherDeletes
  <2>1. CASE Fault("thread")
    BY <2>1, FaultType DEF Faults
  <2>2. CASE ~Fault("thread")
    BY <1>12, <2>2 DEF OtherDeletes, TypeOK
  <2> QED
    BY <2>1, <2>2
<1>13. CASE UNCHANGED vars
  BY <1>13 DEF TypeOK
<1> QED
  BY <1>1, <1>2, <1>3, <1>4, <1>5, <1>6, <1>7, <1>8, <1>9, <1>10, <1>11, <1>12, <1>13
     DEF Next, OnReading

\* Types hold, and the frames and the life with them
LEMMA Always == Spec => [](TypeOK /\ Shape /\ Alive)
BY AliveInit, AliveNext, ShapeInit, ShapeNext, TypeInit, TypeNext, PTL DEF Spec

\* Every variable has its type, however the peer's bytes are grouped and
\* wherever the script and the network interfere: onReading() takes no more
\* than has arrived, and what ondata is given are bytes of the stream
\* (kk-ws.cc 227-406)
THEOREM TypeCorrect == Spec => []TypeOK
BY Always, PTL

(***************************************************************************)
(* What the parser has taken and what it has handed out                    *)
(***************************************************************************)
\* Between the k-th frame and the next
At(k) ==
    /\ taken = Off(frames, k) /\ got = Sent(frames, k)
    /\ body = <<>> /\ btype = "None"

TypeOf(k) == IF frames[k].op = "text" THEN "Text" ELSE "Ping"

\* Inside the payload of the k-th frame
Within(k) ==
    /\ frames[k].op \in {"text", "ping"}
    /\ body = [i \in 1 .. Len(body) |-> <<k, frames[k].head + i>>]
    /\ Len(body) < frames[k].len /\ blen = frames[k].len /\ btype = TypeOf(k)
    /\ taken = Off(frames, k - 1) + frames[k].head + Len(body)
    /\ got = Sent(frames, k - 1)

Parsed ==
    /\ state \in {"None", "Resolve", "Connected"} => At(0)
    /\ state = "Opened" =>
         \/ \E k \in 1 .. Len(frames) : At(k)
         \/ /\ pc \notin {"open", "data"} /\ (pc = "frame" => arrived = taken)
            /\ \E k \in 2 .. Len(frames) : Within(k)
    /\ state = "Closed" => \E k \in 0 .. Len(frames) : got = Sent(frames, k)
    /\ state = "Opened" /\ bev = "live" /\ pc = "idle" /\ arrived = Len(stream)
          => got = Expected

LEMMA ParsedInit == Init => Parsed
BY ShapeInit, Offsets, Sending DEF Init, Parsed, At

LEMMA Ends ==
    ASSUME Shape
    PROVE  /\ Len(frames) \in Nat /\ Len(frames) >= 1
           /\ 0 \in 0 .. Len(frames) /\ 1 \in 1 .. Len(frames)
           /\ \A k \in 1 .. Len(frames) : k \in 0 .. Len(frames) /\ k - 1 \in 0 .. Len(frames)
           /\ \A k \in 2 .. Len(frames) : k \in 1 .. Len(frames)
BY LenProperties DEF Shape

\* A socket that is closed has handed out the messages of its first frames
LEMMA ParsedSent ==
    ASSUME Shape, Parsed, state \in {"None", "Resolve", "Connected", "Opened", "Closed"}
    PROVE  \E k \in 0 .. Len(frames) : got = Sent(frames, k)
<1>1. CASE state \in {"None", "Resolve", "Connected"}
  BY <1>1, Ends DEF Parsed, At
<1>2. CASE state = "Opened"
  <2>1. CASE \E k \in 1 .. Len(frames) : At(k)
    BY <2>1, Ends DEF At
  <2>2. CASE \E k \in 2 .. Len(frames) : Within(k)
    BY <2>2, Ends DEF Within
  <2> QED
    BY <1>2, <2>1, <2>2 DEF Parsed
<1> QED
  BY <1>1, <1>2 DEF Parsed

\* What does not touch the parser leaves it where it was
LEMMA ParsedStays ==
    ASSUME Shape, Parsed,
           state \in {"None", "Resolve", "Connected", "Opened", "Closed"},
           UNCHANGED <<peer, taken, message, got>>,
           \/ state' = state
           \/ state' \in {"Resolve", "Connected"} /\ state \in {"None", "Resolve"}
           \/ state' = "Closed",
           state' = "Opened" =>
             /\ pc' \in {"open", "data"} => pc \in {"open", "data"}
             /\ pc' = "frame" => \/ pc \in {"open", "data"}
                                 \/ pc = "frame" /\ arrived' = arrived
                                 \/ arrived' = taken
             /\ bev' = "live" /\ pc' = "idle" =>
                  bev = "live" /\ pc = "idle" /\ arrived' = arrived
    PROVE  Parsed'
<1>1. UNCHANGED <<frames, stream, taken, body, btype, blen, got>>
  BY DEF peer, message
<1>2. \A k : (At(k) <=> At(k)') /\ (Within(k) <=> Within(k)')
  BY <1>1 DEF At, Within, TypeOf
<1>3. Expected' = Expected
  BY <1>1 DEF Expected, Whole
<1>4. CASE state' = "Closed"
  <2>1. \E k \in 0 .. Len(frames) : got = Sent(frames, k)
    BY ParsedSent
  <2> QED
    BY <1>1, <1>4, <2>1 DEF Parsed
<1>5. CASE state' \in {"None", "Resolve", "Connected"}
  <2>1. At(0)
    BY <1>5 DEF Parsed
  <2> QED
    BY <1>2, <1>5, <2>1 DEF Parsed
<1>6. CASE state' = "Opened"
  <2>1. state = "Opened"
    BY <1>6
  <2>2. CASE \E k \in 1 .. Len(frames) : At(k)
    BY <1>1, <1>2, <1>3, <1>6, <2>1, <2>2 DEF Parsed
  <2>3. CASE ~ \E k \in 1 .. Len(frames) : At(k)
    <3>1. /\ pc \notin {"open", "data"} /\ (pc = "frame" => arrived = taken)
          /\ \E k \in 2 .. Len(frames) : Within(k)
      BY <2>1, <2>3 DEF Parsed
    <3> QED
      BY <1>1, <1>2, <1>3, <1>6, <2>1, <3>1 DEF Parsed
  <2> QED
    BY <2>2, <2>3
<1> QED
  BY <1>4, <1>5, <1>6

\* After a frame comes the header of the next, or nothing
LEMMA NextFrame ==
    ASSUME Shape, NEW k \in 1 .. Len(frames)
    PROVE  /\ Off(frames, k) \in Nat
           /\ k = Len(frames) => Off(frames, k) = Len(stream)
           /\ k # Len(frames) => /\ k + 1 \in 2 .. Len(frames) /\ k + 1 \in 1 .. Len(frames)
                                 /\ k + 1 - 1 = k
<1>1. Off(frames, k) \in Nat
  <2>1. Size(k) \in Nat
    BY SizeFacts
  <2>2. Off(frames, k) = Off(frames, k - 1) + Size(k) /\ Off(frames, k - 1) \in Nat
    BY Offsets
  <2> QED
    BY <2>1, <2>2
<1> QED
  BY <1>1, Offsets, Ends

\* The m bytes of the stream from t on, where a bytes of the j-th payload are before
Part(t, m) == SubSeq(stream, t + 1, t + m)
Inside(t, j, a) == t = Off(frames, j - 1) + frames[j].head + a

\* The part of a payload that follows its first a bytes
LEMMA PayloadPart ==
    ASSUME Shape, NEW j \in 1 .. Len(frames), NEW a \in Nat, NEW m \in Nat,
           NEW t, Inside(t, j, a), a + m <= frames[j].len
    PROVE  /\ Part(t, m) = [i \in 1 .. m |-> <<j, frames[j].head + a + i>>]
           /\ t + m <= Off(frames, j)
<1> DEFINE h == frames[j].head
           y == frames[j].key
           l == frames[j].len
           o == Off(frames, j - 1)
<1>1. h \in Nat /\ y \in Nat /\ l \in Nat
  BY FrameFields
<1>2. /\ stream \in Seq(Places) /\ Len(stream) \in Nat
      /\ o \in Nat /\ Off(frames, j) = o + h + y + l /\ Off(frames, j) <= Len(stream)
      /\ \A p \in 1 .. h + y + l : stream[o + p] = <<j, p>>
  <2>1. /\ o \in Nat /\ Off(frames, j) = o + Size(j) /\ Size(j) = h + y + l
        /\ \A p \in 1 .. Size(j) : stream[o + p] = <<j, p>>
    BY Offsets DEF Size
  <2> QED
    BY <1>1, <2>1, Offsets
<1>3. t = o + h + a /\ a + m <= l
  BY DEF Inside
<1> HIDE DEF h, y, l, o
<1>4. t \in Nat /\ t + m <= Len(stream) /\ t + m <= Off(frames, j)
  BY <1>1, <1>2, <1>3
<1>5. SubSeq(stream, t + 1, t + m) = [i \in 1 .. m |-> stream[t + i]]
  <2>1. stream \in Seq(Places)
    BY <1>2
  <2>2. t \in Nat /\ t + m <= Len(stream)
    BY <1>4
  <2> DEFINE q == t
  <2>3. q \in Nat /\ q + m <= Len(stream)
    BY <2>2
  <2> HIDE DEF q
  <2>4. SubSeq(stream, q + 1, q + m) = [i \in 1 .. m |-> stream[q + i]]
    BY <2>1, <2>3, PartOf
  <2> QED
    BY <2>4 DEF q
<1>6. ASSUME NEW i \in 1 .. m PROVE stream[t + i] = <<j, h + a + i>>
  <2> DEFINE p == h + a + i
  <2>1. p \in 1 .. h + y + l /\ t + i = o + p
    BY <1>1, <1>2, <1>3
  <2> HIDE DEF p
  <2>2. stream[t + i] = <<j, p>>
    BY <1>2, <2>1
  <2> QED
    BY <2>2 DEF p
<1>7. [i \in 1 .. m |-> stream[t + i]] = [i \in 1 .. m |-> <<j, h + a + i>>]
  BY <1>6
<1> QED
  BY <1>4, <1>5, <1>7 DEF h, Part

\* A payload that is complete is handed out, and the parser is between frames
LEMMA DeliverAt ==
    ASSUME Shape, NEW j \in 1 .. Len(frames), frames[j].op \in {"text", "ping"},
           state = "Opened", got = Sent(frames, j - 1), NEW b, NEW n \in {"read", "frame"},
           b = [i \in 1 .. frames[j].len |-> <<j, frames[j].head + i>>],
           Deliver(b, TypeOf(j), n), taken' = Off(frames, j)
    PROVE  Parsed'
<1>1. UNCHANGED <<frames, stream, arrived, state>>
      /\ body' = <<>> /\ btype' = "None" /\ pc' # "idle"
  BY DEF Deliver, Go, peer, life
<1>2. got' = Sent(frames, j)
  <2>1. CASE frames[j].op = "text"
    <3>1. got' = Append(got, [type |-> "Text", body |-> b])
      BY <2>1 DEF Deliver, TypeOf
    <3>2. [type |-> "Text", body |-> b] = Letter(frames, j)
      BY DEF Letter
    <3> QED
      BY <2>1, <3>1, <3>2, Sending
  <2>2. CASE frames[j].op = "ping"
    <3>1. got' = got
      BY <2>2 DEF Deliver, TypeOf
    <3> QED
      BY <2>2, <3>1, Sending
  <2> QED
    BY <2>1, <2>2
<1>3. At(j)'
  BY <1>1, <1>2 DEF At
<1> QED
  BY <1>1, <1>3 DEF Parsed

LEMMA ParsedHandshake == ASSUME Shape, TypeOK, Alive, Parsed, Handshake PROVE Parsed'
<1>1. pc = "read" /\ state = "Connected" /\ At(0)
  BY DEF Handshake, Parsed
<1>2. CASE N < 2
  <2>1. Wait
    BY <1>2 DEF Handshake
  <2> QED
    BY <1>1, <2>1, ParsedStays DEF Wait, Finish, life
<1>3. CASE Closing("idle")
  <2>1. Closing("idle")
    BY <1>3
  <2>2. state' = "Closed" /\ UNCHANGED <<frames, got>>
    BY <2>1 DEF Closing, peer
  <2>3. got = Sent(frames, 0)
    BY <1>1 DEF At
  <2> QED
    BY <2>2, <2>3, Ends DEF Parsed
<1>4. CASE ~(N < 2) /\ ~Closing("idle") /\ ~(Fault("read") \/ Fault("status"))
  <2>1. /\ taken' = taken + 2 /\ state' = "Opened" /\ pc' = "open"
        /\ UNCHANGED <<frames, stream, body, btype, got>>
    BY <1>4 DEF Handshake, peer, message
  <2>2. 1 \in 1 .. Len(frames)
    BY Ends
  <2>3. Off(frames, 1) = 2
    <3>1. Size(1) = 2
      BY <2>2, FrameFields DEF Size
    <3>2. Off(frames, 1) = Off(frames, 1 - 1) + Size(1)
      BY <2>2, Offsets
    <3>3. Off(frames, 1 - 1) = 0
      BY Offsets
    <3> QED
      BY <3>1, <3>2, <3>3
  <2>4. Sent(frames, 1) = Sent(frames, 0)
    <3>1. frames[1].op # "text"
      BY <2>2, FrameFields DEF AnswerOps
    <3>2. Sent(frames, 1) = IF frames[1].op = "text"
                            THEN Append(Sent(frames, 1 - 1), Letter(frames, 1))
                            ELSE Sent(frames, 1 - 1)
      BY <2>2, Sending
    <3> QED
      BY <3>1, <3>2
  <2>5. At(1)'
    <3>1. taken = 0
      BY <1>1, Offsets DEF At
    <3> QED
      BY <1>1, <2>1, <2>3, <2>4, <3>1 DEF At
  <2> QED
    BY <2>1, <2>2, <2>5 DEF Parsed
<1>5. CASE Fault("read") \/ Fault("status")
  <2>1. UNCHANGED <<peer, taken, message, got, state, pc, bev, arrived>>
    BY <1>5 DEF Fault, life, control
  <2> QED
    BY <1>1, <2>1, ParsedStays
<1> QED
  BY <1>2, <1>3, <1>4, <1>5

LEMMA ParsedRest == ASSUME Shape, TypeOK, Alive, Parsed, Rest PROVE Parsed'
<1>1. pc = "read" /\ state = "Opened"
  BY DEF Rest
<1>2. CASE \E k \in 1 .. Len(frames) : At(k)
  <2>1. btype = "None"
    BY <1>2 DEF At
  <2>2. pc' = "frame" /\ UNCHANGED <<peer, arrived, taken, life, message, got>>
    BY <2>1 DEF Rest, Go
  <2>3. UNCHANGED <<frames, stream, taken, body, btype, got, state>>
    BY <2>2 DEF peer, life, message
  <2>4. \E k \in 1 .. Len(frames) : At(k)'
    BY <1>2, <2>3 DEF At
  <2> QED
    BY <1>1, <2>2, <2>3, <2>4 DEF Parsed
<1>3. CASE ~ \E k \in 1 .. Len(frames) : At(k)
  <2>1. PICK k \in 2 .. Len(frames) : Within(k)
    BY <1>1, <1>3 DEF Parsed
  <2>2. k \in 1 .. Len(frames) /\ Len(frames) \in Nat
    BY Ends
  <2> DEFINE h == frames[k].head
             l == frames[k].len
             o == Off(frames, k - 1)
             e == Len(body)
             v == l - e
  <2>3. /\ h \in Nat /\ l \in Nat /\ o \in Nat /\ Off(frames, k) = o + h + l
        /\ Off(frames, k) <= Len(stream) /\ Len(stream) \in Nat
    <3>1. h \in Nat /\ l \in Nat /\ Size(k) = h + l
      BY <2>1, <2>2, FrameFields DEF Within, Size
    <3>2. Off(frames, k) = o + Size(k) /\ o \in Nat
      BY <2>2, Offsets
    <3>3. o + Size(k) = o + h + l
      <4> HIDE DEF h, l, o
      <4> QED
        BY <3>1, <3>2
    <3> QED
      BY <2>2, <3>1, <3>2, <3>3, Offsets
  <2>4. /\ e \in Nat /\ e < l /\ blen = l /\ taken = o + h + e /\ body \in Seq(Range(stream))
        /\ btype = TypeOf(k) /\ btype # "None" /\ arrived \in Nat /\ taken <= arrived
    BY <2>1, <2>3, LenProperties DEF Within, TypeOK, TypeOf
  <2>5. CASE N = 0
    <3>1. arrived = taken /\ ~(N > 0)
      BY <2>3, <2>4, <2>5 DEF N
    <3>2. pc' = "frame" /\ UNCHANGED <<peer, arrived, taken, life, message, got>>
      BY <3>1 DEF Rest, Go
    <3> QED
      BY <1>1, <3>1, <3>2, ParsedStays DEF life
  <2>6. CASE N > 0 /\ N < v
    <3>1. Input(0) = <<>> /\ body \o <<>> = body
      <4>1. SubSeq(stream, taken + 1, taken + 0) = <<>>
        BY <2>3, <2>4, SubSeqEmpty
      <4> QED
        BY <2>4, <4>1, ConcatEmptySeq DEF Input
    <3>2. N \in Int /\ v \in Nat /\ ~(N >= v) /\ blen > 0 /\ e # blen
      <4>1. N \in Int
        BY <2>3, <2>4 DEF N
      <4> HIDE DEF h, l, o, e
      <4> QED
        BY <2>3, <2>4, <2>6, <4>1
    <3>3. Wait
      <4> DEFINE b == body \o Input(IF blen - Len(body) > 0 /\ N >= blen - Len(body)
                                    THEN blen - Len(body) ELSE 0)
      <4>1. (IF blen - Len(body) > 0 /\ N >= blen - Len(body)
             THEN blen - Len(body) ELSE 0) = 0
        BY <2>4, <3>2
      <4>2. b = body
        BY <3>1, <4>1
      <4>3. btype # "None" /\ blen > 0 /\ N > 0
        BY <2>4, <2>6, <3>2
      <4> HIDE DEF b
      <4>4. IF btype # "None" /\ blen > 0 /\ N > 0
            THEN IF Len(b) = blen THEN TRUE ELSE Wait
            ELSE TRUE
        BY DEF Rest, b
      <4> QED
        BY <3>2, <4>2, <4>3, <4>4
    <3>4. UNCHANGED <<frames, stream, arrived, taken, body, btype, blen, got, state>>
          /\ pc' = "idle"
      BY <3>3 DEF Wait, Finish, peer, life, message
    <3>5. Within(k)'
      BY <2>1, <3>4 DEF Within, TypeOf
    <3>6. arrived # Len(stream)
      <4>1. arrived - taken < v /\ arrived \in Nat
        BY <2>4, <2>6 DEF N
      <4>2. taken = o + h + e /\ v = l - e /\ o + h + l <= Len(stream)
        BY <2>3, <2>4
      <4>3. o \in Nat /\ h \in Nat /\ l \in Nat /\ e \in Nat /\ Len(stream) \in Nat
        BY <2>3, <2>4
      <4> HIDE DEF v, o, h, l, e
      <4> QED
        BY <4>1, <4>2, <4>3
    <3> QED
      BY <1>1, <3>4, <3>5, <3>6 DEF Parsed
  <2>7. CASE N >= v
    <3> DEFINE b == body \o Input(v)
    <3>1. N > 0 /\ v \in Nat /\ v > 0 /\ blen > 0 /\ N >= v /\ e + v = l
      <4> DEFINE d == v
      <4> HIDE DEF h, l, o, e
      <4>1. d \in Nat /\ d > 0 /\ e + d = l /\ blen > 0
        BY <2>3, <2>4
      <4>2. N >= d /\ N \in Int
        BY <2>3, <2>4, <2>7 DEF N
      <4> HIDE DEF d
      <4>3. N > 0
        BY <4>1, <4>2
      <4> QED
        BY <4>1, <4>2, <4>3 DEF d
    <3>2. Input(v) = [i \in 1 .. v |-> <<k, h + e + i>>]
      <4>1. Inside(taken, k, e) /\ e + v <= frames[k].len
        BY <2>3, <2>4, <3>1 DEF Inside
      <4>3. e \in Nat /\ v \in Nat
        BY <2>4, <3>1
      <4> HIDE DEF v, e
      <4>2. Part(taken, v) = [i \in 1 .. v |-> <<k, frames[k].head + e + i>>]
        BY <2>2, <4>1, <4>3, PayloadPart
      <4> QED
        BY <4>2 DEF Input, Part
    <3>3. b = [i \in 1 .. l |-> <<k, h + i>>] /\ Len(b) = l
      <4> DEFINE t == Input(v)
                 T == (1 .. Len(frames)) \X Nat
      <4>1. body = [i \in 1 .. e |-> <<k, h + i>>]
        BY <2>1 DEF Within
      <4> HIDE DEF h, l, v, e
      <4>2. t \in Seq(T) /\ Len(t) = v
        <5>1. [i \in 1 .. v |-> <<k, h + e + i>>] \in [1 .. v -> T]
          <6>1. h \in Nat /\ e \in Nat /\ k \in 1 .. Len(frames)
            BY <2>2, <2>3, <2>4
          <6> QED
            BY <6>1
        <5>2. t \in Seq(T)
          BY <3>1, <3>2, <5>1, IsASeq
        <5> QED
          BY <3>1, <3>2, <5>1, <5>2, LenProperties
      <4>3. body \in Seq(T) /\ Len(body) = e
        <5>1. [i \in 1 .. e |-> <<k, h + i>>] \in [1 .. e -> T]
          <6>1. h \in Nat /\ e \in Nat /\ k \in 1 .. Len(frames)
            BY <2>2, <2>3, <2>4
          <6> QED
            BY <6>1
        <5>2. body \in Seq(T)
          BY <2>4, <4>1, <5>1, IsASeq
        <5> QED
          BY <5>2 DEF e
      <4>7. b = body \o t
        OBVIOUS
      <4> HIDE DEF t, T, b
      <4>4. /\ b \in Seq(T) /\ Len(b) = e + v
            /\ \A i \in 1 .. e + v : b[i] = IF i <= e THEN body[i] ELSE t[i - e]
        BY <4>2, <4>3, <4>7, ConcatProperties
      <4>5. ASSUME NEW i \in 1 .. l PROVE b[i] = <<k, h + i>>
        <5>1. CASE i <= e
          <6>1. i \in 1 .. e
            BY <2>3, <2>4, <5>1
          <6> QED
            BY <3>1, <4>1, <4>4, <5>1, <6>1
        <5>2. CASE ~(i <= e)
          <6>1. i - e \in 1 .. v /\ h + e + (i - e) = h + i
            BY <2>3, <2>4, <3>1, <5>2
          <6>2. t[i - e] = <<k, h + e + (i - e)>>
            BY <3>2, <6>1 DEF t
          <6> QED
            BY <3>1, <4>4, <5>2, <6>1, <6>2
        <5> QED
          BY <5>1, <5>2
      <4>6. b = [i \in 1 .. l |-> b[i]] /\ Len(b) = l
        BY <3>1, <4>4, LenProperties
      <4> QED
        BY <4>5, <4>6
    <3>5. taken' = taken + v /\ Deliver(b, TypeOf(k), "frame")
      <4>1. (IF blen - Len(body) > 0 /\ N >= blen - Len(body)
             THEN blen - Len(body) ELSE 0) = v
        BY <2>4, <3>1
      <4> DEFINE m == IF blen - Len(body) > 0 /\ N >= blen - Len(body)
                      THEN blen - Len(body) ELSE 0
                 c == body \o Input(m)
      <4>2. c = b
        BY <4>1
      <4>3. btype # "None" /\ blen > 0 /\ N > 0
        BY <2>4, <3>1
      <4> HIDE DEF b, c, m
      <4>4. IF btype # "None" /\ blen > 0 /\ N > 0
            THEN IF Len(c) = blen
                 THEN taken' = taken + m /\ Deliver(c, btype, "frame") ELSE TRUE
            ELSE TRUE
        BY DEF Rest, c, m
      <4>5. taken' = taken + m /\ Deliver(c, btype, "frame")
        BY <2>4, <3>3, <4>2, <4>3, <4>4
      <4> QED
        BY <2>4, <4>1, <4>2, <4>5 DEF m
    <3>6. taken' = Off(frames, k)
      <4>1. taken' = taken + v /\ v \in Nat
        BY <3>1, <3>5
      <4>2. taken = o + h + e /\ Off(frames, k) = o + h + l /\ v = l - e
        BY <2>3, <2>4
      <4>3. o \in Nat /\ h \in Nat /\ l \in Nat /\ e \in Nat
        BY <2>3, <2>4
      <4> HIDE DEF v, o, h, l, e
      <4> QED
        BY <4>1, <4>2, <4>3
    <3>7. frames[k].op \in {"text", "ping"} /\ got = Sent(frames, k - 1)
      BY <2>1 DEF Within
    <3>8. b = [i \in 1 .. frames[k].len |-> <<k, frames[k].head + i>>]
      BY <3>3
    <3> HIDE DEF b
    <3> QED
      BY <1>1, <2>2, <3>5, <3>6, <3>7, <3>8, DeliverAt
  <2>8. N \in Int /\ N >= 0 /\ v \in Int
    BY <2>3, <2>4 DEF N
  <2> QED
    BY <2>5, <2>6, <2>7, <2>8
<1> QED
  BY <1>2, <1>3

\* The payload of a frame, or the part of it that is there
LEMMA ParsedBody ==
    ASSUME Shape, TypeOK, Plain, state = "Opened", NEW k \in 1 .. Len(frames), At(k),
           NEW j \in 2 .. Len(frames), j - 1 = k,
           frames[j].op \in {"text", "ping", "pong"}, N >= frames[j].head,
           Body(frames[j], IF frames[j].len > N - frames[j].head
                           THEN N - frames[j].head ELSE frames[j].len)
    PROVE  Parsed'
<1>1. j \in 1 .. Len(frames) /\ DOMAIN frames = 1 .. Len(frames)
  BY Ends, FrameFields
<1> DEFINE h == frames[j].head
           l == frames[j].len
           o == Off(frames, k)
           d == arrived - taken
           m == IF l > d - h THEN d - h ELSE l
           p == [i \in 1 .. m |-> <<j, h + i>>]
<1>2. h \in Nat /\ l \in Nat /\ o \in Nat /\ Off(frames, j) = o + h + l
  <2>1. h \in Nat /\ l \in Nat /\ Size(j) = h + l
    BY <1>1, FrameFields DEF Plain, Size
  <2>2. Off(frames, j) = o + Size(j) /\ o \in Nat
    BY <1>1, Offsets
  <2>3. o + Size(j) = o + h + l
    <3> HIDE DEF h, l, o
    <3> QED
      BY <2>1, <2>2
  <2> QED
    BY <2>1, <2>2, <2>3
<1>3. taken = o /\ d \in Int /\ d >= h /\ got = Sent(frames, k) /\ body = <<>> /\ btype = "None"
  BY Offsets DEF At, N, TypeOK
<1>4. m \in Nat /\ m <= l
  <2> HIDE DEF h, l, d
  <2> QED
    BY <1>2, <1>3
<1>5. frames[j].fin /\ (frames[j].op = "pong" => l = 0)
  BY <1>1 DEF Plain
<1>6. SubSeq(stream, taken + h + 1, taken + h + m) = p
  <2>1. Inside(taken + h, j, 0) /\ 0 + m <= frames[j].len
    BY <1>2, <1>3, <1>4 DEF Inside
  <2> DEFINE t == taken + h
             z == 0
  <2>5. Inside(t, j, z) /\ z + m <= frames[j].len /\ z \in Nat
    BY <2>1
  <2> HIDE DEF m, h, t, z
  <2>2. Part(t, m) = [i \in 1 .. m |-> <<j, frames[j].head + z + i>>]
    BY <1>1, <1>4, <2>5, PayloadPart
  <2>3. \A i \in 1 .. m : frames[j].head + z + i = h + i
    BY <1>2 DEF h, z
  <2>4. [i \in 1 .. m |-> <<j, frames[j].head + z + i>>] = p
    BY <2>3
  <2> QED
    BY <2>2, <2>4 DEF Part, t
<1>7. Len(p) = m /\ <<>> \o p = p
  <2> DEFINE T == (1 .. Len(frames)) \X Nat
  <2> HIDE DEF m, h
  <2>1. p \in [1 .. m -> T]
    BY <1>1, <1>2, <1>4
  <2>2. p \in Seq(T)
    BY <1>4, <2>1, IsASeq
  <2> HIDE DEF p
  <2> QED
    BY <1>4, <2>1, <2>2, LenProperties, ConcatEmptySeq
<1> DEFINE b == body \o SubSeq(stream, taken + h + 1, taken + h + m)
<1>8. b = p /\ Len(b) = m
  <2> HIDE DEF m, h, p
  <2> QED
    BY <1>3, <1>6, <1>7
<1>9. /\ taken' = taken + h + m
      /\ frames[j].op = "pong" => UNCHANGED <<peer, life, message, got>>
      /\ frames[j].op # "pong" =>
           IF Len(b) = l THEN Deliver(b, TypeOf(j), "read")
           ELSE /\ body' = b /\ btype' = TypeOf(j) /\ blen' = l /\ pc' = "read"
                /\ UNCHANGED <<peer, arrived, life, owner, got, fault>>
  BY <1>5 DEF Body, Go, TypeOf, N
<1> HIDE DEF b
<1>10. CASE frames[j].op = "pong"
  <2>1. taken' = Off(frames, j)
    <3> HIDE DEF h, l, o, d
    <3>1. m = 0 /\ l = 0
      BY <1>4, <1>5, <1>10
    <3> HIDE DEF m
    <3> QED
      BY <1>2, <1>3, <1>9, <3>1
  <2>2. Sent(frames, j) = Sent(frames, k)
    BY <1>1, <1>10, Sending
  <2>3. UNCHANGED <<frames, stream, state, body, btype, got>>
    BY <1>9, <1>10 DEF peer, life, message
  <2>4. At(j)'
    BY <1>3, <2>1, <2>2, <2>3 DEF At
  <2>5. pc' = "read"
    BY <1>10 DEF Body, Go
  <2> QED
    BY <1>1, <2>3, <2>4, <2>5 DEF Parsed
<1>11. CASE frames[j].op # "pong" /\ m = l
  <2>1. Deliver(b, TypeOf(j), "read")
    BY <1>8, <1>9, <1>11
  <2>2. taken' = Off(frames, j)
    <3> HIDE DEF m, h, l, o, d
    <3> QED
      BY <1>2, <1>3, <1>9, <1>11
  <2>3. b = [i \in 1 .. frames[j].len |-> <<j, frames[j].head + i>>]
    <3> HIDE DEF m
    <3> QED
      BY <1>8, <1>11
  <2>4. got = Sent(frames, j - 1) /\ frames[j].op \in {"text", "ping"}
    BY <1>3, <1>11
  <2> QED
    BY <1>1, <2>1, <2>2, <2>3, <2>4, DeliverAt
<1>12. CASE frames[j].op # "pong" /\ m # l
  <2>1. /\ body' = b /\ btype' = TypeOf(j) /\ blen' = l /\ pc' = "read"
        /\ UNCHANGED <<frames, stream, state, got>>
    <3>1. Len(b) # l
      BY <1>8, <1>12
    <3> QED
      BY <1>9, <1>12, <3>1 DEF peer, life
  <2>2. Len(body') = m /\ body' = p /\ m < l
    <3> HIDE DEF m, p, l
    <3> QED
      BY <1>2, <1>4, <1>8, <1>12, <2>1
  <2>3. Within(j)'
    <3>1. body' = [i \in 1 .. Len(body') |-> <<j, frames[j].head + i>>]
      <4> HIDE DEF m
      <4> QED
        BY <2>2
    <3>2. taken' = Off(frames, j - 1) + frames[j].head + Len(body')
      <4> HIDE DEF m
      <4> QED
        BY <1>3, <1>9, <2>2
    <3>3. Len(body') < frames[j].len
      <4> HIDE DEF m
      <4> QED
        BY <2>2
    <3>4. frames[j].op \in {"text", "ping"}
      BY <1>12
    <3>5. got' = Sent(frames, j - 1)
      BY <1>3, <2>1
    <3> QED
      BY <2>1, <3>1, <3>2, <3>3, <3>4, <3>5 DEF Within, TypeOf
  <2> QED
    BY <2>1, <2>3 DEF Parsed
<1> QED
  BY <1>10, <1>11, <1>12

\* What is at the head of the input, when the parser is between two frames
LEMMA HeadAt ==
    ASSUME Shape, TypeOK, NEW k \in 1 .. Len(frames), At(k), N >= 2
    PROVE  /\ k # Len(frames) /\ k + 1 \in 2 .. Len(frames)
           /\ stream[taken + 1] = <<k + 1, 1>>
<1>1. /\ taken \in Nat /\ arrived \in Nat /\ Len(stream) \in Nat /\ arrived <= Len(stream)
      /\ taken + 2 <= arrived /\ taken = Off(frames, k)
  BY Offsets DEF TypeOK, N, At
<1>2. k # Len(frames)
  BY <1>1, NextFrame
<1> DEFINE j == k + 1
<1>3. j \in 2 .. Len(frames) /\ j \in 1 .. Len(frames) /\ j - 1 = k
  BY <1>2, NextFrame
<1> HIDE DEF j
<1>4. Size(j) \in Nat /\ Size(j) >= 2
  BY <1>3, SizeFacts
<1>5. 1 \in 1 .. Size(j)
  BY <1>4
<1>6. stream[Off(frames, j - 1) + 1] = <<j, 1>>
  BY <1>3, <1>5, Offsets
<1>7. stream[taken + 1] = <<j, 1>>
  BY <1>1, <1>3, <1>6
<1> QED
  BY <1>2, <1>3, <1>7 DEF j

\* When the parser waits and nothing more comes, everything has been handed out
LEMMA WaitAt ==
    ASSUME Shape, TypeOK, state = "Opened", Wait, NEW k \in 1 .. Len(frames), At(k),
           k # Len(frames) => N < frames[k + 1].head
    PROVE  Parsed'
<1>1. UNCHANGED <<frames, stream, arrived, taken, body, btype, got, state>> /\ pc' = "idle"
  BY DEF Wait, Finish, peer, life, message
<1>2. At(k)'
  BY <1>1 DEF At
<1>3. arrived = Len(stream) => got = Expected
  <2> SUFFICES ASSUME arrived = Len(stream) PROVE got = Expected
    OBVIOUS
  <2>1. CASE k = Len(frames)
    BY <2>1, Sending DEF At
  <2>2. CASE k # Len(frames)
    <3> DEFINE j == k + 1
    <3>1. j \in 1 .. Len(frames) /\ j - 1 = k
      BY <2>2, NextFrame
    <3>2. N < frames[j].head
      BY <2>2
    <3> HIDE DEF j
    <3> DEFINE o == Off(frames, k)
    <3>3. /\ frames[j].head \in Nat /\ Size(j) \in Nat
          /\ frames[j].head <= Size(j)
      BY <3>1, SizeFacts
    <3>4. o \in Nat /\ o + Size(j) <= Len(stream) /\ taken = o /\ Len(stream) \in Nat
      BY <3>1, Offsets DEF At
    <3> HIDE DEF o
    <3> QED
      BY <3>2, <3>3, <3>4 DEF N
  <2> QED
    BY <2>1, <2>2
<1>4. Expected' = Expected
  BY <1>1 DEF Expected, Whole
<1> QED
  BY <1>1, <1>2, <1>3, <1>4 DEF Parsed

LEMMA ParsedFrame ==
    ASSUME Shape, TypeOK, Alive, Plain, Parsed, Frame, fault = "none"
    PROVE  Parsed' /\ fault' # "sync"
<1>1. pc = "frame" /\ state = "Opened"
  BY DEF Frame, Alive
<1>2. /\ taken \in Nat /\ arrived \in Nat /\ Len(stream) \in Nat /\ arrived <= Len(stream)
      /\ N = arrived - taken /\ N \in Int
  BY Offsets DEF TypeOK, N
<1>6. state \in {"None", "Resolve", "Connected", "Opened", "Closed"}
  BY DEF TypeOK
<1>3. Wait => fault' # "sync"
  BY DEF Wait, Finish
<1>4. CASE \E k \in 1 .. Len(frames) : At(k)
  <2>1. PICK k \in 1 .. Len(frames) : At(k)
    BY <1>4
  <2>2. CASE N < 2
    <3>1. Wait
      BY <2>2 DEF Frame
    <3>2. ASSUME k # Len(frames) PROVE N < frames[k + 1].head
      <4> DEFINE j == k + 1
      <4>1. j \in 1 .. Len(frames)
        BY <3>2, NextFrame
      <4> HIDE DEF j
      <4>2. frames[j].head \in {2, 3}
        BY <4>1, FrameFields
      <4>3. N < frames[j].head
        BY <1>2, <2>2, <4>2
      <4> QED
        BY <4>3 DEF j
    <3> QED
      BY <1>1, <1>3, <2>1, <3>1, <3>2, WaitAt
  <2>3. CASE N >= 2
    <3> DEFINE j == k + 1
    <3>1. k # Len(frames) /\ j \in 2 .. Len(frames) /\ stream[taken + 1] = <<j, 1>> /\ j - 1 = k
      BY <2>1, <2>3, HeadAt
    <3> HIDE DEF j
    <3>2. /\ stream[taken + 1][1] = j /\ stream[taken + 1][2] = 1 /\ ~(N < 2)
          /\ j \in 1 .. Len(frames) /\ DOMAIN frames = 1 .. Len(frames)
      BY <1>2, <2>1, <2>3, <3>1, Ends, FrameFields
    <3> DEFINE f == frames[j]
    <3>3. /\ f.op \in FrameOps /\ f.op # "cont"
          /\ f.head \in {2, 3} /\ f.len \in Nat
      <4>1. j # 1
        BY <3>1
      <4> QED
        BY <3>2, <4>1, FrameFields DEF Plain
    <3>4. CASE f.op \in {"close", "bad"}
      <4>1. Closing("this")
        BY <3>2, <3>4 DEF Frame
      <4>2. state' = "Closed" /\ got' = got /\ frames' = frames /\ fault' = fault
        BY <4>1, <3>2, <3>4 DEF Closing, peer, Frame
      <4>3. got = Sent(frames, k) /\ k \in 0 .. Len(frames)
        BY <2>1, Ends DEF At
      <4> QED
        BY <4>2, <4>3 DEF Parsed
    <3>5. CASE f.op \notin {"close", "bad"} /\ N < f.head
      <4>1. Wait \/ Fault("read")
        BY <3>2, <3>5 DEF Frame
      <4>2. N < frames[k + 1].head
        BY <3>5 DEF j
      <4>3. CASE Wait
        BY <1>1, <1>3, <2>1, <4>2, <4>3, WaitAt
      <4>4. CASE Fault("read")
        <5>1. /\ UNCHANGED <<peer, taken, message, got, state, pc, bev, arrived>>
              /\ fault' = "read"
          BY <4>4 DEF Fault, life, control
        <5> QED
          BY <1>1, <1>6, <5>1, ParsedStays
      <4> QED
        BY <4>1, <4>3, <4>4
    <3>6. CASE f.op \notin {"close", "bad"} /\ ~(N < f.head)
      <4>1. Body(f, IF f.len > N - f.head THEN N - f.head ELSE f.len)
        BY <3>2, <3>6 DEF Frame
      <4>2. f.op \in {"text", "ping", "pong"} /\ N >= f.head
        BY <1>2, <3>3, <3>6 DEF FrameOps
      <4>3. Parsed'
        BY <1>1, <2>1, <3>1, <4>1, <4>2, ParsedBody
      <4>4. fault' = fault
        BY <4>1 DEF Body, Deliver
      <4> QED
        BY <4>3, <4>4
    <3> QED
      BY <3>4, <3>5, <3>6
  <2> QED
    BY <1>2, <2>2, <2>3
<1>5. CASE ~ \E k \in 1 .. Len(frames) : At(k)
  <2>1. PICK k \in 2 .. Len(frames) : Within(k) /\ arrived = taken
    BY <1>1, <1>5 DEF Parsed
  <2>2. Wait
    BY <1>2, <2>1 DEF Frame
  <2>3. UNCHANGED <<frames, stream, arrived, taken, body, btype, blen, got, state>>
        /\ pc' = "idle"
    BY <2>2 DEF Wait, Finish, peer, life, message
  <2>4. Within(k)'
    BY <2>1, <2>3 DEF Within, TypeOf
  <2>5. arrived # Len(stream)
    <3>1. k \in 1 .. Len(frames)
      BY Ends
    <3> DEFINE h == frames[k].head
               l == frames[k].len
               o == Off(frames, k - 1)
               e == Len(body)
    <3>2. h \in Nat /\ l \in Nat /\ Size(k) = h + l
      BY <2>1, <3>1, FrameFields DEF Within, Size
    <3>5. o \in Nat /\ o + Size(k) <= Len(stream)
      BY <3>1, Offsets
    <3>3. o + h + l <= Len(stream) /\ o \in Nat
      <4> HIDE DEF h, l, o
      <4> QED
        BY <3>2, <3>5
    <3>4. e \in Nat /\ e < l /\ taken = o + h + e
      BY <2>1, LenProperties DEF Within, TypeOK
    <3> HIDE DEF h, l, o, e
    <3> QED
      BY <1>2, <2>1, <3>2, <3>3, <3>4
  <2> QED
    BY <1>1, <1>3, <2>2, <2>3, <2>4, <2>5 DEF Parsed
<1> QED
  BY <1>4, <1>5

LEMMA ParsedNext ==
    ASSUME Shape, TypeOK, Alive, Plain, Parsed, Next
    PROVE  Parsed' /\ fault' # "sync"
<1>1. fault = "none" /\ state \in {"None", "Resolve", "Connected", "Opened", "Closed"}
  BY DEF Next, TypeOK
<1> USE DEF life, owner, control
<1>2. ASSUME NEW url \in {"bad", "partial", "address", "name"}, Open(url)
      PROVE  Parsed' /\ fault' # "sync"
  <2>1. state = "None" /\ pc = "idle"
    BY <1>2 DEF Open, Alive
  <2> QED
    BY <1>1, <1>2, <2>1, ParsedStays DEF Open
<1>3. CASE Close
  BY <1>1, <1>3, ParsedStays DEF Close
<1>4. CASE Drop
  BY <1>1, <1>4, ParsedStays DEF Drop
<1>5. ASSUME NEW found \in BOOLEAN, DnsAnswer(found)
      PROVE  Parsed' /\ fault' # "sync"
  <2>1. CASE Fault("object") \/ Fault("bev")
    BY <1>1, <2>1, ParsedStays DEF Fault
  <2>2. CASE ~(Fault("object") \/ Fault("bev"))
    BY <1>1, <1>5, <2>2, ParsedStays DEF DnsAnswer, Alive
  <2> QED
    BY <2>1, <2>2
<1>6. CASE Connected \/ Written
  <2>1. CASE Connected
    BY <1>1, <2>1, ParsedStays DEF Connected
  <2>2. CASE Written
    BY <1>1, <2>2, ParsedStays DEF Written
  <2> QED
    BY <1>6, <2>1, <2>2
<1>7. CASE Broken
  BY <1>1, <1>7, ParsedStays DEF Broken, Closing
<1>8. CASE Arrive
  BY <1>1, <1>8, ParsedStays DEF Arrive, Go
<1>9. CASE Handshake
  <2>1. fault' # "sync"
    BY <1>1, <1>9 DEF Handshake, Wait, Finish, Closing, Fault
  <2> QED
    BY <1>9, <2>1, ParsedHandshake
<1>10. CASE Rest
  <2>1. fault' # "sync"
    BY <1>1, <1>10 DEF Rest, Wait, Finish, Deliver
  <2> QED
    BY <1>10, <2>1, ParsedRest
<1>11. CASE Frame
  BY <1>1, <1>11, ParsedFrame
<1>12. CASE Return
  <2>1. CASE Fault("object") \/ Fault("bev")
    BY <1>1, <2>1, ParsedStays DEF Fault
  <2>2. CASE ReturnOpen /\ ~(Fault("object") \/ Fault("bev"))
    BY <1>1, <2>2, ParsedStays DEF ReturnOpen
  <2>3. CASE ReturnData /\ ~(Fault("object") \/ Fault("bev"))
    BY <1>1, <2>3, ParsedStays DEF ReturnData, Go, Alive
  <2>4. CASE ReturnClose
    BY <1>1, <2>4, ParsedStays DEF ReturnClose
  <2> QED
    BY <1>12, <2>1, <2>2, <2>3, <2>4 DEF Return
<1>13. CASE OtherDeletes
  <2>1. CASE Fault("thread")
    BY <1>1, <2>1, ParsedStays DEF Fault
  <2>2. CASE ~Fault("thread")
    BY <1>1, <1>13, <2>2, ParsedStays DEF OtherDeletes
  <2> QED
    BY <2>1, <2>2
<1> QED
  BY <1>2, <1>3, <1>4, <1>5, <1>6, <1>7, <1>8, <1>9, <1>10, <1>11, <1>12, <1>13
     DEF Next, OnReading

\* With a peer that is Plain the parser never loses its place
Placed == Plain => Parsed /\ fault # "sync"

LEMMA PlacedNext == Shape /\ TypeOK /\ Alive /\ Placed /\ [Next]_vars => Placed'
<1> SUFFICES ASSUME Shape, TypeOK, Alive, Placed, [Next]_vars, Plain'
             PROVE  Parsed' /\ fault' # "sync"
  BY DEF Placed
<1>1. Plain
  BY PeerStays DEF Plain
<1>2. CASE Next
  BY <1>1, <1>2, ParsedNext DEF Placed
<1>3. CASE UNCHANGED vars
  <2>1. fault' = fault /\ UNCHANGED <<peer, taken, message, got>>
    BY <1>3 DEF vars
  <2>2. UNCHANGED <<state, pc, bev, arrived>>
    BY <1>3 DEF vars, life, control
  <2> QED
    BY <1>1, <2>1, <2>2, ParsedStays DEF Placed, TypeOK
<1> QED
  BY <1>2, <1>3

LEMMA PlacedAlways == Spec => []Placed
<1>1. Init => Placed
  BY ParsedInit DEF Placed, Init
<1> QED
  BY <1>1, Always, PlacedNext, PTL DEF Spec

\* However the peer's bytes are grouped when they arrive, ondata is given the
\* messages whole, in their order, each once, and nothing is held back when
\* everything has arrived, provided the peer uses neither fragments nor pongs
\* with a payload or a mask (onReading, kk-ws.cc 227-406)
THEOREM MessagesWhole == Spec => []WholeMessages
<1>1. Shape /\ TypeOK /\ Placed => WholeMessages
  <2> SUFFICES ASSUME Shape, TypeOK, Parsed
               PROVE  /\ IsPrefix(got, Expected)
                      /\ state = "Opened" /\ bev = "live" /\ pc = "idle" /\ arrived = Len(stream)
                            => got = Expected
    BY DEF WholeMessages, Placed
  <2>1. \E k \in 0 .. Len(frames) : got = Sent(frames, k)
    BY ParsedSent DEF TypeOK
  <2> QED
    BY <2>1, Sending DEF Parsed
<1> QED
  BY <1>1, Always, PlacedAlways, PTL

(***************************************************************************)
(* Where undefined behaviour is reached                                    *)
(***************************************************************************)
\* Each of the faults but those of the URL and of the parser's place, with what
\* led to it
Explained ==
    /\ fault = "object" => ~held
    /\ fault = "bev" => quit \/ (after /\ state = "Closed")
    /\ fault = "read" =>
          \/ pc = "read" /\ state = "Connected"
          \/ pc = "frame" /\ N < frames[stream[taken + 1][1]].head
    /\ fault = "status" => state = "Connected" /\ frames[1].op \in {"long", "odd"}
    /\ fault = "thread" => obj = "taken" /\ ~held /\ (bev = "live" \/ dns)

LEMMA ExplainedNext == Alive /\ TypeOK /\ Explained /\ [Next]_vars => Explained'
<1> SUFFICES ASSUME Alive, TypeOK, Explained, [Next]_vars PROVE Explained'
  OBVIOUS
<1> USE DEF vars, life, owner, control
<1>1. CASE UNCHANGED vars
  BY <1>1 DEF Explained, peer, N
<1>2. CASE Next
  <2>1. fault = "none"
    BY <1>2 DEF Next
  <2>8. UNCHANGED <<peer, arrived, taken, life, owner, control>> =>
           UNCHANGED <<frames, stream, N, state, bev, dns, obj, held, quit, pc, after>>
    BY DEF peer, N
  <2>3. ASSUME NEW url \in {"bad", "partial", "address", "name"}, Open(url) PROVE Explained'
    BY <2>3 DEF Open, Explained
  <2>4. ASSUME NEW found \in BOOLEAN, DnsAnswer(found) PROVE Explained'
    <3>1. CASE obj = "freed"
      BY <2>4, <3>1 DEF DnsAnswer, Fault, Explained, Alive
    <3>2. CASE obj # "freed" /\ found /\ bev = "nil"
      <4>1. Fault("bev") /\ quit
        BY <2>4, <3>2 DEF DnsAnswer, Alive
      <4> QED
        BY <4>1 DEF Fault, Explained
    <3>3. CASE obj # "freed" /\ ~(found /\ bev = "nil")
      BY <2>1, <2>4, <3>3 DEF DnsAnswer, Explained
    <3> QED
      BY <3>1, <3>2, <3>3
  <2>9. CASE OtherDeletes
    <3>1. CASE Fault("thread")
      <4>1. obj = "taken" /\ ~held /\ (bev = "live" \/ dns \/ fault' # "thread")
        BY <2>1, <2>9 DEF OtherDeletes, Alive
      <4> QED
        BY <3>1, <4>1 DEF Fault, Explained
    <3>2. CASE ~Fault("thread")
      BY <2>1, <2>9, <3>2 DEF OtherDeletes, Explained
    <3> QED
      BY <3>1, <3>2
  <2>5. CASE Close \/ Drop \/ Connected \/ Written \/ Broken \/ Arrive
    BY <2>1, <2>5 DEF Close, Drop, Connected, Written, Broken, Closing, Arrive, Explained
  <2>6. CASE OnReading
    <3>1. CASE fault' \in {"none", "sync"}
      BY <3>1 DEF Explained
    <3>2. Wait => fault' = "none"
      <4>1. OnReading => bev = "live"
        BY DEF OnReading, Handshake, Rest, Frame, Alive
      <4> QED
        BY <2>1, <2>6, <4>1 DEF Wait, Finish
    <3>3. CASE Handshake
      <4>1. CASE Fault("read") \/ (Fault("status") /\ frames[1].op \in {"long", "odd"})
        <5>1. pc = "read" /\ state = "Connected"
          BY <3>3 DEF Handshake
        <5> QED
          BY <2>8, <4>1, <5>1 DEF Fault, Explained
      <4>2. CASE ~(Fault("read") \/ (Fault("status") /\ frames[1].op \in {"long", "odd"}))
        BY <2>1, <3>1, <3>2, <3>3, <4>2 DEF Handshake, Closing
      <4> QED
        BY <4>1, <4>2
    <3>4. CASE Rest
      BY <2>1, <3>1, <3>2, <3>4, RestLife, DeliverLife
    <3>5. CASE Frame
      <4>1. CASE Fault("read")
        <5>1. pc = "frame" /\ N < frames[stream[taken + 1][1]].head
          BY <2>1, <3>5, <4>1 DEF Frame, Fault, Wait, Finish, Closing, Body, Deliver
        <5> QED
          BY <2>8, <4>1, <5>1 DEF Fault, Explained
      <4>2. CASE ~Fault("read")
        BY <2>1, <3>1, <3>2, <3>5, <4>2, FrameLife, DeliverLife DEF Fault, Closing
      <4> QED
        BY <4>1, <4>2
    <3> QED
      BY <2>6, <3>3, <3>4, <3>5 DEF OnReading
  <2>7. CASE Return
    <3>1. CASE pc \in {"open", "data"}
      <4>1. CASE ~held
        BY <2>7, <3>1, <4>1 DEF Return, ReturnOpen, ReturnData, ReturnClose, Fault, Explained
      <4>2. CASE held /\ bev = "nil"
        <5>1. Fault("bev") /\ quit
          BY <2>7, <3>1, <4>2 DEF Return, ReturnOpen, ReturnData, ReturnClose, Alive
        <5> QED
          BY <5>1 DEF Fault, Explained
      <4>3. CASE held /\ bev # "nil"
        BY <2>1, <2>7, <3>1, <4>3 DEF Return, ReturnOpen, ReturnData, ReturnClose, Explained
      <4> QED
        BY <4>1, <4>2, <4>3
    <3>2. CASE ReturnClose
      BY <2>1, <3>2 DEF ReturnClose, Explained, Alive
    <3> QED
      BY <2>7, <3>1, <3>2 DEF Return, ReturnOpen, ReturnData
  <2> QED
    BY <1>2, <2>3, <2>4, <2>5, <2>6, <2>7, <2>9 DEF Next
<1> QED
  BY <1>1, <1>2

\* A deleted socket is used only if the script has dropped it; _bev is null only
\* after close(), or when what came with the handshake's answer closed the
\* socket; payload or a key is taken for a header only if the peer fragments or
\* sends a pong with a payload or a mask; the input is read past its end only by
\* the handshake's sscanf or for a length that has not all arrived; status is
\* overrun or read unset only for an answer that is too long or has no status
\* line; and another thread frees what the loop uses only with a connection or a
\* query live (138-149, 172-225, 256-266, 310, 331-332, 343-351, 362-370, 440-443)
THEOREM FaultsOnlyThere == Spec => []FaultsExplained
<1>1. Init => Explained
  BY DEF Init, Explained
<1>2. Spec => []Explained
  BY <1>1, Always, ExplainedNext, PTL DEF Spec
<1>3. Explained /\ Placed => FaultsExplained
  BY DEF Explained, Placed, FaultsExplained
<1> QED
  BY <1>2, <1>3, PlacedAlways, PTL
=============================================================================
