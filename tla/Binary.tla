------------------------------- MODULE Binary -------------------------------
(***************************************************************************)
(* A message between two script contexts (src/src/kk-binary.cc): the value *)
(* a script posts is written as one list of Binary nodes, and rebuilt from *)
(* it in the other context.  A container is a node followed by its         *)
(* elements and a node of type End.                                        *)
(*                                                                         *)
(* A value is a leaf, an array of values, or an object: the sequence of    *)
(* its keys and values.  Numbers, strings, booleans, buffers and functions *)
(* are copied alike, so one kind of leaf stands for them; null and         *)
(* undefined have the node type Nil.                                       *)
(***************************************************************************)
EXTENDS Naturals, Sequences, SequencesExt

CONSTANT Depth     \* how deep the values posted are nested

Leaf(x) == [type |-> "Leaf", of |-> x]
Array(s) == [type |-> "Array", of |-> s]
Object(s) == [type |-> "Object", of |-> s]

Leaves == {Leaf("x"), Leaf("null")}
Seqs(S) == {<<>>} \cup {<<a>> : a \in S} \cup {<<a, b>> : a, b \in S}
Keys == <<"k", "l">>
Keyed(s) == FlattenSeq([i \in DOMAIN s |-> <<Leaf(Keys[i]), s[i]>>])
Over(S) == {Array(s) : s \in Seqs(S)} \cup {Object(Keyed(s)) : s \in Seqs(S)}

\* Every value of depth two, and at greater depth those that hold one of the
\* depth below, alone, before or after a leaf
Values ==
    LET flat == Leaves \cup Over(Leaves)
        v[d \in 2..Depth] ==
            IF d = 2 THEN flat \cup Over(flat)
            ELSE LET S == {<<a>> : a \in v[d - 1]}
                            \cup {<<a, Leaf("x")>> : a \in v[d - 1]}
                            \cup {<<Leaf("x"), a>> : a \in v[d - 1]}
                 IN  v[d - 1] \cup {Array(s) : s \in S} \cup {Object(Keyed(s)) : s \in S}
    IN  v[Depth]

VARIABLES
    posted,    \* the value
    heap,      \* the nodes allocated; a pointer is an index, nullptr is 0
    root,      \* the message
    received,  \* what BinaryPushContext made of it
    pc

vars == <<posted, heap, root, received, pc>>

------------------------------------------------------------------------------
(* Writing *)

New(h, type, x) == Append(h, [type |-> type, of |-> x, next |-> 0])

RECURSIVE LastNode(_, _)
LastNode(h, p) == IF h[p].next = 0 THEN p ELSE LastNode(h, h[p].next)

\* Mutant of BinaryAdd: behind p itself, whatever follows it
BinaryAddHere(h, p, q) == [h EXCEPT ![p].next = q]

\* BinaryAdd: to the end of the list p is in
BinaryAdd(h, p, q) == [h EXCEPT ![LastNode(h, p)].next = q]

\* The End of a container: behind the element added last, whatever follows it
Close(h, p) == [New(h, "End", "") EXCEPT ![p].next = Len(h) + 1]

\* BinaryAlloc, and its loops over the elements of a container
RECURSIVE BinaryAlloc(_, _), AddAll(_, _, _)
AddAll(h, p, s) ==
    IF s = <<>> THEN Close(h, p)
    ELSE LET q == Len(h) + 1
         IN  AddAll(BinaryAdd(BinaryAlloc(h, Head(s)), p, q), q, Tail(s))

BinaryAlloc(h, v) ==
    CASE v.type = "Leaf" -> New(h, IF v.of \in {"null", "undefined"} THEN "Nil" ELSE "Leaf", v.of)
      [] OTHER -> AddAll(New(h, v.type, ""), Len(h) + 1, v.of)

------------------------------------------------------------------------------
(* Rebuilding: the value, the node behind it, and whether that went well *)

Ret(v, p) == [v |-> v, p |-> p, ok |-> TRUE]
Crash == [v |-> Leaf("none"), p |-> 0, ok |-> FALSE]
AtEnd(h, p) == p = 0 \/ h[p].type = "End"

\* duk_put_prop
Put(s, k, v) ==
    IF \E i \in DOMAIN s : i % 2 = 1 /\ s[i] = k
    THEN [i \in DOMAIN s |-> IF i % 2 = 0 /\ s[i - 1] = k THEN v ELSE s[i]]
    ELSE s \o <<k, v>>

RECURSIVE BinaryPushContext(_, _), PushArray(_, _, _), PushObject(_, _, _)
\* The array's loop goes on while there is a node, and then reads its type
PushArray(h, p, s) ==
    IF ~AtEnd(h, p)
    THEN LET r == BinaryPushContext(h, p)
         IN  IF r.ok THEN PushArray(h, r.p, Append(s, r.v)) ELSE Crash
    ELSE IF p = 0 THEN Crash
    ELSE Ret(Array(s), h[p].next)

\* The object's loop stops at a missing value, and at a missing End
PushObject(h, p, s) ==
    IF ~AtEnd(h, p)
    THEN LET k == BinaryPushContext(h, p)
             r == BinaryPushContext(h, k.p)
         IN  IF ~k.ok THEN Crash
             ELSE IF k.p = 0 THEN Ret(Object(s), 0)
             ELSE IF r.ok THEN PushObject(h, r.p, Put(s, k.v, r.v)) ELSE Crash
    ELSE Ret(Object(s), IF p = 0 THEN 0 ELSE h[p].next)

BinaryPushContext(h, p) ==
    CASE h[p].type = "Leaf" -> Ret(Leaf(h[p].of), h[p].next)
      [] h[p].type = "Array" -> PushArray(h, h[p].next, <<>>)
      [] h[p].type = "Object" -> PushObject(h, h[p].next, <<>>)
      [] OTHER -> Ret(Leaf("undefined"), h[p].next)

\* BinaryDealloc: the nodes behind the root
RECURSIVE BinaryDealloc(_, _)
BinaryDealloc(h, p) == IF p = 0 THEN {} ELSE {p} \cup BinaryDealloc(h, h[p].next)

------------------------------------------------------------------------------
Init == posted \in Values /\ heap = <<>> /\ root = 0 /\ received = Crash /\ pc = "post"

Write ==
    /\ pc = "post" /\ pc' = "sent"
    /\ heap' = BinaryAlloc(heap, posted) /\ root' = 1
    /\ UNCHANGED <<posted, received>>

Rebuild ==
    /\ pc = "sent" /\ pc' = "done"
    /\ received' = BinaryPushContext(heap, root)
    /\ UNCHANGED <<posted, heap, root>>

Next == Write \/ Rebuild

Spec == Init /\ [][Next]_vars

------------------------------------------------------------------------------
Container(v) == v.type # "Leaf"

\* Some container of v has a container as its last element
RECURSIVE LastNested(_)
LastNested(v) ==
    /\ Container(v) /\ v.of # <<>>
    /\ Container(Last(v.of)) \/ \E i \in DOMAIN v.of : LastNested(v.of[i])

\* The one such value that comes through: an object, itself in no container,
\* whose last value is empty
Spared(v) ==
    /\ v.type = "Object" /\ v.of # <<>>
    /\ Container(Last(v.of)) /\ Last(v.of).of = <<>>
    /\ \A i \in DOMAIN v.of : ~LastNested(v.of[i])

RECURSIVE Received(_)
Received(v) ==
    IF Container(v) THEN [v EXCEPT !.of = [i \in DOMAIN @ |-> Received(@[i])]]
    ELSE IF v.of = "null" THEN Leaf("undefined") ELSE v

\* What is rebuilt is what was posted, with undefined for null, and every node
\* is freed with the message, as long as no container ends with a container.
\* For every other value, but an object that ends with an empty one, the End of
\* the outer container has cut off the inner one's elements (kk-binary.cc 68,
\* 85): the receiver gets a different value or reads a null pointer (158-167),
\* and what was cut off is never freed.
RoundTrip ==
    pc = "done" =>
        /\ received.ok /\ received.v = Received(posted)
              <=> ~LastNested(posted) \/ Spared(posted)
        /\ BinaryDealloc(heap, root) = DOMAIN heap <=> ~LastNested(posted)
=============================================================================
