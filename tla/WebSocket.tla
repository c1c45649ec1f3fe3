----------------------------- MODULE WebSocket ------------------------------
(***************************************************************************)
(* kk::WebSocket (src/src/kk-ws.cc): the life of a socket from the DNS     *)
(* query to its last event, and onReading(), which cuts what the peer      *)
(* sends into messages.                                                    *)
(*                                                                         *)
(* All but the destructor runs on the loop thread; that may run on another *)
(* thread, whose unlock() takes the socket from MutexAtomic after its last *)
(* release (kk-atomic-pthread.cc).  What varies is how the peer's bytes    *)
(* are grouped when they arrive, when the DNS server answers and the       *)
(* connection breaks, and what the script does inside the functions        *)
(* onopen, ondata and onclose, which throw only what kk::script::Error can *)
(* print.  libevent and duktape are external.                              *)
(*                                                                         *)
(* A byte of the stream is <<k, i>>, the i-th of the k-th frame; frame 1   *)
(* is the answer to the handshake, two bytes of which the second ends it.  *)
(* An answer is "101", "other" (another code), "long" (a status text of    *)
(* 128 bytes or more) or "odd" (nothing that sscanf can fill status with). *)
(* A frame is "bad" if its first two bytes are refused.                    *)
(***************************************************************************)
EXTENDS Integers, Sequences, SequencesExt

CONSTANTS
    Frames,     \* what a frame may be: [op, fin, head (its header), key, len]
    Answers,    \* what the answer to the handshake may be
    MaxFrames   \* how many frames the peer sends at most

AnswerOps == {"101", "other", "long", "odd"}
FrameOps == {"text", "cont", "ping", "pong", "close", "bad"}

ASSUME FramesAssumption ==
    /\ Frames \cup Answers \subseteq
         [op : AnswerOps \cup FrameOps, fin : BOOLEAN, head : {2, 3}, key : Nat, len : Nat]
    /\ \A f \in Frames : f.op \in FrameOps /\ (f.key # 0 => f.op = "pong")
    /\ \A f \in Answers : f.op \in AnswerOps /\ f.head = 2 /\ f.key = 0 /\ f.len = 0
    /\ MaxFrames \in Nat

VARIABLES
    frames, stream,  \* what the peer sends, as frames and as bytes
    arrived, taken,  \* how many bytes have reached the input buffer and left it
    state,           \* _state
    bev,             \* _bev: nullptr, before open() and when freed, or live
    dns,             \* whether the query is pending
    reading,         \* EV_READ is enabled
    obj, held,       \* the WebSocket, and whether the script can reach it
    quit,            \* the script has called close()
    body,            \* _body
    btype, blen,     \* _bodyType and _bodyLength
    pc, next,        \* where onReading() is, or which function runs, and what follows
    after,           \* onOpen() waits for onReading() to return
    got,             \* what ondata was given
    fault            \* the undefined behaviour that was reached

peer == <<frames, stream>>
life == <<state, bev, dns, reading>>
owner == <<obj, held, quit>>
message == <<body, btype, blen>>
control == <<pc, next, after>>
vars == <<peer, arrived, taken, life, owner, message, control, got, fault>>

Bytes(fs) == FlattenSeq([k \in DOMAIN fs |->
                           [i \in 1..fs[k].head + fs[k].key + fs[k].len |-> <<k, i>>]])

Functions == {"open", "data", "close"}
Types == {"None", "Text", "Ping"}

TypeOK ==
    /\ frames \in Seq(Frames \cup Answers) /\ stream = Bytes(frames)
    /\ arrived \in 0..Len(stream) /\ taken \in 0..arrived
    /\ state \in {"None", "Resolve", "Connected", "Opened", "Closed"}
    /\ bev \in {"nil", "live"} /\ dns \in BOOLEAN /\ reading \in BOOLEAN
    /\ obj \in {"none", "live", "taken", "freed"} /\ held \in BOOLEAN /\ quit \in BOOLEAN
    /\ body \in Seq(Range(stream)) /\ btype \in Types /\ blen \in Nat
    /\ pc \in {"idle", "read", "frame"} \cup Functions
    /\ next \in {"idle", "read", "frame", "this"} /\ after \in BOOLEAN
    /\ got \in Seq([type : Types, body : Seq(Range(stream))])
    /\ fault \in {"none", "url", "object", "bev", "sync", "read", "status", "thread"}

Init ==
    /\ \E a \in Answers, n \in 0..MaxFrames : \E fs \in [1..n -> Frames] :
         frames = <<a>> \o fs
    /\ stream = Bytes(frames)
    /\ arrived = 0 /\ taken = 0
    /\ state = "None" /\ bev = "nil" /\ dns = FALSE /\ reading = FALSE
    /\ obj = "none" /\ held = FALSE /\ quit = FALSE
    /\ body = <<>> /\ btype = "None" /\ blen = 0
    /\ pc = "idle" /\ next = "idle" /\ after = FALSE
    /\ got = <<>> /\ fault = "none"

------------------------------------------------------------------------------
Fault(kind) ==
    /\ fault' = kind
    /\ UNCHANGED <<peer, arrived, taken, life, owner, message, control, got>>

Go(p) == pc' = p /\ UNCHANGED <<next, after>>

\* onReading() returns; to onOpen(), which asks for the output of _bev
Finish ==
    /\ pc' = "idle" /\ after' = FALSE
    /\ IF after /\ bev = "nil" THEN fault' = "bev" ELSE UNCHANGED fault
    /\ UNCHANGED next

\* onClose(): once, and the script's function is called; n is what the caller
\* does with the object afterwards
Closing(n) ==
    /\ state' = "Closed" /\ pc' = "close" /\ next' = n
    /\ UNCHANGED <<peer, arrived, bev, dns, reading, owner, message, after, got, fault>>

------------------------------------------------------------------------------
(***************************************************************************)
(* What the script does, at top level or inside a function                 *)
(***************************************************************************)
\* WebSocketAlloc and open(): the URL does not parse, or lacks a part that is
\* copied from a null pointer, or names an address, or a host to look up
Open(url) ==
    /\ obj = "none"
    /\ obj' = "live" /\ held' = TRUE
    /\ fault' = IF url = "partial" THEN "url" ELSE "none"
    /\ bev' = IF url \in {"address", "name"} THEN "live" ELSE "nil"
    /\ state' = IF url = "address" THEN "Resolve" ELSE "None"
    /\ dns' = (url = "name")
    /\ UNCHANGED <<peer, arrived, taken, reading, quit, message, control, got>>

Script == held /\ pc \in {"idle"} \cup Functions

\* Mutant of Close: close() only stops the socket, and _bev stays
CloseLater ==
    /\ Script
    /\ quit' = TRUE
    /\ UNCHANGED <<peer, arrived, taken, life, obj, held, message, control, got, fault>>

\* close(): frees the bufferevent and leaves _state as it is
Close ==
    /\ Script
    /\ bev' = "nil" /\ quit' = TRUE
    /\ UNCHANGED <<peer, arrived, taken, state, dns, reading, obj, held, message,
                   control, got, fault>>

\* The script drops its last reference: the finalizer runs at once, or when
\* the function that has the object on its stack is left
Drop ==
    /\ Script
    /\ held' = FALSE
    /\ \/ pc = "idle" /\ obj' = "freed" /\ bev' = "nil"
       \/ pc = "idle" /\ obj' = "taken" /\ UNCHANGED bev
       \/ pc # "idle" /\ UNCHANGED <<obj, bev>>
    /\ UNCHANGED <<peer, arrived, taken, state, dns, reading, quit, message,
                   control, got, fault>>

\* Another thread deletes what it has taken, and frees the bufferevent of this
\* thread's loop, which may be at work on it or on the query
OtherDeletes ==
    /\ pc = "idle" /\ obj = "taken"
    /\ \/ /\ obj' = "freed" /\ bev' = "nil"
          /\ UNCHANGED <<peer, arrived, taken, state, dns, reading, held, quit, message,
                         control, got, fault>>
       \/ (bev = "live" \/ dns) /\ Fault("thread")

\* A function returns.  onOpen() and onData() go on with an iterator into the
\* object, and with its bufferevent
ReturnOpen ==
    /\ pc = "open"
    /\ IF ~held THEN Fault("object")
       ELSE IF bev = "nil" THEN Fault("bev")
       ELSE /\ pc' = "read" /\ after' = TRUE
            /\ UNCHANGED <<peer, arrived, taken, life, owner, message, next, got, fault>>

ReturnData ==
    /\ pc = "data"
    /\ IF ~held THEN Fault("object")
       ELSE IF bev = "nil" THEN Fault("bev")
       ELSE Go(next) /\ UNCHANGED <<peer, arrived, taken, life, owner, message, got, fault>>

\* onClose() keeps the object to its end; a caller that then uses `this` does not
ReturnClose ==
    /\ pc = "close"
    /\ bev' = "nil"
    /\ obj' \in IF held THEN {obj} ELSE {"taken", "freed"}
    /\ pc' = "idle" /\ next' = "idle"
    /\ fault' = IF ~held /\ next = "this" THEN "object"
                ELSE IF after THEN "bev" ELSE fault
    /\ UNCHANGED <<peer, arrived, taken, state, dns, reading, held, quit, message, after, got>>

------------------------------------------------------------------------------
(***************************************************************************)
(* What the network does.  The events of a socket that another thread has  *)
(* taken reach no function any more; that they race with it is a fault of  *)
(* OtherDeletes.                                                           *)
(***************************************************************************)
\* WebSocket_evdns_cb: the query is not withdrawn by close() or ~WebSocket
DnsAnswer(found) ==
    /\ pc = "idle" /\ dns /\ obj # "taken"
    /\ IF obj = "freed" THEN Fault("object")
       ELSE IF found
       THEN IF bev = "nil" THEN Fault("bev")
            ELSE /\ state' = "Resolve" /\ dns' = FALSE
                 /\ UNCHANGED <<peer, arrived, taken, bev, reading, owner, message,
                                control, got, fault>>
       ELSE /\ state' = "Closed" /\ dns' = FALSE
            /\ pc' = "close" /\ next' = "idle"
            /\ UNCHANGED <<peer, arrived, taken, bev, reading, owner, message,
                           after, got, fault>>

Connected ==
    /\ pc = "idle" /\ obj = "live" /\ bev = "live" /\ state = "Resolve"
    /\ state' = "Connected"
    /\ UNCHANGED <<peer, arrived, taken, bev, dns, reading, owner, message, control,
                   got, fault>>

\* The request is written: onWritting
Written ==
    /\ pc = "idle" /\ obj = "live" /\ bev = "live" /\ state = "Connected" /\ ~reading
    /\ reading' = TRUE
    /\ UNCHANGED <<peer, arrived, taken, state, bev, dns, owner, message, control,
                   got, fault>>

\* Refused, reset or timed out; an end of file is not handled
Broken ==
    /\ pc = "idle" /\ obj = "live" /\ bev = "live" /\ state \in {"Resolve", "Connected", "Opened"}
    /\ Closing("idle") /\ UNCHANGED taken

\* Some more bytes: WebSocket_data_rd
Arrive ==
    /\ pc = "idle" /\ obj = "live" /\ bev = "live" /\ reading
    /\ \E n \in arrived + 1 .. Len(stream) : arrived' = n
    /\ Go("read")
    /\ UNCHANGED <<peer, taken, life, owner, message, got, fault>>

------------------------------------------------------------------------------
(***************************************************************************)
(* onReading(), which calls itself until it has to wait                    *)
(***************************************************************************)
N == arrived - taken
Input(n) == SubSeq(stream, taken + 1, taken + n)

Wait == Finish /\ UNCHANGED <<peer, arrived, taken, life, owner, message, got>>

\* Mutant of Deliver: _bodyLength and _bodyType are left as they were
DeliverKeepsLength(b, type, n) ==
    /\ body' = <<>> /\ btype' = type /\ blen' = Len(b)
    /\ IF type = "Ping"
       THEN Go(n) /\ UNCHANGED got
       ELSE /\ got' = Append(got, [type |-> type, body |-> b])
            /\ pc' = "data" /\ next' = n /\ UNCHANGED after
    /\ UNCHANGED <<peer, arrived, life, owner, fault>>

\* onData(), and the body starts again
Deliver(b, type, n) ==
    /\ body' = <<>> /\ btype' = "None" /\ blen' = 0
    /\ IF type = "Ping"
       THEN Go(n) /\ UNCHANGED got
       ELSE /\ got' = Append(got, [type |-> type, body |-> b])
            /\ pc' = "data" /\ next' = n /\ UNCHANGED after
    /\ UNCHANGED <<peer, arrived, life, owner, fault>>

\* sscanf() reads the answer, which nothing terminates, into code and status[128],
\* and a code that is not 101 closes with what is in status
Handshake ==
    /\ pc = "read" /\ state = "Connected"
    /\ IF N < 2 THEN Wait
       ELSE \/ Fault("read")
            \/ frames[1].op \in {"long", "odd"} /\ Fault("status")
            \/ /\ frames[1].op \in {"other", "odd"}
               /\ taken' = taken + 2
               /\ Closing("idle")
            \/ /\ frames[1].op = "101"
               /\ taken' = taken + 2
               /\ state' = "Opened" /\ pc' = "open"
               /\ UNCHANGED <<peer, arrived, bev, dns, reading, owner, message,
                              next, after, got, fault>>

\* The rest of a body that was cut
Rest ==
    LET v == blen - Len(body)
        m == IF v > 0 /\ N >= v THEN v ELSE 0
        b == body \o Input(m)
    IN  /\ pc = "read" /\ state = "Opened"
        /\ IF btype # "None" /\ blen > 0 /\ N > 0
           THEN IF Len(b) = blen
                THEN taken' = taken + m /\ Deliver(b, btype, "frame")
                ELSE Wait
           ELSE Go("frame") /\ UNCHANGED <<peer, arrived, taken, life, owner, message,
                                           got, fault>>

\* Mutant of Body: only the header is drained from the input
BodyDrainsHeader(f, m) ==
    LET b == body \o SubSeq(stream, taken + f.head + 1, taken + f.head + m)
    IN  /\ taken' = taken + f.head
        /\ IF f.fin /\ Len(b) = f.len
           THEN Deliver(b, "Text", "read")
           ELSE /\ body' = b /\ btype' = "Text" /\ blen' = f.len
                /\ Go("read")
                /\ UNCHANGED <<peer, arrived, life, owner, got, fault>>

\* A frame whose header has arrived, with what there is of its payload
Body(f, m) ==
    LET b == body \o SubSeq(stream, taken + f.head + 1, taken + f.head + m)
        type == CASE f.op = "text" -> "Text" [] f.op = "ping" -> "Ping"
                  [] OTHER -> btype
    IN  /\ taken' = taken + f.head + m
        /\ IF f.op = "pong"
           THEN Go("read") /\ UNCHANGED <<peer, arrived, life, owner, message, got, fault>>
           ELSE IF f.fin /\ Len(b) = f.len
           THEN Deliver(b, type, "read")
           ELSE /\ body' = b /\ btype' = type /\ blen' = f.len
                /\ Go("read")
                /\ UNCHANGED <<peer, arrived, life, owner, got, fault>>

\* The two bytes at the head of the input are taken for a header, and the length
\* that may follow them is read before the code asks whether it has arrived.  A
\* pong's mask is not refused, and its key is not skipped
Frame ==
    /\ pc = "frame"
    /\ IF N < 2 THEN Wait
       ELSE LET f == frames[stream[taken + 1][1]] IN
            IF stream[taken + 1][2] # 1 THEN Fault("sync")
            ELSE IF f.op \in {"close", "bad"}
            THEN Closing("this") /\ UNCHANGED taken
            ELSE IF N < f.head THEN Wait \/ Fault("read")
            ELSE Body(f, IF f.len > N - f.head THEN N - f.head ELSE f.len)

OnReading == Handshake \/ Rest \/ Frame
Return == ReturnOpen \/ ReturnData \/ ReturnClose

Next ==
    /\ fault = "none"
    /\ \/ \E url \in {"bad", "partial", "address", "name"} : Open(url)
       \/ Close \/ Drop \/ OtherDeletes
       \/ \E found \in BOOLEAN : DnsAnswer(found)
       \/ Connected \/ Written \/ Broken \/ Arrive
       \/ OnReading \/ Return

Spec == Init /\ [][Next]_vars

------------------------------------------------------------------------------
Whole(k) == [type |-> "Text",
             body |-> [i \in 1..frames[k].len |-> <<k, frames[k].head + i>>]]
Expected == FlattenSeq([k \in DOMAIN frames |->
                          IF frames[k].op = "text" THEN <<Whole(k)>> ELSE <<>>])

\* The peer uses neither fragments nor pongs that carry something or are masked
Plain == \A k \in DOMAIN frames :
            /\ frames[k].fin /\ frames[k].op # "cont"
            /\ frames[k].op = "pong" => frames[k].len = 0 /\ frames[k].key = 0

\* However the bytes are grouped, ondata is given the peer's messages whole,
\* in their order, each once; and when the socket is open, everything has
\* arrived and nothing is running, it has been given all of them
\* (onReading, kk-ws.cc 227-406).
WholeMessages ==
    Plain /\ fault = "none" =>
        /\ IsPrefix(got, Expected)
        /\ state = "Opened" /\ bev = "live" /\ pc = "idle" /\ arrived = Len(stream)
              => got = Expected

\* Apart from a null part of the URL (kk-ws.cc 593-601), undefined behaviour is
\* reached only where the code leaves it open: a socket released last, only when
\* the script has dropped it, inside a function or with the query pending (138-149,
\* 172-225, 331-332); a null _bev, only when the script has closed the socket,
\* or it was closed by what arrived with the handshake's answer (440-443);
\* payload or a masking key is read as a header only if the peer fragments or
\* sends a pong with a payload or a mask (310, 362-370); bytes past the input are
\* read only by the sscanf of the handshake (258) and for a length that has not
\* all arrived (343-351); status is overrun or read unset only for an answer that
\* is too long or has no status line (256-266); and another thread frees what the
\* loop still uses only after it has taken a socket whose connection or query is
\* live.
FaultsExplained ==
    /\ fault = "object" => ~held
    /\ fault = "bev" => quit \/ (after /\ state = "Closed")
    /\ fault = "sync" => ~Plain
    /\ fault = "read" =>
          \/ pc = "read" /\ state = "Connected"
          \/ pc = "frame" /\ N < frames[stream[taken + 1][1]].head
    /\ fault = "status" => state = "Connected" /\ frames[1].op \in {"long", "odd"}
    /\ fault = "thread" => obj = "taken" /\ ~held /\ (bev = "live" \/ dns)

\* Once the script has called close(), or onclose was called, no function is
\* called again, except onclose for a query that fails (138-149, 447-514)
LastWord ==
    [][ quit \/ state = "Closed" =>
        /\ got' = got
        /\ pc' \in Functions /\ pc' # pc =>
              pc' = "close" /\ dns /\ state # "Closed" ]_vars
=============================================================================
