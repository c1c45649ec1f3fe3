------------------------------ MODULE HttpTask ------------------------------
(***************************************************************************)
(* kk::Http and its HttpTasks (src/src/kk-http.cc): the requests a script  *)
(* sends, each owned by its wrapper in the script, by Http::_tasks and by  *)
(* the reference the callbacks give back, and each calling one function    *)
(* that script::Object (kk-script.cc) pins in the global object.           *)
(*                                                                         *)
(* All but the destructors runs on the loop thread.  What interleaves is   *)
(* the order of libevent's callbacks and what the script does inside its   *)
(* functions, so a call of a function is a frame on a stack; and what was  *)
(* released last may be deleted by another thread, whose unlock() takes it *)
(* from MutexAtomic first (kk-atomic-pthread.cc).  A function may throw,   *)
(* but only what kk::script::Error can print.  libevent and duktape are    *)
(* external.  libevent's contract is event2/http.h: on an error the        *)
(* error callback is called and then the regular one, without a request    *)
(* (http.h:602); a cancelled request is freed and not called; a completed  *)
(* one is freed after its callback.                                        *)
(***************************************************************************)
EXTENDS Integers, Sequences, SequencesExt

CONSTANTS
    Tasks,  \* the HttpTask objects that may be created
    Fns,    \* the script's functions
    Keys,   \* the names script::Object pins them under
    KeyOf,  \* the name of a function: "0x%x" prints 32 bits of its address
    Json,   \* the tasks whose options ask for type "json"
    Nil

ASSUME KeysAssumption == KeyOf \in [Fns -> Keys] /\ Nil \notin Fns
ASSUME JsonAssumption == Json \subseteq Tasks

VARIABLES
    http,   \* whether the Http object exists
    held,   \* whether the script still has it
    kept,   \* the functions the script itself still refers to
    glob,   \* the function each name of the global object holds
    reg,    \* Http::_tasks
    task,   \* the HttpTasks, see TypeOK
    stack,  \* the script functions being called, the innermost last
    fault   \* the undefined behaviour that was reached, and where

vars == <<http, held, kept, glob, reg, task, stack, fault>>

Why == {"done", "error", "url", "refused"}
None == [kind |-> "none", task |-> Nil]

\* Who deletes what was released last: this thread, or one that has taken it
Fates == {"freed", "taken"}

TypeOK ==
    /\ http \in BOOLEAN /\ held \in BOOLEAN
    /\ kept \subseteq Fns
    /\ glob \in [Keys -> Fns \cup {Nil}]
    /\ reg \subseteq Tasks
    /\ task \in [Tasks ->
         [obj     : {"none", "leaked", "live"} \cup Fates,
          count   : 0..3,                      \* _retainCount
          wrapper : BOOLEAN,                   \* the script has its object
          fn      : Fns \cup {Nil},            \* onload and onfail
          req     : BOOLEAN,                   \* _req is not nullptr
          \* what became of the request: still libevent's, in its callback,
          \* never given to a connection, freed, freed by a failure
          ev      : {"none", "queued", "calling", "orphan", "freed", "failed"},
          lost    : BOOLEAN,                   \* no callback will come for it
          called  : 0..2]]            \* calls of its function
    /\ stack \in Seq([task : Tasks, why : Why])
    /\ fault \in [kind : {"none", "request", "task", "function", "thread", "fatal"},
                  task : Tasks \cup {Nil}]

Init ==
    /\ http = TRUE /\ held = TRUE
    /\ kept = Fns
    /\ glob = [k \in Keys |-> Nil]
    /\ reg = {}
    /\ task = [t \in Tasks |-> [obj |-> "none", count |-> 0, wrapper |-> FALSE,
                                fn |-> Nil, req |-> FALSE, ev |-> "none",
                                lost |-> FALSE, called |-> 0]]
    /\ stack = <<>>
    /\ fault = None

------------------------------------------------------------------------------
Fault(kind, t) ==
    /\ fault' = [kind |-> kind, task |-> t]
    /\ UNCHANGED <<http, held, kept, glob, reg, task, stack>>

\* Object::release: the last one queues the object, and unlock() deletes it
\* unless another thread's has taken it
Release(r, d) == [r EXCEPT !.count = @ - 1,
                           !.obj = IF r.count = 1 THEN d ELSE @]

\* ~Object of the functions of a task that was deleted takes their name away
Unpinned(t, r) ==
    IF r.obj = "freed" THEN [glob EXCEPT ![KeyOf[r.fn]] = Nil] ELSE glob

\* Mutant of Removed: _req stays
RemovedKeepsReq(t, r, d) == IF http /\ t \in reg THEN Release(r, d) ELSE r

\* HttpTask::remove: out of Http::_tasks, whose reference is released
Removed(t, r, d) == [(IF http /\ t \in reg THEN Release(r, d) ELSE r)
                        EXCEPT !.req = FALSE]

\* Mutant of Unregistered: the task is released but stays in the map
UnregisteredKept(t) == reg

Unregistered(t) == IF http THEN reg \ {t} ELSE reg

\* A function the script dropped lives on only under its own name
Alive(f) == f \in kept \/ glob[KeyOf[f]] = f

\* Mutant of Call: a function that is gone is passed over
CallIfAlive(t, why, r) ==
    /\ task' = [task EXCEPT ![t] = IF Alive(r.fn) THEN [r EXCEPT !.called = @ + 1] ELSE r]
    /\ stack' = Append(stack, [task |-> t, why |-> why])
    /\ UNCHANGED fault

\* onLoad and onFail push the heap pointer of the function and call it
Call(t, why, r) ==
    IF Alive(r.fn)
    THEN /\ task' = [task EXCEPT ![t] = [r EXCEPT !.called = @ + 1]]
         /\ stack' = Append(stack, [task |-> t, why |-> why])
         /\ UNCHANGED fault
    ELSE /\ fault' = [kind |-> "function", task |-> t]
         /\ UNCHANGED <<task, stack>>

\* send() has not returned: its wrapper and its Http are held by the C++ stack
Sending == \E i \in DOMAIN stack : stack[i].why \in {"url", "refused"}
InSend(t) == \E i \in DOMAIN stack : /\ stack[i].task = t
                                     /\ stack[i].why \in {"url", "refused"}

------------------------------------------------------------------------------
(***************************************************************************)
(* What the script does, at top level or inside a function                 *)
(***************************************************************************)
\* http.send(options) up to open(): two references, and a registered task
Made(t, f) == [task[t] EXCEPT !.obj = "live", !.count = 2, !.wrapper = TRUE,
                              !.fn = f, !.req = TRUE]

\* open() gives the request to a connection and retains the task
SendQueued(t, f) ==
    /\ task' = [task EXCEPT ![t] = [Made(t, f) EXCEPT !.count = @ + 1,
                                                      !.ev = "queued"]]
    /\ UNCHANGED <<stack, fault>>

\* The URL has no host: onFail at once, and the request has no owner
SendBadUrl(t, f) == Call(t, "url", [Made(t, f) EXCEPT !.ev = "orphan"])

\* connect() fails at once: libevent calls HttpRequest_cb inside
\* evhttp_make_request, before open() has retained the task
SendRefused(t, f) == Call(t, "refused", [Made(t, f) EXCEPT !.ev = "calling"])

Send(t, f) ==
    /\ held /\ task[t].obj = "none"
    /\ f \in kept
    /\ reg' = reg \cup {t}
    /\ glob' = [glob EXCEPT ![KeyOf[f]] = f]
    /\ SendQueued(t, f) \/ SendBadUrl(t, f) \/ SendRefused(t, f)
    /\ UNCHANGED <<http, held, kept>>

\* The options make duktape throw out of send(), which has made the task and its
\* request but holds neither: both stay for ever
SendThrows(t) ==
    /\ held /\ task[t].obj = "none"
    /\ task' = [task EXCEPT ![t].obj = "leaked"]
    /\ UNCHANGED <<http, held, kept, glob, reg, stack, fault>>

\* task.cancel()
Cancel(t) ==
    /\ task[t].wrapper /\ ~InSend(t)
    /\ IF task[t].obj # "live" THEN Fault("task", t)
       ELSE /\ task[t].req
            /\ IF task[t].ev = "queued"
               THEN \E d \in Fates :
                    /\ task' = [task EXCEPT ![t] =
                         [Removed(t, task[t], d) EXCEPT !.ev = "freed", !.lost = TRUE]]
                    /\ reg' = Unregistered(t)
                    /\ glob' = Unpinned(t, task'[t])
                    /\ UNCHANGED <<http, held, kept, stack, fault>>
               ELSE Fault("request", t)

\* The wrapper is collected: ScriptObjectDeallocFunc
Drop(t) ==
    /\ task[t].wrapper /\ ~InSend(t)
    /\ IF task[t].obj # "live" THEN Fault("task", t)
       ELSE \E d \in Fates :
            /\ task' = [task EXCEPT ![t] = [Release(@, d) EXCEPT !.wrapper = FALSE]]
            /\ glob' = Unpinned(t, task'[t])
            /\ UNCHANGED <<http, held, kept, reg, stack, fault>>

\* The script drops its own reference to a function
Forget(f) ==
    /\ f \in kept
    /\ kept' = kept \ {f}
    /\ UNCHANGED <<http, held, glob, reg, task, stack, fault>>

\* ~Http: dealloc() and one release() for every task of _tasks; the callbacks
\* hold another
Dealloced(t) == [Release(task[t], "freed") EXCEPT !.req = FALSE, !.ev = "freed",
                                                  !.lost = TRUE]

\* The wrapper of Http is collected, here or by a thread that has taken it
DropHttp ==
    /\ held /\ ~Sending
    /\ \/ \E t \in reg : task[t].ev # "queued" /\ Fault("request", t)
       \/ /\ \A t \in reg : task[t].ev = "queued"
          /\ http' = FALSE /\ held' = FALSE
          /\ task' = [t \in Tasks |-> IF t \in reg THEN Dealloced(t) ELSE task[t]]
          /\ reg' = {}
          /\ UNCHANGED <<kept, glob, stack, fault>>
       \/ /\ held' = FALSE
          /\ UNCHANGED <<http, kept, glob, reg, task, stack, fault>>

------------------------------------------------------------------------------
(***************************************************************************)
(* What another thread deletes, in its unlock()                            *)
(***************************************************************************)
\* It enters the duktape heap of this one, which may be in use
OtherDeletes(t) ==
    /\ task[t].obj = "taken"
    /\ \/ /\ task' = [task EXCEPT ![t].obj = "freed"]
          /\ glob' = Unpinned(t, task'[t])
          /\ UNCHANGED <<http, held, kept, reg, stack, fault>>
       \/ Fault("thread", t)

\* ~Http cancels requests of this thread's loop if any is left
OtherDeletesHttp ==
    /\ http /\ ~held
    /\ \/ /\ reg = {}
          /\ http' = FALSE
          /\ UNCHANGED <<held, kept, glob, reg, task, stack, fault>>
       \/ \E t \in reg : Fault("thread", t)

------------------------------------------------------------------------------
(***************************************************************************)
(* What libevent does, from its loop                                       *)
(***************************************************************************)
\* A response, or a connection that could not be made: HttpRequest_cb(req)
Complete(t) ==
    /\ stack = <<>> /\ task[t].ev = "queued"
    /\ Call(t, "done", [task[t] EXCEPT !.ev = "calling"])
    /\ UNCHANGED <<http, held, kept, glob, reg>>

\* The body is not JSON although it was asked for: onLoad decodes it outside any
\* protected call, and the fatal handler of the heap returns
Undecodable(t) ==
    /\ stack = <<>> /\ task[t].ev = "queued"
    /\ t \in Json /\ Alive(task[t].fn)
    /\ fault' = [kind |-> "fatal", task |-> t]
    /\ task' = [task EXCEPT ![t].ev = "calling"]
    /\ UNCHANGED <<http, held, kept, glob, reg, stack>>

\* A timeout or a broken connection: the request is freed and
\* HttpTask_error_cb reports it
Fail(t) ==
    /\ stack = <<>> /\ task[t].ev = "queued"
    /\ Call(t, "error", [task[t] EXCEPT !.ev = "failed"])
    /\ UNCHANGED <<http, held, kept, glob, reg>>

\* The peer closed: HttpTask_error_cb does nothing, and HttpRequest_cb(NULL)
\* asks the freed _req for its response code
Eof(t) ==
    /\ stack = <<>> /\ task[t].ev = "queued"
    /\ fault' = [kind |-> "request", task |-> t]
    /\ task' = [task EXCEPT ![t].ev = "failed"]
    /\ UNCHANGED <<http, held, kept, glob, reg, stack>>

\* The function returns into onLoad or onFail, which removes the task; then,
\* as HttpRequest_cb, releases it, and libevent frees the request
ReturnOf(t, why, d) ==
    LET r == Removed(t, task[t], d)
        s == IF why \in {"done", "refused"}
             THEN [Release(r, d) EXCEPT !.ev = "freed"] ELSE r
    IN  /\ task' = [task EXCEPT ![t] = s]
        /\ reg' = Unregistered(t)
        /\ glob' = Unpinned(t, s)
        /\ stack' = Front(stack)
        \* evhttp_make_request returns to open(), which retains the task;
        \* HttpRequest_cb(NULL) reads through the _req that remove() cleared
        /\ fault' = CASE why = "refused" -> [kind |-> "task", task |-> t]
                      [] why = "error" -> [kind |-> "request", task |-> t]
                      [] OTHER -> fault
        /\ UNCHANGED <<http, held, kept>>

Return ==
    /\ stack # <<>>
    /\ \E d \in Fates : ReturnOf(Last(stack).task, Last(stack).why, d)

Network(t) == Complete(t) \/ Undecodable(t) \/ Fail(t) \/ Eof(t)

Next ==
    /\ fault = None
    /\ \/ \E t \in Tasks : \/ \E f \in Fns : Send(t, f)
                           \/ SendThrows(t) \/ Cancel(t) \/ Drop(t)
                           \/ Network(t) \/ OtherDeletes(t)
       \/ \E f \in Fns : Forget(f)
       \/ DropHttp \/ OtherDeletesHttp
       \/ Return

Spec == Init /\ [][Next]_vars

\* A request is answered, refused or times out (the code always sets a
\* timeout), and a function returns
FairSpec ==
    /\ Spec
    /\ WF_vars(fault = None /\ Return)
    /\ \A t \in Tasks : WF_vars(fault = None /\ Network(t))

------------------------------------------------------------------------------
B(b) == IF b THEN 1 ELSE 0
InFlight(t) == task[t].ev \in {"queued", "calling"} \/ task[t].lost

\* The references of a task are its wrapper, Http::_tasks and the one the
\* callbacks give back, and a task is deleted exactly when the last is gone:
\* nothing that may still reach it is left.  What Http::_tasks holds is a
\* request that has not been answered, so it does not grow with answered ones.
\* After cancel() or ~Http the callbacks' reference is never given back
\* (kk-http.cc 90-105, 162, 275-295): the task stays for ever.
Accounted ==
    fault = None => \A t \in Tasks :
        /\ ~InSend(t) => task[t].count =
              B(task[t].wrapper) + B(t \in reg)
                 + B(InFlight(t) \/ \E i \in DOMAIN stack :
                                       stack[i] = [task |-> t, why |-> "error"])
        /\ task[t].obj = "live" <=> task[t].count > 0
        /\ t \in reg => http /\ task[t].req
        /\ t \in reg => \/ task[t].ev = "queued"
                        \/ \E i \in DOMAIN stack : stack[i].task = t

\* Undefined behaviour is reached only where the code leaves it open.  A task is
\* used after its last release only if its connection was refused inside open()
\* (kk-http.cc 160-162); a request only if its connection failed (107-116,
\* 291-294, http.h:602) or the script cancelled it, or let Http go, inside its
\* own function (kk-http.cc 68-74, 90-105); a function only if another task
\* with a function of the same name took or deleted that name (kk-script.cc
\* 130-157).  The loop runs on after a script error that nothing catches only
\* when the answer to a request for JSON cannot be decoded (kk-http.cc 217-219,
\* kk-script.cc 20-22), before its function is called.  Another thread reaches
\* into this one's heap or loop only to delete a task that was released last
\* here and taken there, or an Http let go while requests were registered
\* (kk-atomic-pthread.cc 33-58).
FaultsExplained ==
    LET t == fault.task IN
    /\ fault.kind = "task" =>
          task[t].called = 1 /\ task[t].ev = "freed" /\ task[t].wrapper
    /\ fault.kind = "request" =>
          \/ task[t].ev = "failed"
          \/ \E i \in DOMAIN stack : stack[i] = [task |-> t, why |-> "done"]
    /\ fault.kind = "function" =>
          \E u \in Tasks \ {t} :
              /\ task[u].fn # Nil /\ KeyOf[task[u].fn] = KeyOf[task[t].fn]
              /\ task[u].obj = "freed" \/ task[u].fn # task[t].fn
    /\ fault.kind = "fatal" =>
          t \in Json /\ t \in reg /\ task[t].called = 0 /\ stack = <<>>
    /\ fault.kind = "thread" =>
          task[t].obj = "taken" \/ (~held /\ http /\ t \in reg)

\* A request is answered once, by onload or by onfail, and not once cancel()
\* or ~Http has let it go, whatever the script does meanwhile
AnsweredOnce ==
    [][\A t \in Tasks : task[t].lost \/ task[t].called = 1 =>
          task'[t].called = task[t].called]_vars

\* A request is answered at most once; and what send() hands to a connection
\* is answered, unless it is cancelled, its Http goes, or the process has
\* already gone wrong.
Answered ==
    /\ AnsweredOnce
    /\ \A t \in Tasks : task[t].ev = "queued" ~>
           \/ task[t].called = 1
           \/ task[t].lost
           \/ fault # None
=============================================================================
