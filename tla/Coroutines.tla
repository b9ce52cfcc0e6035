------------------------------ MODULE Coroutines ------------------------------
(***************************************************************************)
(* uvio::Task, block_on, spawn and the awaiters that one libuv event ends: *)
(* sleep, execute (work), resolve and connect.                             *)
(*                                                                         *)
(* A coroutine is a frame.  A Task object held by main or by another frame *)
(* owns it until take() or until the Task dies and destroys it.  On the    *)
(* native stack each call of resume() is one level, and the coroutine it   *)
(* runs changes when one awaits another or returns to its caller           *)
(* (symmetric transfer).  An awaiter is constructed, which starts its      *)
(* request, and usually awaited at once; it may also be kept, and awaited  *)
(* later, again, or never.  Each coroutine has at most one awaiter.        *)
(***************************************************************************)
EXTENDS Integers, Sequences

CONSTANTS N,      \* bound: the coroutines that are ever created
          Uses,   \* the awaiters each coroutine may use
          Main,   \* the function that calls block_on
          NULL

Coros == 1..N
Kinds == {"sleep", "work", "resolve", "connect"}

ASSUME CorosAssumption == /\ N \in Nat \ {0}
                          /\ Uses \in [Coros -> SUBSET Kinds]
                          /\ Main \notin Coros /\ NULL \notin Coros
                          /\ Main # NULL /\ NULL \notin Kinds

VARIABLES
  frame,     \* of each coroutine: "none", "created", "active" (on the native
             \* stack), "waiting" (for the coroutine it awaits), "suspended"
             \* (on its awaiter), "done" (at its final suspension) or "dead"
  holder,    \* who has the Task object that owns the frame, or NULL
  caller,    \* promise().caller_
  stack,     \* the coroutine each nested resume() is running
  phase,     \* "main", "loop" (inside uv_run) or "over"
  kind,      \* of each coroutine's awaiter, or NULL
  event,     \* of that awaiter: "pending", "ready", "failed" (a connect),
             \* "mute" (the request was refused and nobody looked), "spent"
             \* (awaited to the end) or "none"
  orphan,    \* a request is pending whose awaiter is gone
  leaked,    \* history: the frames whose Task was assigned to
  unusual,   \* history of that awaiter: it was "kept" while its event came, or
             \* awaited "again" after its end
  fault,     \* how behaviour became undefined, or "none"
  unconnected \* history: the coroutines whose connect, the awaiter they have,
             \* gave out a stream without a connection

tasks    == <<frame, holder, caller>>
awaiters == <<kind, event, orphan>>
history  == <<leaked, unusual, fault, unconnected>>
vars     == <<tasks, stack, phase, awaiters, history>>

Frames == {"none", "created", "active", "waiting", "suspended", "done", "dead"}
Events == {"none", "pending", "ready", "failed", "mute", "spent"}
Oddities == {"kept", "again"}
Faults == {"none", "orphan", "respawn", "closure", "frame"}

TypeOK ==
  /\ frame \in [Coros -> Frames]
  /\ holder \in [Coros -> Coros \cup {Main, NULL}]
  /\ caller \in [Coros -> Coros \cup {NULL}]
  /\ stack \in Seq(Coros)
  /\ phase \in {"main", "loop", "over"}
  /\ kind \in [Coros -> Kinds \cup {NULL}]
  /\ event \in [Coros -> Events]
  /\ orphan \in BOOLEAN /\ unconnected \subseteq Coros
  /\ leaked \subseteq Coros /\ unusual \in [Coros -> SUBSET Oddities]
  /\ fault \in Faults

Init ==
  /\ frame = [c \in Coros |-> "none"]
  /\ holder = [c \in Coros |-> NULL]
  /\ caller = [c \in Coros |-> NULL]
  /\ stack = << >> /\ phase = "main"
  /\ kind = [c \in Coros |-> NULL]
  /\ event = [c \in Coros |-> "none"]
  /\ unusual = [c \in Coros |-> {}] /\ unconnected = {}
  /\ orphan = FALSE /\ leaked = {} /\ fault = "none"

Top == stack[Len(stack)]
Below == SubSeq(stack, 1, Len(stack) - 1)

\* Who executes: the innermost resume(), or main before it enters the loop.
Actor == IF stack # << >> THEN Top ELSE IF phase = "main" THEN Main ELSE NULL

\* The actor is defined and behaviour still is.
Runs(a) == fault = "none" /\ Actor = a /\ a # NULL

-----------------------------------------------------------------------------
(* Tasks. *)

\* Mutant of Taken: take() leaves handle_ as it is.
KeepHandle(d) == holder

\* take(): the Task gives its frame away.
Taken(d) == [holder EXCEPT ![d] = NULL]

\* Calling a coroutine makes a frame, suspended at its start, and a Task for it.
Create(a, d) ==
  /\ Runs(a)
  /\ frame[d] = "none" /\ \A e \in 1..(d - 1) : frame[e] # "none"
  /\ frame' = [frame EXCEPT ![d] = "created"]
  /\ holder' = [holder EXCEPT ![d] = a]
  /\ UNCHANGED <<caller, stack, phase, awaiters, history>>

\* co_await on a Task: control goes over to the callee.  A Task whose coroutine
\* is done is ready, and awaiting it changes nothing.
Await(c, d) ==
  /\ c \in Coros /\ Runs(c)
  /\ holder[d] = c /\ frame[d] = "created"
  /\ caller' = [caller EXCEPT ![d] = c]
  /\ frame' = [frame EXCEPT ![c] = "waiting", ![d] = "active"]
  /\ stack' = Append(Below, d)
  /\ UNCHANGED <<holder, phase, awaiters, history>>

\* resume() of what take() returned.  A coroutine that is done must not be
\* resumed.
Resume(d) ==
  IF frame[d] = "created"
  THEN /\ frame' = [frame EXCEPT ![d] = "active"]
       /\ stack' = Append(stack, d)
       /\ UNCHANGED fault
  ELSE /\ fault' = "respawn"
       /\ UNCHANGED <<frame, stack>>

Spawn(a, d) ==
  /\ Runs(a)
  /\ holder[d] = a
  /\ holder' = Taken(d)
  /\ Resume(d)
  /\ UNCHANGED <<caller, phase, awaiters, leaked, unusual, unconnected>>

\* block_on: main resumes the first coroutine and enters the loop for good.
BlockOn(d) ==
  /\ Runs(Main)
  /\ holder[d] = Main
  /\ holder' = Taken(d)
  /\ Resume(d)
  /\ phase' = "loop"
  /\ UNCHANGED <<caller, awaiters, leaked, unusual, unconnected>>

\* spawn(function): the coroutine is a lambda's, and when it first runs the
\* closure that holds the function is gone.  Either what is left of it still
\* serves, and the coroutine awaits the function's end, or anything happens.
SpawnFunction(a, d) ==
  /\ Runs(a)
  /\ "work" \in Uses[d]
  /\ frame[d] = "none" /\ \A e \in 1..(d - 1) : frame[e] # "none"
  /\ \/ /\ frame' = [frame EXCEPT ![d] = "suspended"]
        /\ kind' = [kind EXCEPT ![d] = "work"]
        /\ event' = [event EXCEPT ![d] = "pending"]
        /\ fault' = fault
     \/ /\ fault' = "closure"
        /\ UNCHANGED <<frame, kind, event>>
  /\ UNCHANGED <<holder, caller, stack, phase, orphan, leaked, unusual, unconnected>>

\* A Task dies: it destroys the frame it owns, which is fatal if that is gone
\* or running.
DropTask(a, d) ==
  /\ Runs(a)
  /\ holder[d] = a
  /\ holder' = [holder EXCEPT ![d] = NULL]
  /\ frame' = [frame EXCEPT ![d] = "dead"]
  /\ fault' = IF frame[d] \in {"dead", "active"} THEN "frame" ELSE fault
  /\ UNCHANGED <<caller, stack, phase, awaiters, unusual, leaked, unconnected>>

\* Move assignment to a Task that holds d: d is not destroyed.
Overwrite(a, d) ==
  /\ Runs(a)
  /\ holder[d] = a /\ \E e \in Coros \ {d} : holder[e] = a
  /\ holder' = [holder EXCEPT ![d] = NULL]
  /\ leaked' = leaked \cup {d}
  /\ UNCHANGED <<frame, caller, stack, phase, awaiters, unusual, fault, unconnected>>

-----------------------------------------------------------------------------
(* The end of a coroutine. *)

\* Mutants of Remains and Continuation: the frame stays when nobody waits for
\* it; the caller is forgotten; it is resumed without a look.
AlwaysDone(c)  == "done"
NobodyNext(c)  == Below
NoNullCheck(c) == Append(Below, caller[c])

\* FinalAwaiter: without a caller the frame destroys itself; with one it stays
\* for the caller's Task, and the caller runs on.
Remains(c) == IF caller[c] = NULL THEN "dead" ELSE "done"
Continuation(c) == IF caller[c] = NULL THEN Below ELSE Append(Below, caller[c])

\* The awaiter of c dies; its request, if pending, goes on.
AwaiterGone(c) ==
  /\ kind' = [kind EXCEPT ![c] = NULL]
  /\ event' = [event EXCEPT ![c] = "none"]
  /\ orphan' = (orphan \/ event[c] = "pending")
  /\ unusual' = [unusual EXCEPT ![c] = {}]
  /\ unconnected' = unconnected \ {c}

\* co_return destroys the locals, the Tasks among them, and an awaiter that
\* was kept.
Finish(c) ==
  LET held == {d \in Coros : holder[d] = c} IN
  /\ c \in Coros /\ Runs(c)
  /\ frame' = [d \in Coros |->
                 IF d \in held THEN "dead"
                 ELSE IF d = c THEN Remains(c)
                 ELSE IF d = caller[c] THEN "active" ELSE frame[d]]
  /\ holder' = [d \in Coros |-> IF d \in held THEN NULL ELSE holder[d]]
  /\ stack' = Continuation(c)
  /\ fault' = IF \E d \in held : frame[d] \in {"dead", "active"} THEN "frame" ELSE fault
  /\ AwaiterGone(c)
  /\ UNCHANGED <<caller, phase, leaked>>

-----------------------------------------------------------------------------
(* Awaiters. *)

\* The constructor starts the request.  The errors that uv_getaddrinfo and
\* uv_tcp_connect return at once are ignored: no callback comes.
Start(c, k) ==
  /\ c \in Coros /\ Runs(c)
  /\ kind[c] = NULL
  /\ kind' = [kind EXCEPT ![c] = k]
  /\ \E e \in {"pending"} \cup (IF k \in {"resolve", "connect"} THEN {"mute"} ELSE {}) :
       event' = [event EXCEPT ![c] = e]
  /\ UNCHANGED <<tasks, stack, phase, orphan, history>>

\* Mutants of Ready and Resumes: await_ready is always false; a callback
\* resumes the coroutine however the connect ended.
NeverReady(c) == FALSE
AlwaysResumes(c, outcome) == frame[c] = "suspended"

\* await_ready; sleep's await_resume clears ready_.
Ready(c) == \/ event[c] \in {"ready", "failed"}
            \/ event[c] = "spent" /\ kind[c] # "sleep"

\* Whether the callback resumes the coroutine; the one of connect returns early
\* when the connect failed.
Resumes(c, outcome) == frame[c] = "suspended" /\ outcome # "failed"

\* await_resume when the awaiter's state is e.  connect returns its client as a
\* stream, whatever became of it.
AwaitResume(c, e) ==
  /\ event' = [event EXCEPT ![c] = "spent"]
  /\ unconnected' = unconnected \cup
       (IF kind[c] = "connect" /\ e \in {"failed", "spent"} THEN {c} ELSE {})

\* co_await on the awaiter.
AwaitEvent(c) ==
  /\ c \in Coros /\ Runs(c)
  /\ kind[c] # NULL
  /\ unusual' = [unusual EXCEPT ![c] = @ \cup (IF event[c] = "spent" THEN {"again"} ELSE {})]
  /\ IF Ready(c)
     THEN AwaitResume(c, event[c]) /\ UNCHANGED <<frame, stack>>
     ELSE /\ frame' = [frame EXCEPT ![c] = "suspended"]
          /\ stack' = Below
          /\ UNCHANGED <<event, unconnected>>
  /\ UNCHANGED <<holder, caller, phase, kind, orphan, leaked, fault>>

DropAwaiter(c) ==
  /\ c \in Coros /\ Runs(c)
  /\ kind[c] # NULL
  /\ AwaiterGone(c)
  /\ UNCHANGED <<tasks, stack, phase, leaked, fault>>

-----------------------------------------------------------------------------
(* The loop. *)

Turning == fault = "none" /\ phase = "loop" /\ stack = << >>

\* The callback of a request, with what the coroutine sees first when the
\* callback resumes it.
Fire(c) ==
  /\ Turning
  /\ event[c] = "pending"
  /\ \E outcome \in {"ready"} \cup (IF kind[c] = "connect" THEN {"failed"} ELSE {}) :
       IF Resumes(c, outcome)
       THEN /\ AwaitResume(c, outcome)
            /\ frame' = [frame EXCEPT ![c] = "active"]
            /\ stack' = <<c>>
            /\ UNCHANGED unusual
       ELSE /\ event' = [event EXCEPT ![c] = outcome]
            /\ unusual' = [unusual EXCEPT
                 ![c] = @ \cup (IF frame[c] = "suspended" THEN {} ELSE {"kept"})]
            /\ UNCHANGED <<frame, stack, unconnected>>
  /\ UNCHANGED <<holder, caller, phase, kind, orphan, leaked, fault>>

\* The callback of a request whose awaiter is gone writes to it.
FireOrphan ==
  /\ Turning
  /\ orphan
  /\ fault' = "orphan"
  /\ UNCHANGED <<tasks, stack, phase, awaiters, unusual, leaked, unconnected>>

\* uv_run returns when nothing is pending, and block_on with it.
LoopEnds ==
  /\ Turning
  /\ ~orphan /\ \A c \in Coros : event[c] # "pending"
  /\ phase' = "over"
  /\ UNCHANGED <<tasks, stack, awaiters, history>>

-----------------------------------------------------------------------------
Actors == Coros \cup {Main}

TaskStep(a) ==
  \E d \in Coros : \/ Create(a, d) \/ Await(a, d) \/ Spawn(a, d)
                   \/ SpawnFunction(a, d) \/ DropTask(a, d) \/ Overwrite(a, d)

AwaiterStep(c) == \/ \E k \in Uses[c] : Start(c, k)
                  \/ AwaitEvent(c) \/ DropAwaiter(c)

Next ==
  \/ \E a \in Actors : TaskStep(a)
  \/ \E d \in Coros : BlockOn(d)
  \/ \E c \in Coros : AwaiterStep(c) \/ Finish(c) \/ Fire(c)
  \/ FireOrphan
  \/ LoopEnds

\* A coroutine that keeps running returns in the end, and requests that are
\* pending are answered; nothing makes a program call anything.
Fairness == \A c \in Coros : SF_vars(Finish(c)) /\ SF_vars(Fire(c))

Spec == Init /\ [][Next]_vars /\ Fairness

-----------------------------------------------------------------------------
(* Properties. *)

Started == {c \in Coros : frame[c] \in {"active", "waiting", "suspended"}}

\* The one coroutine for which a waiting coroutine waits.
IsCallee(c, d) == caller[d] = c /\ d \in Started /\ holder[d] = c

\* Task objects and caller_ account for every frame: none is destroyed twice or
\* while it runs, whatever is awaited, spawned, dropped or overwritten.  A coroutine that has not
\* started or is done has an owner that is still going on (or was overwritten);
\* one that has started either was taken, and destroys itself, or belongs to the
\* coroutine that waits for it; whoever waits, waits for exactly one.
FramesAccounted ==
  /\ fault # "frame"
  /\ \A d \in Coros \ leaked : frame[d] \in {"created", "done"} =>
       holder[d] \in Started \cup {Main} \/ fault # "none"
  /\ \A d \in Started : holder[d] = caller[d]
  /\ \A c \in Coros : frame[c] = "waiting" =>
       \E d \in Coros : IsCallee(c, d) /\ \A e \in Coros : IsCallee(c, e) => e = d
  /\ fault = "none" => \A c \in Coros : frame[c] = "active" <=> \E i \in 1..Len(stack) : stack[i] = c

\* Suspended on an awaiter that no callback will resume.
Stuck(c) == frame[c] = "suspended" /\ event[c] # "pending"

\* A suspended coroutine has an event to come.  The exceptions: a name lookup
\* that was refused, a connect that was refused or failed, and a sleep that is
\* awaited a second time.
SuspendedWillWake ==
  \A c \in Coros : Stuck(c) =>
    \/ kind[c] \in {"resolve", "connect"} /\ event[c] \in {"mute", "failed"}
    \/ kind[c] = "sleep" /\ event[c] = "spent" /\ "again" \in unusual[c]

\* connect gives out an unconnected stream only to who kept this very awaiter
\* while the connect failed, or awaited it twice: otherwise failure is silence.
StreamIsConnected == \A c \in unconnected : kind[c] = "connect" /\ unusual[c] # {}

\* The coroutines that are stuck, and those that wait for them.
StuckWithin[n \in Nat] ==
  IF n = 0 THEN {c \in Coros : Stuck(c)}
  ELSE StuckWithin[n - 1] \cup
       {c \in Coros : frame[c] = "waiting" /\ \E d \in StuckWithin[n - 1] : caller[d] = c}

\* A coroutine that started comes to its end, unless it or one it waits for is
\* stuck, once main runs the loop: requests that are answered resume it, and
\* callees return to it.
Finishes ==
  \A c \in Coros :
    c \in Started /\ phase = "loop" ~> c \notin Started \/ c \in StuckWithin[N] \/ fault # "none"
=============================================================================
