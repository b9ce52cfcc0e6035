-------------------------------- MODULE Latch --------------------------------
(***************************************************************************)
(* uvio::sync::Latch with the runtime around it.  Coroutines are spawned   *)
(* one after the other on the thread of the loop, the one that owns the    *)
(* latch last; each calls arrive_and_wait or wait, and after that runs to  *)
(* its end, where its frame and the awaiter in it are destroyed.           *)
(* Functions given to spawn(std::function) call count_down on a thread of  *)
(* the pool, their worker.  A step is one access to the atomics, or one    *)
(* resumption together with all the resumed coroutine does.                *)
(***************************************************************************)
EXTENDS Integers, FiniteSets

CONSTANTS Arriving,  \* the coroutines that call arrive_and_wait
          Waiting,   \* the coroutines that call wait
          Owner,     \* the one of them that has the latch in its frame
          Workers,   \* the functions that call count_down
          LOOP,      \* the thread of the loop
          NIL        \* no awaiter

Coroutines == Arriving \cup Waiting
Threads    == Workers \cup {LOOP}

ASSUME LatchAssumption ==
  /\ IsFiniteSet(Arriving) /\ IsFiniteSet(Workers)
  /\ Arriving \cap Waiting = {}
  /\ Owner \in Coroutines
  /\ LOOP \notin Workers
  /\ NIL \notin Coroutines \cup Threads

\* The latch is made for as many arrivals as there will be.
Expected == Cardinality(Arriving) + Cardinality(Workers)

VARIABLES
  expected,  \* expected_
  head,      \* head_
  next,      \* next_ of each coroutine's awaiter
  status,    \* each coroutine: "new", "running", "suspended", "done"
  at,        \* what each thread does next
  who,       \* the coroutine that the loop runs
  cursor,    \* head in each thread's notify_all
  last,      \* history: the thread whose count_down reached zero
  stale,     \* history: notify_all has read the next_ of a destroyed awaiter
  fault      \* what made the rest undefined: "next", that next_ was overwritten;
             \* "double", a coroutine was resumed that was not suspended, or was
             \* while it looked again; "gone", the latch was used when destroyed

vars == <<expected, head, next, status, at, who, cursor, last, stale, fault>>

Labels == {"idle", "down", "notify", "walk", "next", "ready", "push", "recheck"}

TypeOK ==
  /\ expected \in 0..Expected
  /\ head \in Coroutines \cup {NIL}
  /\ next \in [Coroutines -> Coroutines \cup {NIL}]
  /\ status \in [Coroutines -> {"new", "running", "suspended", "done"}]
  /\ at \in [Threads -> Labels]
  /\ who \in Coroutines \cup {NIL}
  /\ cursor \in [Threads -> Coroutines \cup {NIL}]
  /\ last \in Threads \cup {NIL}
  /\ stale \in BOOLEAN /\ fault \in {"none", "next", "double", "gone"}

Init ==
  /\ expected = Expected /\ head = NIL
  /\ next = [c \in Coroutines |-> NIL]
  /\ status = [c \in Coroutines |-> "new"]
  /\ at = [t \in Threads |-> IF t = LOOP THEN "idle" ELSE "down"]
  /\ who = NIL
  /\ cursor = [t \in Threads |-> NIL]
  /\ last = NIL /\ stale = FALSE /\ fault = "none"

Goto(t, l) == at' = [at EXCEPT ![t] = l]

\* The latch is destroyed with the frame of its owner.
Gone == status[Owner] = "done"

\* A step of thread t at l that uses the latch.
AtLatch(t, l) == at[t] = l /\ fault = "none" /\ ~Gone

\* The next step of thread t uses what does not exist any more.
Break(t) ==
  /\ fault = "none"
  /\ \/ /\ at[t] \in {"down", "notify", "ready", "push", "recheck"} /\ Gone
        /\ fault' = "gone"
     \/ /\ \/ at[t] = "recheck" /\ status[who] # "suspended"
           \/ at[t] = "walk" /\ cursor[t] # NIL /\ status[cursor[t]] # "suspended"
        /\ fault' = "double"
     \/ /\ at[t] = "next" /\ status[cursor[t]] = "done"
        /\ fault' = "next"
  /\ UNCHANGED <<expected, head, next, status, at, who, cursor, last, stale>>

-----------------------------------------------------------------------------

\* The loop starts a coroutine.
Start(c) ==
  /\ at[LOOP] = "idle" /\ fault = "none"
  /\ status[c] = "new"
  /\ c = Owner => \A d \in Coroutines \ {Owner} : status[d] # "new"
  /\ status' = [status EXCEPT ![c] = "running"]
  /\ who' = c
  /\ Goto(LOOP, IF c \in Arriving THEN "down" ELSE "ready")
  /\ UNCHANGED <<expected, head, next, cursor, last, stale, fault>>

\* Mutant of AfterDown: a function counts down again.
AfterDownAgain(t) == IF t = LOOP THEN "ready" ELSE "down"

\* What a thread does after count_down: arrive_and_wait goes on to wait.
AfterDown(t) == IF t = LOOP THEN "ready" ELSE "idle"

\* Mutant of CountDown: it notifies one arrival too early.
CountDownEarly(t) ==
  /\ AtLatch(t, "down")
  /\ expected' = expected - 1
  /\ Goto(t, IF expected <= 2 THEN "notify" ELSE AfterDown(t))
  /\ last' = IF expected = 1 THEN t ELSE last
  /\ UNCHANGED <<head, next, status, who, cursor, stale, fault>>

\* count_down: fetch_sub, and notify_all if it was the last.
CountDown(t) ==
  /\ AtLatch(t, "down")
  /\ expected' = expected - 1
  /\ Goto(t, IF expected = 1 THEN "notify" ELSE AfterDown(t))
  /\ last' = IF expected = 1 THEN t ELSE last
  /\ UNCHANGED <<head, next, status, who, cursor, stale, fault>>

Notify(t) ==
  /\ AtLatch(t, "notify")
  /\ cursor' = [cursor EXCEPT ![t] = head]
  /\ Goto(t, "walk")
  /\ UNCHANGED <<expected, head, next, status, who, last, stale, fault>>

\* handle_.resume(): the coroutine runs to its end.
Resume(t) ==
  /\ at[t] = "walk" /\ fault = "none"
  /\ cursor[t] # NIL /\ status[cursor[t]] = "suspended"
  /\ status' = [status EXCEPT ![cursor[t]] = "done"]
  /\ Goto(t, "next")
  /\ UNCHANGED <<expected, head, next, who, cursor, last, stale, fault>>

\* head = head->next_, which the freed memory may still hold.
Step(t) ==
  /\ at[t] = "next" /\ fault = "none"
  /\ cursor' = [cursor EXCEPT ![t] = next[cursor[t]]]
  /\ Goto(t, "walk")
  /\ stale' = (stale \/ status[cursor[t]] = "done")
  /\ UNCHANGED <<expected, head, next, status, who, last, fault>>

EndWalk(t) ==
  /\ at[t] = "walk" /\ fault = "none"
  /\ cursor[t] = NIL
  /\ Goto(t, AfterDown(t))
  /\ UNCHANGED <<expected, head, next, status, who, cursor, last, stale, fault>>

\* Mutant of TryWait: off by one.
TryWaitEarly == expected <= 1

TryWait == expected = 0

\* The coroutine goes on past its wait, to its end.
GoOn ==
  /\ status' = [status EXCEPT ![who] = "done"]
  /\ who' = NIL
  /\ Goto(LOOP, "idle")

AwaitReady ==
  /\ AtLatch(LOOP, "ready")
  /\ \/ TryWait /\ GoOn
     \/ ~TryWait /\ Goto(LOOP, "push") /\ UNCHANGED <<status, who>>
  /\ UNCHANGED <<expected, head, next, cursor, last, stale, fault>>

\* await_suspend puts the awaiter at the head of the list.
Push ==
  /\ AtLatch(LOOP, "push")
  /\ status' = [status EXCEPT ![who] = "suspended"]
  /\ next' = [next EXCEPT ![who] = head]
  /\ head' = who
  /\ Goto(LOOP, "recheck")
  /\ UNCHANGED <<expected, who, cursor, last, stale, fault>>

\* Mutant of Recheck: await_suspend does not look again.
RecheckNot ==
  /\ AtLatch(LOOP, "recheck") /\ status[who] = "suspended"
  /\ Goto(LOOP, "idle") /\ who' = NIL
  /\ UNCHANGED <<expected, head, next, status, cursor, last, stale, fault>>

\* It looks again, and goes on if the count was reached meanwhile.
Recheck ==
  /\ AtLatch(LOOP, "recheck") /\ status[who] = "suspended"
  /\ \/ TryWait /\ GoOn
     \/ ~TryWait /\ Goto(LOOP, "idle") /\ who' = NIL /\ UNCHANGED status
  /\ UNCHANGED <<expected, head, next, cursor, last, stale, fault>>

-----------------------------------------------------------------------------

ThreadStep(t) ==
  CountDown(t) \/ Notify(t) \/ Resume(t) \/ Step(t) \/ EndWalk(t) \/ Break(t)

LoopStep == AwaitReady \/ Push \/ Recheck \/ \E c \in Coroutines : Start(c)

Next == LoopStep \/ \E t \in Threads : ThreadStep(t)

Spec ==
  /\ Init /\ [][Next]_vars
  /\ WF_vars(LoopStep)
  /\ \A t \in Threads : WF_vars(ThreadStep(t))

-----------------------------------------------------------------------------
(* Properties. *)

\* Nobody passes the latch before the last arrival.
NobodyEarly == \A c \in Coroutines : status[c] = "done" => expected = 0

\* If the last arrival is on the thread of the loop, no coroutine is resumed
\* twice and nothing destroyed is used, except the next_ of a resumed awaiter.
LoopIsSafe == last \in {NIL, LOOP} => fault \in {"none", "next"}

\* No wakeup is lost between the check of a waiter and the walk of a notifier:
\* all pass in the end.
AllPass == <>(fault # "none" \/ \A c \in Coroutines : status[c] = "done")

\* What the test does with the latch is defined: notify_all reads awaiters
\* that exist.
NextIsAlive == ~stale
=============================================================================
