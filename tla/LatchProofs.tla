------------------------------ MODULE LatchProofs ------------------------------
(***************************************************************************)
(* Theorems about Latch, for all finite sets of coroutines that arrive and *)
(* of functions on the pool, and any set of coroutines that only wait.     *)
(***************************************************************************)
EXTENDS Latch, FiniteSetTheorems, TLAPS

-----------------------------------------------------------------------------
(* The count: who has still to arrive. *)

OwingWorkers    == {w \in Workers : at[w] = "down"}
OwingCoroutines == {c \in Arriving : status[c] = "new" \/ (c = who /\ at[LOOP] = "down")}

\* The types, and expected_ is the number of arrivals to come.
CountOK ==
  /\ expected \in Int
  /\ expected = Cardinality(OwingWorkers) + Cardinality(OwingCoroutines)

\* The types of all but the count.
RestTypes ==
  /\ head \in Coroutines \cup {NIL}
  /\ next \in [Coroutines -> Coroutines \cup {NIL}]
  /\ status \in [Coroutines -> {"new", "running", "suspended", "done"}]
  /\ at \in [Threads -> Labels]
  /\ who \in Coroutines \cup {NIL}
  /\ cursor \in [Threads -> Coroutines \cup {NIL}]
  /\ last \in Threads \cup {NIL}
  /\ stale \in BOOLEAN /\ fault \in {"none", "next", "double", "gone"}

Walking == {"notify", "walk", "next"}

\* Where the loop is, and the coroutine it runs.
LoopOK ==
  /\ at[LOOP] = "idle" <=> who = NIL
  /\ at[LOOP] \notin {"idle", "recheck"} => status[who] = "running"
  /\ at[LOOP] = "down" => who \in Arriving
  /\ \A c \in Coroutines : status[c] = "running" => c = who
  /\ \A w \in Workers : at[w] \in {"down", "idle"} \cup Walking

\* Only the thread that counted down to zero notifies, and nobody has passed
\* before.
ZeroOK ==
  /\ \A t \in Threads : at[t] \in Walking => last = t
  /\ last # NIL => expected = 0
  /\ \A t \in Threads : at[t] = "next" => cursor[t] # NIL
  /\ \A c \in Coroutines : status[c] = "done" => expected = 0

LatchInv == CountOK /\ RestTypes /\ LoopOK /\ ZeroOK

LEMMA FiniteOwing ==
  /\ IsFiniteSet(OwingWorkers) /\ IsFiniteSet(OwingCoroutines)
  /\ Cardinality(OwingWorkers) \in 0..Cardinality(Workers)
  /\ Cardinality(OwingCoroutines) \in 0..Cardinality(Arriving)
<1>1. OwingWorkers \subseteq Workers /\ OwingCoroutines \subseteq Arriving
  BY DEF OwingWorkers, OwingCoroutines
<1>2. /\ IsFiniteSet(OwingWorkers) /\ Cardinality(OwingWorkers) <= Cardinality(Workers)
      /\ IsFiniteSet(OwingCoroutines) /\ Cardinality(OwingCoroutines) <= Cardinality(Arriving)
  BY <1>1, LatchAssumption, FS_Subset
<1>3. /\ Cardinality(OwingWorkers) \in Nat /\ Cardinality(OwingCoroutines) \in Nat
      /\ Cardinality(Workers) \in Nat /\ Cardinality(Arriving) \in Nat
  BY <1>2, LatchAssumption, FS_CardinalityType
<1>. QED
  BY <1>2, <1>3

LEMMA CountTypes == LatchInv => TypeOK /\ NobodyEarly
<1> SUFFICES ASSUME LatchInv PROVE TypeOK /\ NobodyEarly
  OBVIOUS
<1>1. expected \in 0..Expected
  <2>1. Cardinality(Workers) \in Nat /\ Cardinality(Arriving) \in Nat
    BY LatchAssumption, FS_CardinalityType
  <2>. QED
    BY <2>1, FiniteOwing DEF LatchInv, CountOK, Expected
<1>. QED
  BY <1>1 DEF LatchInv, RestTypes, ZeroOK, TypeOK, NobodyEarly

LEMMA InitCount == Init => LatchInv
<1> SUFFICES ASSUME Init PROVE LatchInv
  OBVIOUS
<1>. USE LatchAssumption DEF Init, Coroutines, Threads
<1>1. OwingWorkers = Workers /\ OwingCoroutines = Arriving
  BY DEF OwingWorkers, OwingCoroutines
<1>2. CountOK
  BY <1>1, FS_CardinalityType DEF CountOK, Expected
<1>3. RestTypes
  BY DEF RestTypes, Labels
<1>4. LoopOK /\ ZeroOK
  BY DEF LoopOK, ZeroOK, Walking
<1>. QED
  BY <1>2, <1>3, <1>4 DEF LatchInv

\* Whoever is about to count down is owing, and the count is not zero.
LEMMA CountDownCounts ==
  ASSUME LatchInv, NEW t \in Threads, CountDown(t)
  PROVE  CountOK' /\ expected >= 1
<1>. USE DEF LatchInv
<1>1. /\ at[t] = "down" /\ expected' = expected - 1 /\ UNCHANGED <<status, who>>
      /\ \A s \in Threads \ {t} : at'[s] = at[s]
      /\ at'[t] # "down"
  BY DEF CountDown, AtLatch, Goto, RestTypes, AfterDown
<1>2. CASE t = LOOP
  <2>1. who \in OwingCoroutines
    BY <1>1, <1>2 DEF LoopOK, OwingCoroutines
  <2>2. OwingWorkers' = OwingWorkers
    BY <1>1, <1>2, LatchAssumption DEF OwingWorkers, Threads
  <2>3. OwingCoroutines' = OwingCoroutines \ {who}
    BY <1>1, <1>2, <2>1 DEF OwingCoroutines, LoopOK
  <2>4. Cardinality(OwingCoroutines \ {who}) = Cardinality(OwingCoroutines) - 1
    BY <2>1, FiniteOwing, FS_RemoveElement
  <2>5. Cardinality(OwingCoroutines \ {who}) \in Nat
    BY FiniteOwing, FS_RemoveElement, FS_CardinalityType
  <2>. QED
    BY <1>1, <2>2, <2>3, <2>4, <2>5, FiniteOwing DEF CountOK
<1>3. CASE t # LOOP
  <2>1. t \in OwingWorkers
    BY <1>1, <1>3 DEF OwingWorkers, Threads
  <2>2. OwingCoroutines' = OwingCoroutines
    BY <1>1, <1>3 DEF OwingCoroutines, Threads
  <2>3. OwingWorkers' = OwingWorkers \ {t}
    BY <1>1, <2>1 DEF OwingWorkers, Threads
  <2>4. Cardinality(OwingWorkers \ {t}) = Cardinality(OwingWorkers) - 1
    BY <2>1, FiniteOwing, FS_RemoveElement
  <2>5. Cardinality(OwingWorkers \ {t}) \in Nat
    BY FiniteOwing, FS_RemoveElement, FS_CardinalityType
  <2>. QED
    BY <1>1, <2>2, <2>3, <2>4, <2>5, FiniteOwing DEF CountOK
<1>. QED
  BY <1>2, <1>3

\* Any other step leaves the count and those who owe.
LEMMA OthersKeepCount ==
  ASSUME CountOK, UNCHANGED expected,
         OwingWorkers' = OwingWorkers, OwingCoroutines' = OwingCoroutines
  PROVE  CountOK'
BY DEF CountOK

LEMMA CountDownStep ==
  ASSUME LatchInv, NEW t \in Threads, CountDown(t)
  PROVE  LatchInv'
<1>. USE DEF LatchInv
<1>1. /\ at[t] = "down" /\ expected' = expected - 1
      /\ at' = [at EXCEPT ![t] = IF expected = 1 THEN "notify" ELSE AfterDown(t)]
      /\ last' = IF expected = 1 THEN t ELSE last
      /\ UNCHANGED <<head, next, status, who, cursor, stale, fault>>
      /\ AfterDown(t) = IF t = LOOP THEN "ready" ELSE "idle"
  BY DEF CountDown, AtLatch, Goto, AfterDown
<1>2. CountOK' /\ expected >= 1
  BY CountDownCounts
<1>3. RestTypes'
  BY <1>1 DEF RestTypes, Labels
<1>4. LoopOK'
  BY <1>1, LatchAssumption DEF LoopOK, RestTypes, Walking, Threads
<1>5. expected \in Int
  BY DEF CountOK
<1>6. ZeroOK'
  <2>1. \A s \in Threads : at[s] \notin Walking
    BY <1>2, LatchAssumption DEF ZeroOK
  <2>2. ASSUME NEW s \in Threads, at'[s] \in Walking PROVE s = t /\ expected = 1
    BY <1>1, <2>1, <2>2 DEF RestTypes, Walking
  <2>3. last' # NIL => expected' = 0
    BY <1>1, <1>2, <1>5 DEF ZeroOK
  <2>4. \A c \in Coroutines : status'[c] # "done"
    BY <1>1, <1>2 DEF ZeroOK
  <2>5. \A s \in Threads : at'[s] # "next"
    BY <1>1, <2>1 DEF RestTypes, Walking
  <2>. QED
    BY <1>1, <2>2, <2>3, <2>4, <2>5 DEF ZeroOK
<1>. QED
  BY <1>2, <1>3, <1>4, <1>6

LEMMA WalkStep ==
  ASSUME LatchInv, NEW t \in Threads, Notify(t) \/ Resume(t) \/ Step(t) \/ EndWalk(t) \/ Break(t)
  PROVE  LatchInv'
<1>. USE DEF LatchInv
<1>1. CASE Break(t)
  <2>1. UNCHANGED <<expected, head, next, status, at, who, cursor, last, stale>> /\ fault' \in {"gone", "double", "next"}
    BY <1>1 DEF Break
  <2>. QED
    BY <2>1 DEF CountOK, RestTypes, LoopOK, ZeroOK, OwingWorkers, OwingCoroutines
<1>2. CASE Notify(t) \/ Resume(t) \/ Step(t) \/ EndWalk(t)
  <2>1. /\ at[t] \in Walking /\ UNCHANGED <<expected, head, next, who, last, fault>>
        /\ at' = [at EXCEPT ![t] = at'[t]]
        /\ at'[t] \in {"walk", "next", AfterDown(t)}
        /\ at'[t] = "next" => cursor'[t] # NIL
        /\ cursor' \in [Threads -> Coroutines \cup {NIL}] /\ \A s \in Threads \ {t} : cursor'[s] = cursor[s]
        /\ stale' \in BOOLEAN
        /\ \/ UNCHANGED status
           \/ \E c \in Coroutines : status[c] = "suspended" /\ status' = [status EXCEPT ![c] = "done"]
    <3>1. CASE Notify(t)
      BY <1>2, <3>1 DEF Notify, AtLatch, Goto, RestTypes, Walking
    <3>2. CASE Resume(t)
      BY <1>2, <3>2 DEF Resume, Goto, RestTypes, Walking
    <3>3. CASE Step(t)
      <4>1. cursor[t] # NIL
        BY <3>3 DEF Step, ZeroOK
      <4>. QED
        BY <1>2, <3>3, <4>1 DEF Step, Goto, RestTypes, Walking
    <3>4. CASE EndWalk(t)
      BY <1>2, <3>4 DEF EndWalk, Goto, RestTypes, Walking, AfterDown
    <3>. QED
      BY <1>2, <3>1, <3>2, <3>3, <3>4
  <2>2. last = t /\ expected = 0
    BY <2>1, LatchAssumption DEF ZeroOK, Threads
  <2>3. AfterDown(t) = IF t = LOOP THEN "ready" ELSE "idle"
    BY DEF AfterDown
  <2>4. at[t] # "down" /\ at'[t] # "down"
    BY <2>1, <2>3 DEF Walking
  <2>5. CountOK'
    <3>1. OwingWorkers' = OwingWorkers
      BY <2>1, <2>4 DEF OwingWorkers, RestTypes, Threads
    <3>2. OwingCoroutines' = OwingCoroutines
      BY <2>1, <2>4 DEF OwingCoroutines, RestTypes, Threads, Coroutines
    <3>. QED
      BY <2>1, <3>1, <3>2, OthersKeepCount
  <2>6. RestTypes'
    BY <2>1, <2>3 DEF RestTypes, Labels
  <2>7. LoopOK'
    BY <2>1, <2>3, LatchAssumption DEF LoopOK, RestTypes, Walking, Threads, Coroutines
  <2>8. ZeroOK'
    BY <2>1, <2>2, <2>3 DEF ZeroOK, RestTypes, Walking
  <2>. QED
    BY <2>5, <2>6, <2>7, <2>8
<1>. QED
  BY <1>1, <1>2

LEMMA StartStep ==
  ASSUME LatchInv, NEW c \in Coroutines, Start(c)
  PROVE  LatchInv'
<1>. USE DEF LatchInv
<1>1. /\ at[LOOP] = "idle" /\ status[c] = "new" /\ who' = c
      /\ status' = [status EXCEPT ![c] = "running"]
      /\ at' = [at EXCEPT ![LOOP] = IF c \in Arriving THEN "down" ELSE "ready"]
      /\ UNCHANGED <<expected, head, next, cursor, last, stale, fault>>
      /\ c # NIL /\ LOOP \in Threads
  BY LatchAssumption DEF Start, Goto, Threads
<1>2. CountOK'
  <2>1. OwingWorkers' = OwingWorkers
    BY <1>1, LatchAssumption DEF OwingWorkers, RestTypes, Threads
  <2>2. OwingCoroutines' = OwingCoroutines
    BY <1>1 DEF OwingCoroutines, RestTypes, Coroutines
  <2>. QED
    BY <1>1, <2>1, <2>2, OthersKeepCount
<1>3. RestTypes'
  BY <1>1 DEF RestTypes, Labels
<1>4. LoopOK'
  BY <1>1, LatchAssumption DEF LoopOK, RestTypes, Walking, Threads
<1>5. ZeroOK'
  BY <1>1 DEF ZeroOK, RestTypes, Walking
<1>. QED
  BY <1>2, <1>3, <1>4, <1>5

\* await_ready and await_suspend.
LEMMA WaitStep ==
  ASSUME LatchInv, AwaitReady \/ Push \/ Recheck
  PROVE  LatchInv'
<1>. USE DEF LatchInv
<1>1. /\ at[LOOP] \in {"ready", "push", "recheck"} /\ LOOP \in Threads
      /\ UNCHANGED <<expected, cursor, last, stale, fault>>
  BY DEF AwaitReady, Push, Recheck, AtLatch, Threads
<1>2. who \in Coroutines /\ status[who] \in {"running", "suspended"}
      /\ (status[who] = "running" <=> at[LOOP] # "recheck")
  BY <1>1 DEF LoopOK, RestTypes, Recheck, AwaitReady, Push, AtLatch
<1>3. \/ /\ at' = [at EXCEPT ![LOOP] = "idle"] /\ who' = NIL /\ UNCHANGED <<head, next>>
         /\ \/ status' = [status EXCEPT ![who] = "done"] /\ expected = 0
            \/ UNCHANGED status /\ at[LOOP] = "recheck"
      \/ at' = [at EXCEPT ![LOOP] = "push"] /\ UNCHANGED <<head, next, status, who>> /\ at[LOOP] = "ready"
      \/ /\ at' = [at EXCEPT ![LOOP] = "recheck"] /\ UNCHANGED who
         /\ status' = [status EXCEPT ![who] = "suspended"]
         /\ next' = [next EXCEPT ![who] = head] /\ head' = who
  <2>1. CASE AwaitReady
    BY <2>1 DEF AwaitReady, GoOn, Goto, TryWait, AtLatch
  <2>2. CASE Push
    BY <2>2 DEF Push, Goto
  <2>3. CASE Recheck
    BY <2>3 DEF Recheck, GoOn, Goto, TryWait, AtLatch
  <2>. QED
    BY <2>1, <2>2, <2>3
<1>4. CountOK'
  <2>1. OwingWorkers' = OwingWorkers
    BY <1>3, LatchAssumption DEF OwingWorkers, RestTypes, Threads
  <2>2. OwingCoroutines' = OwingCoroutines
    BY <1>1, <1>2, <1>3 DEF OwingCoroutines, RestTypes, Coroutines
  <2>. QED
    BY <1>1, <2>1, <2>2, OthersKeepCount
<1>5. RestTypes'
  BY <1>1, <1>2, <1>3 DEF RestTypes, Labels
<1>6. LoopOK'
  BY <1>1, <1>2, <1>3, LatchAssumption DEF LoopOK, RestTypes, Walking, Threads
<1>7. ZeroOK'
  BY <1>1, <1>2, <1>3 DEF ZeroOK, RestTypes, Walking
<1>. QED
  BY <1>4, <1>5, <1>6, <1>7

LEMMA NextCount == LatchInv /\ [Next]_vars => LatchInv'
<1> SUFFICES ASSUME LatchInv, [Next]_vars PROVE LatchInv'
  OBVIOUS
<1>1. CASE UNCHANGED vars
  BY <1>1 DEF vars, LatchInv, CountOK, RestTypes, LoopOK, ZeroOK, OwingWorkers, OwingCoroutines
<1>. QED
  BY <1>1, CountDownStep, WalkStep, StartStep, WaitStep DEF Next, LoopStep, ThreadStep

LEMMA CountInvariant == Spec => []LatchInv
<1>1. Init => LatchInv
  BY InitCount
<1>2. LatchInv /\ [Next]_vars => LatchInv'
  BY NextCount
<1>. QED
  BY <1>1, <1>2, PTL DEF Spec

\* Every variable has its type; the count stays between zero and the arrivals
\* expected.
THEOREM TypeCorrect == Spec => []TypeOK
<1>1. LatchInv => TypeOK
  BY CountTypes
<1>. QED
  BY <1>1, CountInvariant, PTL

\* Nobody passes the latch before the last arrival.
THEOREM PassedAfterLast == Spec => []NobodyEarly
<1>1. LatchInv => NobodyEarly
  BY CountTypes
<1>. QED
  BY <1>1, CountInvariant, PTL

-----------------------------------------------------------------------------
(* The loop is safe when it has the last arrival. *)

Safe == last \in {NIL, LOOP}

\* The owner starts last: while another coroutine runs, the latch is there.
OwnerOK ==
  /\ \A c \in Coroutines : c # Owner /\ status[c] = "new" => status[Owner] = "new"
  /\ who # NIL /\ who # Owner => status[Owner] = "new"

\* Who pushes its awaiter has seen a count that nobody on the pool brings to zero.
PushOK ==
  /\ at[LOOP] \in {"push", "recheck"} => expected # 0
  /\ at[LOOP] = "recheck" => status[who] = "suspended"

\* The list has an end: r falls along it.
Falls(r) == \A c \in Coroutines : next[c] # NIL => r[next[c]] < r[c]

\* All on the list are suspended.
Listed == /\ head # NIL => status[head] = "suspended"
          /\ \A c \in Coroutines : next[c] # NIL => status[next[c]] = "suspended"

\* The walk has left those behind the cursor alone.
Ahead(r) == \A c \in Coroutines :
  next[c] # NIL /\ r[c] <= r[cursor[LOOP]] => status[next[c]] = "suspended"

ListOK(r) ==
  /\ Falls(r)
  /\ expected # 0 \/ at[LOOP] = "notify" => Listed
  /\ at[LOOP] = "walk" /\ cursor[LOOP] # NIL => status[cursor[LOOP]] = "suspended"
  /\ at[LOOP] \in {"walk", "next"} /\ cursor[LOOP] # NIL => Ahead(r)

SafeInv ==
  /\ OwnerOK
  /\ Safe => PushOK /\ (\E r \in [Coroutines -> Nat] : ListOK(r)) /\ fault \in {"none", "next"}

LEMMA InitSafe == Init => SafeInv
<1> SUFFICES ASSUME Init PROVE SafeInv
  OBVIOUS
<1>. USE LatchAssumption DEF Init, Coroutines, Threads
<1>1. OwnerOK /\ PushOK
  BY DEF OwnerOK, PushOK
<1>. DEFINE r == [c \in Coroutines |-> 0]
<1>2. r \in [Coroutines -> Nat] /\ ListOK(r)
  BY DEF ListOK, Falls, Listed
<1>. QED
  BY <1>1, <1>2 DEF SafeInv

LEMMA OwnerStep ==
  ASSUME LatchInv, OwnerOK, [Next]_vars
  PROVE  OwnerOK'
<1>. USE LatchAssumption DEF LatchInv, RestTypes, Coroutines
<1>1. ASSUME NEW c \in Coroutines, Start(c) PROVE OwnerOK'
  <2>1. /\ status[c] = "new" /\ who' = c /\ status' = [status EXCEPT ![c] = "running"]
        /\ c = Owner => \A d \in Coroutines \ {Owner} : status[d] # "new"
    BY <1>1 DEF Start
  <2>. QED
    BY <2>1 DEF OwnerOK
<1>2. CASE AwaitReady \/ Push \/ Recheck
  <2>1. /\ who \in Coroutines /\ status[who] \in {"running", "suspended"}
    BY <1>2 DEF AwaitReady, Push, Recheck, AtLatch, LoopOK
  <2>2. /\ who' \in {who, NIL}
        /\ \E l \in {"running", "suspended", "done"} : status' = [status EXCEPT ![who] = l]
    <3>1. status = [status EXCEPT ![who] = status[who]]
      BY <2>1
    <3>. QED
      BY <1>2, <2>1, <3>1 DEF AwaitReady, Push, Recheck, GoOn
  <2>. QED
    BY <2>1, <2>2 DEF OwnerOK
<1>3. ASSUME NEW t \in Threads, ThreadStep(t) PROVE OwnerOK'
  <2>1. /\ UNCHANGED who
        /\ \/ UNCHANGED status
           \/ \E c \in Coroutines : status[c] = "suspended" /\ status' = [status EXCEPT ![c] = "done"]
    BY <1>3 DEF ThreadStep, CountDown, Notify, Resume, Step, EndWalk, Break
  <2>. QED
    BY <2>1 DEF OwnerOK
<1>4. CASE UNCHANGED vars
  BY <1>4 DEF vars, OwnerOK
<1>. QED
  BY <1>1, <1>2, <1>3, <1>4 DEF Next, LoopStep

\* A count that reaches zero on the pool stays there: no step leads back.
LEMMA SafeBefore ==
  ASSUME LatchInv, [Next]_vars, Safe'
  PROVE  Safe
<1>1. ASSUME NEW t \in Threads, CountDown(t) PROVE Safe
  <2>1. expected >= 1 /\ expected \in Int
    BY <1>1, CountDownCounts DEF LatchInv, CountOK
  <2>. QED
    BY <2>1 DEF LatchInv, ZeroOK, Safe
<1>2. UNCHANGED last => Safe
  BY DEF Safe
<1>. QED
  BY <1>1, <1>2
     DEF Next, LoopStep, ThreadStep, Start, AwaitReady, Push, Recheck,
         Notify, Resume, Step, EndWalk, Break, vars

\* What a step in the safe case leaves to prove.
SafeNow == PushOK /\ (\E r \in [Coroutines -> Nat] : ListOK(r)) /\ fault \in {"none", "next"}

\* Only the loop walks.
LEMMA LoopWalks ==
  ASSUME LatchInv, Safe, NEW t \in Threads, at[t] \in Walking
  PROVE  t = LOOP /\ expected = 0
BY LatchAssumption DEF LatchInv, ZeroOK, Safe, Threads

LEMMA SafeLoop ==
  ASSUME LatchInv, Safe, SafeNow, LoopStep
  PROVE  SafeNow'
<1>. USE LatchAssumption DEF LatchInv, RestTypes
<1>0. PICK r \in [Coroutines -> Nat] : ListOK(r)
  BY DEF SafeNow
<1>1. ASSUME NEW c \in Coroutines, Start(c) PROVE SafeNow'
  <2>1. /\ status[c] = "new" /\ status' = [status EXCEPT ![c] = "running"]
        /\ at[LOOP] = "idle" /\ at'[LOOP] \in {"down", "ready"}
        /\ UNCHANGED <<expected, head, next, cursor, fault>>
    BY <1>1 DEF Start, Goto, Threads
  <2>2. ListOK(r)'
    <3>1. Falls(r)'
      BY <1>0, <2>1 DEF ListOK, Falls
    <3>2. expected # 0 => Listed'
      BY <1>0, <2>1 DEF ListOK, Listed
    <3>. QED
      BY <2>1, <3>1, <3>2 DEF ListOK
  <2>3. PushOK'
    BY <2>1 DEF PushOK
  <2>. QED
    BY <2>1, <2>2, <2>3 DEF SafeNow
<1>2. CASE AwaitReady
  <2>1. /\ at[LOOP] = "ready" /\ UNCHANGED <<expected, head, next, cursor, fault>>
        /\ \/ expected = 0 /\ at'[LOOP] = "idle"
           \/ expected # 0 /\ at'[LOOP] = "push" /\ UNCHANGED status
    BY <1>2 DEF AwaitReady, AtLatch, GoOn, Goto, TryWait, Threads
  <2>2. ListOK(r)'
    <3>1. Falls(r)'
      BY <1>0, <2>1 DEF ListOK, Falls
    <3>2. expected # 0 => Listed'
      BY <1>0, <2>1 DEF ListOK, Listed
    <3>. QED
      BY <2>1, <3>1, <3>2 DEF ListOK
  <2>. QED
    BY <2>1, <2>2 DEF SafeNow, PushOK
<1>3. CASE Recheck
  <2>1. /\ at'[LOOP] = "idle" /\ UNCHANGED <<expected, head, next, status, cursor, fault>>
    BY <1>3 DEF Recheck, AtLatch, Goto, TryWait, Threads, SafeNow, PushOK
  <2>2. ListOK(r)'
    BY <1>0, <2>1 DEF ListOK, Falls, Listed
  <2>. QED
    BY <2>1, <2>2 DEF SafeNow, PushOK
<1>4. CASE Push
  <2>1. /\ who \in Coroutines /\ who # NIL /\ status[who] = "running"
        /\ at[LOOP] = "push" /\ at'[LOOP] = "recheck" /\ expected # 0
        /\ status' = [status EXCEPT ![who] = "suspended"]
        /\ next' = [next EXCEPT ![who] = head] /\ head' = who
        /\ UNCHANGED <<expected, who, cursor, fault>>
    BY <1>4 DEF Push, AtLatch, Goto, Threads, LoopOK, SafeNow, PushOK
  <2>2. Listed
    BY <1>0, <2>1 DEF ListOK
  <2>3. head # NIL => head \in Coroutines /\ head # who
    BY <2>1, <2>2 DEF Listed
  <2>4. PICK q \in [Coroutines -> Nat] : q = [r EXCEPT ![who] = IF head = NIL THEN 0 ELSE r[head] + 1]
    <3>1. (IF head = NIL THEN 0 ELSE r[head] + 1) \in Nat
      BY <2>3
    <3>. QED
      BY <3>1
  <2>5. Listed'
    BY <2>1, <2>2 DEF Listed
  <2>6. Falls(q)'
    <3>. SUFFICES ASSUME NEW c \in Coroutines, next'[c] # NIL PROVE q[next'[c]] < q[c]
      BY DEF Falls
    <3>1. CASE c = who
      BY <2>1, <2>3, <2>4, <3>1
    <3>2. CASE c # who
      <4>1. next'[c] = next[c] /\ next[c] \in Coroutines /\ next[c] # who /\ r[next[c]] < r[c]
        BY <1>0, <2>1, <2>2, <3>2 DEF Listed, ListOK, Falls
      <4>. QED
        BY <2>4, <3>2, <4>1
    <3>. QED
      BY <3>1, <3>2
  <2>7. ListOK(q)'
    BY <2>1, <2>5, <2>6 DEF ListOK
  <2>8. PushOK'
    BY <2>1 DEF PushOK
  <2>. QED
    BY <2>1, <2>7, <2>8 DEF SafeNow
<1>. QED
  BY <1>1, <1>2, <1>3, <1>4 DEF LoopStep

LEMMA SafeWalk ==
  ASSUME LatchInv, Safe, SafeNow, NEW t \in Threads, Notify(t) \/ Resume(t) \/ Step(t) \/ EndWalk(t)
  PROVE  SafeNow'
<1>. USE LatchAssumption DEF LatchInv, RestTypes, Threads
<1>0. PICK r \in [Coroutines -> Nat] : ListOK(r)
  BY DEF SafeNow
<1>1. t = LOOP /\ expected = 0 /\ UNCHANGED <<expected, head, next, fault>>
  BY LoopWalks DEF Notify, Resume, Step, EndWalk, AtLatch, Walking
<1>2. Falls(r) /\ Falls(r)'
  BY <1>0, <1>1 DEF ListOK, Falls
<1>3. CASE Notify(t)
  <2>1. /\ at[LOOP] = "notify" /\ at'[LOOP] = "walk" /\ cursor'[LOOP] = head /\ UNCHANGED status
    BY <1>1, <1>3 DEF Notify, AtLatch, Goto
  <2>2. Listed
    BY <1>0, <2>1 DEF ListOK
  <2>3. ListOK(r)'
    BY <1>1, <1>2, <2>1, <2>2 DEF ListOK, Listed, Ahead
  <2>. QED
    BY <1>1, <2>1, <2>3 DEF SafeNow, PushOK
<1>4. CASE Resume(t)
  <2>1. /\ at[LOOP] = "walk" /\ at'[LOOP] = "next" /\ cursor[LOOP] \in Coroutines /\ UNCHANGED cursor
        /\ status' = [status EXCEPT ![cursor[LOOP]] = "done"]
    BY <1>1, <1>4 DEF Resume, Goto
  <2>2. Ahead(r)
    BY <1>0, <2>1 DEF ListOK
  <2>3. Ahead(r)'
    <3>. SUFFICES ASSUME NEW c \in Coroutines, next[c] # NIL, r[c] <= r[cursor[LOOP]]
         PROVE  status'[next[c]] = "suspended"
      BY <1>1, <2>1 DEF Ahead
    <3>1. status[next[c]] = "suspended" /\ next[c] \in Coroutines /\ r[next[c]] < r[c]
      BY <1>2, <2>2 DEF Ahead, Falls
    <3>2. next[c] # cursor[LOOP]
      BY <2>1, <3>1
    <3>. QED
      BY <2>1, <3>1, <3>2
  <2>4. ListOK(r)'
    BY <1>1, <1>2, <2>1, <2>3 DEF ListOK
  <2>. QED
    BY <1>1, <2>1, <2>4 DEF SafeNow, PushOK
<1>5. CASE Step(t)
  <2>1. /\ at[LOOP] = "next" /\ at'[LOOP] = "walk" /\ cursor[LOOP] \in Coroutines
        /\ cursor'[LOOP] = next[cursor[LOOP]] /\ UNCHANGED status
    BY <1>1, <1>5 DEF Step, Goto, ZeroOK
  <2>2. Ahead(r)
    BY <1>0, <2>1 DEF ListOK
  <2>3. cursor'[LOOP] # NIL => /\ status[cursor'[LOOP]] = "suspended"
                               /\ cursor'[LOOP] \in Coroutines /\ r[cursor'[LOOP]] < r[cursor[LOOP]]
    BY <1>2, <2>1, <2>2 DEF Ahead, Falls
  <2>4. cursor'[LOOP] # NIL => Ahead(r)'
    <3>. SUFFICES ASSUME cursor'[LOOP] # NIL,
                         NEW c \in Coroutines, next[c] # NIL, r[c] <= r[cursor'[LOOP]]
         PROVE  status[next[c]] = "suspended"
      BY <1>1, <2>1 DEF Ahead
    <3>1. r[c] <= r[cursor[LOOP]]
      BY <2>1, <2>3
    <3>. QED
      BY <2>2, <3>1 DEF Ahead
  <2>5. ListOK(r)'
    BY <1>1, <1>2, <2>1, <2>3, <2>4 DEF ListOK
  <2>. QED
    BY <1>1, <2>1, <2>5 DEF SafeNow, PushOK
<1>6. CASE EndWalk(t)
  <2>1. at'[LOOP] = "ready" /\ UNCHANGED <<status, cursor>>
    BY <1>1, <1>6 DEF EndWalk, Goto, AfterDown
  <2>2. ListOK(r)'
    BY <1>1, <1>2, <2>1 DEF ListOK
  <2>. QED
    BY <1>1, <2>1, <2>2 DEF SafeNow, PushOK
<1>. QED
  BY <1>3, <1>4, <1>5, <1>6

LEMMA SafeDown ==
  ASSUME LatchInv, Safe', SafeNow, NEW t \in Threads, CountDown(t)
  PROVE  SafeNow'
<1>. USE LatchAssumption DEF LatchInv, RestTypes, Threads
<1>0. PICK r \in [Coroutines -> Nat] : ListOK(r)
  BY DEF SafeNow
<1>1. expected >= 1 /\ expected \in Int
  BY CountDownCounts DEF CountOK
<1>2. /\ at[t] = "down" /\ expected' = expected - 1 /\ UNCHANGED <<head, next, status, who, cursor, fault>>
      /\ last' = IF expected = 1 THEN t ELSE last
      /\ at' = [at EXCEPT ![t] = IF expected = 1 THEN "notify" ELSE AfterDown(t)]
      /\ AfterDown(t) = IF t = LOOP THEN "ready" ELSE "idle"
  BY DEF CountDown, AtLatch, Goto, AfterDown
<1>3. Listed' /\ Falls(r)'
  BY <1>0, <1>1, <1>2 DEF ListOK, Listed, Falls
<1>4. expected = 1 => t = LOOP
  BY <1>2 DEF Safe
<1>5. CASE t = LOOP
  <2>1. at'[LOOP] \in {"notify", "ready"}
    BY <1>2, <1>5
  <2>2. ListOK(r)'
    BY <1>3, <2>1 DEF ListOK
  <2>. QED
    BY <1>2, <2>1, <2>2 DEF SafeNow, PushOK
<1>6. CASE t # LOOP
  <2>1. at'[LOOP] = at[LOOP] /\ expected' # 0 /\ at[LOOP] \notin Walking
    BY <1>1, <1>2, <1>4, <1>6 DEF ZeroOK
  <2>2. ListOK(r)'
    BY <1>3, <2>1 DEF ListOK, Walking
  <2>. QED
    BY <1>2, <2>1, <2>2 DEF SafeNow, PushOK
<1>. QED
  BY <1>5, <1>6

\* Nothing but the next_ of a resumed awaiter is used after its end.
LEMMA SafeBreak ==
  ASSUME LatchInv, OwnerOK, Safe, SafeNow, NEW t \in Threads, Break(t)
  PROVE  SafeNow'
<1>. USE LatchAssumption DEF LatchInv, RestTypes, Threads
<1>0. PICK r \in [Coroutines -> Nat] : ListOK(r)
  BY DEF SafeNow
<1>1. UNCHANGED <<expected, head, next, status, at, who, cursor, last>>
  BY DEF Break
<1>2. ~(at[t] \in {"down", "notify", "ready", "push", "recheck"} /\ Gone)
  <2>. SUFFICES ASSUME at[t] \in {"down", "notify", "ready", "push", "recheck"}, status[Owner] = "done"
       PROVE  FALSE
    BY DEF Gone
  <2>1. expected = 0
    BY DEF ZeroOK, Coroutines
  <2>2. CASE t = LOOP
    <3>1. who # NIL /\ who = Owner
      BY <2>2 DEF LoopOK, OwnerOK
    <3>. QED
      BY <2>2, <3>1 DEF LoopOK, SafeNow, PushOK
  <2>3. CASE t # LOOP
    <3>1. at[t] # "notify"
      BY <2>3, LoopWalks DEF Walking
    <3>2. at[t] = "down"
      BY <2>3, <3>1 DEF LoopOK, Walking
    <3>3. t \in OwingWorkers
      BY <2>3, <3>2 DEF OwingWorkers
    <3>4. Cardinality(OwingWorkers) # 0
      BY <3>3, FiniteOwing, FS_EmptySet
    <3>. QED
      BY <2>1, <3>4, FiniteOwing DEF CountOK
  <2>. QED
    BY <2>2, <2>3
<1>3. ~(at[t] = "recheck" /\ status[who] # "suspended")
  BY DEF LoopOK, Walking, SafeNow, PushOK
<1>4. ~(at[t] = "walk" /\ cursor[t] # NIL /\ status[cursor[t]] # "suspended")
  BY <1>0, LoopWalks DEF Walking, ListOK
<1>5. fault' = "next"
  BY <1>2, <1>3, <1>4 DEF Break
<1>6. PushOK' /\ ListOK(r)'
  BY <1>0, <1>1 DEF SafeNow, PushOK, ListOK, Falls, Listed, Ahead
<1>. QED
  BY <1>5, <1>6 DEF SafeNow

LEMMA NextSafe == LatchInv /\ SafeInv /\ [Next]_vars => SafeInv'
<1> SUFFICES ASSUME LatchInv, SafeInv, [Next]_vars PROVE SafeInv'
  OBVIOUS
<1>1. OwnerOK'
  BY OwnerStep DEF SafeInv
<1>2. ASSUME Safe' PROVE SafeNow'
  <2>1. Safe /\ SafeNow /\ OwnerOK
    BY <1>2, SafeBefore DEF SafeInv, SafeNow
  <2>2. CASE UNCHANGED vars
    BY <2>1, <2>2 DEF vars, SafeNow, PushOK, ListOK, Falls, Listed, Ahead
  <2>. QED
    BY <1>2, <2>1, <2>2, SafeLoop, SafeWalk, SafeDown, SafeBreak DEF Next, ThreadStep
<1>. QED
  BY <1>1, <1>2 DEF SafeInv, SafeNow

\* With the last arrival on the loop, nobody is resumed twice and nothing
\* destroyed is used, except the next_ of a resumed awaiter.
THEOREM LoopNeverBreaks == Spec => []LoopIsSafe
<1>1. Init => SafeInv
  BY InitSafe
<1>2. LatchInv /\ SafeInv /\ [Next]_vars => SafeInv'
  BY NextSafe
<1>3. SafeInv => LoopIsSafe
  BY DEF SafeInv, Safe, LoopIsSafe
<1>. QED
  BY <1>1, <1>2, <1>3, CountInvariant, PTL DEF Spec
===============================================================================
