--------------------------- MODULE CoroutinesProofs ---------------------------
(***************************************************************************)
(* Theorems about Coroutines, for any number of coroutines and any         *)
(* awaiters they may use.                                                  *)
(***************************************************************************)
EXTENDS Coroutines, SequenceTheorems, TLAPS

-----------------------------------------------------------------------------
(* The native stack. *)

OnStack(s)  == {s[i] : i \in 1..Len(s)}
Distinct(s) == \A i, j \in 1..Len(s) : s[i] = s[j] => i = j

LEMMA PushStack ==
  ASSUME NEW s \in Seq(Coros), NEW d \in Coros
  PROVE  /\ Append(s, d) \in Seq(Coros)
         /\ OnStack(Append(s, d)) = OnStack(s) \cup {d}
         /\ Distinct(s) /\ d \notin OnStack(s) => Distinct(Append(s, d))
<1>. DEFINE t == Append(s, d)
<1>1. /\ t \in Seq(Coros) /\ Len(s) \in Nat /\ Len(t) = Len(s) + 1
      /\ t[Len(s) + 1] = d /\ \A i \in 1..Len(s) : t[i] = s[i]
  OBVIOUS
<1>2. 1..Len(t) = (1..Len(s)) \cup {Len(s) + 1}
  BY <1>1
<1>3. OnStack(t) = OnStack(s) \cup {d}
  <2>. HIDE DEF t
  <2>. QED
    BY <1>1, <1>2 DEF OnStack
<1>4. ASSUME Distinct(s), d \notin OnStack(s) PROVE Distinct(t)
  <2>. HIDE DEF t
  <2>1. ASSUME NEW i \in 1..Len(t), NEW j \in 1..Len(t), t[i] = t[j] PROVE i = j
    BY <1>1, <1>2, <1>4, <2>1 DEF Distinct, OnStack
  <2>. QED
    BY <2>1 DEF Distinct
<1>. QED
  BY <1>1, <1>3, <1>4

LEMMA PopStack ==
  ASSUME stack \in Seq(Coros), stack # << >>, Distinct(stack)
  PROVE  /\ Below \in Seq(Coros)
         /\ OnStack(Below) = OnStack(stack) \ {Top}
         /\ Distinct(Below)
         /\ Top \in OnStack(stack)
<1>1. /\ Len(stack) \in Nat /\ Len(stack) > 0
      /\ Below \in Seq(Coros) /\ Len(Below) = Len(stack) - 1
      /\ \A i \in 1..(Len(stack) - 1) : Below[i] = stack[i]
  <2>1. Len(stack) \in Nat /\ Len(stack) > 0
    OBVIOUS
  <2>2. \A i \in 1..(Len(stack) - 1) : stack[i] \in Coros
    BY <2>1
  <2>. DEFINE n == Len(stack) - 1
  <2>3. n \in Nat /\ n - 1 + 1 = n
    BY <2>1
  <2>4. /\ SubSeq(stack, 1, n) \in Seq(Coros)
        /\ Len(SubSeq(stack, 1, n)) = IF 1 <= n THEN n - 1 + 1 ELSE 0
        /\ \A i \in 1..(n - 1 + 1) : SubSeq(stack, 1, n)[i] = stack[1 + i - 1]
    <3>1. n \in Int /\ 1 \in Int /\ \A i \in 1..n : stack[i] \in Coros
      BY <2>2, <2>3
    <3>. HIDE DEF n
    <3>. QED
      BY <3>1, SubSeqProperties
  <2>5. /\ SubSeq(stack, 1, n) \in Seq(Coros)
        /\ Len(SubSeq(stack, 1, n)) = n
        /\ \A i \in 1..n : SubSeq(stack, 1, n)[i] = stack[i]
    <3>. HIDE DEF n
    <3>. QED
      BY <2>3, <2>4
  <2>. QED
    BY <2>1, <2>5 DEF Below
<1>2. 1..Len(stack) = (1..Len(Below)) \cup {Len(stack)} /\ Len(stack) \notin 1..Len(Below)
  BY <1>1
<1>. HIDE DEF Below
<1>3. OnStack(Below) = OnStack(stack) \ {Top}
  BY <1>1, <1>2 DEF OnStack, Top, Distinct
<1>4. Distinct(Below)
  BY <1>1, <1>2 DEF Distinct
<1>. QED
  BY <1>1, <1>2, <1>3, <1>4 DEF OnStack, Top

LEMMA EmptyStack == << >> \in Seq(Coros) /\ OnStack(<< >>) = {} /\ Distinct(<< >>)
  BY DEF OnStack, Distinct

LEMMA SingleStack ==
  ASSUME NEW c \in Coros
  PROVE  <<c>> \in Seq(Coros) /\ OnStack(<<c>>) = {c} /\ Distinct(<<c>>)
  BY DEF OnStack, Distinct

-----------------------------------------------------------------------------
(* Type correctness. *)

LEMMA InitTypes == Init => TypeOK
<1> SUFFICES ASSUME Init PROVE TypeOK
  OBVIOUS
<1>1. /\ frame \in [Coros -> Frames] /\ event \in [Coros -> Events]
      /\ fault \in Faults
  BY DEF Init, Frames, Events, Faults
<1>2. stack \in Seq(Coros)
  BY EmptyStack DEF Init
<1>. QED
  BY <1>1, <1>2 DEF Init, TypeOK

\* What has run is on the stack.
LEMMA BelowTypes ==
  ASSUME TypeOK, NEW c \in Coros, Runs(c)
  PROVE  stack # << >> /\ Top = c /\ Below \in Seq(Coros)
<1>1. stack # << >> /\ Top = c
  BY CorosAssumption DEF Runs, Actor
<1>2. Below \in Seq(Coros)
  <2>1. /\ stack \in Seq(Coros) /\ Len(stack) \in Nat /\ Len(stack) > 0
    BY <1>1 DEF TypeOK
  <2>2. \A i \in 1..(Len(stack) - 1) : stack[i] \in Coros
    BY <2>1
  <2>. QED
    BY <2>1, <2>2, SubSeqProperties DEF Below
<1>. QED
  BY <1>1, <1>2

LEMMA ResumeTypes ==
  ASSUME TypeOK, NEW d \in Coros, Resume(d)
  PROVE  frame' \in [Coros -> Frames] /\ stack' \in Seq(Coros) /\ fault' \in Faults
<1>1. CASE frame[d] = "created"
  <2>1. stack' \in Seq(Coros)
    <3>1. stack \in Seq(Coros) /\ stack' = Append(stack, d)
      BY <1>1 DEF TypeOK, Resume
    <3>. QED
      BY <3>1, PushStack
  <2>2. frame' \in [Coros -> Frames] /\ fault' = fault
    BY <1>1 DEF TypeOK, Resume, Frames
  <2>. QED
    BY <2>1, <2>2 DEF TypeOK
<1>2. CASE frame[d] # "created"
  BY <1>2 DEF TypeOK, Resume, Faults
<1>. QED
  BY <1>1, <1>2

LEMMA TaskTypes ==
  ASSUME TypeOK, NEW a \in Actors, TaskStep(a)
  PROVE  TypeOK'
<1>. USE DEF TypeOK, tasks, awaiters, history, Actors
<1>. PICK d \in Coros :
       \/ Create(a, d) \/ Await(a, d) \/ Spawn(a, d)
       \/ SpawnFunction(a, d) \/ DropTask(a, d) \/ Overwrite(a, d)
  BY DEF TaskStep
<1>1. CASE Create(a, d)
  BY <1>1 DEF Create, Frames
<1>2. CASE Await(a, d)
  <2>1. a \in Coros /\ Below \in Seq(Coros)
    BY <1>2, BelowTypes DEF Await
  <2>2. stack' \in Seq(Coros)
    BY <1>2, <2>1 DEF Await
  <2>3. frame' \in [Coros -> Frames] /\ caller' \in [Coros -> Coros \cup {NULL}]
    BY <1>2, <2>1 DEF Await, Frames
  <2>. QED
    BY <1>2, <2>2, <2>3 DEF Await
<1>3. CASE Spawn(a, d)
  BY <1>3, ResumeTypes DEF Spawn, Taken
<1>4. CASE SpawnFunction(a, d)
  BY <1>4 DEF SpawnFunction, Frames, Events, Faults, Kinds
<1>5. CASE DropTask(a, d)
  BY <1>5 DEF DropTask, Frames, Faults
<1>6. CASE Overwrite(a, d)
  BY <1>6 DEF Overwrite
<1>. QED
  BY <1>1, <1>2, <1>3, <1>4, <1>5, <1>6

LEMMA AwaiterTypes ==
  ASSUME TypeOK, NEW c \in Coros, AwaiterStep(c) \/ Fire(c)
  PROVE  TypeOK'
<1>. USE DEF TypeOK, tasks, awaiters, history
<1>1. ASSUME NEW k \in Uses[c], Start(c, k) PROVE TypeOK'
  <2>1. k \in Kinds
    BY CorosAssumption
  <2>2. event' \in [Coros -> Events]
    BY <1>1 DEF Start, Events
  <2>. QED
    BY <1>1, <2>1, <2>2 DEF Start
<1>2. CASE AwaitEvent(c)
  <2>1. CASE Ready(c)
    BY <1>2, <2>1 DEF AwaitEvent, AwaitResume, Events, Oddities
  <2>2. CASE ~Ready(c)
    BY <1>2, <2>2, BelowTypes DEF AwaitEvent, Frames, Oddities
  <2>. QED
    BY <2>1, <2>2
<1>3. CASE DropAwaiter(c)
  BY <1>3 DEF DropAwaiter, AwaiterGone, Events
<1>4. CASE Fire(c)
  <2>. PICK outcome \in {"ready", "failed"} :
         IF Resumes(c, outcome)
         THEN /\ AwaitResume(c, outcome)
              /\ frame' = [frame EXCEPT ![c] = "active"]
              /\ stack' = <<c>>
              /\ UNCHANGED unusual
         ELSE /\ event' = [event EXCEPT ![c] = outcome]
              /\ unusual' = [unusual EXCEPT
                   ![c] = @ \cup (IF frame[c] = "suspended" THEN {} ELSE {"kept"})]
              /\ UNCHANGED <<frame, stack, unconnected>>
    BY <1>4 DEF Fire
  <2>1. CASE Resumes(c, outcome)
    <3>1. AwaitResume(c, outcome) /\ frame' = [frame EXCEPT ![c] = "active"]
          /\ stack' = <<c>> /\ unusual' = unusual
      BY <2>1
    <3>2. event' \in [Coros -> Events] /\ frame' \in [Coros -> Frames]
      BY <3>1 DEF AwaitResume, Frames, Events
    <3>3. unconnected' \subseteq Coros
      BY <3>1 DEF AwaitResume
    <3>4. stack' \in Seq(Coros)
      BY <3>1, SingleStack
    <3>. QED
      BY <1>4, <3>1, <3>2, <3>3, <3>4 DEF Fire
  <2>2. CASE ~Resumes(c, outcome)
    BY <1>4, <2>2 DEF Fire, Events, Oddities
  <2>. QED
    BY <2>1, <2>2
<1>. QED
  BY <1>1, <1>2, <1>3, <1>4 DEF AwaiterStep

LEMMA FinishTypes ==
  ASSUME TypeOK, NEW c \in Coros, Finish(c)
  PROVE  TypeOK'
<1>. USE DEF TypeOK, tasks, awaiters, history
<1>1. stack' \in Seq(Coros)
  BY BelowTypes DEF Finish, Continuation
<1>2. frame' \in [Coros -> Frames]
  BY DEF Finish, Remains, Frames
<1>. QED
  BY <1>1, <1>2 DEF Finish, AwaiterGone, Faults, Events

LEMMA NextTypes == TypeOK /\ [Next]_vars => TypeOK'
<1> SUFFICES ASSUME TypeOK, [Next]_vars PROVE TypeOK'
  OBVIOUS
<1>. USE DEF TypeOK, tasks, awaiters, history
<1>1. ASSUME NEW d \in Coros, BlockOn(d) PROVE TypeOK'
  BY <1>1, ResumeTypes DEF BlockOn, Taken
<1>2. CASE FireOrphan
  BY <1>2 DEF FireOrphan, Faults
<1>3. CASE LoopEnds
  BY <1>3 DEF LoopEnds
<1>4. CASE UNCHANGED vars
  BY <1>4 DEF vars
<1>. QED
  BY <1>1, <1>2, <1>3, <1>4, TaskTypes, AwaiterTypes, FinishTypes DEF Next

\* Every variable has its type, for any number of coroutines.
THEOREM TypeCorrect == Spec => []TypeOK
<1>1. Init => TypeOK
  BY InitTypes
<1>2. TypeOK /\ [Next]_vars => TypeOK'
  BY NextTypes
<1>. QED
  BY <1>1, <1>2, PTL DEF Spec

-----------------------------------------------------------------------------
(* The inductive invariant. *)

Active == {c \in Coros : frame[c] = "active"}

\* The actors: who is on top of the stack, or main.
LEMMA WhoRuns ==
  ASSUME TypeOK, NEW a, Runs(a)
  PROVE  /\ fault = "none"
         /\ a \in Coros => stack # << >> /\ Top = a
         /\ a = Main => stack = << >> /\ phase = "main"
         /\ a \in Coros \cup {Main}
<1>1. stack # << >> => Top \in Coros
  BY DEF TypeOK, Top
<1>. QED
  BY <1>1, CorosAssumption DEF Runs, Actor

\* The frames on the native stack are the active ones.
StackOK == fault = "none" => Distinct(stack) /\ OnStack(stack) = Active

\* What is fresh has no owner to come back to; an owner is still going on.
HolderOK ==
  \A d \in Coros :
    /\ frame[d] = "none" => holder[d] = NULL /\ caller[d] = NULL
    /\ frame[d] = "created" => caller[d] = NULL
    /\ holder[d] # NULL => frame[d] \notin {"none", "dead"}
    /\ holder[d] \in Coros => holder[d] \in Started
    /\ frame[d] \in {"created", "done"} /\ d \notin leaked /\ fault = "none" => holder[d] # NULL

\* Who has started belongs to the one that waits for it, or to nobody.
CallerOK ==
  \A d \in Started : holder[d] = caller[d] /\ (caller[d] # NULL => frame[caller[d]] = "waiting")

\* Who waits, waits for exactly one.
CalleeOK ==
  \A c \in Coros : frame[c] = "waiting" =>
    \E d \in Coros : IsCallee(c, d) /\ \A e \in Coros : IsCallee(c, e) => e = d

FrameInv == StackOK /\ HolderOK /\ CallerOK /\ CalleeOK /\ fault # "frame"

LEMMA InvImplies == TypeOK /\ FrameInv => FramesAccounted
<1> SUFFICES ASSUME TypeOK, FrameInv PROVE FramesAccounted
  OBVIOUS
<1>1. \A d \in Coros \ leaked : frame[d] \in {"created", "done"} =>
        holder[d] \in Started \cup {Main} \/ fault # "none"
  BY DEF TypeOK, FrameInv, HolderOK
<1>2. fault = "none" => \A c \in Coros : frame[c] = "active" <=> \E i \in 1..Len(stack) : stack[i] = c
  BY DEF FrameInv, StackOK, OnStack, Active
<1>. QED
  BY <1>1, <1>2 DEF FrameInv, CallerOK, CalleeOK, FramesAccounted

\* The Tasks of whoever runs own frames that have not started, or are done.
LEMMA HeldByActor ==
  ASSUME TypeOK, FrameInv, NEW a, Runs(a), NEW d \in Coros, holder[d] = a
  PROVE  frame[d] \in {"created", "done"} /\ d \notin Started /\ d # a
<1>1. a \in Coros => frame[a] = "active"
  BY WhoRuns, PopStack DEF FrameInv, StackOK, Active, TypeOK
<1>2. d \notin Started
  BY <1>1, WhoRuns, CorosAssumption DEF FrameInv, CallerOK, TypeOK
<1>3. frame[d] \notin {"none", "dead"}
  BY WhoRuns, CorosAssumption DEF FrameInv, HolderOK
<1>. QED
  BY <1>1, <1>2, <1>3 DEF Started, TypeOK, Frames

-----------------------------------------------------------------------------
(* Every step preserves it. *)

LEMMA InitFrames == Init => FrameInv
BY EmptyStack, CorosAssumption
   DEF Init, FrameInv, StackOK, HolderOK, CallerOK, CalleeOK, Active, Started

\* A step that leaves frames, Tasks and the stack alone.
LEMMA FramesUntouched ==
  ASSUME FrameInv, UNCHANGED <<tasks, stack, leaked>>,
         fault' = fault \/ fault' \notin {"none", "frame"}
  PROVE  FrameInv'
BY DEF FrameInv, StackOK, HolderOK, CallerOK, CalleeOK, IsCallee, Started, Active, tasks

\* The coroutine that runs is active and on top of the stack, and awaits nobody.
LEMMA ActorIsActive ==
  ASSUME TypeOK, FrameInv, NEW c \in Coros, Runs(c)
  PROVE  /\ frame[c] = "active"
         /\ Below \in Seq(Coros) /\ Distinct(Below) /\ OnStack(Below) = Active \ {c}
         /\ \A e \in Started : caller[e] # c
<1>1. fault = "none" /\ stack # << >> /\ Top = c
  BY BelowTypes, WhoRuns
<1>2. /\ Below \in Seq(Coros) /\ Distinct(Below)
      /\ OnStack(Below) = Active \ {c} /\ c \in Active
  BY <1>1, PopStack DEF TypeOK, FrameInv, StackOK
<1>. QED
  BY <1>2, CorosAssumption DEF Active, FrameInv, CallerOK

LEMMA CreateFrames ==
  ASSUME TypeOK, FrameInv, NEW a \in Actors, NEW d \in Coros, Create(a, d)
  PROVE  FrameInv'
<1>. USE DEF TypeOK
<1>1. /\ frame[d] = "none" /\ frame' = [frame EXCEPT ![d] = "created"]
      /\ holder' = [holder EXCEPT ![d] = a]
      /\ UNCHANGED <<caller, stack, leaked, fault>>
  BY DEF Create, history
<1>2. Started' = Started /\ Active' = Active
  BY <1>1 DEF Started, Active
<1>3. a \in Coros => a \in Started
  BY ActorIsActive DEF Create, Started
<1>4. StackOK'
  BY <1>1, <1>2 DEF FrameInv, StackOK
<1>5. HolderOK'
  BY <1>1, <1>2, <1>3, CorosAssumption DEF FrameInv, HolderOK, Actors
<1>6. d \notin Started
  BY <1>1 DEF Started
<1>7. CallerOK'
  BY <1>1, <1>2, <1>6 DEF FrameInv, CallerOK
<1>8. CalleeOK'
  BY <1>1, <1>2, <1>6 DEF FrameInv, CalleeOK, IsCallee
<1>. QED
  BY <1>1, <1>4, <1>5, <1>7, <1>8 DEF FrameInv

LEMMA AwaitFrames ==
  ASSUME TypeOK, FrameInv, NEW c \in Coros, NEW d \in Coros, Await(c, d)
  PROVE  FrameInv'
<1>. USE DEF TypeOK
<1>1. /\ frame[d] = "created" /\ holder[d] = c
      /\ frame' = [frame EXCEPT ![c] = "waiting", ![d] = "active"]
      /\ caller' = [caller EXCEPT ![d] = c]
      /\ stack' = Append(Below, d)
      /\ UNCHANGED <<holder, leaked, fault>>
  BY DEF Await, history
<1>2. /\ frame[c] = "active" /\ c # d
      /\ Below \in Seq(Coros) /\ Distinct(Below) /\ OnStack(Below) = Active \ {c}
      /\ \A e \in Started : caller[e] # c
  BY <1>1, ActorIsActive DEF Await
<1>3. /\ Started' = Started \cup {d} /\ d \notin Started /\ c \in Started
      /\ Active' = (Active \ {c}) \cup {d} /\ d \notin Active
  BY <1>1, <1>2 DEF Started, Active
<1>4. StackOK'
  BY <1>1, <1>2, <1>3, PushStack DEF StackOK
<1>5. HolderOK'
  BY <1>1, <1>2, <1>3, CorosAssumption DEF FrameInv, HolderOK
<1>6. CallerOK'
  <2>1. holder'[d] = caller'[d] /\ frame'[caller'[d]] = "waiting"
    BY <1>1, <1>2
  <2>2. ASSUME NEW e \in Started
        PROVE  holder'[e] = caller'[e] /\ (caller'[e] # NULL => frame'[caller'[e]] = "waiting")
    <3>1. e \in Coros /\ e # d /\ caller'[e] = caller[e] /\ holder[e] = caller[e]
      BY <1>1, <1>3, <2>2 DEF Started, FrameInv, CallerOK
    <3>2. caller[e] # NULL => caller[e] # c /\ caller[e] # d /\ frame[caller[e]] = "waiting"
      BY <1>1, <1>2, <2>2 DEF FrameInv, CallerOK
    <3>3. caller[e] # NULL => caller[e] \in Coros
      BY <3>1
    <3>. QED
      BY <1>1, <3>1, <3>2, <3>3
  <2>. QED
    BY <1>3, <2>1, <2>2 DEF CallerOK
<1>7. CalleeOK'
  <2>1. ASSUME NEW x \in Coros, x # c, frame'[x] = "waiting"
        PROVE  \E y \in Coros : IsCallee(x, y)' /\ \A e \in Coros : IsCallee(x, e)' => e = y
    <3>1. frame[x] = "waiting" /\ \A e \in Coros : IsCallee(x, e)' <=> IsCallee(x, e)
      BY <1>1, <1>2, <1>3, <2>1 DEF IsCallee
    <3>. QED
      BY <3>1 DEF FrameInv, CalleeOK
  <2>2. IsCallee(c, d)' /\ \A e \in Coros : IsCallee(c, e)' => e = d
    BY <1>1, <1>2, <1>3 DEF IsCallee
  <2>. QED
    BY <2>1, <2>2 DEF CalleeOK
<1>. QED
  BY <1>1, <1>4, <1>5, <1>6, <1>7 DEF FrameInv

\* spawn and block_on: the Task gives its frame away, which runs by itself.
LEMMA ResumeFrames ==
  ASSUME TypeOK, FrameInv, NEW a \in Actors, NEW d \in Coros, Runs(a), holder[d] = a,
         holder' = Taken(d), Resume(d), UNCHANGED <<caller, leaked>>
  PROVE  FrameInv'
<1>. USE DEF TypeOK
<1>1. frame[d] \in {"created", "done"} /\ d \notin Started
  BY HeldByActor
<1>2. holder' = [holder EXCEPT ![d] = NULL]
  BY DEF Taken
<1>3. CASE frame[d] = "created"
  <2>1. /\ frame' = [frame EXCEPT ![d] = "active"]
        /\ stack' = Append(stack, d) /\ UNCHANGED fault
    BY <1>3 DEF Resume
  <2>2. /\ Started' = Started \cup {d}
        /\ Active' = Active \cup {d} /\ d \notin Active
    BY <1>3, <2>1 DEF Started, Active
  <2>3. StackOK'
    BY <2>1, <2>2, PushStack DEF FrameInv, StackOK
  <2>4. HolderOK'
    BY <1>2, <1>3, <2>1, <2>2, CorosAssumption DEF FrameInv, HolderOK
  <2>5. caller[d] = NULL
    BY <1>3 DEF FrameInv, HolderOK
  <2>6. CallerOK'
    BY <1>1, <1>2, <1>3, <2>1, <2>2, <2>5 DEF FrameInv, CallerOK
  <2>7. \A x, e \in Coros : frame[x] = "waiting" => (IsCallee(x, e)' <=> IsCallee(x, e))
    BY <1>1, <1>2, <2>1, <2>2, <2>5, CorosAssumption DEF IsCallee
  <2>8. CalleeOK'
    BY <2>1, <2>7 DEF FrameInv, CalleeOK
  <2>. QED
    BY <2>1, <2>3, <2>4, <2>6, <2>8 DEF FrameInv
<1>4. CASE frame[d] # "created"
  <2>1. fault' = "respawn" /\ UNCHANGED <<frame, stack>>
    BY <1>4 DEF Resume
  <2>2. Started' = Started
    BY <2>1 DEF Started
  <2>3. StackOK' /\ HolderOK'
    BY <1>2, <2>1, <2>2, CorosAssumption DEF FrameInv, StackOK, HolderOK
  <2>4. CallerOK' /\ CalleeOK'
    BY <1>1, <1>2, <2>1, <2>2 DEF FrameInv, CallerOK, CalleeOK, IsCallee
  <2>. QED
    BY <2>1, <2>3, <2>4 DEF FrameInv
<1>. QED
  BY <1>3, <1>4

LEMMA SpawnFunctionFrames ==
  ASSUME TypeOK, FrameInv, NEW a \in Actors, NEW d \in Coros, SpawnFunction(a, d)
  PROVE  FrameInv'
<1>. USE DEF TypeOK
<1>1. CASE fault' = "closure" /\ UNCHANGED frame
  BY <1>1, FramesUntouched DEF SpawnFunction, tasks
<1>2. CASE frame' = [frame EXCEPT ![d] = "suspended"] /\ fault' = fault
  <2>1. frame[d] = "none" /\ UNCHANGED <<holder, caller, stack, leaked>>
    BY DEF SpawnFunction
  <2>2. /\ Started' = Started \cup {d} /\ d \notin Started /\ Active' = Active
        /\ holder[d] = NULL /\ caller[d] = NULL
    BY <1>2, <2>1 DEF Started, Active, FrameInv, HolderOK
  <2>3. StackOK' /\ HolderOK'
    BY <1>2, <2>1, <2>2, CorosAssumption DEF FrameInv, StackOK, HolderOK
  <2>4. CallerOK'
    BY <1>2, <2>1, <2>2, CorosAssumption DEF FrameInv, CallerOK
  <2>5. \A x, e \in Coros : IsCallee(x, e)' <=> IsCallee(x, e)
    BY <2>1, <2>2, CorosAssumption DEF IsCallee
  <2>6. CalleeOK'
    BY <1>2, <2>1, <2>5 DEF FrameInv, CalleeOK
  <2>. QED
    BY <1>2, <2>3, <2>4, <2>6 DEF FrameInv
<1>. QED
  BY <1>1, <1>2 DEF SpawnFunction

\* A Task that dies, or is assigned to, has a frame that nobody runs.
LEMMA LetGoFrames ==
  ASSUME TypeOK, FrameInv, NEW a \in Actors, NEW d \in Coros, DropTask(a, d) \/ Overwrite(a, d)
  PROVE  FrameInv'
<1>. USE DEF TypeOK
<1>1. /\ frame[d] \in {"created", "done"} /\ d \notin Started
      /\ holder' = [holder EXCEPT ![d] = NULL]
      /\ UNCHANGED <<caller, stack>>
  BY HeldByActor DEF DropTask, Overwrite
<1>2. /\ UNCHANGED fault
      /\ \/ frame' = [frame EXCEPT ![d] = "dead"] /\ UNCHANGED leaked
         \/ leaked' = leaked \cup {d} /\ UNCHANGED frame
  BY <1>1 DEF DropTask, Overwrite
<1>3. /\ Started' = Started /\ Active' = Active
      /\ \A c \in Coros : frame'[c] = "waiting" <=> frame[c] = "waiting"
  BY <1>1, <1>2 DEF Started, Active
<1>4. StackOK' /\ HolderOK'
  BY <1>1, <1>2, <1>3, CorosAssumption DEF FrameInv, StackOK, HolderOK
<1>5. CallerOK'
  BY <1>1, <1>2, <1>3 DEF FrameInv, CallerOK, Started
<1>6. \A x, e \in Coros : IsCallee(x, e)' <=> IsCallee(x, e)
  BY <1>1, <1>3 DEF IsCallee
<1>7. CalleeOK'
  BY <1>3, <1>6 DEF FrameInv, CalleeOK
<1>. QED
  BY <1>2, <1>4, <1>5, <1>7 DEF FrameInv

LEMMA FinishFrames ==
  ASSUME TypeOK, FrameInv, NEW c \in Coros, Finish(c)
  PROVE  FrameInv'
<1>. USE DEF TypeOK
<1>. DEFINE held == {d \in Coros : holder[d] = c}
            p == caller[c]
<1>1. /\ frame[c] = "active" /\ c \in Started
      /\ Below \in Seq(Coros) /\ Distinct(Below) /\ OnStack(Below) = Active \ {c}
      /\ \A e \in Started : caller[e] # c
  BY ActorIsActive DEF Finish, Started
<1>2. \A d \in held : frame[d] \in {"created", "done"} /\ d \notin Started /\ d # c
  BY HeldByActor DEF Finish
<1>3. /\ p = NULL \/ (p \in Coros /\ p # c /\ frame[p] = "waiting" /\ p \in Started
                      /\ IsCallee(p, c))
      /\ holder[c] = p
  BY <1>1, CorosAssumption DEF FrameInv, CallerOK, Started, IsCallee
<1>4. /\ UNCHANGED <<caller, leaked>> /\ UNCHANGED fault
      /\ frame' = [d \in Coros |-> IF d \in held THEN "dead"
                                   ELSE IF d = c THEN Remains(c)
                                   ELSE IF d = p THEN "active" ELSE frame[d]]
      /\ holder' = [d \in Coros |-> IF d \in held THEN NULL ELSE holder[d]]
      /\ stack' = Continuation(c)
  BY <1>2 DEF Finish
<1>5. /\ \A d \in held : frame'[d] = "dead" /\ holder'[d] = NULL
      /\ \A d \in Coros \ held : holder'[d] = holder[d]
      /\ frame'[c] = Remains(c) /\ c \notin held /\ p \notin held
      /\ p # NULL => frame'[p] = "active"
      /\ \A d \in Coros \ held : d # c /\ d # p => frame'[d] = frame[d]
  BY <1>2, <1>3, <1>4, CorosAssumption
<1>. HIDE DEF held, p
<1>6. Remains(c) = IF p = NULL THEN "dead" ELSE "done"
  BY DEF Remains, p
<1>7. /\ Started' = Started \ {c}
      /\ Active' = (Active \ {c}) \cup (IF p = NULL THEN {} ELSE {p})
      /\ p \notin Active
  <2>1. ASSUME NEW d \in Coros
        PROVE  /\ d \in Started' <=> d \in Started /\ d # c
               /\ d \in Active' <=> (d \in Active /\ d # c) \/ d = p
    <3>1. CASE d \in held
      BY <1>2, <1>5, <3>1 DEF Started, Active
    <3>2. CASE d = c
      BY <1>3, <1>5, <1>6, <3>2, CorosAssumption DEF Started, Active
    <3>3. CASE d = p
      BY <1>3, <1>5, <3>3, CorosAssumption DEF Started, Active
    <3>4. CASE d \notin held /\ d # c /\ d # p
      BY <1>5, <3>4 DEF Started, Active
    <3>. QED
      BY <3>1, <3>2, <3>3, <3>4
  <2>2. Started' \subseteq Coros /\ Active' \subseteq Coros /\ Started \subseteq Coros /\ Active \subseteq Coros
    BY DEF Started, Active
  <2>3. p \notin Active
    BY <1>3, CorosAssumption DEF Active
  <2>. QED
    BY <1>3, <2>1, <2>2, <2>3, CorosAssumption
<1>8. StackOK'
  <2>1. stack' = IF p = NULL THEN Below ELSE Append(Below, p)
    BY <1>4 DEF Continuation, p
  <2>. QED
    BY <1>1, <1>3, <1>7, <2>1, PushStack DEF StackOK
<1>9. HolderOK'
  <2>. SUFFICES ASSUME NEW d \in Coros
       PROVE  /\ frame'[d] = "none" => holder'[d] = NULL /\ caller'[d] = NULL
              /\ frame'[d] = "created" => caller'[d] = NULL
              /\ holder'[d] # NULL => frame'[d] \notin {"none", "dead"}
              /\ holder'[d] \in Coros => holder'[d] \in Started'
              /\ frame'[d] \in {"created", "done"} /\ d \notin leaked' /\ fault' = "none" => holder'[d] # NULL
    BY DEF HolderOK
  <2>1. CASE d \in held
    BY <1>5, <2>1, CorosAssumption
  <2>2. CASE d = c
    BY <1>3, <1>5, <1>6, <1>7, <2>2, CorosAssumption DEF Started
  <2>3. CASE d \notin held /\ d # c
    <3>1. holder'[d] = holder[d] /\ holder[d] # c
      BY <1>5, <2>3 DEF held
    <3>2. CASE d # p
      BY <1>4, <1>5, <1>7, <2>3, <3>1, <3>2 DEF FrameInv, HolderOK
    <3>3. CASE d = p
      BY <1>3, <1>4, <1>5, <1>7, <3>1, <3>3 DEF FrameInv, HolderOK
    <3>. QED
      BY <3>2, <3>3
  <2>. QED
    BY <2>1, <2>2, <2>3
<1>10. \A d \in Started \ {c} : holder'[d] = holder[d]
  BY <1>2, <1>5 DEF Started
\* Whoever waits for its caller, waits for no other.
<1>11. \A d \in Started \ {c} : caller[d] # NULL => caller[d] # p
  <2>. SUFFICES ASSUME NEW d \in Started, d # c, caller[d] # NULL, caller[d] = p PROVE FALSE
    OBVIOUS
  <2>1. IsCallee(p, d) /\ d \in Coros
    BY DEF FrameInv, CallerOK, IsCallee, Started
  <2>. QED
    BY <1>3, <2>1 DEF FrameInv, CalleeOK
<1>12. CallerOK'
  <2>. SUFFICES ASSUME NEW d \in Started \ {c}
       PROVE  holder'[d] = caller[d] /\ (caller[d] # NULL => frame'[caller[d]] = "waiting")
    BY <1>4, <1>7 DEF CallerOK
  <2>1. /\ holder[d] = caller[d]
        /\ caller[d] # NULL => caller[d] \in Coros /\ frame[caller[d]] = "waiting" /\ caller[d] # c
    BY <1>1 DEF FrameInv, CallerOK, Started
  <2>2. caller[d] # NULL => caller[d] \notin held
    BY <1>2, <2>1
  <2>. QED
    BY <1>5, <1>10, <1>11, <2>1, <2>2
<1>13. CalleeOK'
  <2>. SUFFICES ASSUME NEW x \in Coros, frame'[x] = "waiting"
       PROVE  \E y \in Coros : IsCallee(x, y)' /\ \A e \in Coros : IsCallee(x, e)' => e = y
    BY DEF CalleeOK
  <2>1. x # c /\ x # p /\ x \notin held /\ frame[x] = "waiting"
    BY <1>3, <1>5, <1>6, CorosAssumption
  <2>2. \A e \in Coros : IsCallee(x, e)' <=> IsCallee(x, e)
    BY <1>4, <1>7, <1>10, <2>1 DEF IsCallee, p
  <2>. QED
    BY <2>1, <2>2 DEF FrameInv, CalleeOK
<1>. QED
  BY <1>4, <1>8, <1>9, <1>12, <1>13 DEF FrameInv

LEMMA AwaiterFrames ==
  ASSUME TypeOK, FrameInv, NEW c \in Coros, AwaiterStep(c) \/ Fire(c)
  PROVE  FrameInv'
<1>. USE DEF TypeOK, tasks, awaiters, history
<1>1. CASE UNCHANGED <<tasks, stack>> /\ UNCHANGED <<leaked, fault>>
  BY <1>1, FramesUntouched
<1>2. ASSUME frame[c] \in {"active", "suspended"}, frame' = [frame EXCEPT ![c] = IF @ = "active" THEN "suspended" ELSE "active"],
             UNCHANGED <<holder, caller, leaked, fault>>, StackOK'
      PROVE  FrameInv'
  <2>1. /\ Started' = Started
        /\ \A x \in Coros : frame'[x] = "waiting" <=> frame[x] = "waiting"
        /\ \A x \in Coros : x # c => frame'[x] = frame[x]
        /\ frame'[c] \in {"active", "suspended"}
    BY <1>2 DEF Started
  <2>2. HolderOK'
    BY <1>2, <2>1 DEF FrameInv, HolderOK
  <2>3. CallerOK'
    BY <1>2, <2>1 DEF FrameInv, CallerOK, Started
  <2>4. CalleeOK'
    BY <1>2, <2>1 DEF FrameInv, CalleeOK, IsCallee
  <2>. QED
    BY <1>2, <2>2, <2>3, <2>4 DEF FrameInv
<1>3. CASE AwaitEvent(c) /\ ~Ready(c)
  <2>1. /\ frame' = [frame EXCEPT ![c] = "suspended"] /\ stack' = Below
        /\ UNCHANGED <<holder, caller, leaked, fault>>
    BY <1>3 DEF AwaitEvent
  <2>2. /\ frame[c] = "active" /\ Distinct(Below) /\ OnStack(Below) = Active \ {c}
    BY <1>3, ActorIsActive DEF AwaitEvent
  <2>3. Active' = Active \ {c}
    BY <2>1, <2>2 DEF Active
  <2>4. StackOK'
    BY <2>1, <2>2, <2>3 DEF StackOK
  <2>. QED
    BY <1>2, <2>1, <2>2, <2>4
<1>4. CASE Fire(c) /\ frame' # frame
  <2>1. /\ frame[c] = "suspended" /\ frame' = [frame EXCEPT ![c] = "active"]
        /\ stack = << >> /\ stack' = <<c>> /\ fault = "none"
        /\ UNCHANGED <<holder, caller, leaked, fault>>
    BY <1>4 DEF Fire, Turning, Resumes
  <2>2. Active = {} /\ Active' = {c}
    <3>1. Active = {}
      BY <2>1, EmptyStack DEF FrameInv, StackOK
    <3>. QED
      BY <2>1, <3>1 DEF Active
  <2>3. StackOK'
    BY <2>1, <2>2, SingleStack DEF StackOK
  <2>. QED
    BY <1>2, <2>1, <2>3
<1>5. Start(c, kind') \/ DropAwaiter(c) \/ (AwaitEvent(c) /\ Ready(c)) => UNCHANGED <<tasks, stack>> /\ UNCHANGED <<leaked, fault>>
  BY DEF Start, DropAwaiter, AwaitEvent
<1>6. ASSUME NEW k \in Uses[c], Start(c, k) PROVE UNCHANGED <<tasks, stack>> /\ UNCHANGED <<leaked, fault>>
  BY <1>6 DEF Start
<1>7. Fire(c) /\ frame' = frame => UNCHANGED <<tasks, stack>> /\ UNCHANGED <<leaked, fault>>
  <2>. SUFFICES ASSUME Fire(c), frame' = frame PROVE UNCHANGED <<tasks, stack>> /\ UNCHANGED <<leaked, fault>>
    OBVIOUS
  <2>1. frame' # [frame EXCEPT ![c] = "active"] \/ frame[c] = "active"
    OBVIOUS
  <2>. QED
    BY <2>1 DEF Fire, Resumes
<1>. QED
  BY <1>1, <1>3, <1>4, <1>5, <1>6, <1>7 DEF AwaiterStep

LEMMA NextFrames == TypeOK /\ FrameInv /\ [Next]_vars => FrameInv'
<1> SUFFICES ASSUME TypeOK, FrameInv, [Next]_vars PROVE FrameInv'
  OBVIOUS
<1>. USE DEF tasks, awaiters, history
<1>1. ASSUME NEW a \in Actors, TaskStep(a) PROVE FrameInv'
  <2>. PICK d \in Coros :
         \/ Create(a, d) \/ Await(a, d) \/ Spawn(a, d)
         \/ SpawnFunction(a, d) \/ DropTask(a, d) \/ Overwrite(a, d)
    BY <1>1 DEF TaskStep
  <2>1. CASE Await(a, d)
    BY <2>1, AwaitFrames DEF Await
  <2>2. CASE Spawn(a, d)
    BY <2>2, ResumeFrames DEF Spawn
  <2>. QED
    BY <2>1, <2>2, CreateFrames, SpawnFunctionFrames, LetGoFrames
<1>2. ASSUME NEW d \in Coros, BlockOn(d) PROVE FrameInv'
  BY <1>2, ResumeFrames DEF BlockOn, Actors
<1>3. CASE FireOrphan
  BY <1>3, FramesUntouched DEF FireOrphan
<1>4. CASE LoopEnds
  BY <1>4, FramesUntouched DEF LoopEnds
<1>5. CASE UNCHANGED vars
  BY <1>5, FramesUntouched DEF vars
<1>. QED
  BY <1>1, <1>2, <1>3, <1>4, <1>5, FinishFrames, AwaiterFrames DEF Next

LEMMA FramesInvariant == Spec => [](TypeOK /\ FrameInv)
<1>1. Init => TypeOK /\ FrameInv
  BY InitTypes, InitFrames
<1>2. TypeOK /\ FrameInv /\ [Next]_vars => (TypeOK /\ FrameInv)'
  BY NextTypes, NextFrames
<1>. QED
  BY <1>1, <1>2, PTL DEF Spec

\* Tasks and callers account for every frame, however coroutines are created,
\* awaited, spawned, dropped, and end: none is destroyed twice or while it runs.
THEOREM EveryFrameHasAnOwner == Spec => []FramesAccounted
<1>1. TypeOK /\ FrameInv => FramesAccounted
  BY InvImplies
<1>. QED
  BY <1>1, FramesInvariant, PTL

-----------------------------------------------------------------------------
(* Awaiters: who is suspended has an event to come, and what a connect hands *)
(* over.                                                                     *)

\* What the awaiter of c may be, and what it may be when c is suspended on it.
AwaiterOK(c) ==
  /\ kind[c] = NULL <=> event[c] = "none"
  /\ frame[c] = "none" => kind[c] = NULL
  /\ event[c] = "mute" => kind[c] \in {"resolve", "connect"}
  /\ event[c] = "failed" => kind[c] = "connect" /\ (frame[c] = "suspended" \/ "kept" \in unusual[c])
  /\ frame[c] = "suspended" =>
       \/ event[c] \in {"pending", "mute", "failed"}
       \/ event[c] = "spent" /\ kind[c] = "sleep" /\ "again" \in unusual[c]
  /\ c \in unconnected => kind[c] = "connect" /\ unusual[c] # {}

WakeInv == \A c \in Coros : AwaiterOK(c)

LEMMA WakeImplies == TypeOK /\ WakeInv => SuspendedWillWake /\ StreamIsConnected
BY DEF TypeOK, WakeInv, AwaiterOK, SuspendedWillWake, StreamIsConnected, Stuck

LEMMA InitWake == Init => WakeInv
BY DEF Init, WakeInv, AwaiterOK

\* A step that suspends nobody, wakes nobody and touches no awaiter.
LEMMA AwaitersUntouched ==
  ASSUME WakeInv, UNCHANGED <<awaiters, unusual, unconnected>>,
         \A c \in Coros : /\ frame'[c] = "suspended" <=> frame[c] = "suspended"
                          /\ frame'[c] = "none" => frame[c] = "none"
  PROVE  WakeInv'
BY DEF WakeInv, AwaiterOK, awaiters

\* A step that changes the awaiter of one coroutine, which is not suspended.
LEMMA OneAwaiter ==
  ASSUME WakeInv, NEW c \in Coros, AwaiterOK(c)',
         \A d \in Coros : d # c =>
           /\ kind'[d] = kind[d] /\ event'[d] = event[d] /\ unusual'[d] = unusual[d]
           /\ d \in unconnected' => d \in unconnected
           /\ frame'[d] = "none" => frame[d] = "none"
           /\ frame'[d] = "suspended" <=> frame[d] = "suspended"
  PROVE  WakeInv'
<1>1. ASSUME NEW d \in Coros, d # c PROVE AwaiterOK(d)'
  <2>1. AwaiterOK(d)
    BY DEF WakeInv
  <2>2. /\ kind'[d] = kind[d] /\ event'[d] = event[d] /\ unusual'[d] = unusual[d]
        /\ d \in unconnected' => d \in unconnected
        /\ frame'[d] = "none" => frame[d] = "none"
        /\ frame'[d] = "suspended" <=> frame[d] = "suspended"
    BY <1>1
  <2>. QED
    BY <2>1, <2>2 DEF AwaiterOK
<1>. QED
  BY <1>1 DEF WakeInv

LEMMA TaskWake ==
  ASSUME TypeOK, FrameInv, WakeInv, NEW a \in Actors, NEW d \in Coros,
         \/ Create(a, d) \/ Await(a, d) \/ Spawn(a, d) \/ BlockOn(d)
         \/ SpawnFunction(a, d) \/ DropTask(a, d) \/ Overwrite(a, d)
  PROVE  WakeInv'
<1>. USE DEF TypeOK, awaiters, history
<1>1. CASE Create(a, d)
  BY <1>1, AwaitersUntouched DEF Create
<1>2. CASE Await(a, d)
  <2>1. frame[a] = "active" /\ a \in Coros
    BY <1>2, ActorIsActive DEF Await
  <2>. QED
    BY <1>2, <2>1, AwaitersUntouched DEF Await
<1>3. CASE Spawn(a, d) \/ BlockOn(d)
  <2>1. \A c \in Coros : /\ frame'[c] = "suspended" <=> frame[c] = "suspended"
                         /\ frame'[c] = "none" => frame[c] = "none"
    BY <1>3 DEF Spawn, BlockOn, Resume
  <2>. QED
    BY <1>3, <2>1, AwaitersUntouched DEF Spawn, BlockOn
<1>4. CASE SpawnFunction(a, d)
  <2>1. CASE UNCHANGED <<frame, kind, event>>
    BY <1>4, <2>1, AwaitersUntouched DEF SpawnFunction
  <2>2. CASE /\ frame' = [frame EXCEPT ![d] = "suspended"]
             /\ kind' = [kind EXCEPT ![d] = "work"]
             /\ event' = [event EXCEPT ![d] = "pending"]
    <3>1. UNCHANGED <<unusual, unconnected>> /\ frame[d] = "none"
      BY <1>4 DEF SpawnFunction
    <3>2. kind[d] = NULL /\ d \notin unconnected
      BY <3>1, CorosAssumption DEF AwaiterOK, WakeInv, Kinds
    <3>3. kind'[d] = "work" /\ event'[d] = "pending" /\ frame'[d] = "suspended"
      BY <2>2
    <3>4. AwaiterOK(d)'
      BY <3>1, <3>2, <3>3, CorosAssumption DEF AwaiterOK, Kinds
    <3>. QED
      BY <2>2, <3>1, <3>4, OneAwaiter
  <2>. QED
    BY <1>4, <2>1, <2>2 DEF SpawnFunction
<1>5. CASE DropTask(a, d) \/ Overwrite(a, d)
  <2>1. frame[d] \in {"created", "done"}
    BY <1>5, HeldByActor DEF DropTask, Overwrite
  <2>. QED
    BY <1>5, <2>1, AwaitersUntouched DEF DropTask, Overwrite
<1>. QED
  BY <1>1, <1>2, <1>3, <1>4, <1>5

LEMMA FinishWake ==
  ASSUME TypeOK, FrameInv, WakeInv, NEW c \in Coros, Finish(c)
  PROVE  WakeInv'
<1>. USE DEF TypeOK
<1>1. frame[c] = "active" /\ \A d \in Coros : holder[d] = c => frame[d] \in {"created", "done"}
  BY ActorIsActive, HeldByActor DEF Finish
<1>2. caller[c] # NULL => frame[caller[c]] = "waiting"
  BY <1>1 DEF FrameInv, CallerOK, Started
<1>3. \A d \in Coros : /\ frame'[d] = "suspended" <=> frame[d] = "suspended"
                       /\ frame'[d] = "none" => frame[d] = "none"
  <2>. SUFFICES ASSUME NEW d \in Coros
                PROVE  /\ frame'[d] = "suspended" <=> frame[d] = "suspended"
                       /\ frame'[d] = "none" => frame[d] = "none"
    OBVIOUS
  <2>1. frame'[d] = IF holder[d] = c THEN "dead"
                    ELSE IF d = c THEN Remains(c)
                    ELSE IF d = caller[c] THEN "active" ELSE frame[d]
    BY DEF Finish
  <2>2. d = caller[c] => frame[d] = "waiting"
    BY <1>2, CorosAssumption
  <2>3. Remains(c) \in {"dead", "done"}
    BY DEF Remains
  <2>. QED
    BY <1>1, <2>1, <2>2, <2>3
<1>4. AwaiterOK(c)'
  BY <1>1, <1>3 DEF Finish, AwaiterGone, AwaiterOK
<1>. QED
  BY <1>3, <1>4, OneAwaiter DEF Finish, AwaiterGone

LEMMA AwaiterWake ==
  ASSUME TypeOK, FrameInv, WakeInv, NEW c \in Coros, AwaiterStep(c)
  PROVE  WakeInv'
<1>. USE DEF TypeOK, tasks, history
<1>1. frame[c] = "active"
  BY ActorIsActive DEF AwaiterStep, Start, AwaitEvent, DropAwaiter
<1>2. ASSUME NEW k \in Uses[c], Start(c, k) PROVE WakeInv'
  <2>1. k \in Kinds
    BY CorosAssumption
  <2>2. UNCHANGED <<unusual, unconnected, frame>> /\ kind[c] = NULL /\ kind'[c] = k
    BY <1>2 DEF Start
  <2>3. c \notin unconnected /\ k # NULL
    BY <2>1, <2>2, CorosAssumption DEF AwaiterOK, WakeInv, Kinds
  <2>4. event'[c] = "pending" \/ (event'[c] = "mute" /\ k \in {"resolve", "connect"})
    BY <1>2 DEF Start
  <2>5. AwaiterOK(c)'
    BY <1>1, <2>2, <2>3, <2>4 DEF AwaiterOK
  <2>. QED
    BY <1>2, <2>2, <2>5, OneAwaiter DEF Start
<1>3. CASE AwaitEvent(c) /\ Ready(c)
  <2>1. /\ kind[c] # NULL /\ unusual' = [unusual EXCEPT ![c] = @ \cup (IF event[c] = "spent" THEN {"again"} ELSE {})]
        /\ event' = [event EXCEPT ![c] = "spent"] /\ UNCHANGED <<kind, frame>>
        /\ unconnected' = unconnected \cup
             (IF kind[c] = "connect" /\ event[c] \in {"failed", "spent"} THEN {c} ELSE {})
    BY <1>3 DEF AwaitEvent, AwaitResume
  <2>2. event[c] = "failed" => "kept" \in unusual[c]
    BY <1>1 DEF WakeInv, AwaiterOK
  <2>3. c \in unconnected' => kind[c] = "connect" /\ unusual'[c] # {}
    BY <2>1, <2>2 DEF WakeInv, AwaiterOK
  <2>4. AwaiterOK(c)'
    BY <1>1, <2>1, <2>3 DEF AwaiterOK
  <2>. QED
    BY <2>1, <2>4, OneAwaiter
<1>4. CASE AwaitEvent(c) /\ ~Ready(c)
  <2>1. /\ kind[c] # NULL /\ unusual' = [unusual EXCEPT ![c] = @ \cup (IF event[c] = "spent" THEN {"again"} ELSE {})]
        /\ frame' = [frame EXCEPT ![c] = "suspended"] /\ UNCHANGED <<kind, event, unconnected>>
    BY <1>4 DEF AwaitEvent
  <2>2. event[c] \in {"pending", "mute"} \/ (event[c] = "spent" /\ kind[c] = "sleep")
    <3>1. event[c] # "none" /\ event[c] \in Events
      BY <2>1 DEF WakeInv, AwaiterOK
    <3>2. event[c] \notin {"ready", "failed"} /\ (event[c] = "spent" => kind[c] = "sleep")
      BY <1>4 DEF Ready
    <3>. QED
      BY <3>1, <3>2 DEF Events
  <2>3. AwaiterOK(c)'
    BY <2>1, <2>2 DEF WakeInv, AwaiterOK
  <2>. QED
    BY <2>1, <2>3, OneAwaiter
<1>5. CASE DropAwaiter(c)
  <2>1. AwaiterOK(c)'
    BY <1>1, <1>5 DEF DropAwaiter, AwaiterGone, AwaiterOK
  <2>. QED
    BY <1>5, <2>1, OneAwaiter DEF DropAwaiter, AwaiterGone
<1>. QED
  BY <1>2, <1>3, <1>4, <1>5 DEF AwaiterStep

LEMMA FireWake ==
  ASSUME TypeOK, WakeInv, NEW c \in Coros, Fire(c)
  PROVE  WakeInv'
<1>. USE DEF TypeOK
<1>1. event[c] = "pending" /\ kind[c] # NULL /\ UNCHANGED kind
  BY DEF Fire, WakeInv, AwaiterOK
<1>. PICK outcome \in {"ready"} \cup (IF kind[c] = "connect" THEN {"failed"} ELSE {}) :
       IF Resumes(c, outcome)
       THEN /\ AwaitResume(c, outcome)
            /\ frame' = [frame EXCEPT ![c] = "active"]
            /\ stack' = <<c>>
            /\ UNCHANGED unusual
       ELSE /\ event' = [event EXCEPT ![c] = outcome]
            /\ unusual' = [unusual EXCEPT
                 ![c] = @ \cup (IF frame[c] = "suspended" THEN {} ELSE {"kept"})]
            /\ UNCHANGED <<frame, stack, unconnected>>
  BY DEF Fire
<1>2. CASE Resumes(c, outcome)
  <2>1. /\ outcome = "ready" /\ event' = [event EXCEPT ![c] = "spent"]
        /\ UNCHANGED <<unusual, unconnected>>
    BY <1>2 DEF Resumes, AwaitResume
  <2>2. AwaiterOK(c)'
    BY <1>1, <1>2, <2>1 DEF AwaiterOK, WakeInv
  <2>. QED
    BY <1>1, <1>2, <2>1, <2>2, OneAwaiter
<1>3. CASE ~Resumes(c, outcome)
  <2>1. frame[c] = "suspended" => outcome = "failed"
    BY <1>3 DEF Resumes
  <2>2. AwaiterOK(c)' /\ UNCHANGED unconnected
    BY <1>1, <1>3, <2>1 DEF AwaiterOK, WakeInv
  <2>. QED
    BY <1>1, <1>3, <2>2, OneAwaiter
<1>. QED
  BY <1>2, <1>3

LEMMA NextWake == TypeOK /\ FrameInv /\ WakeInv /\ [Next]_vars => WakeInv'
<1> SUFFICES ASSUME TypeOK, FrameInv, WakeInv, [Next]_vars PROVE WakeInv'
  OBVIOUS
<1>1. ASSUME NEW a \in Actors, TaskStep(a) PROVE WakeInv'
  BY <1>1, TaskWake DEF TaskStep
<1>2. ASSUME NEW d \in Coros, BlockOn(d) PROVE WakeInv'
  BY <1>2, TaskWake DEF Actors
<1>3. CASE FireOrphan \/ LoopEnds \/ UNCHANGED vars
  BY <1>3, AwaitersUntouched DEF FireOrphan, LoopEnds, vars, tasks, awaiters, history
<1>. QED
  BY <1>1, <1>2, <1>3, FinishWake, AwaiterWake, FireWake DEF Next

LEMMA WakeInvariant == Spec => []WakeInv
<1>1. Init => WakeInv
  BY InitWake
<1>2. TypeOK /\ FrameInv /\ WakeInv /\ [Next]_vars => WakeInv'
  BY NextWake
<1>. QED
  BY <1>1, <1>2, FramesInvariant, PTL DEF Spec

\* Whoever is suspended has an event to come, except after a refused lookup, a
\* refused or failed connect, or a sleep awaited twice.
THEOREM NobodyForgotten == Spec => []SuspendedWillWake
<1>1. TypeOK /\ WakeInv => SuspendedWillWake
  BY WakeImplies
<1>. QED
  BY <1>1, TypeCorrect, WakeInvariant, PTL

\* An unconnected stream comes only from an awaiter that itself was kept or awaited
\* twice.
THEOREM ConnectGivesConnection == Spec => []StreamIsConnected
<1>1. TypeOK /\ WakeInv => StreamIsConnected
  BY WakeImplies
<1>. QED
  BY <1>1, TypeCorrect, WakeInvariant, PTL
=============================================================================
