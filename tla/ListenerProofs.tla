---------------------------- MODULE ListenerProofs ----------------------------
(***************************************************************************)
(* Theorems about Listener, for every set of coroutines that accept and    *)
(* any number of connections.                                              *)
(***************************************************************************)
EXTENDS Listener, TLAPS

-----------------------------------------------------------------------------
(* Type correctness. *)

LEMMA InitTypes == Init => TypeOK
<1> SUFFICES ASSUME Init PROVE TypeOK
  OBVIOUS
<1>1. given \in Seq(Nat)
  BY DEF Init
<1>2. /\ awaiter \in [Acceptors -> {"none", "waiting", "ready", "spent"}]
      /\ at \in [Acceptors -> {"run", "accepting", "elsewhere", "done"}]
  BY DEF Init
<1>. QED
  BY <1>1, <1>2 DEF Init, TypeOK

\* What a callback leaves of the types.
LEMMA CallbackTypes ==
  ASSUME TypeOK, NEW fd \in Nat \cup {NULL}, Callback(fd)
  PROVE  /\ accepted' \in Nat \cup {NULL}
         /\ awaiter' \in [Acceptors -> {"none", "waiting", "ready", "spent"}]
         /\ at' \in [Acceptors -> {"run", "accepting", "elsewhere", "done"}]
         /\ given' \in Seq(Nat) /\ hollow' \in BOOLEAN
         /\ fault' \in {"none", "awaiter", "resume", "closing"}
<1>. USE DEF TypeOK
<1>1. CASE data = NULL \/ (data # NULL /\ Unregistered(data))
  BY <1>1 DEF Callback, results
<1>2. CASE ~(data = NULL \/ (data # NULL /\ Unregistered(data)))
  <2>1. data \in Acceptors /\ UNCHANGED fault
    BY <1>2 DEF Callback
  <2>2. CASE Resumes(data)
    <3>1. UvAccept(fd) /\ at' = [at EXCEPT ![data] = "run"]
          /\ \E w \in {"none", "spent"} : awaiter' = [awaiter EXCEPT ![data] = w]
      BY <1>2, <2>2 DEF Callback
    <3>2. given' \in Seq(Nat)
      BY <3>1 DEF UvAccept
    <3>. QED
      BY <2>1, <3>1, <3>2 DEF UvAccept
  <2>3. CASE ~Resumes(data)
    BY <1>2, <2>1, <2>3 DEF Callback, results
  <2>. QED
    BY <2>1, <2>2, <2>3
<1>. QED
  BY <1>1, <1>2

LEMMA NextTypes == TypeOK /\ [Next]_vars => TypeOK'
<1> SUFFICES ASSUME TypeOK, [Next]_vars PROVE TypeOK'
  OBVIOUS
<1>. USE DEF TypeOK, socket, results, history
<1>1. ASSUME NEW a \in Acceptors, Wake(a) \/ Bind(a) \/ Accept(a) PROVE TypeOK'
  BY <1>1 DEF Wake, Bind, Accept, Register
<1>2. ASSUME NEW a \in Acceptors, AwaitAccept(a) PROVE TypeOK'
  <2>1. CASE AwaitReady(a)
    BY <1>2, <2>1 DEF AwaitAccept, UvAccept
  <2>2. CASE ~AwaitReady(a)
    BY <1>2, <2>2 DEF AwaitAccept
  <2>. QED
    BY <2>1, <2>2
<1>3. ASSUME NEW a \in Acceptors, DropAwaiter(a) \/ Elsewhere(a) \/ Finish(a) PROVE TypeOK'
  BY <1>3 DEF DropAwaiter, Elsewhere, Finish
<1>4. CASE Arrive \/ CloseCallback
  BY <1>4 DEF Arrive, CloseCallback
<1>5. CASE ServerIo
  <2>1. taken + 1 \in Nat
    OBVIOUS
  <2>. QED
    BY <1>5, <2>1, CallbackTypes DEF ServerIo
<1>6. CASE ServerError
  BY <1>6, CallbackTypes DEF ServerError
<1>7. CASE UNCHANGED vars
  BY <1>7 DEF vars
<1>. QED
  BY <1>1, <1>2, <1>3, <1>4, <1>5, <1>6, <1>7 DEF Next, Step

\* Every variable has its type, for any set of acceptors.
THEOREM TypeCorrect == Spec => []TypeOK
  BY InitTypes, NextTypes, PTL DEF Spec

-----------------------------------------------------------------------------
(* Who has an awaiter, and what a registered one can count on. *)

\* A coroutine that has ended has no awaiter, and with the listener closed all
\* have ended.
EndedOK ==
  /\ \A a \in Acceptors : at[a] = "done" => awaiter[a] = "none"
  /\ listener = "closed" => \A a \in Acceptors : at[a] = "done"

\* Without an awaiter registered there is none; before bind nothing was taken.
FirstOK ==
  /\ data = NULL => \A a \in Acceptors : awaiter[a] = "none"
  /\ listener = "new" => data = NULL

\* Until somebody strays, either the registered awaiter waits, or its coroutine
\* is running and has yet to call accept again.
ServingOK ==
  Defined /\ listener = "bound" /\ ~strayed =>
    \/ data = NULL /\ \E a \in Acceptors : at[a] = "run"
    \/ data # NULL /\ (Unregistered(data) => at[data] = "run")

LEMMA NextEnded == TypeOK /\ EndedOK /\ [Next]_vars => EndedOK'
<1> SUFFICES ASSUME TypeOK, EndedOK, [Next]_vars PROVE EndedOK'
  OBVIOUS
<1>. USE DEF TypeOK, EndedOK, socket
<1>1. ASSUME NEW a \in Acceptors, Wake(a) \/ Bind(a) \/ Accept(a) PROVE EndedOK'
  BY <1>1 DEF Wake, Bind, Accept
<1>2. ASSUME NEW a \in Acceptors, AwaitAccept(a) PROVE EndedOK'
  BY <1>2 DEF AwaitAccept
<1>3. ASSUME NEW a \in Acceptors, DropAwaiter(a) \/ Elsewhere(a) PROVE EndedOK'
  BY <1>3 DEF DropAwaiter, Elsewhere
<1>4. ASSUME NEW a \in Acceptors, Finish(a) PROVE EndedOK'
  BY <1>4 DEF Finish
<1>5. CASE Arrive \/ CloseCallback \/ UNCHANGED vars
  BY <1>5 DEF Arrive, CloseCallback, vars
<1>6. ASSUME NEW fd, Callback(fd), Polling, UNCHANGED listener PROVE EndedOK'
  BY <1>6 DEF Callback, Polling, Unregistered, Resumes
<1>. QED
  BY <1>1, <1>2, <1>3, <1>4, <1>5, <1>6 DEF Next, Step, ServerIo, ServerError

LEMMA NextFirst == TypeOK /\ FirstOK /\ [Next]_vars => FirstOK'
<1> SUFFICES ASSUME TypeOK, FirstOK, [Next]_vars PROVE FirstOK'
  OBVIOUS
<1>. USE ListenerAssumption DEF TypeOK, FirstOK, socket
<1>1. ASSUME NEW a \in Acceptors, Wake(a) \/ Bind(a) \/ Accept(a) PROVE FirstOK'
  BY <1>1 DEF Wake, Bind, Accept, Register
<1>2. ASSUME NEW a \in Acceptors, AwaitAccept(a) PROVE FirstOK'
  BY <1>2 DEF AwaitAccept
<1>3. ASSUME NEW a \in Acceptors, DropAwaiter(a) \/ Elsewhere(a) \/ Finish(a) PROVE FirstOK'
  BY <1>3 DEF DropAwaiter, Elsewhere, Finish
<1>4. CASE Arrive \/ CloseCallback \/ UNCHANGED vars
  BY <1>4 DEF Arrive, CloseCallback, vars
<1>5. ASSUME NEW fd, Callback(fd), UNCHANGED <<listener, data>> PROVE FirstOK'
  BY <1>5 DEF Callback
<1>. QED
  BY <1>1, <1>2, <1>3, <1>4, <1>5 DEF Next, Step, ServerIo, ServerError

LEMMA NextServing == TypeOK /\ FirstOK /\ ServingOK /\ [Next]_vars => ServingOK'
<1> SUFFICES ASSUME TypeOK, FirstOK, ServingOK, [Next]_vars PROVE ServingOK'
  OBVIOUS
<1>. USE ListenerAssumption DEF TypeOK, FirstOK, ServingOK, socket, history, Defined, Unregistered
<1>1. ASSUME NEW a \in Acceptors, Wake(a) PROVE ServingOK'
  BY <1>1 DEF Wake, Idle
<1>2. ASSUME NEW a \in Acceptors, Bind(a) PROVE ServingOK'
  BY <1>2 DEF Bind
<1>3. ASSUME NEW a \in Acceptors, Accept(a) PROVE ServingOK'
  BY <1>3 DEF Accept, Register
<1>4. ASSUME NEW a \in Acceptors, AwaitAccept(a) PROVE ServingOK'
  BY <1>4 DEF AwaitAccept, AwaitReady
<1>5. ASSUME NEW a \in Acceptors, DropAwaiter(a) PROVE ServingOK'
  BY <1>5 DEF DropAwaiter
<1>6. ASSUME NEW a \in Acceptors, Elsewhere(a) PROVE ServingOK'
  BY <1>6 DEF Elsewhere
<1>7. ASSUME NEW a \in Acceptors, Finish(a) PROVE ServingOK'
  BY <1>7 DEF Finish
<1>8. CASE Arrive \/ CloseCallback \/ UNCHANGED vars
  BY <1>8 DEF Arrive, CloseCallback, vars, results
<1>9. ASSUME NEW fd, Callback(fd), Polling, UNCHANGED <<listener, data, strayed>> PROVE ServingOK'
  BY <1>9 DEF Callback, Polling, Idle, Resumes
<1>. QED
  BY <1>1, <1>2, <1>3, <1>4, <1>5, <1>6, <1>7, <1>8, <1>9 DEF Next, Step, ServerIo, ServerError

LEMMA NextDefined ==
  TypeOK /\ FirstOK /\ ServingOK /\ DefinedWhileServing /\ [Next]_vars => DefinedWhileServing'
<1> SUFFICES ASSUME TypeOK, FirstOK, ServingOK, DefinedWhileServing, [Next]_vars
             PROVE  DefinedWhileServing'
  OBVIOUS
<1>. USE DEF TypeOK, DefinedWhileServing, Defined, socket, history
<1>1. ASSUME NEW a \in Acceptors, Step(a) PROVE DefinedWhileServing'
  BY <1>1 DEF Step, Wake, Bind, Accept, AwaitAccept, DropAwaiter, Elsewhere, Finish
<1>2. CASE Arrive \/ CloseCallback \/ UNCHANGED vars
  BY <1>2 DEF Arrive, CloseCallback, vars
<1>3. ASSUME NEW fd, Callback(fd), Polling, UNCHANGED <<listener, strayed>>
      PROVE  DefinedWhileServing'
  BY <1>3 DEF Callback, Polling, Idle, ServingOK
<1>. QED
  BY <1>1, <1>2, <1>3 DEF Next, ServerIo, ServerError

\* Coroutines that only accept, and accept again before they suspend, never make
\* the callback touch an awaiter that is dead, spent or was never there.
THEOREM ServingIsDefined == Spec => []DefinedWhileServing
<1>1. Init => FirstOK /\ ServingOK /\ DefinedWhileServing
  BY DEF Init, FirstOK, ServingOK, DefinedWhileServing, Defined
<1>. QED
  BY <1>1, InitTypes, NextTypes, NextFirst, NextServing, NextDefined, PTL DEF Spec

-----------------------------------------------------------------------------
(* Connections are handed out in order. *)

\* Without an error an awaiter is ready for the connection that is fetched next,
\* and no other is.
ReadyOK ==
  ~failures => \A a \in Acceptors : awaiter[a] = "ready" =>
    accepted # NULL /\ \A b \in Acceptors : awaiter[b] = "ready" => b = a

\* The connection that waits is the last one taken.
FetchOK == Defined /\ accepted # NULL => accepted = taken /\ listener # "closed"

LEMMA NextReady == TypeOK /\ EndedOK /\ ReadyOK /\ [Next]_vars => ReadyOK'
<1> SUFFICES ASSUME TypeOK, EndedOK, ReadyOK, [Next]_vars PROVE ReadyOK'
  OBVIOUS
<1>. USE ListenerAssumption DEF TypeOK, ReadyOK, socket, history
<1>1. ASSUME NEW a \in Acceptors, Wake(a) \/ Bind(a) \/ Accept(a) PROVE ReadyOK'
  BY <1>1 DEF Wake, Bind, Accept
<1>2. ASSUME NEW a \in Acceptors, AwaitAccept(a) PROVE ReadyOK'
  BY <1>2 DEF AwaitAccept, AwaitReady, UvAccept
<1>3. ASSUME NEW a \in Acceptors, DropAwaiter(a) \/ Elsewhere(a) PROVE ReadyOK'
  BY <1>3 DEF DropAwaiter, Elsewhere
<1>4. ASSUME NEW a \in Acceptors, Finish(a) PROVE ReadyOK'
  BY <1>4 DEF Finish, EndedOK
<1>5. CASE Arrive \/ CloseCallback \/ UNCHANGED vars
  BY <1>5 DEF Arrive, CloseCallback, vars
<1>6. CASE ServerIo
  BY <1>6 DEF ServerIo, Polling, Callback, Resumes, UvAccept
<1>7. CASE ServerError
  BY <1>7 DEF ServerError
<1>. QED
  BY <1>1, <1>2, <1>3, <1>4, <1>5, <1>6, <1>7 DEF Next, Step

LEMMA NextFetch == TypeOK /\ EndedOK /\ FetchOK /\ [Next]_vars => FetchOK'
<1> SUFFICES ASSUME TypeOK, EndedOK, FetchOK, [Next]_vars PROVE FetchOK'
  OBVIOUS
<1>. USE ListenerAssumption DEF TypeOK, FetchOK, Defined, socket
<1>1. ASSUME NEW a \in Acceptors, Wake(a) \/ Bind(a) \/ Accept(a) PROVE FetchOK'
  BY <1>1 DEF Wake, Bind, Accept
<1>2. ASSUME NEW a \in Acceptors, AwaitAccept(a) PROVE FetchOK'
  BY <1>2 DEF AwaitAccept, UvAccept
<1>3. ASSUME NEW a \in Acceptors, DropAwaiter(a) \/ Elsewhere(a) \/ Finish(a) PROVE FetchOK'
  BY <1>3 DEF DropAwaiter, Elsewhere, Finish
<1>4. CASE Arrive \/ CloseCallback \/ UNCHANGED vars
  BY <1>4 DEF Arrive, CloseCallback, vars
<1>5. CASE ServerIo
  BY <1>5 DEF ServerIo, Polling, Callback, UvAccept
<1>6. CASE ServerError
  BY <1>6 DEF ServerError, Polling, Callback, UvAccept
<1>. QED
  BY <1>1, <1>2, <1>3, <1>4, <1>5, <1>6 DEF Next, Step
LEMMA UvAcceptOrder ==
  ASSUME TypeOK, HandedInOrder, Defined, listener # "closed",
         NEW fd \in Nat \cup {NULL}, fd # NULL => fd = Len(given) + 1, UvAccept(fd)
  PROVE  /\ \A i \in 1..Len(given') : given'[i] = i
         /\ accepted' = NULL /\ Len(given') = Len(given) + (IF fd = NULL THEN 0 ELSE 1)
<1>1. given \in Seq(Nat) /\ \A i \in 1..Len(given) : given[i] = i
  BY DEF TypeOK, HandedInOrder
<1>2. CASE fd = NULL
  BY <1>1, <1>2 DEF UvAccept
<1>3. CASE fd # NULL
  <2>1. given' = Append(given, fd) /\ accepted' = NULL
    BY <1>3 DEF UvAccept
  <2>2. fd \in Nat /\ fd = Len(given) + 1
    BY <1>3
  <2>3. /\ Len(given') = Len(given) + 1 /\ given'[Len(given) + 1] = fd
        /\ \A i \in 1..Len(given) : given'[i] = given[i]
    BY <1>1, <2>1, <2>2
  <2>4. Len(given) \in Nat
    BY <1>1
  <2>5. ASSUME NEW i \in 1..(Len(given) + 1) PROVE given'[i] = i
    BY <1>1, <2>2, <2>3, <2>4, <2>5
  <2>. QED
    BY <1>3, <2>1, <2>3, <2>5
<1>. QED
  BY <1>2, <1>3

LEMMA NextOrder ==
  TypeOK /\ EndedOK /\ ReadyOK /\ FetchOK /\ HandedInOrder /\ [Next]_vars => HandedInOrder'
<1> SUFFICES ASSUME TypeOK, EndedOK, ReadyOK, FetchOK, HandedInOrder, [Next]_vars
             PROVE  HandedInOrder'
  OBVIOUS
<1>0. Len(given) \in Nat /\ taken \in Nat
  BY DEF TypeOK
<1>1. ASSUME NEW a \in Acceptors,
             Wake(a) \/ Bind(a) \/ Accept(a) \/ DropAwaiter(a) \/ Elsewhere(a) \/ Finish(a)
      PROVE  HandedInOrder'
  BY <1>1 DEF Wake, Bind, Accept, DropAwaiter, Elsewhere, Finish, HandedInOrder, Defined,
              socket, results, history
<1>2. ASSUME NEW a \in Acceptors, AwaitAccept(a) PROVE HandedInOrder'
  <2>1. /\ Defined /\ listener # "closed" /\ UNCHANGED <<listener, taken, failures, fault>>
    BY <1>2 DEF AwaitAccept, EndedOK, history
  <2>2. CASE AwaitReady(a)
    <3>1. UvAccept(accepted) /\ (accepted = NULL => failures)
      BY <1>2, <2>2 DEF AwaitAccept, AwaitReady, ReadyOK
    <3>2. accepted # NULL => accepted = Len(given) + 1
      BY <1>0, <2>1 DEF HandedInOrder, FetchOK, Defined
    <3>3. accepted \in Nat \cup {NULL}
      BY DEF TypeOK
    <3>4. /\ \A i \in 1..Len(given') : given'[i] = i
          /\ accepted' = NULL /\ Len(given') = Len(given) + (IF accepted = NULL THEN 0 ELSE 1)
      BY <2>1, <3>1, <3>2, <3>3, UvAcceptOrder
    <3>5. hollow' => failures'
      BY <2>1, <3>1 DEF UvAccept, HandedInOrder
    <3>6. taken' = Len(given')
      BY <2>1, <3>4 DEF HandedInOrder
    <3>. QED
      BY <1>0, <3>4, <3>5, <3>6 DEF HandedInOrder
  <2>3. CASE ~AwaitReady(a)
    BY <1>2, <2>1, <2>3 DEF AwaitAccept, HandedInOrder, Defined, results
  <2>. QED
    BY <2>2, <2>3
<1>3. CASE Arrive \/ CloseCallback \/ UNCHANGED vars
  BY <1>3 DEF Arrive, CloseCallback, vars, HandedInOrder, Defined, socket, results, history
<1>4. CASE ServerIo
  <2>1. /\ Defined /\ listener # "closed" /\ accepted = NULL /\ taken = Len(given)
        /\ taken' = taken + 1 /\ UNCHANGED <<listener, failures>>
        /\ Callback(taken + 1)
    BY <1>0, <1>4 DEF ServerIo, Polling, Idle, HandedInOrder, history
  <2>2. CASE UvAccept(taken + 1)
    <3>1. /\ \A i \in 1..Len(given') : given'[i] = i
          /\ accepted' = NULL /\ Len(given') = Len(given) + 1
      BY <1>0, <2>1, <2>2, UvAcceptOrder, ListenerAssumption
    <3>2. hollow' => failures'
      <4>1. taken + 1 # NULL
        BY <1>0, ListenerAssumption
      <4>2. hollow' = hollow
        BY <2>2, <4>1 DEF UvAccept, TypeOK
      <4>. QED
        BY <2>1, <4>2 DEF HandedInOrder
    <3>. QED
      BY <1>0, <2>1, <3>1, <3>2 DEF HandedInOrder
  <2>3. CASE UNCHANGED results /\ accepted' = taken + 1
    BY <1>0, <2>1, <2>3, ListenerAssumption DEF HandedInOrder, results
  <2>. QED
    BY <2>1, <2>2, <2>3 DEF Callback
<1>5. CASE ServerError
  <2>1. /\ failures' /\ accepted = NULL /\ UNCHANGED <<listener, taken>> /\ Callback(NULL) /\ Defined
    BY <1>5 DEF ServerError, Polling, Idle
  <2>2. given' = given /\ accepted' = NULL
    BY <2>1 DEF Callback, UvAccept, results
  <2>. QED
    BY <2>1, <2>2 DEF HandedInOrder
<1>. QED
  BY <1>1, <1>2, <1>3, <1>4, <1>5 DEF Next, Step

\* Every connection is handed out once and in the order of arrival, and only an
\* error of libuv makes accept return a stream without one.
THEOREM ConnectionsInOrder == Spec => []HandedInOrder
<1>1. Init => EndedOK /\ ReadyOK /\ FetchOK
  BY DEF Init, EndedOK, ReadyOK, FetchOK
<1>2. Init => HandedInOrder
  BY DEF Init, HandedInOrder
<1>. QED
  BY <1>1, <1>2, InitTypes, NextTypes, NextEnded, NextReady, NextFetch, NextOrder, PTL DEF Spec
=============================================================================
