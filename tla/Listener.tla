------------------------------- MODULE Listener -------------------------------
(***************************************************************************)
(* uvio::net::TcpListener: the coroutines that accept from one listening   *)
(* socket, and libuv's uv__server_io underneath.                           *)
(*                                                                         *)
(* accept() makes an AcceptAwaiter and registers it (server_->data); the   *)
(* connection callback finds it there.  The awaiter is usually awaited at  *)
(* once and gone when co_await returns; it may also be kept.  libuv takes  *)
(* connections off the kernel's queue one at a time, announces each, and   *)
(* polls no further until uv_accept has fetched it.  Connections are       *)
(* numbered as they arrive.                                                *)
(***************************************************************************)
EXTENDS Integers, Sequences

CONSTANTS Acceptors,  \* the coroutines that call accept()
          Owner,      \* the one whose frame holds the listener
          MaxArrived, \* bound: the connections that arrive
          NULL        \* nullptr; no connection

ASSUME ListenerAssumption == /\ Owner \in Acceptors /\ NULL \notin Acceptors
                             /\ MaxArrived \in Nat /\ NULL \notin Nat

VARIABLES
  listener,  \* "new", "bound", "failed" (bind went wrong) or "closed"
  arrived,   \* connections 1..arrived have reached the kernel's queue
  taken,     \* connections 1..taken have been taken off it by libuv
  accepted,  \* accepted_fd: the one of them that waits for uv_accept, or NULL
  data,      \* server_->data: whose awaiter is registered, or NULL
  awaiter,   \* of each coroutine: "none", "waiting", "ready" (ready_ is set)
             \* or "spent" (awaited, still there, and handle_ still set)
  at,        \* "run", "accepting" (suspended on its awaiter), "elsewhere", "done"
  given,     \* history: the connections accept() has returned
  hollow,    \* history: accept() has returned a stream without a connection
  strayed,   \* history: after bind a coroutine without an awaiter suspended
             \* elsewhere, or ended
  lost,      \* history: an awaiter that was ready was dropped or replaced
  failures,  \* history: the callback has reported an error
  fault      \* how behaviour became undefined, or "none"

socket  == <<listener, arrived, taken, accepted>>
results == <<given, hollow>>
history == <<strayed, lost, failures>>
vars    == <<socket, data, awaiter, at, results, history, fault>>

TypeOK ==
  /\ listener \in {"new", "bound", "failed", "closed"}
  /\ arrived \in Nat /\ taken \in Nat /\ accepted \in Nat \cup {NULL}
  /\ data \in Acceptors \cup {NULL}
  /\ awaiter \in [Acceptors -> {"none", "waiting", "ready", "spent"}]
  /\ at \in [Acceptors -> {"run", "accepting", "elsewhere", "done"}]
  /\ given \in Seq(Nat) /\ hollow \in BOOLEAN
  /\ strayed \in BOOLEAN /\ lost \in BOOLEAN /\ failures \in BOOLEAN
  /\ fault \in {"none", "awaiter", "resume", "closing"}

Init ==
  /\ listener = "new" /\ arrived = 0 /\ taken = 0 /\ accepted = NULL
  /\ data = NULL
  /\ awaiter = [a \in Acceptors |-> "none"]
  /\ at = [a \in Acceptors |-> "elsewhere"]
  /\ given = << >> /\ hollow = FALSE
  /\ strayed = FALSE /\ lost = FALSE /\ failures = FALSE
  /\ fault = "none"

Defined == fault = "none"
Idle    == Defined /\ \A a \in Acceptors : at[a] # "run"

-----------------------------------------------------------------------------
(* What a running coroutine does. *)

\* What it awaited elsewhere has happened.
Wake(a) ==
  /\ Idle
  /\ at[a] = "elsewhere"
  /\ at' = [at EXCEPT ![a] = "run"]
  /\ UNCHANGED <<socket, data, awaiter, results, history, fault>>

\* bind reports success whatever uv_tcp_bind and uv_listen return.
Bind(a) ==
  /\ Defined /\ at[a] = "run"
  /\ listener = "new"
  /\ listener' \in {"bound", "failed"}
  /\ UNCHANGED <<arrived, taken, accepted, data, awaiter, at, results, history, fault>>

\* Mutants of Register, AwaitReady, Resumes and UvAccept: the awaiter is not
\* registered; it is taken to be ready at once; the callback sets ready_ only;
\* the connection stays with the socket; an error counts as a connection.
NotRegistered(a) == data
AlwaysReady(a) == awaiter[a] \in {"waiting", "ready"}
NeverResumes(a) == FALSE
AcceptCopies(fd) == /\ accepted' = fd
                    /\ given' = IF fd = NULL THEN given ELSE Append(given, fd)
                    /\ hollow' = (hollow \/ fd = NULL)
AcceptUnchecked(fd) == /\ accepted' = NULL
                       /\ given' = Append(given, fd)
                       /\ hollow' = hollow

\* The constructor of the awaiter points the socket at it.
Register(a) == a

\* accept(), up to the awaiter it returns.
Accept(a) ==
  /\ Defined /\ at[a] = "run"
  /\ listener \in {"bound", "failed"} /\ awaiter[a] = "none"
  /\ data' = Register(a)
  /\ awaiter' = [awaiter EXCEPT ![a] = "waiting"]
  /\ lost' = (lost \/ (data # NULL /\ awaiter[data] = "ready"))
  /\ UNCHANGED <<socket, at, results, strayed, failures, fault>>

\* uv_accept when fd is what libuv has accepted: fetches it, and libuv polls
\* again.  Its error is only logged, so without a connection the stream that
\* await_resume returns has none.
UvAccept(fd) ==
  /\ accepted' = NULL
  /\ given' = IF fd = NULL THEN given ELSE Append(given, fd)
  /\ hollow' = (hollow \/ fd = NULL)

AwaitReady(a) == awaiter[a] = "ready"

\* co_await on the awaiter.
AwaitAccept(a) ==
  /\ Defined /\ at[a] = "run"
  /\ awaiter[a] \in {"waiting", "ready"}
  /\ IF AwaitReady(a)
     THEN /\ UvAccept(accepted)
          /\ awaiter' = [awaiter EXCEPT ![a] = "none"]
          /\ UNCHANGED at
     ELSE /\ at' = [at EXCEPT ![a] = "accepting"]
          /\ UNCHANGED <<accepted, results, awaiter>>
  /\ UNCHANGED <<listener, arrived, taken, data, history, fault>>

DropAwaiter(a) ==
  /\ Defined /\ at[a] = "run"
  /\ awaiter[a] # "none"
  /\ awaiter' = [awaiter EXCEPT ![a] = "none"]
  /\ lost' = (lost \/ awaiter[a] = "ready")
  /\ UNCHANGED <<socket, data, at, results, strayed, failures, fault>>

Unregistered(a) == awaiter[a] \in {"none", "spent"}

\* The coroutine awaits something that is not this listener.
Elsewhere(a) ==
  /\ Defined /\ at[a] = "run"
  /\ at' = [at EXCEPT ![a] = "elsewhere"]
  /\ strayed' = (strayed \/ (listener = "bound" /\ Unregistered(a)))
  /\ UNCHANGED <<socket, data, awaiter, results, lost, failures, fault>>

\* The coroutine ends, the owner of the listener last.  The destructor closes
\* the socket, which ends with the frame while libuv has yet to finish closing.
Finish(a) ==
  /\ Defined /\ at[a] = "run"
  /\ a = Owner => \A b \in Acceptors \ {a} : at[b] = "done"
  /\ at' = [at EXCEPT ![a] = "done"]
  /\ awaiter' = [awaiter EXCEPT ![a] = "none"]
  /\ strayed' = (strayed \/ listener = "bound")
  /\ lost' = (lost \/ awaiter[a] = "ready")
  /\ listener' = IF a = Owner THEN "closed" ELSE listener
  /\ accepted' = IF a = Owner THEN NULL ELSE accepted
  /\ UNCHANGED <<arrived, taken, data, results, failures, fault>>

-----------------------------------------------------------------------------
(* The network and the loop. *)

Arrive ==
  /\ Defined
  /\ listener = "bound" /\ arrived < MaxArrived
  /\ arrived' = arrived + 1
  /\ UNCHANGED <<listener, taken, accepted, data, awaiter, at, results, history, fault>>

\* Whether the callback finds a coroutine suspended on the awaiter.
Resumes(a) == at[a] = "accepting"

\* The connection callback, with the connection fd or with an error (NULL).
\* Behaviour is undefined when the awaiter is gone or was never there, and when
\* it is spent: handle_ then resumes its coroutine wherever that is suspended.
Callback(fd) ==
  IF data = NULL \/ (data # NULL /\ Unregistered(data))
  THEN /\ fault' = IF data # NULL /\ awaiter[data] = "spent" THEN "resume" ELSE "awaiter"
       /\ accepted' = fd
       /\ UNCHANGED <<awaiter, at, results>>
  ELSE /\ UNCHANGED fault
       /\ IF Resumes(data)
          THEN /\ at' = [at EXCEPT ![data] = "run"]
               /\ \E w \in {"none", "spent"} : awaiter' = [awaiter EXCEPT ![data] = w]
               /\ UvAccept(fd)
          ELSE /\ awaiter' = [awaiter EXCEPT ![data] = "ready"]
               /\ accepted' = fd
               /\ UNCHANGED <<at, results>>

Polling == Idle /\ listener = "bound" /\ accepted = NULL /\ taken < arrived

\* uv__server_io takes the next connection, or fails to.
ServerIo ==
  /\ Polling
  /\ taken' = taken + 1
  /\ Callback(taken + 1)
  /\ UNCHANGED <<listener, arrived, data, history>>

ServerError ==
  /\ Polling
  /\ failures' = TRUE
  /\ Callback(NULL)
  /\ UNCHANGED <<listener, arrived, taken, data, strayed, lost>>

\* The loop finishes closing a socket that is no longer there.
CloseCallback ==
  /\ Idle
  /\ listener = "closed"
  /\ fault' = "closing"
  /\ UNCHANGED <<socket, data, awaiter, at, results, history>>

-----------------------------------------------------------------------------
Step(a) == \/ Wake(a) \/ Bind(a) \/ Accept(a) \/ AwaitAccept(a)
           \/ DropAwaiter(a) \/ Elsewhere(a) \/ Finish(a)

Next == \/ \E a \in Acceptors : Step(a)
        \/ Arrive \/ ServerIo \/ ServerError \/ CloseCallback

\* A running coroutine suspends or ends; the loop polls the socket at every
\* turn.  Nothing makes a client connect or a coroutine accept.
Fairness == /\ \A a \in Acceptors : SF_vars(AwaitAccept(a) \/ Elsewhere(a) \/ Finish(a))
            /\ SF_vars(ServerIo)

Spec == Init /\ [][Next]_vars /\ Fairness

-----------------------------------------------------------------------------
(* Properties. *)

\* Connections are handed out once each and in the order of arrival; what has
\* been taken and not handed out is the one that waits for uv_accept, or was
\* closed with the listener or when behaviour became undefined.  accept() returns
\* a stream without a connection only after an error of libuv, which the callback
\* stores in status_ and nobody reads.
HandedInOrder ==
  /\ hollow => failures
  /\ \A i \in 1..Len(given) : given[i] = i
  /\ Defined /\ listener # "closed" =>
       taken = Len(given) + (IF accepted = NULL THEN 0 ELSE 1)

\* Coroutines that do nothing but accept, and accept again before they suspend,
\* as the servers' loops do, never make the callback use a dead awaiter or
\* resume a coroutine at the wrong place; closing is another matter.
DefinedWhileServing == ~Defined => strayed \/ listener = "closed"

\* An accept that is registered hears of a connection, unless one that had been
\* announced to an awaiter was forgotten with it.
AcceptHears ==
  \A a \in Acceptors :
    at[a] = "accepting" /\ data = a /\ taken < arrived
      ~> at[a] # "accepting" \/ data # a \/ lost \/ ~Defined
=============================================================================
