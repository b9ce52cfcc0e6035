# uvio, specified in TLA+

uvio is a C++20 library of coroutines over libuv: TCP streams, buffered readers
and writers, codecs (HTTP, WebSocket, length-delimited), servers, and a latch.
Everything but functions given to the pool runs on the thread of the loop; a
coroutine runs inside a libuv callback until it suspends. This directory holds
TLA+ modules of its core, configurations for TLC, and proofs for TLAPS.
`PROJECT.json` maps every definition to the lines it models, and lists the runs, the
properties, the hazards they are about and the theorems.

## The system

| Component | State | Operations | Who it talks to |
|---|---|---|---|
| `net/tcp_stream.hpp` TcpStream | a `uv_tcp_t`; `socket_->data`, the awaiter of the read under way; the awaiters of writes | read, read_exact, write, connect, into_split, destructor | libuv's callbacks resume its callers |
| `net/tcp_listener.hpp` TcpListener | listening socket; `server_->data`; `ready_` and `handle_` of its awaiter | bind, accept, destructor | as above |
| `io/buffer.hpp` StreamBuffer | cells, `r_pos_`, `w_pos_` | write_to, read_from, r_increase, w_increase, reset_pos, reset_data, find_flag | buffered reader and writer |
| `io/impl/buf_reader.hpp` | a StreamBuffer over a stream `io_` | read, read_exact, read_until, read_line | awaits `io_` |
| `io/impl/buf_writer.hpp` | a StreamBuffer over a stream `io_` | write, flush, write_all | awaits `io_` |
| `io/stream.hpp`, `io/split.hpp` | both buffers; shared ownership of a stream | moves, split, reunite | |
| `sync/latch.hpp` Latch | an atomic counter, an atomic list of awaiters | count_down, wait, arrive_and_wait | resumes its waiters |
| `coroutine/task.hpp`, `runtime.hpp` | frames, their owners and callers, the loop | await, take, destroy, block_on, spawn | everything |
| `work.hpp` | a request to the pool | execute | the pool |
| `time/sleep.hpp`, `net/dns.hpp` | one-shot awaiters | sleep, resolve | libuv |
| `codec/*.hpp` | none between messages | encode, decode | buffered reader and writer |
| `net/http/*`, `net/websocket/*` | one session per connection | servers, clients, frames | codecs, listener |
| base64, SHA-1, log, debug, result, strings | none | pure functions, output | |

What each must get right. TcpStream: no wakeup lost, no dead awaiter used, spans in
order, ends reported at ends. Listener: every connection handed out once. Tasks: every
frame destroyed once, callers resumed. Awaiters: resumed once, whatever came first.
Buffers: bytes in order, each once, counts right, errors halfway included. Latch: nobody
early, nobody forgotten. Codecs: decode is the inverse of encode, and stays in step with the
stream. Sessions: messages intact, failures told from messages.

What is hard in it: a callback that finds the
awaiter it was given gone, or whose awaiter never hears of it; a coroutine that
is resumed *inside* libuv's read loop and starts the next read there; 0 bytes,
which mean "none yet" to libuv and "the end" to read_exact; one buffer shared by
calls of three kinds, with compaction and a bypass; state read again after an
await; errors halfway; the atomics of the latch when functions on the pool count
it down. `hazards` in `PROJECT.json` lists each at its line.

## The modules

- **TcpStream**: one connected stream, the coroutine that reads it, any number
  that write to it, and libuv underneath. `mode` and `again` are libuv's view of
  the handle (`UV_HANDLE_READING`; being inside the loop of `uv__read`), `data` is
  `socket_->data`, `at` says where each coroutine is. Bytes are counted: `sent`,
  `drained`, and the caller's span as `want`, `room`, `base`. `Read`, `Write`,
  `Finish` are what a coroutine may do; `DeliverBytes`, `DeliverNothing`,
  `DeliverEof`, `DeliverReset`, `DeliverNoBufs` are one turn of `uv__read`, each with the
  whole of `read_cb`, `await_resume` and the loop of `read_exact`; `WildCallback` is
  a callback that uses an awaiter that is gone, after which nothing is defined.
- **StreamBuffer**: the buffer as operators on a record `[cell, r, w]`. Cells keep
  what was in them, because the search for a flag sees it.
- **BufReader** (extends StreamBuffer): one caller. An action is a call up to its
  first await (`ReadStart`, `ExactStart`, `CallBig`, `ReadUntil`) or whole
  (`ReadBuffered`, `ExactBuffered`), or the answer of `io_` with all the call does
  until its next await or its end (`IoRead`, `IoReadExact`, `IoFail`, `IoNoBufs`).
  Bytes are numbers; their kinds, `text`, matter to the search only. A call that
  fails an assertion sets `fault`, and so does a search past the end of the cells,
  which is undefined and may end in the same assertion (`overrun`).
- **ByteChannel**: what a stream and a buffered reader promise their callers, the
  abstract specification of TcpStream's reads and of BufReader: numbered bytes come in
  and are handed out in chunks, each once and in order; only a call that has not
  succeeded may leave some out, and then it hands out nothing.
- **BufWriter** (extends StreamBuffer): any number of callers of one writer; `io_`
  answers in the order of issue, with success or, from some point on, with errors.
  `overlap` records that the buffer was used while another call awaited a slice
  of it: the code reads the buffer again after the await, so nothing is promised
  from then on.
- **Latch**: the counter, the list of awaiters, the coroutines on the loop and the
  functions on the pool, one atomic access a step; `Resume` runs a waiter to its
  end and destroys its awaiter. `fault` says how behaviour became undefined.
- **Coroutines**: Tasks and frames, `block_on`, `spawn`, and the four awaiters that one
  event of libuv ends: sleep, execute, resolve, connect. `frame`, `holder` and
  `caller` are the coroutine frame, the Task that owns it and `promise().caller_`;
  `stack` is the nesting of native `resume()` calls, so that a spawned coroutine runs
  inside its spawner and awaiting swaps the top (`Await`, `Finish`). A program is
  nothing but the steps it takes: `Create`, `Await`, `Spawn`, `SpawnFunction`,
  `DropTask`, `Overwrite` (move assignment), `Start`, `AwaitEvent`, `DropAwaiter`, `Finish` in
  any order, so the runs cover every program of N coroutines. `Fire` is the callback of
  a request, `FireOrphan` one whose awaiter is gone. `unusual` and `unconnected` are the
  history of the awaiter a coroutine has, and end with it (`AwaiterGone`).
- **Listener**: the coroutines that accept from a TcpListener. `data` is
  `server_->data`, `awaiter` its `ready_` and `handle_`, `accepted` libuv's
  `accepted_fd`: libuv announces one connection and polls no further until it is fetched.
  `ServerIo` and `ServerError` are the connection callback with all it resumes;
  `Accept` and `AwaitAccept` the two halves of `co_await listener.accept()`.
- **Codecs**: lengths and bytes bit by bit: the varint of the length-delimited codec,
  the 32 bits of the fixed one, the three forms of a WebSocket length, the mask,
  base64. A number is the set of the positions of its ones, so 64 bits cost nothing and
  signed chars and casts are what they are. Pure operators.
- **Exchange**: what is encoded at one end and decoded at the other, and the property
  `MessagesIntact` that a codec promises of it, without the wire between them.
- **Framing** (extends Codecs and Exchange): messages through one of the codecs over a
  connection that is cut anywhere. A message of no bytes is there once its header is:
  `read_exact` of nothing succeeds, also at the end of the stream.
- **Web** (extends Codecs): a WebSocket or foreign client and a WebSocket or HTTP server
  on one connection. `Answer` is the server's coroutine from decode to the response;
  `Encode`, `Recv`, `Close` are the codec's frames under the handlers' `send`, `recv` and
  `close`. `setup` picks the programs and whether asserts are compiled in. A foreign client
  may leave a frame unmasked, which the server does not see: it takes four bytes for the
  mask. `Outcome` lists what `recv` may come to: a frame that is cut may fail an assertion,
  since its first two bytes may be missing, and a frame that is not read to its end
  (`ReadToEnd`) leaves the reader astray. The reader of the connection is taken to be ideal
  (`Consumed`): what the buffered reader does is BufReader.
- **MC\*** are the instances for TLC; **\*Proofs** hold the theorems.

How they compose. StreamBuffer is part of BufReader and BufWriter. TcpStream and
BufReader both implement ByteChannel. In TcpStream `given` is what the reader had taken
before the call under way, since the bytes a span already holds are its caller's only
when the call succeeds; in BufReader it is what has left the buffer. ByteChannel is what
BufReader takes its `io_` for (some bytes, the next ones, or none, or an error), and what
Framing and Web take their readers for: they add that errors come at the end only, and
the runs tcp_exact_eof and buf_reader_* say where the code falls short of that. The awaiters of TcpStream,
Listener and Latch are special cases of what Coroutines says of frames, which are not
modelled again there. The accept loops of the servers are Listener's
coroutines, their connections Web's.

What is external, modelled from how the code uses it: the peer and the network;
`uv__read` (it reads until a read is short, at most 32 times, which is left open by
`LeaveRead`; an empty span gives `UV_ENOBUFS` and leaves the handle reading; the
end of the stream stops it; an error takes its flags away for good); `uv_write`
(in order; it fails at once on a broken handle and then never calls back);
`uv__server_io` and `uv_accept`; the scheduling of the pool. The latch is taken to be
sequentially consistent. That headers which were moved from are empty is what the
standard libraries in use do; the standard leaves it open.

## The runs

| Run | Instance | Shows |
|---|---|---|
| tcp_stream | reader c1 also writes, c2 writes; spans of 0, 1, 2; messages of 0, 1; 3 bytes sent | no callback uses a dead awaiter unless an empty span was read; no lost wakeup; the stream implements ByteChannel: spans are filled in order, and every read goes on where the last one ended; the end reported only at the end; reads and writes end |
| tcp_exact_eof | same | **violated**: read_exact reports UnexpectedEOF while the peer is there |
| buf_reader | 3 cells; spans of 0, 1, 3, 4; every text of 5 bytes; a flag of 2 that can overlap itself | BufReader implements ByteChannel; read_until stops at the first flag and does not miss one; compaction leaves room; failed calls keep the buffer; calls end |
| buf_reader_stale | same | **violated**: the assertion of r_increase, after a read that emptied the buffer |
| buf_reader_room | same | **violated**: read_until awaits without room although the buffer is not full of readable bytes |
| buf_writer | 2 callers, 2 cells, messages of 1 to 3, 4 bytes in all | order, completeness and counts, errors included, without overlap; calls end |
| latch | 3 arriving coroutines with the owner, 1 waiting, 2 functions on the pool | nobody early, no lost wakeup; defined as long as the last arrival is on the loop |
| coroutines | 3 coroutines; the first sleeps and connects, the second uses the pool and looks up names, the third sleeps | every program of them destroys each frame once; who is suspended has an event to come, but for the errors that connect and resolve keep to themselves and a sleep awaited twice; coroutines that started end |
| listener | 2 coroutines that accept, 3 connections, errors of libuv | connections handed out once and in order; the callback finds its awaiter while the coroutines do nothing but accept; an accept hears of a connection |
| framing | 2 messages of 12 lengths from 0 to 2^64 - 1; 6 strings of base64 | decoding gives back what came whole, wherever the wire is cut, and never loses its place |
| web | lengths 5, 40000, 70000; masks of a foreign client, or none; 2 frames of the client, 1 of the server; 16 programs | messages arrive unchanged and in order; recv goes wrong for the causes named and no other; the handshake ends |
| latch_next | 3 arriving coroutines, as in the test | **violated**: next_ is read from a destroyed awaiter |

The bounds. tcp_stream: two writes and a read in flight at once, spans smaller
than, as large as and larger than what is there, a read_exact of two reads, and a
third byte for the read that follows it. buf_reader: four is the first size that
bypasses three cells; five bytes fill the buffer, compact it and fill it again;
two flags fit into it. buf_writer: a message fits, fits an emptied buffer only,
or is larger; four bytes let a drain follow a buffered write and be followed by
another. latch: two threads of the pool race with the loop and with each other.
coroutines: a coroutine that waits for one that waits, a spawner that goes on, and a Task
that is overwritten need three. listener: one connection announced, one behind it in the
kernel's queue, one more to come. framing: the boundaries of bytes and of groups of seven
bits, both limits of the fixed codec's 32 bits, and a second message that shows
whether the first was read to its end. web: one length of each form (40000 is misread;
for other lengths of the 16-bit form there is a theorem), two frames of the client to see
a buffer sent again and the order kept, one of the server.
Bounds are constants (`MaxSent`, `MaxTaken`, `MaxAccepted`, `MaxArrived`,
`MaxMessages`, `N`) in the guards.
Deadlock checking is off where the system may stop: all coroutines done, a
text at its end, undefined behaviour reached.

Fairness. TcpStream: a running coroutine reaches its next suspension (WF); every
turn of the loop polls every handle, so a read that is possible again and again
happens (SF on `UvRead`); writes complete or fail (SF on `WriteDone`), which assumes
a peer that reads or goes away. BufReader: `io_` answers with bytes now and then,
or fails. BufWriter: `io_.write` answers. Latch: each thread makes steps. Coroutines: a
coroutine that may return again and again does (SF on `Finish`), and a pending request is
answered (SF on `Fire`): both wait for their turn on one thread, which weak fairness would
not give them. Listener: a running coroutine suspends or ends, and every turn of the loop
polls the socket (SF). Web: a step of the handshake that is possible is taken (WF on
`SendRequest`, `Serve`, `RecvResponse`). No fairness makes a coroutine call, a peer send, a
client connect, or an error happen. No code in the repository sets a timeout, so a
peer that is silent for ever leaves its reader waiting; the models let that happen
wherever no property forbids it.

Each property also has a mutant: a plausible slip in one definition (operators
named in comments as mutants) that makes TLC find the property violated.

## The findings

1. **read_exact takes "nothing yet" for the end** (tcp_stream.hpp:154). A read that
   filled its span makes `uv__read` go round again; an awaiter registered meanwhile
   gets 0 bytes.
2. **read_until sees bytes that are not there** (buffer.hpp:91). The string searched
   ends at a zero byte, not at `w_pos_`. `AssertNeedsMix`, which is proved, says
   that it takes a `read` or `read_exact` on the same reader; the HTTP codec mixes them.
   It says nothing of a search that has left the cells of a full buffer.
3. **read_until runs out of room** (buf_reader.hpp:118). It never starts the buffer over.
4. **The latch reads a destroyed awaiter** (latch.hpp:78), in its own test.

Not findings, but worth knowing; each is an exception that a property names, and without
it the property is violated. No document, comment, assertion or test of the repository
states the contrary, with one exception: callers of connect handle an error of it
(`websocket_client.hpp:31`, `examples/socks5_server.cpp:250`), which the code never delivers.

- a suspended `flush` or draining `write` loses what others append (`overlap`);
- a latch whose last arrival is on the pool may resume a waiter twice or be used
  after its owner ended (`LoopIsSafe`);
- a connect that fails never resumes its coroutine, and a lookup that is refused at once
  gets no callback (`SuspendedWillWake`); a connect awaiter that was kept while the connect
  failed, or that is awaited twice, gives out a stream without a connection
  (`StreamIsConnected`, which asks it of each coroutine's own awaiter);
- a sleep awaited twice waits for ever (`SuspendedWillWake`);
- assigning to a Task forgets the frame it held (`leaked`); `spawn` of a function runs a
  coroutine whose closure is gone (`fault = "closure"`);
- an accept after an error of libuv gives out a stream without a connection
  (`HandedInOrder`); the callback uses a dead awaiter when a connection arrives while the
  coroutine that accepted is suspended elsewhere (`DefinedWhileServing`);
- the fixed codec cuts a length to 32 bits and sends the whole text (`TooLong`);
- half of the lengths of the 16-bit form of a WebSocket frame, those from 32768 on,
  are read with the low byte all ones (`Misread`);
- a client that sends the same buffer twice sends it masked (`again`), the body of a
  request or response is never read, a client takes any response for a handshake, and
  recv asserts on a CLOSE frame and at the end of the stream, or without asserts gives a
  message that nobody sent (`TroubleHasCause`).

## The proofs

Checked by TLAPS for all values of the constants that satisfy the named
assumptions: `SizesAssumption`, `SizeAssumption`, `ReaderAssumption` and
`WriterAssumption` (sizes are natural numbers, a buffer has at least one cell, the
flag and a written message are not empty), `CorosAssumption`, `ListenerAssumption` and
`LatchAssumption` (NULL and main are not coroutines, the owner is one; the sets that
the latch counts are finite), `WebAssumption` (lengths are natural numbers, the text
and the masks are bytes) and `FramingAssumption` (lengths have 64 bits, texts are bytes,
the number of messages is a natural number).

- **TcpStreamProofs**. `TypeCorrect`; then `NoDeadAwaiter` and `NoLostWakeup` from an
  invariant that ties the handle to the awaiter: a handle that reads has a live
  awaiter or an empty span was read, a suspended reader has a handle that is
  not stopped, a coroutine with a write in flight awaits it. The property alone is not
  inductive because `Finish` must know that a suspended coroutine is not done.
  `SpansFollowStream` and `EndIsReported` need that the room left and the bytes taken
  add up to the span, and that a finished read_exact has no room left. `StreamIsChannel`,
  the refinement of ByteChannel, adds `CallUnderway`: while a read is suspended it has no
  result, has taken nothing back, and one that is not exact has taken nothing at all. It
  also needs that a suspended reader has no write in flight, whose callback would resume
  it and hand out a span half filled. Each way a call begins, ends well (`CallSucceeds`)
  or ends badly (`CallFails`) is a step of the channel, and what others do leaves it
  alone (`CallAlone`).
- **StreamBufferProofs**. What each operation does to `Holds(b, first, last)`: "the
  readable bytes are those numbered first to last". These lemmas are all the rest
  knows of the cells.
- **BufReaderProofs**. `ReaderInv` = types, `BufferIsNext` and `Calls`; the last says
  that a bypassing call has emptied the buffer and has its bytes in order in the
  span, and that a waiting one has room. Each action preserves it and is a step of
  ByteChannel, which gives `BufferedBytesAreNext`, `RoomWhenReading` and the
  refinement `ReaderIsChannel`. `AssertNeedsOtherCalls` needs a second invariant,
  `Unmixed`: without read and read_exact the cells behind `w_pos_` still hold the zeros
  of a new buffer, where every search ends. `FailureGivesUpNothing` is an action
  property from `ReaderInv`.
  `TypeCorrect` adds the types of the rest. `LineEndsAtFirstFlag` and `NoFlagIsMissed` rest
  on `FlagInv`, which adds that what is readable is text: the slice found is the least
  one (that there is a least is `LeastExists`, by well-founded induction), a flag among
  the readable bytes is a slice if no zero byte precedes it, and a slice beyond `w_pos_`
  is longer than any readable one.
- **BufWriterProofs**. `WriterInv` holds types always, and while `overlap` is clear four
  more parts: `Ordered` (what was sent is 1, 2, 3, ...), `Alone` (one call at most
  awaits a slice), `Balance` (without a slice awaited the buffer holds what follows the
  bytes sent; with one it has been sent, and the message that waits for the
  drain comes next), `Counts` (what a call has still to add to `written_bytes`).
  `InOrder` is not inductive alone: the next message continues the numbers only
  because of `Balance`, and that survives an await only because of `Alone`.
  `FlushKeeps` covers flush wherever it is entered; each action has a lemma. The
  theorems are `TypesHold`, `SentInOrder`, `NothingForgotten`, `CountsAreRight`.

- **LatchProofs**. `CountOK`: as long as behaviour is defined, `expected_` is the number of
  functions and coroutines that owe an arrival (a cardinality, hence finite sets). With
  `LoopOK` (whom the loop runs) and `ZeroOK` (only the thread that counted to zero
  notifies) it gives `TypeCorrect` and `PassedAfterLast`. `LoopNeverBreaks` needs in
  addition the shape of the list: there is a rank r that falls along `next_`, all on the
  list are suspended until the walk, and those ahead of the cursor still are. The rank is
  a witness and not part of the state, so no bound on the length of the list is needed.
- **ListenerProofs**. `TypeCorrect`; `ServingIsDefined` from `ServingOK`: until somebody strays,
  the registered awaiter waits or its coroutine is running and has yet to accept again.
  `ConnectionsInOrder` from `ReadyOK` and `FetchOK`: without an error an awaiter that is
  ready is the only one and has a connection to fetch, and that is the one taken last.
- **CoroutinesProofs**. `FrameInv` ties `frame`, `holder`, `caller` and `stack` together:
  a coroutine is on the stack once exactly when it is active (`StackOK`), a Task that
  has not started or is done is held by somebody who goes on (`HolderOK`), a started one
  is held by its caller or by nobody (`CallerOK`), and one that waits has one callee
  (`CalleeOK`). Each part needs the others: `Finish` returns to the caller only because
  that one is waiting for no one else. It gives `EveryFrameHasAnOwner`. `WakeInv` says what
  each awaiter may be in each state of its coroutine, and gives `NobodyForgotten` and
  `ConnectGivesConnection`.
- **CodecsProofs**, on Codecs, Web and Framing. First facts about the operators of Codecs
  for every argument:
  `SwapTwice` by the permutation of the bits; `VarintRoundTrip` for every 64-bit length
  with anything behind it, `FixedKeepsLow32`, `LongLengthKept`, `ShortLengthSignExtended`
  (what the 16-bit form is decoded to, right or wrong), `LengthKept` for all three forms
  together, `MaskTwice` at every length, `SextetsKept` for
  one group of base64 and `Base64RoundTrip` for a text of any length: the first letters
  decode to a beginning of the text, all of them to all of it. Then the invariant of Web, for
  all lengths, texts and masks and any number of frames: the types; `Heads`, which says
  what each end may write before the other has passed the handshake; and for each
  direction a `Channel`. Neither property is inductive. `MessagesGenuine` speaks of what
  was received, but the next message comes from the wire: `InStep` numbers the messages
  on the wire so that the first continues those received and the last is the last one
  sent unless the connection was lost; a frame that a client has not masked is none
  (`Meant`). A cut wire keeps the numbers of what is left,
  which is `CutUnits`. `TroubleHasCause` needs that every unit `Fits` what its writer
  did, that `Heads` keeps a handshake from being read as a frame, and `LengthKept`.
  `Kept` says that the buffer of an end holds what it sent last, masked if it is the
  client, which is why a second send of it is in `again`.
  Last the invariant of Framing, `FramingInv`. `MessagesIntact` is not inductive: it says
  nothing of the wire, from which the next message comes. `Laid` does: there are positions
  such that each message that has come whole and is not decoded lies there as its frame,
  one frame ends where the next begins, and behind the last is at most a beginning
  (`Begun`) of the next, after the connection has ended, and less than the header
  of it if it has no text, since that would be all of the message. Encoding lays one frame more,
  decoding takes the first, and a cut keeps those before it. That `whole` is right after
  a cut is a matter of counting the texts left: they are in bijection with the frames
  (`TextsCounted`), and the last frame that a cut leaves whole exists by well-founded
  induction (`LastWhole`). A header is read exactly as it was written by
  `VarintRoundTrip` and `FixedKeepsLow32`, and a header that is cut is never taken for
  one, because each of its bytes says that another follows (`HeaderIsCut`). For base64
  the wire is the letters, or the first of them, and `Base64RoundTrip` does the rest.
  `FramingIsIntact` is the theorem.

Only model-checked is liveness: `ReaderProgress`, `WriterProgress`, `CallsEnd` (of reader
and writer), `AllPass`, `Finishes`, `AcceptHears` and `HandshakeEnds`. Fairness and
ENABLED are out of the prover's reach. Every invariant and action property of the runs
that pass, and both refinements, are theorems.

## Not modelled

- The HTTP client: a wrapper of libcurl's multi interface, where the order of the
  callbacks, which is all there is to check, is the library's and not in the source.
- Logging, debugging, SHA-1, parsing of header text, routing by regular expression,
  and the value types (`result.hpp`, `scope_exit.hpp`, `string_utils.hpp`): no protocol.
- `reunite` and `take_inner` of the split halves and the move assignments of streams.
- A Task that two coroutines await, and a read awaiter that is kept before it is
  awaited: nothing in the repository does it. A second reader of one stream neither.
- libuv's own list of handles. The timer of a sleep, and the client of a connect or an
  accept whose awaiter goes before it is handed out, stay in it after their memory is gone;
  every later `uv_*_init` and `uv_close` writes to its neighbours in the list, so this can
  corrupt memory in ordinary use. The list is libuv's, and the modules have no part of it.
- An accept awaiter that is awaited again after it has given its stream.
- Casts of sizes to int above 2 GiB in the buffers, and masked texts above 4 GiB, which the
  32-bit index of `apply_mask` (websocket.hpp:112) cannot count.
- The programs under `examples` and the vendored headers `backward.hpp` and
  `expected.hpp`; the two headers are more than half of the lines under `src`.

`hazards` in `PROJECT.json` lists, with a reason, those that no property covers.
