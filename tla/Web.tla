--------------------------------- MODULE Web ---------------------------------
(***************************************************************************)
(* One connection to a WebsocketServer or an HttpServer, from a            *)
(* WebsocketClient or from a foreign one: the handshake over HttpCodec,    *)
(* then the frames of WebsocketCodec that the handlers exchange.           *)
(*                                                                         *)
(* wire[e] holds the units that end e has written and its peer not read: a *)
(* request, a response, a body, a frame.  Of a text only the first bytes   *)
(* are kept.  Readers wait for more until the peer has closed or the       *)
(* connection is lost; what a unit lacks then, read_exact reports, and     *)
(* WebsocketCodec does not look.                                           *)
(***************************************************************************)
EXTENDS Codecs

CONSTANTS Lengths,  \* of the messages
          Text,     \* the first bytes of every text
          Masks,    \* those of a foreign client
          MaxSent   \* bound: the frames that each end writes

ASSUME WebAssumption == /\ Lengths \subseteq Nat /\ Text \in Seq(Byte)
                        /\ Masks \subseteq [1..4 -> Byte] /\ MaxSent \in [{"client", "server"} -> Nat]

Ends    == {"client", "server"}
Peer(e) == IF e = "client" THEN "server" ELSE "client"

VARIABLES
  setup,   \* the programs: client, server, whether asserts are compiled in,
           \* and the ends that have a handler for the session
  pc,      \* of each end: "start", "asked" (a client that has sent its
           \* request), "session" or "over"
  wire,
  lost,    \* the connection is gone
  buffer,  \* the message each handler sent last, as its buffer is now
  frames,  \* how many frames each end has written
  sent,    \* history: the messages in them
  again,   \* history: those that were sent from the buffer of the one before
  odd,     \* history: the end has written a body, or a frame that is no message
  got,     \* the messages each end has received
  trouble  \* of each end: "none", "phantom" (recv gave a message that nobody
           \* sent), "abort" (a failed assert) or "astray" (it takes other bytes
           \* for a frame, or more than the frame for its text)

session == <<buffer, frames, sent, again, odd, got, trouble>>
vars    == <<setup, pc, wire, lost, session>>

Message(n, text) == [n |-> n, text |-> text]
NoMessage        == Message(0, << >>)
Fresh(n)         == Message(n, SubSeq(Text, 1, IF n < Len(Text) THEN n ELSE Len(Text)))

Programs == [client : {"websocket", "foreign"}, server : {"websocket", "http"},
             debug : BOOLEAN, handlers : {{}, Ends}]

TypeOK ==
  /\ setup \in Programs
  /\ pc \in [Ends -> {"start", "asked", "session", "over"}]
  /\ \A e \in Ends : \A i \in 1..Len(wire[e]) :
       wire[e][i].kind \in {"request", "response", "body", "frame"}
  /\ lost \in BOOLEAN /\ odd \in [Ends -> BOOLEAN]
  /\ \A e \in Ends : frames[e] \in 0..MaxSent[e]
  /\ \A e \in Ends : /\ Len(sent[e]) <= frames[e] /\ Len(got[e]) <= frames[Peer(e)]
                     /\ again[e] \subseteq 1..Len(sent[e])
  /\ trouble \in [Ends -> {"none", "phantom", "abort", "astray"}]

Init ==
  /\ setup \in Programs
  /\ pc = [e \in Ends |-> "start"]
  /\ wire = [e \in Ends |-> << >>]
  /\ lost = FALSE
  /\ buffer = [e \in Ends |-> NoMessage]
  /\ frames = [e \in Ends |-> 0]
  /\ sent = [e \in Ends |-> << >>] /\ got = [e \in Ends |-> << >>]
  /\ again = [e \in Ends |-> {}] /\ odd = [e \in Ends |-> FALSE]
  /\ trouble = [e \in Ends |-> "none"]

Foreign(e) == e = "client" /\ setup.client = "foreign"

-----------------------------------------------------------------------------
(* The connection. *)

\* What write and flush of units do to the wire.
Written(e, units) == IF lost THEN wire ELSE [wire EXCEPT ![e] = @ \o units]

Arrived(e, kind) == wire[e] # << >> /\ Head(wire[e]).kind = kind

\* Mutants of AtEnd and Received: a reset is not reported to who waits; a frame
\* that was read is read again.
OnlyClosed(e)  == wire[e] = << >> /\ pc[e] = "over"
NotConsumed(e) == wire

\* Nothing more comes from e: it has closed its stream, or the connection is
\* lost.
AtEnd(e) == wire[e] = << >> /\ (lost \/ pc[e] = "over")

\* The first unit from e has been read.
Consumed(e) == [wire EXCEPT ![e] = Tail(@)]

\* What recv reads of what e sent.
Received(e) == IF wire[e] = << >> THEN wire ELSE Consumed(e)

\* What is left of units that are cut after the first k, perhaps inside a frame.
Cuts(units, k) ==
  {SubSeq(units, 1, k)} \cup
  (IF k < Len(units) /\ units[k + 1].kind = "frame"
   THEN {Append(SubSeq(units, 1, k), [units[k + 1] EXCEPT !.whole = FALSE])} ELSE {})

\* The connection is reset: of what is on its way, some is lost.
Lose ==
  /\ ~lost
  /\ lost' = TRUE
  /\ \E i \in 0..Len(wire["client"]), j \in 0..Len(wire["server"]) :
       \E c \in Cuts(wire["client"], i), s \in Cuts(wire["server"], j) :
         wire' = [e \in Ends |-> IF e = "client" THEN c ELSE s]
  /\ UNCHANGED <<setup, pc, session>>

-----------------------------------------------------------------------------
(* The handshake. *)

\* The names in a header, as far as anyone looks for them.
Names == {"Upgrade", "Sec-WebSocket-Key", "Content-Length"}

Request(good, names) == [kind |-> "request", good |-> good, names |-> names]
Response(names)      == [kind |-> "response", names |-> names]
Body                 == [kind |-> "body"]

\* A line that parse_request_line takes, and a header that parse_headers finds.
WellFormed(request) == request.good
Has(head, name)     == name \in head.names

\* The answer of a route's handler, or the page that is not found.
Page == <<Response({"Content-Length"}), Body>>

BodyOf(names) == IF "Content-Length" \in names THEN <<Body>> ELSE << >>

\* decode looks for Content-Length in headers that it has moved from: they are
\* empty, and no body is ever read.
MovedFrom(head) == [head EXCEPT !.names = {}]

\* What decode leaves of the units of e, the first of which is the head of a
\* request or a response.
Decoded(e) ==
  IF Has(MovedFrom(Head(wire[e])), "Content-Length")
  THEN [wire EXCEPT ![e] = Tail(Tail(@))] ELSE Consumed(e)

Serves(e) == IF e \in setup.handlers THEN "session" ELSE "over"

\* A flush that fails ends the client.
SendRequest ==
  /\ ~Foreign("client") /\ pc["client"] = "start"
  /\ wire' = Written("client", <<Request(TRUE, {"Upgrade", "Sec-WebSocket-Key"})>>)
  /\ \E next \in {"asked"} \cup (IF lost THEN {"over"} ELSE {}) :
       pc' = [pc EXCEPT !["client"] = next]
  /\ UNCHANGED <<setup, lost, session>>

\* A foreign client asks for what it likes.
ForeignRequest ==
  /\ Foreign("client") /\ pc["client"] = "start"
  /\ \E good \in BOOLEAN, names \in SUBSET Names :
       /\ wire' = Written("client", <<Request(good, names)>> \o BodyOf(names))
       /\ odd' = [odd EXCEPT !["client"] = "Content-Length" \in names]
  /\ pc' = [pc EXCEPT !["client"] = "session"]
  /\ UNCHANGED <<setup, lost, buffer, frames, sent, again, got, trouble>>

\* Whether the server answers with a handshake.
Upgrades(request) == setup.server = "websocket" /\ Has(request, "Upgrade")

\* The server's coroutine up to the session: decode, the route's handler or the
\* page that is not found, and the answer.  Whether a handshake could be written
\* is not looked at.
Answer(request) ==
  LET over == [pc EXCEPT !["server"] = "over"]
      read == Decoded("client")
      reply(units) == IF lost THEN read ELSE [read EXCEPT !["server"] = @ \o units]
      agreed == Upgrades(request) /\ Has(request, "Sec-WebSocket-Key")
  IN \/ /\ ~WellFormed(request) \/ (Upgrades(request) /\ ~agreed)
        /\ pc' = over
        /\ wire' = read /\ UNCHANGED odd
     \/ /\ WellFormed(request) /\ agreed
        /\ pc' = [pc EXCEPT !["server"] = Serves("server")]
        /\ wire' = reply(<<Response({"Upgrade"})>>) /\ UNCHANGED odd
     \/ /\ WellFormed(request) /\ ~Upgrades(request)
        /\ pc' = over
        /\ wire' = reply(Page)
        /\ odd' = [odd EXCEPT !["server"] = TRUE]

Serve ==
  /\ pc["server"] = "start"
  /\ \/ /\ Arrived("client", "request")
        /\ Answer(Head(wire["client"]))
     \/ /\ AtEnd("client")
        /\ pc' = [pc EXCEPT !["server"] = "over"]
        /\ UNCHANGED <<wire, odd>>
  /\ UNCHANGED <<setup, lost, buffer, frames, sent, again, got, trouble>>

\* The client takes any response for a handshake.
RecvResponse ==
  /\ pc["client"] = "asked"
  /\ \/ /\ Arrived("server", "response")
        /\ pc' = [pc EXCEPT !["client"] = Serves("client")]
        /\ wire' = Decoded("server")
     \/ /\ AtEnd("server")
        /\ pc' = [pc EXCEPT !["client"] = "over"]
        /\ UNCHANGED wire
  /\ UNCHANGED <<setup, lost, session>>

-----------------------------------------------------------------------------
(* Frames. *)

\* decode asserts FIN and the opcode TEXT, and looks at neither after that: any
\* frame without the one or the other is as good as CLOSE.
Opcodes == {"TEXT", "CLOSE"}

\* A frame with its length as it is encoded; mask is << >> without one.
Frame(opcode, mask, message) ==
  [kind |-> "frame", opcode |-> opcode, mask |-> mask, n |-> message.n,
   form |-> Form(message.n), length |-> EncodeLength(Bits(message.n), Form(message.n)),
   text |-> IF mask = << >> THEN message.text ELSE Masked(message.text, mask),
   whole |-> TRUE]

\* The mask of WebsocketClient, and of who has none.
MaskOf(e) == IF e = "client" THEN [i \in 1..4 |-> {0}] ELSE << >>

\* encode: a client masks the message in the handler's own buffer.  Errors of
\* write and flush are not looked at.
Encode(e, opcode, message) ==
  LET frame == Frame(opcode, MaskOf(e), message) IN
  /\ wire' = Written(e, <<frame>>)
  /\ buffer' = [buffer EXCEPT ![e] = Message(message.n, frame.text)]
  /\ frames' = [frames EXCEPT ![e] = @ + 1]

InSession(e) == pc[e] = "session" /\ ~Foreign(e)
MayWrite(e)  == frames[e] < MaxSent[e]

\* The handler sends a message.
Send(e, n) ==
  /\ InSession(e) /\ MayWrite(e)
  /\ Encode(e, "TEXT", Fresh(n))
  /\ sent' = [sent EXCEPT ![e] = Append(@, Fresh(n))]
  /\ UNCHANGED <<setup, pc, lost, again, odd, got, trouble>>

\* The handler sends the same buffer again, for the message it put there.
Resend(e) ==
  /\ InSession(e) /\ MayWrite(e)
  /\ sent[e] # << >>
  /\ Encode(e, "TEXT", buffer[e])
  /\ sent' = [sent EXCEPT ![e] = Append(@, sent[e][Len(sent[e])])]
  /\ again' = [again EXCEPT ![e] = @ \cup {Len(sent[e]) + 1}]
  /\ UNCHANGED <<setup, pc, lost, odd, got, trouble>>

\* close() sends a frame; nothing is closed.
Close(e) ==
  /\ InSession(e) /\ MayWrite(e)
  /\ wire' = Written(e, <<Frame("CLOSE", MaskOf(e), NoMessage)>>)
  /\ frames' = [frames EXCEPT ![e] = @ + 1]
  /\ odd' = [odd EXCEPT ![e] = TRUE]
  /\ UNCHANGED <<setup, pc, lost, buffer, sent, again, got, trouble>>

\* A foreign client sends frames of its own making, which it may fail to mask.
ForeignFrame(n) ==
  /\ Foreign("client") /\ pc["client"] = "session" /\ MayWrite("client")
  /\ \E opcode \in Opcodes, mask \in Masks \cup {<< >>} :
       /\ wire' = Written("client", <<Frame(opcode, mask, Fresh(n))>>)
       /\ IF opcode = "TEXT" /\ mask # << >>
          THEN sent' = [sent EXCEPT !["client"] = Append(@, Fresh(n))] /\ UNCHANGED odd
          ELSE odd' = [odd EXCEPT !["client"] = TRUE] /\ UNCHANGED sent
  /\ frames' = [frames EXCEPT !["client"] = @ + 1]
  /\ UNCHANGED <<setup, pc, lost, buffer, again, got, trouble>>

\* Mutant of Unmasked, with a mask that masks nothing after the last group of four.
UnmaskedInFours(e, frame) ==
  IF e = "server" THEN MaskedInFours(frame.text, frame.mask) ELSE frame.text

\* What decode makes of the text.
Unmasked(e, frame) ==
  IF e = "server" THEN Masked(frame.text, frame.mask) ELSE frame.text

IsText(frame) == frame.opcode = "TEXT"

\* decode ends where the frame does: it reads the length that was meant, and a
\* mask where it expects one.
ReadToEnd(e, frame) ==
  /\ DecodeLength(frame.length, frame.form) = Bits(frame.n)
  /\ e = "server" => frame.mask # << >>

\* What recv comes to: a message, or the trouble it is in.  Without asserts any
\* frame is a message, and what could not be read counts as zeros.  Of a frame
\* that is cut not even the first two bytes may be there, and at the end of the
\* stream what is left of one may pass for another.
Outcome(e) ==
  LET p == Peer(e)
      frame == Head(wire[p])
      if(condition, outcome) == IF condition THEN {outcome} ELSE {}
  IN
  IF AtEnd(p)
  THEN if(setup.debug, "abort") \cup if(~setup.debug \/ trouble[e] = "phantom", "phantom")
  ELSE IF ~Arrived(p, "frame") THEN {"astray"} \cup if(setup.debug, "abort")
  ELSE IF setup.debug /\ ~IsText(frame) THEN {"abort"}
  ELSE IF ~frame.whole
  THEN {"phantom"} \cup if(setup.debug, "abort") \cup if(~ReadToEnd(e, frame), "astray")
  ELSE IF ~ReadToEnd(e, frame) THEN {"astray"}
  ELSE {IF IsText(frame) THEN "none" ELSE "phantom"}

\* recv.  Who is astray is not followed any further.
Recv(e) ==
  LET p == Peer(e) IN
  /\ InSession(e) /\ trouble[e] # "astray"
  /\ AtEnd(p) \/ wire[p] # << >>
  /\ \E outcome \in Outcome(e) :
       /\ trouble' = IF outcome = "none" THEN trouble ELSE [trouble EXCEPT ![e] = outcome]
       /\ pc' = IF outcome = "abort" THEN [pc EXCEPT ![e] = "over"] ELSE pc
       /\ got' = IF outcome = "none"
                 THEN [got EXCEPT ![e] = Append(@, Message(Head(wire[p]).n,
                                                           Unmasked(e, Head(wire[p]))))]
                 ELSE got
  /\ wire' = Received(p)
  /\ UNCHANGED <<setup, lost, buffer, frames, sent, again, odd>>

\* The handler returns, or the foreign client goes: the stream is closed.
Return(e) ==
  /\ pc[e] = "session"
  /\ pc' = [pc EXCEPT ![e] = "over"]
  /\ UNCHANGED <<setup, wire, lost, session>>

-----------------------------------------------------------------------------
Handshake == SendRequest \/ Serve \/ RecvResponse

Next ==
  \/ Handshake \/ ForeignRequest \/ Lose
  \/ \E e \in Ends : \/ \E n \in Lengths : Send(e, n)
                     \/ Resend(e) \/ Close(e) \/ Recv(e) \/ Return(e)
  \/ \E n \in Lengths : ForeignFrame(n)

\* What the ends wait for in the handshake resumes them.
Fairness == WF_vars(SendRequest) /\ WF_vars(Serve) /\ WF_vars(RecvResponse)

Spec == Init /\ [][Next]_vars /\ Fairness

-----------------------------------------------------------------------------
(* Properties. *)

\* The messages that recv gives, phantoms apart, are those that the peer's
\* handler sent, in order, none twice, and not changed by masks, forms of length,
\* frames that are no message or the end of the connection.  The exception: a
\* client that sends a buffer again sends it as masking left it.
MessagesGenuine ==
  \A e \in Ends : \A i \in 1..Len(got[e]) :
    /\ i <= Len(sent[Peer(e)])
    /\ got[e][i].n = sent[Peer(e)][i].n
    /\ got[e][i].text = sent[Peer(e)][i].text \/ (e = "server" /\ i \in again["client"])

\* A length of the 16-bit form whose first byte has its high bit set, which sets
\* all of the second.
Misread(n) == 32768 <= n /\ n < 65536 /\ n % 256 # 255

\* recv goes wrong only when the peer has ended, written something that is no
\* message or lost the connection, or sent a length that is misread; assertions
\* fail only where they are compiled in.
TroubleHasCause ==
  \A e \in Ends :
    LET p == Peer(e) IN
    /\ trouble[e] \in {"phantom", "abort"} => lost \/ odd[p] \/ pc[p] = "over"
    /\ trouble[e] = "abort" => setup.debug
    /\ trouble[e] = "astray" => odd[p] \/ \E i \in 1..Len(sent[p]) : Misread(sent[p][i].n)

\* The handshake of a WebsocketClient ends at both ends, however the server
\* answers and whatever is lost.
HandshakeEnds ==
  \A e \in Ends : setup.client = "websocket" ~> pc[e] \in {"session", "over"}
=============================================================================
