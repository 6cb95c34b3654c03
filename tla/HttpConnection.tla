---------------------------- MODULE HttpConnection ----------------------------
(***************************************************************************)
(* One HTTP connection on its loop: TcpConnection's reads and writes,      *)
(* HttpServer::onMessage and onRequest, the HttpContext between them, and  *)
(* the kernel's level-triggered socket.  The peer sends requests, the      *)
(* network cuts them into segments as it likes, the application answers    *)
(* each with ResponseSize units (it is one unit for a 400), the kernel's   *)
(* send buffer holds SendRoom units.                                       *)
(*                                                                         *)
(* Everything here runs on the connection's own thread; the peer and the   *)
(* kernel act between any two of its steps.  read_buf_ is emptied in the   *)
(* step that fills it, as long as the connection is Connected; afterwards  *)
(* nobody reads it, so it is left out.  A reset and a read error are like  *)
(* the end of file.  What happens after HandleClose is TcpServer.tla's     *)
(* subject: here the channel is deregistered and the descriptor closed at  *)
(* any later time.  MaxRequests bounds what the peer sends.                *)
(***************************************************************************)
EXTENDS HttpContext, Buffer

CONSTANTS
  Request,        \* the requests the peer chooses from
  HeapFlag,       \* what complete_headers_ may hold in fresh memory
  MaxRequests, ResponseSize, SendRoom

ASSUME ConnectionAssumption ==
  /\ Request \subseteq HttpRequest
  /\ HeapFlag \subseteq BOOLEAN /\ HeapFlag # {}
  /\ MaxRequests \in Nat /\ ResponseSize \in Nat \ {0}
  /\ SendRoom \in Nat \ {0}

VARIABLES
  pipelines,   \* the peer does not wait for answers
  sent,        \* the requests it has sent
  wire,        \* tokens under way
  fin,         \* its end of file: "none", "sent" or "arrived"
  rcvbuf,      \* the kernel's receive buffer
  context_,
  state_,      \* "Connected", "Disconected", or "Gone": descriptor closed
  handled,     \* what the application was asked, in order
  send_buf_,   \* a Buffer: units not yet written
  writing,     \* the channel listens for EPOLLOUT
  sndbuf,      \* the kernel's send buffer
  received,    \* what the peer has received
  events       \* what Poll returned and HandleEvent has not handled

peerVars == <<pipelines, sent, wire, fin, received>>
outVars == <<send_buf_, writing, sndbuf>>
vars == <<peerVars, rcvbuf, context_, state_, handled, outVars, events>>

Init == /\ pipelines \in BOOLEAN
        /\ sent = <<>> /\ wire = <<>> /\ fin = "none" /\ received = <<>>
        /\ rcvbuf = <<>>
        /\ \E garbage \in HeapFlag : context_ = NewContext(garbage)
        /\ state_ = "Connected"
        /\ handled = <<>>
        /\ send_buf_ = NewBuffer /\ writing = FALSE /\ sndbuf = <<>>
        /\ events = {}

-----------------------------------------------------------------------------
(* What onRequest makes of a request: the client asked to close, by header  *)
(* or by version. *)
AsksToClose(r) ==
  r.connection = "close" \/ (r.version = "1.0" /\ r.connection # "Keep-Alive")

Response(i) == [k \in 1 .. ResponseSize |-> <<i, k>>]
BadRequest == <<<<0, 1>>>>
Unit == Nat \X (1 .. ResponseSize)
Answer(i) == IF handled[i].ok THEN Response(i) ELSE BadRequest
Answers(n) == FlattenSeq([i \in 1 .. n |-> Answer(i)])

-----------------------------------------------------------------------------
(* The peer and the network.  A client that waits sends a request when it   *)
(* has the answer to the one before; none sends more after it asked to    *)
(* close, nor pipelines behind a version that cannot be pipelined.          *)
HasAnswer(i) == ToSet(Response(i)) \subseteq ToSet(received)
MaySend == /\ ~pipelines /\ sent # <<>> => HasAnswer(Len(sent))
           /\ sent # <<>> => ~AsksToClose(Last(sent))
           /\ sent # <<>> /\ pipelines => ~TakesAll(Last(sent))

PeerSend(r) == /\ fin = "none" /\ Len(sent) < MaxRequests
               /\ MaySend
               /\ sent' = Append(sent, r)
               /\ wire' = wire \o Tokens(r)
               /\ UNCHANGED <<pipelines, fin, received, rcvbuf, context_,
                              state_, handled, outVars, events>>

PeerShutdown == /\ fin = "none"
                /\ fin' = "sent"
                /\ UNCHANGED <<pipelines, sent, wire, received, rcvbuf,
                               context_, state_, handled, outVars, events>>

Deliver(n) == /\ state_ # "Gone"
              /\ n \in 1 .. Len(wire)
              /\ rcvbuf' = rcvbuf \o SubSeq(wire, 1, n)
              /\ wire' = Drop(wire, n)
              /\ UNCHANGED <<pipelines, sent, fin, received, context_, state_,
                             handled, outVars, events>>

DeliverFin == /\ state_ # "Gone"
              /\ fin = "sent" /\ wire = <<>>
              /\ fin' = "arrived"
              /\ UNCHANGED <<pipelines, sent, wire, received, rcvbuf, context_,
                             state_, handled, outVars, events>>

Room == SendRoom - Len(sndbuf)

PeerReceive == /\ sndbuf # <<>>
               /\ received' = Append(received, Head(sndbuf))
               /\ sndbuf' = Tail(sndbuf)
               /\ UNCHANGED <<pipelines, sent, wire, fin, rcvbuf, context_,
                              state_, handled, send_buf_, writing, events>>

-----------------------------------------------------------------------------
(* Epoller::Poll: epoll_wait reports what is true of the socket as long as  *)
(* it is true and the channel listens for it; the EPOLLET of EnableET does  *)
(* not fit in listen_events_, a short.  An end of file is never read away.  *)
Readable == rcvbuf # <<>> \/ fin = "arrived"
Reported == IF state_ = "Gone" THEN {}
            ELSE {e \in {"IN", "OUT"} : IF e = "IN" THEN Readable
                                        ELSE writing /\ Room > 0}
Poll == /\ events = {} /\ Reported # {}
        /\ events' = Reported
        /\ UNCHANGED <<peerVars, rcvbuf, context_, state_, handled, outVars>>

(* WriteNonBlocking: one write of all there is; the kernel takes what fits. *)
TakenAll(b) == readablebytes(b)
Taken(b) == IF readablebytes(b) > Room THEN Room ELSE readablebytes(b)

WriteNonBlocking(b) == /\ sndbuf' = sndbuf \o SubSeq(PeekAll(b), 1, Taken(b))
                       /\ send_buf_' = Retrieve(b, Taken(b))

(* Send: what is left waits for EPOLLOUT. *)
SendUnwatched(msg) ==
  /\ \E b \in {AppendBytes(send_buf_, msg)} : WriteNonBlocking(b)
  /\ UNCHANGED writing
Send(msg) ==
  /\ \E b \in {AppendBytes(send_buf_, msg)} : WriteNonBlocking(b)
  /\ writing' = (writing \/ readablebytes(send_buf_') > 0)

(* HandleEvent with EPOLLIN: HandleMessage reads to EAGAIN or end of file.  *)
Reads == /\ "IN" \in events
         /\ events' = events \ {"IN"}
         /\ rcvbuf' = <<>>
         /\ UNCHANGED peerVars

(* End of file closes before on_message_ runs, so what was read with it     *)
(* stays unparsed; onMessage parses nothing once the connection is closed.  *)
ReadsEof == /\ Reads
            /\ fin = "arrived"
            /\ state_' = "Disconected"
            /\ UNCHANGED <<context_, handled, outVars>>

ReadsWhenClosed == /\ Reads
                   /\ fin # "arrived" /\ state_ = "Disconected"
                   /\ UNCHANGED <<context_, state_, handled, outVars>>

(* onMessage: one ParseRequest per read; a complete request is answered     *)
(* and the context reset, a malformed one gets a 400 and the close. *)
HandledAs(p) ==
  handled' = Append(handled, [ok |-> p.ok, request |-> p.context.request_,
                              body |-> p.context.body_])

AwaitsMore(p) == /\ p.ok /\ ~p.context.complete_request_
                 /\ context_' = p.context
                 /\ UNCHANGED <<state_, handled, outVars>>

(* onRequest: the application's answer may close the connection too. *)
OnRequest(p, close) == /\ p.ok /\ p.context.complete_request_
                       /\ AsksToClose(p.context.request_) => close
                       /\ HandledAs(p)
                       /\ context_' = Reset(p.context)
                       /\ Send(Response(Len(handled) + 1))
                       /\ state_' = IF close THEN "Disconected" ELSE state_

Refuse(p) == /\ ~p.ok
             /\ HandledAs(p)
             /\ context_' = p.context
             /\ Send(BadRequest)
             /\ state_' = "Disconected"

OnMessage == /\ Reads
             /\ fin # "arrived" /\ state_ = "Connected" /\ rcvbuf # <<>>
             /\ \E p \in {ParseRequest(context_, rcvbuf)} :
                  \/ AwaitsMore(p) \/ Refuse(p)
                  \/ \E close \in BOOLEAN : OnRequest(p, close)

(* HandleEvent with EPOLLOUT, after EPOLLIN. *)
HandleWriteOnce ==
  /\ events = {"OUT"}
  /\ events' = {}
  /\ WriteNonBlocking(send_buf_)
  /\ writing' = FALSE
  /\ UNCHANGED <<peerVars, rcvbuf, context_, state_, handled>>
HandleWriteAlways ==
  /\ events = {"OUT"}
  /\ events' = {}
  /\ WriteNonBlocking(send_buf_)
  /\ UNCHANGED <<peerVars, rcvbuf, context_, state_, handled, writing>>
HandleWrite ==
  /\ events = {"OUT"}
  /\ events' = {}
  /\ WriteNonBlocking(send_buf_)
  /\ writing' = (readablebytes(send_buf_') > 0)
  /\ UNCHANGED <<peerVars, rcvbuf, context_, state_, handled>>

(* HandleActiveClose closes an idle connection: any time may be too long.   *)
HandleActiveClose ==
  /\ state_ = "Connected" /\ events = {}
  /\ state_' = "Disconected"
  /\ UNCHANGED <<peerVars, rcvbuf, context_, handled, outVars, events>>

(* ConnectionDestructor and ~TcpConnection. *)
Release == /\ state_ = "Disconected" /\ events = {}
           /\ state_' = "Gone"
           /\ UNCHANGED <<peerVars, rcvbuf, context_, handled, outVars, events>>

-----------------------------------------------------------------------------
HandleMessage == ReadsEof \/ ReadsWhenClosed \/ OnMessage

(* A thread does one of these at a time: Poll when events is empty. *)
Loop == Poll \/ HandleMessage \/ HandleWrite

Next == \/ \E r \in Request : PeerSend(r)
        \/ PeerShutdown \/ DeliverFin \/ PeerReceive
        \/ \E n \in 1 .. Len(wire) : Deliver(n)
        \/ Loop
        \/ HandleActiveClose \/ Release

Spec == Init /\ [][Next]_vars

(* The loop runs when epoll has something for it, the network delivers and  *)
(* the peer reads its answers.  Nothing is assumed of what the peer sends,  *)
(* of the idle timer or of the release.                                    *)
Fairness == /\ WF_vars(Loop)
            /\ WF_vars(\E n \in 1 .. Len(wire) : Deliver(n))
            /\ WF_vars(PeerReceive)

FairSpec == Spec /\ Fairness

-----------------------------------------------------------------------------
(* Every variable has its type, and the kernel never holds more than fits.  *)
(* A context between two reads is never complete: onMessage resets it; and  *)
(* it has a content_length_ only of the request whose headers it has read.  *)
TypeOK ==
  /\ pipelines \in BOOLEAN
  /\ sent \in Seq(Request) /\ Len(sent) <= MaxRequests
  /\ wire \in Seq(Token) /\ rcvbuf \in Seq(Token)
  /\ context_.buffer_ \in Seq(Token) /\ context_.body_ \in Seq(Text)
  /\ context_.request_ \in HttpRequest
  /\ context_.complete_headers_ \in BOOLEAN
  /\ context_.content_length_ \in Nat
  /\ context_.content_length_ # 0 =>
       context_.complete_headers_ /\ context_.request_.framing = "length"
  /\ ~context_.complete_request_
  /\ fin \in {"none", "sent", "arrived"}
  /\ state_ \in {"Connected", "Disconected", "Gone"}
  /\ BufferOf({Zero} \cup Unit, send_buf_)
  /\ sndbuf \in Seq(Unit) /\ Len(sndbuf) <= SendRoom
  /\ received \in Seq(Unit)
  /\ writing \in BOOLEAN
  /\ events \in SUBSET {"IN", "OUT"}

(* Incremental parsing: however the stream is cut, and whether or not the   *)
(* peer pipelines, the application is asked exactly the requests that were  *)
(* sent, each with its own body, and refuses only what is malformed         *)
(* (HttpContext.cpp:52; test_httpcontext.cpp:53-86).                        *)
RequestsAreWhole ==
  /\ Len(handled) <= Len(sent)
  /\ \A i \in DOMAIN handled :
       IF handled[i].ok
       THEN handled[i].request = sent[i] /\ handled[i].body = sent[i].body
       ELSE ~sent[i].valid \/ sent[i].framing = "garbled"

(* Output is neither lost, repeated nor reordered by short writes: what the *)
(* peer has, what the kernel holds and what send_buf_ keeps are together    *)
(* the answers to what was handled, in order, also when Buffer moves or     *)
(* grows (Buffer.cpp:15-36).                                                *)
AnswersInOrder ==
  received \o sndbuf \o PeekAll(send_buf_) = Answers(Len(handled))

(* What a short write leaves is not forgotten: HandleWrite comes only with   *)
(* EPOLLOUT, so as long as something is unsent the channel listens for it,  *)
(* whether Send or HandleWrite left it there, and also when an answer is    *)
(* appended to the rest of the one before (TcpConnection.cpp:109, 131).     *)
OutputIsWatched ==
  readablebytes(send_buf_) > 0 /\ state_ # "Gone" => writing

(* The loop does not spin: a level-triggered socket with room is reported   *)
(* in every round while the channel listens for EPOLLOUT, so again and      *)
(* again there is nothing left to report, until the peer's end of file,     *)
(* which is reported until the channel is deregistered.                     *)
LoopRests == []<>(Reported = {} \/ fin = "arrived")

(* A peer that waits for its answers gets each, unless the connection is    *)
(* closed by its idle timer, by its own shutdown or by an answer.           *)
EveryRequestAnswered ==
  \A i \in 1 .. MaxRequests :
    ~pipelines /\ Len(sent) >= i ~> HasAnswer(i) \/ state_ # "Connected"

(* Pipelined or not, an answer given on a connection that stays open        *)
(* reaches the peer as a whole.                                             *)
AnswersArrive ==
  \A i \in 1 .. MaxRequests :
    Len(handled) >= i ~> HasAnswer(i) \/ state_ # "Connected"

(* TcpConnection.cpp:190: output that finds the kernel's buffer full waits  *)
(* for the next EPOLLOUT; so when the descriptor is closed every answer has *)
(* been written. *)
WrittenBeforeClosed == state_ = "Gone" => readablebytes(send_buf_) = 0
=============================================================================
