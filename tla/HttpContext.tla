----------------------------- MODULE HttpContext -----------------------------
(***************************************************************************)
(* http/HttpContext: the incremental parser of HTTP requests that every    *)
(* connection owns, as operators on its state (a context), and the byte    *)
(* stream it parses.                                                       *)
(*                                                                         *)
(* The stream is abstracted to what the parser looks for.  A token is      *)
(*   <<"head", r>>   the request line and the headers of request r         *)
(*   <<"blank", 0>>  the blank line after them                             *)
(*   <<"byte", b>>   one byte of a body                                    *)
(*   <<"size", n>>   the line with the length of a chunk                   *)
(*   <<"crlf", 0>>   the line end after a chunk                            *)
(* A line cut in two is like one that has not come: find("\r\n") fails.    *)
(***************************************************************************)
EXTENDS Integers, Sequences, SequencesExt

CONSTANT Byte   \* the bytes of bodies

(* What the parser can tell of a request: framing is how its body is        *)
(* delimited ("garbled": a Content-Length that is no number), chunk the     *)
(* length of the chunks a client cuts it into. *)
HttpRequest ==
  [method: {"GET", "POST"},    \* an unknown method is GET: both are 0
   version: {"1.0", "1.1"},    \* an unknown version is 1.0: both are 0
   connection: {"none", "close", "Keep-Alive"},
   framing: {"none", "length", "chunked", "garbled"},
   valid: BOOLEAN,             \* request line and header lines parse
   body: Seq(Byte),
   chunk: Nat \ {0}]

Unset == [method |-> "GET", version |-> "1.0", connection |-> "none",
          framing |-> "none", valid |-> TRUE, body |-> <<>>, chunk |-> 1]

Token == ({"head"} \X HttpRequest) \cup ({"byte"} \X Byte)
         \cup ({"size"} \X Nat) \cup ({"blank", "crlf"} \X {0})

Blank == <<"blank", 0>>
Crlf == <<"crlf", 0>>
Bytes(body) == [i \in DOMAIN body |-> <<"byte", body[i]>>]

(* What a parser that cuts tokens off as a body makes of them: Markup is a  *)
(* piece of the stream that was not sent as a byte of a body.               *)
Markup == "markup"
Text == Byte \cup {Markup}
Values(tokens) ==
  [i \in DOMAIN tokens |-> IF tokens[i][1] = "byte" THEN tokens[i][2]
                                                    ELSE Markup]

(* What a client sends for request r. *)
ChunkTokens(chunk) == <<<<"size", Len(chunk)>>>> \o Bytes(chunk) \o <<Crlf>>
Chunks(r) == (Len(r.body) + r.chunk - 1) \div r.chunk
ChunkOf(r, i) ==
  LET start == (i - 1) * r.chunk IN
  SubSeq(r.body, start + 1, IF start + r.chunk > Len(r.body) THEN Len(r.body)
                            ELSE start + r.chunk)
BodyTokens(r) ==
  CASE r.framing = "length" -> Bytes(r.body)
    [] r.framing = "chunked" ->
         FlattenSeq([i \in 1 .. Chunks(r) |-> ChunkTokens(ChunkOf(r, i))])
           \o ChunkTokens(<<>>)
    [] OTHER -> <<>>
Tokens(r) == <<<<"head", r>>, Blank>> \o BodyTokens(r)

-----------------------------------------------------------------------------
(* A context.  The constructor leaves complete_headers_ uninitialised:      *)
(* whatever the heap holds. *)
NewContext(garbage) ==
  [complete_headers_ |-> garbage, complete_request_ |-> FALSE,
   content_length_ |-> 0, request_ |-> Unset, body_ |-> <<>>,
   buffer_ |-> <<>>]

(* Reset keeps buffer_: it may hold the start of the next request. *)
ResetClearing(c) == NewContext(FALSE)
Reset(c) == [NewContext(FALSE) EXCEPT !.buffer_ = c.buffer_]

Drop(s, n) == SubSeq(s, n + 1, Len(s))

Parsed(ok, c) == [ok |-> ok, context |-> c]
Incomplete(c) == Parsed(TRUE, c)
Malformed(c) == Parsed(FALSE, c)
Complete(c) == Parsed(TRUE, [c EXCEPT !.complete_request_ = TRUE])

(* ParseChunkedBody: moves every chunk that is there as a whole from        *)
(* buffer_ to the body; done after the empty chunk. *)
WholeChunkAndMore(b) ==
  b # <<>> /\ b[1][1] = "size" /\ Len(b) > b[1][2] + 2
WholeChunk(b) == b # <<>> /\ b[1][1] = "size" /\ Len(b) >= b[1][2] + 2

TakeChunks[b \in Seq(Token)] ==
  IF ~WholeChunk(b) THEN [body |-> <<>>, rest |-> b, last |-> FALSE]
  ELSE LET n == b[1][2]
           rest == Drop(b, n + 2)
       IN IF n = 0 THEN [body |-> <<>>, rest |-> rest, last |-> TRUE]
          ELSE [TakeChunks[rest] EXCEPT
                  !.body = Values(SubSeq(b, 2, n + 1)) \o @]

ParseChunkedBody(c) ==
  LET taken == TakeChunks[c.buffer_]
      d == [c EXCEPT !.body_ = @ \o taken.body, !.buffer_ = taken.rest]
  IN IF taken.last THEN Complete(d) ELSE Incomplete(d)

(* The body after the headers.  "Connection: close" and HTTP/1.0 take       *)
(* whatever buffer_ holds, before Content-Length is looked at. *)
TakesAll(r) == r.connection = "close" \/ r.version = "1.0"

SetBody(c, n) ==
  Complete([c EXCEPT !.content_length_ = n,
                     !.body_ = Values(SubSeq(c.buffer_, 1, n)),
                     !.buffer_ = Drop(@, n)])

ParseBody(c) ==
  LET r == c.request_
      length == Len(r.body)
      available == Len(c.buffer_)
  IN CASE r.framing = "chunked" -> ParseChunkedBody(c)
       [] r.framing # "chunked" /\ TakesAll(r) -> SetBody(c, available)
       [] r.framing = "garbled" /\ ~TakesAll(r) -> Malformed(c)
       [] r.framing = "length" /\ ~TakesAll(r) ->
            IF available < length
            THEN Incomplete([c EXCEPT !.content_length_ = length])
            ELSE SetBody(c, length)
       [] r.framing = "none" /\ ~TakesAll(r) -> SetBody(c, c.content_length_)

(* The header block.  Bytes that an earlier request left in buffer_ become  *)
(* part of the method. *)
HeaderEnd(b) == SelectInSeq(b, LAMBDA t : t = Blank)

ParsedHeader(text) ==
  LET r == text[Len(text)][2]
  IN IF Len(text) = 1 THEN r ELSE [r EXCEPT !.method = "GET"]
ValidHeader(text) ==
  /\ text # <<>>
  /\ text[Len(text)][1] = "head"
  /\ text[Len(text)][2].valid
  /\ \A i \in 1 .. Len(text) - 1 : text[i][1] = "byte"

(* ParseRequest: appends what was read and goes as far as it can. *)
ParseRequest(c, str) ==
  LET d == [c EXCEPT !.buffer_ = @ \o str]
      end == HeaderEnd(d.buffer_)
      header == SubSeq(d.buffer_, 1, end - 1)
      rest == Drop(d.buffer_, end)
  IN CASE d.complete_headers_ -> ParseBody(d)
       [] ~d.complete_headers_ /\ end = 0 -> Incomplete(d)
       [] ~d.complete_headers_ /\ end # 0 /\ ~ValidHeader(header) ->
            Malformed([d EXCEPT !.buffer_ = rest])
       [] ~d.complete_headers_ /\ end # 0 /\ ValidHeader(header) ->
            ParseBody([d EXCEPT !.buffer_ = rest, !.complete_headers_ = TRUE,
                                !.request_ = ParsedHeader(header)])
=============================================================================
