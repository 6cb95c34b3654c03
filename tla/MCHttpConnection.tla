--------------------------- MODULE MCHttpConnection ---------------------------
(* Small instances of HttpConnection: one request of every framing, and one *)
(* with a body that asks to close.                                          *)
EXTENDS HttpConnection

CONSTANTS a, b, nul

MCByte == {a, b}

Plain == [Unset EXCEPT !.version = "1.1"]
Post == [Plain EXCEPT !.method = "POST", !.framing = "length",
                      !.body = <<a, b>>]
Chunked == [Post EXCEPT !.framing = "chunked",
                          !.body = <<a, b, a>>, !.chunk = 2]
Closing == [Plain EXCEPT !.connection = "close"]
Garbled == [Plain EXCEPT !.framing = "garbled"]
Invalid == [Plain EXCEPT !.valid = FALSE]
ClosingPost == [Post EXCEPT !.connection = "close"]

MCRequest == {Plain, Post, Chunked, Closing, Garbled, Invalid}
MCPost == {Post}
MCClosingPost == {ClosingPost}
MCPlainOrClosing == {Plain, Closing}
MCZeroed == {FALSE}
MCAny == BOOLEAN
=============================================================================
