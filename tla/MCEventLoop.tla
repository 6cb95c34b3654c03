----------------------------- MODULE MCEventLoop -----------------------------
(* A small instance of EventLoop: two other threads, three functors. *)
EXTENDS EventLoop

CONSTANTS p1, p2, t1, t2, t3

MCPoster == {p1, p2}
MCTask == {t1, t2, t3}
=============================================================================
