----------------------------- MODULE MCTcpServer -----------------------------
(* A small instance of TcpServer: two connections over two descriptors, a   *)
(* main loop alone and one with a sub loop.                                 *)
EXTENDS TcpServer

CONSTANTS c1, c2, f1, f2, m, s1

MCConn == {c1, c2}
MCFd == {f1, f2}
MCLoop == {m, s1}
MCPools == {<<>>, <<s1>>}
=============================================================================
