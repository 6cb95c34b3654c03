---------------------------- MODULE ConnectionLife ----------------------------
(***************************************************************************)
(* What the server promises about its connections, whatever the number of  *)
(* loops: each is accepted, established, closed, taken out of epoll and    *)
(* released, in this order and each once, and it has its descriptor to     *)
(* itself from the accept to the release.  TcpServer implements it with a  *)
(* map, functor lists and shared_ptrs on several threads.                  *)
(***************************************************************************)
CONSTANTS Conn, Fd, None

VARIABLES phase,  \* per connection: how far it got
          fd      \* per connection: the descriptor it was given, or None

vars == <<phase, fd>>

Holds(c) == phase[c] \notin {"none", "released"}

Init == /\ phase = [c \in Conn |-> "none"]
        /\ fd = [c \in Conn |-> None]

(* Every connection of S goes from one phase to the next.                   *)
Moves(S, from, to) ==
  /\ \A c \in S : phase[c] = from
  /\ phase' = [c \in Conn |-> IF c \in S THEN to ELSE phase[c]]

Accept(c, f) == /\ \A d \in Conn : fd[d] = f => ~Holds(d)
                /\ Moves({c}, "none", "new")
                /\ fd' = [fd EXCEPT ![c] = f]

Establish(c) == Moves({c}, "new", "Connected") /\ UNCHANGED fd

(* One pass of a timer queue may close several connections, and one list of *)
(* functors that is destroyed may release several.                          *)
Close(S) == Moves(S, "Connected", "Disconected") /\ UNCHANGED fd

Deregister(c) == Moves({c}, "Disconected", "deregistered") /\ UNCHANGED fd

Release(S) == Moves(S, "deregistered", "released") /\ UNCHANGED fd

Next == \/ \E c \in Conn, f \in Fd : Accept(c, f)
        \/ \E c \in Conn : Establish(c) \/ Deregister(c)
        \/ \E S \in SUBSET Conn : Close(S) \/ Release(S)

Spec == Init /\ [][Next]_vars

-----------------------------------------------------------------------------
(* No two connections have the same descriptor at a time: what one writes   *)
(* never reaches the peer of another.                                       *)
DescriptorsAreExclusive ==
  \A c, d \in Conn : Holds(c) /\ Holds(d) /\ fd[c] = fd[d] => c = d
=============================================================================
