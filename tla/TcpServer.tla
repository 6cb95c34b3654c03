------------------------------ MODULE TcpServer ------------------------------
(***************************************************************************)
(* The life of a connection: the main loop accepts it and puts it in       *)
(* connectionsMap_, a sub loop reads from it, and its shared_ptr travels   *)
(* through the two loops' functor lists until the last reference goes and  *)
(* ~TcpConnection closes the descriptor.  Composes Acceptor, TcpServer,    *)
(* TcpConnection, Channel, Epoller, EventLoopThreadPool, one event loop    *)
(* per thread and the idle timer HttpServer arms in its callback.          *)
(*                                                                         *)
(* A Conn is one TcpConnection object, used once; descriptors are reused.  *)
(* EventLoop.tla models one loop in detail: here a loop with queued        *)
(* functors is not blocked in epoll_wait (its NoLostWakeup), and a functor *)
(* list is a set, since the functors of one list concern different         *)
(* connections and commute.                                                *)
(***************************************************************************)
EXTENDS Naturals, Sequences

CONSTANTS Conn,   \* the TcpConnection objects ever made
          Fd,     \* the descriptors the process may have for connections
          Loop,   \* the event loops there may be
          Main,   \* main_reactor_
          Pools,  \* the thread pools to choose from: sequences of sub loops
          None

Sub == Loop \ {Main}
Others == {"accept", "timer"}    \* the channels that are not connections

ASSUME LoopAssumption == Main \in Loop /\ Pools \subseteq Seq(Sub)
ASSUME ConnAssumption ==
  None \notin Conn \cup Fd \cup Loop /\ Conn \cap Others = {}

VARIABLES
  loops_, next_,            \* EventLoopThreadPool: its loops, the next to use
  state_, connfd_, loop_,   \* per connection; state_ "none" before it exists
  connectionsMap_,          \* Fd -> the connection, or None
  in_epoll_,                \* the connections registered with their loop
  unread,                   \* those with bytes the process has not read
  fin,                      \* those whose peer closed or reset
  active,                   \* per loop: channels returned and not handled yet
  pc,                       \* per loop: where the thread is
  to_do_list_, functors,    \* per loop: functors queued / swapped out
  spent,                    \* functors of the batch already run: still alive
  accepting,                \* HandleNewConnection's local conn, or None
  timers,                   \* connections with an idle timer armed
  aborted                   \* an assertion failed: the process is gone

sockets == <<unread, fin>>
objects == <<connfd_, loop_>>
pool == <<loops_, next_>>
vars == <<pool, state_, objects, connectionsMap_, in_epoll_, sockets, active,
          pc, to_do_list_, functors, spent, accepting, timers, aborted>>

(* SetThreadNum and EventLoopThreadPool::Start choose the pool before Loop. *)
Init == /\ loops_ \in Pools /\ next_ = 0
        /\ state_ = [c \in Conn |-> "none"]
        /\ connfd_ = [c \in Conn |-> None]
        /\ loop_ = [c \in Conn |-> None]
        /\ connectionsMap_ = [f \in Fd |-> None]
        /\ in_epoll_ = {} /\ unread = {} /\ fin = {}
        /\ active = [l \in Loop |-> {}]
        /\ pc = [l \in Loop |-> "poll"]
        /\ to_do_list_ = [l \in Loop |-> {}]
        /\ functors = [l \in Loop |-> {}]
        /\ spent = [l \in Loop |-> {}]
        /\ accepting = None
        /\ timers = {}
        /\ aborted = FALSE

(* The functors a connection's shared_ptr is bound in. *)
ToErase(c) == <<"HandleCloseInLoop", c>>
ToDestroy(c) == <<"ConnectionDestructor", c>>
Bound(c) == {ToErase(c), ToDestroy(c)}
Functor == UNION {Bound(c) : c \in Conn}

(* Who holds a shared_ptr: the map, the accepting frame, bound functors.    *)
Live(c) ==
  \/ \E f \in Fd : connectionsMap_[f] = c
  \/ accepting = c
  \/ \E l \in Loop : \E g \in Bound(c) :
       g \in to_do_list_[l] \/ g \in functors[l] \/ g \in spent[l]

(* ~TcpConnection closes connfd_, so a descriptor is free when no live      *)
(* connection has it.                                                       *)
FreeFd == {f \in Fd : \A c \in Conn : connfd_[c] = f => ~Live(c)}
Fresh == {c \in Conn : state_[c] = "none"}
OnLoop(S, l) == {c \in S : loop_[c] = l}

-----------------------------------------------------------------------------
(* The peer and the kernel. *)

PeerSend(c) == /\ state_[c] # "none" /\ Live(c) /\ c \notin fin
               /\ unread' = unread \cup {c}
               /\ UNCHANGED <<state_, objects, connectionsMap_, in_epoll_, fin,
                              active, pc, to_do_list_, functors, spent,
                              accepting, timers, pool, aborted>>

PeerClose(c) == /\ state_[c] # "none" /\ Live(c) /\ c \notin fin
                /\ fin' = fin \cup {c}
                /\ UNCHANGED <<state_, objects, connectionsMap_, in_epoll_,
                               unread, active, pc, to_do_list_, functors,
                               spent, accepting, timers, pool, aborted>>

-----------------------------------------------------------------------------
(* Epoller::Poll.  EnableET sets EPOLLET in listen_events_, a short that    *)
(* has no such bit, so connections are level-triggered: from EnableRead     *)
(* until DeleteChannel every call returns those with something to read, and *)
(* an end of file is never read away.  With them come the listening socket  *)
(* when a peer waits and the timerfd when a timer is due.                   *)
Listening(c) == c \in in_epoll_ /\ state_[c] \in {"Connected", "Disconected"}
Ready(l) == {c \in OnLoop(unread \cup fin, l) : Listening(c)}
Pollable(l) == (IF l = Main /\ Fresh # {} THEN {"accept"} ELSE {})
               \cup (IF OnLoop(timers, l) # {} THEN {"timer"} ELSE {})

PollReturns(l, chs) ==
  /\ pc[l] = "poll"
  /\ active' = [active EXCEPT ![l] = chs]
  /\ pc' = [pc EXCEPT ![l] = "handle"]
  /\ UNCHANGED <<state_, objects, connectionsMap_, in_epoll_, sockets,
                 to_do_list_, functors, spent, accepting, timers, pool,
                 aborted>>

Poll(l) == /\ Ready(l) # {} \/ to_do_list_[l] # {}
           /\ \E o \in SUBSET Pollable(l) : PollReturns(l, Ready(l) \cup o)

PollOthers(l) == /\ Ready(l) = {} /\ to_do_list_[l] = {}
                 /\ \E o \in SUBSET Pollable(l) \ {{}} : PollReturns(l, o)

(* Loop takes the next channel of the list. *)
Takes(l, ch) == /\ pc[l] = "handle"
                /\ ch \in active[l]
                /\ active' = [active EXCEPT ![l] = @ \ {ch}]

-----------------------------------------------------------------------------
(* Acceptor::AcceptConnection and TcpServer::HandleNewConnection: the       *)
(* constructor registers the channel with an empty mask, then the           *)
(* connection enters the map.  (For a peer that resets before EnableRead    *)
(* epoll returns EPOLLHUP, which has no callback: left out.)                *)
GetNextLoop == IF loops_ = <<>> THEN Main ELSE loops_[next_ + 1]

NextIndexNoWrap == IF loops_ = <<>> THEN next_ ELSE next_ + 1
NextIndex == IF loops_ = <<>> THEN next_ ELSE (next_ + 1) % Len(loops_)

HandleNewConnection(c, f) ==
  /\ Takes(Main, "accept")
  /\ c \in Fresh
  /\ f \in FreeFd
  /\ state_' = [state_ EXCEPT ![c] = "new"]
  /\ connfd_' = [connfd_ EXCEPT ![c] = f]
  /\ loop_' = [loop_ EXCEPT ![c] = GetNextLoop]
  /\ next_' = NextIndex
  /\ in_epoll_' = in_epoll_ \cup {c}
  /\ connectionsMap_' = [connectionsMap_ EXCEPT ![f] = c]
  /\ accepting' = c
  /\ pc' = [pc EXCEPT ![Main] = "established"]
  /\ UNCHANGED <<sockets, to_do_list_, functors, spent, timers, aborted,
                 loops_>>

(* accept4 fails (no descriptor left, or the peer has gone): -1 is passed   *)
(* on and HandleNewConnection's assertion ends the process.                 *)
AcceptFails ==
  /\ Takes(Main, "accept")
  /\ aborted' = TRUE
  /\ UNCHANGED <<state_, objects, connectionsMap_, in_epoll_, sockets, pc,
                 to_do_list_, functors, spent, accepting, timers, pool>>

(* ConnectionEstablished, up to its callback: from EnableRead on, the sub   *)
(* loop sees the connection, and what came before.                          *)
ConnectionEstablished ==
  /\ pc[Main] = "established"
  /\ state_' = [state_ EXCEPT ![accepting] = "Connected"]
  /\ pc' = [pc EXCEPT ![Main] = "on_connect"]
  /\ UNCHANGED <<objects, connectionsMap_, in_epoll_, sockets, active,
                 to_do_list_, functors, spent, accepting, timers, pool,
                 aborted>>

(* on_connect_ on the main thread.  HttpServer::onConnection arms an idle   *)
(* timer that holds a weak_ptr; the test servers arm none.                  *)
OnConnect ==
  /\ pc[Main] = "on_connect"
  /\ timers' \in {timers, timers \cup {accepting}}
  /\ accepting' = None
  /\ pc' = [pc EXCEPT ![Main] = "handle"]
  /\ UNCHANGED <<state_, objects, connectionsMap_, in_epoll_, sockets, active,
                 to_do_list_, functors, spent, pool, aborted>>

-----------------------------------------------------------------------------
(* TcpServer::HandleCloseInLoop, for the connections of D: each leaves the  *)
(* map by its descriptor and its destructor is queued on its own loop.      *)
EraseForgotten(D) == UNCHANGED connectionsMap_
EraseFromMap(D) ==
  connectionsMap_' = [f \in Fd |-> IF \E c \in D : connfd_[c] = f
                                   THEN None ELSE connectionsMap_[f]]

DestructorsOnMain(D, l) ==
  IF l = Main THEN {ToDestroy(c) : c \in D} ELSE {}
DestructorsForgotten(D, l) == {}
Destructors(D, l) == {ToDestroy(c) : c \in OnLoop(D, l)}

(* TcpConnection::HandleClose, called on loop l for the connections of S.   *)
(* on_close_ is TcpServer::HandleClose: RunOneFunc runs HandleCloseInLoop   *)
(* at once on the main loop and queues it there from any other.             *)
NotYetClosedUnchecked(S) == S
NotYetClosed(S) == {c \in S : state_[c] # "Disconected"}

HandleClose(S, l) ==
  LET D == NotYetClosed(S) IN
  /\ state_' = [c \in Conn |-> IF c \in D THEN "Disconected" ELSE state_[c]]
  /\ IF l = Main
     THEN /\ EraseFromMap(D)
          /\ to_do_list_' = [m \in Loop |->
                              to_do_list_[m] \cup Destructors(D, m)]
     ELSE /\ to_do_list_' = [to_do_list_ EXCEPT ![Main] =
                              @ \cup {ToErase(c) : c \in D}]
          /\ UNCHANGED connectionsMap_

(* Channel::HandleEvent on a readable connection: ReadNonBlocking reads to  *)
(* EAGAIN, or to end of file, which closes; then on_message_, which may     *)
(* close once there was something to parse.                                 *)
ReadUntilBlocked(c) == /\ unread' = unread \ {c}
                       /\ UNCHANGED fin

SeesEof(c) == c \in fin

HandleMessage(l, c) ==
  /\ Takes(l, c)
  /\ ReadUntilBlocked(c)
  /\ \E closes \in BOOLEAN :
       /\ SeesEof(c) => closes
       /\ closes => SeesEof(c) \/ c \in unread
       /\ HandleClose(IF closes THEN {c} ELSE {}, l)
  /\ UNCHANGED <<objects, in_epoll_, pc, functors, spent, accepting, timers,
                 pool, aborted>>

(* TimerQueue::HandleRead runs HttpServer::HandleActiveClose for the due    *)
(* timers: lock() fails on a dead connection, an idle one is closed, and    *)
(* the timer of a busy one is armed again.                                  *)
HandleTimers(l) ==
  /\ Takes(l, "timer")
  /\ \E due \in SUBSET OnLoop(timers, l) :
       \E idle \in SUBSET {c \in due : Live(c)} :
         /\ timers' = timers \ {c \in due : Live(c) => c \in idle}
         /\ HandleClose(idle, l)
  /\ UNCHANGED <<objects, in_epoll_, sockets, pc, functors, spent, accepting,
                 pool, aborted>>

-----------------------------------------------------------------------------
(* EventLoop::DoToDoList.  The functors, and the shared_ptrs bound in them, *)
(* are destroyed together when it returns.                                  *)
FunctorsWhenQuiet(l) ==
  /\ pc[l] = "handle" /\ active[l] = {}
  /\ functors' = [functors EXCEPT ![l] = IF Ready(l) = {} THEN to_do_list_[l]
                                         ELSE {}]
  /\ to_do_list_' = [to_do_list_ EXCEPT ![l] = @ \ functors'[l]]
  /\ pc' = [pc EXCEPT ![l] = "run"]
  /\ UNCHANGED <<state_, objects, connectionsMap_, in_epoll_, sockets, active,
                 spent, accepting, timers, pool, aborted>>
EnterDoToDoList(l) ==
  /\ pc[l] = "handle" /\ active[l] = {}
  /\ functors' = [functors EXCEPT ![l] = to_do_list_[l]]
  /\ to_do_list_' = [to_do_list_ EXCEPT ![l] = {}]
  /\ pc' = [pc EXCEPT ![l] = "run"]
  /\ UNCHANGED <<state_, objects, connectionsMap_, in_epoll_, sockets, active,
                 spent, accepting, timers, pool, aborted>>

CallFunctor(l, g) ==
  /\ pc[l] = "run" /\ g \in functors[l]
  /\ functors' = [functors EXCEPT ![l] = @ \ {g}]
  /\ spent' = [spent EXCEPT ![l] = @ \cup {g}]

HandleCloseInLoop(l, c) ==
  /\ CallFunctor(l, ToErase(c))
  /\ EraseFromMap({c})
  /\ to_do_list_' = [m \in Loop |-> to_do_list_[m] \cup Destructors({c}, m)]
  /\ UNCHANGED <<state_, objects, in_epoll_, sockets, active, pc, accepting,
                 timers, pool, aborted>>

ConnectionDestructor(l, c) ==
  /\ CallFunctor(l, ToDestroy(c))
  /\ in_epoll_' = in_epoll_ \ {c}
  /\ UNCHANGED <<state_, objects, connectionsMap_, sockets, active, pc,
                 to_do_list_, accepting, timers, pool, aborted>>

LeaveKeepingFunctors(l) ==
  /\ pc[l] = "run" /\ functors[l] = {}
  /\ pc' = [pc EXCEPT ![l] = "poll"]
  /\ UNCHANGED <<state_, objects, connectionsMap_, in_epoll_, sockets, active,
                 to_do_list_, functors, spent, accepting, timers, pool,
                 aborted>>
LeaveDoToDoList(l) ==
  /\ pc[l] = "run" /\ functors[l] = {}
  /\ spent' = [spent EXCEPT ![l] = {}]
  /\ pc' = [pc EXCEPT ![l] = "poll"]
  /\ UNCHANGED <<state_, objects, connectionsMap_, in_epoll_, sockets, active,
                 to_do_list_, functors, accepting, timers, pool, aborted>>

-----------------------------------------------------------------------------
MainStep == \/ \E c \in Conn, f \in Fd : HandleNewConnection(c, f)
            \/ AcceptFails
            \/ ConnectionEstablished
            \/ OnConnect

LoopStep(l) == \/ l = Main /\ MainStep
               \/ \E c \in Conn : HandleMessage(l, c)
               \/ HandleTimers(l)
               \/ EnterDoToDoList(l)
               \/ \E c \in Conn : HandleCloseInLoop(l, c)
               \/ \E c \in Conn : ConnectionDestructor(l, c)
               \/ LeaveDoToDoList(l)

Peer == \E c \in Conn : PeerSend(c) \/ PeerClose(c)

Next == /\ ~aborted
        /\ \/ Peer
           \/ \E l \in Loop : Poll(l) \/ PollOthers(l) \/ LoopStep(l)

Spec == Init /\ [][Next]_vars

(* The scheduler runs every thread that is not blocked, and epoll_wait      *)
(* returns when a connection is ready or the loop was woken up.  Nothing is *)
(* assumed of peers and timers.                                             *)
Fairness == \A l \in Loop : /\ WF_vars(~aborted /\ Poll(l))
                            /\ WF_vars(~aborted /\ LoopStep(l))

FairSpec == Spec /\ Fairness

-----------------------------------------------------------------------------
(* Every variable has its type. *)
TypeOK ==
  /\ state_ \in [Conn -> {"none", "new", "Connected", "Disconected"}]
  /\ connfd_ \in [Conn -> Fd \cup {None}]
  /\ loop_ \in [Conn -> Loop \cup {None}]
  /\ connectionsMap_ \in [Fd -> Conn \cup {None}]
  /\ in_epoll_ \in SUBSET Conn
  /\ unread \in SUBSET Conn /\ fin \in SUBSET Conn
  /\ active \in [Loop -> SUBSET (Conn \cup Others)]
  /\ pc \in [Loop -> {"poll", "handle", "run", "established", "on_connect"}]
  /\ to_do_list_ \in [Loop -> SUBSET Functor]
  /\ functors \in [Loop -> SUBSET Functor]
  /\ spent \in [Loop -> SUBSET Functor]
  /\ accepting \in Conn \cup {None}
  /\ timers \in SUBSET Conn
  /\ loops_ \in Pools
  /\ next_ \in Nat /\ (loops_ # <<>> => next_ < Len(loops_))
  /\ aborted \in BOOLEAN

(* No use after free: epoll and the lists of active channels hold raw       *)
(* Channel pointers, which are good as long as a shared_ptr keeps the       *)
(* connection alive (EventLoop.h:38, Epoller.cpp:30).                       *)
NoDanglingChannel ==
  /\ \A c \in in_epoll_ : Live(c)
  /\ \A l \in Loop : \A c \in active[l] \cap Conn : Live(c)

(* The assertion of TcpServer.cpp:75 and more: when HandleCloseInLoop runs, *)
(* the map still has this very connection under its descriptor, even if     *)
(* descriptors are reused and a connection is told to close twice.          *)
CloseFindsItsConnection ==
  \A l \in Loop, c \in Conn :
    ToErase(c) \in to_do_list_[l] \cup functors[l]
      => connectionsMap_[connfd_[c]] = c

(* A connection that is open is reachable from the map: it is not kept      *)
(* alive by chance, and no entry of the map is a closed connection the main *)
(* loop was not told about.                                                 *)
MapIsExact ==
  \A c \in Conn :
    (\E f \in Fd : connectionsMap_[f] = c) <=>
      \/ state_[c] \in {"new", "Connected"}
      \/ /\ state_[c] = "Disconected"
         /\ ToErase(c) \in to_do_list_[Main] \cup functors[Main]

(* Descriptors are closed only after epoll was told: when the last          *)
(* reference goes, the connection was closed exactly once and deregistered, *)
(* and by its own loop's functor.                                           *)
ReleasedIsDeregistered ==
  [][\A c \in Conn : Live(c) /\ ~Live(c)' =>
       state_[c] = "Disconected" /\ c \notin in_epoll_]_vars

(* A peer that closes, at any time from accept on, is noticed and the       *)
(* descriptor is given back: its end of file, which epoll then reports in   *)
(* every round until ConnectionDestructor deregisters the channel, does not *)
(* keep the loop from the functor that does (EventLoop.cpp:49-58).          *)
PeerCloseReleases ==
  \A c \in Conn : c \in fin ~> ~Live(c) \/ aborted

(* A connection the server closed, from a message or a timer, is released.  *)
CloseReleases ==
  \A c \in Conn : state_[c] = "Disconected" ~> ~Live(c) \/ aborted

(* The phase of a connection: a closed one leaves epoll, then its last      *)
(* reference goes; that is the end, whatever the phase was.                 *)
PhaseOf(c) == IF state_[c] = "none" THEN "none"
              ELSE IF ~Live(c) THEN "released"
              ELSE IF state_[c] = "Disconected" /\ c \notin in_epoll_
                   THEN "deregistered" ELSE state_[c]

Life == INSTANCE ConnectionLife
        WITH phase <- [c \in Conn |-> PhaseOf(c)], fd <- connfd_

(* The server implements the life of a connection: nothing that two threads *)
(* and a timer do makes a connection skip a phase, go through one twice or  *)
(* share its descriptor.                                                    *)
ImplementsConnectionLife == Life!Spec
=============================================================================
