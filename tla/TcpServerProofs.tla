--------------------------- MODULE TcpServerProofs ---------------------------
(* The life of a connection is safe for any number of connections,          *)
(* descriptors and loops.                                                   *)
EXTENDS TcpServer, SequenceTheorems, TLAPS

-----------------------------------------------------------------------------
(* The inductive invariant: at any time a connection is in one of the five  *)
(* phases of its life.                                                      *)
Nowhere(g) == \A l \in Loop : g \notin to_do_list_[l] /\ g \notin functors[l]

Once(g, l) == /\ g \in to_do_list_[l] <=> g \notin functors[l]
              /\ \A k \in Loop \ {l} :
                   g \notin to_do_list_[k] /\ g \notin functors[k]

Mapped(c) == connfd_[c] \in Fd /\ connectionsMap_[connfd_[c]] = c
Unmapped(c) == \A f \in Fd : connectionsMap_[f] # c

Unborn(c) == /\ state_[c] = "none"
             /\ Unmapped(c) /\ accepting # c
             /\ c \notin in_epoll_
             /\ Nowhere(ToErase(c)) /\ Nowhere(ToDestroy(c))
             /\ \A l \in Loop : ToErase(c) \notin spent[l] /\ ToDestroy(c) \notin spent[l]

Open(c) == /\ state_[c] \in {"new", "Connected"}
           /\ Mapped(c) /\ loop_[c] \in Loop
           /\ c \in in_epoll_
           /\ Nowhere(ToErase(c)) /\ Nowhere(ToDestroy(c))

Closing(c) == /\ state_[c] = "Disconected"
              /\ Mapped(c) /\ loop_[c] \in Loop
              /\ c \in in_epoll_
              /\ Once(ToErase(c), Main) /\ Nowhere(ToDestroy(c))

Leaving(c) == /\ state_[c] = "Disconected"
              /\ Unmapped(c) /\ loop_[c] \in Loop
              /\ c \in in_epoll_
              /\ Nowhere(ToErase(c)) /\ Once(ToDestroy(c), loop_[c])

Gone(c) == /\ state_[c] = "Disconected"
           /\ Unmapped(c)
           /\ c \notin in_epoll_
           /\ Nowhere(ToErase(c)) /\ Nowhere(ToDestroy(c))

Phase(c) == Unborn(c) \/ Open(c) \/ Closing(c) \/ Leaving(c) \/ Gone(c)
PhaseInv == \A c \in Conn : Phase(c)

(* The map's keys are the descriptors of its connections. *)
MapInv == \A f \in Fd : \A c \in Conn : connectionsMap_[f] = c => connfd_[c] = f

(* Epoll reports a connection after EnableRead, to its own loop only, and   *)
(* the idle timer is armed later still.                                     *)
Started(c) == state_[c] \in {"Connected", "Disconected"}
ReportInv == /\ \A l \in Loop : \A c \in active[l] \cap Conn :
                  c \in in_epoll_ /\ Started(c) /\ loop_[c] = l
             /\ \A c \in timers : Started(c)

(* What each place of a thread allows. *)
PlaceInv == /\ \A l \in Loop : pc[l] \in {"poll", "run"} => active[l] = {}
            /\ \A l \in Loop : functors[l] # {} => pc[l] = "run"
            /\ \A l \in Sub : pc[l] \in {"poll", "handle", "run"}
            /\ pc[Main] = "established"
                 => accepting \in Conn /\ state_[accepting] = "new"
            /\ pc[Main] = "on_connect"
                 => accepting \in Conn /\ Started(accepting)
            /\ pc[Main] \in {"poll", "handle", "run"} => accepting = None

Inv == PhaseInv /\ MapInv /\ ReportInv /\ PlaceInv
-----------------------------------------------------------------------------
LEMMA FunctorsDiffer ==
  \A c, d \in Conn : /\ ToErase(c) # ToDestroy(d)
                     /\ ToErase(c) = ToErase(d) => c = d
                     /\ ToDestroy(c) = ToDestroy(d) => c = d
                     /\ ToErase(c) \in Functor /\ ToDestroy(c) \in Functor
BY DEF ToErase, ToDestroy, Functor, Bound

LEMMA NextLoopType ==
  TypeOK => GetNextLoop \in Loop /\ NextIndex \in Nat
            /\ (loops_ # <<>> => NextIndex < Len(loops_))
<1> SUFFICES ASSUME TypeOK
             PROVE  GetNextLoop \in Loop /\ NextIndex \in Nat
                    /\ (loops_ # <<>> => NextIndex < Len(loops_))
  OBVIOUS
<1>1. CASE loops_ = <<>>
  BY <1>1, LoopAssumption DEF TypeOK, GetNextLoop, NextIndex
<1>2. CASE loops_ # <<>>
  <2>1. loops_ \in Seq(Sub)
    BY LoopAssumption DEF TypeOK
  <2>2. Len(loops_) \in Nat /\ next_ \in Nat /\ next_ < Len(loops_)
    BY <1>2, <2>1 DEF TypeOK
  <2>3. next_ + 1 \in 1..Len(loops_)
    BY <2>2
  <2>4. loops_[next_ + 1] \in Sub
    BY <2>1, <2>3
  <2>5. (next_ + 1) % Len(loops_) \in 0..(Len(loops_) - 1)
    BY <2>2
  <2>6. QED
    BY <1>2, <2>2, <2>4, <2>5 DEF GetNextLoop, NextIndex, Sub
<1>3. QED
  BY <1>1, <1>2

(* Closing a set of connections keeps the types. *)
LEMMA CloseType ==
  ASSUME TypeOK, NEW l \in Loop, NEW S \in SUBSET Conn, HandleClose(S, l)
  PROVE  /\ state_' \in [Conn -> {"none", "new", "Connected", "Disconected"}]
         /\ connectionsMap_' \in [Fd -> Conn \cup {None}]
         /\ to_do_list_' \in [Loop -> SUBSET Functor]
<1>1. \A k \in Loop : Destructors(NotYetClosed(S), k) \in SUBSET Functor
  BY FunctorsDiffer DEF Destructors, OnLoop, NotYetClosed
<1>2. {ToErase(c) : c \in NotYetClosed(S)} \in SUBSET Functor
  BY FunctorsDiffer DEF NotYetClosed
<1>3. QED
  BY <1>1, <1>2 DEF TypeOK, HandleClose, EraseFromMap

(* TypeOK is not inductive alone: on_connect_ needs its connection.         *)
Accepting == pc[Main] \in {"established", "on_connect"}
TypeInv == TypeOK /\ (Accepting => accepting \in Conn)

LEMMA TypeInvariance == Spec => []TypeInv
<1>1. Init => TypeInv
  <2> SUFFICES ASSUME Init PROVE TypeInv
    OBVIOUS
  <2>1. loops_ # <<>> => 0 < Len(loops_)
    <3>1. loops_ \in Seq(Sub)
      BY LoopAssumption DEF Init
    <3>2. QED
      BY <3>1, EmptySeq
  <2>2. TypeOK
    BY <2>1, LoopAssumption, ConnAssumption DEF Init, TypeOK
  <2>3. QED
    BY <2>2, LoopAssumption DEF TypeInv, Accepting, Init
<1>2. TypeInv /\ [Next]_vars => TypeInv'
  <2> SUFFICES ASSUME TypeInv, [Next]_vars PROVE TypeInv'
    OBVIOUS
  <2>0. TypeOK /\ (Accepting => accepting \in Conn)
    BY DEF TypeInv
  <2> USE DEF sockets, objects, pool
  <2>1. ASSUME NEW c \in Conn, PeerSend(c) PROVE TypeInv'
    BY <2>1 DEF TypeInv, TypeOK, Accepting, PeerSend
  <2>2. ASSUME NEW c \in Conn, PeerClose(c) PROVE TypeInv'
    BY <2>2 DEF TypeInv, TypeOK, Accepting, PeerClose
  <2>3. ASSUME NEW l \in Loop, Poll(l) \/ PollOthers(l) PROVE TypeInv'
    <3>1. PICK o \in SUBSET Pollable(l) : PollReturns(l, Ready(l) \cup o)
      <4>1. ASSUME PollOthers(l)
            PROVE  \E o \in SUBSET Pollable(l) : PollReturns(l, Ready(l) \cup o)
        BY <4>1 DEF PollOthers
      <4>2. QED
        BY <2>3, <4>1 DEF Poll
    <3>2. Ready(l) \cup o \in SUBSET (Conn \cup Others)
      BY <2>0 DEF TypeOK, Ready, OnLoop, Pollable, Others
    <3>3. QED
      BY <3>1, <3>2 DEF TypeInv, TypeOK, Accepting, PollReturns
  <2>4. ASSUME NEW c \in Conn, NEW f \in Fd, HandleNewConnection(c, f)
        PROVE  TypeInv'
    <3>1. GetNextLoop \in Loop /\ NextIndex \in Nat
            /\ (loops_ # <<>> => NextIndex < Len(loops_))
      BY <2>0, NextLoopType
    <3>2. QED
      BY <2>4, <3>1, LoopAssumption DEF TypeInv, TypeOK, Accepting, HandleNewConnection, Takes
  <2>5. CASE AcceptFails
    BY <2>5, LoopAssumption DEF TypeInv, TypeOK, Accepting, AcceptFails, Takes
  <2>6. CASE ConnectionEstablished
    BY <2>6, LoopAssumption DEF TypeInv, TypeOK, Accepting, ConnectionEstablished
  <2>7. CASE OnConnect
    BY <2>7, LoopAssumption DEF TypeInv, TypeOK, Accepting, OnConnect
  <2>8. ASSUME NEW l \in Loop, NEW c \in Conn, HandleMessage(l, c)
        PROVE  TypeInv'
    <3>1. PICK closes \in BOOLEAN : HandleClose(IF closes THEN {c} ELSE {}, l)
      BY <2>8 DEF HandleMessage
    <3>2. QED
      BY <2>8, <2>0, <3>1, CloseType DEF TypeInv, TypeOK, Accepting, HandleMessage, Takes, ReadUntilBlocked
  <2>9. ASSUME NEW l \in Loop, HandleTimers(l) PROVE TypeInv'
    <3>0. PICK due \in SUBSET OnLoop(timers, l) :
            \E idle \in SUBSET {c \in due : Live(c)} :
              /\ timers' = timers \ {c \in due : Live(c) => c \in idle}
              /\ HandleClose(idle, l)
      BY <2>9 DEF HandleTimers
    <3>1. PICK idle \in SUBSET {c \in due : Live(c)} :
            /\ timers' = timers \ {c \in due : Live(c) => c \in idle}
            /\ HandleClose(idle, l)
      BY <3>0
    <3>2. idle \in SUBSET Conn
      BY <2>0 DEF TypeOK, OnLoop
    <3>3. QED
      BY <2>9, <3>1, <3>2, <2>0, CloseType DEF TypeInv, TypeOK, Accepting, HandleTimers, Takes
  <2>10. ASSUME NEW l \in Loop, EnterDoToDoList(l) PROVE TypeInv'
    BY <2>10 DEF TypeInv, TypeOK, Accepting, EnterDoToDoList
  <2>11. ASSUME NEW l \in Loop, NEW c \in Conn, HandleCloseInLoop(l, c)
         PROVE  TypeInv'
    <3>1. \A k \in Loop : Destructors({c}, k) \in SUBSET Functor
      BY FunctorsDiffer DEF Destructors, OnLoop
    <3>2. QED
      BY <2>11, <3>1 DEF TypeInv, TypeOK, Accepting, HandleCloseInLoop, CallFunctor, EraseFromMap
  <2>12. ASSUME NEW l \in Loop, NEW c \in Conn, ConnectionDestructor(l, c)
         PROVE  TypeInv'
    BY <2>12 DEF TypeInv, TypeOK, Accepting, ConnectionDestructor, CallFunctor
  <2>13. ASSUME NEW l \in Loop, LeaveDoToDoList(l) PROVE TypeInv'
    BY <2>13 DEF TypeInv, TypeOK, Accepting, LeaveDoToDoList
  <2>14. CASE UNCHANGED vars
    BY <2>14 DEF TypeInv, TypeOK, Accepting, vars
  <2>15. QED
    BY <2>1, <2>2, <2>3, <2>4, <2>5, <2>6, <2>7, <2>8, <2>9, <2>10, <2>11,
       <2>12, <2>13, <2>14 DEF Next, Peer, LoopStep, MainStep
<1>3. QED
  BY <1>1, <1>2, PTL DEF Spec

(* Every variable keeps its type, whatever the threads do. *)
THEOREM TypeCorrect == Spec => []TypeOK
<1>1. TypeInv => TypeOK
  BY DEF TypeInv
<1>2. QED
  BY <1>1, TypeInvariance, PTL

-----------------------------------------------------------------------------
(* Steps that leave the reference-holding state alone keep every phase.     *)
LEMMA PhaseFrame ==
  ASSUME PhaseInv, MapInv,
         UNCHANGED <<state_, connfd_, loop_, connectionsMap_, in_epoll_,
                     to_do_list_, functors, spent, accepting>>
  PROVE  PhaseInv' /\ MapInv'
BY DEF PhaseInv, MapInv, Phase, Unborn, Open, Closing, Leaving, Gone, Mapped,
       Unmapped, Nowhere, Once

(* A descriptor accept4 returns is not a key of the map any more.           *)
LEMMA FreeFdIsUnmapped ==
  ASSUME MapInv, NEW f \in FreeFd, NEW c \in Conn
  PROVE  connectionsMap_[f] # c
BY DEF MapInv, FreeFd, Live

(* Started connections that are closed on loop l go from Open to Leaving on *)
(* the main loop, to Closing on any other.                                  *)
LEMMA CloseStep ==
  ASSUME TypeOK, PhaseInv, MapInv, NEW l \in Loop,
         NEW S \in SUBSET Conn, \A c \in S : Started(c),
         HandleClose(S, l),
         UNCHANGED <<connfd_, loop_, in_epoll_, functors, spent, accepting>>
  PROVE  /\ PhaseInv' /\ MapInv'
         /\ \A c \in Conn : Started(c) => Started(c)'
         /\ \A c \in Conn : ~Started(c) => state_'[c] = state_[c]
<1> DEFINE D == NotYetClosed(S)
<1>1. \A c \in D : c \in Conn /\ state_[c] = "Connected" /\ Open(c)
  BY DEF NotYetClosed, Started, PhaseInv, Phase, Unborn, Open, Closing,
         Leaving, Gone
<1>2. \A c \in Conn : state_'[c] = IF c \in D THEN "Disconected" ELSE state_[c]
  BY DEF HandleClose
<1>3. MapInv'
  <2>1. CASE l = Main
    BY <2>1, ConnAssumption DEF MapInv, HandleClose, EraseFromMap
  <2>2. CASE l # Main
    BY <2>2 DEF MapInv, HandleClose
  <2>3. QED
    BY <2>1, <2>2
<1>4. PhaseInv'
  <2> SUFFICES ASSUME NEW c \in Conn PROVE Phase(c)'
    BY DEF PhaseInv
  <2>0. Phase(c)
    BY DEF PhaseInv
  <2>1. CASE l = Main
    <3>1. \A f \in Fd : connectionsMap_'[f] =
            IF \E d \in D : connfd_[d] = f THEN None ELSE connectionsMap_[f]
      BY <2>1 DEF HandleClose, EraseFromMap
    <3>2. \A k \in Loop : to_do_list_'[k] = to_do_list_[k] \cup Destructors(D, k)
      BY <2>1 DEF HandleClose
    <3>3. \A k \in Loop : /\ ToErase(c) \notin Destructors(D, k)
                          /\ ToDestroy(c) \in Destructors(D, k)
                               <=> c \in D /\ loop_[c] = k
      BY <1>1, FunctorsDiffer DEF Destructors, OnLoop
    <3>4. CASE c \in D
      <4>1. Unmapped(c)'
        BY <1>1, <3>1, <3>4, ConnAssumption DEF Unmapped, MapInv
      <4>2. Leaving(c)'
        BY <1>1, <1>2, <3>2, <3>3, <3>4, <4>1
           DEF Leaving, Open, Nowhere, Once
      <4>3. QED
        BY <4>2 DEF Phase
    <3>5. CASE c \notin D
      <4>1. Unmapped(c) => Unmapped(c)'
        BY <3>1, ConnAssumption DEF Unmapped
      <4>2. Mapped(c) => Mapped(c)'
        <5> SUFFICES ASSUME Mapped(c) PROVE Mapped(c)'
          OBVIOUS
        <5>1. ~\E d \in D : connfd_[d] = connfd_[c]
          BY <1>1, <3>5 DEF Open, Mapped
        <5>2. QED
          BY <5>1, <3>1 DEF Mapped
      <4>3. \A k \in Loop : /\ ToErase(c) \in to_do_list_'[k] <=> ToErase(c) \in to_do_list_[k]
                            /\ ToDestroy(c) \in to_do_list_'[k] <=> ToDestroy(c) \in to_do_list_[k]
        BY <3>2, <3>3, <3>5
      <4>4. state_'[c] = state_[c]
        BY <1>2, <3>5
      <4>5. QED
        BY <2>0, <4>1, <4>2, <4>3, <4>4, LoopAssumption
           DEF Phase, Unborn, Open, Closing, Leaving, Gone, Nowhere, Once
    <3>6. QED
      BY <3>4, <3>5
  <2>2. CASE l # Main
    <3>1. connectionsMap_' = connectionsMap_
      BY <2>2 DEF HandleClose
    <3>2. \A k \in Loop : /\ ToErase(c) \in to_do_list_'[k]
                               <=> \/ ToErase(c) \in to_do_list_[k]
                                   \/ k = Main /\ c \in D
                          /\ ToDestroy(c) \in to_do_list_'[k] <=> ToDestroy(c) \in to_do_list_[k]
      BY <1>1, <2>2, LoopAssumption, FunctorsDiffer DEF HandleClose, TypeOK
    <3>3. (Mapped(c) => Mapped(c)') /\ (Unmapped(c) => Unmapped(c)')
      BY <3>1 DEF Mapped, Unmapped
    <3>4. CASE c \in D
      <4>1. Closing(c)'
        BY <1>1, <1>2, <3>2, <3>3, <3>4, LoopAssumption
           DEF Closing, Open, Nowhere, Once
      <4>2. QED
        BY <4>1 DEF Phase
    <3>5. CASE c \notin D
      <4>1. state_'[c] = state_[c]
        BY <1>2, <3>5
      <4>2. QED
        BY <2>0, <3>2, <3>3, <3>5, <4>1, LoopAssumption
           DEF Phase, Unborn, Open, Closing, Leaving, Gone, Nowhere, Once
    <3>6. QED
      BY <3>4, <3>5
  <2>3. QED
    BY <2>1, <2>2
<1>5. QED
  BY <1>1, <1>2, <1>3, <1>4 DEF Started
-----------------------------------------------------------------------------
LEMMA InvInit == Init => Inv
<1> SUFFICES ASSUME Init PROVE Inv
  OBVIOUS
<1>1. PhaseInv /\ MapInv
  BY ConnAssumption DEF Init, PhaseInv, MapInv, Phase, Unborn, Unmapped, Nowhere
<1>2. ReportInv /\ PlaceInv
  BY LoopAssumption DEF Init, ReportInv, PlaceInv, Started, Sub
<1>3. QED
  BY <1>1, <1>2 DEF Inv

(* The invariant, one action at a time. *)
LEMMA InvNewConnection ==
  ASSUME TypeOK, Inv, NEW c \in Conn, NEW f \in Fd, HandleNewConnection(c, f)
  PROVE  Inv'
<1> USE DEF Inv
<1>1. GetNextLoop \in Loop
  BY NextLoopType
<1>2. f \in FreeFd /\ \A d \in Conn : connectionsMap_[f] # d
  BY FreeFdIsUnmapped DEF HandleNewConnection
<1>3. /\ state_[c] = "none" /\ Unborn(c)
      /\ Main \in Loop /\ pc[Main] = "handle" /\ accepting = None
  BY LoopAssumption
     DEF HandleNewConnection, Takes, Fresh, PhaseInv, Phase, Unborn, Open,
         Closing, Leaving, Gone, PlaceInv
<1>4. /\ connectionsMap_' = [connectionsMap_ EXCEPT ![f] = c]
      /\ connfd_' = [connfd_ EXCEPT ![c] = f]
      /\ state_' = [state_ EXCEPT ![c] = "new"]
      /\ loop_' = [loop_ EXCEPT ![c] = GetNextLoop]
      /\ in_epoll_' = in_epoll_ \cup {c}
      /\ accepting' = c
      /\ UNCHANGED <<to_do_list_, functors, spent, timers>>
  BY DEF HandleNewConnection, sockets
<1>5. MapInv'
  BY <1>2, <1>3, <1>4 DEF MapInv, TypeOK, Unborn, Unmapped
<1>6. PhaseInv'
  <2> SUFFICES ASSUME NEW d \in Conn PROVE Phase(d)'
    BY DEF PhaseInv
  <2>1. CASE d = c
    <3>1. Open(c)'
      BY <1>1, <1>3, <1>4 DEF Open, Unborn, Mapped, Nowhere, TypeOK
    <3>2. QED
      BY <2>1, <3>1 DEF Phase
  <2>2. CASE d # c
    <3>1. state_'[d] = state_[d] /\ loop_'[d] = loop_[d] /\ connfd_'[d] = connfd_[d]
      BY <1>4, <2>2 DEF TypeOK
    <3>2. (Mapped(d) => Mapped(d)') /\ (Unmapped(d) => Unmapped(d)')
      BY <1>2, <1>4, <2>2, <3>1 DEF Mapped, Unmapped, TypeOK
    <3>3. Phase(d)
      BY DEF PhaseInv
    <3>4. QED
      BY <1>4, <2>2, <3>1, <3>2, <3>3
         DEF Phase, Unborn, Open, Closing, Leaving, Gone, Nowhere, Once
  <2>3. QED
    BY <2>1, <2>2
<1>7. ReportInv'
  <2>1. \A l \in Loop : active'[l] \cap Conn \subseteq active[l]
    BY DEF HandleNewConnection, Takes, TypeOK
  <2>2. ASSUME NEW d \in Conn, Started(d)
        PROVE  /\ Started(d)' /\ loop_'[d] = loop_[d]
               /\ d \in in_epoll_ => d \in in_epoll_'
    <3>1. d # c
      BY <1>3, <2>2 DEF Started
    <3>2. state_'[d] = state_[d] /\ loop_'[d] = loop_[d]
      BY <1>4, <3>1 DEF TypeOK
    <3>3. QED
      BY <1>4, <2>2, <3>2 DEF Started
  <2>4. \A d \in timers' : Started(d)'
    BY <1>4, <2>2 DEF ReportInv, TypeOK
  <2>5. ASSUME NEW l \in Loop, NEW d \in active'[l] \cap Conn
        PROVE  d \in in_epoll_' /\ Started(d)' /\ loop_'[d] = l
    <3>1. d \in in_epoll_ /\ Started(d) /\ loop_[d] = l
      BY <2>1 DEF ReportInv
    <3>2. QED
      BY <2>2, <3>1
  <2>6. QED
    BY <2>4, <2>5 DEF ReportInv
<1>8. PlaceInv'
  BY <1>3, <1>4 DEF PlaceInv, HandleNewConnection, Takes, TypeOK, Sub
<1>9. QED
  BY <1>5, <1>6, <1>7, <1>8

LEMMA InvEstablished ==
  ASSUME TypeOK, Inv, ConnectionEstablished
  PROVE  Inv'
<1> USE DEF Inv
<1>1. /\ Main \in Loop
      /\ pc[Main] = "established"
      /\ accepting \in Conn /\ state_[accepting] = "new"
  BY LoopAssumption DEF ConnectionEstablished, PlaceInv
<1>2. /\ state_' = [state_ EXCEPT ![accepting] = "Connected"]
      /\ pc' = [pc EXCEPT ![Main] = "on_connect"]
      /\ UNCHANGED <<connfd_, loop_, connectionsMap_, in_epoll_, to_do_list_,
                     functors, spent, accepting, active, timers>>
  BY DEF ConnectionEstablished, objects
<1>3. Open(accepting)
  BY <1>1 DEF PhaseInv, Phase, Unborn, Open, Closing, Leaving, Gone
<1>4. MapInv'
  BY <1>2 DEF MapInv
<1>5. PhaseInv'
  <2> SUFFICES ASSUME NEW c \in Conn PROVE Phase(c)'
    BY DEF PhaseInv
  <2>1. CASE c = accepting
    BY <1>1, <1>2, <1>3, <2>1 DEF Phase, Open, Mapped, Nowhere, TypeOK
  <2>2. CASE c # accepting
    <3>1. state_'[c] = state_[c] /\ Phase(c)
      BY <1>2, <2>2 DEF TypeOK, PhaseInv
    <3>2. QED
      BY <1>2, <3>1
         DEF Phase, Unborn, Open, Closing, Leaving, Gone, Mapped, Unmapped,
             Nowhere, Once
  <2>3. QED
    BY <2>1, <2>2
<1>6. ReportInv'
  <2>1. Started(accepting)' /\ \A c \in Conn : Started(c) => Started(c)'
    BY <1>1, <1>2 DEF Started, TypeOK
  <2>2. QED
    BY <1>2, <1>3, <2>1 DEF ReportInv, Open, TypeOK
<1>7. PlaceInv'
  BY <1>1, <1>2 DEF PlaceInv, Started, TypeOK, Sub
<1>8. QED
  BY <1>4, <1>5, <1>6, <1>7

LEMMA InvOnConnect ==
  ASSUME TypeOK, Inv, OnConnect
  PROVE  Inv'
<1> USE DEF Inv
<1>1. /\ Main \in Loop
      /\ pc[Main] = "on_connect"
      /\ accepting \in Conn /\ Started(accepting)
  BY LoopAssumption DEF OnConnect, PlaceInv
<1>2. /\ timers' \subseteq timers \cup {accepting}
      /\ accepting' = None
      /\ pc' = [pc EXCEPT ![Main] = "handle"]
      /\ UNCHANGED <<state_, connfd_, loop_, connectionsMap_, in_epoll_,
                     to_do_list_, functors, spent, active>>
  BY DEF OnConnect, objects, sockets
<1>3. PhaseInv' /\ MapInv'
  BY <1>2, ConnAssumption
     DEF PhaseInv, MapInv, Phase, Unborn, Open, Closing, Leaving, Gone,
         Mapped, Unmapped, Nowhere, Once
<1>4. ReportInv'
  BY <1>1, <1>2 DEF ReportInv, Started
<1>5. PlaceInv'
  BY <1>1, <1>2 DEF PlaceInv, Started, TypeOK, Sub
<1>6. QED
  BY <1>3, <1>4, <1>5

(* What a callback that closes connections of its own loop leaves behind.   *)
LEMMA InvCallback ==
  ASSUME TypeOK, Inv, NEW l \in Loop, pc[l] = "handle",
         NEW S \in SUBSET Conn, \A c \in S : Started(c),
         HandleClose(S, l),
         UNCHANGED <<connfd_, loop_, in_epoll_, functors, spent, accepting,
                     pc>>,
         active' = [active EXCEPT ![l] = active'[l]],
         active'[l] \subseteq active[l],
         timers' \subseteq timers
  PROVE  Inv'
<1> USE DEF Inv
<1>1. /\ PhaseInv' /\ MapInv'
      /\ \A c \in Conn : Started(c) => Started(c)'
      /\ \A c \in Conn : ~Started(c) => state_'[c] = state_[c]
  BY CloseStep
<1>2. \A k \in Loop : active'[k] \subseteq active[k]
  BY DEF TypeOK
<1>3. ReportInv'
  BY <1>1, <1>2 DEF ReportInv, TypeOK
<1>4. PlaceInv'
  BY <1>1, <1>2, LoopAssumption DEF PlaceInv, Started
<1>5. QED
  BY <1>1, <1>3, <1>4

LEMMA InvMessage ==
  ASSUME TypeOK, Inv, NEW l \in Loop, NEW c \in Conn, HandleMessage(l, c)
  PROVE  Inv'
<1>1. PICK closes \in BOOLEAN : HandleClose(IF closes THEN {c} ELSE {}, l)
  BY DEF HandleMessage
<1>2. Started(c)
  BY DEF HandleMessage, Takes, Inv, ReportInv
<1>3. /\ pc[l] = "handle"
      /\ active' = [active EXCEPT ![l] = @ \ {c}]
      /\ UNCHANGED <<connfd_, loop_, in_epoll_, functors, spent, accepting,
                     pc, timers>>
  BY DEF HandleMessage, Takes, ReadUntilBlocked, objects
<1>4. active' = [active EXCEPT ![l] = active'[l]] /\ active'[l] \subseteq active[l]
  BY <1>3 DEF TypeOK
<1>5. QED
  BY <1>1, <1>2, <1>3, <1>4, InvCallback

LEMMA InvTimers ==
  ASSUME TypeOK, Inv, NEW l \in Loop, HandleTimers(l)
  PROVE  Inv'
<1>1. PICK due \in SUBSET OnLoop(timers, l) :
        \E idle \in SUBSET {c \in due : Live(c)} :
          /\ timers' = timers \ {c \in due : Live(c) => c \in idle}
          /\ HandleClose(idle, l)
  BY DEF HandleTimers
<1>2. PICK idle \in SUBSET {c \in due : Live(c)} :
        /\ timers' = timers \ {c \in due : Live(c) => c \in idle}
        /\ HandleClose(idle, l)
  BY <1>1
<1>3. idle \in SUBSET Conn /\ \A c \in idle : Started(c)
  BY DEF OnLoop, TypeOK, Inv, ReportInv
<1>4. /\ pc[l] = "handle"
      /\ active' = [active EXCEPT ![l] = @ \ {"timer"}]
      /\ UNCHANGED <<connfd_, loop_, in_epoll_, functors, spent, accepting,
                     pc>>
  BY DEF HandleTimers, Takes, objects, sockets
<1>5. active' = [active EXCEPT ![l] = active'[l]] /\ active'[l] \subseteq active[l]
  BY <1>4 DEF TypeOK
<1>6. timers' \subseteq timers
  BY <1>2
<1>7. QED
  BY <1>2, <1>3, <1>4, <1>5, <1>6, InvCallback

LEMMA InvEnter ==
  ASSUME TypeOK, Inv, NEW l \in Loop, EnterDoToDoList(l)
  PROVE  Inv'
<1> USE DEF Inv
<1>1. functors[l] = {} /\ active[l] = {} /\ pc[l] = "handle"
  BY DEF EnterDoToDoList, PlaceInv
<1>2. /\ functors' = [functors EXCEPT ![l] = to_do_list_[l]]
      /\ to_do_list_' = [to_do_list_ EXCEPT ![l] = {}]
      /\ pc' = [pc EXCEPT ![l] = "run"]
      /\ UNCHANGED <<state_, connfd_, loop_, connectionsMap_, in_epoll_,
                     spent, accepting, active, timers>>
  BY DEF EnterDoToDoList, objects, sockets
<1>3. \A g : (Nowhere(g) => Nowhere(g)') /\ \A k \in Loop : Once(g, k) => Once(g, k)'
  BY <1>1, <1>2 DEF Nowhere, Once, TypeOK
<1>4. PhaseInv' /\ MapInv'
  BY <1>2, <1>3, LoopAssumption
     DEF PhaseInv, MapInv, Phase, Unborn, Open, Closing, Leaving, Gone,
         Mapped, Unmapped
<1>5. ReportInv'
  BY <1>2 DEF ReportInv, Started
<1>6. PlaceInv'
  BY <1>1, <1>2 DEF PlaceInv, Started, TypeOK, Sub
<1>7. QED
  BY <1>4, <1>5, <1>6

LEMMA InvLeave ==
  ASSUME TypeOK, Inv, NEW l \in Loop, LeaveDoToDoList(l)
  PROVE  Inv'
<1> USE DEF Inv
<1>1. /\ pc[l] = "run" /\ functors[l] = {}
      /\ spent' = [spent EXCEPT ![l] = {}]
      /\ pc' = [pc EXCEPT ![l] = "poll"]
      /\ UNCHANGED <<state_, connfd_, loop_, connectionsMap_, in_epoll_,
                     to_do_list_, functors, accepting, active, timers>>
  BY DEF LeaveDoToDoList, objects, sockets
<1>2. PhaseInv' /\ MapInv'
  BY <1>1
     DEF PhaseInv, MapInv, Phase, Unborn, Open, Closing, Leaving, Gone,
         Mapped, Unmapped, Nowhere, Once, TypeOK
<1>3. ReportInv'
  BY <1>1 DEF ReportInv, Started
<1>4. PlaceInv'
  BY <1>1 DEF PlaceInv, Started, TypeOK, Sub
<1>5. QED
  BY <1>2, <1>3, <1>4

(* HandleCloseInLoop: the one pending request of a Closing connection, on   *)
(* the main loop, makes it Leaving.                                         *)
LEMMA InvErase ==
  ASSUME TypeOK, Inv, NEW l \in Loop, NEW c \in Conn, HandleCloseInLoop(l, c)
  PROVE  Inv'
<1> USE DEF Inv
<1>1. /\ pc[l] = "run" /\ ToErase(c) \in functors[l]
      /\ functors' = [functors EXCEPT ![l] = @ \ {ToErase(c)}]
      /\ spent' = [spent EXCEPT ![l] = @ \cup {ToErase(c)}]
      /\ UNCHANGED <<state_, connfd_, loop_, in_epoll_, accepting, pc,
                     active, timers>>
  BY DEF HandleCloseInLoop, CallFunctor, objects, sockets
<1>2. Closing(c) /\ l = Main
  BY <1>1, LoopAssumption
     DEF PhaseInv, Phase, Unborn, Open, Closing, Leaving, Gone, Nowhere, Once
<1>3. \A f \in Fd :
        connectionsMap_'[f] = IF connfd_[c] = f THEN None ELSE connectionsMap_[f]
  BY DEF HandleCloseInLoop, EraseFromMap
<1>4. \A d \in Conn, k \in Loop :
        /\ ToErase(d) \in to_do_list_'[k] <=> ToErase(d) \in to_do_list_[k]
        /\ ToDestroy(d) \in to_do_list_'[k]
             <=> ToDestroy(d) \in to_do_list_[k] \/ (d = c /\ loop_[c] = k)
  BY FunctorsDiffer DEF HandleCloseInLoop, Destructors, OnLoop
<1>5. \A d \in Conn, k \in Loop :
        /\ ToErase(d) \in functors'[k]
             <=> ToErase(d) \in functors[k] /\ ~(d = c /\ k = l)
        /\ ToDestroy(d) \in functors'[k] <=> ToDestroy(d) \in functors[k]
  BY <1>1, FunctorsDiffer DEF TypeOK
<1>6. MapInv'
  BY <1>1, <1>3, ConnAssumption DEF MapInv
<1>7. PhaseInv'
  <2> SUFFICES ASSUME NEW d \in Conn PROVE Phase(d)'
    BY DEF PhaseInv
  <2>1. CASE d = c
    <3>1. Unmapped(c)'
      BY <1>2, <1>3, ConnAssumption DEF Unmapped, MapInv
    <3>2. Leaving(c)'
      BY <1>1, <1>2, <1>4, <1>5, <3>1, LoopAssumption
         DEF Closing, Leaving, Nowhere, Once
    <3>3. QED
      BY <2>1, <3>2 DEF Phase
  <2>2. CASE d # c
    <3>1. Mapped(d) => Mapped(d)'
      BY <1>1, <1>2, <1>3, <2>2 DEF Mapped, Closing
    <3>2. Unmapped(d) => Unmapped(d)'
      BY <1>3, ConnAssumption DEF Unmapped
    <3>3. \A k \in Loop : ToErase(d) \notin spent[k] /\ ToDestroy(d) \notin spent[k]
                         => ToErase(d) \notin spent'[k] /\ ToDestroy(d) \notin spent'[k]
      BY <1>1, <2>2, FunctorsDiffer DEF TypeOK
    <3>4. Phase(d)
      BY DEF PhaseInv
    <3>5. QED
      BY <1>1, <1>4, <1>5, <2>2, <3>1, <3>2, <3>3, <3>4, LoopAssumption
         DEF Phase, Unborn, Open, Closing, Leaving, Gone, Nowhere, Once
  <2>3. QED
    BY <2>1, <2>2
<1>8. ReportInv'
  BY <1>1 DEF ReportInv, Started
<1>9. PlaceInv'
  BY <1>1 DEF PlaceInv, Started, TypeOK
<1>10. QED
  BY <1>6, <1>7, <1>8, <1>9

(* ConnectionDestructor: a Leaving connection is deregistered by its own    *)
(* loop, when that loop has no list of active channels any more.            *)
LEMMA InvDestroy ==
  ASSUME TypeOK, Inv, NEW l \in Loop, NEW c \in Conn, ConnectionDestructor(l, c)
  PROVE  Inv'
<1> USE DEF Inv
<1>1. /\ pc[l] = "run" /\ ToDestroy(c) \in functors[l]
      /\ functors' = [functors EXCEPT ![l] = @ \ {ToDestroy(c)}]
      /\ spent' = [spent EXCEPT ![l] = @ \cup {ToDestroy(c)}]
      /\ in_epoll_' = in_epoll_ \ {c}
      /\ UNCHANGED <<state_, connfd_, loop_, connectionsMap_, to_do_list_,
                     accepting, pc, active, timers>>
  BY DEF ConnectionDestructor, CallFunctor, objects
<1>2. Leaving(c) /\ l = loop_[c]
  BY <1>1, LoopAssumption
     DEF PhaseInv, Phase, Unborn, Open, Closing, Leaving, Gone, Nowhere, Once
<1>3. \A k \in Loop : c \notin active[k]
  BY <1>1, <1>2 DEF ReportInv, PlaceInv
<1>4. \A d \in Conn, k \in Loop :
        /\ ToDestroy(d) \in functors'[k]
             <=> ToDestroy(d) \in functors[k] /\ ~(d = c /\ k = l)
        /\ ToErase(d) \in functors'[k] <=> ToErase(d) \in functors[k]
  BY <1>1, FunctorsDiffer DEF TypeOK
<1>5. MapInv'
  BY <1>1 DEF MapInv
<1>6. PhaseInv'
  <2> SUFFICES ASSUME NEW d \in Conn PROVE Phase(d)'
    BY DEF PhaseInv
  <2>1. CASE d = c
    <3>1. Gone(c)'
      BY <1>1, <1>2, <1>4 DEF Leaving, Gone, Unmapped, Nowhere, Once
    <3>2. QED
      BY <2>1, <3>1 DEF Phase
  <2>2. CASE d # c
    <3>1. \A k \in Loop : ToErase(d) \notin spent[k] /\ ToDestroy(d) \notin spent[k]
                         => ToErase(d) \notin spent'[k] /\ ToDestroy(d) \notin spent'[k]
      BY <1>1, <2>2, FunctorsDiffer DEF TypeOK
    <3>2. Phase(d)
      BY DEF PhaseInv
    <3>3. QED
      BY <1>1, <1>4, <2>2, <3>1, <3>2
         DEF Phase, Unborn, Open, Closing, Leaving, Gone, Mapped, Unmapped,
             Nowhere, Once
  <2>3. QED
    BY <2>1, <2>2
<1>7. ReportInv'
  BY <1>1, <1>3 DEF ReportInv, Started
<1>8. PlaceInv'
  BY <1>1 DEF PlaceInv, Started, TypeOK
<1>9. QED
  BY <1>5, <1>6, <1>7, <1>8

LEMMA InvPoll ==
  ASSUME TypeOK, Inv, NEW l \in Loop, NEW o \in SUBSET Others,
         PollReturns(l, Ready(l) \cup o)
  PROVE  Inv'
<1> USE DEF Inv
<1>1. /\ pc[l] = "poll"
      /\ active' = [active EXCEPT ![l] = Ready(l) \cup o]
      /\ pc' = [pc EXCEPT ![l] = "handle"]
      /\ UNCHANGED <<state_, connfd_, loop_, connectionsMap_, in_epoll_,
                     to_do_list_, functors, spent, accepting, timers>>
  BY DEF PollReturns, objects
<1>2. PhaseInv' /\ MapInv'
  BY <1>1, PhaseFrame
<1>3. ReportInv'
  <2>1. \A c \in (Ready(l) \cup o) \cap Conn :
          c \in in_epoll_ /\ Started(c) /\ loop_[c] = l
    BY ConnAssumption DEF Ready, Listening, OnLoop, Started, TypeOK
  <2>2. QED
    BY <1>1, <2>1 DEF ReportInv, Started, TypeOK
<1>4. PlaceInv'
  BY <1>1, LoopAssumption DEF PlaceInv, Started, TypeOK, Sub
<1>5. QED
  BY <1>2, <1>3, <1>4

LEMMA InvQuiet ==
  ASSUME TypeOK, Inv,
         \/ \E c \in Conn : PeerSend(c) \/ PeerClose(c)
         \/ AcceptFails
         \/ UNCHANGED vars
  PROVE  Inv'
<1> USE DEF Inv
<1>1. UNCHANGED <<state_, connfd_, loop_, connectionsMap_, in_epoll_,
                  to_do_list_, functors, spent, accepting, timers, pc>>
  BY DEF PeerSend, PeerClose, AcceptFails, objects, vars
<1>3. \A k \in Loop : active'[k] \subseteq active[k]
  BY DEF PeerSend, PeerClose, AcceptFails, Takes, vars, TypeOK
<1>4. PhaseInv' /\ MapInv'
  BY <1>1, PhaseFrame
<1>5. ReportInv'
  BY <1>1, <1>3 DEF ReportInv, Started
<1>6. PlaceInv'
  BY <1>1, <1>3 DEF PlaceInv, Started
<1>7. QED
  BY <1>4, <1>5, <1>6

LEMMA InvStep == TypeOK /\ Inv /\ [Next]_vars => Inv'
<1> SUFFICES ASSUME TypeOK, Inv, [Next]_vars PROVE Inv'
  OBVIOUS
<1>1. ASSUME NEW l \in Loop, Poll(l) \/ PollOthers(l) PROVE Inv'
  <2>1. PICK o \in SUBSET Others : PollReturns(l, Ready(l) \cup o)
    <3>1. Pollable(l) \subseteq Others
      BY DEF Pollable, Others
    <3>2. CASE Poll(l)
      BY <3>1, <3>2 DEF Poll
    <3>3. CASE PollOthers(l)
      BY <3>1, <3>3 DEF PollOthers
    <3>4. QED
      BY <1>1, <3>2, <3>3
  <2>2. QED
    BY <2>1, InvPoll
<1>2. ASSUME MainStep PROVE Inv'
  BY <1>2, InvNewConnection, InvQuiet, InvEstablished, InvOnConnect DEF MainStep
<1>3. ASSUME NEW l \in Loop, LoopStep(l) PROVE Inv'
  BY <1>2, <1>3, InvMessage, InvTimers, InvEnter, InvErase, InvDestroy, InvLeave
     DEF LoopStep
<1>4. CASE Peer
  BY <1>4, InvQuiet DEF Peer
<1>5. CASE UNCHANGED vars
  BY <1>5, InvQuiet
<1>6. QED
  BY <1>1, <1>3, <1>4, <1>5 DEF Next

LEMMA Invariance == Spec => [](TypeOK /\ Inv)
<1>1. TypeInv => TypeOK
  BY DEF TypeInv
<1>2. QED
  BY <1>1, InvInit, InvStep, TypeInvariance, PTL DEF Spec

-----------------------------------------------------------------------------
(* What epoll still knows is held by the map or by a queued functor.        *)
LEMMA RegisteredIsLive ==
  ASSUME TypeOK, Inv, NEW c \in in_epoll_
  PROVE  Live(c)
<1>1. c \in Conn /\ Phase(c)
  BY DEF TypeOK, Inv, PhaseInv
<1>2. CASE Mapped(c)
  BY <1>2 DEF Mapped, Live
<1>3. CASE Leaving(c)
  BY <1>3 DEF Leaving, Once, Live, Bound
<1>4. QED
  BY <1>1, <1>2, <1>3 DEF Phase, Unborn, Open, Closing, Gone

(* No Channel pointer that epoll or a loop still uses dangles.              *)
THEOREM ChannelsAreSafe == Spec => []NoDanglingChannel
<1>1. TypeOK /\ Inv => NoDanglingChannel
  BY RegisteredIsLive DEF NoDanglingChannel, Inv, ReportInv
<1>2. QED
  BY <1>1, Invariance, PTL

(* HandleCloseInLoop's assertion holds, and it erases the right connection. *)
THEOREM CloseIsExact == Spec => []CloseFindsItsConnection
<1>1. TypeOK /\ Inv => CloseFindsItsConnection
  BY DEF CloseFindsItsConnection, Inv, PhaseInv, Phase, Unborn, Open, Closing,
         Leaving, Gone, Mapped, Nowhere
<1>2. QED
  BY <1>1, Invariance, PTL

(* The map holds the open connections and those whose close is pending.     *)
THEOREM MapHoldsOpenConnections == Spec => []MapIsExact
<1>1. TypeOK /\ Inv => MapIsExact
  BY LoopAssumption
     DEF MapIsExact, Inv, PhaseInv, Phase, Unborn, Open, Closing, Leaving,
         Gone, Mapped, Unmapped, Nowhere, Once
<1>2. QED
  BY <1>1, Invariance, PTL

(* Only the connection's own destructor functor takes it out of epoll, and  *)
(* that functor still holds it.                                             *)
LEMMA DeregisteredIsLive ==
  ASSUME TypeOK, Next, NEW c \in in_epoll_, c \notin in_epoll_'
  PROVE  Live(c)'
<1>1. PICK l \in Loop : \E d \in Conn : ConnectionDestructor(l, d)
  BY DEF Next, Peer, PeerSend, PeerClose, Poll, PollOthers, PollReturns,
         LoopStep, MainStep, HandleNewConnection, AcceptFails,
         ConnectionEstablished, OnConnect, HandleMessage, HandleTimers,
         EnterDoToDoList, HandleCloseInLoop, LeaveDoToDoList
<1>2. ConnectionDestructor(l, c)
  BY <1>1 DEF ConnectionDestructor
<1>3. ToDestroy(c) \in spent'[l]
  BY <1>2 DEF ConnectionDestructor, CallFunctor, TypeOK
<1>4. QED
  BY <1>3 DEF Live, Bound, ToDestroy, ToErase

(* The descriptor is closed after the one HandleClose and after the channel *)
(* left epoll.                                                              *)
THEOREM ReleaseIsClean == Spec => ReleasedIsDeregistered
<1> DEFINE Clean(c) == Live(c) /\ ~Live(c)' =>
                         state_[c] = "Disconected" /\ c \notin in_epoll_
<1>1. TypeOK /\ Inv /\ NoDanglingChannel' /\ [Next]_vars
        => [\A c \in Conn : Clean(c)]_vars
  <2> SUFFICES ASSUME TypeOK, Inv, NoDanglingChannel', Next,
                      NEW c \in Conn, Live(c), ~Live(c)'
               PROVE  state_[c] = "Disconected" /\ c \notin in_epoll_
    OBVIOUS
  <2>1. c \notin in_epoll_'
    BY DEF NoDanglingChannel
  <2>2. c \notin in_epoll_
    BY <2>1, DeregisteredIsLive
  <2>3. ~Unborn(c)
    BY ConnAssumption DEF Unborn, Unmapped, Nowhere, Live, Bound
  <2>4. Gone(c)
    BY <2>2, <2>3 DEF Inv, PhaseInv, Phase, Open, Closing, Leaving
  <2>5. QED
    BY <2>2, <2>4 DEF Gone
<1>2. QED
  BY <1>1, Invariance, ChannelsAreSafe, PTL DEF Spec, ReleasedIsDeregistered

-----------------------------------------------------------------------------
(* The refinement.  A connection that left epoll is held only by what still *)
(* has to be destroyed: the accepting frame or the functors that ran.       *)
Held(c) == \/ accepting = c
           \/ \E l \in Loop : ToErase(c) \in spent[l] \/ ToDestroy(c) \in spent[l]

PhaseIs == \A c \in Conn :
             PhaseOf(c) = IF state_[c] = "none" THEN "none"
                          ELSE IF c \in in_epoll_ THEN state_[c]
                          ELSE IF Held(c) THEN "deregistered" ELSE "released"

LEMMA PhaseFollows == TypeOK /\ Inv => PhaseIs
<1> SUFFICES ASSUME TypeOK, Inv, NEW c \in Conn
             PROVE  PhaseOf(c) = IF state_[c] = "none" THEN "none"
                                 ELSE IF c \in in_epoll_ THEN state_[c]
                                 ELSE IF Held(c) THEN "deregistered" ELSE "released"
  BY DEF PhaseIs
<1>1. CASE c \in in_epoll_
  BY <1>1, RegisteredIsLive DEF PhaseOf
<1>2. CASE c \notin in_epoll_
  <2>1. Unborn(c) \/ Gone(c)
    BY <1>2 DEF Inv, PhaseInv, Phase, Open, Closing, Leaving
  <2>2. Gone(c) => (Live(c) <=> Held(c))
    BY DEF Gone, Live, Held, Bound, Unmapped, Nowhere
  <2>3. QED
    BY <1>2, <2>1, <2>2 DEF PhaseOf, Unborn, Gone
<1>3. QED
  BY <1>1, <1>2

(* A step after which no more is held than before releases what is not held *)
(* any more, and does nothing else to the life of a connection.             *)
LEMMA StepReleases ==
  ASSUME PhaseIs, PhaseIs', UNCHANGED <<state_, connfd_, in_epoll_>>,
         \A c \in Conn : state_[c] # "none" /\ c \notin in_epoll_
                           => (Held(c)' => Held(c))
  PROVE  Life!Next
<1> DEFINE S == {c \in Conn : PhaseOf(c) = "deregistered" /\ PhaseOf(c)' = "released"}
<1>1. \A c \in Conn : PhaseOf(c)' = IF c \in S THEN "released" ELSE PhaseOf(c)
  BY DEF PhaseIs
<1>2. Life!Release(S)
  BY <1>1 DEF Life!Release, Life!Moves
<1>3. QED
  BY <1>2 DEF Life!Next

LEMMA AcceptStep ==
  ASSUME TypeOK, Inv, PhaseIs, PhaseIs', NEW c \in Conn, NEW f \in Fd,
         HandleNewConnection(c, f)
  PROVE  Life!Next
<1>1. /\ c \in Fresh /\ f \in FreeFd
      /\ state_' = [state_ EXCEPT ![c] = "new"]
      /\ connfd_' = [connfd_ EXCEPT ![c] = f]
      /\ in_epoll_' = in_epoll_ \cup {c}
      /\ accepting' = c
      /\ UNCHANGED spent
  BY DEF HandleNewConnection
<1>2. \A d \in Conn : connfd_[d] = f => PhaseOf(d) \in {"none", "released"}
  BY <1>1 DEF FreeFd, PhaseOf
<1>3. PhaseOf(c) = "none"
  BY <1>1 DEF Fresh, PhaseOf
<1>4. c \in in_epoll_' /\ state_'[c] = "new"
  BY <1>1 DEF TypeOK
<1>5. PhaseOf(c)' = "new"
  BY <1>4 DEF PhaseIs
<1>6. ASSUME NEW d \in Conn, d # c PROVE PhaseOf(d)' = PhaseOf(d)
  <2>1. /\ state_'[d] = state_[d]
        /\ d \in in_epoll_' <=> d \in in_epoll_
        /\ accepting # d /\ accepting' # d
    <3>1. accepting = None
      BY LoopAssumption DEF HandleNewConnection, Takes, Inv, PlaceInv
    <3>2. QED
      BY <1>1, <1>6, <3>1, ConnAssumption DEF TypeOK
  <2>2. Held(d)' <=> Held(d)
    BY <1>1, <2>1 DEF Held
  <2>3. QED
    BY <2>1, <2>2 DEF PhaseIs
<1>7. Life!Accept(c, f)
  BY <1>1, <1>2, <1>3, <1>5, <1>6 DEF Life!Accept, Life!Moves, Life!Holds
<1>8. QED
  BY <1>7 DEF Life!Next

LEMMA EstablishStep ==
  ASSUME TypeOK, Inv, PhaseIs, PhaseIs', ConnectionEstablished
  PROVE  Life!Next
<1>1. /\ state_' = [state_ EXCEPT ![accepting] = "Connected"]
      /\ UNCHANGED <<connfd_, in_epoll_, accepting, spent>>
  BY DEF ConnectionEstablished, objects
<1>2. accepting \in Conn /\ state_[accepting] = "new" /\ accepting \in in_epoll_
  BY DEF ConnectionEstablished, Inv, PlaceInv, PhaseInv, Phase, Unborn, Open,
         Closing, Leaving, Gone
<1>3. \A d \in Conn : Held(d)' <=> Held(d)
  BY <1>1 DEF Held
<1>4. \A d \in Conn : PhaseOf(d)' = IF d = accepting THEN "Connected" ELSE PhaseOf(d)
  BY <1>1, <1>2, <1>3 DEF PhaseIs, TypeOK
<1>5. PhaseOf(accepting) = "new"
  BY <1>2 DEF PhaseIs
<1>6. Life!Establish(accepting)
  BY <1>1, <1>2, <1>4, <1>5 DEF Life!Establish, Life!Moves
<1>7. QED
  BY <1>2, <1>6 DEF Life!Next

LEMMA CloseMoves ==
  ASSUME TypeOK, Inv, PhaseIs, PhaseIs', NEW l \in Loop,
         NEW S \in SUBSET Conn, \A c \in S : Started(c),
         HandleClose(S, l),
         UNCHANGED <<connfd_, in_epoll_, accepting, spent>>
  PROVE  Life!Next
<1> DEFINE D == NotYetClosed(S)
<1>1. \A c \in D : c \in Conn /\ state_[c] = "Connected" /\ c \in in_epoll_
  BY DEF NotYetClosed, Started, Inv, PhaseInv, Phase, Unborn, Open, Closing,
         Leaving, Gone
<1>2. \A c \in Conn : state_'[c] = IF c \in D THEN "Disconected" ELSE state_[c]
  BY DEF HandleClose
<1>3. \A c \in Conn : Held(c)' <=> Held(c)
  BY DEF Held
<1>4. \A c \in Conn : PhaseOf(c)' = IF c \in D THEN "Disconected" ELSE PhaseOf(c)
  BY <1>1, <1>2, <1>3 DEF PhaseIs
<1>5. \A c \in D : PhaseOf(c) = "Connected"
  BY <1>1 DEF PhaseIs
<1>6. Life!Close(D)
  BY <1>1, <1>4, <1>5 DEF Life!Close, Life!Moves
<1>7. D \in SUBSET Conn
  BY <1>1
<1>8. QED
  BY <1>6, <1>7 DEF Life!Next

LEMMA DestroyStep ==
  ASSUME TypeOK, Inv, PhaseIs, PhaseIs', NEW l \in Loop, NEW c \in Conn,
         ConnectionDestructor(l, c)
  PROVE  Life!Next
<1>1. /\ ToDestroy(c) \in functors[l]
      /\ spent' = [spent EXCEPT ![l] = @ \cup {ToDestroy(c)}]
      /\ in_epoll_' = in_epoll_ \ {c}
      /\ UNCHANGED <<state_, connfd_, accepting>>
  BY DEF ConnectionDestructor, CallFunctor, objects
<1>2. state_[c] = "Disconected" /\ c \in in_epoll_
  BY <1>1 DEF Inv, PhaseInv, Phase, Unborn, Open, Closing, Leaving, Gone, Nowhere
<1>3. Held(c)'
  BY <1>1 DEF Held, TypeOK, ToDestroy, ToErase
<1>4. \A d \in Conn \ {c} : Held(d)' <=> Held(d)
  BY <1>1, FunctorsDiffer DEF Held, TypeOK
<1>5. \A d \in Conn : PhaseOf(d)' = IF d = c THEN "deregistered" ELSE PhaseOf(d)
  BY <1>1, <1>2, <1>3, <1>4 DEF PhaseIs
<1>6. PhaseOf(c) = "Disconected"
  BY <1>2 DEF PhaseIs
<1>7. Life!Deregister(c)
  BY <1>1, <1>5, <1>6 DEF Life!Deregister, Life!Moves
<1>8. QED
  BY <1>7 DEF Life!Next

(* The functor of a connection that is in epoll is run: no other connection *)
(* is held by it.                                                           *)
LEMMA EraseStep ==
  ASSUME TypeOK, Inv, PhaseIs, PhaseIs', NEW l \in Loop, NEW c \in Conn,
         HandleCloseInLoop(l, c)
  PROVE  Life!Next
<1>1. /\ ToErase(c) \in functors[l]
      /\ spent' = [spent EXCEPT ![l] = @ \cup {ToErase(c)}]
      /\ UNCHANGED <<state_, connfd_, in_epoll_, accepting>>
  BY DEF HandleCloseInLoop, CallFunctor, objects
<1>2. c \in in_epoll_
  BY <1>1 DEF Inv, PhaseInv, Phase, Unborn, Open, Closing, Leaving, Gone, Nowhere
<1>3. \A d \in Conn \ {c} : Held(d)' <=> Held(d)
  BY <1>1, FunctorsDiffer DEF Held, TypeOK
<1>4. QED
  BY <1>1, <1>2, <1>3, StepReleases

LEMMA OtherSteps ==
  ASSUME PhaseIs, PhaseIs', TypeOK,
         UNCHANGED <<state_, connfd_, in_epoll_>>,
         accepting' \in {accepting, None},
         \A l \in Loop : spent'[l] \subseteq spent[l]
  PROVE  Life!Next
<1>1. \A c \in Conn : Held(c)' => Held(c)
  BY ConnAssumption DEF Held
<1>2. QED
  BY <1>1, StepReleases

(* The server implements the life of a connection: every step is one of its *)
(* steps, or leaves it as it is.                                            *)
THEOREM ServerImplementsLife == Spec => ImplementsConnectionLife
<1>1. Init => Life!Init
  BY DEF Init, Life!Init, PhaseOf
<1>2. TypeOK /\ Inv /\ PhaseIs /\ PhaseIs' /\ [Next]_vars => [Life!Next]_(Life!vars)
  <2> SUFFICES ASSUME TypeOK, Inv, PhaseIs, PhaseIs', [Next]_vars
               PROVE  [Life!Next]_(Life!vars)
    OBVIOUS
  <2>1. CASE Peer
    BY <2>1, OtherSteps DEF Peer, PeerSend, PeerClose, objects
  <2>2. ASSUME NEW l \in Loop, Poll(l) \/ PollOthers(l) PROVE Life!Next
    BY <2>2, OtherSteps DEF Poll, PollOthers, PollReturns, objects
  <2>3. ASSUME MainStep PROVE Life!Next
    <3>1. AcceptFails => Life!Next
      BY OtherSteps DEF AcceptFails, objects
    <3>2. OnConnect => Life!Next
      BY OtherSteps DEF OnConnect, objects
    <3>3. QED
      BY <2>3, <3>1, <3>2, AcceptStep, EstablishStep DEF MainStep
  <2>4. ASSUME NEW l \in Loop, NEW c \in Conn, HandleMessage(l, c)
        PROVE  Life!Next
    <3>1. PICK closes \in BOOLEAN : HandleClose(IF closes THEN {c} ELSE {}, l)
      BY <2>4 DEF HandleMessage
    <3>2. Started(c)
      BY <2>4 DEF HandleMessage, Takes, Inv, ReportInv
    <3>3. UNCHANGED <<connfd_, in_epoll_, accepting, spent>>
      BY <2>4 DEF HandleMessage, objects
    <3>4. QED
      BY <3>1, <3>2, <3>3, CloseMoves
  <2>5. ASSUME NEW l \in Loop, HandleTimers(l) PROVE Life!Next
    <3>1. PICK due \in SUBSET OnLoop(timers, l) :
            \E idle \in SUBSET {c \in due : Live(c)} : HandleClose(idle, l)
      BY <2>5 DEF HandleTimers
    <3>2. PICK idle \in SUBSET {c \in due : Live(c)} : HandleClose(idle, l)
      BY <3>1
    <3>3. idle \in SUBSET Conn /\ \A c \in idle : Started(c)
      BY DEF OnLoop, TypeOK, Inv, ReportInv
    <3>4. UNCHANGED <<connfd_, in_epoll_, accepting, spent>>
      BY <2>5 DEF HandleTimers, objects
    <3>5. QED
      BY <3>2, <3>3, <3>4, CloseMoves
  <2>6. ASSUME NEW l \in Loop, EnterDoToDoList(l) PROVE Life!Next
    BY <2>6, OtherSteps DEF EnterDoToDoList, objects
  <2>7. ASSUME NEW l \in Loop, LeaveDoToDoList(l) PROVE Life!Next
    <3>1. \A k \in Loop : spent'[k] \subseteq spent[k]
      BY <2>7 DEF LeaveDoToDoList, TypeOK
    <3>2. QED
      BY <2>7, <3>1, OtherSteps DEF LeaveDoToDoList, objects
  <2>8. CASE UNCHANGED vars
    <3>1. \A c \in Conn : PhaseOf(c)' = PhaseOf(c)
      BY <2>8 DEF vars, objects, PhaseOf, Live
    <3>2. UNCHANGED connfd_
      BY <2>8 DEF vars, objects
    <3>3. QED
      BY <3>1, <3>2 DEF Life!vars
  <2>9. QED
    BY <2>1, <2>2, <2>3, <2>4, <2>5, <2>6, <2>7, <2>8, EraseStep, DestroyStep
       DEF Next, LoopStep
<1>3. QED
  BY <1>1, <1>2, Invariance, PhaseFollows, PTL
     DEF Spec, ImplementsConnectionLife, Life!Spec


(* What the abstract life is for: two connections that are not released     *)
(* never have the same descriptor, though the kernel gives numbers again.   *)
THEOREM DescriptorsAreSafe == Spec => []Life!DescriptorsAreExclusive
<1>1. Life!Init => Life!DescriptorsAreExclusive
  BY DEF Life!Init, Life!DescriptorsAreExclusive, Life!Holds
<1>2. TypeOK /\ TypeOK' /\ Life!DescriptorsAreExclusive /\ [Life!Next]_(Life!vars)
        => Life!DescriptorsAreExclusive'
  <2> SUFFICES ASSUME TypeOK, TypeOK', Life!DescriptorsAreExclusive,
                      [Life!Next]_(Life!vars),
                      NEW c \in Conn, NEW d \in Conn,
                      Life!Holds(c)', Life!Holds(d)', connfd_'[c] = connfd_'[d]
               PROVE  c = d
    BY DEF Life!DescriptorsAreExclusive
  <2>1. ASSUME NEW S \in SUBSET Conn, UNCHANGED connfd_,
               \E from \in {"new", "Connected", "Disconected", "deregistered"},
                  to \in {"Connected", "Disconected", "deregistered", "released"} :
                 Life!Moves(S, from, to)
        PROVE  c = d
    <3>1. Life!Holds(c) /\ Life!Holds(d)
      BY <2>1 DEF Life!Holds, Life!Moves
    <3>2. QED
      BY <2>1, <3>1 DEF Life!DescriptorsAreExclusive
  <2>2. ASSUME NEW a \in Conn, NEW f \in Fd, Life!Accept(a, f) PROVE c = d
    <3>1. \A e \in Conn : /\ e # a /\ Life!Holds(e)' => Life!Holds(e)
                          /\ connfd_'[e] = IF e = a THEN f ELSE connfd_[e]
      BY <2>2 DEF Life!Accept, Life!Moves, Life!Holds, TypeOK
    <3>2. \A e \in Conn : e # a /\ Life!Holds(e)' => connfd_[e] # f
      BY <2>2, <3>1 DEF Life!Accept
    <3>3. QED
      BY <3>1, <3>2 DEF Life!DescriptorsAreExclusive
  <2>3. ASSUME NEW e \in Conn, Life!Establish(e) \/ Life!Deregister(e) PROVE c = d
    BY <2>1, <2>3 DEF Life!Establish, Life!Deregister
  <2>4. ASSUME NEW S \in SUBSET Conn, Life!Close(S) \/ Life!Release(S) PROVE c = d
    BY <2>1, <2>4 DEF Life!Close, Life!Release
  <2>5. CASE UNCHANGED Life!vars
    BY <2>5 DEF Life!vars, Life!Holds, Life!DescriptorsAreExclusive
  <2>6. QED
    BY <2>2, <2>3, <2>4, <2>5 DEF Life!Next
<1>3. QED
  BY <1>1, <1>2, TypeCorrect, ServerImplementsLife, PTL
     DEF ImplementsConnectionLife, Life!Spec
=============================================================================
