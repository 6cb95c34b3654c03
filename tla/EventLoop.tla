------------------------------ MODULE EventLoop ------------------------------
(***************************************************************************)
(* tcp/EventLoop: one thread that waits in epoll_wait, dispatches the      *)
(* active channels, then runs the functors other threads (or its own       *)
(* callbacks) queued in to_do_list_.  An eventfd wakes the loop: it is     *)
(* written by QueueOneFunc after the mutex is released, only if the caller *)
(* is another thread or the loop is already running functors, and is read  *)
(* by HandleRead.                                                          *)
(*                                                                         *)
(* A Poster is a thread other than the loop thread.  A functor may be      *)
(* queued again once it has left the queue, so a functor can queue itself  *)
(* for ever.  Of the eventfd counter only zero or not matters, and a read  *)
(* resets it: from MaxWake on it is no longer counted (the kernel counts   *)
(* to 2^64-2).                                                             *)
(***************************************************************************)
EXTENDS Naturals, Sequences

CONSTANTS Poster, Task, None, MaxWake

ASSUME NoneAssumption == None \notin Task
ASSUME MaxWakeAssumption == MaxWake \in Nat \ {0}

VARIABLES
  to_do_list_,  \* functors queued under mutex_, oldest first
  functors,     \* what DoToDoList swapped out and has not started yet
  running,      \* the functor being executed, or None
  calling_functors_,
  eventfd,      \* the counter of wakeup_fd_
  active,       \* channels epoll_wait returned and Loop has not handled yet
  waking,       \* posters between the unlock and the write of QueueOneFunc
  pc            \* where the loop thread is

vars == <<to_do_list_, functors, running, calling_functors_, eventfd, active,
          waking, pc>>

Channels == {"wakeup", "io"}
Places == {"poll", "handle", "io", "swap", "run", "func"}

FlagUninitialised == None
InitialFlag == FALSE

Init == /\ to_do_list_ = <<>>
        /\ functors = <<>>
        /\ running = None
        /\ calling_functors_ = InitialFlag
        /\ eventfd = 0
        /\ active = {}
        /\ waking = {}
        /\ pc = "poll"

Elems(s) == {s[i] : i \in 1..Len(s)}
Queued == Elems(functors) \cup Elems(to_do_list_)

(* The eventfd after one more write. *)
Incremented == IF eventfd < MaxWake THEN eventfd + 1 ELSE eventfd

-----------------------------------------------------------------------------
(* QueueOneFunc and RunOneFunc called by another thread: the push, then the *)
(* write, are two steps.                                                     *)

QueueOneFunc(p, t) ==
  /\ p \notin waking
  /\ t \notin Queued
  /\ to_do_list_' = Append(to_do_list_, t)
  /\ waking' = waking \cup {p}
  /\ UNCHANGED <<functors, running, calling_functors_, eventfd, active, pc>>

WakeUp(p) ==
  /\ p \in waking
  /\ waking' = waking \ {p}
  /\ eventfd' = Incremented
  /\ UNCHANGED <<to_do_list_, functors, running, calling_functors_, active, pc>>

(* QueueOneFunc's condition for writing, on the loop thread. *)
NeverAnnounced == FALSE
Announced == calling_functors_

(* QueueOneFunc called by a callback or a functor on the loop thread.  Only *)
(* this thread reads the eventfd, so the push and the write are one step.   *)
QueueInLoop(t) ==
  /\ pc \in {"io", "func"}
  /\ t \notin Queued
  /\ to_do_list_' = Append(to_do_list_, t)
  /\ eventfd' = IF Announced THEN Incremented ELSE eventfd
  /\ UNCHANGED <<functors, running, calling_functors_, active, waking, pc>>

-----------------------------------------------------------------------------
(* Epoller::Poll.  The wakeup channel is level triggered: it is returned as *)
(* long as the counter is not zero.  A failed epoll_wait (EINTR) only       *)
(* prints and returns an empty list.                                        *)

PollReturns(chs) == /\ pc = "poll"
                    /\ active' = chs
                    /\ pc' = "handle"
                    /\ UNCHANGED <<to_do_list_, functors, running,
                                   calling_functors_, eventfd, waking>>

PollWakeup == /\ eventfd > 0
              /\ \E chs \in {{"wakeup"}, Channels} : PollReturns(chs)

PollIo == eventfd = 0 /\ PollReturns({"io"})

PollInterrupted == PollReturns({})

(* The wakeup channel's callback. *)
HandleRead == /\ pc = "handle"
              /\ "wakeup" \in active
              /\ active' = active \ {"wakeup"}
              /\ eventfd' = 0
              /\ UNCHANGED <<to_do_list_, functors, running, calling_functors_,
                             waking, pc>>

(* Any other channel's callback, from its call to its return. *)
HandleIo == /\ pc = "handle"
            /\ "io" \in active
            /\ active' = active \ {"io"}
            /\ pc' = "io"
            /\ UNCHANGED <<to_do_list_, functors, running, calling_functors_,
                           eventfd, waking>>

IoReturnsDraining == /\ pc = "io"
                     /\ pc' = "handle"
                     /\ eventfd' = 0
                     /\ UNCHANGED <<to_do_list_, functors, running,
                                    calling_functors_, active, waking>>

IoReturns == /\ pc = "io"
             /\ pc' = "handle"
             /\ UNCHANGED <<to_do_list_, functors, running, calling_functors_,
                            eventfd, active, waking>>

(* DoToDoList: the flag, the swap under the lock, the functors one by one,  *)
(* the flag again.                                                          *)
EnterDoToDoList == /\ pc = "handle"
                   /\ active = {}
                   /\ calling_functors_' = TRUE
                   /\ pc' = "swap"
                   /\ UNCHANGED <<to_do_list_, functors, running, eventfd,
                                  active, waking>>

SwapCopies == /\ pc = "swap"
              /\ functors' = to_do_list_
              /\ pc' = "run"
              /\ UNCHANGED <<to_do_list_, running, calling_functors_, eventfd,
                             active, waking>>

Swap == /\ pc = "swap"
        /\ functors' = to_do_list_
        /\ to_do_list_' = <<>>
        /\ pc' = "run"
        /\ UNCHANGED <<running, calling_functors_, eventfd, active, waking>>

CallFunctor == /\ pc = "run"
               /\ functors # <<>>
               /\ running' = Head(functors)
               /\ functors' = Tail(functors)
               /\ pc' = "func"
               /\ UNCHANGED <<to_do_list_, calling_functors_, eventfd, active,
                              waking>>

FunctorReturns == /\ pc = "func"
                  /\ running' = None
                  /\ pc' = "run"
                  /\ UNCHANGED <<to_do_list_, functors, calling_functors_,
                                 eventfd, active, waking>>

LeaveWhenEmpty == /\ pc = "run"
                  /\ functors = <<>>
                  /\ calling_functors_' = (to_do_list_ # <<>>)
                  /\ pc' = IF to_do_list_ = <<>> THEN "poll" ELSE "swap"
                  /\ UNCHANGED <<to_do_list_, functors, running, eventfd,
                                 active, waking>>

LeaveDoToDoList == /\ pc = "run"
                   /\ functors = <<>>
                   /\ calling_functors_' = FALSE
                   /\ pc' = "poll"
                   /\ UNCHANGED <<to_do_list_, functors, running, eventfd,
                                  active, waking>>

-----------------------------------------------------------------------------
LoopStep == \/ HandleRead \/ HandleIo \/ IoReturns
            \/ EnterDoToDoList \/ Swap \/ CallFunctor \/ FunctorReturns
            \/ LeaveDoToDoList

Next == \/ \E p \in Poster : WakeUp(p) \/ \E t \in Task : QueueOneFunc(p, t)
        \/ \E t \in Task : QueueInLoop(t)
        \/ PollWakeup \/ PollIo \/ PollInterrupted
        \/ LoopStep

Spec == Init /\ [][Next]_vars

(* The scheduler runs every thread that is not blocked, callbacks and       *)
(* functors return, and epoll_wait returns when the eventfd is readable.    *)
(* Nothing is assumed of other I/O or of EINTR: the loop may stay in        *)
(* epoll_wait for ever when the counter is zero.                            *)
Fairness == /\ WF_vars(LoopStep)
            /\ WF_vars(IoReturns) /\ WF_vars(FunctorReturns)
            /\ WF_vars(PollWakeup)
            /\ \A p \in Poster : WF_vars(WakeUp(p))

FairSpec == Spec /\ Fairness

-----------------------------------------------------------------------------
(* Every variable has its type: the state of EventLoop.h and of the loop. *)
TypeOK == /\ to_do_list_ \in Seq(Task)
          /\ functors \in Seq(Task)
          /\ running \in Task \cup {None}
          /\ calling_functors_ \in BOOLEAN
          /\ eventfd \in 0..MaxWake
          /\ active \in SUBSET Channels
          /\ waking \in SUBSET Poster
          /\ pc \in Places

(* The loop never sleeps on queued work: when it is about to block in       *)
(* epoll_wait and to_do_list_ is not empty, the eventfd is readable or a    *)
(* thread is just about to write it (EventLoop.cpp:76).                     *)
NoLostWakeup ==
  pc = "poll" /\ to_do_list_ # <<>> => eventfd > 0 \/ waking # {}

(* HandleRead's assertion (EventLoop.cpp:106): when the wakeup channel is   *)
(* dispatched, however late in the list, the eventfd still has something    *)
(* to read, so the non-blocking read returns 8 bytes.                       *)
WakeupReadSucceeds == "wakeup" \in active => eventfd > 0

(* Functors that keep queueing functors do not starve I/O: DoToDoList runs  *)
(* the batch it swapped out and returns to epoll_wait (EventLoop.cpp:92).   *)
IoNotStarved == pc # "poll" ~> pc = "poll"

(* The loop and its eventfd implement the task queue callers rely on. *)
TQ == INSTANCE TaskQueue WITH pending <- functors \o to_do_list_
ImplementsTaskQueue == TQ!Spec
=============================================================================
