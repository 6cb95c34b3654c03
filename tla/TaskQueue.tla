------------------------------ MODULE TaskQueue ------------------------------
(***************************************************************************)
(* What EventLoop::QueueOneFunc promises its callers, whatever the number  *)
(* of threads: a functor handed to the loop runs on the loop thread, one   *)
(* functor at a time, in the order the functors were queued, once per      *)
(* request, and never stays in the queue for ever.                         *)
(***************************************************************************)
EXTENDS Sequences

CONSTANTS Task,  \* the functors that may be queued
          None   \* "no functor is executing"

VARIABLES pending,  \* the functors queued and not started, oldest first
          running   \* the functor the loop thread is executing, or None

vars == <<pending, running>>

Init == pending = <<>> /\ running = None

Post(t) == /\ pending' = Append(pending, t)
           /\ UNCHANGED running

Start == /\ running = None
         /\ pending # <<>>
         /\ running' = Head(pending)
         /\ pending' = Tail(pending)

Finish == /\ running # None
          /\ running' = None
          /\ UNCHANGED pending

Next == (\E t \in Task : Post(t)) \/ Start \/ Finish

SafeSpec == Init /\ [][Next]_vars

Spec == SafeSpec /\ WF_vars(Start) /\ WF_vars(Finish)
=============================================================================
