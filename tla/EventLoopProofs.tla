--------------------------- MODULE EventLoopProofs ---------------------------
(* What EventLoop guarantees for any number of threads and functors.       *)
EXTENDS EventLoop, SequenceTheorems, TLAPS

-----------------------------------------------------------------------------
(* The state stays in its types (EventLoop.h members). *)
THEOREM TypeCorrect == Spec => []TypeOK
<1>1. Init => TypeOK
  <2> SUFFICES ASSUME Init PROVE TypeOK
    OBVIOUS
  <2>1. <<>> \in Seq(Task)
    OBVIOUS
  <2>2. 0 \in 0..MaxWake
    BY MaxWakeAssumption
  <2>3. QED
    BY <2>1, <2>2 DEF Init, InitialFlag, TypeOK, Places, Channels
<1>2. TypeOK /\ [Next]_vars => TypeOK'
  <2> SUFFICES ASSUME TypeOK, [Next]_vars PROVE TypeOK'
    OBVIOUS
  <2> USE MaxWakeAssumption DEF TypeOK, Places
  <2>1. ASSUME NEW p \in Poster, WakeUp(p) PROVE TypeOK'
    BY <2>1 DEF WakeUp, Incremented
  <2>2. ASSUME NEW p \in Poster, NEW t \in Task, QueueOneFunc(p, t)
        PROVE  TypeOK'
    BY <2>2 DEF QueueOneFunc
  <2>3. ASSUME NEW t \in Task, QueueInLoop(t) PROVE TypeOK'
    BY <2>3 DEF QueueInLoop, Announced, Incremented
  <2>4. CASE PollWakeup
    BY <2>4 DEF PollWakeup, PollReturns, Channels
  <2>5. CASE PollIo
    BY <2>5 DEF PollIo, PollReturns, Channels
  <2>6. CASE PollInterrupted
    BY <2>6 DEF PollInterrupted, PollReturns
  <2>7. CASE HandleRead
    BY <2>7 DEF HandleRead
  <2>8. CASE HandleIo
    BY <2>8 DEF HandleIo
  <2>9. CASE IoReturns
    BY <2>9 DEF IoReturns
  <2>10. CASE EnterDoToDoList
    BY <2>10 DEF EnterDoToDoList
  <2>11. CASE Swap
    BY <2>11 DEF Swap
  <2>12. CASE CallFunctor
    <3>1. Head(functors) \in Task /\ Tail(functors) \in Seq(Task)
      BY <2>12, HeadTailProperties DEF CallFunctor
    <3>2. QED
      BY <2>12, <3>1 DEF CallFunctor
  <2>13. CASE FunctorReturns
    BY <2>13 DEF FunctorReturns
  <2>14. CASE LeaveDoToDoList
    BY <2>14 DEF LeaveDoToDoList
  <2>15. CASE UNCHANGED vars
    BY <2>15 DEF vars
  <2>16. QED
    BY <2>1, <2>2, <2>3, <2>4, <2>5, <2>6, <2>7, <2>8, <2>9, <2>10, <2>11,
       <2>12, <2>13, <2>14, <2>15 DEF Next, LoopStep
<1>3. QED
  BY <1>1, <1>2, PTL DEF Spec

-----------------------------------------------------------------------------
(* The inductive invariant.  PhaseInv says which part of the state each     *)
(* place of the loop may use.  WakeupPending strengthens NoLostWakeup to    *)
(* the time a batch runs: what is queued after the swap is announced before *)
(* the loop is back in epoll_wait.                                          *)
PhaseInv == /\ calling_functors_ <=> pc \in {"swap", "run", "func"}
            /\ functors # <<>> => pc \in {"run", "func"}
            /\ (running # None) <=> (pc = "func")
            /\ active # {} => pc \in {"handle", "io"}

WakeupPending == /\ pc \in {"poll", "run", "func"}
                 /\ to_do_list_ # <<>>
                 => eventfd > 0 \/ waking # {}

Inv == PhaseInv /\ WakeupReadSucceeds /\ WakeupPending

LEMMA InvInit == Init => Inv
BY DEF Init, InitialFlag, Inv, PhaseInv, WakeupReadSucceeds, WakeupPending

(* A write to the eventfd makes it readable and nobody but HandleRead       *)
(* empties it.                                                              *)
LEMMA InvStep == TypeOK /\ Inv /\ [Next]_vars => Inv'
<1> SUFFICES ASSUME TypeOK, Inv, [Next]_vars PROVE Inv'
  OBVIOUS
<1> USE DEF Inv, PhaseInv, WakeupReadSucceeds, WakeupPending, TypeOK, Places
<1>1. ASSUME NEW p \in Poster, WakeUp(p) PROVE Inv'
  BY <1>1, MaxWakeAssumption DEF WakeUp, Incremented
<1>2. ASSUME NEW p \in Poster, NEW t \in Task, QueueOneFunc(p, t)
      PROVE  Inv'
  <2>1. waking' # {}
    BY <1>2 DEF QueueOneFunc
  <2>2. QED
    BY <1>2, <2>1 DEF QueueOneFunc
<1>3. ASSUME NEW t \in Task, QueueInLoop(t) PROVE Inv'
  BY <1>3, MaxWakeAssumption
  DEF QueueInLoop, Announced, Incremented
<1>4. CASE PollWakeup
  BY <1>4 DEF PollWakeup, PollReturns, Channels
<1>5. CASE PollIo
  BY <1>5 DEF PollIo, PollReturns, Channels
<1>6. CASE PollInterrupted
  BY <1>6 DEF PollInterrupted, PollReturns
<1>7. CASE HandleRead
  BY <1>7 DEF HandleRead
<1>8. CASE HandleIo
  BY <1>8 DEF HandleIo
<1>9. CASE IoReturns
  BY <1>9 DEF IoReturns
<1>10. CASE EnterDoToDoList
  BY <1>10 DEF EnterDoToDoList
<1>11. CASE Swap
  BY <1>11 DEF Swap
<1>12. CASE CallFunctor
  <2>1. Head(functors) \in Task
    BY <1>12, HeadTailProperties DEF CallFunctor
  <2>2. QED
    BY <1>12, <2>1, NoneAssumption DEF CallFunctor
<1>13. CASE FunctorReturns
  BY <1>13 DEF FunctorReturns
<1>14. CASE LeaveDoToDoList
  BY <1>14 DEF LeaveDoToDoList
<1>15. CASE UNCHANGED vars
  BY <1>15 DEF vars
<1>16. QED
  BY <1>1, <1>2, <1>3, <1>4, <1>5, <1>6, <1>7, <1>8, <1>9, <1>10, <1>11,
     <1>12, <1>13, <1>14, <1>15 DEF Next, LoopStep

LEMMA Invariance == Spec => []Inv
<1>1. QED
  BY InvInit, InvStep, TypeCorrect, PTL DEF Spec

(* Queued work is never slept on (QueueOneFunc's second condition).         *)
THEOREM NoWakeupIsLost == Spec => []NoLostWakeup
<1>1. Inv => NoLostWakeup
  BY DEF Inv, WakeupPending, NoLostWakeup
<1>2. QED
  BY <1>1, Invariance, PTL

(* HandleRead's assertion never fails. *)
THEOREM WakeupReadIsSafe == Spec => []WakeupReadSucceeds
<1>1. Inv => WakeupReadSucceeds
  BY DEF Inv
<1>2. QED
  BY <1>1, Invariance, PTL

-----------------------------------------------------------------------------
(* How the mapped queue, batch then list, changes. *)
LEMMA MappedAppend ==
  ASSUME NEW s \in Seq(Task), NEW r \in Seq(Task), NEW t \in Task
  PROVE  s \o Append(r, t) = Append(s \o r, t)
BY AppendProperties, ConcatProperties

LEMMA MappedHeadTail ==
  ASSUME NEW s \in Seq(Task), NEW r \in Seq(Task), s # <<>>
  PROVE  /\ s \o r # <<>>
         /\ Head(s \o r) = Head(s)
         /\ Tail(s \o r) = Tail(s) \o r
BY ConcatProperties, HeadTailProperties

LEMMA MappedEmpty ==
  ASSUME NEW s \in Seq(Task)
  PROVE  s \o <<>> = s /\ <<>> \o s = s
BY ConcatEmptySeq

(* The loop implements the task queue: every step queues one functor at the *)
(* end, starts the oldest, finishes one, or leaves the mapped state alone.  *)
THEOREM LoopImplementsQueue == Spec => TQ!SafeSpec
<1>1. Init => TQ!Init
  BY MappedEmpty DEF Init, TQ!Init
<1>2. TypeOK /\ Inv /\ [Next]_vars => [TQ!Next]_(TQ!vars)
  <2> SUFFICES ASSUME TypeOK, Inv, [Next]_vars
               PROVE  [TQ!Next]_(TQ!vars)
    OBVIOUS
  <2> DEFINE pending == functors \o to_do_list_
             Stutter == UNCHANGED <<pending, running>>
  <2>a. to_do_list_ \in Seq(Task) /\ functors \in Seq(Task)
    BY DEF TypeOK
  <2>b. Stutter => [TQ!Next]_(TQ!vars)
    BY DEF TQ!vars
  <2>c. UNCHANGED <<functors, to_do_list_, running>> => Stutter
    OBVIOUS
  <2>1. ASSUME NEW p \in Poster, WakeUp(p) PROVE Stutter
    BY <2>1, <2>c DEF WakeUp
  <2>2. ASSUME NEW p \in Poster, NEW t \in Task, QueueOneFunc(p, t)
        PROVE  TQ!Post(t)
    BY <2>2, <2>a, MappedAppend DEF QueueOneFunc, TQ!Post
  <2>3. ASSUME NEW t \in Task, QueueInLoop(t) PROVE TQ!Post(t)
    BY <2>3, <2>a, MappedAppend DEF QueueInLoop, TQ!Post
  <2>4. CASE PollWakeup \/ PollIo \/ PollInterrupted
    BY <2>4, <2>b, <2>c DEF PollWakeup, PollIo, PollInterrupted, PollReturns
  <2>5. CASE HandleRead \/ HandleIo \/ IoReturns
    BY <2>5, <2>b, <2>c DEF HandleRead, HandleIo, IoReturns
  <2>6. CASE EnterDoToDoList \/ LeaveDoToDoList
    BY <2>6, <2>b, <2>c DEF EnterDoToDoList, LeaveDoToDoList
  <2>7. CASE Swap
    <3>1. functors = <<>>
      BY <2>7 DEF Swap, Inv, PhaseInv
    <3>2. QED
      BY <2>7, <2>a, <2>b, <3>1, MappedEmpty DEF Swap
  <2>8. CASE CallFunctor
    <3>1. running = None
      BY <2>8 DEF CallFunctor, Inv, PhaseInv
    <3>2. functors # <<>>
      BY <2>8 DEF CallFunctor
    <3>3. TQ!Start
      BY <2>8, <2>a, <3>1, <3>2, MappedHeadTail DEF CallFunctor, TQ!Start
    <3>4. QED
      BY <3>3 DEF TQ!Next
  <2>9. CASE FunctorReturns
    <3>1. running # None
      BY <2>9 DEF FunctorReturns, Inv, PhaseInv
    <3>2. TQ!Finish
      BY <2>9, <3>1 DEF FunctorReturns, TQ!Finish
    <3>3. QED
      BY <3>2 DEF TQ!Next
  <2>10. CASE UNCHANGED vars
    BY <2>10, <2>b, <2>c DEF vars
  <2>11. QED
    BY <2>b, <2>1, <2>2, <2>3, <2>4, <2>5, <2>6, <2>7, <2>8, <2>9, <2>10
       DEF Next, LoopStep, TQ!Next
<1>3. QED
  BY <1>1, <1>2, TypeCorrect, Invariance, PTL DEF Spec, TQ!SafeSpec
=============================================================================
