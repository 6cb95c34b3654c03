------------------------------ MODULE ThreadPool ------------------------------
(***************************************************************************)
(* tcp/EventLoopThreadPool and tcp/EventLoopThread: the main thread starts *)
(* one thread for each sub loop, waits on a condition variable until that  *)
(* thread has built its EventLoop (on its own stack) and published the     *)
(* pointer, and then gives connections to the loops in turn.               *)
(*                                                                         *)
(* The k-th thread's EventLoop is the number k; 0 is main_reactor_.  A     *)
(* condition variable wakes only who waits at the time of notify_one, and  *)
(* may wake without one.  MaxGiven bounds the connections of one loop.     *)
(***************************************************************************)
EXTENDS Naturals, Sequences

CONSTANTS MaxThreads, MaxGiven

ASSUME PoolAssumption == MaxThreads \in Nat /\ MaxGiven \in Nat \ {0}

Thread == 1..MaxThreads
Null == MaxThreads + 1     \* nullptr

VARIABLES
  thread_nums_,      \* how many threads SetThreadNum asked for
  loops_, next_,     \* the pool: its loops, the next to use
  given,             \* per loop: the connections GetNextLoop gave it
  loop_,             \* per EventLoopThread: the pointer it published
  mutex_,            \* per EventLoopThread: its owner, or "free"
  waiting,           \* the main thread is in cond_'s wait set
  pc,                \* the main thread: see Places
  tpc                \* the threads: see ThreadPlaces

pool == <<thread_nums_, loops_, next_, given>>
vars == <<pool, loop_, mutex_, waiting, pc, tpc>>

Places == {"start", "lock", "test", "wait", "take", "serve"}
ThreadPlaces == {"none", "build", "publish", "notify", "loop"}

Init == /\ thread_nums_ \in 0..MaxThreads
        /\ loops_ = <<>> /\ next_ = 0
        /\ given = [k \in 0..MaxThreads |-> 0]
        /\ loop_ = [k \in Thread |-> Null]
        /\ mutex_ = [k \in Thread |-> "free"]
        /\ waiting = FALSE
        /\ pc = "start"
        /\ tpc = [k \in Thread |-> "none"]

-----------------------------------------------------------------------------
(* EventLoopThreadPool::Start and EventLoopThread::StartLoop, for the       *)
(* thread that comes next.                                                  *)
Current == Len(loops_) + 1

StartThread ==
  /\ pc = "start" /\ Current <= thread_nums_
  /\ tpc' = [tpc EXCEPT ![Current] = "build"]
  /\ pc' = "lock"
  /\ UNCHANGED <<pool, loop_, mutex_, waiting>>

Lock ==
  /\ pc = "lock" /\ mutex_[Current] = "free"
  /\ mutex_' = [mutex_ EXCEPT ![Current] = "main"]
  /\ pc' = "test"
  /\ UNCHANGED <<pool, loop_, waiting, tpc>>

(* while (loop_ == nullptr) cond_.wait(lock): unlocking and entering the    *)
(* wait set are one step.                                                   *)
Wait ==
  /\ pc = "test" /\ loop_[Current] = Null
  /\ mutex_' = [mutex_ EXCEPT ![Current] = "free"]
  /\ waiting' = TRUE
  /\ pc' = "wait"
  /\ UNCHANGED <<pool, loop_, tpc>>

WakeSpuriously ==
  /\ pc = "wait" /\ waiting
  /\ waiting' = FALSE
  /\ UNCHANGED <<pool, loop_, mutex_, pc, tpc>>

AfterWaitOnce == "take"
AfterWait == "test"

WaitReturns ==
  /\ pc = "wait" /\ ~waiting /\ mutex_[Current] = "free"
  /\ mutex_' = [mutex_ EXCEPT ![Current] = "main"]
  /\ pc' = AfterWait
  /\ UNCHANGED <<pool, loop_, waiting, tpc>>

LeaveWait ==
  /\ pc = "test" /\ loop_[Current] # Null
  /\ pc' = "take"
  /\ UNCHANGED <<pool, loop_, mutex_, waiting, tpc>>

StartLoopReturns ==
  /\ pc = "take"
  /\ mutex_' = [mutex_ EXCEPT ![Current] = "free"]
  /\ loops_' = Append(loops_, loop_[Current])
  /\ pc' = "start"
  /\ UNCHANGED <<thread_nums_, next_, given, loop_, waiting, tpc>>

StartReturns ==
  /\ pc = "start" /\ Current > thread_nums_
  /\ pc' = "serve"
  /\ UNCHANGED <<pool, loop_, mutex_, waiting, tpc>>

-----------------------------------------------------------------------------
(* EventLoopThread::ThreadFunc: the loop object is built before the lock is *)
(* taken; Loop does not return.                                             *)
BuildLoop(k) ==
  /\ tpc[k] = "build"
  /\ tpc' = [tpc EXCEPT ![k] = "publish"]
  /\ UNCHANGED <<pool, loop_, mutex_, waiting, pc>>

Publish(k) ==
  /\ tpc[k] = "publish" /\ mutex_[k] = "free"
  /\ mutex_' = [mutex_ EXCEPT ![k] = "thread"]
  /\ loop_' = [loop_ EXCEPT ![k] = k]
  /\ tpc' = [tpc EXCEPT ![k] = "notify"]
  /\ UNCHANGED <<pool, waiting, pc>>

NotifiesNobody(k) == UNCHANGED waiting
NotifiesMain(k) == waiting' = FALSE

Notify(k) ==
  /\ tpc[k] = "notify"
  /\ NotifiesMain(k)
  /\ mutex_' = [mutex_ EXCEPT ![k] = "free"]
  /\ tpc' = [tpc EXCEPT ![k] = "loop"]
  /\ UNCHANGED <<pool, loop_, pc>>

-----------------------------------------------------------------------------
(* EventLoopThreadPool::GetNextLoop, for each new connection.               *)
NextLoop == IF loops_ = <<>> THEN 0 ELSE loops_[next_ + 1]

NextIndexStays == next_
NextIndexNoWrap == IF loops_ = <<>> THEN next_ ELSE next_ + 1
NextIndex == IF loops_ = <<>> THEN next_ ELSE (next_ + 1) % Len(loops_)

GetNextLoop ==
  /\ pc = "serve" /\ given[NextLoop] < MaxGiven
  /\ given' = [given EXCEPT ![NextLoop] = @ + 1]
  /\ next_' = NextIndex
  /\ UNCHANGED <<thread_nums_, loops_, loop_, mutex_, waiting, pc, tpc>>

-----------------------------------------------------------------------------
Start == \/ StartThread \/ Lock \/ Wait \/ WaitReturns \/ LeaveWait
         \/ StartLoopReturns \/ StartReturns

ThreadFunc(k) == BuildLoop(k) \/ Publish(k) \/ Notify(k)

Next == Start \/ WakeSpuriously \/ GetNextLoop \/ \E k \in Thread : ThreadFunc(k)

Spec == Init /\ [][Next]_vars

(* The scheduler runs every thread that is not blocked, and who asks for a  *)
(* mutex that is free time and again gets it at last: the main thread may   *)
(* wake for nothing, and take the mutex to look, any number of times.       *)
FairSpec == Spec /\ WF_vars(Start)
                 /\ \A k \in Thread : WF_vars(ThreadFunc(k)) /\ SF_vars(Publish(k))

-----------------------------------------------------------------------------
(* Every variable has its type. *)
TypeOK == /\ thread_nums_ \in 0..MaxThreads
          /\ loops_ \in Seq(1..Null) /\ Len(loops_) <= thread_nums_
          /\ next_ \in Nat /\ (loops_ # <<>> => next_ < Len(loops_))
          /\ given \in [0..MaxThreads -> Nat]
          /\ loop_ \in [Thread -> 1..Null]
          /\ mutex_ \in [Thread -> {"free", "main", "thread"}]
          /\ waiting \in BOOLEAN
          /\ pc \in Places
          /\ tpc \in [Thread -> ThreadPlaces]

(* The pool holds no loop before it exists: what StartLoop returns is the   *)
(* object its thread built and published, whatever woke the main thread     *)
(* (EventLoopThread.cpp:28-32).                                             *)
LoopsAreBuilt ==
  \A k \in DOMAIN loops_ : loops_[k] = k /\ tpc[k] \in {"notify", "loop"}

(* Round robin: the connections given to two sub loops differ by at most    *)
(* one (EventLoopThreadPool.cpp:34-41).                                     *)
BalancedLoops ==
  \A i, j \in DOMAIN loops_ : given[loops_[i]] <= given[loops_[j]] + 1

(* Start returns and every thread gets to its Loop: a notification that     *)
(* comes before the main thread waits is not missed.                        *)
PoolStarts ==
  <>(pc = "serve" /\ \A k \in 1..thread_nums_ : tpc[k] = "loop")
=============================================================================
