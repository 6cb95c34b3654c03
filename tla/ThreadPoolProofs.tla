--------------------------- MODULE ThreadPoolProofs ---------------------------
(***************************************************************************)
(* Proofs about ThreadPool for any number of threads: every variable has   *)
(* its type, the pool holds only loops that are built, and connections are *)
(* shared evenly.                                                          *)
(***************************************************************************)
EXTENDS ThreadPool, TLAPS

(* While a loop is being started there is one to start, and it is taken     *)
(* only when it was published; connections come when all are there.         *)
StartsInOrder ==
  /\ pc \in {"lock", "test", "wait", "take"} => Len(loops_) < thread_nums_
  /\ pc = "take" => loop_[Current] # Null
  /\ pc # "serve" => next_ = 0 /\ given = [k \in 0..MaxThreads |-> 0]

(* A published pointer is the thread's own loop, which is built.            *)
PublishedAreBuilt ==
  \A k \in Thread : loop_[k] # Null => loop_[k] = k /\ tpc[k] \in {"notify", "loop"}

(* The loops before next_ were given one connection more than the others.   *)
RoundRobin ==
  \A i, j \in DOMAIN loops_ :
    /\ (i <= next_ <=> j <= next_) => given[i] = given[j]
    /\ i <= next_ /\ next_ < j => given[i] = given[j] + 1

(* A thread whose turn has not come does nothing.                           *)
Waits(k) == Current < k \/ (Current = k /\ pc \in {"start", "serve"})
NotStarted == \A k \in Thread : Waits(k) => tpc[k] = "none"

Safe == StartsInOrder /\ PublishedAreBuilt /\ LoopsAreBuilt /\ NotStarted
Inv == TypeOK /\ Safe /\ RoundRobin

(* Adding one below n does not wrap; at n - 1 it does. *)
LEMMA Wraps ==
  ASSUME NEW n \in Nat, NEW i \in Nat, i < n
  PROVE  (i + 1) % n = IF i + 1 = n THEN 0 ELSE i + 1
  OBVIOUS

(* The k-th loop of the pool is the number k. *)
LEMMA Numbered ==
  ASSUME TypeOK, LoopsAreBuilt
  PROVE  /\ DOMAIN loops_ = 1..Len(loops_) /\ Len(loops_) \in Nat
         /\ \A k \in DOMAIN loops_ : k \in Thread /\ loops_[k] = k
<1>1. DOMAIN loops_ = 1..Len(loops_) /\ Len(loops_) \in Nat
  BY DEF TypeOK
<1>2. Len(loops_) <= MaxThreads /\ MaxThreads \in Nat
  BY <1>1, PoolAssumption DEF TypeOK
<1>3. QED
  BY <1>1, <1>2 DEF LoopsAreBuilt, Thread

LEMMA InitInv == Init => Inv
<1> SUFFICES ASSUME Init PROVE Inv
  OBVIOUS
<1> USE PoolAssumption DEF Init
<1>1. DOMAIN loops_ = {} /\ Len(loops_) = 0
  OBVIOUS
<1>2. TypeOK
  <2>1. /\ loops_ \in Seq(1..Null) /\ Len(loops_) <= thread_nums_
        /\ next_ \in Nat /\ thread_nums_ \in 0..MaxThreads /\ loops_ = <<>>
    BY <1>1
  <2>2. /\ given \in [0..MaxThreads -> Nat]
        /\ loop_ \in [Thread -> 1..Null]
    BY DEF Null
  <2>3. /\ mutex_ \in [Thread -> {"free", "main", "thread"}]
        /\ waiting \in BOOLEAN /\ pc \in Places /\ tpc \in [Thread -> ThreadPlaces]
    BY DEF Places, ThreadPlaces
  <2>4. QED
    BY <2>1, <2>2, <2>3 DEF TypeOK
<1>3. Safe
  BY <1>1 DEF Safe, StartsInOrder, PublishedAreBuilt, LoopsAreBuilt, NotStarted
<1>4. RoundRobin
  BY <1>1 DEF RoundRobin
<1>5. QED
  BY <1>2, <1>3, <1>4 DEF Inv

-----------------------------------------------------------------------------
(* A new loop joins the pool: the only step of Start that changes loops_.   *)
LEMMA JoinStep ==
  ASSUME Inv, StartLoopReturns
  PROVE  Inv'
<1> DEFINE n == Len(loops_)
<1> USE PoolAssumption
<1>1. /\ n \in Nat /\ n < thread_nums_ /\ thread_nums_ \in 0..MaxThreads
      /\ Current = n + 1 /\ Current \in Thread /\ pc = "take"
  BY DEF Inv, TypeOK, Safe, StartsInOrder, StartLoopReturns, Current, Thread
<1>2. loop_[Current] = Current /\ tpc[Current] \in {"notify", "loop"}
  BY <1>1 DEF Inv, Safe, StartsInOrder, PublishedAreBuilt
<1>3. loops_ \in Seq(1..Null) /\ loops_' = Append(loops_, Current) /\ Current \in 1..Null
  BY <1>1, <1>2 DEF Inv, TypeOK, StartLoopReturns, Thread, Null
<1>4. /\ loops_' \in Seq(1..Null) /\ Len(loops_') = n + 1
      /\ DOMAIN loops_' = 1..(n + 1) /\ DOMAIN loops_ = 1..n
      /\ \A k \in 1..n : loops_'[k] = loops_[k]
      /\ loops_'[n + 1] = Current
  BY <1>1, <1>3
<1>5. next_ = 0 /\ given = [k \in 0..MaxThreads |-> 0]
  BY <1>1 DEF Inv, Safe, StartsInOrder
<1>6. TypeOK'
  <2>1. /\ loops_' \in Seq(1..Null) /\ Len(loops_') <= thread_nums_'
        /\ thread_nums_' \in 0..MaxThreads
        /\ next_' \in Nat /\ next_' < Len(loops_')
    BY <1>1, <1>4, <1>5 DEF StartLoopReturns
  <2>2. mutex_' \in [Thread -> {"free", "main", "thread"}] /\ pc' \in Places
    BY <1>1 DEF Inv, TypeOK, StartLoopReturns, Places
  <2>3. /\ given' \in [0..MaxThreads -> Nat] /\ loop_' \in [Thread -> 1..Null]
        /\ waiting' \in BOOLEAN /\ tpc' \in [Thread -> ThreadPlaces]
    BY DEF Inv, TypeOK, StartLoopReturns
  <2>4. QED
    BY <2>1, <2>2, <2>3 DEF TypeOK
<1>7. StartsInOrder'
  BY <1>1, <1>4, <1>5 DEF StartsInOrder, StartLoopReturns
<1>8. PublishedAreBuilt'
  BY DEF Inv, Safe, PublishedAreBuilt, StartLoopReturns
<1>9. LoopsAreBuilt'
  BY <1>1, <1>2, <1>4 DEF Inv, Safe, LoopsAreBuilt, StartLoopReturns
<1>10. RoundRobin'
  <2>1. \A k \in DOMAIN loops_' : k \in 0..MaxThreads /\ k > 0
    BY <1>1, <1>4
  <2>2. next_' = 0 /\ given' = [k \in 0..MaxThreads |-> 0]
    BY <1>5 DEF StartLoopReturns
  <2>3. QED
    BY <2>1, <2>2 DEF RoundRobin
<1>11. NotStarted'
  <2>1. Current' = Current + 1 /\ tpc' = tpc
    BY <1>1, <1>4 DEF Current, StartLoopReturns
  <2>2. SUFFICES ASSUME NEW k \in Thread, Waits(k)' PROVE tpc[k] = "none"
    BY <2>1 DEF NotStarted
  <2>3. Current < k
    BY <1>1, <2>1, <2>2 DEF Waits, Thread
  <2>4. QED
    BY <2>3 DEF Inv, Safe, NotStarted, Waits
<1>12. QED
  BY <1>6, <1>7, <1>8, <1>9, <1>10, <1>11 DEF Inv, Safe

(* A connection goes to a loop: the round goes on. *)
LEMMA GiveStep ==
  ASSUME Inv, GetNextLoop
  PROVE  Inv'
<1> DEFINE n == Len(loops_)
<1> USE PoolAssumption
<1>1. /\ DOMAIN loops_ = 1..n /\ n \in Nat /\ n <= MaxThreads
      /\ \A k \in 1..n : k \in Thread /\ loops_[k] = k
  BY Numbered DEF Inv, Safe, TypeOK
<1>2. given \in [0..MaxThreads -> Nat] /\ next_ \in Nat
  BY DEF Inv, TypeOK
<1>3. /\ UNCHANGED <<thread_nums_, loops_, loop_, mutex_, waiting, pc, tpc>> /\ pc = "serve"
      /\ given' = [given EXCEPT ![NextLoop] = @ + 1] /\ next_' = NextIndex
  BY DEF GetNextLoop
<1>4. Safe'
  BY <1>3 DEF Inv, Safe, StartsInOrder, PublishedAreBuilt, LoopsAreBuilt, NotStarted, Waits,
              Current
<1>5. CASE loops_ = <<>>
  <2>1. NextLoop = 0 /\ NextIndex = next_ /\ n = 0
    BY <1>5 DEF NextLoop, NextIndex
  <2>2. TypeOK'
    BY <1>2, <1>3, <1>5, <2>1 DEF Inv, TypeOK
  <2>3. RoundRobin'
    BY <1>1, <1>3, <2>1 DEF RoundRobin
  <2>4. QED
    BY <1>4, <2>2, <2>3 DEF Inv
<1>6. CASE loops_ # <<>>
  <2>1. n > 0 /\ next_ < n
    BY <1>1, <1>2, <1>6 DEF Inv, TypeOK
  <2>2. next_ + 1 \in 1..n /\ NextLoop = next_ + 1
    BY <1>1, <1>2, <1>6, <2>1 DEF NextLoop
  <2>3. next_' = IF next_ + 1 = n THEN 0 ELSE next_ + 1
    BY <1>1, <1>2, <1>3, <1>6, <2>1, Wraps DEF NextIndex
  <2>4. given' = [given EXCEPT ![next_ + 1] = @ + 1]
    BY <1>3, <2>2
  <2>5. TypeOK'
    <3>1. next_' \in Nat /\ next_' < Len(loops_)
      <4>1. CASE next_ + 1 = n
        BY <1>1, <2>1, <2>3, <4>1
      <4>2. CASE next_ + 1 # n
        <5>1. next_' = next_ + 1
          BY <2>3, <4>2
        <5>2. n \in Nat /\ next_ \in Nat /\ next_ < n /\ next_ + 1 # n
          BY <1>1, <1>2, <2>1, <4>2
        <5>3. QED
          BY <5>1, <5>2
      <4>3. QED
        BY <4>1, <4>2
    <3>2. next_ + 1 \in 0..MaxThreads /\ given[next_ + 1] + 1 \in Nat
      BY <1>1, <1>2, <2>2
    <3>3. given' \in [0..MaxThreads -> Nat]
      BY <1>2, <2>4, <3>2
    <3>4. QED
      BY <1>3, <3>1, <3>3 DEF Inv, TypeOK
  <2>6. RoundRobin'
    <3>1. SUFFICES ASSUME NEW i \in 1..n, NEW j \in 1..n
                   PROVE  /\ (i <= next_' <=> j <= next_') => given'[i] = given'[j]
                          /\ i <= next_' /\ next_' < j => given'[i] = given'[j] + 1
      BY <1>1, <1>3 DEF RoundRobin
    <3>2. i \in 0..MaxThreads /\ j \in 0..MaxThreads
      BY <1>1
    <3>3. /\ given[i] \in Nat /\ given[j] \in Nat
          /\ given'[i] = IF i = next_ + 1 THEN given[i] + 1 ELSE given[i]
          /\ given'[j] = IF j = next_ + 1 THEN given[j] + 1 ELSE given[j]
      BY <1>2, <2>4, <3>2
    <3>4. /\ (i <= next_ <=> j <= next_) => given[i] = given[j]
          /\ i <= next_ /\ next_ < j => given[i] = given[j] + 1
          /\ j <= next_ /\ next_ < i => given[j] = given[i] + 1
      BY <1>1 DEF Inv, RoundRobin
    <3>5. CASE next_ + 1 = n
      <4>1. next_' = 0 /\ i <= next_ + 1 /\ j <= next_ + 1
        BY <2>3, <3>1, <3>5
      <4>2. given'[i] = given'[j]
        BY <1>1, <1>2, <3>3, <3>4, <4>1
      <4>3. QED
        BY <1>1, <3>1, <4>1, <4>2
    <3>6. CASE next_ + 1 # n
      <4>1. next_' = next_ + 1
        BY <2>3, <3>6
      <4>2. CASE i <= next_ /\ j <= next_
        BY <1>1, <1>2, <3>3, <3>4, <4>1, <4>2
      <4>3. CASE i > next_ /\ j > next_
        BY <1>1, <1>2, <3>3, <3>4, <4>1, <4>3
      <4>4. CASE i <= next_ /\ j > next_
        BY <1>1, <1>2, <3>3, <3>4, <4>1, <4>4
      <4>5. CASE i > next_ /\ j <= next_
        BY <1>1, <1>2, <3>3, <3>4, <4>1, <4>5
      <4>6. QED
        BY <1>1, <1>2, <4>2, <4>3, <4>4, <4>5
    <3>7. QED
      BY <3>5, <3>6
  <2>7. QED
    BY <1>4, <2>5, <2>6 DEF Inv
<1>7. QED
  BY <1>5, <1>6

-----------------------------------------------------------------------------
(* Steps of Start, but for the one that adds a loop, and of the threads     *)
(* leave the pool as it is.                                                 *)
LEMMA StartStep ==
  ASSUME Inv,
         StartThread \/ Lock \/ Wait \/ WaitReturns \/ LeaveWait \/ StartReturns
           \/ WakeSpuriously
  PROVE  Inv'
<1> USE PoolAssumption
<1>1. /\ Len(loops_) \in Nat /\ Len(loops_) <= thread_nums_ /\ thread_nums_ \in 0..MaxThreads
      /\ UNCHANGED <<thread_nums_, loops_, next_, given, loop_>>
  BY DEF Inv, TypeOK, pool, StartThread, Lock, Wait, WaitReturns, LeaveWait, StartReturns,
         WakeSpuriously
<1>2. /\ mutex_' \in [Thread -> {"free", "main", "thread"}]
      /\ waiting' \in BOOLEAN /\ pc' \in Places
  BY DEF Inv, TypeOK, Places, StartThread, Lock, Wait, WaitReturns, LeaveWait, StartReturns,
         WakeSpuriously, AfterWait
<1>3. /\ tpc' \in [Thread -> ThreadPlaces]
      /\ \A k \in Thread : tpc'[k] = tpc[k] \/ (StartThread /\ k = Current)
  <2>1. tpc \in [Thread -> ThreadPlaces]
    BY DEF Inv, TypeOK
  <2>2. CASE StartThread
    <3>1. tpc' = [tpc EXCEPT ![Current] = "build"] /\ "build" \in ThreadPlaces
      BY <2>2 DEF StartThread, ThreadPlaces
    <3>2. QED
      BY <2>1, <2>2, <3>1
  <2>3. CASE ~StartThread
    <3>1. tpc' = tpc
      BY <2>3 DEF Lock, Wait, WaitReturns, LeaveWait, StartReturns, WakeSpuriously
    <3>2. QED
      BY <2>1, <3>1
  <2>4. QED
    BY <2>2, <2>3
<1>4. TypeOK'
  BY <1>1, <1>2, <1>3 DEF Inv, TypeOK
<1>5. StartsInOrder'
  <2>1. pc' \in {"lock", "test", "wait", "take"} => Len(loops_) < thread_nums_
    BY <1>1 DEF Inv, Safe, StartsInOrder, StartThread, Lock, Wait, WaitReturns, LeaveWait,
                StartReturns, WakeSpuriously, AfterWait, Current
  <2>2. pc' = "take" => loop_[Current] # Null
    BY DEF Inv, Safe, StartsInOrder, StartThread, Lock, Wait, WaitReturns, LeaveWait,
           StartReturns, WakeSpuriously, AfterWait
  <2>3. pc # "serve"
    BY DEF Inv, Safe, StartsInOrder, StartThread, Lock, Wait, WaitReturns, LeaveWait,
           StartReturns, WakeSpuriously
  <2>4. next_ = 0 /\ given = [k \in 0..MaxThreads |-> 0]
    BY <2>3 DEF Inv, Safe, StartsInOrder
  <2>5. QED
    BY <1>1, <2>1, <2>2, <2>4 DEF StartsInOrder, Current
<1>6. PublishedAreBuilt' /\ LoopsAreBuilt'
  <2>1. StartThread => loop_[Current] = Null /\ Current \in Thread
    <3>1. SUFFICES ASSUME StartThread PROVE loop_[Current] = Null /\ Current \in Thread
      OBVIOUS
    <3>2. Current \in Thread /\ Waits(Current)
      BY <1>1, <3>1 DEF StartThread, Current, Thread, Waits
    <3>3. QED
      BY <3>2 DEF Inv, Safe, NotStarted, PublishedAreBuilt
  <2>2. PublishedAreBuilt'
    BY <1>1, <1>3, <2>1 DEF Inv, Safe, PublishedAreBuilt
  <2>3. SUFFICES ASSUME NEW k \in DOMAIN loops_ 
                 PROVE loops_[k] = k /\ tpc'[k] \in {"notify", "loop"}
    BY <1>1, <2>2 DEF LoopsAreBuilt
  <2>4. k \in Thread /\ k # Current
    BY <1>1, Numbered DEF Inv, Safe, Current
  <2>5. QED
    BY <1>3, <2>4 DEF Inv, Safe, LoopsAreBuilt
<1>7. NotStarted'
  <2>1. SUFFICES ASSUME NEW k \in Thread, Waits(k)' PROVE tpc'[k] = "none"
    BY DEF NotStarted
  <2>2. Waits(k)
    BY <1>1, <2>1 DEF Waits, Current, StartThread, Lock, Wait, WaitReturns, LeaveWait,
                      StartReturns, WakeSpuriously, AfterWait
  <2>3. tpc[k] = "none"
    BY <2>2 DEF Inv, Safe, NotStarted
  <2>4. StartThread => k # Current
    BY <1>1, <2>1 DEF Waits, Current, StartThread
  <2>5. QED
    BY <1>3, <2>3, <2>4
<1>8. RoundRobin'
  BY <1>1 DEF Inv, RoundRobin
<1>9. QED
  BY <1>4, <1>5, <1>6, <1>7, <1>8 DEF Inv, Safe

(* A thread only ever changes its own place and pointer.                    *)
LEMMA ThreadStep ==
  ASSUME Inv, NEW k \in Thread, ThreadFunc(k)
  PROVE  Inv'
<1> USE PoolAssumption
<1>1. /\ UNCHANGED <<thread_nums_, loops_, next_, given, pc>>
      /\ tpc[k] \in {"build", "publish", "notify"}
      /\ \/ /\ tpc[k] = "build" /\ tpc' = [tpc EXCEPT ![k] = "publish"]
            /\ loop_' = loop_
         \/ /\ tpc[k] = "publish" /\ tpc' = [tpc EXCEPT ![k] = "notify"]
            /\ loop_' = [loop_ EXCEPT ![k] = k]
         \/ /\ tpc[k] = "notify" /\ tpc' = [tpc EXCEPT ![k] = "loop"]
            /\ loop_' = loop_
  BY DEF ThreadFunc, BuildLoop, Publish, Notify, pool
<1>2. TypeOK'
  <2>1. loop_' \in [Thread -> 1..Null]
    <3>1. loop_ \in [Thread -> 1..Null]
      BY DEF Inv, TypeOK
    <3>2. k \in 1..Null
      BY DEF Thread, Null
    <3>3. QED
      BY <1>1, <3>1, <3>2
  <2>2. tpc' \in [Thread -> ThreadPlaces]
    BY <1>1 DEF Inv, TypeOK, ThreadPlaces
  <2>3. mutex_' \in [Thread -> {"free", "main", "thread"}] /\ waiting' \in BOOLEAN
    BY DEF Inv, TypeOK, ThreadFunc, BuildLoop, Publish, Notify, NotifiesMain
  <2>4. QED
    BY <1>1, <2>1, <2>2, <2>3 DEF Inv, TypeOK
<1>3. tpc \in [Thread -> ThreadPlaces] /\ loop_ \in [Thread -> 1..Null]
  BY DEF Inv, TypeOK
<1>4. tpc[k] \in {"build", "publish"} => loop_[k] = Null
  BY <1>1 DEF Inv, Safe, PublishedAreBuilt
<1>5. PublishedAreBuilt'
  <2>1. SUFFICES ASSUME NEW m \in Thread, loop_'[m] # Null
                 PROVE  loop_'[m] = m /\ tpc'[m] \in {"notify", "loop"}
    BY DEF PublishedAreBuilt
  <2>2. CASE m = k
    <3>1. tpc[k] = "notify" => loop_[k] = k
      BY <1>1, <1>3, <2>1, <2>2 DEF Inv, Safe, PublishedAreBuilt
    <3>2. tpc[k] # "build"
      BY <1>1, <1>4, <2>1, <2>2
    <3>3. QED
      BY <1>1, <1>3, <2>2, <3>1, <3>2
  <2>3. CASE m # k
    <3>1. loop_'[m] = loop_[m] /\ tpc'[m] = tpc[m]
      BY <1>1, <1>3, <2>3
    <3>2. QED
      BY <2>1, <3>1 DEF Inv, Safe, PublishedAreBuilt
  <2>4. QED
    BY <2>2, <2>3
<1>6. StartsInOrder'
  <2>1. Current' = Current /\ (pc = "take" => loop_[Current] # Null)
    BY <1>1 DEF Current, Inv, Safe, StartsInOrder
  <2>2. pc = "take" => Current \in Thread
    <3>1. Len(loops_) \in Nat /\ thread_nums_ \in 0..MaxThreads
      BY DEF Inv, TypeOK
    <3>2. pc = "take" => Len(loops_) < thread_nums_
      BY DEF Inv, Safe, StartsInOrder
    <3>3. QED
      BY <3>1, <3>2 DEF Current, Thread
  <2>3. k # Null
    BY DEF Thread, Null
  <2>4. pc = "take" => loop_'[Current] # Null
    BY <1>1, <1>3, <2>1, <2>2, <2>3
  <2>5. QED
    BY <1>1, <2>1, <2>4 DEF Inv, Safe, StartsInOrder
<1>7. LoopsAreBuilt'
  BY <1>1, <1>3, Numbered DEF Inv, Safe, LoopsAreBuilt
<1>8. NotStarted'
  BY <1>1, <1>3 DEF Inv, Safe, NotStarted, Waits, Current
<1>9. RoundRobin'
  BY <1>1 DEF Inv, RoundRobin
<1>10. QED
  BY <1>2, <1>5, <1>6, <1>7, <1>8, <1>9 DEF Inv, Safe

-----------------------------------------------------------------------------
(* The strengthened invariant holds in every state. *)
LEMMA Invariance == Spec => []Inv
<1>1. Init => Inv
  BY InitInv
<1>2. Inv /\ [Next]_vars => Inv'
  <2>1. SUFFICES ASSUME Inv, [Next]_vars PROVE Inv'
    OBVIOUS
  <2>2. CASE StartLoopReturns
    BY <2>1, <2>2, JoinStep
  <2>3. CASE StartThread \/ Lock \/ Wait \/ WaitReturns \/ LeaveWait \/ StartReturns
               \/ WakeSpuriously
    BY <2>1, <2>3, StartStep
  <2>4. CASE GetNextLoop
    BY <2>1, <2>4, GiveStep
  <2>5. CASE \E k \in Thread : ThreadFunc(k)
    BY <2>1, <2>5, ThreadStep
  <2>6. CASE UNCHANGED vars
    BY <2>1, <2>6 DEF vars, pool, Inv, TypeOK, Safe, StartsInOrder, PublishedAreBuilt,
                      LoopsAreBuilt, NotStarted, Waits, Current, RoundRobin
  <2>7. QED
    BY <2>1, <2>2, <2>3, <2>4, <2>5, <2>6 DEF Next, Start
<1>3. QED
  BY <1>1, <1>2, PTL DEF Spec

(* Every variable has its type, for any number of threads: the index of     *)
(* GetNextLoop never leaves the pool (EventLoopThreadPool.cpp:38).          *)
THEOREM TypeCorrect == Spec => []TypeOK
<1>1. Inv => TypeOK
  BY DEF Inv
<1>2. QED
  BY <1>1, Invariance, PTL

(* The pool holds only loops whose threads have built and published them,   *)
(* whatever wakes the main thread (EventLoopThread.cpp:28-32).              *)
THEOREM OnlyBuiltLoops == Spec => []LoopsAreBuilt
<1>1. Inv => LoopsAreBuilt
  BY DEF Inv, Safe
<1>2. QED
  BY <1>1, Invariance, PTL

(* The connections of two loops never differ by more than one               *)
(* (EventLoopThreadPool.cpp:34-41).                                         *)
THEOREM ConnectionsAreShared == Spec => []BalancedLoops
<1>1. Inv => BalancedLoops
  <2>1. SUFFICES ASSUME Inv, NEW i \in DOMAIN loops_, NEW j \in DOMAIN loops_
                 PROVE  given[loops_[i]] <= given[loops_[j]] + 1
    BY DEF BalancedLoops
  <2>2. loops_[i] = i /\ loops_[j] = j /\ i \in Thread /\ j \in Thread
    BY <2>1, Numbered DEF Inv, Safe
  <2>3. given[i] \in Nat /\ given[j] \in Nat /\ next_ \in Nat /\ i \in Nat /\ j \in Nat
    BY <2>1, <2>2, PoolAssumption DEF Inv, TypeOK, Thread
  <2>4. \/ given[i] = given[j] \/ given[i] = given[j] + 1 \/ given[j] = given[i] + 1
    BY <2>1, <2>3 DEF Inv, RoundRobin
  <2>5. QED
    BY <2>2, <2>3, <2>4
<1>2. QED
  BY <1>1, Invariance, PTL
=============================================================================
