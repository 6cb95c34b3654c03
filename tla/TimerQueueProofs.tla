--------------------------- MODULE TimerQueueProofs ---------------------------
(* The timers of a loop are safe and the timerfd is armed in time, for any  *)
(* number of timers and any delays.                                         *)
EXTENDS TimerQueue, WellFoundedInduction, TLAPS

-----------------------------------------------------------------------------
(* Operators on the set of entries. *)

(* Some number of a non-empty set is the least. *)
LEMMA LeastNatural ==
  ASSUME NEW S \in SUBSET Nat, S # {}
  PROVE  \E m \in S : \A n \in S : m =< n
<1> DEFINE R == {ss \in Nat \X Nat : ss[1] < ss[2]}
<1>1. IsWellFoundedOn(R, Nat)
  BY NatLessThanWellFounded DEF OpToRel
<1>2. PICK m \in S : \A n \in S : ~(<<n, m>> \in R)
  BY <1>1, WFMin
<1>3. \A n \in S : ~(n < m)
  BY <1>2
<1> QED BY <1>3

LEMMA MinIsLeast ==
  ASSUME NEW S \in SUBSET Nat, S # {}
  PROVE  Min(S) \in S /\ \A n \in S : Min(S) =< n
BY LeastNatural DEF Min

LEMMA MaxOfTwo ==
  ASSUME NEW m \in Nat, NEW n \in Nat
  PROVE  Max({m, n}) = IF m >= n THEN m ELSE n
<1> DEFINE x == IF m >= n THEN m ELSE n
<1>1. x \in {m, n} /\ \A y \in {m, n} : x >= y
  OBVIOUS
<1>2. \A z \in {m, n} : (\A y \in {m, n} : z >= y) => z = x
  OBVIOUS
<1> QED BY <1>1, <1>2 DEF Max

(* timers_.begin() is an entry, and no entry is due before it. *)
LEMMA BeginIsFirst ==
  ASSUME NEW entries \in SUBSET Timer, entries # {},
         NEW expire \in [Timer -> Delay]
  PROVE  /\ Begin(entries, expire) \in Delay
         /\ \E t \in entries : Begin(entries, expire) = expire[t]
         /\ \A t \in entries : Begin(entries, expire) =< expire[t]
<1> DEFINE S == {expire[t] : t \in entries}
<1>1. S \subseteq Delay /\ S \in SUBSET Nat /\ S # {}
  BY TimerAssumption DEF Delay
<1>2. Min(S) \in S /\ \A n \in S : Min(S) =< n
  BY <1>1, MinIsLeast
<1> QED BY <1>1, <1>2 DEF Begin

LEMMA ArmForInDelay ==
  ASSUME NEW remaining \in Delay
  PROVE  /\ ArmFor(remaining) \in Delay
         /\ ArmFor(remaining) = IF remaining >= 1 THEN remaining ELSE 1
BY MaxOfTwo, TimerAssumption DEF ArmFor, Delay

-----------------------------------------------------------------------------
(* Type correctness. *)
LEMMA InitTyped == Init => TypeOK
<1> SUFFICES ASSUME Init PROVE TypeOK
  OBVIOUS
<1>1. 0 \in Delay
  BY TimerAssumption DEF Delay
<1>2. expireTime_ \in [Timer -> Delay] /\ interval_ \in [Timer -> Delay]
  BY <1>1 DEF Init
<1> QED BY <1>1, <1>2 DEF Init, TypeOK

LEMMA AddTimerTyped ==
  ASSUME TypeOK, NEW t \in Timer, NEW when \in Delay, NEW every \in BOOLEAN,
         AddTimer(t, when, every)
  PROVE  TypeOK'
<1>1. expireTime_' \in [Timer -> Delay] /\ interval_' \in [Timer -> Delay]
  BY TimerAssumption DEF AddTimer, TypeOK, Delay
<1>2. armed' \in Delay /\ expired' \in BOOLEAN
  BY ArmForInDelay DEF AddTimer, TypeOK, ResetTimerFd, timerfd
<1> QED BY <1>1, <1>2 DEF AddTimer, TypeOK, pass

LEMMA ResetTimersTyped ==
  ASSUME TypeOK, ResetTimers
  PROVE  TypeOK'
<1>1. expireTime_' \in [Timer -> Delay] /\ timers_' \in SUBSET Timer
  BY DEF ResetTimers, TypeOK, Again
<1>2. timers_' # {} => Begin(timers_', expireTime_') \in Delay
  BY <1>1, BeginIsFirst
<1>3. armed' \in Delay /\ expired' \in BOOLEAN
  BY <1>2, ArmForInDelay DEF ResetTimers, TypeOK, ArmFirst, ResetTimerFd, timerfd
<1> QED BY <1>1, <1>3 DEF ResetTimers, TypeOK

LEMMA TickTyped ==
  ASSUME TypeOK, Tick
  PROVE  TypeOK'
<1>1. \A n \in Delay : n > 0 => n - 1 \in Delay
  BY TimerAssumption DEF Delay
<1>2. expireTime_' \in [Timer -> Delay]
  BY <1>1, TimerAssumption DEF Tick, TypeOK, Delay
<1>3. armed' \in Delay /\ expired' \in BOOLEAN
  BY <1>1, TimerAssumption DEF Tick, TypeOK, Delay
<1> QED BY <1>2, <1>3 DEF Tick, TypeOK, objects, pass

LEMMA NextTyped == TypeOK /\ [Next]_vars => TypeOK'
<1> SUFFICES ASSUME TypeOK, [Next]_vars PROVE TypeOK'
  OBVIOUS
<1>1. ASSUME NEW t \in Timer, NEW when \in Delay, NEW every \in BOOLEAN,
             AddTimer(t, when, every)
      PROVE  TypeOK'
  BY <1>1, AddTimerTyped
<1>2. CASE PollReturns
  BY <1>2 DEF PollReturns, TypeOK, objects, timerfd
<1>3. CASE TakeExpired
  BY <1>3 DEF TakeExpired, Expired, TypeOK, objects
<1>4. CASE ResetTimers
  BY <1>4, ResetTimersTyped
<1>5. ASSUME NEW t \in Timer, RunTimer(t)
      PROVE  TypeOK'
  BY <1>5 DEF RunTimer, TypeOK, objects, timerfd
<1>6. CASE CallbackReturns
  BY <1>6 DEF CallbackReturns, TypeOK, objects, timerfd
<1>7. CASE Tick
  BY <1>7, TickTyped
<1>8. CASE UNCHANGED vars
  BY <1>8 DEF vars, TypeOK, objects, pass, timerfd
<1> QED BY <1>1, <1>2, <1>3, <1>4, <1>5, <1>6, <1>7, <1>8 DEF Next, LoopStep

(* Every variable always has its type: expiries and the timerfd stay within *)
(* the longest delay, however timers are added, repeated and run.           *)
THEOREM TypeCorrect == Spec => []TypeOK
<1> QED BY InitTyped, NextTyped, PTL DEF Spec

-----------------------------------------------------------------------------
(* Entries and objects.  The invariant is inductive as it stands: an object *)
(* is deleted only by the pass that took its entry out, and new entries are *)
(* of new objects. *)
LEMMA NextKeepsEntries ==
  TypeOK /\ NoDanglingEntry /\ [Next]_vars => NoDanglingEntry'
<1> SUFFICES ASSUME TypeOK, NoDanglingEntry, [Next]_vars PROVE NoDanglingEntry'
  OBVIOUS
<1> USE DEF NoDanglingEntry, objects, pass, timerfd
<1>1. ASSUME NEW t \in Timer, NEW when \in Delay, NEW every \in BOOLEAN,
             AddTimer(t, when, every)
      PROVE  NoDanglingEntry'
  BY <1>1 DEF AddTimer
<1>2. CASE PollReturns
  BY <1>2 DEF PollReturns
<1>3. CASE TakeExpired
  BY <1>3 DEF TakeExpired, Expired
<1>4. CASE ResetTimers
  BY <1>4 DEF ResetTimers, Again
<1>5. ASSUME NEW t \in Timer, RunTimer(t)
      PROVE  NoDanglingEntry'
  BY <1>5 DEF RunTimer
<1>6. CASE CallbackReturns
  BY <1>6 DEF CallbackReturns
<1>7. CASE Tick
  BY <1>7 DEF Tick
<1>8. CASE UNCHANGED vars
  BY <1>8 DEF vars
<1> QED BY <1>1, <1>2, <1>3, <1>4, <1>5, <1>6, <1>7, <1>8 DEF Next, LoopStep

(* No entry that will be used is a timer that was deleted, whatever the     *)
(* callbacks add while HandleRead runs them (TimerQueue.cpp:37-48, 87).     *)
THEOREM EntriesAreLive == Spec => []NoDanglingEntry
<1>1. Init => NoDanglingEntry
  BY DEF Init, NoDanglingEntry
<1> QED BY <1>1, TypeCorrect, NextKeepsEntries, PTL DEF Spec

-----------------------------------------------------------------------------
(* The timerfd.  NotLate says of each entry what ArmedInTime says of the    *)
(* first one. *)
NotLate == /\ armed >= 1
           /\ \A t \in timers_ : armed =< 1 \/ armed =< expireTime_[t]

LEMMA NotLateIsInTime ==
  ASSUME TypeOK, timers_ # {}
  PROVE  NotLate <=> armed \in 1..Max({1, Begin(timers_, expireTime_)})
<1> DEFINE b == Begin(timers_, expireTime_)
<1>1. /\ b \in Nat
      /\ \E t \in timers_ : b = expireTime_[t]
      /\ \A t \in timers_ : b =< expireTime_[t]
  BY BeginIsFirst, TimerAssumption DEF TypeOK, Delay
<1>2. Max({1, b}) = IF 1 >= b THEN 1 ELSE b
  BY <1>1, MaxOfTwo
<1>3. armed \in Nat /\ \A t \in timers_ : expireTime_[t] \in Nat
  BY DEF TypeOK, Delay
<1> HIDE DEF b
<1>4. armed \in 1..Max({1, b}) <=> armed >= 1 /\ (armed =< 1 \/ armed =< b)
  BY <1>1, <1>2, <1>3
<1>5. armed =< b <=> \A t \in timers_ : armed =< expireTime_[t]
  BY <1>1, <1>3
<1> QED BY <1>3, <1>4, <1>5 DEF NotLate, b

(* ArmedInTime, said of every entry. *)
WatchInv == pc = "loop" /\ timers_ # {} => expired \/ NotLate

LEMMA WatchIsArmed == TypeOK => (WatchInv <=> ArmedInTime)
BY NotLateIsInTime DEF WatchInv, ArmedInTime

(* A new entry is not due before the timerfd expires: it is the first, and  *)
(* the timerfd is set for it, or another one is due no later.               *)
LEMMA AddTimerWatches ==
  ASSUME TypeOK, NoDanglingEntry, WatchInv,
         NEW t \in Timer, NEW when \in Delay, NEW every \in BOOLEAN,
         AddTimer(t, when, every)
  PROVE  WatchInv'
<1> SUFFICES ASSUME pc' = "loop" PROVE (expired \/ NotLate)'
  BY DEF WatchInv
<1>1. /\ pc = "loop" /\ timers_' = timers_ \cup {t}
      /\ expireTime_' = [expireTime_ EXCEPT ![t] = when]
      /\ t \notin timers_
  BY DEF AddTimer, pass, NoDanglingEntry
<1>2. /\ expireTime_'[t] = when
      /\ \A u \in timers_ : expireTime_'[u] = expireTime_[u] /\ expireTime_[u] \in Nat
      /\ when \in Nat /\ armed \in Nat
  BY <1>1, TimerAssumption DEF TypeOK, Delay
<1>3. timers_ # {} =>
        LET b == Begin(timers_, expireTime_)
        IN  /\ b \in Nat
            /\ \E u \in timers_ : b = expireTime_[u]
            /\ \A u \in timers_ : b =< expireTime_[u]
  BY BeginIsFirst, TimerAssumption DEF TypeOK, Delay
<1>4. CASE ResetInstantly(when)
  <2>1. armed' = IF when >= 1 THEN when ELSE 1
    BY <1>4, ArmForInDelay DEF AddTimer, ResetTimerFd
  <2>2. \A u \in timers_ : when =< expireTime_[u]
    BY <1>2, <1>3, <1>4 DEF ResetInstantly
  <2> QED BY <1>1, <1>2, <2>1, <2>2 DEF NotLate
<1>5. CASE ~ResetInstantly(when)
  <2>1. timers_ # {} /\ UNCHANGED <<armed, expired>>
    BY <1>5 DEF AddTimer, ResetInstantly, timerfd
  <2>2. PICK u \in timers_ : expireTime_[u] =< when
    BY <1>2, <1>3, <1>5, <2>1 DEF ResetInstantly
  <2>3. expired \/ NotLate
    BY <1>1, <2>1 DEF WatchInv
  <2> QED BY <1>1, <1>2, <2>1, <2>2, <2>3 DEF NotLate
<1> QED BY <1>4, <1>5

LEMMA ResetTimersWatches ==
  ASSUME TypeOK, ResetTimers
  PROVE  WatchInv'
<1> SUFFICES ASSUME timers_' # {} PROVE NotLate'
  BY DEF WatchInv
<1>1. TypeOK'
  BY ResetTimersTyped
<1> DEFINE b == Begin(timers_', expireTime_')
<1>2. b \in Delay /\ \A t \in timers_' : b =< expireTime_'[t]
  BY <1>1, BeginIsFirst DEF TypeOK
<1>3. armed' = IF b >= 1 THEN b ELSE 1
  BY <1>2, ArmForInDelay DEF ResetTimers, ArmFirst, ResetTimerFd
<1>4. b \in Nat /\ \A t \in timers_' : expireTime_'[t] \in Nat
  BY <1>1, <1>2, TimerAssumption DEF TypeOK, Delay
<1> HIDE DEF b
<1> QED BY <1>2, <1>3, <1>4 DEF NotLate

(* The timerfd and the entries count down together. *)
LEMMA TickWatches ==
  ASSUME TypeOK, WatchInv, Tick
  PROVE  WatchInv'
<1> SUFFICES ASSUME pc' = "loop", timers_' # {}, ~expired'
             PROVE  NotLate'
  BY DEF WatchInv
<1>1. pc = "loop" /\ timers_ # {} /\ timers_' = timers_ /\ ~expired /\ armed # 1
  BY DEF Tick, objects, pass
<1>2. armed \in Nat /\ \A t \in timers_ : expireTime_[t] \in Nat
  BY TimerAssumption DEF TypeOK, Delay
<1>3. armed > 1 /\ \A t \in timers_ : armed =< expireTime_[t]
  BY <1>1, <1>2 DEF WatchInv, NotLate
<1>4. armed' = armed - 1 /\ \A t \in timers_ : expireTime_'[t] = expireTime_[t] - 1
  BY <1>2, <1>3 DEF Tick, TypeOK
<1> QED BY <1>1, <1>2, <1>3, <1>4 DEF NotLate

LEMMA NextWatches ==
  TypeOK /\ NoDanglingEntry /\ WatchInv /\ [Next]_vars => WatchInv'
<1> SUFFICES ASSUME TypeOK, NoDanglingEntry, WatchInv, [Next]_vars
             PROVE  WatchInv'
  OBVIOUS
<1> USE DEF WatchInv, NotLate, objects, pass, timerfd
<1>1. ASSUME NEW t \in Timer, NEW when \in Delay, NEW every \in BOOLEAN,
             AddTimer(t, when, every)
      PROVE  WatchInv'
  BY <1>1, AddTimerWatches
<1>2. CASE PollReturns
  BY <1>2 DEF PollReturns
<1>3. CASE TakeExpired
  BY <1>3 DEF TakeExpired
<1>4. CASE ResetTimers
  BY <1>4, ResetTimersWatches
<1>5. ASSUME NEW t \in Timer, RunTimer(t)
      PROVE  WatchInv'
  BY <1>5 DEF RunTimer
<1>6. CASE CallbackReturns
  BY <1>6 DEF CallbackReturns
<1>7. CASE Tick
  BY <1>7, TickWatches
<1>8. CASE UNCHANGED vars
  BY <1>8 DEF vars
<1> QED BY <1>1, <1>2, <1>3, <1>4, <1>5, <1>6, <1>7, <1>8 DEF Next, LoopStep

(* The timerfd expires no later than the first timer whenever the loop may  *)
(* go to sleep, for any number of timers (TimerQueue.cpp:92-114).           *)
THEOREM TimerfdIsInTime == Spec => []ArmedInTime
<1>1. Init => WatchInv
  BY DEF Init, WatchInv
<1>2. Spec => []WatchInv
  BY <1>1, TypeCorrect, EntriesAreLive, NextWatches, PTL DEF Spec
<1> QED BY <1>2, TypeCorrect, WatchIsArmed, PTL
=============================================================================
