----------------------------- MODULE TimerQueue -----------------------------
(***************************************************************************)
(* The timers of one event loop: a set of timers ordered by expiry, one    *)
(* timerfd armed for the first of them, and HandleRead, which runs those   *)
(* that are due and starts the repeating ones again.  Callbacks, and the   *)
(* loop's other handlers, add timers at any moment.                        *)
(*                                                                         *)
(* Time is counted in ticks of 100 microseconds, the shortest time         *)
(* ResetTimerFd arms; an expiry is kept as the ticks that remain, never    *)
(* below 0, so that time may go on for ever in a finite model.  All steps  *)
(* but Tick are the loop's thread (README: HttpServer's connection         *)
(* callback is the exception).                                             *)
(***************************************************************************)
EXTENDS Naturals, FiniteSets, FiniteSetsExt

CONSTANTS Timer,     \* the Timer objects that may be allocated at once
          MaxDelay,  \* the longest delay or interval, in ticks
          None

ASSUME TimerAssumption == None \notin Timer /\ MaxDelay \in Nat \ {0}

VARIABLES
  live,            \* the Timer objects that are allocated
  expireTime_,     \* per timer: the ticks until it is due
  interval_,       \* per timer: its interval
  repeat_,         \* the timers with an interval > 0.0
  timers_,         \* the set of entries
  active_timers_,  \* the entries HandleRead took out
  due,             \* those it has still to run
  running,         \* the timer whose callback runs, or None
  pc,              \* "loop": elsewhere in Loop; "run": in HandleRead
  armed,           \* the timerfd: ticks until it expires, 0 when disarmed
  expired,         \* the timerfd is readable
  ready            \* its channel is in the loop's list of active channels

objects == <<live, interval_, repeat_>>
timerfd == <<armed, expired>>
pass == <<active_timers_, due, running, pc, ready>>
vars == <<objects, expireTime_, timers_, pass, timerfd>>

Delay == 0..MaxDelay

Init == /\ live = {} /\ repeat_ = {} /\ timers_ = {}
        /\ expireTime_ = [t \in Timer |-> 0]
        /\ interval_ = [t \in Timer |-> 0]
        /\ active_timers_ = {} /\ due = {} /\ running = None /\ pc = "loop"
        /\ armed = 0 /\ expired = FALSE /\ ready = FALSE

-----------------------------------------------------------------------------
(* The time of timers_.begin(): entries are ordered by expiry. *)
Begin(entries, expire) == Min({expire[t] : t \in entries})

(* ResetTimerFd arms the timerfd for what remains, and for 100 microseconds *)
(* when that is less; settime also forgets an expiration nobody has read.   *)
ArmForMore(remaining) == remaining + 1
ArmFor(remaining) == Max({remaining, 1})

ResetTimerFd(remaining) == armed' = ArmFor(remaining) /\ expired' = FALSE

(* Insert's answer: the timer is the first, so the timerfd has to be set.   *)
ResetInstantlyUnlessEarlier(when) == timers_ = {}
ResetInstantly(when) == timers_ = {} \/ when < Begin(timers_, expireTime_)

(* AddTimer from RunAt, RunAfter (i not in use) and RunEvery: outside       *)
(* HandleRead, or from a callback it runs.                                  *)
AddTimer(t, when, every) ==
  /\ t \notin live
  /\ pc = "loop" \/ running # None
  /\ live' = live \cup {t}
  /\ expireTime_' = [expireTime_ EXCEPT ![t] = when]
  /\ interval_' = [interval_ EXCEPT ![t] = IF every THEN when ELSE 0]
  /\ repeat_' = IF every THEN repeat_ \cup {t} ELSE repeat_
  /\ timers_' = timers_ \cup {t}
  /\ IF ResetInstantly(when) THEN ResetTimerFd(when) ELSE UNCHANGED timerfd
  /\ UNCHANGED pass

-----------------------------------------------------------------------------
(* epoll reports the timerfd, level-triggered; other channels' handlers may *)
(* come before HandleRead in the list.                                      *)
PollReturns == /\ pc = "loop" /\ expired /\ ~ready
               /\ ready' = TRUE
               /\ UNCHANGED <<objects, expireTime_, timers_, active_timers_,
                              due, running, pc, timerfd>>

Expired == {t \in timers_ : expireTime_[t] = 0}

(* HandleRead up to its loop: read the timerfd (when an AddTimer has set it *)
(* again since epoll_wait the read fails, and HandleRead goes on), then     *)
(* take out every timer that is due.                                        *)
TakeExpiredAgain == /\ pc = "loop" /\ ready
                    /\ ready' = FALSE /\ expired' = FALSE
                    /\ active_timers_' = active_timers_ \cup Expired
                    /\ due' = active_timers_'
                    /\ timers_' = timers_ \ Expired
                    /\ pc' = "run"
                    /\ UNCHANGED <<objects, expireTime_, running, armed>>

TakeExpired == /\ pc = "loop" /\ ready
               /\ ready' = FALSE /\ expired' = FALSE
               /\ active_timers_' = Expired
               /\ due' = Expired
               /\ timers_' = timers_ \ Expired
               /\ pc' = "run"
               /\ UNCHANGED <<objects, expireTime_, running, armed>>

(* The callbacks run one after the other, in any order here.                *)
RunTimer(t) == /\ pc = "run" /\ running = None /\ t \in due
               /\ running' = t
               /\ due' = due \ {t}
               /\ UNCHANGED <<objects, expireTime_, timers_, active_timers_,
                              pc, ready, timerfd>>

CallbackReturns == /\ running # None
                   /\ running' = None
                   /\ UNCHANGED <<objects, expireTime_, timers_,
                                  active_timers_, due, pc, ready, timerfd>>

(* ResetTimers: repeating timers are due again after their interval, the    *)
(* others are deleted, and the timerfd is set for the first that is left.   *)
Again == active_timers_ \cap repeat_

ArmFirstIfRepeating(entries, expire) ==
  IF Again # {} THEN ResetTimerFd(Begin(entries, expire))
                ELSE UNCHANGED timerfd

ArmFirst(entries, expire) ==
  IF entries # {} THEN ResetTimerFd(Begin(entries, expire))
                  ELSE UNCHANGED timerfd

ResetTimersUntilNoneDue ==
  /\ pc = "run" /\ running = None /\ due = {}
  /\ live' = live \ (active_timers_ \ repeat_)
  /\ expireTime_' = [t \in Timer |-> IF t \in Again THEN interval_[t]
                                     ELSE expireTime_[t]]
  /\ due' = {t \in timers_ \cup Again : expireTime_'[t] = 0}
  /\ active_timers_' = due'
  /\ timers_' = (timers_ \cup Again) \ due'
  /\ ArmFirst(timers_', expireTime_')
  /\ pc' = IF due' = {} THEN "loop" ELSE "run"
  /\ UNCHANGED <<interval_, repeat_, running, ready>>

ResetTimers ==
  /\ pc = "run" /\ running = None /\ due = {}
  /\ live' = live \ (active_timers_ \ repeat_)
  /\ expireTime_' = [t \in Timer |-> IF t \in Again THEN interval_[t]
                                     ELSE expireTime_[t]]
  /\ timers_' = timers_ \cup Again
  /\ ArmFirst(timers_', expireTime_')
  /\ pc' = "loop"
  /\ UNCHANGED <<interval_, repeat_, active_timers_, due, running, ready>>

(* The monotonic clock and the timerfd. *)
Tick == /\ expireTime_' = [t \in Timer |-> IF expireTime_[t] > 0
                                           THEN expireTime_[t] - 1 ELSE 0]
        /\ armed' = IF armed > 0 THEN armed - 1 ELSE 0
        /\ expired' = (expired \/ armed = 1)
        /\ UNCHANGED <<objects, timers_, pass>>

-----------------------------------------------------------------------------
LoopStep == PollReturns \/ TakeExpired \/ ResetTimers
            \/ (\E t \in Timer : RunTimer(t))

Next == \/ \E t \in Timer, when \in Delay, every \in BOOLEAN :
             AddTimer(t, when, every)
        \/ LoopStep \/ CallbackReturns \/ Tick

Spec == Init /\ [][Next]_vars

(* Time goes on, the loop thread is scheduled, callbacks return, and the    *)
(* loop comes back to epoll_wait (EventLoop's IoNotStarved).                *)
FairSpec == Spec /\ WF_vars(LoopStep) /\ WF_vars(CallbackReturns)
                 /\ WF_vars(Tick)

-----------------------------------------------------------------------------
(* Every variable has its type. *)
TypeOK == /\ live \subseteq Timer /\ repeat_ \subseteq Timer
          /\ expireTime_ \in [Timer -> Delay]
          /\ interval_ \in [Timer -> Delay]
          /\ timers_ \subseteq Timer /\ active_timers_ \subseteq Timer
          /\ due \subseteq active_timers_
          /\ running \in Timer \cup {None}
          /\ pc \in {"loop", "run"}
          /\ armed \in Delay /\ expired \in BOOLEAN /\ ready \in BOOLEAN

(* Entries are raw pointers in two containers, and ResetTimers deletes: no  *)
(* entry that will be used, of the set or of the pass in progress, is a     *)
(* timer that was deleted, and none is in both (TimerQueue.cpp:37-48, 87).  *)
NoDanglingEntry ==
  /\ timers_ \subseteq live
  /\ pc = "run" => active_timers_ \subseteq live \ timers_

(* Whenever the loop may go to sleep, the timerfd is readable or expires no *)
(* later than the first timer (than one tick when that is due already),     *)
(* whoever added timers in between and in whatever order                    *)
(* (TimerQueue.cpp:92, 101, 107-114).                                       *)
ArmedInTime ==
  pc = "loop" /\ timers_ # {} =>
    \/ expired
    \/ armed \in 1..Max({1, Begin(timers_, expireTime_)})

(* Every timer that was added runs, and so does every repetition: none is   *)
(* pushed back by earlier ones that keep coming (TimerQueue.cpp:111).       *)
EveryTimerRuns == \A t \in Timer : t \in timers_ ~> running = t

(* HandleRead returns, although its callbacks add timers that are due at    *)
(* once and repeating ones may be due again: it runs only those it took,    *)
(* and others wait for the timerfd (TimerQueue.cpp:41-48, 59-62).           *)
HandleReadReturns == pc = "run" ~> pc = "loop"
=============================================================================
