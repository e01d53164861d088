----------------------------- MODULE TimerQueue -----------------------------
(***************************************************************************)
(* The TimerQueue of an EventLoop, composed with that loop: a timer is     *)
(* added by a functor of the loop, timerfd_ is one of the loop's channels, *)
(* and callbacks are handlers, which may add timers themselves.            *)
(*                                                                         *)
(* Time is counted in ticks, longer than the 100 microseconds that         *)
(* resetTimerfd adds to a moment that has passed.                          *)
(***************************************************************************)
EXTENDS EventLoop

CONSTANTS
    Timer,       \* timers, the tasks that add them; the other tasks are plain
    Period,      \* Timer -> interval_, 0 for a timer of runAt and runAfter
    Delay,       \* how far ahead runAfter is asked for
    MaxTime      \* bound: the last tick

ASSUME TimerAssumption ==
    /\ Timer \subseteq Task
    /\ Period \in [Timer -> Nat]
    /\ Delay \subseteq Nat
    /\ MaxTime \in Nat

VARIABLES
    now,
    expiration_,  \* Timer::expiration_, 0 before the timer exists
    timers_,      \* the timers in the queue, which is ordered by expiration_
    alarm,        \* when timerfd_ becomes readable, 0 if it is not set
    handling,     \* the timer channel: "no", "active" or, in handleRead, "running"
    expired,      \* what getExpired took out: not run yet ...
    toReset,      \* ... and run
    fired         \* history: how often the callback of a timer has run

timerVars == <<expiration_, timers_, alarm, handling, expired, toReset, fired>>
tvars == <<vars, now, timerVars>>

TInit ==
    /\ Init
    /\ now = 1
    /\ expiration_ = [k \in Timer |-> 0]
    /\ timers_ = {}
    /\ alarm = 0
    /\ handling = "no"
    /\ expired = {}
    /\ toReset = {}
    /\ fired = [k \in Timer |-> 0]

Readable == alarm # 0 /\ alarm <= now

(* resetTimerfd: a moment that has passed becomes now, and what was        *)
(* readable is not readable any more.                                      *)
ResetTimerfd(when) == alarm' = IF when < now THEN now ELSE when

Tick ==
    /\ now < MaxTime
    /\ now' = now + 1
    /\ UNCHANGED <<vars, timerVars>>

-----------------------------------------------------------------------------
(* addTimer and addTimerInLoop *)

(* runAfter and runEvery: the Timer is constructed. *)
NewTimer(k) ==
    /\ expiration_[k] = 0
    /\ \E d \in IF Period[k] > 0 THEN {Period[k]} ELSE Delay :
          expiration_' = [expiration_ EXCEPT ![k] = now + d]

(* addTimer on another thread *)
AddTimer(t, k) ==
    /\ NewTimer(k)
    /\ QueueInLoop(t, k)
    /\ UNCHANGED <<now, timers_, alarm, handling, expired, toReset, fired>>

(* insert tells whether the timer comes before all others. *)
EarliestChanged(when) == \A k \in timers_ : when < expiration_[k]

(* Mutant: the alarm is only set when the queue was empty.                 *)
AddTimerInLoopLate(k, when) ==
    /\ timers_' = timers_ \cup {k}
    /\ IF timers_ = {} THEN ResetTimerfd(when) ELSE UNCHANGED alarm

(* Mutant: one timer for each moment, as in a map from times to timers.    *)
AddTimerInLoopUnique(k, when) ==
    /\ timers_' = IF \E j \in timers_ : expiration_[j] = when
                  THEN timers_ ELSE timers_ \cup {k}
    /\ IF EarliestChanged(when)
       THEN ResetTimerfd(when)
       ELSE UNCHANGED alarm

(* addTimerInLoop, for a timer that is due at when *)
AddTimerInLoop(k, when) ==
    /\ timers_' = timers_ \cup {k}
    /\ IF EarliestChanged(when)
       THEN ResetTimerfd(when)
       ELSE UNCHANGED alarm

(* The functor that adds a timer, or a plain one, runs. *)
RunLoopFunctor ==
    /\ RunFunctor
    /\ IF Head(functors) \in Timer
       THEN AddTimerInLoop(Head(functors), expiration_[Head(functors)])
       ELSE UNCHANGED <<timers_, alarm>>
    /\ UNCHANGED <<now, expiration_, handling, expired, toReset, fired>>

(* addTimer in a handler: runInLoop calls addTimerInLoop at once. *)
AddTimerInside(k) ==
    /\ at = "handle"
    /\ NewTimer(k)
    /\ AddTimerInLoop(k, expiration_'[k])
    /\ UNCHANGED <<vars, now, handling, expired, toReset, fired>>

-----------------------------------------------------------------------------
(* The loop with the timer channel *)

PollReturns(poll) ==
    /\ poll
    /\ handling' = IF Readable THEN "active" ELSE "no"
    /\ UNCHANGED <<now, expiration_, timers_, alarm, expired, toReset, fired>>

(* poll() returns because timerfd_ is readable. *)
PollTimer == Readable /\ Returns(wakeupFd_ > 0)

(* Mutant: every timer is taken for expired.                               *)
GetExpiredAll == timers_

(* lower_bound with a sentry of the highest address: all that are due now *)
GetExpired == {k \in timers_ : expiration_[k] <= now}

(* handleRead of the timer channel, up to getExpired *)
HandleTimer ==
    /\ at = "handle" /\ handling = "active"
    /\ handling' = "running"
    /\ alarm' = 0
    /\ expired' = GetExpired
    /\ timers_' = timers_ \ GetExpired
    /\ UNCHANGED <<vars, now, expiration_, toReset, fired>>

(* Timer::run, in the order of expiration *)
RunTimer(k) ==
    /\ k \in expired
    /\ \A j \in expired : expiration_[k] <= expiration_[j]
    /\ fired' = [fired EXCEPT ![k] = @ + 1]
    /\ expired' = expired \ {k}
    /\ toReset' = toReset \cup {k}
    /\ UNCHANGED <<vars, now, expiration_, timers_, alarm, handling>>

Again == {k \in toReset : Period[k] > 0}

(* timers_.begin() *)
First ==
    CHOOSE w \in {expiration_'[k] : k \in timers_'} :
       \A k \in timers_' : w <= expiration_'[k]

(* reset: repeating timers start again, the others are deleted; the alarm  *)
(* is set for the first of the queue.                                      *)
Reset ==
    /\ handling = "running" /\ expired = {}
    /\ expiration_' = [k \in Timer |-> IF k \in Again THEN now + Period[k]
                                       ELSE expiration_[k]]
    /\ timers_' = timers_ \cup Again
    /\ IF timers_' # {} THEN ResetTimerfd(First) ELSE UNCHANGED alarm
    /\ toReset' = {}
    /\ handling' = "no"
    /\ UNCHANGED <<vars, now, expired, fired>>

-----------------------------------------------------------------------------
(* Steps of the loop and of its callers that leave the timers alone *)

PlainLoopStep ==
    /\ StartLoop \/ SwapFunctors \/ NextRound \/ (HandleRead /\ handling = "no")
    /\ UNCHANGED <<now, timerVars>>

PlainCallerStep ==
    /\ \/ QuitInside
       \/ \E k \in Task \ Timer : HandlerQueues(k) \/ FunctorQueues(k)
       \/ \E t \in Thread : Quit(t) \/ \E k \in Task \ Timer : QueueInLoop(t, k)
    /\ UNCHANGED <<now, timerVars>>

WakeupStep(t) == Wakeup(t) /\ UNCHANGED <<now, timerVars>>

TLoopStep ==
    \/ PlainLoopStep
    \/ PollReturns(PollWakeup) \/ PollReturns(PollTimer)
    \/ RunLoopFunctor
    \/ HandleTimer \/ Reset \/ \E k \in Timer : RunTimer(k)

TNext ==
    \/ TLoopStep
    \/ PollReturns(PollOther)
    \/ PlainCallerStep
    \/ \E t \in Thread : WakeupStep(t) \/ \E k \in Timer : AddTimer(t, k)
    \/ \E k \in Timer : AddTimerInside(k)
    \/ Tick

TSpec == TInit /\ [][TNext]_tvars

(* As in EventLoop, poll() owes a return only for a wakeup or for the      *)
(* alarm; time passes.                                                     *)
TFairSpec ==
    /\ TSpec
    /\ WF_tvars(TLoopStep)
    /\ WF_tvars(Tick)
    /\ \A t \in Thread : WF_tvars(WakeupStep(t))

-----------------------------------------------------------------------------
(* Properties *)

TTypeOK ==
    /\ TypeOK
    /\ now \in 1..(MaxTime + 1)
    /\ expiration_ \in [Timer -> Nat]
    /\ timers_ \in SUBSET Timer
    /\ alarm \in Nat
    /\ handling \in {"no", "active", "running"}
    /\ expired \in SUBSET Timer
    /\ toReset \in SUBSET Timer
    /\ fired \in [Timer -> Nat]

(* The loop never sleeps past a timer: whenever it polls, timerfd_ is set  *)
(* for the first timer of the queue or for a moment that has come,         *)
(* although timers are added by functors, by handlers and by the callbacks *)
(* of other timers (addTimerInLoop line 93, reset line 141).               *)
AlarmSet ==
    at = "poll" =>
       \A k \in timers_ : alarm # 0 /\ (alarm <= now \/ alarm <= expiration_[k])

(* A callback never runs before its time, a one-shot timer runs once, and  *)
(* a repeating one not more often than its interval has passed             *)
(* (getExpired, reset).                                                    *)
OnTime ==
    [][\A k \in Timer : fired'[k] # fired[k] =>
          /\ expiration_[k] <= now
          /\ IF Period[k] = 0 THEN fired[k] = 0
             ELSE now > fired'[k] * Period[k]]_tvars

(* Every timer that is added runs when its time comes, unless the loop is  *)
(* told to quit: no functor, no wakeup and no other timer can make the     *)
(* alarm miss it (addTimerInLoop, handleRead, reset).                      *)
EveryTimerRuns ==
    \A k \in Timer :
       expiration_[k] \in 1..MaxTime /\ fired[k] = 0 ~> fired[k] > 0 \/ quit_
=============================================================================
