----------------------------- MODULE EventLoop -----------------------------
(***************************************************************************)
(* EventLoop of the network library: one thread that polls, handles the    *)
(* ready channels and runs the functors other threads have queued, and     *)
(* those threads.  queueInLoop takes mutex_ to append and only afterwards  *)
(* writes to wakeupFd_, so a caller and the loop interleave between the    *)
(* two.                                                                    *)
(***************************************************************************)
EXTENDS Naturals, Sequences

CONSTANTS
    Thread,      \* threads other than the loop's own
    Task         \* functors, each queued at most once

VARIABLES
    pendingFunctors_,
    functors,     \* the vector doPendingFunctors has swapped out
    wakeupFd_,    \* the counter of the eventfd
    quit_,
    at,           \* where the loop's thread is
    wakeupActive, \* the wakeup channel is among activeChannels_
    caller,       \* a thread is between its append (or quit_) and wakeup()
    queued,       \* history: tasks that were handed to queueInLoop
    ran,          \* history: tasks that ran, in order
    quitCalled    \* history: quit() was called

loopVars == <<functors, at, wakeupActive>>
vars == <<pendingFunctors_, wakeupFd_, quit_, loopVars, caller, queued, ran,
          quitCalled>>

Init ==
    /\ pendingFunctors_ = <<>>
    /\ functors = <<>>
    /\ wakeupFd_ = 0
    /\ quit_ = FALSE
    /\ at = "constructed"
    /\ wakeupActive = FALSE
    /\ caller = [t \in Thread |-> "out"]
    /\ queued = {}
    /\ ran = <<>>
    /\ quitCalled = FALSE

-----------------------------------------------------------------------------
(* Other threads *)

Enqueue(k) ==
    /\ k \notin queued
    /\ queued' = queued \cup {k}
    /\ pendingFunctors_' = Append(pendingFunctors_, k)

(* Mutant: no wakeup() after the append.                                   *)
QueueSilently(t, k) ==
    /\ caller[t] = "out"
    /\ Enqueue(k)
    /\ UNCHANGED <<wakeupFd_, quit_, loopVars, caller, ran, quitCalled>>

(* queueInLoop up to the end of its critical section *)
QueueInLoop(t, k) ==
    /\ caller[t] = "out"
    /\ Enqueue(k)
    /\ caller' = [caller EXCEPT ![t] = "wake"]
    /\ UNCHANGED <<wakeupFd_, quit_, loopVars, ran, quitCalled>>

(* Mutant: no wakeup() after quit_ = true.                                 *)
QuitSilently(t) ==
    /\ caller[t] = "out"
    /\ ~quitCalled
    /\ quit_' = TRUE
    /\ quitCalled' = TRUE
    /\ UNCHANGED <<pendingFunctors_, wakeupFd_, loopVars, caller, queued, ran>>

Quit(t) ==
    /\ caller[t] = "out"
    /\ ~quitCalled
    /\ quit_' = TRUE
    /\ quitCalled' = TRUE
    /\ caller' = [caller EXCEPT ![t] = "wake"]
    /\ UNCHANGED <<pendingFunctors_, wakeupFd_, loopVars, queued, ran>>

(* wakeup(), for a caller that is not the loop's thread *)
Wakeup(t) ==
    /\ caller[t] = "wake"
    /\ wakeupFd_' = wakeupFd_ + 1
    /\ caller' = [caller EXCEPT ![t] = "out"]
    /\ UNCHANGED <<pendingFunctors_, quit_, loopVars, queued, ran, quitCalled>>

-----------------------------------------------------------------------------
(* The loop's thread *)

(* loop() clears quit_ before it looks at it. *)
StartLoop ==
    /\ at = "constructed"
    /\ quit_' = FALSE
    /\ at' = "poll"
    /\ UNCHANGED <<pendingFunctors_, wakeupFd_, functors, wakeupActive, caller,
                   queued, ran, quitCalled>>

Returns(active) ==
    /\ at = "poll"
    /\ at' = "handle"
    /\ wakeupActive' = active
    /\ UNCHANGED <<pendingFunctors_, wakeupFd_, quit_, functors, caller, queued,
                   ran, quitCalled>>

(* poll() returns because wakeupFd_ is readable ... *)
PollWakeup == wakeupFd_ > 0 /\ Returns(TRUE)

(* ... or because another channel is, or after kPollTimeMs. *)
PollOther == Returns(wakeupFd_ > 0)

(* A channel's handler runs on the loop's thread: queueInLoop sees neither *)
(* another thread nor callingPendingFunctiors_, and does not wake up.      *)
HandlerQueues(k) ==
    /\ at = "handle"
    /\ Enqueue(k)
    /\ UNCHANGED <<wakeupFd_, quit_, loopVars, caller, ran, quitCalled>>

(* Mutant: one read takes one wakeup, as from a semaphore.                 *)
HandleReadOne ==
    /\ at = "handle"
    /\ wakeupFd_' = wakeupFd_ - 1
    /\ wakeupActive' = FALSE
    /\ at' = "swap"
    /\ UNCHANGED <<pendingFunctors_, quit_, functors, caller, queued, ran,
                   quitCalled>>

(* handleRead of the wakeup channel empties the eventfd. *)
HandleRead ==
    /\ at = "handle"
    /\ wakeupFd_' = IF wakeupActive THEN 0 ELSE wakeupFd_
    /\ wakeupActive' = FALSE
    /\ at' = "swap"
    /\ UNCHANGED <<pendingFunctors_, quit_, functors, caller, queued, ran,
                   quitCalled>>

(* Mutant: the vector is copied instead of swapped.                        *)
CopyFunctors ==
    /\ at = "swap"
    /\ functors' = pendingFunctors_
    /\ at' = "calling"
    /\ UNCHANGED <<pendingFunctors_, wakeupFd_, quit_, wakeupActive, caller,
                   queued, ran, quitCalled>>

(* doPendingFunctors: callingPendingFunctiors_ is true from here on. *)
SwapFunctors ==
    /\ at = "swap"
    /\ functors' = pendingFunctors_
    /\ pendingFunctors_' = <<>>
    /\ at' = "calling"
    /\ UNCHANGED <<wakeupFd_, quit_, wakeupActive, caller, queued, ran,
                   quitCalled>>

(* Mutant: callingPendingFunctiors_ is not looked at.                      *)
FunctorQueuesSilently(k) ==
    /\ at = "calling" /\ functors # <<>>
    /\ Enqueue(k)
    /\ UNCHANGED <<wakeupFd_, quit_, loopVars, caller, ran, quitCalled>>

(* The functor that runs queues another one: queueInLoop wakes the loop up *)
(* because callingPendingFunctiors_ is true.                               *)
FunctorQueues(k) ==
    /\ at = "calling" /\ functors # <<>>
    /\ Enqueue(k)
    /\ wakeupFd_' = wakeupFd_ + 1
    /\ UNCHANGED <<quit_, loopVars, caller, ran, quitCalled>>

RunFunctor ==
    /\ at = "calling" /\ functors # <<>>
    /\ ran' = Append(ran, Head(functors))
    /\ functors' = Tail(functors)
    /\ UNCHANGED <<pendingFunctors_, wakeupFd_, quit_, at, wakeupActive, caller,
                   queued, quitCalled>>

(* quit() from a handler or a functor: no wakeup(), the loop looks at the  *)
(* flag before it polls again.                                             *)
QuitInside ==
    /\ at = "handle" \/ (at = "calling" /\ functors # <<>>)
    /\ ~quitCalled
    /\ quit_' = TRUE
    /\ quitCalled' = TRUE
    /\ UNCHANGED <<pendingFunctors_, wakeupFd_, loopVars, caller, queued, ran>>

(* Mutant: the loop polls again without a look at quit_.                   *)
NextRoundAlways ==
    /\ at = "calling" /\ functors = <<>>
    /\ at' = "poll"
    /\ UNCHANGED <<pendingFunctors_, wakeupFd_, quit_, functors, wakeupActive,
                   caller, queued, ran, quitCalled>>

NextRound ==
    /\ at = "calling" /\ functors = <<>>
    /\ at' = IF quit_ THEN "ended" ELSE "poll"
    /\ UNCHANGED <<pendingFunctors_, wakeupFd_, quit_, functors, wakeupActive,
                   caller, queued, ran, quitCalled>>

-----------------------------------------------------------------------------
CallerStep(t) == (\E k \in Task : QueueInLoop(t, k)) \/ Quit(t) \/ Wakeup(t)

LoopStep ==
    \/ StartLoop \/ PollWakeup \/ HandleRead \/ SwapFunctors \/ RunFunctor
    \/ NextRound

Next ==
    \/ \E t \in Thread : CallerStep(t)
    \/ LoopStep
    \/ PollOther
    \/ QuitInside
    \/ \E k \in Task : HandlerQueues(k) \/ FunctorQueues(k)

Spec == Init /\ [][Next]_vars

(* Threads keep running.  PollOther owes nothing: no task may depend on    *)
(* the poll timeout or on traffic to be noticed.                           *)
FairSpec ==
    /\ Spec
    /\ WF_vars(LoopStep)
    /\ \A t \in Thread : WF_vars(Wakeup(t))

-----------------------------------------------------------------------------
(* Properties *)

TypeOK ==
    /\ pendingFunctors_ \in Seq(Task)
    /\ functors \in Seq(Task)
    /\ wakeupFd_ \in Nat
    /\ quit_ \in BOOLEAN
    /\ at \in {"constructed", "poll", "handle", "swap", "calling", "ended"}
    /\ wakeupActive \in BOOLEAN
    /\ caller \in [Thread -> {"out", "wake"}]
    /\ queued \in SUBSET Task
    /\ ran \in Seq(Task)
    /\ quitCalled \in BOOLEAN

WakeupComing == wakeupFd_ > 0 \/ \E t \in Thread : caller[t] = "wake"

(* The loop never goes to sleep in poll() on a functor nobody will wake it *)
(* up for, whether another thread queued it, at any moment, or a handler   *)
(* or functor of the loop (queueInLoop lines 93-102, doPendingFunctors).   *)
(* Not covered: the loop's own thread queueing before it calls loop(),     *)
(* which line 100 sends no wakeup for and no program here does.            *)
NoLostWakeup ==
    at \in {"constructed", "poll"} /\ pendingFunctors_ # <<>> => WakeupComing

(* The same for the flag that ends the loop (quit, lines 75-78). *)
NoLostQuit == at = "poll" /\ quit_ => WakeupComing

Queue == INSTANCE TaskQueue
           WITH queue <- functors \o pendingFunctors_, done <- ran

(* Tasks run once each and in the order they were queued in, although two  *)
(* vectors, a swap and several threads are involved.                       *)
RunsInOrder == Queue!Spec

(* Every queued functor runs, unless the loop is told to quit. *)
EveryTaskRuns ==
    \A k \in Task :
       k \in queued ~> (\E i \in DOMAIN ran : ran[i] = k) \/ quit_

(* quit() of a loop that runs ends it, even one that is blocked in poll()   *)
(* (lines 76-78).  A quit_ that is set before loop() is cleared by it.     *)
QuitEndsLoop == quit_ /\ at # "constructed" ~> at = "ended"
=============================================================================
