-------------------------- MODULE EventLoopProofs --------------------------
(* Proofs about EventLoop, for any number of threads and tasks, and about  *)
(* TimerQueue on top of it, for any timers, intervals and delays.          *)
EXTENDS TimerQueue, SequenceTheorems, WellFoundedInduction, TLAPS

(* The three flags; apart from the rest of TypeOK, as other provers are    *)
(* needed for them.                                                        *)
FlagsOK ==
    quit_ \in BOOLEAN /\ wakeupActive \in BOOLEAN /\ quitCalled \in BOOLEAN

LEMMA FlagsStep == FlagsOK /\ [Next]_vars => FlagsOK'
<1> SUFFICES ASSUME FlagsOK, [Next]_vars PROVE FlagsOK'
  OBVIOUS
<1> USE DEF FlagsOK
<1>1. ASSUME NEW t \in Thread, CallerStep(t)
      PROVE  FlagsOK'
  BY <1>1 DEF CallerStep, QueueInLoop, Quit, Wakeup, loopVars
<1>2. CASE LoopStep \/ QuitInside
  BY <1>2 DEF LoopStep, StartLoop, PollWakeup, Returns, HandleRead, SwapFunctors,
              RunFunctor, NextRound, QuitInside, loopVars
<1>3. CASE PollOther
  BY <1>3 DEF PollOther, Returns
<1>4. ASSUME NEW k \in Task, HandlerQueues(k) \/ FunctorQueues(k)
      PROVE  FlagsOK'
  BY <1>4 DEF HandlerQueues, FunctorQueues, loopVars
<1>5. CASE UNCHANGED vars
  BY <1>5 DEF vars, loopVars
<1> QED
  BY <1>1, <1>2, <1>3, <1>4, <1>5 DEF Next

QueuesOK ==
    /\ pendingFunctors_ \in Seq(Task)
    /\ functors \in Seq(Task)
    /\ wakeupFd_ \in Nat
    /\ at \in {"constructed", "poll", "handle", "swap", "calling", "ended"}
    /\ caller \in [Thread -> {"out", "wake"}]
    /\ queued \in SUBSET Task
    /\ ran \in Seq(Task)

LEMMA QueuesStep == QueuesOK /\ [Next]_vars => QueuesOK'
<1> SUFFICES ASSUME QueuesOK, [Next]_vars PROVE QueuesOK'
  OBVIOUS
<1> USE DEF QueuesOK
<1>1. ASSUME NEW t \in Thread, NEW k \in Task, QueueInLoop(t, k)
      PROVE  QueuesOK'
  BY <1>1 DEF QueueInLoop, Enqueue, loopVars
<1>2. ASSUME NEW t \in Thread, Quit(t)
      PROVE  QueuesOK'
  BY <1>2 DEF Quit, loopVars
<1>3. ASSUME NEW t \in Thread, Wakeup(t)
      PROVE  QueuesOK'
  BY <1>3 DEF Wakeup, loopVars
<1>4. CASE StartLoop \/ PollWakeup \/ PollOther \/ HandleRead
  BY <1>4 DEF StartLoop, PollWakeup, PollOther, Returns, HandleRead
<1>5. CASE SwapFunctors
  BY <1>5 DEF SwapFunctors
<1>6. CASE RunFunctor
  <2>1. Head(functors) \in Task /\ Tail(functors) \in Seq(Task)
    BY <1>6, HeadTailProperties DEF RunFunctor
  <2>2. Append(ran, Head(functors)) \in Seq(Task)
    BY <2>1, AppendProperties
  <2>3. /\ ran' \in Seq(Task) /\ functors' \in Seq(Task)
        /\ UNCHANGED <<pendingFunctors_, wakeupFd_, at, caller, queued>>
    BY <1>6, <2>1, <2>2 DEF RunFunctor
  <2> QED
    BY <2>3
<1>7. CASE NextRound \/ QuitInside
  BY <1>7 DEF NextRound, QuitInside, loopVars
<1>8. ASSUME NEW k \in Task, HandlerQueues(k) \/ FunctorQueues(k)
      PROVE  QueuesOK'
  <2>1. Append(pendingFunctors_, k) \in Seq(Task)
    BY AppendProperties
  <2>2. CASE HandlerQueues(k)
    BY <2>1, <2>2 DEF HandlerQueues, Enqueue, loopVars
  <2>3. CASE FunctorQueues(k)
    BY <2>1, <2>3 DEF FunctorQueues, Enqueue, loopVars
  <2> QED
    BY <1>8, <2>2, <2>3
<1>9. CASE UNCHANGED vars
  BY <1>9 DEF vars, loopVars
<1> QED
  BY <1>1, <1>2, <1>3, <1>4, <1>5, <1>6, <1>7, <1>8, <1>9
  DEF Next, CallerStep, LoopStep

(* The type invariant of the loop is kept by every step of every thread.   *)
THEOREM TypeCorrect == Spec => []TypeOK
<1>1. Init => FlagsOK
  BY DEF Init, FlagsOK
<1>2. Init => QueuesOK
  BY DEF Init, QueuesOK
<1>3. FlagsOK /\ QueuesOK => TypeOK
  BY DEF FlagsOK, QueuesOK, TypeOK
<1> QED
  BY <1>1, <1>2, <1>3, FlagsStep, QueuesStep, PTL DEF Spec

-----------------------------------------------------------------------------
(* From the swap on, whoever appends to pendingFunctors_ also writes to    *)
(* wakeupFd_ or is about to: nothing empties the eventfd again before the  *)
(* loop polls.                                                             *)
WakeInv ==
    /\ at \in {"constructed", "poll", "calling"} /\ pendingFunctors_ # <<>>
          => WakeupComing
    /\ NoLostQuit

LEMMA WakeStep == TypeOK /\ WakeInv /\ [Next]_vars => WakeInv'
<1> SUFFICES ASSUME TypeOK, WakeInv, [Next]_vars PROVE WakeInv'
  OBVIOUS
<1> USE DEF TypeOK, WakeInv, NoLostQuit, WakeupComing
<1>1. ASSUME NEW t \in Thread, NEW k \in Task, QueueInLoop(t, k)
      PROVE  WakeInv'
  BY <1>1 DEF QueueInLoop, loopVars
<1>2. ASSUME NEW t \in Thread, Quit(t)
      PROVE  WakeInv'
  BY <1>2 DEF Quit, loopVars
<1>3. ASSUME NEW t \in Thread, Wakeup(t)
      PROVE  WakeInv'
  <2>1. wakeupFd_' > 0
    BY <1>3 DEF Wakeup
  <2> QED
    BY <2>1
<1>4. CASE StartLoop
  BY <1>4 DEF StartLoop
<1>5. CASE PollWakeup \/ PollOther \/ HandleRead
  BY <1>5 DEF PollWakeup, PollOther, Returns, HandleRead
<1>6. CASE SwapFunctors
  BY <1>6 DEF SwapFunctors
<1>7. CASE RunFunctor
  BY <1>7 DEF RunFunctor
<1>8. CASE NextRound
  BY <1>8 DEF NextRound
<1>9. CASE QuitInside
  BY <1>9 DEF QuitInside, loopVars
<1>10. ASSUME NEW k \in Task, HandlerQueues(k)
       PROVE  WakeInv'
  BY <1>10 DEF HandlerQueues, loopVars
<1>11. ASSUME NEW k \in Task, FunctorQueues(k)
       PROVE  WakeInv'
  <2>1. wakeupFd_' > 0
    BY <1>11 DEF FunctorQueues
  <2> QED
    BY <2>1
<1>12. CASE UNCHANGED vars
  BY <1>12 DEF vars, loopVars
<1> QED
  BY <1>1, <1>2, <1>3, <1>4, <1>5, <1>6, <1>7, <1>8, <1>9, <1>10, <1>11, <1>12
  DEF Next, CallerStep, LoopStep

(* The loop never blocks in poll() on a functor nobody will wake it up     *)
(* for: queueInLoop and doPendingFunctors lose no wakeup, for functors of  *)
(* other threads and for those queued while the loop handles or runs.      *)
THEOREM NeverLosesWakeup == Spec => []NoLostWakeup
<1>1. Init => WakeInv
  BY DEF Init, WakeInv, NoLostQuit
<1>2. WakeInv => NoLostWakeup
  BY DEF WakeInv, NoLostWakeup
<1> QED
  BY <1>1, <1>2, TypeCorrect, WakeStep, PTL DEF Spec

(* Nor does it block in poll() on a quit_ nobody will wake it up for.      *)
THEOREM NeverLosesQuit == Spec => []NoLostQuit
<1>1. Init => WakeInv
  BY DEF Init, WakeInv, NoLostQuit
<1>2. WakeInv => NoLostQuit
  BY DEF WakeInv
<1> QED
  BY <1>1, <1>2, TypeCorrect, WakeStep, PTL DEF Spec

-----------------------------------------------------------------------------
(* Refinement of TaskQueue.                                                *)

(* Tasks in the two vectors or in the history were queued once, and the    *)
(* swapped-out vector is empty except while it is being run.               *)
OrderInv ==
    /\ \A i \in DOMAIN pendingFunctors_ : pendingFunctors_[i] \in queued
    /\ \A i \in DOMAIN functors : functors[i] \in queued
    /\ \A i \in DOMAIN ran : ran[i] \in queued
    /\ at # "calling" => functors = <<>>

(* Taking the head of a concatenation takes the head of its first part.    *)
LEMMA HeadTailConcat ==
    ASSUME NEW S, NEW s \in Seq(S), NEW t \in Seq(S), s # <<>>
    PROVE  /\ s \o t # <<>>
           /\ Head(s \o t) = Head(s)
           /\ Tail(s \o t) = Tail(s) \o t
<1>1. /\ s \o t \in Seq(S) /\ Len(s \o t) = Len(s) + Len(t)
      /\ Len(s) \in Nat \ {0} /\ Len(t) \in Nat
  BY ConcatProperties, EmptySeq, LenProperties
<1>2. s \o t # <<>>
  BY <1>1
<1>3. Head(s \o t) = Head(s)
  BY <1>1, <1>2, ConcatProperties
<1>4. /\ Tail(s \o t) \in Seq(S) /\ Len(Tail(s \o t)) = Len(s) + Len(t) - 1
      /\ Tail(s) \in Seq(S) /\ Len(Tail(s)) = Len(s) - 1
      /\ Tail(s) \o t \in Seq(S)
      /\ Len(Tail(s) \o t) = Len(s) + Len(t) - 1
  BY <1>1, <1>2, HeadTailProperties, ConcatProperties
<1>5. ASSUME NEW i \in 1..(Len(s) + Len(t) - 1)
      PROVE  Tail(s \o t)[i] = (Tail(s) \o t)[i]
  <2>1. Tail(s \o t)[i] = (s \o t)[i + 1]
    BY <1>1, <1>2, <1>4, HeadTailProperties
  <2>2. (s \o t)[i + 1] = IF i + 1 <= Len(s) THEN s[i + 1] ELSE t[i + 1 - Len(s)]
    BY <1>1, ConcatProperties
  <2>3. (Tail(s) \o t)[i] = IF i <= Len(s) - 1 THEN Tail(s)[i]
                                               ELSE t[i - (Len(s) - 1)]
    BY <1>1, <1>4, ConcatProperties
  <2>4. i <= Len(s) - 1 => Tail(s)[i] = s[i + 1]
    BY <1>1, <1>4, HeadTailProperties
  <2> QED
    BY <1>1, <2>1, <2>2, <2>3, <2>4
<1>6. Tail(s \o t) = Tail(s) \o t
  BY <1>1, <1>4, <1>5, SeqEqual
<1> QED
  BY <1>2, <1>3, <1>6

LEMMA OrderStep == QueuesOK /\ OrderInv /\ [Next]_vars => OrderInv'
<1> SUFFICES ASSUME QueuesOK, OrderInv, [Next]_vars PROVE OrderInv'
  OBVIOUS
<1> USE DEF QueuesOK, OrderInv
<1>1. ASSUME NEW k \in Task, Enqueue(k)
      PROVE  /\ queued \subseteq queued'
             /\ \A i \in DOMAIN pendingFunctors_' : pendingFunctors_'[i] \in queued'
  <2>1. queued' = queued \cup {k} /\ pendingFunctors_' = Append(pendingFunctors_, k)
    BY <1>1 DEF Enqueue
  <2>2. /\ DOMAIN pendingFunctors_' = 1..(Len(pendingFunctors_) + 1)
        /\ \A i \in 1..Len(pendingFunctors_) :
             pendingFunctors_'[i] = pendingFunctors_[i]
        /\ pendingFunctors_'[Len(pendingFunctors_) + 1] = k
    BY <2>1, AppendProperties, LenProperties
  <2>3. DOMAIN pendingFunctors_ = 1..Len(pendingFunctors_)
    BY LenProperties
  <2> QED
    BY <2>1, <2>2, <2>3
<1>2. ASSUME NEW t \in Thread, NEW k \in Task, QueueInLoop(t, k)
      PROVE  OrderInv'
  BY <1>1, <1>2 DEF QueueInLoop, loopVars
<1>3. ASSUME NEW k \in Task, HandlerQueues(k) \/ FunctorQueues(k)
      PROVE  OrderInv'
  BY <1>1, <1>3 DEF HandlerQueues, FunctorQueues, loopVars
<1>4. ASSUME NEW t \in Thread, Quit(t) \/ Wakeup(t)
      PROVE  OrderInv'
  BY <1>4 DEF Quit, Wakeup, loopVars
<1>5. CASE StartLoop \/ PollWakeup \/ PollOther \/ HandleRead
  BY <1>5 DEF StartLoop, PollWakeup, PollOther, Returns, HandleRead
<1>6. CASE SwapFunctors
  BY <1>6 DEF SwapFunctors
<1>7. CASE RunFunctor
  <2>1. /\ functors # <<>> /\ at = "calling"
        /\ ran' = Append(ran, Head(functors))
        /\ functors' = Tail(functors)
        /\ UNCHANGED <<pendingFunctors_, at, queued>>
    BY <1>7 DEF RunFunctor
  <2>2. Head(functors) = functors[1] /\ 1 \in DOMAIN functors
    BY <2>1, EmptySeq, LenProperties
  <2>3. \A i \in DOMAIN functors' : i + 1 \in DOMAIN functors
                                   /\ functors'[i] = functors[i + 1]
    BY <2>1, HeadTailProperties, LenProperties
  <2>4. /\ DOMAIN ran' = 1..(Len(ran) + 1) /\ DOMAIN ran = 1..Len(ran)
        /\ \A i \in 1..Len(ran) : ran'[i] = ran[i]
        /\ ran'[Len(ran) + 1] = Head(functors)
    BY <2>1, <2>2, AppendProperties, LenProperties
  <2> QED
    BY <2>1, <2>2, <2>3, <2>4
<1>8. CASE NextRound \/ QuitInside
  BY <1>8 DEF NextRound, QuitInside, loopVars
<1>9. CASE UNCHANGED vars
  BY <1>9 DEF vars, loopVars
<1> QED
  BY <1>2, <1>3, <1>4, <1>5, <1>6, <1>7, <1>8, <1>9
  DEF Next, CallerStep, LoopStep

(* Handing in a task is a Submit of the abstract queue, wherever in the    *)
(* round the loop is.                                                      *)
LEMMA EnqueueSubmits ==
    ASSUME QueuesOK, OrderInv, NEW k \in Task, Enqueue(k),
           UNCHANGED <<functors, ran>>
    PROVE  Queue!Submit(k)
<1> USE DEF QueuesOK, OrderInv
<1>1. /\ k \notin queued
      /\ pendingFunctors_' = Append(pendingFunctors_, k)
  BY DEF Enqueue
<1>2. \A i \in DOMAIN ran : ran[i] # k
  BY <1>1
<1>3. \A i \in DOMAIN (functors \o pendingFunctors_) :
         (functors \o pendingFunctors_)[i] # k
  <2>1. /\ DOMAIN (functors \o pendingFunctors_) =
              1..(Len(functors) + Len(pendingFunctors_))
        /\ DOMAIN functors = 1..Len(functors)
        /\ DOMAIN pendingFunctors_ = 1..Len(pendingFunctors_)
        /\ Len(functors) \in Nat /\ Len(pendingFunctors_) \in Nat
    BY ConcatProperties, LenProperties
  <2>2. \A i \in 1..(Len(functors) + Len(pendingFunctors_)) :
          (functors \o pendingFunctors_)[i] =
             IF i <= Len(functors) THEN functors[i]
                                   ELSE pendingFunctors_[i - Len(functors)]
    BY ConcatProperties
  <2> QED
    BY <1>1, <2>1, <2>2
<1>4. functors' \o pendingFunctors_' = Append(functors \o pendingFunctors_, k)
  <2>1. Append(pendingFunctors_, k) = pendingFunctors_ \o <<k>>
    BY AppendIsConcat
  <2>2. functors \o pendingFunctors_ \in Seq(Task) /\ <<k>> \in Seq(Task)
    BY ConcatProperties
  <2>3. Append(functors \o pendingFunctors_, k)
           = (functors \o pendingFunctors_) \o <<k>>
    BY <2>2, AppendIsConcat
  <2>4. (functors \o pendingFunctors_) \o <<k>>
           = functors \o (pendingFunctors_ \o <<k>>)
    BY <2>2, ConcatAssociative
  <2> QED
    BY <1>1, <2>1, <2>3, <2>4
<1> QED
  BY <1>2, <1>3, <1>4 DEF Queue!Submit

LEMMA RefinesStep ==
    QueuesOK /\ OrderInv /\ [Next]_vars
       => [Queue!Next]_<<functors \o pendingFunctors_, ran>>
<1> SUFFICES ASSUME QueuesOK, OrderInv, [Next]_vars
             PROVE  \/ Queue!Next
                    \/ UNCHANGED <<functors \o pendingFunctors_, ran>>
  OBVIOUS
<1> USE DEF QueuesOK, OrderInv
<1>1. ASSUME NEW k \in Task, Enqueue(k), UNCHANGED <<functors, ran>>
      PROVE  Queue!Next
  BY <1>1, EnqueueSubmits DEF Queue!Next
<1>2. ASSUME NEW t \in Thread, NEW k \in Task, QueueInLoop(t, k)
      PROVE  Queue!Next
  BY <1>1, <1>2 DEF QueueInLoop, loopVars
<1>3. ASSUME NEW k \in Task, HandlerQueues(k) \/ FunctorQueues(k)
      PROVE  Queue!Next
  BY <1>1, <1>3 DEF HandlerQueues, FunctorQueues, loopVars
<1>4. CASE SwapFunctors
  <2>1. functors = <<>> /\ functors' = pendingFunctors_ /\ pendingFunctors_' = <<>>
        /\ ran' = ran
    BY <1>4 DEF SwapFunctors
  <2> QED
    BY <2>1, ConcatEmptySeq
<1>5. CASE RunFunctor
  <2>1. functors # <<>> /\ functors' = Tail(functors)
        /\ ran' = Append(ran, Head(functors))
        /\ pendingFunctors_' = pendingFunctors_
    BY <1>5 DEF RunFunctor
  <2> QED
    BY <2>1, HeadTailConcat DEF Queue!Next, Queue!RunNext
<1>6. ASSUME UNCHANGED <<functors, pendingFunctors_, ran>>
      PROVE  UNCHANGED <<functors \o pendingFunctors_, ran>>
  BY <1>6
<1>7. CASE StartLoop \/ PollWakeup \/ PollOther \/ HandleRead
  BY <1>6, <1>7 DEF StartLoop, PollWakeup, PollOther, Returns, HandleRead
<1>8. ASSUME NEW t \in Thread, Quit(t) \/ Wakeup(t)
      PROVE  UNCHANGED <<functors \o pendingFunctors_, ran>>
  BY <1>6, <1>8 DEF Quit, Wakeup, loopVars
<1>9. CASE NextRound \/ QuitInside \/ UNCHANGED vars
  BY <1>6, <1>9 DEF NextRound, QuitInside, vars, loopVars
<1> QED
  BY <1>2, <1>3, <1>4, <1>5, <1>7, <1>8, <1>9
  DEF Next, CallerStep, LoopStep

(* EventLoop implements TaskQueue: the tasks handed to queueInLoop run     *)
(* once each, in the order of their critical sections.                     *)
THEOREM ImplementsTaskQueue == Spec => RunsInOrder
<1>1. Init => QueuesOK /\ OrderInv
  BY DEF Init, QueuesOK, OrderInv
<1>2. Init => Queue!Init
  BY ConcatEmptySeq DEF Init, Queue!Init
<1> QED
  BY <1>1, <1>2, QueuesStep, OrderStep, RefinesStep, PTL
  DEF Spec, RunsInOrder, Queue!Spec

-----------------------------------------------------------------------------
(* The loop with its timers is the loop: all that is proved of EventLoop   *)
(* holds of it, whatever timers are added and run.                         *)
THEOREM ImplementsLoop == TSpec => Spec
<1>1. TInit => Init
  BY DEF TInit
<1>2. [TNext]_tvars => [Next]_vars
  <2> SUFFICES ASSUME [TNext]_tvars PROVE Next \/ UNCHANGED vars
    BY DEF vars
  <2>1. CASE PlainLoopStep
    BY <2>1 DEF PlainLoopStep, Next, LoopStep
  <2>2. CASE PollReturns(PollWakeup) \/ PollReturns(PollOther)
    BY <2>2 DEF PollReturns, Next, LoopStep
  <2>3. CASE PollReturns(PollTimer)
    BY <2>3 DEF PollReturns, PollTimer, PollOther, Next
  <2>4. CASE RunLoopFunctor
    BY <2>4 DEF RunLoopFunctor, Next, LoopStep
  <2>5. CASE HandleTimer \/ Reset \/ Tick
    BY <2>5 DEF HandleTimer, Reset, Tick
  <2>6. ASSUME NEW k \in Timer, RunTimer(k) \/ AddTimerInside(k)
        PROVE  UNCHANGED vars
    BY <2>6 DEF RunTimer, AddTimerInside
  <2>7. CASE PlainCallerStep
    BY <2>7 DEF PlainCallerStep, Next, CallerStep
  <2>8. ASSUME NEW t \in Thread, WakeupStep(t)
        PROVE  Next
    BY <2>8 DEF WakeupStep, Next, CallerStep
  <2>9. ASSUME NEW t \in Thread, NEW k \in Timer, AddTimer(t, k)
        PROVE  Next
    BY <2>9, TimerAssumption DEF AddTimer, Next, CallerStep
  <2>10. CASE UNCHANGED tvars
    BY <2>10 DEF tvars
  <2> QED
    BY <2>1, <2>2, <2>3, <2>4, <2>5, <2>6, <2>7, <2>8, <2>9, <2>10
       DEF TNext, TLoopStep
<1> QED
  BY <1>1, <1>2, PTL DEF TSpec, Spec
-----------------------------------------------------------------------------
(* A nonempty set of moments has a first one.                              *)
LEMMA LeastMoment ==
    ASSUME NEW S \in SUBSET Nat, S # {}
    PROVE  \E x \in S : \A y \in S : x <= y
<1> DEFINE R == {p \in Nat \X Nat : p[1] < p[2]}
<1>1. R = OpToRel(<, Nat)
  BY Zenon DEF OpToRel
<1>2. IsWellFoundedOn(R, Nat)
  BY <1>1, NatLessThanWellFounded
<1>3. S \subseteq Nat
  OBVIOUS
<1>4. \E x \in S : \A y \in S : ~(<<y, x>> \in R)
  <2> HIDE DEF R
  <2> QED
    BY <1>2, <1>3, WFMin, Zenon
<1>5. ASSUME NEW x \in S, NEW y \in S, ~(<<y, x>> \in R)
      PROVE  x <= y
  <2>1. <<y, x>> \in Nat \X Nat
    BY <1>3
  <2>2. ~(<<y, x>>[1] < <<y, x>>[2])
    BY <1>5, <2>1
  <2> QED
    BY <1>3, <2>2
<1> QED
  BY <1>4, <1>5

(* The types of what TimerQueue adds to EventLoop *)
TimerTypes ==
    /\ now \in 1..(MaxTime + 1)
    /\ expiration_ \in [Timer -> Nat]
    /\ timers_ \in SUBSET Timer
    /\ alarm \in Nat
    /\ handling \in {"no", "active", "running"}
    /\ expired \in SUBSET Timer
    /\ toReset \in SUBSET Timer
    /\ fired \in [Timer -> Nat]

Covered == \A k \in timers_ : alarm # 0 /\ (alarm <= now \/ alarm <= expiration_[k])

(* The alarm covers the queue except while handleRead runs callbacks, which *)
(* is over before the loop polls again.                                    *)
AlarmInv ==
    /\ TimerTypes
    /\ at \in {"constructed", "poll", "handle", "swap", "calling", "ended"}
    /\ at # "handle" => handling = "no"
    /\ handling # "running" => Covered

(* What Reset chooses is the moment of the first timer in the queue.       *)
LEMMA FirstIsLeast ==
    ASSUME timers_' \in SUBSET Timer, expiration_' \in [Timer -> Nat],
           timers_' # {}
    PROVE  First \in Nat /\ \A k \in timers_' : First <= expiration_'[k]
<1> DEFINE S == {expiration_'[k] : k \in timers_'}
<1>1. S \in SUBSET Nat /\ S # {}
  OBVIOUS
<1>2. \E w \in S : \A k \in timers_' : w <= expiration_'[k]
  <2> HIDE DEF S
  <2>1. PICK w \in S : \A y \in S : w <= y
    BY <1>1, LeastMoment
  <2> QED
    BY <2>1 DEF S
<1>3. First \in S /\ \A k \in timers_' : First <= expiration_'[k]
  BY <1>2 DEF First
<1> QED
  BY <1>1, <1>3

LEMMA AlarmInit == TInit => AlarmInv
  BY TimerAssumption DEF TInit, Init, AlarmInv, TimerTypes, Covered

(* A timer that joins the queue is covered, and so are those in it.        *)
LEMMA AddCovers ==
    ASSUME TimerTypes, NEW k \in Timer, NEW when \in Nat,
           AddTimerInLoop(k, when), now' = now,
           expiration_' \in [Timer -> Nat], expiration_'[k] = when,
           \A j \in Timer : expiration_[j] <= expiration_'[j]
    PROVE  /\ timers_' \in SUBSET Timer /\ alarm' \in Nat
           /\ Covered => Covered'
<1> USE DEF TimerTypes, AddTimerInLoop, ResetTimerfd, EarliestChanged
<1>1. timers_' \in SUBSET Timer /\ alarm' \in Nat
  OBVIOUS
<1>2. ASSUME Covered, NEW j \in timers_'
      PROVE  alarm' # 0 /\ (alarm' <= now' \/ alarm' <= expiration_'[j])
  <2>1. CASE EarliestChanged(when)
    <3>1. when <= expiration_'[j]
      <4>1. CASE j = k
        BY <4>1
      <4>2. CASE j \in timers_
        BY <4>2, <2>1
      <4> QED
        BY <4>1, <4>2
    <3> QED
      BY <3>1, <2>1
  <2>2. CASE ~EarliestChanged(when)
    <3>1. PICK i \in timers_ : expiration_[i] <= when
      BY <2>2
    <3>2. alarm # 0 /\ (alarm <= now \/ alarm <= when)
      BY <3>1, <1>2 DEF Covered
    <3>3. CASE j = k
      BY <2>2, <3>2, <3>3
    <3>4. CASE j \in timers_
      BY <2>2, <1>2, <3>4 DEF Covered
    <3> QED
      BY <3>3, <3>4
  <2> QED
    BY <2>1, <2>2
<1> QED
  BY <1>1, <1>2 DEF Covered

LEMMA AlarmStep == TypeOK /\ AlarmInv /\ [TNext]_tvars => AlarmInv'
<1> SUFFICES ASSUME TypeOK, AlarmInv, [TNext]_tvars PROVE AlarmInv'
  OBVIOUS
<1> USE TimerAssumption DEF AlarmInv, TimerTypes
<1>1. CASE PlainLoopStep
  BY <1>1 DEF PlainLoopStep, StartLoop, SwapFunctors, NextRound, HandleRead,
              timerVars, Covered
<1>2. CASE PollReturns(PollWakeup) \/ PollReturns(PollTimer) \/ PollReturns(PollOther)
  BY <1>2 DEF PollReturns, PollWakeup, PollTimer, PollOther, Returns, Covered
<1>3. CASE RunLoopFunctor
  <2>1. CASE Head(functors) \in Timer
    <3> DEFINE k == Head(functors)
    <3>1. AddTimerInLoop(k, expiration_[k])
      BY <1>3, <2>1 DEF RunLoopFunctor
    <3>2. /\ UNCHANGED <<now, expiration_, handling, expired, toReset, fired, at>>
          /\ at = "calling"
      BY <1>3 DEF RunLoopFunctor, RunFunctor
    <3>3. timers_' \in SUBSET Timer /\ alarm' \in Nat /\ (Covered => Covered')
      BY <2>1, <3>1, <3>2, AddCovers
    <3> QED
      BY <3>2, <3>3
  <2>2. CASE Head(functors) \notin Timer
    BY <1>3, <2>2 DEF RunLoopFunctor, RunFunctor, Covered
  <2> QED
    BY <2>1, <2>2
<1>4. CASE HandleTimer
  BY <1>4 DEF HandleTimer, GetExpired, vars, loopVars, Covered
<1>5. CASE Reset
  <2>1. /\ UNCHANGED <<now, at, expired, fired>>
        /\ expiration_' \in [Timer -> Nat]
        /\ timers_' \in SUBSET Timer
        /\ toReset' = {} /\ handling' = "no"
    BY <1>5 DEF Reset, Again, vars, loopVars
  <2>2. CASE timers_' = {}
    <3>1. alarm' = alarm
      BY <1>5, <2>2 DEF Reset
    <3> QED
      BY <2>1, <2>2, <3>1 DEF Covered
  <2>3. CASE timers_' # {}
    <3>1. ResetTimerfd(First)
      BY <1>5, <2>3 DEF Reset
    <3>2. First \in Nat /\ \A k \in timers_' : First <= expiration_'[k]
      BY <2>1, <2>3, FirstIsLeast
    <3>3. alarm' \in Nat /\ Covered'
      BY <2>1, <3>1, <3>2 DEF ResetTimerfd, Covered
    <3> QED
      BY <2>1, <3>3
  <2> QED
    BY <2>2, <2>3
<1>6. ASSUME NEW k \in Timer, RunTimer(k)
      PROVE  AlarmInv'
  BY <1>6 DEF RunTimer, vars, loopVars, Covered
<1>7. CASE PlainCallerStep
  BY <1>7 DEF PlainCallerStep, QuitInside, HandlerQueues, FunctorQueues, Quit,
              QueueInLoop, timerVars, loopVars, Covered
<1>8. ASSUME NEW t \in Thread, WakeupStep(t)
      PROVE  AlarmInv'
  BY <1>8 DEF WakeupStep, Wakeup, timerVars, loopVars, Covered
<1>9. ASSUME NEW t \in Thread, NEW k \in Timer, AddTimer(t, k)
      PROVE  AlarmInv'
  <2>1. /\ UNCHANGED <<now, at, timers_, alarm, handling, expired, toReset, fired>>
        /\ expiration_' \in [Timer -> Nat]
        /\ \A j \in Timer : expiration_[j] <= expiration_'[j]
    BY <1>9 DEF AddTimer, NewTimer, QueueInLoop, loopVars
  <2> QED
    BY <2>1 DEF Covered
<1>10. ASSUME NEW k \in Timer, AddTimerInside(k)
       PROVE  AlarmInv'
  <2>1. /\ UNCHANGED <<now, at, handling, expired, toReset, fired>>
        /\ expiration_' \in [Timer -> Nat]
        /\ \A j \in Timer : expiration_[j] <= expiration_'[j]
        /\ AddTimerInLoop(k, expiration_'[k])
        /\ at = "handle"
    BY <1>10 DEF AddTimerInside, NewTimer, vars, loopVars
  <2>2. timers_' \in SUBSET Timer /\ alarm' \in Nat /\ (Covered => Covered')
    BY <2>1, AddCovers
  <2> QED
    BY <2>1, <2>2
<1>11. CASE Tick
  BY <1>11 DEF Tick, vars, loopVars, timerVars, Covered
<1>12. CASE UNCHANGED tvars
  BY <1>12 DEF tvars, vars, loopVars, timerVars, Covered
<1> QED
  BY <1>1, <1>2, <1>3, <1>4, <1>5, <1>6, <1>7, <1>8, <1>9, <1>10, <1>11, <1>12
     DEF TNext, TLoopStep

LEMMA AlarmAlways == TSpec => []AlarmInv
<1>1. Spec => []TypeOK
  BY TypeCorrect
<1> QED
  BY <1>1, ImplementsLoop, AlarmInit, AlarmStep, PTL DEF TSpec

(* Every variable of the loop and of its timers keeps its type, and the    *)
(* queue only ever holds timers that exist (addTimerInLoop, getExpired,    *)
(* reset).                                                                 *)
THEOREM TimerTypeCorrect == TSpec => []TTypeOK
<1>1. TypeOK /\ AlarmInv => TTypeOK
  BY DEF AlarmInv, TimerTypes, TTypeOK
<1>2. Spec => []TypeOK
  BY TypeCorrect
<1> QED
  BY <1>1, <1>2, ImplementsLoop, AlarmAlways, PTL

(* However many timers there are, and whichever of the three ways they are *)
(* added: the loop never polls with an alarm that is later than the first  *)
(* timer of the queue (addTimerInLoop, reset).                             *)
THEOREM NeverSleepsPastTimer == TSpec => []AlarmSet
<1>1. AlarmInv => AlarmSet
  BY DEF AlarmInv, AlarmSet, Covered
<1> QED
  BY <1>1, AlarmAlways, PTL
-----------------------------------------------------------------------------
(* No callback runs before its time.                                       *)

Waits(k) ==
    \/ \E i \in DOMAIN pendingFunctors_ : pendingFunctors_[i] = k
    \/ \E i \in DOMAIN functors : functors[i] = k

(* No functor is in the two vectors twice.                                 *)
OnceInv ==
    /\ \A i, j \in DOMAIN pendingFunctors_ :
          pendingFunctors_[i] = pendingFunctors_[j] => i = j
    /\ \A i, j \in DOMAIN functors : functors[i] = functors[j] => i = j
    /\ \A i \in DOMAIN functors, j \in DOMAIN pendingFunctors_ :
          functors[i] # pendingFunctors_[j]

LEMMA EnqueueOnce ==
    ASSUME QueuesOK, OrderInv, OnceInv, NEW k \in Task, Enqueue(k),
           functors' = functors
    PROVE  OnceInv' /\ \A j : Waits(j)' => Waits(j) \/ j = k
<1> USE DEF QueuesOK
<1>1. k \notin queued /\ pendingFunctors_' = Append(pendingFunctors_, k)
  BY DEF Enqueue
<1> DEFINE n == Len(pendingFunctors_)
<1>2. /\ n \in Nat
      /\ DOMAIN pendingFunctors_ = 1..n
      /\ DOMAIN pendingFunctors_' = 1..(n + 1)
      /\ \A i \in 1..n : pendingFunctors_'[i] = pendingFunctors_[i]
      /\ pendingFunctors_'[n + 1] = k
  BY <1>1, AppendProperties, LenProperties
<1>3. \A i \in 1..n : pendingFunctors_[i] # k
  BY <1>1, <1>2 DEF OrderInv
<1>4. \A i \in DOMAIN functors : functors[i] # k
  BY <1>1 DEF OrderInv
<1> HIDE DEF n
<1>5. OnceInv'
  <2>1. \A i, j \in 1..(n + 1) :
           pendingFunctors_'[i] = pendingFunctors_'[j] => i = j
    <3> SUFFICES ASSUME NEW i \in 1..(n + 1), NEW j \in 1..(n + 1),
                        pendingFunctors_'[i] = pendingFunctors_'[j]
                 PROVE  i = j
      OBVIOUS
    <3>1. CASE i \in 1..n /\ j \in 1..n
      BY <1>2, <3>1 DEF OnceInv
    <3>2. CASE ~(i \in 1..n /\ j \in 1..n)
      BY <1>2, <1>3, <3>2
    <3> QED
      BY <3>1, <3>2
  <2>2. \A i \in DOMAIN functors, j \in 1..(n + 1) :
           functors[i] # pendingFunctors_'[j]
    <3> SUFFICES ASSUME NEW i \in DOMAIN functors, NEW j \in 1..(n + 1)
                 PROVE  functors[i] # pendingFunctors_'[j]
      OBVIOUS
    <3>1. CASE j = n + 1
      BY <1>2, <1>4, <3>1
    <3>2. CASE j \in 1..n
      BY <1>2, <3>2 DEF OnceInv
    <3> QED
      BY <1>2, <3>1, <3>2
  <2> QED
    BY <1>2, <2>1, <2>2 DEF OnceInv
<1>6. ASSUME NEW j, Waits(j)'
      PROVE  Waits(j) \/ j = k
  BY <1>2, <1>6 DEF Waits
<1> QED
  BY <1>5, <1>6

LEMMA SwapOnce ==
    ASSUME QueuesOK, OnceInv, SwapFunctors
    PROVE  OnceInv' /\ \A j : Waits(j)' => Waits(j)
<1>1. functors' = pendingFunctors_ /\ pendingFunctors_' = <<>>
  BY DEF SwapFunctors
<1>2. DOMAIN pendingFunctors_' = {}
  BY <1>1
<1> QED
  BY <1>1, <1>2 DEF OnceInv, Waits

LEMMA RunOnce ==
    ASSUME QueuesOK, OnceInv, RunFunctor
    PROVE  /\ OnceInv' /\ \A j : Waits(j)' => Waits(j)
           /\ Waits(Head(functors)) /\ ~(\E j : j = Head(functors) /\ Waits(j)')
<1> USE DEF QueuesOK
<1>1. /\ functors # <<>> /\ functors' = Tail(functors)
      /\ pendingFunctors_' = pendingFunctors_
  BY DEF RunFunctor
<1> DEFINE n == Len(functors)
<1>2. /\ n \in Nat \ {0}
      /\ DOMAIN functors = 1..n
      /\ Head(functors) = functors[1]
      /\ DOMAIN functors' = 1..(n - 1)
      /\ \A i \in 1..(n - 1) : functors'[i] = functors[i + 1]
  BY <1>1, EmptySeq, LenProperties, HeadTailProperties
<1> HIDE DEF n
<1>3. OnceInv'
  <2>1. \A i, j \in DOMAIN functors' : functors'[i] = functors'[j] => i = j
    <3> SUFFICES ASSUME NEW i \in 1..(n - 1), NEW j \in 1..(n - 1),
                        functors'[i] = functors'[j]
                 PROVE  i = j
      BY <1>2
    <3>1. i + 1 \in DOMAIN functors /\ j + 1 \in DOMAIN functors
      BY <1>2
    <3>2. functors[i + 1] = functors[j + 1]
      BY <1>2
    <3>3. i + 1 = j + 1
      BY <3>1, <3>2 DEF OnceInv
    <3> QED
      BY <3>3
  <2>2. \A i \in DOMAIN functors' : i + 1 \in DOMAIN functors
    BY <1>2
  <2>3. \A i \in DOMAIN functors', j \in DOMAIN pendingFunctors_ :
           functors'[i] # pendingFunctors_[j]
    BY <1>2, <2>2 DEF OnceInv
  <2> QED
    BY <1>1, <2>1, <2>3 DEF OnceInv
<1>4. ASSUME NEW j, Waits(j)'
      PROVE  Waits(j)
  BY <1>1, <1>2, <1>4 DEF Waits
<1>5. Waits(Head(functors))
  BY <1>2 DEF Waits
<1>6. ASSUME NEW j, j = Head(functors), Waits(j)'
      PROVE  FALSE
  <2>1. 1 \in DOMAIN functors /\ j = functors[1]
    BY <1>2, <1>6
  <2>2. ASSUME NEW i \in DOMAIN functors', functors'[i] = j
        PROVE  FALSE
    <3>1. i + 1 \in DOMAIN functors /\ functors[i + 1] = j
      BY <1>2, <2>2
    <3>2. i + 1 = 1
      BY <2>1, <3>1 DEF OnceInv
    <3> QED
      BY <1>2, <3>2
  <2>3. ASSUME NEW i \in DOMAIN pendingFunctors_, pendingFunctors_[i] = j
        PROVE  FALSE
    BY <2>1, <2>3 DEF OnceInv
  <2> QED
    BY <1>1, <1>6, <2>2, <2>3 DEF Waits
<1> QED
  BY <1>3, <1>4, <1>5, <1>6

LEMMA SameQueuesOnce ==
    ASSUME UNCHANGED <<pendingFunctors_, functors>>
    PROVE  (OnceInv => OnceInv') /\ \A j : Waits(j)' => Waits(j)
BY DEF OnceInv, Waits

LEMMA OnceStep ==
    QueuesOK /\ OrderInv /\ OnceInv /\ [Next]_vars => OnceInv'
<1> SUFFICES ASSUME QueuesOK, OrderInv, OnceInv, [Next]_vars PROVE OnceInv'
  OBVIOUS
<1>1. ASSUME NEW t \in Thread, NEW k \in Task, QueueInLoop(t, k)
      PROVE  OnceInv'
  BY <1>1, EnqueueOnce DEF QueueInLoop, loopVars
<1>2. ASSUME NEW k \in Task, HandlerQueues(k) \/ FunctorQueues(k)
      PROVE  OnceInv'
  BY <1>2, EnqueueOnce DEF HandlerQueues, FunctorQueues, loopVars
<1>3. CASE SwapFunctors
  BY <1>3, SwapOnce
<1>4. CASE RunFunctor
  BY <1>4, RunOnce
<1>5. ASSUME NEW t \in Thread, Quit(t) \/ Wakeup(t)
      PROVE  OnceInv'
  BY <1>5, SameQueuesOnce DEF Quit, Wakeup, loopVars
<1>6. CASE StartLoop \/ PollWakeup \/ PollOther \/ HandleRead \/ NextRound \/ QuitInside
  BY <1>6, SameQueuesOnce DEF StartLoop, PollWakeup, PollOther, Returns,
     HandleRead, NextRound, QuitInside, loopVars
<1>7. CASE UNCHANGED vars
  BY <1>7, SameQueuesOnce DEF vars, loopVars
<1> QED
  BY <1>1, <1>2, <1>3, <1>4, <1>5, <1>6, <1>7 DEF Next, CallerStep, LoopStep

(* The time that n callbacks of a repeating timer take at least            *)
Span(k, n) == n * Period[k]

LEMMA SpanGrows ==
    ASSUME NEW k \in Timer, NEW n \in Nat
    PROVE  /\ Span(k, n) \in Nat /\ Span(k, 0) = 0
           /\ Span(k, n + 1) = Span(k, n) + Period[k]
<1> DEFINE p == Period[k]
<1>1. p \in Nat
  BY TimerAssumption
<1> HIDE DEF p
<1>2. n * p \in Nat /\ 0 * p = 0 /\ (n + 1) * p = n * p + p
  BY <1>1
<1> QED
  BY <1>2 DEF Span, p

(* A timer is in one place at a time: with the functors, in the queue,     *)
(* among the expired, or among those that have run.                        *)
Unused(k) == k \notin timers_ /\ k \notin expired /\ k \notin toReset /\ fired[k] = 0

TimeInv(k) ==
    /\ expiration_[k] = 0 => Unused(k) /\ ~Waits(k)
    /\ Waits(k) => Unused(k) /\ Period[k] < expiration_[k]
    /\ k \in timers_ \cup expired =>
          IF Period[k] = 0 THEN fired[k] = 0
          ELSE Span(k, fired[k] + 1) < expiration_[k]
    /\ k \in timers_ => k \notin expired
    /\ k \in expired => expiration_[k] <= now
    /\ k \in toReset =>
          /\ k \notin timers_ /\ k \notin expired
          /\ Period[k] > 0 => Span(k, fired[k]) < now

LEMMA TimeInit == TInit => OnceInv /\ \A k \in Timer : TimeInv(k)
  BY DEF TInit, Init, OnceInv, TimeInv, Unused, Waits

(* Steps that leave the timers and the clock alone *)
LEMMA TimeSame ==
    ASSUME NEW k \in Timer, TimeInv(k), Waits(k)' => Waits(k),
           UNCHANGED <<now, timerVars>>
    PROVE  TimeInv(k)'
BY DEF TimeInv, Unused, timerVars
(* A timer that joins the queue was nowhere before.                        *)
LEMMA TimeAdd ==
    ASSUME TimerTypes, NEW k \in Timer, NEW j \in Timer, NEW when \in Nat,
           TimeInv(j), AddTimerInLoop(k, when),
           Unused(k), Period[k] < when, expiration_'[k] = when,
           j # k => expiration_'[j] = expiration_[j],
           Waits(j)' => Waits(j), j = k => ~Waits(j)',
           UNCHANGED <<now, expired, toReset, fired>>
    PROVE  TimeInv(j)'
<1>1. timers_' = timers_ \cup {k}
  BY DEF AddTimerInLoop
<1>2. Period[k] \in Nat
  BY TimerAssumption
<1>3. CASE j = k
  <2>1. Period[k] # 0 => Span(k, fired'[k] + 1) < when
    <3>1. fired'[k] = 0 /\ Span(k, 0 + 1) = Period[k]
      BY <1>2, SpanGrows DEF Unused
    <3> QED
      BY <3>1
  <2> QED
    BY <1>1, <1>2, <1>3, <2>1 DEF TimeInv, Unused
<1>4. CASE j # k
  BY <1>1, <1>4 DEF TimeInv, Unused
<1> QED
  BY <1>3, <1>4

LEMMA TimeStep ==
    ASSUME TypeOK, QueuesOK, OrderInv, OnceInv, AlarmInv, [TNext]_tvars,
           \A k \in Timer : TimeInv(k), NEW j \in Timer
    PROVE  TimeInv(j)'
<1> USE DEF TimerTypes
<1>0. TimerTypes /\ TimeInv(j) /\ Period[j] \in Nat
  BY TimerAssumption DEF AlarmInv
<1>1. CASE PlainLoopStep
  <2>1. Waits(j)' => Waits(j)
    BY <1>1, SwapOnce, SameQueuesOnce
       DEF PlainLoopStep, StartLoop, NextRound, HandleRead
  <2> QED
    BY <1>0, <1>1, <2>1, TimeSame DEF PlainLoopStep
<1>2. CASE PollReturns(PollWakeup) \/ PollReturns(PollTimer) \/ PollReturns(PollOther)
  <2>1. Waits(j)' => Waits(j)
    BY <1>2, SameQueuesOnce
       DEF PollReturns, PollWakeup, PollTimer, PollOther, Returns
  <2> QED
    BY <1>0, <1>2, <2>1 DEF PollReturns, TimeInv, Unused
<1>3. CASE RunLoopFunctor
  <2>1. /\ RunFunctor
        /\ UNCHANGED <<now, expiration_, handling, expired, toReset, fired>>
    BY <1>3 DEF RunLoopFunctor
  <2>2. /\ Waits(j)' => Waits(j)
        /\ Waits(Head(functors))
        /\ j = Head(functors) => ~Waits(j)'
    BY <2>1, RunOnce
  <2>3. CASE Head(functors) \in Timer
    <3> DEFINE k == Head(functors)
    <3>1. AddTimerInLoop(k, expiration_[k])
      BY <1>3, <2>3 DEF RunLoopFunctor
    <3>2. Unused(k) /\ Period[k] < expiration_[k]
      BY <2>2, <2>3 DEF TimeInv
    <3>3. expiration_[k] \in Nat
      BY <1>0, <2>3
    <3> HIDE DEF k
    <3>4. k \in Timer /\ (j = k => ~Waits(j)')
      BY <2>2, <2>3 DEF k
    <3> QED
      BY <1>0, <2>1, <2>2, <3>1, <3>2, <3>3, <3>4, TimeAdd
  <2>4. CASE Head(functors) \notin Timer
    BY <1>0, <1>3, <2>1, <2>2, <2>4, TimeSame DEF RunLoopFunctor, timerVars
  <2> QED
    BY <2>3, <2>4
<1>4. CASE HandleTimer
  <2>1. /\ expired' = GetExpired /\ timers_' = timers_ \ GetExpired
        /\ UNCHANGED <<now, expiration_, toReset, fired, pendingFunctors_, functors>>
    BY <1>4 DEF HandleTimer, vars, loopVars
  <2>2. Waits(j)' => Waits(j)
    BY <2>1, SameQueuesOnce
  <2> QED
    BY <1>0, <2>1, <2>2 DEF GetExpired, TimeInv, Unused
<1>5. CASE Reset
  <2>1. /\ expiration_' = [k \in Timer |-> IF k \in Again THEN now + Period[k]
                                            ELSE expiration_[k]]
        /\ timers_' = timers_ \cup Again /\ toReset' = {} /\ expired = {}
        /\ UNCHANGED <<now, expired, fired, pendingFunctors_, functors>>
    BY <1>5 DEF Reset, vars, loopVars
  <2>2. Waits(j)' => Waits(j)
    BY <2>1, SameQueuesOnce
  <2>3. CASE j \in Again
    <3>1. j \in toReset /\ Period[j] > 0 /\ expiration_'[j] = now + Period[j]
      BY <2>1, <2>3 DEF Again
    <3>2. Span(j, fired[j]) < now /\ ~Waits(j)
      BY <1>0, <3>1 DEF TimeInv, Unused
    <3>3. /\ Span(j, fired[j] + 1) = Span(j, fired[j]) + Period[j]
          /\ Span(j, fired[j]) \in Nat
      BY <1>0, SpanGrows
    <3>4. Span(j, fired'[j] + 1) < expiration_'[j] /\ expiration_'[j] # 0
      BY <1>0, <2>1, <3>1, <3>2, <3>3
    <3> QED
      BY <2>1, <2>2, <3>1, <3>2, <3>4 DEF TimeInv
  <2>4. CASE j \notin Again
    BY <1>0, <2>1, <2>2, <2>4 DEF TimeInv, Unused
  <2> QED
    BY <2>3, <2>4
<1>6. ASSUME NEW k \in Timer, RunTimer(k)
      PROVE  TimeInv(j)'
  <2>1. /\ k \in expired
        /\ fired' = [fired EXCEPT ![k] = @ + 1]
        /\ expired' = expired \ {k} /\ toReset' = toReset \cup {k}
        /\ UNCHANGED <<now, expiration_, timers_, pendingFunctors_, functors>>
    BY <1>6 DEF RunTimer, vars, loopVars
  <2>2. Waits(j)' => Waits(j)
    BY <2>1, SameQueuesOnce
  <2>3. CASE j = k
    <3>1. /\ ~Waits(j) /\ expiration_[j] # 0 /\ j \notin timers_
          /\ expiration_[j] <= now
          /\ Period[j] > 0 => Span(j, fired[j] + 1) < expiration_[j]
      BY <1>0, <2>1, <2>3 DEF TimeInv, Unused
    <3>2. fired'[j] = fired[j] + 1
      BY <1>0, <2>1, <2>3
    <3>3. Span(j, fired[j] + 1) \in Nat
      BY <1>0, SpanGrows
    <3>4. Period[j] > 0 => Span(j, fired'[j]) < now
      BY <1>0, <3>1, <3>2, <3>3
    <3> QED
      BY <2>1, <2>2, <2>3, <3>1, <3>4 DEF TimeInv
  <2>4. CASE j # k
    BY <1>0, <2>1, <2>2, <2>4 DEF TimeInv, Unused
  <2> QED
    BY <2>3, <2>4
<1>7. CASE PlainCallerStep
  <2>1. Waits(j)' => Waits(j)
    <3>1. ASSUME NEW k \in Task \ Timer, Enqueue(k), functors' = functors
          PROVE  Waits(j)' => Waits(j)
      BY <3>1, EnqueueOnce
    <3> QED
      BY <1>7, <3>1, SameQueuesOnce
         DEF PlainCallerStep, QuitInside, HandlerQueues, FunctorQueues, Quit,
             QueueInLoop, loopVars
  <2> QED
    BY <1>0, <1>7, <2>1, TimeSame DEF PlainCallerStep
<1>8. ASSUME NEW t \in Thread, WakeupStep(t)
      PROVE  TimeInv(j)'
  <2>1. Waits(j)' => Waits(j)
    BY <1>8, SameQueuesOnce DEF WakeupStep, Wakeup, loopVars
  <2> QED
    BY <1>0, <1>8, <2>1, TimeSame DEF WakeupStep
<1>9. ASSUME NEW t \in Thread, NEW k \in Timer, AddTimer(t, k)
      PROVE  TimeInv(j)'
  <2>1. /\ expiration_[k] = 0
        /\ Enqueue(k) /\ functors' = functors
        /\ UNCHANGED <<now, timers_, alarm, handling, expired, toReset, fired>>
    BY <1>9 DEF AddTimer, NewTimer, QueueInLoop, loopVars
  <2>2. Waits(j)' => Waits(j) \/ j = k
    BY <2>1, TimerAssumption, EnqueueOnce
  <2>3. PICK d \in Nat : /\ expiration_' = [expiration_ EXCEPT ![k] = now + d]
                         /\ Period[k] > 0 => d = Period[k]
    BY <1>9, TimerAssumption DEF AddTimer, NewTimer
  <2>4. CASE j = k
    <3>1. Unused(j)
      BY <1>0, <2>1, <2>4 DEF TimeInv
    <3>2. Unused(j)'
      BY <2>1, <3>1 DEF Unused
    <3>3. expiration_'[j] > Period[j]
      BY <1>0, <2>3, <2>4
    <3> QED
      BY <1>0, <3>2, <3>3 DEF TimeInv, Unused
  <2>5. CASE j # k
    BY <1>0, <2>1, <2>2, <2>3, <2>5 DEF TimeInv, Unused
  <2> QED
    BY <2>4, <2>5
<1>10. ASSUME NEW k \in Timer, AddTimerInside(k)
       PROVE  TimeInv(j)'
  <2>1. /\ expiration_[k] = 0
        /\ AddTimerInLoop(k, expiration_'[k])
        /\ UNCHANGED <<pendingFunctors_, functors, now, expired, toReset, fired>>
    BY <1>10 DEF AddTimerInside, NewTimer, vars, loopVars
  <2>2. Waits(j)' => Waits(j)
    BY <2>1, SameQueuesOnce
  <2>3. PICK d \in Nat : /\ expiration_' = [expiration_ EXCEPT ![k] = now + d]
                         /\ Period[k] > 0 => d = Period[k]
    BY <1>10, TimerAssumption DEF AddTimerInside, NewTimer
  <2>4. /\ Unused(k) /\ ~Waits(k)
        /\ expiration_'[k] \in Nat /\ Period[k] < expiration_'[k]
        /\ j # k => expiration_'[j] = expiration_[j]
    <3>1. Unused(k) /\ ~Waits(k)
      BY <2>1 DEF TimeInv
    <3>2. Period[k] \in Nat
      BY TimerAssumption
    <3> QED
      BY <1>0, <2>3, <3>1, <3>2
  <2> QED
    BY <1>0, <2>1, <2>2, <2>4, TimeAdd
<1>11. CASE Tick
  <2>1. now' = now + 1 /\ UNCHANGED <<pendingFunctors_, functors, timerVars>>
    BY <1>11 DEF Tick, vars, loopVars
  <2>2. Waits(j)' => Waits(j)
    BY <2>1, SameQueuesOnce
  <2>3. Span(j, fired[j]) \in Nat
    BY <1>0, SpanGrows
  <2> QED
    BY <1>0, <2>1, <2>2, <2>3 DEF TimeInv, Unused, timerVars
<1>12. CASE UNCHANGED tvars
  <2>1. UNCHANGED <<pendingFunctors_, functors, now, timerVars>>
    BY <1>12 DEF tvars, vars, loopVars
  <2> QED
    BY <1>0, <2>1, SameQueuesOnce, TimeSame
<1> QED
  BY <1>1, <1>2, <1>3, <1>4, <1>5, <1>6, <1>7, <1>8, <1>9, <1>10, <1>11, <1>12
     DEF TNext, TLoopStep

LEMMA QueuesAlways == Spec => [](TypeOK /\ QueuesOK /\ OrderInv /\ OnceInv)
<1>1. Init => QueuesOK /\ OrderInv /\ OnceInv
  BY DEF Init, QueuesOK, OrderInv, OnceInv
<1> QED
  BY <1>1, TypeCorrect, QueuesStep, OrderStep, OnceStep, PTL DEF Spec

LEMMA TimeAlways == TSpec => [](\A k \in Timer : TimeInv(k))
<1> DEFINE All == \A k \in Timer : TimeInv(k)
<1>1. TInit => All
  BY TimeInit
<1>2. TypeOK /\ QueuesOK /\ OrderInv /\ OnceInv /\ AlarmInv /\ All /\ [TNext]_tvars
         => All'
  BY TimeStep
<1> HIDE DEF All
<1>3. TSpec => []All
  BY <1>1, <1>2, ImplementsLoop, QueuesAlways, AlarmAlways, PTL DEF TSpec
<1> QED
  BY <1>3 DEF All

(* For any intervals and delays: no callback runs before its moment has    *)
(* come, a one-shot timer runs once at most, and a repeating one not more  *)
(* often than its interval has passed (getExpired, handleRead, reset).     *)
THEOREM NeverEarly == TSpec => OnTime
<1> DEFINE Due == \A k \in Timer : fired'[k] # fired[k] =>
          /\ expiration_[k] <= now
          /\ IF Period[k] = 0 THEN fired[k] = 0
             ELSE now > fired'[k] * Period[k]
           All == \A k \in Timer : TimeInv(k)
<1>1. AlarmInv /\ All /\ [TNext]_tvars => Due
  <2> SUFFICES ASSUME AlarmInv, All, [TNext]_tvars, NEW k \in Timer,
                      fired'[k] # fired[k]
               PROVE  /\ expiration_[k] <= now
                      /\ IF Period[k] = 0 THEN fired[k] = 0
                         ELSE now > fired'[k] * Period[k]
    OBVIOUS
  <2>1. PICK j \in Timer : RunTimer(j)
    BY DEF TNext, TLoopStep, PlainLoopStep, PollReturns, RunLoopFunctor,
       HandleTimer, Reset, PlainCallerStep, WakeupStep, AddTimer,
       AddTimerInside, Tick, tvars, timerVars
  <2>2. TimerTypes /\ Period[k] \in Nat
    BY TimerAssumption DEF AlarmInv
  <2>3. k = j /\ k \in expired /\ fired'[k] = fired[k] + 1
    BY <2>1, <2>2 DEF RunTimer, TimerTypes
  <2>4. /\ expiration_[k] <= now
        /\ IF Period[k] = 0 THEN fired[k] = 0
           ELSE Span(k, fired[k] + 1) < expiration_[k]
    BY <2>3 DEF TimeInv
  <2>5. Span(k, fired[k] + 1) \in Nat
    BY <2>2, SpanGrows DEF TimerTypes
  <2>6. Period[k] # 0 => now > Span(k, fired'[k])
    BY <2>2, <2>3, <2>4, <2>5 DEF TimerTypes
  <2> QED
    BY <2>4, <2>6 DEF Span
<1> HIDE DEF All, Due
<1>2. TSpec => []All
  BY TimeAlways DEF All
<1>3. TSpec => [][Due]_tvars
  BY <1>1, <1>2, AlarmAlways, PTL DEF TSpec
<1> QED
  BY <1>3 DEF Due, OnTime
=============================================================================
