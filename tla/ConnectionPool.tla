--------------------------- MODULE ConnectionPool ---------------------------
(***************************************************************************)
(* MysqlConnectionPool: the queue of idle database connections that the    *)
(* I/O loops and the observer thread of a server borrow from, the producer *)
(* thread that fills it and the recycler thread that shrinks it.           *)
(*                                                                         *)
(* mutex_ protects everything.  A critical section is one step, except for *)
(* the producer's and the recycler's loops, which hold mutex_ over one     *)
(* step per connection they create or delete.                              *)
(***************************************************************************)
EXTENDS Integers, Sequences, FiniteSets, Functions

CONSTANTS
    Thread,             \* threads that call getConnection
    Connection,         \* addresses of MysqlConnection objects
    MinSize, MaxSize,   \* minSize_ and maxSize_ of conf.json
    MaxIdle,            \* maxIdleTime_, in ticks of the model's clock
    None

ASSUME PoolAssumption ==
    /\ MinSize \in Nat /\ MaxSize \in Nat /\ MinSize <= MaxSize
    /\ MaxIdle \in Nat
    /\ IsFiniteSet(Thread) /\ IsFiniteSet(Connection)
    /\ None \notin Connection

VARIABLES
    connectionQueue_,   \* idle connections, the longest idle one first
    currentSize_,
    held,               \* the connection a thread has borrowed
    alive,              \* getAliveTime of a connection, counted up to MaxIdle
    pc,                 \* where a borrower is in getConnection
    producer, recycler  \* where the two background threads are

poolVars == <<connectionQueue_, currentSize_>>
vars == <<poolVars, held, alive, pc, producer, recycler>>

Queued == Range(connectionQueue_)
Borrowers == {t \in Thread : held[t] # None}
Live == Queued \cup {held[t] : t \in Borrowers}
Locked == producer = "filling" \/ recycler = "sweeping"

(* The constructor: minSize_ connections, then both threads start. *)
Init ==
    /\ connectionQueue_ \in [1..MinSize -> Connection]
    /\ IsInjective(connectionQueue_)
    /\ currentSize_ = MinSize
    /\ held = [t \in Thread |-> None]
    /\ alive = [c \in Connection |-> 0]
    /\ pc = [t \in Thread |-> "out"]
    /\ producer = "awake"
    /\ recycler = "sleeping"

(* cond_.notify_all(): every thread that waits on cond_ contends for mutex_*)
(* again.                                                                  *)
WakeAll(pcs) == [t \in Thread |-> IF pcs[t] = "waiting" THEN "awake" ELSE pcs[t]]
ProducerWoken == IF producer = "waiting" THEN "awake" ELSE producer

-----------------------------------------------------------------------------
(* getConnection *)

(* Mutants: the head stays in the queue; nobody is notified.               *)
TakeWithoutPop(t) ==
    /\ connectionQueue_ # <<>>
    /\ held' = [held EXCEPT ![t] = Head(connectionQueue_)]
    /\ pc' = WakeAll([pc EXCEPT ![t] = "using"])
    /\ producer' = ProducerWoken
    /\ UNCHANGED <<poolVars, alive, recycler>>

TakeSilently(t) ==
    /\ connectionQueue_ # <<>>
    /\ held' = [held EXCEPT ![t] = Head(connectionQueue_)]
    /\ connectionQueue_' = Tail(connectionQueue_)
    /\ pc' = [pc EXCEPT ![t] = "using"]
    /\ UNCHANGED <<currentSize_, alive, producer, recycler>>

Take(t) ==
    /\ connectionQueue_ # <<>>
    /\ held' = [held EXCEPT ![t] = Head(connectionQueue_)]
    /\ connectionQueue_' = Tail(connectionQueue_)
    /\ pc' = WakeAll([pc EXCEPT ![t] = "using"])
    /\ producer' = ProducerWoken
    /\ UNCHANGED <<currentSize_, alive, recycler>>

Wait(t) ==
    /\ connectionQueue_ = <<>>
    /\ pc' = [pc EXCEPT ![t] = "waiting"]
    /\ UNCHANGED <<poolVars, held, alive, producer, recycler>>

(* On entry, and again each time wait_for returns with mutex_ held. *)
GetConnection(t) ==
    /\ pc[t] \in {"out", "awake"}
    /\ ~Locked
    /\ Take(t) \/ Wait(t)

(* Mutant: wait instead of wait_for.                                       *)
WaitForNotify(t) == FALSE

(* wait_for gives up after timeout_ milliseconds. *)
WaitTimeout(t) ==
    /\ pc[t] = "waiting"
    /\ pc' = [pc EXCEPT ![t] = "awake"]
    /\ UNCHANGED <<poolVars, held, alive, producer, recycler>>

(* Mutants: a null pointer is put back; the front of the queue instead of  *)
(* its back.                                                               *)
ReleaseNull(t) ==
    /\ pc[t] = "using"
    /\ ~Locked
    /\ connectionQueue_' = Append(connectionQueue_, None)
    /\ held' = [held EXCEPT ![t] = None]
    /\ pc' = [pc EXCEPT ![t] = "out"]
    /\ UNCHANGED <<currentSize_, alive, producer, recycler>>

ReleaseToFront(t) ==
    /\ pc[t] = "using"
    /\ ~Locked
    /\ connectionQueue_' = <<held[t]>> \o connectionQueue_
    /\ alive' = [alive EXCEPT ![held[t]] = 0]
    /\ held' = [held EXCEPT ![t] = None]
    /\ pc' = [pc EXCEPT ![t] = "out"]
    /\ UNCHANGED <<currentSize_, producer, recycler>>

(* The deleter of the borrowed shared_ptr: back of the queue, no notify. *)
Release(t) ==
    /\ pc[t] = "using"
    /\ ~Locked
    /\ connectionQueue_' = Append(connectionQueue_, held[t])
    /\ alive' = [alive EXCEPT ![held[t]] = 0]
    /\ held' = [held EXCEPT ![t] = None]
    /\ pc' = [pc EXCEPT ![t] = "out"]
    /\ UNCHANGED <<currentSize_, producer, recycler>>

-----------------------------------------------------------------------------
(* produceConnection *)

ProducerWait ==
    /\ producer = "awake"
    /\ ~Locked
    /\ producer' = IF Len(connectionQueue_) >= MinSize THEN "waiting"
                                                       ELSE "filling"
    /\ UNCHANGED <<poolVars, held, alive, pc, recycler>>

(* addConnection, currentSize_++ and notify_all, with mutex_ held. *)
AddConnection(c) ==
    /\ producer = "filling"
    /\ currentSize_ < MaxSize
    /\ c \notin Live
    /\ connectionQueue_' = Append(connectionQueue_, c)
    /\ currentSize_' = currentSize_ + 1
    /\ alive' = [alive EXCEPT ![c] = 0]
    /\ pc' = WakeAll(pc)
    /\ UNCHANGED <<held, producer, recycler>>

(* The pool is full: mutex_ is released and the outer loop starts over. *)
ProducerDone ==
    /\ producer = "filling"
    /\ currentSize_ >= MaxSize
    /\ producer' = "awake"
    /\ UNCHANGED <<poolVars, held, alive, pc, recycler>>

-----------------------------------------------------------------------------
(* recycleConnection *)

RecyclerWake ==
    /\ recycler = "sleeping"
    /\ ~Locked
    /\ recycler' = "sweeping"
    /\ UNCHANGED <<poolVars, held, alive, pc, producer>>

Expired(c) == alive[c] >= MaxIdle

Recyclable ==
    Len(connectionQueue_) > MinSize /\ Expired(Head(connectionQueue_))

(* Mutant: currentSize_-- is missing.                                      *)
RecycleUncounted ==
    /\ recycler = "sweeping"
    /\ Recyclable
    /\ connectionQueue_' = Tail(connectionQueue_)
    /\ UNCHANGED <<currentSize_, held, alive, pc, producer, recycler>>

RecycleConnection ==
    /\ recycler = "sweeping"
    /\ Recyclable
    /\ connectionQueue_' = Tail(connectionQueue_)
    /\ currentSize_' = currentSize_ - 1
    /\ UNCHANGED <<held, alive, pc, producer, recycler>>

(* Few enough connections are left, or the first is still young: break. *)
RecyclerDone ==
    /\ recycler = "sweeping"
    /\ ~Recyclable
    /\ recycler' = "sleeping"
    /\ UNCHANGED <<poolVars, held, alive, pc, producer>>

(* The steady clock, as far as getAliveTime of an idle connection shows it.*)
Tick ==
    /\ \E c \in Queued : alive[c] < MaxIdle
    /\ alive' = [c \in Connection |->
                   IF c \in Queued /\ alive[c] < MaxIdle THEN alive[c] + 1
                                                         ELSE alive[c]]
    /\ UNCHANGED <<poolVars, held, pc, producer, recycler>>

-----------------------------------------------------------------------------
Next ==
    \/ \E t \in Thread : GetConnection(t) \/ WaitTimeout(t) \/ Release(t)
    \/ \E c \in Connection : AddConnection(c)
    \/ ProducerWait \/ ProducerDone
    \/ RecyclerWake \/ RecycleConnection \/ RecyclerDone
    \/ Tick

Spec == Init /\ [][Next]_vars

(* Timeouts fire, a thread that contends for mutex_ does not lose the race *)
(* for it for ever (the recycler comes by every 500 ms only, but a         *)
(* producer that finds the pool full spins on it), and a borrower gives    *)
(* its connection back: the model classes hold it for one call.            *)
Fairness ==
    /\ \A t \in Thread :
         /\ WF_vars(WaitTimeout(t))
         /\ SF_vars(pc[t] = "awake" /\ GetConnection(t))
         /\ SF_vars(Release(t))
    /\ SF_vars(ProducerWait) /\ WF_vars(ProducerDone)
    /\ WF_vars(\E c \in Connection : AddConnection(c))
    /\ WF_vars(RecycleConnection) /\ WF_vars(RecyclerDone)

FairSpec == Spec /\ Fairness

-----------------------------------------------------------------------------
(* Properties *)

TypeOK ==
    /\ connectionQueue_ \in Seq(Connection)
    /\ currentSize_ \in Nat
    /\ held \in [Thread -> Connection \cup {None}]
    /\ alive \in [Connection -> 0..MaxIdle]
    /\ pc \in [Thread -> {"out", "waiting", "awake", "using"}]
    /\ producer \in {"awake", "waiting", "filling"}
    /\ recycler \in {"sleeping", "sweeping"}

(* A connection is idle in the queue once or borrowed by one thread: no    *)
(* two threads ever talk over one MYSQL handle (getConnection and the      *)
(* deleter of its result).                                                 *)
NoSharing ==
    /\ IsInjective(connectionQueue_)
    /\ \A t \in Borrowers : held[t] \notin Queued
    /\ \A t, v \in Borrowers : held[t] = held[v] => t = v

(* currentSize_ counts every connection there is, idle or borrowed, and    *)
(* stays between minSize_ and maxSize_ (produceConnection, line 64;        *)
(* recycleConnection, line 78).                                            *)
SizeCounts ==
    /\ currentSize_ = Len(connectionQueue_) + Cardinality(Borrowers)
    /\ currentSize_ \in MinSize..MaxSize

(* The producer never sleeps through a shortage: whoever makes the queue   *)
(* short also notifies it (line 118), and the recycler does not make it    *)
(* short.                                                                  *)
ProducerAwakeWhenShort ==
    producer = "waiting" => Len(connectionQueue_) >= MinSize

(* The queue is ordered by idle time, which is why the recycler may stop   *)
(* at the first young connection (line 85): when it stops, no expired      *)
(* connection is left that it was allowed to delete.                       *)
SweepIsComplete ==
    [][recycler = "sweeping" /\ recycler' = "sleeping" =>
          \/ Len(connectionQueue_) <= MinSize
          \/ \A c \in Queued : ~Expired(c)]_vars

(* While threads wait, some thread keeps getting a connection, although    *)
(* the deleter puts connections back without a notify: wait_for times out  *)
(* and the queue is looked at again (line 102).  Which thread it is is up  *)
(* to the mutex, so a single thread may starve.                            *)
SomebodyServed ==
    (\E t \in Thread : pc[t] = "waiting") ~> (\E t \in Thread : pc[t] = "using")
=============================================================================
