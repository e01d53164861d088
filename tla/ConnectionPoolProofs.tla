----------------------- MODULE ConnectionPoolProofs -----------------------
(***************************************************************************)
(* Safety of the connection pool, for any number of borrowing threads and  *)
(* any sizes.                                                              *)
(***************************************************************************)
EXTENDS ConnectionPool, SequenceTheorems, FiniteSetTheorems, TLAPS

(* Taking the first connection of a queue without repetition.              *)
LEMMA TakeFirst ==
    ASSUME NEW q \in Seq(Connection), q # <<>>, IsInjective(q)
    PROVE  /\ Head(q) \in Connection /\ Tail(q) \in Seq(Connection)
           /\ Len(q) \in Nat \ {0} /\ Len(Tail(q)) = Len(q) - 1
           /\ IsInjective(Tail(q))
           /\ Range(Tail(q)) = Range(q) \ {Head(q)}
           /\ Head(q) \in Range(q)
<1>1. /\ Head(q) \in Connection /\ Tail(q) \in Seq(Connection)
      /\ Len(q) \in Nat \ {0} /\ Len(Tail(q)) = Len(q) - 1
      /\ \A i \in 1..(Len(q) - 1) : Tail(q)[i] = q[i + 1]
  BY HeadTailProperties, EmptySeq, LenProperties
<1>2. /\ DOMAIN q = 1..Len(q) /\ DOMAIN Tail(q) = 1..(Len(q) - 1)
      /\ Head(q) = q[1]
  BY <1>1, LenProperties
<1>3. IsInjective(Tail(q))
  BY <1>1, <1>2 DEF IsInjective
<1>4. Head(q) \in Range(q)
  BY <1>1, <1>2 DEF Range
<1>5. ASSUME NEW c \in Range(Tail(q))
      PROVE  c \in Range(q) \ {Head(q)}
  <2>1. PICK i \in 1..(Len(q) - 1) : c = q[i + 1]
    BY <1>1, <1>2 DEF Range
  <2>2. i + 1 \in 1..Len(q) /\ i + 1 # 1 /\ 1 \in 1..Len(q)
    BY <1>1, <2>1
  <2> QED
    BY <1>2, <2>1, <2>2 DEF Range, IsInjective
<1>6. ASSUME NEW c \in Range(q) \ {Head(q)}
      PROVE  c \in Range(Tail(q))
  <2>1. PICK i \in 1..Len(q) : c = q[i] /\ i # 1
    BY <1>2 DEF Range
  <2>2. i - 1 \in 1..(Len(q) - 1) /\ Tail(q)[i - 1] = c
    BY <1>1, <2>1
  <2> QED
    BY <1>2, <2>2 DEF Range
<1> QED
  BY <1>1, <1>3, <1>4, <1>5, <1>6

(* A connection that is not in the queue goes to its end.                  *)
LEMMA AddLast ==
    ASSUME NEW q \in Seq(Connection), IsInjective(q),
           NEW c \in Connection, c \notin Range(q)
    PROVE  /\ Append(q, c) \in Seq(Connection)
           /\ Len(q) \in Nat /\ Len(Append(q, c)) = Len(q) + 1
           /\ IsInjective(Append(q, c))
           /\ Range(Append(q, c)) = Range(q) \cup {c}
<1>1. /\ Append(q, c) \in Seq(Connection) /\ Len(q) \in Nat
      /\ Len(Append(q, c)) = Len(q) + 1
      /\ \A i \in 1..Len(q) : Append(q, c)[i] = q[i]
      /\ Append(q, c)[Len(q) + 1] = c
  BY AppendProperties, LenProperties
<1>2. DOMAIN q = 1..Len(q) /\ DOMAIN Append(q, c) = 1..(Len(q) + 1)
  BY <1>1, LenProperties
<1>3. IsInjective(Append(q, c))
  BY <1>1, <1>2 DEF IsInjective, Range
<1>4. Range(Append(q, c)) = Range(q) \cup {c}
  BY <1>1, <1>2 DEF Range
<1> QED
  BY <1>1, <1>3, <1>4

-----------------------------------------------------------------------------
(* A thread holds a connection exactly while it is using one.              *)
Borrowing == \A t \in Thread : held[t] # None <=> pc[t] = "using"

PoolInv == TypeOK /\ Borrowing /\ NoSharing /\ SizeCounts

LEMMA BorrowersFinite ==
    /\ IsFiniteSet(Borrowers) /\ Cardinality(Borrowers) \in Nat
    /\ IsFiniteSet(Borrowers') /\ Cardinality(Borrowers') \in Nat
<1>1. IsFiniteSet(Thread)
  BY PoolAssumption DEF PoolAssumption
<1>2. Borrowers \in SUBSET Thread /\ Borrowers' \in SUBSET Thread
  BY DEF Borrowers
<1> QED
  BY <1>1, <1>2, FS_Subset, FS_CardinalityType

(* getConnection, where it hands out the head of the queue.                *)
LEMMA TakeKeeps ==
    ASSUME PoolInv, NEW t \in Thread, pc[t] \in {"out", "awake"}, Take(t)
    PROVE  PoolInv'
<1> USE DEF PoolInv, Take
<1> DEFINE q == connectionQueue_
<1>1. /\ Head(q) \in Connection /\ Tail(q) \in Seq(Connection)
      /\ Len(q) \in Nat \ {0} /\ Len(Tail(q)) = Len(q) - 1
      /\ IsInjective(Tail(q)) /\ Range(Tail(q)) = Range(q) \ {Head(q)}
      /\ Head(q) \in Range(q)
  BY TakeFirst DEF TypeOK, NoSharing
<1>2. TypeOK'
  BY <1>1 DEF TypeOK, WakeAll, ProducerWoken
<1>3. held[t] = None /\ Head(q) # None
  BY <1>1, PoolAssumption DEF Borrowing, PoolAssumption
<1>4. Borrowing'
  BY <1>1, <1>3 DEF Borrowing, TypeOK, WakeAll
<1>5. t \notin Borrowers /\ Borrowers' = Borrowers \cup {t}
  BY <1>3 DEF Borrowers, TypeOK
<1>6. NoSharing'
  <2>1. Queued' = Queued \ {Head(q)} /\ Head(q) \in Queued /\ IsInjective(q)'
    BY <1>1 DEF Queued
  <2>2. \A v \in Borrowers : held'[v] = held[v]
    BY <1>5 DEF TypeOK, Borrowers
  <2>3. held'[t] = Head(q)
    BY DEF TypeOK
  <2> QED
    BY <1>5, <2>1, <2>2, <2>3 DEF NoSharing
<1>7. SizeCounts'
  <2>1. Cardinality(Borrowers') = Cardinality(Borrowers) + 1
    BY <1>5, BorrowersFinite, FS_AddElement
  <2>2. Len(q)' = Len(q) - 1 /\ UNCHANGED currentSize_
    BY <1>1
  <2> QED
    BY <1>1, <2>1, <2>2, BorrowersFinite DEF SizeCounts
<1> QED
  BY <1>2, <1>4, <1>6, <1>7

(* The deleter of the borrowed shared_ptr.                                 *)
LEMMA ReleaseKeeps ==
    ASSUME PoolInv, NEW t \in Thread, Release(t)
    PROVE  PoolInv'
<1> USE DEF PoolInv, Release
<1> DEFINE q == connectionQueue_
<1>1. held[t] \in Connection /\ t \in Borrowers /\ None \notin Connection
  BY PoolAssumption DEF Borrowing, TypeOK, Borrowers, PoolAssumption
<1>2. /\ Append(q, held[t]) \in Seq(Connection)
      /\ Len(q) \in Nat /\ Len(Append(q, held[t])) = Len(q) + 1
      /\ IsInjective(Append(q, held[t]))
      /\ Range(Append(q, held[t])) = Range(q) \cup {held[t]}
  BY <1>1, AddLast DEF TypeOK, NoSharing, Queued
<1>3. TypeOK'
  BY <1>1, <1>2, PoolAssumption DEF TypeOK, PoolAssumption
<1>4. Borrowing'
  BY DEF Borrowing, TypeOK
<1>5. Borrowers' = Borrowers \ {t}
  BY DEF Borrowers, TypeOK
<1>6. NoSharing'
  <2>1. Queued' = Queued \cup {held[t]} /\ IsInjective(q)'
    BY <1>2 DEF Queued
  <2>2. \A v \in Borrowers' : held'[v] = held[v] /\ v # t
    BY <1>5 DEF TypeOK, Borrowers
  <2> QED
    BY <1>1, <1>5, <2>1, <2>2 DEF NoSharing
<1>7. SizeCounts'
  <2>1. Cardinality(Borrowers') = Cardinality(Borrowers) - 1
    BY <1>1, <1>5, BorrowersFinite, FS_RemoveElement
  <2>2. Len(q)' = Len(q) + 1 /\ UNCHANGED currentSize_
    BY <1>2
  <2> QED
    BY <1>2, <2>1, <2>2, BorrowersFinite DEF SizeCounts
<1> QED
  BY <1>3, <1>4, <1>6, <1>7

LEMMA AddKeeps ==
    ASSUME PoolInv, NEW c \in Connection, AddConnection(c)
    PROVE  PoolInv'
<1> USE DEF PoolInv, AddConnection
<1> DEFINE q == connectionQueue_
<1>1. c \notin Queued /\ \A t \in Borrowers : held[t] # c
  BY DEF Live
<1>2. /\ Append(q, c) \in Seq(Connection)
      /\ Len(q) \in Nat /\ Len(Append(q, c)) = Len(q) + 1
      /\ IsInjective(Append(q, c)) /\ Range(Append(q, c)) = Range(q) \cup {c}
  BY <1>1, AddLast DEF TypeOK, NoSharing, Queued
<1>3. TypeOK'
  BY <1>2, PoolAssumption DEF TypeOK, WakeAll, PoolAssumption
<1>4. Borrowing'
  BY DEF Borrowing, TypeOK, WakeAll
<1>5. Borrowers' = Borrowers
  BY DEF Borrowers
<1>6. NoSharing'
  <2>1. Queued' = Queued \cup {c} /\ IsInjective(q)'
    BY <1>2 DEF Queued
  <2> QED
    BY <1>1, <1>5, <2>1 DEF NoSharing
<1>7. SizeCounts'
  <2>1. Len(q)' = Len(q) + 1 /\ Cardinality(Borrowers)' = Cardinality(Borrowers)
    BY <1>2, <1>5
  <2>2. currentSize_ < MaxSize /\ currentSize_' = currentSize_ + 1
    OBVIOUS
  <2>3. /\ currentSize_ = Len(q) + Cardinality(Borrowers)
        /\ currentSize_ \in MinSize..MaxSize
        /\ Len(q) \in Nat /\ Cardinality(Borrowers) \in Nat
        /\ MinSize \in Nat /\ MaxSize \in Nat
    BY <1>2, BorrowersFinite, PoolAssumption DEF SizeCounts, PoolAssumption
  <2> HIDE DEF PoolInv, AddConnection
  <2>4. currentSize_' = Len(q)' + Cardinality(Borrowers)'
    BY <2>1, <2>2, <2>3
  <2>5. currentSize_' \in MinSize..MaxSize
    BY <2>2, <2>3
  <2> QED
    BY <2>4, <2>5 DEF SizeCounts
<1> QED
  BY <1>3, <1>4, <1>6, <1>7

LEMMA RecycleKeeps ==
    ASSUME PoolInv, RecycleConnection
    PROVE  PoolInv'
<1> USE DEF PoolInv, RecycleConnection, Recyclable
<1> DEFINE q == connectionQueue_
<1>1. q # <<>>
  BY PoolAssumption, EmptySeq, LenProperties DEF TypeOK, PoolAssumption
<1>2. /\ Tail(q) \in Seq(Connection)
      /\ Len(q) \in Nat \ {0} /\ Len(Tail(q)) = Len(q) - 1
      /\ IsInjective(Tail(q)) /\ Range(Tail(q)) = Range(q) \ {Head(q)}
  BY <1>1, TakeFirst DEF TypeOK, NoSharing
<1>3. Borrowers' = Borrowers /\ UNCHANGED <<held, pc>>
  BY DEF Borrowers
<1>4. SizeCounts'
  BY <1>2, <1>3, BorrowersFinite, PoolAssumption DEF SizeCounts, PoolAssumption
<1>5. TypeOK'
  BY <1>2, <1>4, PoolAssumption DEF TypeOK, SizeCounts, PoolAssumption
<1>6. Borrowing'
  BY DEF Borrowing
<1>7. NoSharing'
  <2>1. Queued' = Queued \ {Head(q)} /\ IsInjective(q)'
    BY <1>2 DEF Queued
  <2> QED
    BY <1>3, <2>1 DEF NoSharing
<1> QED
  BY <1>4, <1>5, <1>6, <1>7

LEMMA PoolStep == PoolInv /\ [Next]_vars => PoolInv'
<1> SUFFICES ASSUME PoolInv, [Next]_vars PROVE PoolInv'
  OBVIOUS
<1> DEFINE Rest == UNCHANGED <<connectionQueue_, currentSize_, held>>
<1>1. ASSUME Rest, TypeOK', Borrowing'
      PROVE  PoolInv'
  <2>1. UNCHANGED Queued /\ UNCHANGED Borrowers
    BY <1>1 DEF Queued, Borrowers
  <2> QED
    BY <1>1, <2>1 DEF PoolInv, NoSharing, SizeCounts
<1> USE DEF poolVars
<1>2. ASSUME NEW t \in Thread, Wait(t), pc[t] \in {"out", "awake"}
      PROVE  PoolInv'
  BY <1>1, <1>2 DEF Wait, PoolInv, TypeOK, Borrowing
<1>3. ASSUME NEW t \in Thread, WaitTimeout(t)
      PROVE  PoolInv'
  BY <1>1, <1>3 DEF WaitTimeout, PoolInv, TypeOK, Borrowing
<1>4. ASSUME NEW t \in Thread, GetConnection(t)
      PROVE  PoolInv'
  BY <1>2, <1>4, TakeKeeps DEF GetConnection
<1>5. CASE ProducerWait \/ ProducerDone \/ RecyclerWake \/ RecyclerDone
  BY <1>1, <1>5 DEF ProducerWait, ProducerDone, RecyclerWake, RecyclerDone,
                    PoolInv, TypeOK, Borrowing
<1>6. CASE Tick
  <2>1. alive' \in [Connection -> 0..MaxIdle]
    BY <1>6, PoolAssumption DEF Tick, PoolInv, TypeOK, PoolAssumption
  <2> QED
    BY <1>1, <1>6, <2>1 DEF Tick, PoolInv, TypeOK, Borrowing
<1>7. CASE UNCHANGED vars
  BY <1>1, <1>7 DEF vars, PoolInv, TypeOK, Borrowing
<1> QED
  BY <1>3, <1>4, <1>5, <1>6, <1>7, ReleaseKeeps, AddKeeps, RecycleKeeps DEF Next

LEMMA PoolInit == Init => PoolInv
<1> SUFFICES ASSUME Init PROVE PoolInv
  OBVIOUS
<1> USE PoolAssumption DEF Init, PoolAssumption
<1>1. connectionQueue_ \in Seq(Connection) /\ Len(connectionQueue_) = MinSize
  BY SeqDef
<1>2. Borrowers = {}
  BY DEF Borrowers
<1>3. SizeCounts
  BY <1>1, <1>2, FS_EmptySet DEF SizeCounts
<1> QED
  BY <1>1, <1>2, <1>3 DEF PoolInv, TypeOK, Borrowing, NoSharing

(* Types of the pool's state.                                              *)
THEOREM TypeCorrect == Spec => []TypeOK
<1>1. PoolInv => TypeOK
  BY DEF PoolInv
<1> QED
  BY <1>1, PoolInit, PoolStep, PTL DEF Spec

(* No two threads ever use one database connection.                        *)
THEOREM NeverShared == Spec => []NoSharing
<1>1. PoolInv => NoSharing
  BY DEF PoolInv
<1> QED
  BY <1>1, PoolInit, PoolStep, PTL DEF Spec

(* currentSize_ is exact and within the configured limits.                 *)
THEOREM SizeIsExact == Spec => []SizeCounts
<1>1. PoolInv => SizeCounts
  BY DEF PoolInv
<1> QED
  BY <1>1, PoolInit, PoolStep, PTL DEF Spec

-----------------------------------------------------------------------------
(* Whoever shortens the queue below minSize_ has notified the producer.    *)
LEMMA ProducerStep ==
    PoolInv /\ ProducerAwakeWhenShort /\ [Next]_vars => ProducerAwakeWhenShort'
<1> SUFFICES ASSUME PoolInv, ProducerAwakeWhenShort, [Next]_vars
             PROVE  ProducerAwakeWhenShort'
  OBVIOUS
<1> USE DEF ProducerAwakeWhenShort, poolVars
<1> DEFINE q == connectionQueue_
<1>1. q \in Seq(Connection) /\ Len(q) \in Nat /\ MinSize \in Nat
  BY PoolAssumption, LenProperties DEF PoolInv, TypeOK, PoolAssumption
<1>2. ASSUME NEW t \in Thread, GetConnection(t) \/ WaitTimeout(t)
      PROVE  ProducerAwakeWhenShort'
  BY <1>2 DEF GetConnection, Take, Wait, WaitTimeout, ProducerWoken
<1>3. ASSUME NEW c \in Connection, UNCHANGED producer, q' = Append(q, c)
      PROVE  ProducerAwakeWhenShort'
  <2>1. Len(q)' = Len(q) + 1
    BY <1>1, <1>3, AppendProperties
  <2> QED
    BY <1>1, <1>3, <2>1
<1>4. ASSUME NEW t \in Thread, Release(t)
      PROVE  ProducerAwakeWhenShort'
  <2>1. held[t] \in Connection
    BY <1>4 DEF Release, PoolInv, TypeOK, Borrowing
  <2> QED
    BY <1>3, <1>4, <2>1 DEF Release
<1>5. ASSUME NEW c \in Connection, AddConnection(c)
      PROVE  ProducerAwakeWhenShort'
  BY <1>3, <1>5 DEF AddConnection
<1>6. CASE ProducerWait \/ ProducerDone
  BY <1>6 DEF ProducerWait, ProducerDone
<1>7. CASE RecycleConnection
  <2>1. Len(q) > MinSize /\ q' = Tail(q) /\ UNCHANGED producer
    BY <1>7 DEF RecycleConnection, Recyclable
  <2>2. q # <<>>
    BY <1>1, <2>1, EmptySeq
  <2>3. Len(q)' = Len(q) - 1
    BY <1>1, <2>1, <2>2, HeadTailProperties
  <2> QED
    BY <1>1, <2>1, <2>3
<1>8. CASE RecyclerWake \/ RecyclerDone \/ Tick \/ UNCHANGED vars
  BY <1>8 DEF RecyclerWake, RecyclerDone, Tick, vars
<1> QED
  BY <1>2, <1>4, <1>5, <1>6, <1>7, <1>8 DEF Next

(* The producer never waits for a notification while the queue is short.   *)
THEOREM ProducerNotMissed == Spec => []ProducerAwakeWhenShort
<1>1. Init => ProducerAwakeWhenShort
  BY DEF Init, ProducerAwakeWhenShort
<1> QED
  BY <1>1, PoolInit, PoolStep, ProducerStep, PTL DEF Spec

-----------------------------------------------------------------------------
(* The queue is ordered by idle time: only its back gets connections, and  *)
(* these have just been used or created.                                   *)
Ordered ==
    \A i, j \in DOMAIN connectionQueue_ :
       i < j => alive[connectionQueue_[i]] >= alive[connectionQueue_[j]]

LEMMA TailOrdered ==
    ASSUME PoolInv, Ordered, connectionQueue_ # <<>>,
           connectionQueue_' = Tail(connectionQueue_), UNCHANGED alive
    PROVE  Ordered'
<1> DEFINE q == connectionQueue_
<1>1. /\ Len(q) \in Nat \ {0} /\ DOMAIN q = 1..Len(q)
      /\ DOMAIN q' = 1..(Len(q) - 1)
      /\ \A i \in 1..(Len(q) - 1) : q'[i] = q[i + 1]
  BY HeadTailProperties, EmptySeq, LenProperties DEF PoolInv, TypeOK
<1>2. ASSUME NEW i \in DOMAIN q', NEW j \in DOMAIN q', i < j
      PROVE  alive[q'[i]] >= alive[q'[j]]
  <2>1. i + 1 \in DOMAIN q /\ j + 1 \in DOMAIN q /\ i + 1 < j + 1
    BY <1>1, <1>2
  <2> QED
    BY <1>1, <1>2, <2>1 DEF Ordered
<1> QED
  BY <1>2 DEF Ordered

LEMMA AppendOrdered ==
    ASSUME PoolInv, Ordered, NEW c \in Connection, c \notin Queued,
           connectionQueue_' = Append(connectionQueue_, c),
           alive' = [alive EXCEPT ![c] = 0]
    PROVE  Ordered'
<1> DEFINE q == connectionQueue_
<1>1. /\ Len(q) \in Nat /\ DOMAIN q = 1..Len(q)
      /\ DOMAIN q' = 1..(Len(q) + 1)
      /\ \A i \in 1..Len(q) : q'[i] = q[i] /\ q[i] \in Connection
      /\ q'[Len(q) + 1] = c
  BY AppendProperties, LenProperties, ElementOfSeq DEF PoolInv, TypeOK
<1>2. \A i \in 1..Len(q) : alive'[q'[i]] = alive[q[i]] /\ alive[q[i]] \in Nat
  <2> SUFFICES ASSUME NEW i \in 1..Len(q)
               PROVE  alive'[q'[i]] = alive[q[i]] /\ alive[q[i]] \in Nat
    OBVIOUS
  <2>1. q[i] \in Queued /\ q[i] # c
    BY <1>1 DEF Queued, Range
  <2>2. alive \in [Connection -> 0..MaxIdle] /\ MaxIdle \in Nat
    BY PoolAssumption DEF PoolInv, TypeOK, PoolAssumption
  <2>3. q'[i] = q[i] /\ q[i] \in Connection
    BY <1>1
  <2>4. alive'[q[i]] = alive[q[i]]
    BY <2>1, <2>2, <2>3
  <2> QED
    BY <2>2, <2>3, <2>4
<1>3. alive'[q'[Len(q) + 1]] = 0
  BY <1>1 DEF PoolInv, TypeOK
<1>4. ASSUME NEW i \in DOMAIN q', NEW j \in DOMAIN q', i < j
      PROVE  alive'[q'[i]] >= alive'[q'[j]]
  <2>1. i \in 1..Len(q)
    BY <1>1, <1>4
  <2>2. CASE j = Len(q) + 1
    BY <1>2, <1>3, <2>1, <2>2
  <2>3. CASE j \in 1..Len(q)
    BY <1>1, <1>2, <1>4, <2>1, <2>3 DEF Ordered
  <2> QED
    BY <1>1, <2>2, <2>3
<1> QED
  BY <1>4 DEF Ordered

LEMMA TickOrdered ==
    ASSUME PoolInv, Ordered, Tick
    PROVE  Ordered'
<1> DEFINE q == connectionQueue_
<1>1. DOMAIN q = 1..Len(q) /\ \A i \in DOMAIN q : q[i] \in Queued
                                                /\ q[i] \in Connection
  BY LenProperties, ElementOfSeq DEF PoolInv, TypeOK, Queued, Range
<1>2. \A i \in DOMAIN q :
         /\ alive[q[i]] \in 0..MaxIdle
         /\ alive'[q[i]] = IF alive[q[i]] < MaxIdle THEN alive[q[i]] + 1
                                                    ELSE alive[q[i]]
  BY <1>1 DEF Tick, PoolInv, TypeOK
<1>3. UNCHANGED q
  BY DEF Tick, poolVars
<1> QED
  BY <1>2, <1>3, PoolAssumption DEF Ordered, PoolAssumption

LEMMA OrderedStep == PoolInv /\ Ordered /\ [Next]_vars => Ordered'
<1> SUFFICES ASSUME PoolInv, Ordered, [Next]_vars PROVE Ordered'
  OBVIOUS
<1>1. UNCHANGED <<connectionQueue_, alive>> => Ordered'
  BY DEF Ordered
<1>2. ASSUME NEW t \in Thread, GetConnection(t) \/ WaitTimeout(t)
      PROVE  Ordered'
  BY <1>1, <1>2, TailOrdered DEF GetConnection, Take, Wait, WaitTimeout, poolVars
<1>3. ASSUME NEW t \in Thread, Release(t)
      PROVE  Ordered'
  <2>1. held[t] \in Connection /\ held[t] \notin Queued
    BY <1>3 DEF Release, PoolInv, TypeOK, Borrowing, NoSharing, Borrowers
  <2> QED
    BY <1>3, <2>1, AppendOrdered DEF Release
<1>4. ASSUME NEW c \in Connection, AddConnection(c)
      PROVE  Ordered'
  BY <1>4, AppendOrdered DEF AddConnection, Live
<1>5. CASE RecycleConnection
  <2>1. connectionQueue_ # <<>>
    BY <1>5, PoolAssumption, EmptySeq
    DEF RecycleConnection, Recyclable, PoolAssumption
  <2> QED
    BY <1>5, <2>1, TailOrdered DEF RecycleConnection
<1>6. CASE ProducerWait \/ ProducerDone \/ RecyclerWake \/ RecyclerDone
           \/ UNCHANGED vars
  BY <1>1, <1>6 DEF ProducerWait, ProducerDone, RecyclerWake, RecyclerDone,
                    vars, poolVars
<1> QED
  BY <1>2, <1>3, <1>4, <1>5, <1>6, TickOrdered DEF Next

(* The recycler may stop at the first young connection.                    *)
THEOREM SweepMissesNothing == Spec => SweepIsComplete
<1> DEFINE q == connectionQueue_
<1>1. Init => Ordered
  <2> SUFFICES ASSUME Init PROVE Ordered
    OBVIOUS
  <2>1. \A i \in DOMAIN q : alive[q[i]] = 0
    BY DEF Init
  <2> QED
    BY <2>1 DEF Ordered
<1>2. ASSUME PoolInv, Ordered, [Next]_vars,
             recycler = "sweeping", recycler' = "sleeping"
      PROVE  Len(q) <= MinSize \/ \A c \in Queued : ~Expired(c)
  <2>1. ~Recyclable
    BY <1>2 DEF Next, GetConnection, Take, Wait, WaitTimeout, Release,
       AddConnection, ProducerWait, ProducerDone, RecyclerWake,
       RecycleConnection, RecyclerDone, Tick, vars
  <2>2. SUFFICES ASSUME Len(q) > MinSize, NEW c \in Queued
                 PROVE  ~Expired(c)
    BY <1>2, PoolAssumption, LenProperties DEF PoolInv, TypeOK, PoolAssumption
  <2>3. /\ DOMAIN q = 1..Len(q) /\ Len(q) \in Nat /\ 1 \in DOMAIN q
        /\ Head(q) = q[1] /\ \A i \in DOMAIN q : q[i] \in Connection
    BY <1>2, <2>2, PoolAssumption, LenProperties, ElementOfSeq
    DEF PoolInv, TypeOK, PoolAssumption
  <2>4. alive[q[1]] < MaxIdle
    BY <1>2, <2>1, <2>2, <2>3, PoolAssumption
    DEF Recyclable, Expired, PoolInv, TypeOK, PoolAssumption
  <2>5. PICK i \in DOMAIN q : c = q[i]
    BY DEF Queued, Range
  <2>6. alive[q[i]] <= alive[q[1]]
    BY <1>2, <2>3, <2>5 DEF Ordered, PoolInv, TypeOK
  <2>7. alive[q[i]] \in Nat /\ alive[q[1]] \in Nat
    BY <1>2, <2>3, PoolAssumption DEF PoolInv, TypeOK, PoolAssumption
  <2> QED
    BY <2>4, <2>5, <2>6, <2>7, PoolAssumption DEF Expired, PoolAssumption
<1>3. PoolInv /\ Ordered /\ [Next]_vars =>
         [recycler = "sweeping" /\ recycler' = "sleeping" =>
             \/ Len(connectionQueue_) <= MinSize
             \/ \A c \in Queued : ~Expired(c)]_vars
  BY <1>2
<1> QED
  BY <1>1, <1>3, PoolInit, PoolStep, OrderedStep, PTL DEF Spec, SweepIsComplete
=============================================================================
