------------------------ MODULE ChatDeliveryProofs -------------------------
(***************************************************************************)
(* Proofs about the promises of ChatDelivery, for any number of servers,   *)
(* clients, accounts, groups and messages.                                 *)
(*                                                                         *)
(* A message for u is at places of some kinds (Has).  Every step takes one *)
(* copy from one kind of place to another, or none: NeverTwice.  Where a   *)
(* copy stays or goes, seen from its place (Takes): NoOtherLoss.  Both,    *)
(* for an addressee whose session is settled: SettledGetsOne.              *)
(***************************************************************************)
EXTENDS ChatDelivery, ChatSessionProofs, FiniteSetTheorems

USE DEF PCs, LoginSteps, ChatSteps, GroupLocked, CloseSteps, AtRest

(* A family of queues q[s], s in S, and the places of e in them.           *)
QHas(q, S, e) == \E s \in S : \E i \in DOMAIN q[s] : q[s][i] = e
QOnce(q, S, e) ==
    \A s, t \in S : \A i \in DOMAIN q[s], j \in DOMAIN q[t] :
       q[s][i] = e /\ q[t][j] = e => s = t /\ i = j

QKept(q, r, S, e) ==
    (QHas(r, S, e) => QHas(q, S, e)) /\ (QOnce(q, S, e) => QOnce(r, S, e))

LEMMA QCleared ==
    ASSUME NEW S, NEW q, NEW r, NEW e, \A s \in S : r[s] \in {q[s], <<>>}
    PROVE  QKept(q, r, S, e)
BY DEF QKept, QHas, QOnce

LEMMA QTail ==
    ASSUME NEW S, NEW E, NEW q \in [S -> Seq(E)], NEW s \in S, q[s] # <<>>,
           NEW e
    PROVE  LET r == [q EXCEPT ![s] = Tail(@)]
           IN /\ QKept(q, r, S, e)
              /\ Head(q[s]) = e => QHas(q, S, e)
              /\ Head(q[s]) = e /\ QOnce(q, S, e) => ~QHas(r, S, e)
<1> DEFINE r == [q EXCEPT ![s] = Tail(@)]
           back(t, j) == IF t = s THEN j + 1 ELSE j
<1>1. q[s] \in Seq(E) /\ 1 \in DOMAIN q[s] /\ q[s][1] = Head(q[s])
  BY HeadTailProperties
<1>2. /\ \A j \in DOMAIN Tail(q[s]) :
            j \in Nat \ {0} /\ j + 1 \in DOMAIN q[s] /\ Tail(q[s])[j] = q[s][j + 1]
  BY <1>1, HeadTailProperties
<1>3. \A t \in S : t # s => r[t] = q[t]
  OBVIOUS
<1>4. r[s] = Tail(q[s])
  OBVIOUS
<1>5. \A t \in S : DOMAIN q[t] \subseteq Nat
  OBVIOUS
<1> HIDE DEF r
<1>6. \A t \in S : \A j \in DOMAIN r[t] :
         back(t, j) \in DOMAIN q[t] /\ r[t][j] = q[t][back(t, j)]
  BY <1>2, <1>3, <1>4
<1>7. QHas(r, S, e) => QHas(q, S, e)
  BY <1>6 DEF QHas
<1>8. ASSUME QOnce(q, S, e), NEW t \in S, NEW w \in S,
             NEW i \in DOMAIN r[t], NEW j \in DOMAIN r[w],
             r[t][i] = e, r[w][j] = e
      PROVE  t = w /\ i = j
  <2>1. t = w /\ back(t, i) = back(w, j)
    BY <1>6, <1>8 DEF QOnce
  <2>2. i \in Nat /\ j \in Nat
    BY <1>2, <1>3, <1>4, <1>5
  <2> QED
    BY <2>1, <2>2
<1>9. Head(q[s]) = e => QHas(q, S, e)
  BY <1>1 DEF QHas
<1>10. ASSUME Head(q[s]) = e, QOnce(q, S, e), NEW t \in S,
              NEW j \in DOMAIN r[t], r[t][j] = e
       PROVE  FALSE
  <2>1. t = s /\ back(t, j) = 1
    BY <1>1, <1>6, <1>10 DEF QOnce
  <2> QED
    BY <2>1, <1>2, <1>4
<1>11. Head(q[s]) = e /\ QOnce(q, S, e) => ~QHas(r, S, e)
  BY <1>10 DEF QHas
<1> QED
  BY <1>7, <1>8, <1>9, <1>11 DEF QKept, QOnce, r

LEMMA QAppend ==
    ASSUME NEW S, NEW E, NEW q \in [S -> Seq(E)], NEW s \in S, NEW x \in E,
           NEW e
    PROVE  LET r == [q EXCEPT ![s] = Append(@, x)]
           IN /\ x # e => QKept(q, r, S, e)
              /\ ~QHas(q, S, e) => QOnce(r, S, e)
<1> DEFINE r == [q EXCEPT ![s] = Append(@, x)]
           n == Len(q[s]) + 1
<1>1. /\ DOMAIN r[s] = DOMAIN q[s] \cup {n}
      /\ r[s][n] = x
      /\ \A i \in DOMAIN q[s] : r[s][i] = q[s][i]
  <2>1. q[s] \in Seq(E)
    OBVIOUS
  <2>2. /\ Append(q[s], x) \in Seq(E)
        /\ Len(Append(q[s], x)) = Len(q[s]) + 1
        /\ \A i \in 1..Len(q[s]) : Append(q[s], x)[i] = q[s][i]
        /\ Append(q[s], x)[Len(q[s]) + 1] = x
    BY <2>1, AppendProperties
  <2>3. r[s] = Append(q[s], x)
    OBVIOUS
  <2>4. DOMAIN q[s] = 1..Len(q[s]) /\ Len(q[s]) \in Nat
        /\ DOMAIN r[s] = 1..(Len(q[s]) + 1)
    BY <2>1, <2>2, <2>3, LenProperties
  <2> QED
    BY <2>2, <2>3, <2>4
<1>2. \A t \in S : t # s => r[t] = q[t]
  OBVIOUS
<1> HIDE DEF r, n
<1>3. \A t \in S : \A i \in DOMAIN r[t] :
         \/ i \in DOMAIN q[t] /\ r[t][i] = q[t][i]
         \/ t = s /\ i = n /\ r[t][i] = x
  BY <1>1, <1>2
<1>4. \A t \in S : DOMAIN q[t] \subseteq DOMAIN r[t]
  BY <1>1, <1>2
<1> QED
  BY <1>3, <1>4 DEF QKept, QHas, QOnce, r

(* A broadcast to the queues of the servers in W appends to each of them.  *)
LEMMA QBroadcast ==
    ASSUME NEW S, NEW E, NEW q \in [S -> Seq(E)], NEW W, NEW x \in E, NEW e,
           NEW r,
           \A s \in S : r[s] = IF s \in W THEN Append(q[s], x) ELSE q[s]
    PROVE  /\ x # e => QKept(q, r, S, e)
           /\ ~QHas(q, S, e) /\ (\A s, t \in W : s = t) => QOnce(r, S, e)
<1>1. ASSUME NEW s \in S
      PROVE  /\ s \in W =>
                  /\ \A i \in DOMAIN r[s] :
                       \/ i \in DOMAIN q[s] /\ r[s][i] = q[s][i]
                       \/ i = Len(q[s]) + 1 /\ r[s][i] = x
                  /\ DOMAIN q[s] \subseteq DOMAIN r[s]
             /\ s \notin W => r[s] = q[s]
  <2>1. q[s] \in Seq(E)
    OBVIOUS
  <2>2. /\ Append(q[s], x) \in Seq(E)
        /\ Len(Append(q[s], x)) = Len(q[s]) + 1
        /\ \A i \in 1..Len(q[s]) : Append(q[s], x)[i] = q[s][i]
        /\ Append(q[s], x)[Len(q[s]) + 1] = x
    BY <2>1, AppendProperties
  <2>3. DOMAIN q[s] = 1..Len(q[s]) /\ Len(q[s]) \in Nat
        /\ DOMAIN Append(q[s], x) = 1..(Len(q[s]) + 1)
    BY <2>1, <2>2, LenProperties
  <2>4. r[s] = IF s \in W THEN Append(q[s], x) ELSE q[s]
    OBVIOUS
  <2> DEFINE a == Append(q[s], x)
  <2> HIDE DEF a
  <2>5. /\ \A i \in DOMAIN a :
              \/ i \in DOMAIN q[s] /\ a[i] = q[s][i]
              \/ i = Len(q[s]) + 1 /\ a[i] = x
        /\ DOMAIN q[s] \subseteq DOMAIN a
    BY <2>2, <2>3 DEF a
  <2> QED
    BY <2>4, <2>5 DEF a
<1>2. \A s \in S : DOMAIN q[s] \subseteq DOMAIN r[s]
  BY <1>1
<1> QED
  BY <1>1, <1>2 DEF QKept, QHas, QOnce

-----------------------------------------------------------------------------
(* The kinds of places a message can be at; "unsent" is before the handler *)
(* that sends it to u.  Once(k): at one place of the kind at most.         *)
Kinds == {"unsent", "handler", "redisOut", "observer", "pending", "offlineMsg",
          "read", "shown"}

Reading(c, u) == uid[c] = u /\ pc[c] = "respond"

Has(k, u, m) ==
    \/ k = "unsent" /\ u \notin sentTo[m]
    \/ k = "handler" /\ \E c \in Conn : Routing(c, u, m)
    \/ k = "redisOut" /\ QHas(redisOut, Server, <<u, m>>)
    \/ k = "observer" /\ \E s \in Server : observer[s] = <<u, m>>
    \/ k = "pending" /\ QHas(pending, Conn, <<u, m>>)
    \/ k = "offlineMsg" /\ offlineMsg[u][m] > 0
    \/ k = "read" /\ \E c \in Conn : Reading(c, u) /\ read[c][m] > 0
    \/ k = "shown" /\ shown[u][m] > 0

Once(k, u, m) ==
    /\ k = "handler" =>
          \A c, d \in Conn : Routing(c, u, m) /\ Routing(d, u, m) => c = d
    /\ k = "redisOut" => QOnce(redisOut, Server, <<u, m>>)
    /\ k = "observer" =>
          \A s, t \in Server :
             observer[s] = <<u, m>> /\ observer[t] = <<u, m>> => s = t
    /\ k = "pending" => QOnce(pending, Conn, <<u, m>>)
    /\ k = "offlineMsg" => offlineMsg[u][m] <= 1
    /\ k = "read" =>
          /\ \A c, d \in Conn :
                Reading(c, u) /\ read[c][m] > 0 /\ Reading(d, u) /\ read[d][m] > 0
                   => c = d
          /\ \A c \in Conn : Reading(c, u) => read[c][m] <= 1
    /\ k = "shown" => shown[u][m] <= 1

Single(u, m) ==
    /\ \A k \in Kinds : Once(k, u, m)
    /\ \A j, k \in Kinds : Has(j, u, m) /\ Has(k, u, m) => j = k

(* A step keeps the copies of one kind, or leaves fewer of them; it keeps  *)
(* all of them; it moves a copy from one kind of place to another.         *)
KindKept(k, u, m) ==
    /\ Has(k, u, m)' => Has(k, u, m)
    /\ Once(k, u, m) => Once(k, u, m)'

Stays(u, m) == \A k \in Kinds : KindKept(k, u, m)

Moves(a, b, u, m) ==
    /\ \A k \in Kinds \ {a, b} : KindKept(k, u, m)
    /\ Has(a, u, m)
    /\ Once(a, u, m) => ~Has(a, u, m)'
    /\ Once(a, u, m) /\ ~Has(b, u, m) => Once(b, u, m)'

LEMMA NoneIsOnce ==
    MailOK => \A u \in User, m \in Msg, k \in Kinds : Has(k, u, m) \/ Once(k, u, m)
<1> SUFFICES ASSUME MailOK, NEW u \in User, NEW m \in Msg, NEW k \in Kinds,
                    ~Has(k, u, m)
             PROVE  Once(k, u, m)
  OBVIOUS
<1>1. CASE k \in {"unsent", "handler", "redisOut", "observer", "pending"}
  BY <1>1 DEF Has, Once, QHas, QOnce
<1>2. CASE k = "offlineMsg" \/ k = "shown"
  <2>1. offlineMsg[u][m] \in Nat /\ shown[u][m] \in Nat
    BY DEF MailOK
  <2> QED
    BY <1>2, <2>1 DEF Has, Once
<1>3. CASE k = "read"
  <2>1. offlineMsg[u][m] \in Nat /\ shown[u][m] \in Nat
        /\ \A c \in Conn : read[c][m] \in Nat
    BY DEF MailOK
  <2>2. \A c \in Conn : Reading(c, u) => read[c][m] = 0
    BY <1>3, <2>1 DEF Has
  <2> QED
    BY <1>3, <2>1, <2>2 DEF Once
<1> QED
  BY <1>1, <1>2, <1>3 DEF Kinds

LEMMA NoneIsOnceNext ==
    MailOK' =>
       \A u \in User, m \in Msg, k \in Kinds : Has(k, u, m)' \/ Once(k, u, m)'
<1>1. (MailOK => \A u \in User, m \in Msg, k \in Kinds :
                    Has(k, u, m) \/ Once(k, u, m))'
  BY NoneIsOnce, PTL
<1> QED
  BY <1>1

LEMMA MovesKeepSingle ==
    ASSUME MailOK, MailOK', NEW u \in User, NEW m \in Msg, Single(u, m),
           \/ Stays(u, m)
           \/ \E a \in Kinds : \E b \in Kinds \ {a} : Moves(a, b, u, m)
    PROVE  Single(u, m)'
<1>1. CASE Stays(u, m)
  BY <1>1, Zenon DEF Stays, KindKept, Single
<1>2. ASSUME NEW a \in Kinds, NEW b \in Kinds \ {a}, Moves(a, b, u, m)
      PROVE  Single(u, m)'
  <2>1. /\ Has(a, u, m) /\ Once(a, u, m) /\ ~Has(a, u, m)'
        /\ \A k \in Kinds : k # a => ~Has(k, u, m)
    BY <1>2, Zenon DEF Moves, Single
  <2>2. Once(a, u, m)'
    BY <2>1, NoneIsOnceNext
  <2>3. Once(b, u, m)'
    BY <1>2, <2>1, Zenon DEF Moves
  <2>4. \A k \in Kinds \ {a, b} : Once(k, u, m)' /\ ~Has(k, u, m)'
    BY <1>2, <2>1, Zenon DEF Moves, KindKept, Single
  <2>5. \A k \in Kinds : Once(k, u, m)'
    BY <2>2, <2>3, <2>4
  <2>6. \A j, k \in Kinds : Has(j, u, m)' /\ Has(k, u, m)' => j = k
    BY <2>1, <2>4
  <2> QED
    BY <2>5, <2>6, Zenon DEF Single
<1> QED
  BY <1>1, <1>2

(* The places of a message that has one copy at most are one place.        *)
LEMMA SingleIsOne ==
    ASSUME MailOK, NEW u \in User, NEW m \in Msg, Single(u, m)
    PROVE  \A p, q \in Copies(u, m) : p = q
<1> DEFINE IsPlace(p, k) ==
      \/ k = "redisOut" /\ \E s \in Server : \E i \in DOMAIN redisOut[s] :
            redisOut[s][i] = <<u, m>> /\ p = <<k, s, i>>
      \/ k = "observer" /\ \E s \in Server :
            observer[s] = <<u, m>> /\ p = <<k, s, 1>>
      \/ k = "pending" /\ \E c \in Conn : \E i \in DOMAIN pending[c] :
            pending[c][i] = <<u, m>> /\ p = <<k, c, i>>
      \/ k = "handler" /\ \E c \in Conn : Routing(c, u, m) /\ p = <<k, c, 1>>
      \/ k = "read" /\ \E c \in Conn : \E i \in 1..read[c][m] :
            Reading(c, u) /\ p = <<k, c, i>>
      \/ k = "offlineMsg" /\ \E i \in 1..offlineMsg[u][m] : p = <<k, u, i>>
      \/ k = "shown" /\ \E i \in 1..shown[u][m] : p = <<k, u, i>>
<1>1. ASSUME NEW p \in Copies(u, m)
      PROVE  \E k \in Kinds : IsPlace(p, k)
  <2>1. \/ \E s \in Server : \E i \in Positions(redisOut[s], <<u, m>>) :
              p = <<"redisOut", s, i>>
        \/ \E s \in Server : observer[s] = <<u, m>> /\ p = <<"observer", s, 1>>
        \/ \E c \in Conn : \E i \in Positions(pending[c], <<u, m>>) :
              p = <<"pending", c, i>>
        \/ \E c \in Conn : Routing(c, u, m) /\ p = <<"handler", c, 1>>
        \/ \E c \in Conn : \E i \in 1..read[c][m] :
              Reading(c, u) /\ p = <<"read", c, i>>
        \/ \E i \in 1..offlineMsg[u][m] : p = <<"offlineMsg", u, i>>
        \/ \E i \in 1..shown[u][m] : p = <<"shown", u, i>>
    BY <1>1 DEF Copies, InFlight, Reading
  <2> QED
    BY <2>1 DEF Positions, Kinds
<1>2. ASSUME NEW p, NEW k \in Kinds, IsPlace(p, k)
      PROVE  Has(k, u, m)
  <2>1. offlineMsg[u][m] \in Nat /\ shown[u][m] \in Nat
        /\ \A c \in Conn : read[c][m] \in Nat
    BY DEF MailOK
  <2>2. CASE k \in {"redisOut", "observer", "pending", "handler"}
    BY <1>2, <2>2 DEF Has, QHas
  <2>3. CASE k \in {"read", "offlineMsg", "shown"}
    BY <1>2, <2>1, <2>3 DEF Has
  <2> QED
    BY <1>2, <2>2, <2>3
<1>3. ASSUME NEW p, NEW q, NEW k \in Kinds, IsPlace(p, k), IsPlace(q, k)
      PROVE  p = q
  <2>1. offlineMsg[u][m] \in Nat /\ shown[u][m] \in Nat
        /\ \A c \in Conn : read[c][m] \in Nat
    BY DEF MailOK
  <2>2. Once(k, u, m)
    BY DEF Single
  <2>3. CASE k \in {"redisOut", "observer", "pending", "handler"}
    BY <1>3, <2>2, <2>3 DEF Once, QOnce
  <2>4. CASE k \in {"read", "offlineMsg", "shown"}
    BY <1>3, <2>1, <2>2, <2>4 DEF Once
  <2> QED
    BY <1>3, <2>3, <2>4
<1> HIDE DEF IsPlace
<1> QED
  BY <1>1, <1>2, <1>3 DEF Single

-----------------------------------------------------------------------------
(* A handler that has no recipient to work on holds none: the locals of    *)
(* one chat handler are not seen by the next one.                          *)
LocalsClear ==
    \A c \in Conn :
       /\ pc[c] \notin GroupLocked \cup {"lock"} => todo[c] = {}
       /\ pc[c] \notin {"query", "publish", "store", "groupPublish", "groupStore"}
            => tgt[c] = NoUser
       /\ tgt[c] \notin todo[c]

LEMMA LocalsClearStep ==
    ASSUME HandlersOK, AwayTogether, LocalsClear, [Next]_vars
    PROVE  LocalsClear'
<1> USE ConstantsAssumption DEF HandlersOK, LocalsClear, Goto
<1>1. ASSUME NEW c \in Conn, LoginStep(c)
      PROVE  LocalsClear'
  BY <1>1 DEF LoginStep, LoginUnknown, LoginInUse, LoginAccept, LoginInsert,
     LoginSubscribe, LoginUpdate, LoginReadOffline, LoginRemoveOffline,
     LoginRespond
<1>2. ASSUME NEW c \in Conn, ChatStep(c)
      PROVE  LocalsClear'
  <2>0. NoUser \notin User
    BY DEF ConstantsAssumption
  <2>1. CASE QueryState(c)
    BY <2>1 DEF QueryState
  <2>2. CASE Publish(c)
    BY <2>0, <2>2 DEF Publish, Routed
  <2>3. CASE StoreOffline(c)
    BY <2>0, <2>3 DEF StoreOffline, Routed
  <2>4. CASE GroupLock(c) \/ GroupUnlock(c)
    BY <2>4 DEF GroupLock, GroupUnlock
  <2>5. ASSUME NEW u \in User, GroupMember(c, u)
        PROVE  LocalsClear'
    <3>1. /\ pc[c] = "loop"
          /\ \/ UNCHANGED <<pc, tgt>>
             \/ /\ \E step \in {"groupPublish", "groupStore"} : Goto(c, step)
                /\ tgt' = [tgt EXCEPT ![c] = u]
          /\ todo' = [todo EXCEPT ![c] = @ \ {u}]
      BY <2>5 DEF GroupMember
    <3> QED
      BY <3>1
  <2> QED
    BY <1>2, <2>1, <2>2, <2>3, <2>4, <2>5 DEF ChatStep
<1>3. ASSUME NEW c \in Conn, CloseStep(c) \/ RunFunctor(c)
      PROVE  LocalsClear'
  <2>1. UNCHANGED <<tgt, todo>>
        /\ (UNCHANGED pc \/ \E step \in CloseSteps \cup {"closed"} : Goto(c, step))
        /\ (pc[c] = "idle" \/ pc[c] \in CloseSteps \/ UNCHANGED pc)
    BY <1>3 DEF CloseStep, HandleClose, Ready, CloseErase, CloseUnsubscribe,
                CloseSetOffline, RunFunctor, handlerVars
  <2> QED
    BY <2>1
<1>4. ASSUME NEW c \in Conn, ClientStep(c)
      PROVE  LocalsClear'
  <2>1. CASE Connect(c) \/ Loginout(c) \/ Quit(c)
    BY <2>1 DEF Connect, Loginout, Quit, handlerVars, AwayTogether
  <2>2. ASSUME NEW u \in Accounts[c], LoginRequest(c, u)
        PROVE  LocalsClear'
    BY <2>2 DEF LoginRequest, Ready
  <2>3. ASSUME NEW m \in Msg, NEW u \in User, OneChat(c, m, u)
        PROVE  LocalsClear'
    <3>1. /\ pc[c] = "idle"
          /\ UNCHANGED todo
          /\ \/ UNCHANGED <<pc, tgt>>
             \/ Goto(c, "query") /\ tgt' = [tgt EXCEPT ![c] = u]
      BY <2>3 DEF OneChat, Ready
    <3> QED
      BY <3>1
  <2>4. ASSUME NEW m \in Msg, NEW g \in Groups, GroupChat(c, m, g)
        PROVE  LocalsClear'
    <3>1. /\ pc[c] = "idle" /\ Goto(c, "lock") /\ UNCHANGED tgt
          /\ \E rest \in SUBSET User : todo' = [todo EXCEPT ![c] = rest]
      BY <2>4 DEF GroupChat, Ready, ConstantsAssumption
    <3>2. NoUser \notin User
      BY DEF ConstantsAssumption
    <3> QED
      BY <3>1, <3>2
  <2> QED
    BY <1>4, <2>1, <2>2, <2>3, <2>4 DEF ClientStep
<1>5. ASSUME NEW s \in Server, ObserverStep(s) \/ RedisExecute(s) \/ Interrupt(s)
      PROVE  LocalsClear'
  BY <1>5 DEF ObserverStep, Notify, NotifyStore, RedisExecute, Interrupt,
              handlerVars
<1>6. ASSUME NEW s \in Server, ServerStops(s)
      PROVE  LocalsClear'
  BY <1>6 DEF ServerStops
<1>7. CASE UNCHANGED vars
  BY <1>7 DEF vars, handlerVars
<1> QED
  BY <1>1, <1>2, <1>3, <1>4, <1>5, <1>6, <1>7
  DEF Next, HandlerStep, StopStep, Kill, Exit, AllGone

(* What a login handler has read is still in the table when it deletes the *)
(* rows: nobody else deletes rows of an account that it owns.              *)
ReadStored ==
    \A c \in Conn, m \in Msg :
       pc[c] = "removeOffline" => read[c][m] <= offlineMsg[uid[c]][m]

LEMMA ReadStoredStep ==
    ASSUME HandlersOK, SessionsOK, MailOK, OneOwner, ReadStored, [Next]_vars
    PROVE  ReadStored'
<1> DEFINE Grows == \A u \in User, m \in Msg : offlineMsg[u][m] <= offlineMsg'[u][m]
           Reads == \A d \in Conn : pc'[d] = "removeOffline" =>
              pc[d] = "removeOffline" /\ read'[d] = read[d] /\ uid'[d] = uid[d]
           Typed == /\ \A u \in User, m \in Msg : /\ offlineMsg[u][m] \in Nat
                                                  /\ offlineMsg'[u][m] \in Nat
                    /\ \A d \in Conn, m \in Msg : read[d][m] \in Nat
<1>1. \A d \in Conn : pc[d] = "removeOffline" => uid[d] \in User
  BY DEF HandlersOK, LocalsSet
<1>2. Typed
  <2>1. MailOK'
    BY MailStep
  <2> QED
    BY <2>1 DEF MailOK
<1>3. ASSUME Grows, Reads
      PROVE  ReadStored'
  <2> SUFFICES ASSUME NEW d \in Conn, NEW m \in Msg, pc'[d] = "removeOffline"
               PROVE  read'[d][m] <= offlineMsg'[uid'[d]][m]
    BY DEF ReadStored
  <2>1. pc[d] = "removeOffline" /\ read'[d] = read[d] /\ uid'[d] = uid[d]
        /\ uid[d] \in User
    BY <1>1, <1>3
  <2>2. read[d][m] <= offlineMsg[uid[d]][m]
    BY <2>1 DEF ReadStored
  <2>3. offlineMsg[uid[d]][m] <= offlineMsg'[uid[d]][m]
    BY <1>3, <2>1
  <2> QED
    BY <1>2, <2>1, <2>2, <2>3
<1>4. UNCHANGED offlineMsg => Grows
  BY <1>2
<1>5. ASSUME NEW u \in User, NEW m \in Msg, offlineMsg' = Stored(u, m)
      PROVE  Grows
  <2>1. \A v \in User, n \in Msg : offlineMsg'[v][n] =
           IF v = u /\ n = m THEN offlineMsg[v][n] + 1 ELSE offlineMsg[v][n]
    BY <1>5 DEF Stored, MailOK
  <2> QED
    BY <1>2, <2>1
<1> HIDE DEF Grows
<1> USE DEF HandlersOK, Goto
<1>6. ASSUME NEW c \in Conn, LoginStep(c), ~LoginReadOffline(c),
             ~LoginRemoveOffline(c)
      PROVE  Grows /\ Reads
  <2>1. CASE LoginRespond(c)
    BY <1>4, <2>1 DEF LoginRespond, MailOK
  <2> QED
    BY <1>4, <1>6, <2>1 DEF LoginStep, LoginUnknown, LoginInUse, LoginAccept,
       LoginInsert, LoginSubscribe, LoginUpdate, mailVars
<1>7. ASSUME NEW c \in Conn, LoginReadOffline(c)
      PROVE  ReadStored'
  <2> SUFFICES ASSUME NEW d \in Conn, NEW m \in Msg, pc'[d] = "removeOffline"
               PROVE  read'[d][m] <= offlineMsg'[uid'[d]][m]
    BY DEF ReadStored
  <2>1. /\ uid[c] \in User
        /\ read' = [read EXCEPT ![c] = offlineMsg[uid[c]]]
        /\ UNCHANGED <<uid, offlineMsg>>
        /\ d # c => pc[d] = "removeOffline"
    BY <1>7 DEF LoginReadOffline, mailVars, LocalsSet
  <2>2. CASE d = c
    <3>1. read'[d] = offlineMsg[uid[c]]
      BY <2>1, <2>2 DEF MailOK
    <3> QED
      BY <1>2, <2>1, <2>2, <3>1
  <2>3. CASE d # c
    <3>1. read'[d] = read[d]
      BY <2>1, <2>3 DEF MailOK
    <3> QED
      BY <2>1, <2>3, <3>1 DEF ReadStored
  <2> QED
    BY <2>2, <2>3
<1>8. ASSUME NEW c \in Conn, LoginRemoveOffline(c)
      PROVE  ReadStored'
  <2> SUFFICES ASSUME NEW d \in Conn, NEW m \in Msg, pc'[d] = "removeOffline"
               PROVE  read'[d][m] <= offlineMsg'[uid'[d]][m]
    BY DEF ReadStored
  <2>1. /\ pc[c] = "removeOffline" /\ pc[d] = "removeOffline" /\ d # c
        /\ UNCHANGED <<uid, read>>
        /\ offlineMsg' = [offlineMsg EXCEPT ![uid[c]] = NoMail]
        /\ uid[c] \in User /\ uid[d] \in User
    BY <1>1, <1>8 DEF LoginRemoveOffline
  <2>2. uid[d] # uid[c]
    BY <2>1 DEF OneOwner, Owns, LoggingIn
  <2>3. offlineMsg'[uid[d]] = offlineMsg[uid[d]]
    BY <2>1, <2>2 DEF MailOK
  <2> QED
    BY <2>1, <2>3 DEF ReadStored
<1>9. ASSUME NEW c \in Conn, ChatStep(c)
      PROVE  Grows /\ Reads
  <2>1. Reads
    BY <1>9 DEF ChatStep, QueryState, Publish, StoreOffline, Routed, GroupLock,
                GroupUnlock, GroupMember
  <2>2. CASE StoreOffline(c)
    <3>1. /\ offlineMsg' = Stored(tgt[c], msg[c])
          /\ tgt[c] \in User /\ msg[c] \in Msg
      BY <2>2 DEF StoreOffline, LocalsSet
    <3> QED
      BY <1>5, <2>1, <3>1
  <2>3. ~StoreOffline(c) => UNCHANGED offlineMsg
    BY <1>9 DEF ChatStep, QueryState, Publish, GroupLock, GroupUnlock,
                GroupMember, Send, mailVars
  <2> QED
    BY <1>4, <2>1, <2>2, <2>3
<1>10. ASSUME NEW c \in Conn, CloseStep(c) \/ RunFunctor(c)
       PROVE  Grows /\ Reads
  BY <1>4, <1>10 DEF CloseStep, HandleClose, CloseErase, CloseUnsubscribe,
     CloseSetOffline, RunFunctor, mailVars, handlerVars
<1>11. ASSUME NEW c \in Conn, ClientStep(c)
       PROVE  Grows /\ Reads
  <2>1. CASE Connect(c) \/ Loginout(c) \/ Quit(c)
    BY <1>4, <2>1 DEF Connect, Loginout, Quit, mailVars, handlerVars
  <2>2. ASSUME NEW u, LoginRequest(c, u)
        PROVE  Grows /\ Reads
    BY <1>4, <2>2 DEF LoginRequest, mailVars
  <2>3. ASSUME NEW m, NEW u, OneChat(c, m, u)
        PROVE  Grows /\ Reads
    <3>1. UNCHANGED <<offlineMsg, read, uid>>
      BY <2>3 DEF OneChat, Send, Display, mailVars
    <3>2. UNCHANGED pc \/ Goto(c, "query")
      BY <2>3 DEF OneChat
    <3> QED
      BY <1>4, <3>1, <3>2
  <2>4. ASSUME NEW m, NEW g, GroupChat(c, m, g)
        PROVE  Grows /\ Reads
    BY <1>4, <2>4 DEF GroupChat, mailVars
  <2> QED
    BY <1>11, <2>1, <2>2, <2>3, <2>4 DEF ClientStep
<1>12. ASSUME NEW s \in Server, ObserverStep(s)
       PROVE  Grows /\ Reads
  <2>1. Reads
    BY <1>12 DEF ObserverStep, Notify, NotifyStore, handlerVars
  <2>2. CASE Notify(s)
    BY <1>4, <2>1, <2>2 DEF Notify
  <2>3. CASE NotifyStore(s)
    <3>1. observer[s] \in Envelope
      BY <2>3 DEF NotifyStore, MailOK
    <3>2. observer[s][1] \in User /\ observer[s][2] \in Msg
      BY <3>1 DEF Envelope
    <3> QED
      BY <1>5, <2>1, <2>3, <3>2 DEF NotifyStore
  <2> QED
    BY <1>12, <2>2, <2>3 DEF ObserverStep
<1>13. ASSUME NEW s \in Server, RedisExecute(s) \/ Interrupt(s) \/ ServerStops(s)
       PROVE  Grows /\ Reads
  BY <1>4, <1>13 DEF RedisExecute, Interrupt, ServerStops, mailVars, handlerVars
<1>14. UNCHANGED vars => Grows /\ Reads
  BY <1>4 DEF vars, mailVars, handlerVars
<1>15. ASSUME NEW c \in Conn, HandlerStep(c)
       PROVE  ReadStored'
  BY <1>3, <1>6, <1>7, <1>8, <1>9, <1>10, <1>15, Zenon DEF HandlerStep
<1> QED
  BY <1>3, <1>11, <1>12, <1>13, <1>14, <1>15, Zenon
  DEF Next, StopStep, Kill, Exit, AllGone

-----------------------------------------------------------------------------
(* Whoever a server has to do with is somebody its clients log in as.      *)
OnLink(s, u) == \E i \in DOMAIN redisCmd[s] : redisCmd[s][i].user = u
WorkedOn(s, u) == \E c \in Conn : ServerOf[c] = s /\ uid[c] = u
Knows(s, u) ==
    \/ u \in subscribed[s] \/ OnLink(s, u)
    \/ userConnMap[s][u] # NoConn \/ WorkedOn(s, u)

ServedAt(s, u) == \E c \in Conn : ServerOf[c] = s /\ u \in Accounts[c]

HomeInv == \A s \in Server, u \in User : Knows(s, u) => ServedAt(s, u)

LEMMA HomeStep ==
    ASSUME HandlersOK, SessionsOK, LinksOK, HomeInv, [Next]_vars
    PROVE  HomeInv'
<1> DEFINE Learns(s, u) == Knows(s, u)' => Knows(s, u)
<1> USE DEF HandlersOK, Goto
<1>1. ASSUME \A s \in Server, u \in User : Learns(s, u)
      PROVE  HomeInv'
  <2>1. \A s \in Server, u \in User : ServedAt(s, u)' <=> ServedAt(s, u)
    BY DEF ServedAt
  <2> QED
    BY <1>1, <2>1 DEF HomeInv
<1>2. ASSUME UNCHANGED <<userConnMap, redisCmd, subscribed>>, NEW c \in Conn,
             NEW v \in User \cup {NoUser}, uid' = [uid EXCEPT ![c] = v],
             v \in User => ServedAt(ServerOf[c], v)
      PROVE  HomeInv'
  <2> SUFFICES ASSUME NEW s \in Server, NEW u \in User, Knows(s, u)'
               PROVE  ServedAt(s, u)
    BY DEF HomeInv, ServedAt
  <2>1. Knows(s, u) \/ (s = ServerOf[c] /\ u = v)
    BY <1>2 DEF Knows, OnLink, WorkedOn
  <2> QED
    BY <1>2, <2>1 DEF HomeInv
<1>3. ASSUME UNCHANGED <<userConnMap, redisCmd, subscribed, uid>>
      PROVE  HomeInv'
  BY <1>1, <1>3 DEF Knows, OnLink, WorkedOn
<1>4. ASSUME NEW c \in Conn, LoginInsert(c)
      PROVE  HomeInv'
  <2>1. /\ UNCHANGED <<uid, redisCmd, subscribed>>
        /\ uid[c] \in User /\ ServerOf[c] \in Server
    BY <1>4, ConstantsAssumption
    DEF LoginInsert, LocalsSet, redisVars, ConstantsAssumption
  <2> DEFINE old == userConnMap[ServerOf[c]][uid[c]]
             new == IF old = NoConn THEN c ELSE old
  <2>2. userConnMap' = [userConnMap EXCEPT ![ServerOf[c]][uid[c]] = new]
    BY <1>4 DEF LoginInsert
  <2>3. \A s \in Server, v \in User : userConnMap'[s][v] =
           IF s = ServerOf[c] /\ v = uid[c] THEN new ELSE userConnMap[s][v]
    BY <2>1, <2>2 DEF SessionsOK
  <2> HIDE DEF new
  <2>4. \A s \in Server, v \in User : userConnMap'[s][v] # NoConn =>
           userConnMap[s][v] # NoConn \/ WorkedOn(s, v)
    BY <2>1, <2>3 DEF WorkedOn
  <2>5. \A s \in Server, v \in User : /\ OnLink(s, v)' <=> OnLink(s, v)
                                      /\ WorkedOn(s, v)' <=> WorkedOn(s, v)
    BY <2>1 DEF OnLink, WorkedOn
  <2> QED
    BY <1>1, <2>1, <2>4, <2>5 DEF Knows
<1>5. ASSUME NEW c \in Conn, NEW op \in {"SUBSCRIBE", "UNSUBSCRIBE"},
             RedisCommand(ServerOf[c], op, uid[c]), uid[c] \in User,
             UNCHANGED <<userConnMap, subscribed, uid>>
      PROVE  HomeInv'
  <2> DEFINE s0 == ServerOf[c]
             cmd == [op |-> op, user |-> uid[c]]
  <2>1. s0 \in Server /\ cmd \in Command /\ cmd.user = uid[c]
    BY <1>5, ConstantsAssumption DEF ConstantsAssumption, Command
  <2>2. redisCmd[s0] \in Seq(Command)
    BY <2>1 DEF LinksOK
  <2>3. redisCmd' = [redisCmd EXCEPT ![s0] = Append(@, cmd)]
    BY <1>5 DEF RedisCommand
  <2> HIDE DEF cmd
  <2>4. /\ Append(redisCmd[s0], cmd) \in Seq(Command)
        /\ Len(Append(redisCmd[s0], cmd)) = Len(redisCmd[s0]) + 1
        /\ \A i \in 1..Len(redisCmd[s0]) :
              Append(redisCmd[s0], cmd)[i] = redisCmd[s0][i]
        /\ Append(redisCmd[s0], cmd)[Len(redisCmd[s0]) + 1] = cmd
    BY <2>1, <2>2, AppendProperties
  <2>5. DOMAIN redisCmd[s0] = 1..Len(redisCmd[s0]) /\ Len(redisCmd[s0]) \in Nat
        /\ DOMAIN Append(redisCmd[s0], cmd) = 1..(Len(redisCmd[s0]) + 1)
    BY <2>2, <2>4, LenProperties
  <2>6. \A i \in DOMAIN Append(redisCmd[s0], cmd) :
           \/ i \in DOMAIN redisCmd[s0]
              /\ Append(redisCmd[s0], cmd)[i] = redisCmd[s0][i]
           \/ Append(redisCmd[s0], cmd)[i] = cmd
    BY <2>4, <2>5
  <2>7. redisCmd'[s0] = Append(redisCmd[s0], cmd)
        /\ \A s \in Server : s # s0 => redisCmd'[s] = redisCmd[s]
    BY <2>1, <2>3 DEF LinksOK
  <2> HIDE DEF s0
  <2>8. \A s \in Server, v \in User : OnLink(s, v)' =>
           OnLink(s, v) \/ (s = s0 /\ v = uid[c])
    BY <2>1, <2>6, <2>7 DEF OnLink
  <2>9. \A s \in Server, v \in User : OnLink(s, v)' => OnLink(s, v) \/ WorkedOn(s, v)
    BY <2>8 DEF WorkedOn, s0
  <2>10. \A s \in Server, v \in User : WorkedOn(s, v)' <=> WorkedOn(s, v)
    BY <1>5 DEF WorkedOn
  <2> QED
    BY <1>1, <1>5, <2>9, <2>10 DEF Knows
<1>6. ASSUME NEW c \in Conn, CloseErase(c)
      PROVE  HomeInv'
  <2>1. UNCHANGED <<redisCmd, subscribed>>
    BY <1>6 DEF CloseErase, redisVars
  <2>2. CASE UNCHANGED userConnMap /\ uid' = [uid EXCEPT ![c] = NoUser]
    <3>1. NoUser \notin User
      BY ConstantsAssumption DEF ConstantsAssumption
    <3> QED
      BY <1>2, <2>1, <2>2, <3>1
  <2>3. ASSUME NEW u \in User, Mapped(u, c), uid' = [uid EXCEPT ![c] = u],
               userConnMap' = [userConnMap EXCEPT ![ServerOf[c]][u] = NoConn]
        PROVE  HomeInv'
    <3>1. ServerOf[c] \in Server /\ userConnMap[ServerOf[c]][u] # NoConn
      <4>1. ServerOf[c] \in Server /\ NoConn \notin Conn
        BY ConstantsAssumption DEF ConstantsAssumption
      <4>2. userConnMap[ServerOf[c]][u] = c
        BY <2>3 DEF Mapped
      <4> QED
        BY <4>1, <4>2
    <3>2. \A s \in Server, v \in User : userConnMap'[s][v] =
             IF s = ServerOf[c] /\ v = u THEN NoConn ELSE userConnMap[s][v]
      BY <2>3, <3>1 DEF SessionsOK
    <3>3. \A s \in Server, v \in User : WorkedOn(s, v)' =>
             WorkedOn(s, v) \/ userConnMap[s][v] # NoConn
      BY <2>3, <3>1 DEF WorkedOn
    <3>4. \A s \in Server, v \in User : OnLink(s, v)' <=> OnLink(s, v)
      BY <2>1 DEF OnLink
    <3> QED
      BY <1>1, <2>1, <3>2, <3>3, <3>4 DEF Knows
  <2> QED
    BY <1>6, <2>2, <2>3 DEF CloseErase
<1>7. ASSUME NEW s \in Server, RedisExecute(s)
      PROVE  HomeInv'
  <2>1. redisCmd[s] \in Seq(Command) /\ redisCmd[s] # <<>>
    BY <1>7 DEF RedisExecute, LinksOK
  <2>2. /\ 1 \in DOMAIN redisCmd[s] /\ redisCmd[s][1] = Head(redisCmd[s])
        /\ \A j \in DOMAIN Tail(redisCmd[s]) : j + 1 \in DOMAIN redisCmd[s]
              /\ Tail(redisCmd[s])[j] = redisCmd[s][j + 1]
    BY <2>1, HeadTailProperties
  <2>3. /\ redisCmd'[s] = Tail(redisCmd[s])
        /\ \A t \in Server : t # s => redisCmd'[t] = redisCmd[t]
        /\ \A t \in Server : t # s => subscribed'[t] = subscribed[t]
        /\ subscribed'[s] \subseteq subscribed[s] \cup {Head(redisCmd[s]).user}
        /\ UNCHANGED <<userConnMap, uid>>
    <3> DEFINE now == IF Head(redisCmd[s]).op = "SUBSCRIBE"
                      THEN subscribed[s] \cup {Head(redisCmd[s]).user}
                      ELSE subscribed[s] \ {Head(redisCmd[s]).user}
    <3>1. /\ redisCmd' = [redisCmd EXCEPT ![s] = Tail(redisCmd[s])]
          /\ subscribed' = [subscribed EXCEPT ![s] = now]
          /\ UNCHANGED <<userConnMap, uid>>
      BY <1>7 DEF RedisExecute, sessionVars, handlerVars
    <3>2. now \subseteq subscribed[s] \cup {Head(redisCmd[s]).user}
      OBVIOUS
    <3> HIDE DEF now
    <3> QED
      BY <3>1, <3>2 DEF LinksOK
  <2>4. ASSUME NEW t \in Server, NEW v \in User, OnLink(t, v)'
        PROVE  OnLink(t, v)
    <3>1. PICK j \in DOMAIN redisCmd'[t] : redisCmd'[t][j].user = v
      BY <2>4 DEF OnLink
    <3>2. CASE t = s
      <4>1. j + 1 \in DOMAIN redisCmd[s] /\ redisCmd[s][j + 1].user = v
        BY <2>2, <2>3, <3>1, <3>2
      <4> QED
        BY <3>2, <4>1 DEF OnLink
    <3>3. CASE t # s
      BY <2>3, <3>1, <3>3 DEF OnLink
    <3> QED
      BY <3>2, <3>3
  <2>5. \A t \in Server, v \in User : v \in subscribed'[t] =>
           v \in subscribed[t] \/ OnLink(t, v)
    BY <2>2, <2>3 DEF OnLink
  <2>6. \A t \in Server, v \in User : WorkedOn(t, v)' <=> WorkedOn(t, v)
    BY <2>3 DEF WorkedOn
  <2> QED
    BY <1>1, <2>3, <2>4, <2>5, <2>6 DEF Knows
<1>8. ASSUME NEW s \in Server, ServerStops(s)
      PROVE  HomeInv'
  <2>1. \A t \in Server : subscribed'[t] \in {subscribed[t], {}}
                          /\ redisCmd'[t] \in {redisCmd[t], <<>>}
    BY <1>8 DEF ServerStops, LinksOK
  <2>2. \A t \in Server, u \in User : userConnMap'[t][u] \in {userConnMap[t][u], NoConn}
    BY <1>8 DEF ServerStops, SessionsOK, Nobody
  <2>3. NoUser \notin User /\ \A c \in Conn : uid'[c] \in {uid[c], NoUser}
    BY <1>8, ConstantsAssumption DEF ServerStops, ConstantsAssumption
  <2>4. \A t \in Server, u \in User : /\ OnLink(t, u)' => OnLink(t, u)
                                      /\ WorkedOn(t, u)' => WorkedOn(t, u)
    BY <2>1, <2>3 DEF OnLink, WorkedOn
  <2> QED
    BY <1>1, <2>1, <2>2, <2>4 DEF Knows
<1>9. ASSUME NEW c \in Conn, LoginStep(c)
      PROVE  HomeInv'
  <2>0. NoUser \notin User
    BY ConstantsAssumption DEF ConstantsAssumption
  <2>1. CASE LoginInUse(c) \/ LoginRespond(c)
    BY <1>2, <2>0, <2>1 DEF LoginInUse, LoginRespond, sessionVars, redisVars
  <2>2. CASE LoginUnknown(c) \/ LoginAccept(c) \/ LoginUpdate(c)
             \/ LoginReadOffline(c) \/ LoginRemoveOffline(c)
    BY <1>3, <2>2 DEF LoginUnknown, LoginAccept, LoginUpdate, LoginReadOffline,
       LoginRemoveOffline, sessionVars, redisVars
  <2>3. CASE LoginSubscribe(c)
    BY <1>5, <2>3 DEF LoginSubscribe, LocalsSet, sessionVars
  <2> QED
    BY <1>4, <1>9, <2>1, <2>2, <2>3 DEF LoginStep
<1>10. ASSUME NEW c \in Conn, CloseStep(c)
       PROVE  HomeInv'
  <2>0. NoUser \notin User
    BY ConstantsAssumption DEF ConstantsAssumption
  <2>1. CASE HandleClose(c)
    BY <1>3, <2>1 DEF HandleClose, sessionVars, redisVars
  <2>2. CASE CloseUnsubscribe(c)
    <3>1. \/ uid[c] \in User /\ RedisCommand(ServerOf[c], "UNSUBSCRIBE", uid[c])
          \/ UNCHANGED redisCmd
      BY <2>2 DEF CloseUnsubscribe
    <3> QED
      BY <1>3, <1>5, <2>2, <3>1 DEF CloseUnsubscribe, sessionVars
  <2>3. CASE CloseSetOffline(c)
    BY <1>2, <2>0, <2>3 DEF CloseSetOffline, redisVars
  <2> QED
    BY <1>6, <1>10, <2>1, <2>2, <2>3 DEF CloseStep
<1>11. ASSUME NEW c \in Conn, ChatStep(c) \/ RunFunctor(c)
       PROVE  HomeInv'
  <2>1. UNCHANGED <<userConnMap, redisCmd, subscribed, uid>>
    BY <1>11 DEF ChatStep, QueryState, Publish, StoreOffline, Routed, GroupLock,
       GroupUnlock, GroupMember, RunFunctor, sessionVars, redisVars, handlerVars
  <2> QED
    BY <1>3, <2>1
<1>12. ASSUME NEW c \in Conn, ClientStep(c)
       PROVE  HomeInv'
  <2>1. ASSUME NEW u \in Accounts[c], LoginRequest(c, u)
        PROVE  HomeInv'
    <3>1. u \in User \cup {NoUser} /\ ServedAt(ServerOf[c], u)
      BY ConstantsAssumption DEF ConstantsAssumption, ServedAt
    <3> QED
      BY <1>2, <2>1, <3>1 DEF LoginRequest, sessionVars, redisVars
  <2>2. ASSUME \A u \in Accounts[c] : ~LoginRequest(c, u)
        PROVE  UNCHANGED <<userConnMap, redisCmd, subscribed, uid>>
    BY <1>12, <2>2 DEF ClientStep, Connect, Loginout, Quit, OneChat, GroupChat,
       sessionVars, redisVars, handlerVars
  <2> QED
    BY <1>3, <2>1, <2>2
<1>13. ASSUME NEW s \in Server, ObserverStep(s) \/ Interrupt(s)
       PROVE  HomeInv'
  BY <1>3, <1>13 DEF ObserverStep, Notify, NotifyStore, Interrupt, sessionVars,
     redisVars, handlerVars
<1>14. CASE UNCHANGED vars
  BY <1>3, <1>14 DEF vars, sessionVars, redisVars, handlerVars
<1> QED
  BY <1>7, <1>8, <1>9, <1>10, <1>11, <1>12, <1>13, <1>14, Zenon
  DEF Next, HandlerStep, StopStep, Kill, Exit, AllGone

-----------------------------------------------------------------------------
(* What a step does to the copies of m for u, one kind of place at a time. *)
StepFor(u, m) ==
    Stays(u, m) \/ \E a \in Kinds : \E b \in Kinds \ {a} : Moves(a, b, u, m)

(* No reply of a login gets more to say. *)
ReadSame(u, m) ==
    \A c \in Conn : Reading(c, u)' =>
       (Reading(c, u) /\ read'[c][m] = read[c][m]) \/ read'[c][m] = 0

LEMMA SameKinds ==
    ASSUME MailOK, MailOK', NEW u \in User, NEW m \in Msg
    PROVE  /\ UNCHANGED sentTo => KindKept("unsent", u, m)
           /\ UNCHANGED <<msg, tgt, todo>> => KindKept("handler", u, m)
           /\ UNCHANGED redisOut => KindKept("redisOut", u, m)
           /\ UNCHANGED observer => KindKept("observer", u, m)
           /\ UNCHANGED pending => KindKept("pending", u, m)
           /\ UNCHANGED offlineMsg => KindKept("offlineMsg", u, m)
           /\ ReadSame(u, m) => KindKept("read", u, m)
           /\ UNCHANGED shown => KindKept("shown", u, m)
<1>1. UNCHANGED sentTo => KindKept("unsent", u, m)
  BY DEF KindKept, Has, Once
<1>2. UNCHANGED <<msg, tgt, todo>> => KindKept("handler", u, m)
  BY DEF KindKept, Has, Once, Routing
<1>3. UNCHANGED redisOut => KindKept("redisOut", u, m)
  BY DEF KindKept, Has, Once
<1>4. UNCHANGED observer => KindKept("observer", u, m)
  BY DEF KindKept, Has, Once
<1>5. UNCHANGED pending => KindKept("pending", u, m)
  BY DEF KindKept, Has, Once
<1>6. UNCHANGED offlineMsg => KindKept("offlineMsg", u, m)
  BY DEF KindKept, Has, Once
<1>7. UNCHANGED shown => KindKept("shown", u, m)
  BY DEF KindKept, Has, Once
<1>8. ASSUME ReadSame(u, m)
      PROVE  KindKept("read", u, m)
  <2>1. \A c \in Conn : read[c][m] \in Nat /\ read'[c][m] \in Nat
    BY DEF MailOK
  <2>2. \A c \in Conn : Reading(c, u)' /\ read'[c][m] > 0 =>
           Reading(c, u) /\ read[c][m] > 0 /\ read'[c][m] = read[c][m]
    BY <1>8, <2>1 DEF ReadSame
  <2>3. Has("read", u, m)' => Has("read", u, m)
    BY <2>2 DEF Has
  <2>4. ASSUME Once("read", u, m)
        PROVE  Once("read", u, m)'
    <3>1. \A c \in Conn : Reading(c, u)' => read'[c][m] <= 1
      BY <1>8, <2>1, <2>4 DEF ReadSame, Once
    <3>2. \A c, d \in Conn :
             Reading(c, u)' /\ read'[c][m] > 0 /\ Reading(d, u)' /\ read'[d][m] > 0
                => c = d
      BY <2>2, <2>4 DEF Once
    <3> QED
      BY <2>1, <3>1, <3>2 DEF Once
  <2> QED
    BY <2>3, <2>4 DEF KindKept
<1> QED
  BY <1>1, <1>2, <1>3, <1>4, <1>5, <1>6, <1>7, <1>8

(* A message that is stored or printed once more.                          *)
LEMMA OneMoreKinds ==
    ASSUME MailOK, MailOK', NEW u \in User, NEW m \in Msg,
           NEW v \in User, NEW n \in Msg
    PROVE  /\ offlineMsg' = Stored(v, n) =>
                /\ <<u, m>> # <<v, n>> => KindKept("offlineMsg", u, m)
                /\ <<u, m>> = <<v, n>> /\ ~Has("offlineMsg", u, m)
                      => Once("offlineMsg", u, m)'
           /\ shown' = [shown EXCEPT ![v][n] = @ + 1] =>
                /\ <<u, m>> # <<v, n>> => KindKept("shown", u, m)
                /\ <<u, m>> = <<v, n>> /\ ~Has("shown", u, m)
                      => Once("shown", u, m)'
<1>1. /\ offlineMsg[u][m] \in Nat /\ offlineMsg'[u][m] \in Nat
      /\ shown[u][m] \in Nat /\ shown'[u][m] \in Nat
  BY DEF MailOK
<1>2. offlineMsg' = Stored(v, n) =>
         offlineMsg'[u][m] = IF u = v /\ m = n THEN offlineMsg[u][m] + 1
                                               ELSE offlineMsg[u][m]
  BY DEF MailOK, Stored
<1>3. shown' = [shown EXCEPT ![v][n] = @ + 1] =>
         shown'[u][m] = IF u = v /\ m = n THEN shown[u][m] + 1 ELSE shown[u][m]
  BY DEF MailOK
<1>4. <<u, m>> = <<v, n>> <=> u = v /\ m = n
  OBVIOUS
<1>5. ASSUME offlineMsg' = Stored(v, n)
      PROVE  /\ <<u, m>> # <<v, n>> => KindKept("offlineMsg", u, m)
             /\ <<u, m>> = <<v, n>> /\ ~Has("offlineMsg", u, m)
                   => Once("offlineMsg", u, m)'
  BY <1>1, <1>2, <1>4, <1>5 DEF KindKept, Has, Once
<1>6. ASSUME shown' = [shown EXCEPT ![v][n] = @ + 1]
      PROVE  /\ <<u, m>> # <<v, n>> => KindKept("shown", u, m)
             /\ <<u, m>> = <<v, n>> /\ ~Has("shown", u, m) => Once("shown", u, m)'
  BY <1>1, <1>3, <1>4, <1>6 DEF KindKept, Has, Once
<1> QED
  BY <1>5, <1>6

(* Handlers that go on with less, and the one that is done with u.         *)
LEMMA HandlerKind ==
    ASSUME NEW u \in User, NEW m \in Msg,
           \A c \in Conn : Routing(c, u, m)' => Routing(c, u, m)
    PROVE  /\ KindKept("handler", u, m)
           /\ \A c \in Conn : Routing(c, u, m) /\ ~Routing(c, u, m)' =>
                 /\ Has("handler", u, m)
                 /\ Once("handler", u, m) => ~Has("handler", u, m)'
BY DEF KindKept, Has, Once

(* A message put on a connection's loop. *)
LEMMA PendingKind ==
    ASSUME MailOK, NEW u \in User, NEW m \in Msg, NEW d \in Conn,
           NEW v \in User, NEW n \in Msg,
           pending' = [pending EXCEPT ![d] = Append(@, <<v, n>>)]
    PROVE  /\ <<u, m>> # <<v, n>> => KindKept("pending", u, m)
           /\ <<u, m>> = <<v, n>> /\ ~Has("pending", u, m)
                 => Once("pending", u, m)'
<1>1. pending \in [Conn -> Seq(Envelope)] /\ <<v, n>> \in Envelope
  BY DEF MailOK, Envelope
<1>2. /\ <<v, n>> # <<u, m>> => QKept(pending, pending', Conn, <<u, m>>)
      /\ ~QHas(pending, Conn, <<u, m>>) => QOnce(pending', Conn, <<u, m>>)
  BY <1>1, QAppend
<1> QED
  BY <1>2 DEF KindKept, Has, Once, QKept

LEMMA ClearedKinds ==
    ASSUME NEW u \in User, NEW m \in Msg
    PROVE  /\ (\A c \in Conn : pending'[c] \in {pending[c], <<>>})
                => KindKept("pending", u, m)
           /\ (\A s \in Server : redisOut'[s] \in {redisOut[s], <<>>})
                => KindKept("redisOut", u, m)
           /\ (\A s \in Server : observer'[s] \in {observer[s], <<>>})
                => KindKept("observer", u, m)
<1>1. ASSUME \A c \in Conn : pending'[c] \in {pending[c], <<>>}
      PROVE  KindKept("pending", u, m)
  <2>1. QKept(pending, pending', Conn, <<u, m>>)
    BY <1>1, QCleared
  <2> QED
    BY <2>1 DEF KindKept, Has, Once, QKept
<1>2. ASSUME \A s \in Server : redisOut'[s] \in {redisOut[s], <<>>}
      PROVE  KindKept("redisOut", u, m)
  <2>1. QKept(redisOut, redisOut', Server, <<u, m>>)
    BY <1>2, QCleared
  <2> QED
    BY <2>1 DEF KindKept, Has, Once, QKept
<1>3. ASSUME \A s \in Server : observer'[s] \in {observer[s], <<>>}
      PROVE  KindKept("observer", u, m)
  <2>1. \A s \in Server : observer'[s] = <<u, m>> => observer[s] = <<u, m>>
    <3>1. <<u, m>> # <<>>
      OBVIOUS
    <3> QED
      BY <1>3, <3>1
  <2> QED
    BY <2>1 DEF KindKept, Has, Once
<1> QED
  BY <1>1, <1>2, <1>3

(* One message leaves one kind of place; it gets to another, or nowhere.   *)
Left(k, u, m) ==
    Has(k, u, m) /\ (Once(k, u, m) => ~Has(k, u, m)')
Got(k, u, m) == ~Has(k, u, m) => Once(k, u, m)'

LEMMA OneMoves ==
    ASSUME MailOK', NEW u \in User, NEW m \in Msg,
           NEW a \in Kinds, NEW b \in Kinds \ {a},
           \A k \in Kinds \ {a, b} : KindKept(k, u, m),
           KindKept(a, u, m) \/ Left(a, u, m),
           KindKept(b, u, m) \/ (Left(a, u, m) /\ Got(b, u, m))
    PROVE  StepFor(u, m)
<1>1. Left(a, u, m) => KindKept(a, u, m)
  BY NoneIsOnceNext DEF Left, KindKept
<1>2. CASE KindKept(b, u, m)
  <2>1. \A k \in Kinds : KindKept(k, u, m)
    BY <1>1, <1>2
  <2> QED
    BY <2>1 DEF StepFor, Stays
<1>3. CASE Left(a, u, m) /\ Got(b, u, m)
  <2>1. Moves(a, b, u, m)
    BY <1>3 DEF Left, Got, Moves
  <2> QED
    BY <2>1 DEF StepFor
<1> QED
  BY <1>2, <1>3

LEMMA NothingMoves ==
    ASSUME MailOK, MailOK', NEW u \in User, NEW m \in Msg,
           UNCHANGED <<observer, offlineMsg, redisOut, shown, sentTo>>,
           \A c \in Conn : pending'[c] \in {pending[c], <<>>},
           \A c \in Conn : Routing(c, u, m)' => Routing(c, u, m),
           ReadSame(u, m)
    PROVE  StepFor(u, m)
<1>1. \A k \in Kinds : KindKept(k, u, m)
  BY SameKinds, HandlerKind, ClearedKinds DEF Kinds
<1> QED
  BY <1>1 DEF StepFor, Stays

LEMMA SendKinds ==
    ASSUME MailOK, MailOK', NEW u \in User, NEW m \in Msg, NEW d \in Conn,
           NEW v \in User, NEW n \in Msg, NEW onLoop, Send(d, v, n, onLoop)
    PROVE  /\ \A k \in {"observer", "offlineMsg", "redisOut"} : KindKept(k, u, m)
           /\ \/ KindKept("pending", u, m)
              \/ <<u, m>> = <<v, n>> /\ Got("pending", u, m)
           /\ \/ KindKept("shown", u, m)
              \/ <<u, m>> = <<v, n>> /\ Got("shown", u, m)
           /\ KindKept("pending", u, m) \/ KindKept("shown", u, m)
<1>1. UNCHANGED <<observer, offlineMsg, redisOut>>
  BY DEF Send, Display
<1>2. \A k \in {"observer", "offlineMsg", "redisOut"} : KindKept(k, u, m)
  BY <1>1, SameKinds
<1>3. \/ UNCHANGED <<pending, shown>>
      \/ UNCHANGED shown /\ pending' = [pending EXCEPT ![d] = Append(@, <<v, n>>)]
      \/ UNCHANGED pending /\ shown' = [shown EXCEPT ![v][n] = @ + 1]
  BY DEF Send, Display
<1>4. CASE UNCHANGED <<pending, shown>>
  BY <1>2, <1>4, SameKinds
<1>5. CASE UNCHANGED shown /\ pending' = [pending EXCEPT ![d] = Append(@, <<v, n>>)]
  BY <1>2, <1>5, SameKinds, PendingKind DEF Got
<1>6. CASE UNCHANGED pending /\ shown' = [shown EXCEPT ![v][n] = @ + 1]
  BY <1>2, <1>6, SameKinds, OneMoreKinds DEF Got
<1> QED
  BY <1>3, <1>4, <1>5, <1>6

(* TcpConnection::send takes a message from the handler, or from the       *)
(* sender if the handler has just begun.                                   *)
LEMMA SendMoves ==
    ASSUME MailOK, MailOK', NEW u \in User, NEW m \in Msg, NEW d \in Conn,
           NEW v \in User, NEW n \in Msg, NEW onLoop, Send(d, v, n, onLoop),
           NEW a \in {"unsent", "handler"},
           \A k \in {"unsent", "handler", "read"} \ {a} : KindKept(k, u, m),
           <<u, m>> # <<v, n>> => KindKept(a, u, m),
           <<u, m>> = <<v, n>> => Left(a, u, m)
    PROVE  StepFor(u, m)
<1>1. /\ \A k \in {"observer", "offlineMsg", "redisOut"} : KindKept(k, u, m)
      /\ \/ KindKept("pending", u, m)
         \/ <<u, m>> = <<v, n>> /\ Got("pending", u, m)
      /\ \/ KindKept("shown", u, m)
         \/ <<u, m>> = <<v, n>> /\ Got("shown", u, m)
      /\ KindKept("pending", u, m) \/ KindKept("shown", u, m)
  BY SendKinds
<1>2. CASE KindKept("pending", u, m)
  <2>1. \A k \in Kinds \ {a, "shown"} : KindKept(k, u, m)
    BY <1>1, <1>2 DEF Kinds
  <2>2. a \in Kinds /\ "shown" \in Kinds \ {a}
    BY DEF Kinds
  <2>3. KindKept(a, u, m) \/ Left(a, u, m)
    OBVIOUS
  <2>4. KindKept("shown", u, m) \/ (Left(a, u, m) /\ Got("shown", u, m))
    BY <1>1
  <2> QED
    BY <2>1, <2>2, <2>3, <2>4, OneMoves
<1>3. CASE KindKept("shown", u, m)
  <2>1. \A k \in Kinds \ {a, "pending"} : KindKept(k, u, m)
    BY <1>1, <1>3 DEF Kinds
  <2>2. a \in Kinds /\ "pending" \in Kinds \ {a}
    BY DEF Kinds
  <2>3. KindKept(a, u, m) \/ Left(a, u, m)
    OBVIOUS
  <2>4. KindKept("pending", u, m) \/ (Left(a, u, m) /\ Got("pending", u, m))
    BY <1>1
  <2> QED
    BY <2>1, <2>2, <2>3, <2>4, OneMoves
<1> QED
  BY <1>1, <1>2, <1>3

LEMMA RoutedKind ==
    ASSUME HandlersOK, LocalsClear, NEW u \in User, NEW m \in Msg,
           NEW c \in Conn, Routed(c), tgt[c] \in User, msg[c] \in Msg
    PROVE  /\ <<u, m>> # <<tgt[c], msg[c]>> => KindKept("handler", u, m)
           /\ <<u, m>> = <<tgt[c], msg[c]>> => Left("handler", u, m)
<1>1. NoUser \notin User /\ NoMsg \notin Msg
  BY ConstantsAssumption DEF ConstantsAssumption
<1>2. /\ UNCHANGED todo
      /\ tgt' = [tgt EXCEPT ![c] = NoUser]
      /\ \A d \in Conn : msg'[d] \in {msg[d], NoMsg}
      /\ tgt[c] \notin todo[c]
  BY DEF Routed, HandlersOK, LocalsClear
<1>3. \A d \in Conn : Routing(d, u, m)' => Routing(d, u, m)
  BY <1>1, <1>2 DEF HandlersOK, Routing
<1>4. ASSUME <<u, m>> = <<tgt[c], msg[c]>>
      PROVE  Routing(c, u, m) /\ ~Routing(c, u, m)'
  <2>1. u = tgt[c] /\ m = msg[c]
    BY <1>4
  <2>2. tgt'[c] = NoUser
    BY <1>2 DEF HandlersOK
  <2> QED
    BY <1>1, <1>2, <2>1, <2>2 DEF Routing
<1> QED
  BY <1>3, <1>4, HandlerKind DEF Left

OneSubscribed(u) ==
    \A s, t \in Server : u \in subscribed[s] /\ u \in subscribed[t] => s = t

(* PUBLISH gives each subscribed server a copy. *)
LEMMA PublishKinds ==
    ASSUME HandlersOK, MailOK, MailOK', LocalsClear, NEW u \in User,
           NEW m \in Msg, NEW c \in Conn, Publish(c)
    PROVE  /\ \A k \in Kinds \ {"handler", "redisOut"} : KindKept(k, u, m)
           /\ KindKept("handler", u, m) \/ Left("handler", u, m)
           /\ KindKept("redisOut", u, m) \/ Left("handler", u, m)
           /\ OneSubscribed(u) =>
                 KindKept("redisOut", u, m)
                 \/ (Left("handler", u, m) /\ Got("redisOut", u, m))
<1> DEFINE v == tgt[c]
           n == msg[c]
<1>1. v \in User /\ n \in Msg
  BY DEF Publish, HandlersOK, LocalsSet
<1>2. /\ <<u, m>> # <<v, n>> => KindKept("handler", u, m)
      /\ <<u, m>> = <<v, n>> => Left("handler", u, m)
  BY <1>1, RoutedKind DEF Publish
<1>3. /\ UNCHANGED <<pending, observer, offlineMsg, shown, sentTo, read, uid>>
      /\ Goto(c, IF pc[c] \in GroupLocked THEN "loop" ELSE "idle")
  BY DEF Publish, Routed
<1>4. ReadSame(u, m)
  BY <1>3 DEF ReadSame, Reading, Goto, HandlersOK
<1>5. \A k \in Kinds \ {"handler", "redisOut"} : KindKept(k, u, m)
  BY <1>3, <1>4, SameKinds DEF Kinds
<1>6. /\ redisOut \in [Server -> Seq(Envelope)] /\ <<v, n>> \in Envelope
  BY <1>1 DEF MailOK, Envelope
<1> DEFINE W == {s \in Server : v \in subscribed[s]}
           r == redisOut'
<1>7. r = [s \in Server |-> IF s \in W THEN Append(redisOut[s], <<v, n>>)
                                        ELSE redisOut[s]]
  BY DEF Publish
<1>8. /\ <<v, n>> # <<u, m>> => QKept(redisOut, r, Server, <<u, m>>)
      /\ ~QHas(redisOut, Server, <<u, m>>) /\ (\A s, t \in W : s = t)
            => QOnce(r, Server, <<u, m>>)
  <2> DEFINE x == <<v, n>>
             e == <<u, m>>
  <2>1. /\ redisOut \in [Server -> Seq(Envelope)] /\ x \in Envelope
        /\ \A s \in Server : r[s] = IF s \in W THEN Append(redisOut[s], x)
                                               ELSE redisOut[s]
    BY <1>6, <1>7
  <2> HIDE DEF x, e, W, r
  <2>2. /\ x # e => QKept(redisOut, r, Server, e)
        /\ ~QHas(redisOut, Server, e) /\ (\A s, t \in W : s = t)
              => QOnce(r, Server, e)
    BY <2>1, QBroadcast
  <2> QED
    BY <2>2 DEF x, e
<1>9. <<u, m>> # <<v, n>> => KindKept("redisOut", u, m)
  BY <1>8 DEF KindKept, Has, Once, QKept
<1>10. OneSubscribed(u) /\ <<u, m>> = <<v, n>> => Got("redisOut", u, m)
  <2>1. OneSubscribed(u) /\ <<u, m>> = <<v, n>> => \A s, t \in W : s = t
    BY DEF OneSubscribed
  <2> HIDE DEF v, n, W
  <2> QED
    BY <1>8, <2>1 DEF Got, Has, Once
<1> HIDE DEF v, n
<1> QED
  BY <1>2, <1>5, <1>9, <1>10

LEMMA PublishMoves ==
    ASSUME HandlersOK, MailOK, MailOK', LocalsClear, NEW u \in User,
           NEW m \in Msg, NEW c \in Conn, Publish(c), OneSubscribed(u)
    PROVE  StepFor(u, m)
<1>1. "handler" \in Kinds /\ "redisOut" \in Kinds \ {"handler"}
  BY DEF Kinds
<1> QED
  BY <1>1, PublishKinds, OneMoves

LEMMA StoreMoves ==
    ASSUME HandlersOK, MailOK, MailOK', LocalsClear, NEW u \in User,
           NEW m \in Msg, NEW c \in Conn, StoreOffline(c)
    PROVE  StepFor(u, m)
<1> DEFINE v == tgt[c]
           n == msg[c]
<1>1. v \in User /\ n \in Msg
  BY DEF StoreOffline, HandlersOK, LocalsSet
<1>2. /\ <<u, m>> # <<v, n>> => KindKept("handler", u, m)
      /\ <<u, m>> = <<v, n>> => Left("handler", u, m)
  BY <1>1, RoutedKind DEF StoreOffline
<1>3. /\ UNCHANGED <<pending, observer, redisOut, shown, sentTo, read, uid>>
      /\ Goto(c, IF pc[c] \in GroupLocked THEN "loop" ELSE "idle")
      /\ offlineMsg' = Stored(v, n)
  BY DEF StoreOffline, Routed
<1>4. ReadSame(u, m)
  BY <1>3 DEF ReadSame, Reading, Goto, HandlersOK
<1>5. \A k \in Kinds \ {"handler", "offlineMsg"} : KindKept(k, u, m)
  BY <1>3, <1>4, SameKinds DEF Kinds
<1>6. /\ <<u, m>> # <<v, n>> => KindKept("offlineMsg", u, m)
      /\ <<u, m>> = <<v, n>> => Got("offlineMsg", u, m)
  BY <1>1, <1>3, OneMoreKinds DEF Got
<1> HIDE DEF v, n
<1>7. "handler" \in Kinds /\ "offlineMsg" \in Kinds \ {"handler"}
  BY DEF Kinds
<1> QED
  BY <1>2, <1>5, <1>6, <1>7, OneMoves

(* What the observer thread takes from its link. *)
LEMMA NotifyMoves ==
    ASSUME SessionsOK, MailOK, MailOK', NEW u \in User, NEW m \in Msg,
           NEW s \in Server, Notify(s)
    PROVE  StepFor(u, m)
<1> DEFINE e == Head(redisOut[s])
           d == userConnMap[s][e[1]]
<1>1. /\ redisOut \in [Server -> Seq(Envelope)]
      /\ redisOut[s] \in Seq(Envelope) /\ redisOut[s] # <<>>
      /\ redisOut' = [redisOut EXCEPT ![s] = Tail(@)]
  BY DEF Notify, MailOK
<1>2. e \in Envelope
  BY <1>1, HeadTailProperties
<1>3. e[1] \in User /\ e[2] \in Msg /\ e = <<e[1], e[2]>>
  BY <1>2 DEF Envelope
<1>4. /\ QKept(redisOut, redisOut', Server, <<u, m>>)
      /\ e = <<u, m>> => QHas(redisOut, Server, <<u, m>>)
      /\ e = <<u, m>> /\ QOnce(redisOut, Server, <<u, m>>)
            => ~QHas(redisOut', Server, <<u, m>>)
  BY <1>1, QTail
<1>5. /\ KindKept("redisOut", u, m)
      /\ <<u, m>> = e => Left("redisOut", u, m)
  BY <1>4 DEF KindKept, Left, Has, Once, QKept
<1>6. /\ UNCHANGED <<offlineMsg, shown, sentTo, read, uid, pc, msg, tgt, todo>>
      /\ d # NoConn =>
           /\ UNCHANGED observer
           /\ \/ UNCHANGED pending
              \/ pending' = [pending EXCEPT ![d] = Append(@, <<e[1], e[2]>>)]
      /\ d = NoConn =>
           /\ UNCHANGED pending
           /\ observer' = [observer EXCEPT ![s] = <<e[1], e[2]>>]
           /\ observer[s] = <<>>
  BY DEF Notify, handlerVars, Locked
<1> HIDE DEF e, d
<1>7. ReadSame(u, m)
  BY <1>6 DEF ReadSame, Reading
<1>8. \A k \in Kinds \ {"redisOut", "pending", "observer"} : KindKept(k, u, m)
  BY <1>6, <1>7, SameKinds DEF Kinds
<1>9. d \in Conn \cup {NoConn}
  BY <1>3 DEF SessionsOK, d
<1>10. CASE d # NoConn
  <2>1. KindKept("observer", u, m)
    BY <1>6, <1>10, SameKinds
  <2>2. CASE UNCHANGED pending
    <3>1. KindKept("pending", u, m)
      BY <2>2, SameKinds
    <3>2. \A k \in Kinds : KindKept(k, u, m)
      BY <1>5, <1>8, <2>1, <3>1 DEF Kinds
    <3> QED
      BY <3>2 DEF StepFor, Stays
  <2>3. CASE pending' = [pending EXCEPT ![d] = Append(@, <<e[1], e[2]>>)]
    <3>1. /\ <<u, m>> # e => KindKept("pending", u, m)
          /\ <<u, m>> = e => Got("pending", u, m)
      <4>1. d \in Conn
        BY <1>9, <1>10
      <4> DEFINE v == e[1]
                 n == e[2]
      <4>2. /\ v \in User /\ n \in Msg /\ e = <<v, n>>
            /\ pending' = [pending EXCEPT ![d] = Append(@, <<v, n>>)]
        BY <1>3, <2>3
      <4> HIDE DEF v, n
      <4>3. /\ <<u, m>> # <<v, n>> => KindKept("pending", u, m)
            /\ <<u, m>> = <<v, n>> /\ ~Has("pending", u, m)
                  => Once("pending", u, m)'
        BY <4>1, <4>2, PendingKind
      <4> QED
        BY <4>2, <4>3 DEF Got
    <3>2. \A k \in Kinds \ {"redisOut", "pending"} : KindKept(k, u, m)
      BY <1>8, <2>1
    <3>3. "redisOut" \in Kinds /\ "pending" \in Kinds \ {"redisOut"}
      BY DEF Kinds
    <3> QED
      BY <1>5, <3>1, <3>2, <3>3, OneMoves
  <2> QED
    BY <1>6, <1>10, <2>2, <2>3
<1>11. CASE d = NoConn
  <2>1. KindKept("pending", u, m)
    BY <1>6, <1>11, SameKinds
  <2>2. /\ observer'[s] = e /\ observer[s] = <<>>
        /\ \A t \in Server : t # s => observer'[t] = observer[t]
    BY <1>3, <1>6, <1>11 DEF MailOK
  <2>3. <<u, m>> # <<>>
    OBVIOUS
  <2>4. /\ <<u, m>> # e => KindKept("observer", u, m)
        /\ <<u, m>> = e => Got("observer", u, m)
    BY <2>2, <2>3 DEF KindKept, Got, Has, Once
  <2>5. \A k \in Kinds \ {"redisOut", "observer"} : KindKept(k, u, m)
    BY <1>8, <2>1
  <2>6. "redisOut" \in Kinds /\ "observer" \in Kinds \ {"redisOut"}
    BY DEF Kinds
  <2> QED
    BY <1>5, <2>4, <2>5, <2>6, OneMoves
<1> QED
  BY <1>10, <1>11

LEMMA NotifyStoreMoves ==
    ASSUME MailOK, MailOK', NEW u \in User, NEW m \in Msg, NEW s \in Server,
           NotifyStore(s)
    PROVE  StepFor(u, m)
<1> DEFINE e == observer[s]
<1>1. e \in Envelope
  BY DEF NotifyStore, MailOK
<1>2. e[1] \in User /\ e[2] \in Msg /\ e = <<e[1], e[2]>>
  BY <1>1 DEF Envelope
<1>3. /\ UNCHANGED <<pending, redisOut, shown, sentTo, read, uid, pc, msg, tgt, todo>>
      /\ offlineMsg' = Stored(e[1], e[2])
      /\ observer' = [observer EXCEPT ![s] = <<>>]
  BY DEF NotifyStore, handlerVars
<1>4. ReadSame(u, m)
  BY <1>3 DEF ReadSame, Reading
<1>5. \A k \in Kinds \ {"offlineMsg", "observer"} : KindKept(k, u, m)
  BY <1>3, <1>4, SameKinds DEF Kinds
<1>6. /\ observer'[s] = <<>>
      /\ \A t \in Server : t # s => observer'[t] = observer[t]
  BY <1>3 DEF MailOK
<1>7. <<u, m>> # <<>>
  OBVIOUS
<1>8. /\ KindKept("observer", u, m)
      /\ <<u, m>> = e => Left("observer", u, m)
  BY <1>6, <1>7 DEF KindKept, Left, Has, Once
<1>9. /\ <<u, m>> # e => KindKept("offlineMsg", u, m)
      /\ <<u, m>> = e => Got("offlineMsg", u, m)
  BY <1>2, <1>3, OneMoreKinds DEF Got
<1> HIDE DEF e
<1>10. "observer" \in Kinds /\ "offlineMsg" \in Kinds \ {"observer"}
  BY DEF Kinds
<1> QED
  BY <1>5, <1>8, <1>9, <1>10, OneMoves

(* A queued sendInLoop writes to the client, unless that has left.         *)
LEMMA FunctorMoves ==
    ASSUME MailOK, MailOK', NEW u \in User, NEW m \in Msg, NEW d \in Conn,
           RunFunctor(d)
    PROVE  StepFor(u, m)
<1> DEFINE e == Head(pending[d])
<1>1. /\ pending \in [Conn -> Seq(Envelope)]
      /\ pending[d] \in Seq(Envelope) /\ pending[d] # <<>>
      /\ pending' = [pending EXCEPT ![d] = Tail(@)]
  BY DEF RunFunctor, MailOK
<1>2. e \in Envelope
  BY <1>1, HeadTailProperties
<1>3. e[1] \in User /\ e[2] \in Msg /\ e = <<e[1], e[2]>>
  BY <1>2 DEF Envelope
<1>4. /\ QKept(pending, pending', Conn, <<u, m>>)
      /\ e = <<u, m>> => QHas(pending, Conn, <<u, m>>)
      /\ e = <<u, m>> /\ QOnce(pending, Conn, <<u, m>>)
            => ~QHas(pending', Conn, <<u, m>>)
  BY <1>1, QTail
<1>5. /\ KindKept("pending", u, m)
      /\ <<u, m>> = e => Left("pending", u, m)
  BY <1>4 DEF KindKept, Left, Has, Once, QKept
<1>6. /\ UNCHANGED <<observer, offlineMsg, redisOut, sentTo, read, uid, pc, msg,
                     tgt, todo>>
      /\ UNCHANGED shown \/ shown' = [shown EXCEPT ![e[1]][e[2]] = @ + 1]
  BY DEF RunFunctor, Display, handlerVars
<1>7. ReadSame(u, m)
  BY <1>6 DEF ReadSame, Reading
<1>8. \A k \in Kinds \ {"pending", "shown"} : KindKept(k, u, m)
  BY <1>6, <1>7, SameKinds DEF Kinds
<1> HIDE DEF e
<1>9. /\ <<u, m>> # e => KindKept("shown", u, m)
      /\ KindKept("shown", u, m) \/ Got("shown", u, m)
  <2>1. CASE UNCHANGED shown
    BY <2>1, SameKinds
  <2>2. CASE shown' = [shown EXCEPT ![e[1]][e[2]] = @ + 1]
    BY <1>3, <2>2, OneMoreKinds DEF Got
  <2> QED
    BY <1>6, <2>1, <2>2
<1>10. "pending" \in Kinds /\ "shown" \in Kinds \ {"pending"}
  BY DEF Kinds
<1> QED
  BY <1>5, <1>8, <1>9, <1>10, OneMoves

(* The offline messages: from the table to the handler that has read them, *)
(* and to the screen if the client still waits.                            *)
LEMMA RemoveMoves ==
    ASSUME HandlersOK, MailOK, MailOK', ReadStored, OneOwner,
           NEW u \in User, NEW m \in Msg, NEW c \in Conn, LoginRemoveOffline(c)
    PROVE  StepFor(u, m)
<1>1. /\ UNCHANGED <<pending, observer, redisOut, shown, sentTo, msg, tgt, todo,
                     read, uid>>
      /\ pc[c] = "removeOffline" /\ Goto(c, "respond")
      /\ offlineMsg' = [offlineMsg EXCEPT ![uid[c]] = NoMail]
      /\ uid[c] \in User
  BY DEF LoginRemoveOffline, HandlersOK, LocalsSet
<1>2. \A k \in Kinds \ {"offlineMsg", "read"} : KindKept(k, u, m)
  BY <1>1, SameKinds DEF Kinds
<1>3. /\ \A d \in Conn : read[d][m] \in Nat
      /\ \A v \in User : offlineMsg[v][m] \in Nat
  BY DEF MailOK
<1>4. offlineMsg'[u][m] = IF u = uid[c] THEN 0 ELSE offlineMsg[u][m]
  BY <1>1 DEF MailOK, NoMail
<1>5. \A d \in Conn : Reading(d, u)' <=> Reading(d, u) \/ (d = c /\ uid[c] = u)
  BY <1>1 DEF Reading, Goto, HandlersOK
<1>6. CASE uid[c] # u
  <2>1. ReadSame(u, m)
    BY <1>1, <1>5, <1>6 DEF ReadSame
  <2>2. KindKept("offlineMsg", u, m)
    BY <1>4, <1>6 DEF KindKept, Has, Once
  <2>3. KindKept("read", u, m)
    BY <2>1, SameKinds
  <2>4. \A k \in Kinds : KindKept(k, u, m)
    BY <1>2, <2>2, <2>3
  <2> QED
    BY <2>4 DEF StepFor, Stays
<1>7. CASE uid[c] = u
  <2>1. read[c][m] <= offlineMsg[u][m]
    BY <1>1, <1>7 DEF ReadStored
  <2>2. \A d \in Conn : Reading(d, u)' => d = c
    <3>1. \A d \in Conn : Reading(d, u) => d = c
      BY <1>1, <1>7 DEF OneOwner, Owns, LoggingIn, Reading
    <3> QED
      BY <1>5, <3>1
  <2>3. offlineMsg'[u][m] = 0
    BY <1>4, <1>7
  <2>4. CASE offlineMsg[u][m] = 0
    <3>1. read'[c][m] = 0
      BY <1>1, <1>3, <2>1, <2>4
    <3>2. ReadSame(u, m)
      BY <2>2, <3>1 DEF ReadSame
    <3>3. KindKept("offlineMsg", u, m)
      BY <2>3, <2>4 DEF KindKept, Has, Once
    <3>4. KindKept("read", u, m)
      BY <3>2, SameKinds
    <3>5. \A k \in Kinds : KindKept(k, u, m)
      BY <1>2, <3>3, <3>4
    <3> QED
      BY <3>5 DEF StepFor, Stays
  <2>5. CASE offlineMsg[u][m] > 0
    <3>1. Left("offlineMsg", u, m)
      BY <2>3, <2>5 DEF Left, Has, Once
    <3>2. Once("offlineMsg", u, m) => Once("read", u, m)'
      <4> SUFFICES ASSUME Once("offlineMsg", u, m) PROVE Once("read", u, m)'
        OBVIOUS
      <4>1. offlineMsg[u][m] <= 1
        BY DEF Once
      <4>2. read'[c][m] <= 1 /\ \A d \in Conn : read'[d][m] \in Nat
        BY <1>1, <1>3, <2>1, <4>1
      <4> QED
        BY <2>2, <4>2 DEF Once
    <3>3. Moves("offlineMsg", "read", u, m)
      BY <1>2, <3>1, <3>2 DEF Moves, Left
    <3> QED
      BY <3>3 DEF StepFor, Kinds
  <2> QED
    BY <1>3, <2>4, <2>5
<1> QED
  BY <1>6, <1>7

LEMMA RespondMoves ==
    ASSUME HandlersOK, MailOK, MailOK', OneOwner,
           NEW u \in User, NEW m \in Msg, NEW c \in Conn, LoginRespond(c)
    PROVE  StepFor(u, m)
<1>1. /\ UNCHANGED <<pending, observer, redisOut, offlineMsg, sentTo, msg, tgt,
                     todo>>
      /\ pc[c] = "respond" /\ Goto(c, "idle")
      /\ uid[c] \in User
      /\ uid' = [uid EXCEPT ![c] = NoUser]
      /\ read' = [read EXCEPT ![c] = NoMail]
      /\ \/ UNCHANGED shown
         \/ shown' = [shown EXCEPT ![uid[c]] = [n \in Msg |-> @[n] + read[c][n]]]
  BY DEF LoginRespond, HandlersOK, LocalsSet
<1>2. \A k \in Kinds \ {"shown", "read"} : KindKept(k, u, m)
  BY <1>1, SameKinds DEF Kinds
<1>3. /\ \A d \in Conn : read[d][m] \in Nat
      /\ shown[u][m] \in Nat
  BY DEF MailOK
<1>4. /\ ~Reading(c, u)'
      /\ \A d \in Conn : d # c => (Reading(d, u)' <=> Reading(d, u))
                                  /\ read'[d] = read[d]
  BY <1>1 DEF Reading, Goto, HandlersOK, MailOK
<1>5. KindKept("read", u, m)
  <2>1. ReadSame(u, m)
    BY <1>4 DEF ReadSame
  <2> QED
    BY <2>1, SameKinds
<1>6. shown'[u][m] = shown[u][m] \/
        (uid[c] = u /\ shown'[u][m] = shown[u][m] + read[c][m])
  <2> DEFINE more == [n \in Msg |-> shown[uid[c]][n] + read[c][n]]
  <2>1. UNCHANGED shown \/ shown' = [shown EXCEPT ![uid[c]] = more]
    BY <1>1
  <2>2. more[m] = shown[uid[c]][m] + read[c][m]
    OBVIOUS
  <2> HIDE DEF more
  <2>3. \/ UNCHANGED shown
        \/ shown'[u] = IF u = uid[c] THEN more ELSE shown[u]
    BY <2>1 DEF MailOK
  <2> QED
    BY <2>2, <2>3
<1>7. CASE shown'[u][m] = shown[u][m]
  <2>1. KindKept("shown", u, m)
    BY <1>7 DEF KindKept, Has, Once
  <2>2. \A k \in Kinds : KindKept(k, u, m)
    BY <1>2, <1>5, <2>1
  <2> QED
    BY <2>2 DEF StepFor, Stays
<1>8. CASE uid[c] = u /\ shown'[u][m] = shown[u][m] + read[c][m]
           /\ shown'[u][m] # shown[u][m]
  <2>1. Reading(c, u) /\ read[c][m] > 0
    BY <1>1, <1>3, <1>8 DEF Reading
  <2>2. Left("read", u, m)
    <3>1. \A d \in Conn : Reading(d, u) => d = c
      BY <2>1 DEF OneOwner, Owns, LoggingIn, Reading
    <3>2. \A d \in Conn : ~Reading(d, u)'
      BY <1>4, <3>1
    <3> QED
      BY <2>1, <3>2 DEF Left, Has
  <2>3. Once("read", u, m) /\ ~Has("shown", u, m) => Once("shown", u, m)'
    <3> SUFFICES ASSUME Once("read", u, m), ~Has("shown", u, m)
                 PROVE  Once("shown", u, m)'
      OBVIOUS
    <3>1. read[c][m] <= 1 /\ shown[u][m] = 0
      BY <1>3, <2>1 DEF Once, Has
    <3>2. shown'[u][m] <= 1
      BY <1>3, <1>8, <3>1
    <3> QED
      BY <3>2 DEF Once
  <2>4. Moves("read", "shown", u, m)
    BY <1>2, <2>2, <2>3 DEF Moves, Left
  <2> QED
    BY <2>4 DEF StepFor, Kinds
<1> QED
  BY <1>6, <1>7, <1>8

(* A message that is sent, to one user or to the members of a group.       *)
LEMMA OneChatMoves ==
    ASSUME HandlersOK, SessionsOK, MailOK, MailOK', LocalsClear,
           NEW u \in User, NEW m \in Msg, NEW c \in Conn,
           NEW n \in Msg, NEW v \in User, OneChat(c, n, v)
    PROVE  StepFor(u, m)
<1> DEFINE d == userConnMap[ServerOf[c]][v]
<1>1. /\ pc[c] = "idle" /\ sentTo[n] = {}
      /\ sentTo' = [sentTo EXCEPT ![n] = {v}]
      /\ UNCHANGED <<uid, read, todo>>
      /\ d # NoConn => UNCHANGED <<pc, msg, tgt>>
                       /\ \E onLoop \in BOOLEAN : Send(d, v, n, onLoop)
      /\ d = NoConn => /\ Goto(c, "query") /\ msg' = [msg EXCEPT ![c] = n]
                       /\ tgt' = [tgt EXCEPT ![c] = v]
                       /\ UNCHANGED mailVars
  BY DEF OneChat, Ready
<1>2. d \in Conn \cup {NoConn}
  BY ConstantsAssumption DEF SessionsOK, ConstantsAssumption
<1>3. <<u, m>> = <<v, n>> <=> u = v /\ m = n
  OBVIOUS
<1>4. u \notin sentTo'[m] <=> u \notin sentTo[m] /\ <<u, m>> # <<v, n>>
  BY <1>1, <1>3 DEF SessionsOK
<1>5. /\ <<u, m>> # <<v, n>> => KindKept("unsent", u, m)
      /\ <<u, m>> = <<v, n>> => Left("unsent", u, m)
  BY <1>1, <1>3, <1>4 DEF KindKept, Left, Has, Once
<1> HIDE DEF d
<1>6. ReadSame(u, m)
  <2>1. \A e \in Conn : pc'[e] = "respond" => pc[e] = "respond"
    BY <1>1 DEF HandlersOK, Goto
  <2> QED
    BY <1>1, <2>1 DEF ReadSame, Reading
<1>7. KindKept("read", u, m)
  BY <1>6, SameKinds
<1>8. CASE d # NoConn
  <2>1. KindKept("handler", u, m)
    BY <1>1, <1>8, SameKinds
  <2>2. PICK onLoop \in BOOLEAN : Send(d, v, n, onLoop)
    BY <1>1, <1>8
  <2>3. \A k \in {"unsent", "handler", "read"} \ {"unsent"} : KindKept(k, u, m)
    BY <1>7, <2>1
  <2> QED
    BY <1>2, <1>5, <1>8, <2>2, <2>3, SendMoves
<1>9. CASE d = NoConn
  <2>1. \A k \in Kinds \ {"unsent", "handler"} : KindKept(k, u, m)
    BY <1>1, <1>7, <1>9, SameKinds DEF mailVars, Kinds
  <2>2. todo[c] = {} /\ tgt'[c] = v /\ msg'[c] = n
    BY <1>1, <1>9 DEF LocalsClear, HandlersOK
  <2>3. \A e \in Conn : e # c => (Routing(e, u, m)' <=> Routing(e, u, m))
    BY <1>1, <1>9 DEF Routing, HandlersOK
  <2>4. Routing(c, u, m)' <=> <<u, m>> = <<v, n>>
    BY <1>1, <1>3, <2>2 DEF Routing
  <2>5. <<u, m>> # <<v, n>> => KindKept("handler", u, m)
    <3>1. <<u, m>> # <<v, n>> =>
             \A e \in Conn : Routing(e, u, m)' => Routing(e, u, m)
      BY <2>3, <2>4
    <3> QED
      BY <3>1, HandlerKind
  <2>6. <<u, m>> = <<v, n>> => Got("handler", u, m)
    BY <2>3 DEF Got, Has, Once
  <2>7. "unsent" \in Kinds /\ "handler" \in Kinds \ {"unsent"}
    BY DEF Kinds
  <2> QED
    BY <1>5, <2>1, <2>5, <2>6, <2>7, OneMoves
<1> QED
  BY <1>8, <1>9

LEMMA GroupChatMoves ==
    ASSUME HandlersOK, SessionsOK, MailOK, MailOK', LocalsClear,
           NEW u \in User, NEW m \in Msg, NEW c \in Conn,
           NEW n \in Msg, NEW members \in Groups, GroupChat(c, n, members)
    PROVE  StepFor(u, m)
<1> DEFINE others == members \ {currentUser[c]}
<1>1. /\ pc[c] = "idle" /\ sentTo[n] = {}
      /\ sentTo' = [sentTo EXCEPT ![n] = others]
      /\ UNCHANGED <<uid, read, tgt>> /\ UNCHANGED mailVars
      /\ msg' = [msg EXCEPT ![c] = n] /\ Goto(c, "lock")
      /\ \E rest \in SUBSET others : todo' = [todo EXCEPT ![c] = rest]
  BY DEF GroupChat, Ready
<1>2. PICK rest \in SUBSET others : todo' = [todo EXCEPT ![c] = rest]
  BY <1>1
<1> HIDE DEF others
<1>3. ReadSame(u, m)
  <2>1. \A e \in Conn : pc'[e] = "respond" => pc[e] = "respond"
    BY <1>1 DEF HandlersOK, Goto
  <2> QED
    BY <1>1, <2>1 DEF ReadSame, Reading
<1>4. \A k \in Kinds \ {"unsent", "handler"} : KindKept(k, u, m)
  BY <1>1, <1>3, SameKinds DEF mailVars, Kinds
<1>5. u \notin sentTo'[m] <=> u \notin sentTo[m] /\ ~(m = n /\ u \in others)
  BY <1>1 DEF SessionsOK
<1>6. /\ ~(m = n /\ u \in others) => KindKept("unsent", u, m)
      /\ m = n /\ u \in others => Left("unsent", u, m)
  BY <1>1, <1>5 DEF KindKept, Left, Has, Once
<1>7. tgt'[c] = NoUser /\ NoUser \notin User /\ todo'[c] = rest /\ msg'[c] = n
  BY <1>1, <1>2, ConstantsAssumption
  DEF LocalsClear, HandlersOK, ConstantsAssumption
<1>8. \A e \in Conn : e # c => (Routing(e, u, m)' <=> Routing(e, u, m))
  BY <1>1, <1>2 DEF Routing, HandlersOK
<1>9. Routing(c, u, m)' => m = n /\ u \in others
  BY <1>2, <1>7 DEF Routing
<1>10. ~(m = n /\ u \in others) => KindKept("handler", u, m)
  <2>1. ~(m = n /\ u \in others) =>
           \A e \in Conn : Routing(e, u, m)' => Routing(e, u, m)
    BY <1>8, <1>9
  <2> QED
    BY <2>1, HandlerKind
<1>11. Got("handler", u, m)
  BY <1>8 DEF Got, Has, Once
<1>12. "unsent" \in Kinds /\ "handler" \in Kinds \ {"unsent"}
  BY DEF Kinds
<1> QED
  BY <1>4, <1>6, <1>10, <1>11, <1>12, OneMoves

LEMMA GroupMemberMoves ==
    ASSUME HandlersOK, SessionsOK, MailOK, MailOK', LocalsClear,
           NEW u \in User, NEW m \in Msg, NEW c \in Conn, NEW v \in User,
           GroupMember(c, v)
    PROVE  StepFor(u, m)
<1> DEFINE d == userConnMap[ServerOf[c]][v]
           n == msg[c]
<1>1. /\ pc[c] = "loop" /\ v \in todo[c]
      /\ todo' = [todo EXCEPT ![c] = @ \ {v}]
      /\ UNCHANGED <<uid, read, sentTo, msg>>
      /\ d # NoConn => UNCHANGED <<pc, tgt>>
                       /\ \E onLoop \in BOOLEAN : Send(d, v, n, onLoop)
      /\ d = NoConn => /\ \E step \in {"groupPublish", "groupStore"} : Goto(c, step)
                       /\ tgt' = [tgt EXCEPT ![c] = v]
                       /\ UNCHANGED mailVars
  BY DEF GroupMember
<1>2. /\ d \in Conn \cup {NoConn}
      /\ n \in Msg /\ tgt[c] = NoUser /\ NoUser \notin User
  <2>1. d \in Conn \cup {NoConn} /\ NoUser \notin User
    BY ConstantsAssumption DEF SessionsOK, ConstantsAssumption
  <2>2. n \in Msg
    BY <1>1 DEF HandlersOK, LocalsSet
  <2>3. tgt[c] = NoUser
    BY <1>1 DEF LocalsClear
  <2> QED
    BY <2>1, <2>2, <2>3
<1>3. <<u, m>> = <<v, n>> <=> u = v /\ m = n
  OBVIOUS
<1> HIDE DEF d
<1>4. ReadSame(u, m)
  <2>1. \A e \in Conn : pc'[e] = "respond" => pc[e] = "respond"
    BY <1>1 DEF HandlersOK, Goto
  <2> QED
    BY <1>1, <2>1 DEF ReadSame, Reading
<1>5. KindKept("read", u, m) /\ KindKept("unsent", u, m)
  BY <1>1, <1>4, SameKinds
<1>6. /\ \A e \in Conn : e # c => todo'[e] = todo[e]
      /\ todo'[c] = todo[c] \ {v}
  BY <1>1 DEF HandlersOK
<1>7. CASE d # NoConn
  <2>1. \A e \in Conn : Routing(e, u, m)' => Routing(e, u, m)
    BY <1>1, <1>6, <1>7 DEF Routing
  <2>2. <<u, m>> = <<v, n>> => Routing(c, u, m) /\ ~Routing(c, u, m)'
    BY <1>1, <1>2, <1>3, <1>6, <1>7 DEF Routing
  <2>3. KindKept("handler", u, m)
    BY <2>1, HandlerKind
  <2>4. <<u, m>> = <<v, n>> => Left("handler", u, m)
    BY <2>1, <2>2, HandlerKind DEF Left
  <2>5. PICK onLoop \in BOOLEAN : Send(d, v, n, onLoop)
    BY <1>1, <1>7
  <2>6. \A k \in {"unsent", "handler", "read"} \ {"handler"} : KindKept(k, u, m)
    BY <1>5
  <2>7. d \in Conn
    BY <1>2, <1>7
  <2> HIDE DEF n
  <2> QED
    BY <1>2, <2>3, <2>4, <2>5, <2>6, <2>7, SendMoves
<1>8. CASE d = NoConn
  <2>1. tgt'[c] = v /\ \A e \in Conn : e # c => tgt'[e] = tgt[e]
    BY <1>1, <1>8 DEF HandlersOK
  <2>2. \A e \in Conn : Routing(e, u, m)' => Routing(e, u, m)
    BY <1>1, <1>6, <2>1 DEF Routing
  <2>3. /\ UNCHANGED <<observer, offlineMsg, redisOut, shown, sentTo>>
        /\ \A e \in Conn : pending'[e] \in {pending[e], <<>>}
    BY <1>1, <1>8 DEF mailVars
  <2> QED
    BY <1>4, <2>2, <2>3, NothingMoves
<1> QED
  BY <1>7, <1>8

(* A process that stops takes copies with it and makes none. *)
LEMMA StopMoves ==
    ASSUME HandlersOK, MailOK, MailOK', NEW u \in User, NEW m \in Msg,
           NEW s \in Server, ServerStops(s)
    PROVE  StepFor(u, m)
<1>1. NoUser \notin User /\ NoMsg \notin Msg
  BY ConstantsAssumption DEF ConstantsAssumption
<1>2. /\ UNCHANGED <<offlineMsg, shown, sentTo>>
      /\ \A c \in Conn : pending'[c] \in {pending[c], <<>>}
      /\ \A t \in Server : redisOut'[t] \in {redisOut[t], <<>>}
      /\ \A t \in Server : observer'[t] \in {observer[t], <<>>}
  BY DEF ServerStops, MailOK
<1>3. \A c \in Conn :
         \/ pc'[c] = "closed" /\ msg'[c] = NoMsg
         \/ /\ pc'[c] = pc[c] /\ uid'[c] = uid[c] /\ read'[c] = read[c]
            /\ msg'[c] = msg[c] /\ tgt'[c] = tgt[c] /\ todo'[c] = todo[c]
  BY DEF ServerStops
<1>4. ReadSame(u, m)
  BY <1>3 DEF ReadSame, Reading
<1>5. \A c \in Conn : Routing(c, u, m)' => Routing(c, u, m)
  BY <1>1, <1>3 DEF Routing
<1>6. \A k \in Kinds : KindKept(k, u, m)
  BY <1>2, <1>4, <1>5, SameKinds, HandlerKind, ClearedKinds DEF Kinds
<1> QED
  BY <1>6 DEF StepFor, Stays

(* The steps that touch no message.                                        *)
LEMMA StillSteps ==
    ASSUME HandlersOK, MailOK, MailOK', NEW u \in User, NEW m \in Msg,
           UNCHANGED <<observer, offlineMsg, redisOut, shown, sentTo>>,
           \A c \in Conn : pending'[c] \in {pending[c], <<>>},
           UNCHANGED <<tgt, todo>>,
           \A c \in Conn : msg'[c] \in {msg[c], NoMsg},
           \A c \in Conn : pc'[c] = "respond" =>
              \/ pc[c] = "respond" /\ uid'[c] = uid[c] /\ read'[c] = read[c]
              \/ read'[c] = NoMail
    PROVE  StepFor(u, m)
<1>1. NoMsg \notin Msg
  BY ConstantsAssumption DEF ConstantsAssumption
<1>2. \A c \in Conn : Routing(c, u, m)' => Routing(c, u, m)
  BY <1>1 DEF Routing
<1>3. ReadSame(u, m)
  BY DEF ReadSame, Reading, NoMail
<1> QED
  BY <1>2, <1>3, NothingMoves

(* Every step moves one copy, or none.                                     *)
LEMMA EveryStepMoves ==
    ASSUME HandlersOK, SessionsOK, MailOK, LocalsClear, ReadStored, OneOwner,
           NEW u \in User, NEW m \in Msg, [Next]_vars,
           (\E c \in Conn : Publish(c)) => OneSubscribed(u)
    PROVE  StepFor(u, m)
<1>1. MailOK'
  BY MailStep
<1>2. ASSUME NEW c \in Conn, LoginStep(c)
      PROVE  StepFor(u, m)
  <2>1. CASE LoginRemoveOffline(c)
    BY <1>1, <2>1, RemoveMoves
  <2>2. CASE LoginRespond(c)
    BY <1>1, <2>2, RespondMoves
  <2>3. CASE LoginUnknown(c) \/ LoginInUse(c) \/ LoginAccept(c) \/ LoginInsert(c)
             \/ LoginSubscribe(c) \/ LoginUpdate(c)
    <3>1. /\ UNCHANGED <<observer, offlineMsg, redisOut, shown, sentTo, pending,
                         tgt, todo, msg, read>>
          /\ \E step \in PCs \ {"respond"} : Goto(c, step)
          /\ \A d \in Conn : d # c => uid'[d] = uid[d]
      BY <2>3 DEF LoginUnknown, LoginInUse, LoginAccept, LoginInsert,
         LoginSubscribe, LoginUpdate, mailVars, HandlersOK
    <3>2. \A d \in Conn : pc'[d] = "respond" => pc[d] = "respond" /\ d # c
      BY <3>1 DEF Goto, HandlersOK
    <3> QED
      BY <1>1, <3>1, <3>2, StillSteps
  <2>4. CASE LoginReadOffline(c)
    <3>1. /\ UNCHANGED <<observer, offlineMsg, redisOut, shown, sentTo, pending,
                         tgt, todo, msg, uid>>
          /\ \A d \in Conn : d # c => read'[d] = read[d] /\ pc'[d] = pc[d]
          /\ pc'[c] = "respond" => read'[c] = NoMail
      BY <2>4 DEF LoginReadOffline, mailVars, HandlersOK, Goto
    <3> QED
      BY <1>1, <3>1, StillSteps
  <2> QED
    BY <1>2, <2>1, <2>2, <2>3, <2>4 DEF LoginStep
<1>3. ASSUME NEW c \in Conn, ChatStep(c)
      PROVE  StepFor(u, m)
  <2>1. CASE QueryState(c) \/ GroupLock(c) \/ GroupUnlock(c)
    <3>1. /\ UNCHANGED <<observer, offlineMsg, redisOut, shown, sentTo, pending,
                         tgt, todo, uid, read>>
          /\ \A d \in Conn : msg'[d] \in {msg[d], NoMsg}
          /\ \E step \in PCs \ {"respond"} : Goto(c, step)
      BY <2>1 DEF QueryState, GroupLock, GroupUnlock, mailVars, HandlersOK
    <3>2. \A d \in Conn : pc'[d] = "respond" => pc[d] = "respond"
      BY <3>1 DEF Goto, HandlersOK
    <3> QED
      BY <1>1, <3>1, <3>2, StillSteps
  <2> QED
    BY <1>1, <1>3, <2>1, PublishMoves, StoreMoves, GroupMemberMoves DEF ChatStep
<1>4. ASSUME NEW c \in Conn, CloseStep(c)
      PROVE  StepFor(u, m)
  <2>1. /\ UNCHANGED <<observer, offlineMsg, redisOut, shown, sentTo, tgt, todo,
                       msg, read>>
        /\ \A d \in Conn : pending'[d] \in {pending[d], <<>>}
        /\ \E step \in PCs \ {"respond"} : Goto(c, step)
        /\ \A d \in Conn : d # c => uid'[d] = uid[d]
    BY <1>4 DEF CloseStep, HandleClose, CloseErase, CloseUnsubscribe,
       CloseSetOffline, mailVars, HandlersOK, MailOK
  <2>2. \A d \in Conn : pc'[d] = "respond" => pc[d] = "respond" /\ d # c
    BY <2>1 DEF Goto, HandlersOK
  <2> QED
    BY <1>1, <2>1, <2>2, StillSteps
<1>5. ASSUME NEW c \in Conn, ClientStep(c)
      PROVE  StepFor(u, m)
  <2>1. ASSUME NEW v \in Accounts[c],
               Connect(c) \/ Loginout(c) \/ Quit(c) \/ LoginRequest(c, v)
        PROVE  StepFor(u, m)
    <3>1. /\ UNCHANGED <<observer, offlineMsg, redisOut, shown, sentTo, pending,
                         tgt, todo, msg, read>>
          /\ UNCHANGED <<pc, uid>> \/ \E step \in {"idle", "login"} : Goto(c, step)
          /\ \A d \in Conn : d # c => uid'[d] = uid[d]
      BY <2>1 DEF Connect, Loginout, Quit, LoginRequest, mailVars, handlerVars,
         HandlersOK
    <3>2. \A d \in Conn : pc'[d] = "respond" =>
             pc[d] = "respond" /\ uid'[d] = uid[d]
      BY <3>1 DEF Goto, HandlersOK
    <3> QED
      BY <1>1, <3>1, <3>2, StillSteps
  <2>2. CASE Connect(c) \/ Loginout(c) \/ Quit(c)
    <3>1. /\ UNCHANGED <<observer, offlineMsg, redisOut, shown, sentTo, pending,
                         tgt, todo, msg, read, uid>>
          /\ UNCHANGED pc \/ Goto(c, "idle")
      BY <2>2 DEF Connect, Loginout, Quit, mailVars, handlerVars
    <3>2. \A d \in Conn : pc'[d] = "respond" => pc[d] = "respond"
      BY <3>1 DEF Goto, HandlersOK
    <3> QED
      BY <1>1, <3>1, <3>2, StillSteps
  <2> QED
    BY <1>1, <1>5, <2>1, <2>2, OneChatMoves, GroupChatMoves DEF ClientStep
<1>6. ASSUME NEW s \in Server, RedisExecute(s) \/ Interrupt(s)
      PROVE  StepFor(u, m)
  <2>1. /\ UNCHANGED <<observer, offlineMsg, redisOut, shown, sentTo, pending>>
        /\ UNCHANGED <<tgt, todo, msg, read, uid, pc>>
    BY <1>6 DEF RedisExecute, Interrupt, mailVars, handlerVars
  <2> QED
    BY <1>1, <2>1, StillSteps
<1>7. ASSUME UNCHANGED vars
      PROVE  StepFor(u, m)
  <2>1. /\ UNCHANGED <<observer, offlineMsg, redisOut, shown, sentTo, pending>>
        /\ UNCHANGED <<tgt, todo, msg, read, uid, pc>>
    BY <1>7 DEF vars, mailVars, handlerVars
  <2> QED
    BY <1>1, <2>1, StillSteps
<1>8. ASSUME NEW s \in Server, ObserverStep(s)
      PROVE  StepFor(u, m)
  BY <1>1, <1>8, NotifyMoves, NotifyStoreMoves DEF ObserverStep
<1>9. ASSUME NEW s \in Server, ServerStops(s)
      PROVE  StepFor(u, m)
  BY <1>1, <1>9, StopMoves
<1>10. ASSUME NEW c \in Conn, RunFunctor(c)
       PROVE  StepFor(u, m)
  BY <1>1, <1>10, FunctorMoves
<1> HIDE DEF StepFor, HandlersOK, SessionsOK, MailOK, LocalsClear, ReadStored
<1> QED
  BY <1>2, <1>3, <1>4, <1>5, <1>6, <1>7, <1>8, <1>9, <1>10, Zenon
  DEF Next, HandlerStep, StopStep, Kill, Exit, AllGone

-----------------------------------------------------------------------------
(* Users come back through the same server: no account is reachable through*)
(* two of them.                                                            *)
OneHome ==
    \A c, d \in Conn :
       ServerOf[c] # ServerOf[d] => Accounts[c] \cap Accounts[d] \subseteq {NoUser}

LEMMA OneHomeSubscribed ==
    ASSUME HomeInv, OneHome, NEW u \in User
    PROVE  OneSubscribed(u)
<1>1. NoUser \notin User
  BY ConstantsAssumption DEF ConstantsAssumption
<1>2. ASSUME NEW s \in Server, u \in subscribed[s]
      PROVE  ServedAt(s, u)
  BY <1>2 DEF HomeInv, Knows
<1>3. ASSUME NEW s \in Server, NEW t \in Server, ServedAt(s, u), ServedAt(t, u)
      PROVE  s = t
  BY <1>1, <1>3 DEF ServedAt, OneHome
<1> QED
  BY <1>2, <1>3 DEF OneSubscribed

Singles == \A u \in User, m \in Msg : Single(u, m)

LEMMA SinglesStep ==
    ASSUME HandlersOK, SessionsOK, MailOK, LocalsClear, ReadStored, OneOwner,
           HomeInv, OneHome, Singles, [Next]_vars
    PROVE  Singles'
<1> SUFFICES ASSUME NEW u \in User, NEW m \in Msg PROVE Single(u, m)'
  BY DEF Singles
<1>1. MailOK'
  BY MailStep
<1>2. OneSubscribed(u)
  BY OneHomeSubscribed
<1>3. Single(u, m)
  BY DEF Singles
<1> QED
  BY <1>1, <1>2, <1>3, EveryStepMoves, MovesKeepSingle DEF StepFor

LEMMA SinglesInit == Init => Singles
<1> SUFFICES ASSUME Init, NEW u \in User, NEW m \in Msg PROVE Single(u, m)
  BY DEF Singles
<1>1. \A k \in Kinds \ {"unsent"} : ~Has(k, u, m)
  <2>1. /\ \A c \in Conn : msg[c] # m /\ pc[c] # "respond" /\ pending[c] = <<>>
        /\ \A s \in Server : redisOut[s] = <<>> /\ observer[s] = <<>>
        /\ offlineMsg[u][m] = 0 /\ shown[u][m] = 0
    BY ConstantsAssumption DEF Init, NoMail, ConstantsAssumption
  <2>2. <<u, m>> # <<>>
    OBVIOUS
  <2>3. ~QHas(redisOut, Server, <<u, m>>) /\ ~QHas(pending, Conn, <<u, m>>)
    <3>1. DOMAIN <<>> = {}
      OBVIOUS
    <3> QED
      BY <2>1, <3>1 DEF QHas
  <2>4. /\ \A c \in Conn : ~Routing(c, u, m) /\ ~Reading(c, u)
        /\ \A s \in Server : observer[s] # <<u, m>>
    BY <2>1, <2>2 DEF Routing, Reading
  <2>5. ~(offlineMsg[u][m] > 0) /\ ~(shown[u][m] > 0)
    BY <2>1
  <2> QED
    BY <2>3, <2>4, <2>5 DEF Has, Kinds
<1>2. MailOK
  BY DEF Init, MailOK, NoMail
<1>3. Once("unsent", u, m)
  BY DEF Once
<1>4. \A k \in Kinds : Once(k, u, m)
  BY <1>1, <1>2, <1>3, NoneIsOnce
<1> QED
  BY <1>1, <1>4 DEF Single

(* No addressee gets a message twice, for any number of servers, clients   *)
(* and groups: not when a login handler reads the offline messages while   *)
(* others are being stored, not when a session ends or its server dies     *)
(* between two steps of the routing.  Every step moves a message from one  *)
(* place to one other at most.  Assumed: users come back through the same  *)
(* server, and the account has one owner, hence neither overlapping login  *)
(* attempts nor a SIGINT.                                                  *)
THEOREM NeverTwice ==
    ASSUME "overlap" \notin Disruptions, "sigint" \notin Disruptions, OneHome
    PROVE  DSpec => []AtMostOnce
<1> DEFINE Sessions == HandlersOK /\ SessionsOK /\ AwayTogether /\ SessionInv
           Mails == LinksOK /\ MailOK /\ LocalsClear /\ ReadStored /\ HomeInv
                      /\ Singles
<1>1. Init => Mails
  <2>1. Init => LinksOK /\ MailOK
    BY DEF Init, LinksOK, MailOK, NoMail
  <2>2. Init => LocalsClear /\ ReadStored
    BY ConstantsAssumption DEF Init, LocalsClear, ReadStored, ConstantsAssumption
  <2>3. Init => HomeInv
    BY ConstantsAssumption
    DEF Init, HomeInv, Knows, OnLink, WorkedOn, Nobody, ConstantsAssumption
  <2> QED
    BY <2>1, <2>2, <2>3, SinglesInit
<1>2. Sessions /\ Mails /\ [Next]_vars => Mails'
  BY LinksStep, MailStep, LocalsClearStep, ReadStoredStep, HomeStep, SinglesStep
  DEF SessionInv
<1>3. Mails => AtMostOnce
  BY SingleIsOne DEF Singles, AtMostOnce
<1>4. DSpec => Spec
  <2>1. DInit => Init
    BY DEF DInit
  <2>2. [Next /\ TrackCalm /\ TrackGrouped]_dvars => [Next]_vars
    BY DEF dvars
  <2> QED
    BY <2>1, <2>2, PTL DEF DSpec, Spec
<1>5. Spec => [](Sessions)
  BY SessionInvariant
<1> QED
  BY <1>1, <1>2, <1>3, <1>4, <1>5, PTL DEF Spec

-----------------------------------------------------------------------------
(* A copy at its place: which step takes it away, and where it goes.       *)
At(q, s, e) == \E i \in DOMAIN q[s] : q[s][i] = e

LEMMA AtTail ==
    ASSUME NEW S, NEW E, NEW q \in [S -> Seq(E)], NEW s \in S, q[s] # <<>>,
           NEW e, NEW t \in S, At(q, t, e)
    PROVE  LET r == [q EXCEPT ![s] = Tail(@)]
           IN At(r, t, e) \/ (t = s /\ Head(q[s]) = e)
<1> DEFINE r == [q EXCEPT ![s] = Tail(@)]
<1>1. CASE t # s
  BY <1>1 DEF At
<1>2. CASE t = s
  <2>1. q[s] \in Seq(E) /\ r[s] = Tail(q[s])
    OBVIOUS
  <2>2. /\ Len(Tail(q[s])) = Len(q[s]) - 1 /\ Len(q[s]) \in Nat
        /\ Tail(q[s]) \in Seq(E)
        /\ \A j \in 1..Len(Tail(q[s])) : Tail(q[s])[j] = q[s][j + 1]
        /\ Head(q[s]) = q[s][1]
    BY <2>1, HeadTailProperties, LenProperties
  <2>3. DOMAIN q[s] = 1..Len(q[s]) /\ DOMAIN Tail(q[s]) = 1..(Len(q[s]) - 1)
    BY <2>1, <2>2, LenProperties
  <2>4. PICK i \in DOMAIN q[s] : q[s][i] = e
    BY <1>2 DEF At
  <2>5. CASE i = 1
    BY <1>2, <2>2, <2>4, <2>5
  <2>6. CASE i # 1
    <3>1. i - 1 \in 1..(Len(q[s]) - 1) /\ (i - 1) + 1 = i
      BY <2>2, <2>3, <2>6
    <3>2. Tail(q[s])[i - 1] = e
      BY <2>2, <2>4, <3>1
    <3> QED
      BY <1>2, <2>1, <2>3, <3>1, <3>2 DEF At
  <2> QED
    BY <2>5, <2>6
<1> QED
  BY <1>1, <1>2

LEMMA AtEnd ==
    ASSUME NEW E, NEW a \in Seq(E), NEW x \in E
    PROVE  /\ DOMAIN a \subseteq DOMAIN Append(a, x)
           /\ \A i \in DOMAIN a : Append(a, x)[i] = a[i]
           /\ \E i \in DOMAIN Append(a, x) : Append(a, x)[i] = x
<1>1. /\ Append(a, x) \in Seq(E)
      /\ Len(Append(a, x)) = Len(a) + 1
      /\ \A i \in 1..Len(a) : Append(a, x)[i] = a[i]
      /\ Append(a, x)[Len(a) + 1] = x
  BY AppendProperties
<1>2. DOMAIN a = 1..Len(a) /\ Len(a) \in Nat
      /\ DOMAIN Append(a, x) = 1..(Len(a) + 1)
  BY <1>1, LenProperties
<1>3. Len(a) + 1 \in DOMAIN Append(a, x)
  BY <1>2
<1> QED
  BY <1>1, <1>2, <1>3

LEMMA AtAppend ==
    ASSUME NEW S, NEW E, NEW q \in [S -> Seq(E)], NEW s \in S, NEW x \in E,
           NEW r, r[s] = Append(q[s], x)
    PROVE  \A e : (At(q, s, e) => At(r, s, e)) /\ At(r, s, x)
<1>1. q[s] \in Seq(E)
  OBVIOUS
<1> DEFINE a == q[s]
           b == Append(a, x)
<1>2. /\ DOMAIN a \subseteq DOMAIN b
      /\ \A i \in DOMAIN a : b[i] = a[i]
      /\ \E i \in DOMAIN b : b[i] = x
  BY <1>1, AtEnd
<1>3. r[s] = b
  OBVIOUS
<1> HIDE DEF b
<1> QED
  BY <1>2, <1>3 DEF At

(* The client's side of a handler: who closes has left, who logs in waits  *)
(* for the answer or has left, and nobody is listed before the connection. *)
ClientsInv ==
    \A c \in Conn :
       /\ pc[c] \in CloseSteps \cup {"closed"} => client[c] = "gone"
       /\ pc[c] \in LoginSteps => client[c] \in {"wait", "gone"}
       /\ pc[c] = "away" => \A u \in User : ~Mapped(u, c)

LEMMA ClientsStep ==
    ASSUME HandlersOK, SessionsOK, AwayTogether, ClientsInv, [Next]_vars
    PROVE  ClientsInv'
<1> USE DEF HandlersOK, SessionsOK, Goto
<1> DEFINE Fine(c) ==
             /\ pc'[c] \in CloseSteps \cup {"closed"} => client'[c] = "gone"
             /\ pc'[c] \in LoginSteps => client'[c] \in {"wait", "gone"}
             /\ pc'[c] = "away" => pc[c] = "away"
           Listed(c) == \A u \in User : Mapped(u, c)' =>
                           Mapped(u, c) \/ pc[c] # "away"
<1>1. (\A c \in Conn : Fine(c) /\ Listed(c)) => ClientsInv'
  BY DEF ClientsInv
<1>2. ASSUME NEW c \in Conn, LoginStep(c)
      PROVE  ClientsInv'
  <2>1. \A d \in Conn : Fine(d)
    BY <1>2 DEF LoginStep, LoginUnknown, LoginInUse, LoginAccept, LoginInsert,
       LoginSubscribe, LoginUpdate, LoginReadOffline, LoginRemoveOffline,
       LoginRespond, ClientsInv, clientVars
  <2>2. UNCHANGED userConnMap \/ LoginInsert(c)
    BY <1>2 DEF LoginStep, LoginUnknown, LoginInUse, LoginAccept,
       LoginSubscribe, LoginUpdate, LoginReadOffline, LoginRemoveOffline,
       LoginRespond, sessionVars
  <2>3. CASE LoginInsert(c)
    <3> DEFINE old == userConnMap[ServerOf[c]][uid[c]]
               new == IF old = NoConn THEN c ELSE old
    <3>1. /\ userConnMap' = [userConnMap EXCEPT ![ServerOf[c]][uid[c]] = new]
          /\ pc[c] # "away" /\ uid[c] \in User
          /\ \A d \in Conn : ServerOf[d] \in Server
      BY <2>3, ConstantsAssumption
      DEF LoginInsert, LocalsSet, ConstantsAssumption
    <3>2. \A s \in Server, v \in User : userConnMap'[s][v] =
             IF s = ServerOf[c] /\ v = uid[c] THEN new ELSE userConnMap[s][v]
      BY <3>1
    <3>3. \A d \in Conn, v \in User : Mapped(v, d)' => Mapped(v, d) \/ d = c
      BY <3>1, <3>2 DEF Mapped
    <3> HIDE DEF new, old
    <3> QED
      BY <1>1, <2>1, <3>1, <3>3
  <2> QED
    BY <1>1, <2>1, <2>2, <2>3 DEF Mapped
<1>3. ASSUME NEW c \in Conn, ChatStep(c) \/ RunFunctor(c)
      PROVE  ClientsInv'
  <2>1. /\ UNCHANGED <<client, userConnMap>>
        /\ \A d \in Conn : pc'[d] = pc[d] \/
              pc'[d] \in ChatSteps \cup GroupLocked \cup {"idle"}
    BY <1>3 DEF ChatStep, QueryState, Publish, StoreOffline, Routed, GroupLock,
       GroupUnlock, GroupMember, RunFunctor, handlerVars, clientVars, sessionVars
  <2> QED
    BY <1>1, <2>1 DEF ClientsInv, Mapped
<1>4. ASSUME NEW c \in Conn, CloseStep(c)
      PROVE  ClientsInv'
  <2>1. \A d \in Conn : Fine(d)
    BY <1>4 DEF CloseStep, HandleClose, CloseErase, CloseUnsubscribe,
       CloseSetOffline, ClientsInv, clientVars
  <2>2. \A d \in Conn, v \in User : Mapped(v, d)' => Mapped(v, d)
    <3>1. NoConn \notin Conn /\ \A d \in Conn : ServerOf[d] \in Server
      BY ConstantsAssumption DEF ConstantsAssumption
    <3>2. UNCHANGED userConnMap \/ \E u \in User : userConnMap' =
             [userConnMap EXCEPT ![ServerOf[c]][u] = NoConn]
      BY <1>4 DEF CloseStep, HandleClose, CloseErase, CloseUnsubscribe,
         CloseSetOffline, sessionVars
    <3>3. \A s \in Server, v \in User :
             userConnMap'[s][v] \in {userConnMap[s][v], NoConn}
      <4>1. CASE UNCHANGED userConnMap
        BY <4>1
      <4>2. ASSUME NEW u \in User,
                   userConnMap' = [userConnMap EXCEPT ![ServerOf[c]][u] = NoConn]
            PROVE  \A s \in Server, v \in User :
                      userConnMap'[s][v] \in {userConnMap[s][v], NoConn}
        BY <3>1, <4>2
      <4> QED
        BY <3>2, <4>1, <4>2
    <3> QED
      BY <3>1, <3>3 DEF Mapped
  <2> QED
    BY <1>1, <2>1, <2>2
<1>5. ASSUME NEW c \in Conn, ClientStep(c)
      PROVE  ClientsInv'
  <2>1. UNCHANGED userConnMap
    BY <1>5 DEF ClientStep, Connect, Loginout, Quit, LoginRequest, OneChat,
       GroupChat, sessionVars
  <2>2. CASE Connect(c) \/ Loginout(c) \/ Quit(c)
    <3>1. \A d \in Conn : Fine(d)
      BY <2>2 DEF Connect, Loginout, Quit, Ready, handlerVars, ClientsInv
    <3> QED
      BY <1>1, <2>1, <3>1 DEF Mapped
  <2>3. ASSUME NEW u, LoginRequest(c, u)
        PROVE  ClientsInv'
    <3>1. \A d \in Conn : Fine(d)
      BY <2>3 DEF LoginRequest, ClientsInv
    <3> QED
      BY <1>1, <2>1, <3>1 DEF Mapped
  <2>4. ASSUME NEW n, NEW u, OneChat(c, n, u) \/ GroupChat(c, n, u)
        PROVE  ClientsInv'
    <3>1. UNCHANGED client /\ \A d \in Conn :
             pc'[d] = pc[d] \/ pc'[d] \in {"query", "lock"}
      BY <2>4 DEF OneChat, GroupChat, clientVars
    <3> QED
      BY <1>1, <2>1, <3>1 DEF Mapped, ClientsInv
  <2> QED
    BY <1>5, <2>2, <2>3, <2>4 DEF ClientStep
<1>6. ASSUME NEW s \in Server, ObserverStep(s) \/ RedisExecute(s) \/ Interrupt(s)
      PROVE  ClientsInv'
  <2>1. UNCHANGED <<client, pc, userConnMap>>
    BY <1>6 DEF ObserverStep, Notify, NotifyStore, RedisExecute, Interrupt,
       clientVars, handlerVars, sessionVars
  <2> QED
    BY <2>1 DEF ClientsInv, Mapped
<1>7. ASSUME NEW s \in Server, ServerStops(s)
      PROVE  ClientsInv'
  <2>1. \A d \in Conn : Fine(d)
    BY <1>7 DEF ServerStops, ClientsInv
  <2>2. NoConn \notin Conn /\ \A d \in Conn : ServerOf[d] \in Server
    BY ConstantsAssumption DEF ConstantsAssumption
  <2>3. \A t \in Server, u \in User :
           userConnMap'[t][u] \in {userConnMap[t][u], NoConn}
    BY <1>7 DEF ServerStops, Nobody
  <2>4. \A d \in Conn : Listed(d)
    BY <2>2, <2>3 DEF Mapped
  <2> QED
    BY <1>1, <2>1, <2>4
<1>8. CASE UNCHANGED vars
  <2>1. UNCHANGED <<client, pc, userConnMap>>
    BY <1>8 DEF vars, clientVars, handlerVars, sessionVars
  <2> QED
    BY <2>1 DEF ClientsInv, Mapped
<1> HIDE DEF HandlersOK, SessionsOK, Goto
<1> QED
  BY <1>2, <1>3, <1>4, <1>5, <1>6, <1>7, <1>8, Zenon
  DEF Next, HandlerStep, StopStep, Kill, Exit, AllGone

(* A copy stays where it is.                                               *)
ShownStays(u, m) == shown[u][m] <= shown'[u][m]
StoredStays(u, m) == offlineMsg[u][m] <= offlineMsg'[u][m]
RedisStays(s, u, m) == At(redisOut, s, <<u, m>>) => At(redisOut', s, <<u, m>>)
ObserverStays(s, u, m) == observer[s] = <<u, m>> => observer'[s] = <<u, m>>
PendingStays(c, u, m) == At(pending, c, <<u, m>>) => At(pending', c, <<u, m>>)
RoutingStays(c, u, m) ==
    Routing(c, u, m) =>
       Routing(c, u, m)' /\ (tgt'[c] = u => tgt[c] = u /\ pc'[c] = pc[c])
ReadStays(c, u, m) ==
    Reading(c, u) /\ read[c][m] > 0 =>
       Reading(c, u)' /\ read'[c][m] = read[c][m]

(* The step that takes it away.                                            *)
Takes(u, m) ==
    /\ ShownStays(u, m)
    /\ \/ StoredStays(u, m)
       \/ \E c \in Conn : LoginRemoveOffline(c) /\ uid[c] = u
    /\ \A s \in Server :
          /\ RedisStays(s, u, m) \/ (Notify(s) /\ Head(redisOut[s]) = <<u, m>>)
          /\ ObserverStays(s, u, m) \/ NotifyStore(s)
    /\ \A c \in Conn :
          /\ \/ PendingStays(c, u, m) \/ HandleClose(c)
             \/ RunFunctor(c) /\ Head(pending[c]) = <<u, m>>
          /\ \/ RoutingStays(c, u, m) \/ GroupMember(c, u)
             \/ /\ tgt[c] = u /\ msg[c] = m
                /\ QueryState(c) \/ Publish(c) \/ StoreOffline(c)
          /\ ReadStays(c, u, m) \/ LoginRespond(c)

NoStop == \A s \in Server : ~StopStep(s)

LEMMA MailUnchanged ==
    ASSUME MailOK, NEW u \in User, NEW m \in Msg
    PROVE  /\ UNCHANGED shown => ShownStays(u, m)
           /\ UNCHANGED offlineMsg => StoredStays(u, m)
           /\ UNCHANGED redisOut => \A s \in Server : RedisStays(s, u, m)
           /\ UNCHANGED observer => \A s \in Server : ObserverStays(s, u, m)
           /\ UNCHANGED pending => \A c \in Conn : PendingStays(c, u, m)
<1>1. shown[u][m] \in Nat /\ offlineMsg[u][m] \in Nat
  BY DEF MailOK
<1> QED
  BY <1>1 DEF ShownStays, StoredStays, RedisStays, ObserverStays, PendingStays

LEMMA OneMoreStays ==
    ASSUME MailOK, NEW u \in User, NEW m \in Msg, NEW v \in User, NEW n \in Msg
    PROVE  /\ offlineMsg' = Stored(v, n) =>
                 StoredStays(u, m) /\ (<<v, n>> = <<u, m>> => offlineMsg'[u][m] > 0)
           /\ shown' = [shown EXCEPT ![v][n] = @ + 1] =>
                 ShownStays(u, m) /\ (<<v, n>> = <<u, m>> => shown'[u][m] > 0)
<1>1. shown[u][m] \in Nat /\ offlineMsg[u][m] \in Nat
  BY DEF MailOK
<1>2. offlineMsg' = Stored(v, n) =>
         offlineMsg'[u][m] = IF u = v /\ m = n THEN offlineMsg[u][m] + 1
                                               ELSE offlineMsg[u][m]
  BY DEF MailOK, Stored
<1>3. shown' = [shown EXCEPT ![v][n] = @ + 1] =>
         shown'[u][m] = IF u = v /\ m = n THEN shown[u][m] + 1 ELSE shown[u][m]
  BY DEF MailOK
<1>4. <<v, n>> = <<u, m>> <=> u = v /\ m = n
  OBVIOUS
<1>5. ASSUME offlineMsg' = Stored(v, n)
      PROVE  StoredStays(u, m) /\ (<<v, n>> = <<u, m>> => offlineMsg'[u][m] > 0)
  BY <1>1, <1>2, <1>4, <1>5 DEF StoredStays
<1>6. ASSUME shown' = [shown EXCEPT ![v][n] = @ + 1]
      PROVE  ShownStays(u, m) /\ (<<v, n>> = <<u, m>> => shown'[u][m] > 0)
  BY <1>1, <1>3, <1>4, <1>6 DEF ShownStays
<1> QED
  BY <1>5, <1>6

(* Sending keeps what is there; to a client that is there it delivers.     *)
LEMMA SendStays ==
    ASSUME MailOK, NEW u \in User, NEW m \in Msg, NEW d \in Conn,
           NEW v \in User, NEW n \in Msg, NEW onLoop, Send(d, v, n, onLoop)
    PROVE  /\ ShownStays(u, m) /\ StoredStays(u, m)
           /\ \A s \in Server : RedisStays(s, u, m) /\ ObserverStays(s, u, m)
           /\ \A c \in Conn : PendingStays(c, u, m)
           /\ Connected(d) /\ client[d] # "gone" /\ <<v, n>> = <<u, m>> =>
                 At(pending', d, <<u, m>>) \/ shown'[u][m] > 0
<1>1. UNCHANGED <<observer, offlineMsg, redisOut>>
  BY DEF Send, Display
<1>2. /\ StoredStays(u, m)
      /\ \A s \in Server : RedisStays(s, u, m) /\ ObserverStays(s, u, m)
  BY <1>1, MailUnchanged
<1>3. \/ /\ UNCHANGED <<pending, shown>>
         /\ ~(Connected(d) /\ client[d] # "gone")
      \/ UNCHANGED shown /\ pending' = [pending EXCEPT ![d] = Append(@, <<v, n>>)]
      \/ UNCHANGED pending /\ shown' = [shown EXCEPT ![v][n] = @ + 1]
  BY DEF Send, Display
<1>4. CASE UNCHANGED <<pending, shown>> /\ ~(Connected(d) /\ client[d] # "gone")
  BY <1>2, <1>4, MailUnchanged
<1>5. CASE UNCHANGED shown /\ pending' = [pending EXCEPT ![d] = Append(@, <<v, n>>)]
  <2>1. pending \in [Conn -> Seq(Envelope)] /\ <<v, n>> \in Envelope
    BY DEF MailOK, Envelope
  <2>2. pending'[d] = Append(pending[d], <<v, n>>)
        /\ \A c \in Conn : c # d => pending'[c] = pending[c]
    BY <1>5, <2>1
  <2>3. \A e : (At(pending, d, e) => At(pending', d, e))
               /\ At(pending', d, <<v, n>>)
    BY <2>1, <2>2, AtAppend
  <2>4. \A c \in Conn : PendingStays(c, u, m)
    BY <2>2, <2>3 DEF PendingStays, At
  <2> QED
    BY <1>2, <1>5, <2>3, <2>4, MailUnchanged
<1>6. CASE UNCHANGED pending /\ shown' = [shown EXCEPT ![v][n] = @ + 1]
  BY <1>2, <1>6, MailUnchanged, OneMoreStays
<1> QED
  BY <1>3, <1>4, <1>5, <1>6

(* What the observer does with the message it takes.                       *)
LEMMA NotifyStays ==
    ASSUME HandlersOK, SessionsOK, MailOK, NEW u \in User, NEW m \in Msg,
           NEW s \in Server, Notify(s)
    PROVE  /\ \A t \in Server :
                 /\ \/ RedisStays(t, u, m)
                    \/ t = s /\ Head(redisOut[s]) = <<u, m>>
                 /\ ObserverStays(t, u, m)
           /\ \A c \in Conn : PendingStays(c, u, m)
           /\ Head(redisOut[s]) = <<u, m>> =>
                 LET d == userConnMap[s][u]
                 IN \/ d = NoConn /\ observer'[s] = <<u, m>>
                    \/ d # NoConn /\ Connected(d) /\ At(pending', d, <<u, m>>)
                    \/ d # NoConn /\ ~Connected(d)
<1> DEFINE e == Head(redisOut[s])
           v == e[1]
           n == e[2]
           d == userConnMap[s][v]
<1>1. redisOut \in [Server -> Seq(Envelope)] /\ redisOut[s] # <<>>
  BY DEF MailOK, Notify
<1>2. e \in Envelope
  BY <1>1, HeadTailProperties
<1>3. v \in User /\ n \in Msg /\ e = <<v, n>>
  BY <1>2 DEF Envelope
<1>4. /\ redisOut' = [redisOut EXCEPT ![s] = Tail(@)]
      /\ observer[s] = <<>>
      /\ \/ /\ d # NoConn /\ UNCHANGED observer
            /\ pending' = IF Connected(d)
                          THEN [pending EXCEPT ![d] = Append(@, <<v, n>>)]
                          ELSE pending
         \/ /\ d = NoConn /\ UNCHANGED pending
            /\ observer' = [observer EXCEPT ![s] = <<v, n>>]
  BY DEF Notify, Locked
<1>5. d \in Conn \cup {NoConn}
  BY <1>3 DEF SessionsOK
<1> HIDE DEF d, v, n
<1>6. \A t \in Server : RedisStays(t, u, m) \/ (t = s /\ e = <<u, m>>)
  <2> SUFFICES ASSUME NEW t \in Server, At(redisOut, t, <<u, m>>),
                      ~(t = s /\ e = <<u, m>>)
               PROVE  At(redisOut', t, <<u, m>>)
    BY DEF RedisStays
  <2> DEFINE x == <<u, m>>
             r == [redisOut EXCEPT ![s] = Tail(@)]
  <2>1. At(redisOut, t, x)
    OBVIOUS
  <2> HIDE DEF x
  <2>2. At(r, t, x) \/ (t = s /\ Head(redisOut[s]) = x)
    BY <1>1, <2>1, AtTail
  <2> QED
    BY <1>4, <2>2 DEF x
<1>7. \A t \in Server : ObserverStays(t, u, m)
  <2>1. <<u, m>> # <<>>
    OBVIOUS
  <2>2. \A t \in Server : t # s => observer'[t] = observer[t]
    BY <1>4 DEF MailOK
  <2> QED
    BY <1>4, <2>1, <2>2 DEF ObserverStays
<1>8. CASE d # NoConn /\ Connected(d)
  <2>1. pending \in [Conn -> Seq(Envelope)] /\ <<v, n>> \in Envelope /\ d \in Conn
    BY <1>3, <1>5, <1>8 DEF MailOK, Envelope
  <2>2. pending'[d] = Append(pending[d], <<v, n>>)
        /\ \A c \in Conn : c # d => pending'[c] = pending[c]
    BY <1>4, <1>8, <2>1
  <2>3. \A x : (At(pending, d, x) => At(pending', d, x))
               /\ At(pending', d, <<v, n>>)
    BY <2>1, <2>2, AtAppend
  <2>4. \A c \in Conn : PendingStays(c, u, m)
    BY <2>2, <2>3 DEF PendingStays, At
  <2>5. e = <<u, m>> => userConnMap[s][u] = d /\ <<v, n>> = <<u, m>>
    BY <1>3 DEF d
  <2> QED
    BY <1>6, <1>7, <1>8, <2>3, <2>4, <2>5
<1>9. CASE d # NoConn /\ ~Connected(d)
  <2>1. \A c \in Conn : PendingStays(c, u, m)
    BY <1>4, <1>9, MailUnchanged
  <2>2. e = <<u, m>> => userConnMap[s][u] = d
    BY <1>3 DEF d
  <2> QED
    BY <1>6, <1>7, <1>9, <2>1, <2>2
<1>10. CASE d = NoConn
  <2>1. \A c \in Conn : PendingStays(c, u, m)
    BY <1>4, <1>10, MailUnchanged
  <2>2. e = <<u, m>> => userConnMap[s][u] = d /\ observer'[s] = <<u, m>>
    BY <1>3, <1>4, <1>10 DEF d, MailOK
  <2> QED
    BY <1>6, <1>7, <1>10, <2>1, <2>2
<1> QED
  BY <1>8, <1>9, <1>10

(* What a loop does with a queued functor.                                 *)
LEMMA FunctorStays ==
    ASSUME MailOK, NEW u \in User, NEW m \in Msg, NEW c \in Conn, RunFunctor(c)
    PROVE  /\ ShownStays(u, m)
           /\ \A d \in Conn : \/ PendingStays(d, u, m)
                              \/ d = c /\ Head(pending[c]) = <<u, m>>
           /\ Head(pending[c]) = <<u, m>> =>
                 shown'[u][m] > 0 \/ client[c] = "gone"
<1> DEFINE e == Head(pending[c])
           v == e[1]
           n == e[2]
<1>1. pending \in [Conn -> Seq(Envelope)] /\ pending[c] # <<>>
  BY DEF MailOK, RunFunctor
<1>2. e \in Envelope
  BY <1>1, HeadTailProperties
<1>3. v \in User /\ n \in Msg /\ e = <<v, n>>
  BY <1>2 DEF Envelope
<1>4. /\ pending' = [pending EXCEPT ![c] = Tail(@)]
      /\ \/ client[c] # "gone" /\ shown' = [shown EXCEPT ![v][n] = @ + 1]
         \/ client[c] = "gone" /\ UNCHANGED shown
  BY DEF RunFunctor, Display
<1> HIDE DEF v, n
<1>5. \A d \in Conn : PendingStays(d, u, m) \/ (d = c /\ e = <<u, m>>)
  <2> SUFFICES ASSUME NEW d \in Conn, At(pending, d, <<u, m>>),
                      ~(d = c /\ e = <<u, m>>)
               PROVE  At(pending', d, <<u, m>>)
    BY DEF PendingStays
  <2> DEFINE x == <<u, m>>
             r == [pending EXCEPT ![c] = Tail(@)]
  <2>1. At(pending, d, x)
    OBVIOUS
  <2> HIDE DEF x
  <2>2. At(r, d, x) \/ (d = c /\ Head(pending[c]) = x)
    BY <1>1, <2>1, AtTail
  <2> QED
    BY <1>4, <2>2 DEF x
<1>6. CASE client[c] = "gone" /\ UNCHANGED shown
  BY <1>5, <1>6, MailUnchanged
<1>7. CASE shown' = [shown EXCEPT ![v][n] = @ + 1]
  <2>1. ShownStays(u, m) /\ (<<v, n>> = <<u, m>> => shown'[u][m] > 0)
    BY <1>3, <1>7, OneMoreStays
  <2> QED
    BY <1>3, <1>5, <2>1
<1> QED
  BY <1>4, <1>6, <1>7

(* PUBLISH reaches every subscriber. *)
LEMMA PublishStays ==
    ASSUME HandlersOK, MailOK, NEW u \in User, NEW m \in Msg, NEW c \in Conn,
           Publish(c)
    PROVE  \A s \in Server :
              /\ RedisStays(s, u, m)
              /\ tgt[c] = u /\ msg[c] = m /\ u \in subscribed[s] =>
                    At(redisOut', s, <<u, m>>)
<1> SUFFICES ASSUME NEW s \in Server
             PROVE  /\ RedisStays(s, u, m)
                    /\ tgt[c] = u /\ msg[c] = m /\ u \in subscribed[s] =>
                          At(redisOut', s, <<u, m>>)
  OBVIOUS
<1> DEFINE x == <<tgt[c], msg[c]>>
<1>1. x \in Envelope
  BY DEF Publish, HandlersOK, LocalsSet, Envelope
<1>2. redisOut \in [Server -> Seq(Envelope)]
  BY DEF MailOK
<1>3. redisOut'[s] = IF tgt[c] \in subscribed[s] THEN Append(redisOut[s], x)
                                                  ELSE redisOut[s]
  BY DEF Publish
<1>4. tgt[c] = u /\ msg[c] = m => x = <<u, m>>
  OBVIOUS
<1> HIDE DEF x
<1>5. CASE tgt[c] \in subscribed[s]
  <2>1. redisOut'[s] = Append(redisOut[s], x)
    BY <1>3, <1>5
  <2>2. \A e : (At(redisOut, s, e) => At(redisOut', s, e)) /\ At(redisOut', s, x)
    BY <1>1, <1>2, <2>1, AtAppend
  <2> QED
    BY <1>4, <2>2 DEF RedisStays
<1>6. CASE tgt[c] \notin subscribed[s]
  BY <1>3, <1>6 DEF RedisStays, At
<1> QED
  BY <1>5, <1>6

LEMMA EveryStepTakes ==
    ASSUME HandlersOK, SessionsOK, MailOK, AwayTogether, LocalsClear,
           [Next]_vars, NoStop, NEW u \in User, NEW m \in Msg
    PROVE  Takes(u, m)
<1> DEFINE Mail == /\ ShownStays(u, m) /\ StoredStays(u, m)
                   /\ \A s \in Server : RedisStays(s, u, m) /\ ObserverStays(s, u, m)
                   /\ \A d \in Conn : PendingStays(d, u, m)
           Locals == \A d \in Conn : RoutingStays(d, u, m) /\ ReadStays(d, u, m)
           Chats == ChatSteps \cup GroupLocked \cup {"lock"}
           Same(d) == /\ pc'[d] = pc[d] /\ msg'[d] = msg[d] /\ tgt'[d] = tgt[d]
                      /\ todo'[d] = todo[d] /\ uid'[d] = uid[d]
                      /\ read'[d] = read[d]
<1>1. Mail /\ Locals => Takes(u, m)
  BY DEF Takes
<1>2. UNCHANGED mailVars => Mail
  BY MailUnchanged DEF mailVars
<1>3. \A d \in Conn : Same(d) => RoutingStays(d, u, m) /\ ReadStays(d, u, m)
  BY DEF RoutingStays, ReadStays, Routing, Reading
<1>4. \A d \in Conn : pc[d] \notin Chats => RoutingStays(d, u, m)
  <2>1. NoUser \notin User
    BY ConstantsAssumption DEF ConstantsAssumption
  <2> QED
    BY <2>1 DEF LocalsClear, RoutingStays, Routing
<1>5. \A d \in Conn : pc[d] # "respond" => ReadStays(d, u, m)
  BY DEF ReadStays, Reading
<1> HIDE DEF Mail, Same
<1>6. ASSUME NEW c \in Conn, LoginStep(c) \/ CloseStep(c)
      PROVE  Takes(u, m)
  <2>1. /\ \A d \in Conn : d # c => Same(d)
        /\ pc[c] \notin Chats
    <3>1. UNCHANGED <<msg, tgt, todo>> /\ pc[c] \notin Chats
      BY <1>6 DEF LoginStep, LoginUnknown, LoginInUse, LoginAccept,
         LoginInsert, LoginSubscribe, LoginUpdate, LoginReadOffline,
         LoginRemoveOffline, LoginRespond, CloseStep, HandleClose, Ready,
         CloseErase, CloseUnsubscribe, CloseSetOffline
    <3>2. \E step : pc' = [pc EXCEPT ![c] = step]
      BY <1>6 DEF LoginStep, LoginUnknown, LoginInUse, LoginAccept,
         LoginInsert, LoginSubscribe, LoginUpdate, LoginReadOffline,
         LoginRemoveOffline, LoginRespond, CloseStep, HandleClose,
         CloseErase, CloseUnsubscribe, CloseSetOffline, Goto
    <3>3. UNCHANGED uid \/ \E v : uid' = [uid EXCEPT ![c] = v]
      BY <1>6 DEF LoginStep, LoginUnknown, LoginInUse, LoginAccept,
         LoginInsert, LoginSubscribe, LoginUpdate, LoginReadOffline,
         LoginRemoveOffline, LoginRespond, CloseStep, HandleClose,
         CloseErase, CloseUnsubscribe, CloseSetOffline
    <3>4. UNCHANGED read \/ \E v : read' = [read EXCEPT ![c] = v]
      BY <1>6 DEF LoginStep, LoginUnknown, LoginInUse, LoginAccept,
         LoginInsert, LoginSubscribe, LoginUpdate, LoginReadOffline,
         LoginRemoveOffline, LoginRespond, CloseStep, HandleClose,
         CloseErase, CloseUnsubscribe, CloseSetOffline
    <3>5. \A d \in Conn : d # c =>
             pc'[d] = pc[d] /\ uid'[d] = uid[d] /\ read'[d] = read[d]
      <4>1. \A d \in Conn : d # c => pc'[d] = pc[d]
        BY <3>2 DEF HandlersOK
      <4>2. \A d \in Conn : d # c => uid'[d] = uid[d]
        BY <3>3 DEF HandlersOK
      <4>3. \A d \in Conn : d # c => read'[d] = read[d]
        BY <3>4 DEF MailOK
      <4> QED
        BY <4>1, <4>2, <4>3
    <3> QED
      BY <3>1, <3>5 DEF Same
  <2>2. \A d \in Conn : d # c => RoutingStays(d, u, m) /\ ReadStays(d, u, m)
    BY <1>3, <2>1
  <2>3. RoutingStays(c, u, m)
    BY <1>4, <2>1
  <2>4. CASE LoginRespond(c)
    <3>1. UNCHANGED <<offlineMsg, redisOut, observer, pending>>
      BY <2>4 DEF LoginRespond
    <3>2. ShownStays(u, m)
      <4> DEFINE more == [n \in Msg |-> shown[uid[c]][n] + read[c][n]]
      <4>1. uid[c] \in User /\ read[c][m] \in Nat /\ shown[u][m] \in Nat
        BY <2>4 DEF LoginRespond, HandlersOK, LocalsSet, MailOK
      <4>2. UNCHANGED shown \/ shown' = [shown EXCEPT ![uid[c]] = more]
        BY <2>4 DEF LoginRespond
      <4>3. more[m] = shown[uid[c]][m] + read[c][m]
        OBVIOUS
      <4> HIDE DEF more
      <4>4. \/ UNCHANGED shown
            \/ shown'[u] = IF u = uid[c] THEN more ELSE shown[u]
        BY <4>2 DEF MailOK
      <4> QED
        BY <4>1, <4>3, <4>4 DEF ShownStays
    <3> QED
      BY <2>2, <2>3, <2>4, <3>1, <3>2, MailUnchanged DEF Takes
  <2>5. CASE LoginRemoveOffline(c)
    <3>1. /\ UNCHANGED <<shown, redisOut, observer, pending>>
          /\ uid[c] \in User /\ offlineMsg' = [offlineMsg EXCEPT ![uid[c]] = NoMail]
          /\ pc[c] # "respond"
      BY <2>5 DEF LoginRemoveOffline, HandlersOK, LocalsSet
    <3>2. StoredStays(u, m) \/ uid[c] = u
      <4>1. u # uid[c] => offlineMsg'[u][m] = offlineMsg[u][m]
                          /\ offlineMsg[u][m] \in Nat
        BY <3>1 DEF MailOK
      <4> QED
        BY <4>1 DEF StoredStays
    <3> QED
      BY <1>5, <2>2, <2>3, <2>5, <3>1, <3>2, MailUnchanged DEF Takes
  <2>6. CASE HandleClose(c)
    <3>1. /\ UNCHANGED <<shown, offlineMsg, redisOut, observer>>
          /\ pending' = [pending EXCEPT ![c] = <<>>] /\ pc[c] # "respond"
      BY <2>6 DEF HandleClose, Ready
    <3>2. \A d \in Conn : d # c => PendingStays(d, u, m)
      BY <3>1 DEF PendingStays, At, MailOK
    <3> QED
      BY <1>5, <2>2, <2>3, <2>6, <3>1, <3>2, MailUnchanged DEF Takes
  <2>7. CASE LoginUnknown(c) \/ LoginInUse(c) \/ LoginAccept(c) \/ LoginInsert(c)
             \/ LoginSubscribe(c) \/ LoginUpdate(c) \/ LoginReadOffline(c)
             \/ CloseErase(c) \/ CloseUnsubscribe(c) \/ CloseSetOffline(c)
    <3>1. UNCHANGED mailVars /\ pc[c] # "respond"
      BY <2>7 DEF LoginUnknown, LoginInUse, LoginAccept, LoginInsert,
         LoginSubscribe, LoginUpdate, LoginReadOffline, CloseErase,
         CloseUnsubscribe, CloseSetOffline
    <3> QED
      BY <1>1, <1>2, <1>5, <2>2, <2>3, <3>1
  <2> QED
    BY <1>6, <2>4, <2>5, <2>6, <2>7 DEF LoginStep, CloseStep
<1>7. ASSUME NEW c \in Conn, QueryState(c) \/ GroupLock(c) \/ GroupUnlock(c)
      PROVE  Takes(u, m)
  <2>1. /\ \A d \in Conn : d # c => Same(d)
        /\ pc[c] \in Chats /\ UNCHANGED mailVars
        /\ GroupUnlock(c) => todo[c] = {}
        /\ UNCHANGED <<tgt, todo>>
        /\ ~GroupUnlock(c) => UNCHANGED msg
    BY <1>7 DEF Same, QueryState, GroupLock, GroupUnlock, HandlersOK, Goto
  <2>2. \A d \in Conn : d # c => RoutingStays(d, u, m) /\ ReadStays(d, u, m)
    BY <1>3, <2>1
  <2>3. Mail /\ ReadStays(c, u, m)
    BY <1>2, <1>5, <2>1
  <2>4. CASE QueryState(c)
    <3>1. todo[c] = {}
      BY <2>4 DEF QueryState, LocalsClear
    <3>2. RoutingStays(c, u, m) \/ (tgt[c] = u /\ msg[c] = m)
      BY <3>1 DEF RoutingStays, Routing
    <3> QED
      BY <2>2, <2>3, <2>4, <3>2 DEF Takes, Mail
  <2>5. CASE GroupLock(c) \/ GroupUnlock(c)
    <3>1. tgt[c] = NoUser /\ NoUser \notin User
      BY <2>5, ConstantsAssumption
      DEF GroupLock, GroupUnlock, LocalsClear, ConstantsAssumption
    <3>2. RoutingStays(c, u, m)
      BY <2>1, <2>5, <3>1 DEF RoutingStays, Routing, GroupLock
    <3> QED
      BY <1>1, <2>2, <2>3, <3>2
  <2> QED
    BY <1>7, <2>4, <2>5
<1>8. ASSUME NEW c \in Conn, Publish(c) \/ StoreOffline(c)
      PROVE  Takes(u, m)
  <2>1. /\ \A d \in Conn : d # c => Same(d)
        /\ pc[c] \in {"publish", "groupPublish", "store", "groupStore"}
        /\ UNCHANGED <<pending, observer, shown, todo>>
        /\ tgt' = [tgt EXCEPT ![c] = NoUser]
        /\ pc[c] \in GroupLocked => UNCHANGED msg
    BY <1>8 DEF Same, Publish, StoreOffline, Routed, HandlersOK, Goto
  <2>2. \A d \in Conn : d # c => RoutingStays(d, u, m) /\ ReadStays(d, u, m)
    BY <1>3, <2>1
  <2>3. ReadStays(c, u, m)
    BY <1>5, <2>1
  <2>4. RoutingStays(c, u, m) \/ (tgt[c] = u /\ msg[c] = m)
    <3>1. pc[c] \notin GroupLocked => todo[c] = {}
      BY <2>1 DEF LocalsClear
    <3>2. tgt'[c] = NoUser /\ NoUser \notin User
      BY <2>1, ConstantsAssumption DEF HandlersOK, ConstantsAssumption
    <3> QED
      BY <2>1, <3>1, <3>2 DEF RoutingStays, Routing
  <2>5. CASE Publish(c)
    <3>1. UNCHANGED offlineMsg /\ \A s \in Server : RedisStays(s, u, m)
      BY <2>5, PublishStays DEF Publish
    <3> QED
      BY <2>1, <2>2, <2>3, <2>4, <2>5, <3>1, MailUnchanged DEF Takes
  <2>6. CASE StoreOffline(c)
    <3>1. UNCHANGED redisOut /\ StoredStays(u, m)
      <4>1. tgt[c] \in User /\ msg[c] \in Msg
        BY <2>6 DEF StoreOffline, HandlersOK, LocalsSet
      <4>2. UNCHANGED redisOut /\ offlineMsg' = Stored(tgt[c], msg[c])
        BY <2>6 DEF StoreOffline
      <4> QED
        BY <4>1, <4>2, OneMoreStays
    <3> QED
      BY <2>1, <2>2, <2>3, <2>4, <2>6, <3>1, MailUnchanged DEF Takes
  <2> QED
    BY <1>8, <2>5, <2>6
<1>9. ASSUME NEW c \in Conn, NEW v \in User, GroupMember(c, v)
      PROVE  Takes(u, m)
  <2> DEFINE d == userConnMap[ServerOf[c]][v]
  <2>1. /\ \A e \in Conn : e # c => Same(e)
        /\ pc[c] = "loop" /\ UNCHANGED msg
        /\ todo' = [todo EXCEPT ![c] = @ \ {v}]
        /\ \/ UNCHANGED <<pc, tgt>> \/ tgt' = [tgt EXCEPT ![c] = v]
        /\ d # NoConn => Send(d, v, msg[c], LoopOf[d] = LoopOf[c])
        /\ d = NoConn => UNCHANGED mailVars
    BY <1>9 DEF Same, GroupMember, HandlersOK, Goto
  <2>2. \A e \in Conn : e # c => RoutingStays(e, u, m) /\ ReadStays(e, u, m)
    BY <1>3, <2>1
  <2>3. ReadStays(c, u, m)
    BY <1>5, <2>1
  <2>4. Mail
    <3>1. d \in Conn \cup {NoConn} /\ msg[c] \in Msg
      <4>1. d \in Conn \cup {NoConn}
        BY ConstantsAssumption DEF SessionsOK, ConstantsAssumption
      <4>2. msg[c] \in Msg
        BY <2>1 DEF HandlersOK, LocalsSet
      <4> QED
        BY <4>1, <4>2
    <3>2. CASE d = NoConn
      BY <1>2, <2>1, <3>2
    <3>3. CASE d # NoConn
      <4>1. Send(d, v, msg[c], LoopOf[d] = LoopOf[c]) /\ d \in Conn
        BY <2>1, <3>1, <3>3
      <4> HIDE DEF d
      <4> QED
        BY <3>1, <4>1, SendStays DEF Mail
    <3> QED
      BY <3>2, <3>3
  <2>5. RoutingStays(c, u, m) \/ GroupMember(c, u)
    <3>1. CASE u = v
      BY <1>9, <3>1
    <3>2. CASE u # v
      <4>1. tgt[c] = NoUser /\ NoUser \notin User
        BY <2>1, ConstantsAssumption DEF LocalsClear, ConstantsAssumption
      <4>2. u \in todo[c] => u \in todo'[c]
        BY <2>1, <3>2 DEF HandlersOK
      <4>3. tgt'[c] \in {NoUser, v}
        BY <2>1, <4>1 DEF HandlersOK
      <4> QED
        BY <2>1, <3>2, <4>1, <4>2, <4>3 DEF RoutingStays, Routing
    <3> QED
      BY <3>1, <3>2
  <2> QED
    BY <2>2, <2>3, <2>4, <2>5 DEF Takes, Mail
<1>10. ASSUME NEW c \in Conn, RunFunctor(c)
       PROVE  Takes(u, m)
  <2>1. UNCHANGED <<offlineMsg, redisOut, observer>> /\ \A d \in Conn : Same(d)
    BY <1>10 DEF RunFunctor, handlerVars, Same
  <2> QED
    BY <1>3, <1>10, <2>1, FunctorStays, MailUnchanged DEF Takes
<1>11. ASSUME NEW c \in Conn, ClientStep(c)
       PROVE  Takes(u, m)
  <2>1. CASE Connect(c) \/ Loginout(c) \/ Quit(c)
    <3>1. UNCHANGED mailVars /\ (\A d \in Conn : d # c => Same(d))
          /\ (UNCHANGED handlerVars \/ pc[c] = "away")
      <4>1. CASE Connect(c)
        BY <4>1 DEF Connect, Same, HandlersOK, AwayTogether, Goto
      <4>2. CASE Loginout(c) \/ Quit(c)
        BY <4>2 DEF Loginout, Quit, Same, handlerVars
      <4> QED
        BY <2>1, <4>1, <4>2
    <3> QED
      BY <1>1, <1>2, <1>3, <1>4, <1>5, <3>1 DEF handlerVars, Same
  <2>2. ASSUME NEW v, LoginRequest(c, v)
        PROVE  Takes(u, m)
    <3>1. UNCHANGED mailVars /\ (\A d \in Conn : d # c => Same(d)) /\ pc[c] = "idle"
      BY <2>2 DEF LoginRequest, Ready, Same, HandlersOK, Goto
    <3> QED
      BY <1>1, <1>2, <1>3, <1>4, <1>5, <3>1
  <2>3. ASSUME NEW n \in Msg, NEW v \in User, OneChat(c, n, v)
        PROVE  Takes(u, m)
    <3> DEFINE d == userConnMap[ServerOf[c]][v]
    <3>1. /\ \A e \in Conn : e # c => Same(e)
          /\ pc[c] = "idle"
          /\ d # NoConn => Send(d, v, n, LoopOf[d] = LoopOf[c])
          /\ d = NoConn => UNCHANGED mailVars
      BY <2>3 DEF OneChat, Ready, Same, HandlersOK, Goto
    <3>2. d \in Conn \cup {NoConn}
      BY ConstantsAssumption DEF SessionsOK, ConstantsAssumption
    <3>3. Mail
      <4>1. CASE d = NoConn
        BY <1>2, <3>1, <4>1
      <4>2. CASE d # NoConn
        <5>1. Send(d, v, n, LoopOf[d] = LoopOf[c]) /\ d \in Conn
          BY <3>1, <3>2, <4>2
        <5> HIDE DEF d
        <5> QED
          BY <5>1, SendStays DEF Mail
      <4> QED
        BY <4>1, <4>2
    <3> QED
      BY <1>1, <1>3, <1>4, <1>5, <3>1, <3>3
  <2>4. ASSUME NEW n \in Msg, NEW g \in Groups, GroupChat(c, n, g)
        PROVE  Takes(u, m)
    <3>1. UNCHANGED mailVars /\ (\A d \in Conn : d # c => Same(d)) /\ pc[c] = "idle"
      BY <2>4 DEF GroupChat, Ready, Same, HandlersOK, Goto
    <3> QED
      BY <1>1, <1>2, <1>3, <1>4, <1>5, <3>1
  <2> QED
    BY <1>11, <2>1, <2>2, <2>3, <2>4 DEF ClientStep
<1>12. ASSUME NEW s \in Server, Notify(s)
       PROVE  Takes(u, m)
  <2>1. UNCHANGED <<offlineMsg, shown>> /\ \A d \in Conn : Same(d)
    BY <1>12 DEF Notify, handlerVars, Same
  <2>2. /\ \A t \in Server :
              /\ RedisStays(t, u, m) \/ (Notify(t) /\ Head(redisOut[t]) = <<u, m>>)
              /\ ObserverStays(t, u, m)
        /\ \A d \in Conn : PendingStays(d, u, m)
    <3>1. /\ \A t \in Server :
                /\ \/ RedisStays(t, u, m)
                   \/ t = s /\ Head(redisOut[s]) = <<u, m>>
                /\ ObserverStays(t, u, m)
          /\ \A d \in Conn : PendingStays(d, u, m)
      BY <1>12, NotifyStays
    <3> QED
      BY <1>12, <3>1
  <2>3. ShownStays(u, m) /\ StoredStays(u, m)
    BY <2>1, MailUnchanged
  <2>4. Locals
    BY <1>3, <2>1
  <2> QED
    BY <2>2, <2>3, <2>4 DEF Takes
<1>13. ASSUME NEW s \in Server, NotifyStore(s)
       PROVE  Takes(u, m)
  <2>1. /\ UNCHANGED <<redisOut, shown, pending>> /\ \A d \in Conn : Same(d)
        /\ observer' = [observer EXCEPT ![s] = <<>>]
        /\ offlineMsg' = Stored(observer[s][1], observer[s][2])
    BY <1>13 DEF NotifyStore, handlerVars, Same
  <2>2. observer[s][1] \in User /\ observer[s][2] \in Msg
    <3>1. observer[s] \in Envelope
      BY <1>13 DEF NotifyStore, MailOK
    <3> QED
      BY <3>1 DEF Envelope
  <2>3. StoredStays(u, m)
    BY <2>1, <2>2, OneMoreStays
  <2>4. \A t \in Server : t # s => ObserverStays(t, u, m)
    BY <2>1 DEF ObserverStays, MailOK
  <2> QED
    BY <1>3, <1>13, <2>1, <2>3, <2>4, MailUnchanged DEF Takes
<1>14. ASSUME UNCHANGED <<mailVars, handlerVars>>
       PROVE  Takes(u, m)
  BY <1>1, <1>2, <1>3, <1>14 DEF handlerVars, Same
<1>15. ASSUME NEW s \in Server, RedisExecute(s)
       PROVE  Takes(u, m)
  BY <1>14, <1>15 DEF RedisExecute
<1>16. CASE UNCHANGED vars
  BY <1>14, <1>16 DEF vars
<1>17. ASSUME NEW c \in Conn, ChatStep(c)
       PROVE  Takes(u, m)
  BY <1>7, <1>8, <1>9, <1>17 DEF ChatStep
<1> QED
  BY <1>6, <1>10, <1>11, <1>12, <1>13, <1>15, <1>16, <1>17, Zenon
  DEF Next, HandlerStep, ObserverStep, NoStop, AllGone

-----------------------------------------------------------------------------
(* A message has a copy iff there is one of some kind.                     *)
Somewhere(u, m) == \E k \in Kinds \ {"unsent"} : Has(k, u, m)

LEMMA CopyKinds ==
    MailOK => \A u \in User, m \in Msg : Copies(u, m) # {} <=> Somewhere(u, m)
<1> SUFFICES ASSUME MailOK, NEW u \in User, NEW m \in Msg
             PROVE  Copies(u, m) # {} <=> Somewhere(u, m)
  OBVIOUS
<1>1. offlineMsg[u][m] \in Nat /\ shown[u][m] \in Nat
      /\ \A c \in Conn : read[c][m] \in Nat
  BY DEF MailOK
<1>2. \A n \in Nat : n > 0 <=> \E i \in 1..n : TRUE
  <2>1. \A n \in Nat : n > 0 => 1 \in 1..n
    OBVIOUS
  <2> QED
    BY <2>1
<1>3. ASSUME NEW p \in Copies(u, m)
      PROVE  Somewhere(u, m)
  <2>1. \/ \E s \in Server : \E i \in Positions(redisOut[s], <<u, m>>) : TRUE
        \/ \E s \in Server : observer[s] = <<u, m>>
        \/ \E c \in Conn : \E i \in Positions(pending[c], <<u, m>>) : TRUE
        \/ \E c \in Conn : Routing(c, u, m)
        \/ \E c \in Conn : \E i \in 1..read[c][m] : Reading(c, u)
        \/ \E i \in 1..offlineMsg[u][m] : TRUE
        \/ \E i \in 1..shown[u][m] : TRUE
    BY <1>3 DEF Copies, InFlight, Reading
  <2>2. \/ QHas(redisOut, Server, <<u, m>>)
        \/ \E s \in Server : observer[s] = <<u, m>>
        \/ QHas(pending, Conn, <<u, m>>)
        \/ \E c \in Conn : Routing(c, u, m)
        \/ \E c \in Conn : Reading(c, u) /\ read[c][m] > 0
        \/ offlineMsg[u][m] > 0
        \/ shown[u][m] > 0
    BY <1>1, <1>2, <2>1 DEF Positions, QHas
  <2> QED
    BY <2>2 DEF Somewhere, Has, Kinds
<1>4. ASSUME Somewhere(u, m)
      PROVE  Copies(u, m) # {}
  <2>1. \/ QHas(redisOut, Server, <<u, m>>)
        \/ \E s \in Server : observer[s] = <<u, m>>
        \/ QHas(pending, Conn, <<u, m>>)
        \/ \E c \in Conn : Routing(c, u, m)
        \/ \E c \in Conn : Reading(c, u) /\ read[c][m] > 0
        \/ offlineMsg[u][m] > 0
        \/ shown[u][m] > 0
    BY <1>4 DEF Somewhere, Has, Kinds
  <2>2. \/ \E s \in Server : \E i \in Positions(redisOut[s], <<u, m>>) : TRUE
        \/ \E s \in Server : observer[s] = <<u, m>>
        \/ \E c \in Conn : \E i \in Positions(pending[c], <<u, m>>) : TRUE
        \/ \E c \in Conn : Routing(c, u, m)
        \/ \E c \in Conn : \E i \in 1..read[c][m] : Reading(c, u)
        \/ \E i \in 1..offlineMsg[u][m] : TRUE
        \/ \E i \in 1..shown[u][m] : TRUE
    BY <1>1, <1>2, <2>1 DEF Positions, QHas
  <2>3. /\ \A s \in Server : \A i \in Positions(redisOut[s], <<u, m>>) :
              <<"redisOut", s, i>> \in Copies(u, m)
        /\ \A s \in Server : observer[s] = <<u, m>> =>
              <<"observer", s, 1>> \in Copies(u, m)
        /\ \A c \in Conn : \A i \in Positions(pending[c], <<u, m>>) :
              <<"pending", c, i>> \in Copies(u, m)
    BY DEF Copies, InFlight
  <2>4. /\ \A c \in Conn : Routing(c, u, m) =>
              <<"handler", c, 1>> \in Copies(u, m)
        /\ \A c \in Conn : \A i \in 1..read[c][m] :
              Reading(c, u) => <<"read", c, i>> \in Copies(u, m)
    BY DEF Copies, InFlight, Reading
  <2>5. /\ \A i \in 1..offlineMsg[u][m] : <<"offlineMsg", u, i>> \in Copies(u, m)
        /\ \A i \in 1..shown[u][m] : <<"shown", u, i>> \in Copies(u, m)
    BY DEF Copies
  <2> QED
    BY <2>2, <2>3, <2>4, <2>5, Zenon
<1> QED
  BY <1>3, <1>4

LEMMA CopyKindsNext ==
    MailOK' =>
       \A u \in User, m \in Msg : Copies(u, m)' # {} <=> Somewhere(u, m)'
<1>1. (MailOK =>
         \A u \in User, m \in Msg : Copies(u, m) # {} <=> Somewhere(u, m))'
  BY CopyKinds, PTL
<1> QED
  BY <1>1

(* The windows of LossWindows.                                             *)
Window(u, m) ==
    \E c \in Conn :
       \/ /\ client[c] = "gone"
          /\ Owns(c, u) \/ Positions(pending[c], <<u, m>>) # {}
       \/ /\ pc[c] \in {"publish", "groupPublish"} /\ pc'[c] # pc[c]
          /\ \A s \in Server : u \notin subscribed[s]
       \/ /\ pc[c] = "removeOffline" /\ pc'[c] # pc[c] /\ uid[c] = u
          /\ read[c][m] < offlineMsg[u][m]

Kept(u, m) == Somewhere(u, m)' \/ Window(u, m)

(* Where it is now.                                                        *)
LEMMA ThereNow ==
    ASSUME NEW u \in User, NEW m \in Msg
    PROVE  /\ shown'[u][m] > 0 => Kept(u, m)
           /\ offlineMsg'[u][m] > 0 => Kept(u, m)
           /\ \A s \in Server : At(redisOut', s, <<u, m>>) => Kept(u, m)
           /\ \A s \in Server : observer'[s] = <<u, m>> => Kept(u, m)
           /\ \A c \in Conn : At(pending', c, <<u, m>>) => Kept(u, m)
           /\ \A c \in Conn : Routing(c, u, m)' => Kept(u, m)
           /\ \A c \in Conn : Reading(c, u)' /\ read'[c][m] > 0 => Kept(u, m)
  BY DEF Kept, Somewhere, Has, Kinds, QHas, At

(* A connection the map lists and that is not up belongs to a client that  *)
(* left.                                                                   *)
LEMMA ListedGone ==
    ASSUME HandlersOK, SessionsOK, MapAtHome, ClientsInv, NEW s \in Server,
           NEW u \in User, NEW m \in Msg, NEW d, d = userConnMap[s][u],
           d # NoConn, ~(Connected(d) /\ client[d] # "gone")
    PROVE  d \in Conn /\ Kept(u, m)
<1>1. d \in Conn /\ ServerOf[d] = s
  BY DEF SessionsOK, MapAtHome
<1>2. Mapped(u, d)
  BY <1>1 DEF Mapped
<1>3. client[d] = "gone"
  BY <1>1, <1>2 DEF Connected, ClientsInv
<1> QED
  BY <1>1, <1>2, <1>3 DEF Kept, Window, Owns

LEMMA KeptOffline ==
    ASSUME HandlersOK, MailOK, MailOK', NEW u \in User, NEW m \in Msg,
           Takes(u, m), offlineMsg[u][m] > 0
    PROVE  Kept(u, m)
<1>1. offlineMsg[u][m] \in Nat /\ offlineMsg'[u][m] \in Nat
  BY DEF MailOK
<1>2. CASE StoredStays(u, m)
  <2>1. offlineMsg'[u][m] > 0
    BY <1>1, <1>2 DEF StoredStays
  <2> QED
    BY <2>1, ThereNow
<1>3. ASSUME NEW c \in Conn, LoginRemoveOffline(c), uid[c] = u
      PROVE  Kept(u, m)
  <2>1. /\ read[c][m] \in Nat
        /\ pc[c] = "removeOffline" /\ pc'[c] = "respond"
        /\ uid'[c] = u /\ read'[c][m] = read[c][m]
    BY <1>3 DEF LoginRemoveOffline, MailOK, HandlersOK, Goto
  <2>2. CASE read[c][m] < offlineMsg[u][m]
    BY <1>3, <2>1, <2>2 DEF Kept, Window
  <2>3. CASE read[c][m] > 0
    BY <2>1, <2>3, ThereNow DEF Reading
  <2> QED
    BY <1>1, <2>1, <2>2, <2>3
<1> QED
  BY <1>2, <1>3 DEF Takes

LEMMA KeptRead ==
    ASSUME HandlersOK, MailOK, ClientsInv, NEW u \in User, NEW m \in Msg,
           Takes(u, m), NEW c \in Conn, Reading(c, u), read[c][m] > 0
    PROVE  Kept(u, m)
<1>1. CASE ReadStays(c, u, m)
  BY <1>1, ThereNow DEF ReadStays
<1>2. CASE LoginRespond(c)
  <2>1. uid[c] = u /\ pc[c] = "respond"
    BY DEF Reading
  <2>2. CASE client[c] = "wait"
    <3> DEFINE more == [n \in Msg |-> shown[u][n] + read[c][n]]
    <3>1. shown' = [shown EXCEPT ![u] = more]
      BY <1>2, <2>1, <2>2 DEF LoginRespond
    <3>2. more[m] = shown[u][m] + read[c][m]
      OBVIOUS
    <3> HIDE DEF more
    <3>3. shown'[u] = more
      BY <3>1 DEF MailOK
    <3>4. shown[u][m] \in Nat /\ read[c][m] \in Nat
      BY DEF MailOK
    <3>5. shown'[u][m] > 0
      BY <3>2, <3>3, <3>4
    <3> QED
      BY <3>5, ThereNow
  <2>3. CASE client[c] # "wait"
    <3>1. client[c] = "gone" /\ Owns(c, u)
      BY <2>1, <2>3 DEF ClientsInv, Owns, LoggingIn
    <3> QED
      BY <3>1 DEF Kept, Window
  <2> QED
    BY <2>2, <2>3
<1> QED
  BY <1>1, <1>2 DEF Takes

LEMMA KeptPending ==
    ASSUME MailOK, NEW u \in User, NEW m \in Msg, Takes(u, m), NEW c \in Conn,
           At(pending, c, <<u, m>>)
    PROVE  Kept(u, m)
<1>1. Positions(pending[c], <<u, m>>) # {}
  BY DEF At, Positions
<1>2. client[c] = "gone" => Kept(u, m)
  BY <1>1 DEF Kept, Window
<1>3. CASE PendingStays(c, u, m)
  BY <1>3, ThereNow DEF PendingStays
<1>4. CASE HandleClose(c)
  BY <1>2, <1>4 DEF HandleClose
<1>5. CASE RunFunctor(c) /\ Head(pending[c]) = <<u, m>>
  <2>1. shown'[u][m] > 0 \/ client[c] = "gone"
    BY <1>5, FunctorStays
  <2> QED
    BY <1>2, <2>1, ThereNow
<1> QED
  BY <1>3, <1>4, <1>5 DEF Takes

LEMMA KeptObserver ==
    ASSUME HandlersOK, SessionsOK, MailOK, MapAtHome, ClientsInv,
           NEW u \in User, NEW m \in Msg, Takes(u, m), NEW s \in Server
    PROVE  /\ At(redisOut, s, <<u, m>>) => Kept(u, m)
           /\ observer[s] = <<u, m>> => Kept(u, m)
<1>1. ASSUME At(redisOut, s, <<u, m>>)
      PROVE  Kept(u, m)
  <2>1. CASE RedisStays(s, u, m)
    BY <1>1, <2>1, ThereNow DEF RedisStays
  <2>2. CASE Notify(s) /\ Head(redisOut[s]) = <<u, m>>
    <3> DEFINE d == userConnMap[s][u]
    <3>1. \/ d = NoConn /\ observer'[s] = <<u, m>>
          \/ d # NoConn /\ Connected(d) /\ At(pending', d, <<u, m>>)
          \/ d # NoConn /\ ~Connected(d)
      BY <2>2, NotifyStays
    <3>2. d # NoConn => d \in Conn
      BY DEF SessionsOK
    <3>3. CASE d = NoConn /\ observer'[s] = <<u, m>>
      BY <3>3, ThereNow
    <3>4. CASE d # NoConn /\ Connected(d) /\ At(pending', d, <<u, m>>)
      BY <3>2, <3>4, ThereNow
    <3>5. CASE d # NoConn /\ ~Connected(d)
      BY <3>5, ListedGone
    <3> QED
      BY <3>1, <3>3, <3>4, <3>5
  <2> QED
    BY <2>1, <2>2 DEF Takes
<1>2. ASSUME observer[s] = <<u, m>>
      PROVE  Kept(u, m)
  <2>1. CASE ObserverStays(s, u, m)
    BY <1>2, <2>1, ThereNow DEF ObserverStays
  <2>2. CASE NotifyStore(s)
    <3>1. offlineMsg' = Stored(u, m)
      BY <1>2, <2>2 DEF NotifyStore
    <3> QED
      BY <3>1, OneMoreStays, ThereNow
  <2> QED
    BY <2>1, <2>2 DEF Takes
<1> QED
  BY <1>1, <1>2

LEMMA KeptHandler ==
    ASSUME HandlersOK, SessionsOK, MailOK, MapAtHome, ClientsInv,
           NEW u \in User, NEW m \in Msg, Takes(u, m), NEW c \in Conn,
           Routing(c, u, m)
    PROVE  Kept(u, m)
<1>1. CASE RoutingStays(c, u, m)
  BY <1>1, ThereNow DEF RoutingStays
<1>2. CASE tgt[c] = u /\ msg[c] = m /\ QueryState(c)
  <2>1. Routing(c, u, m)'
    BY <1>2 DEF QueryState, Routing
  <2> QED
    BY <2>1, ThereNow
<1>3. CASE tgt[c] = u /\ msg[c] = m /\ Publish(c)
  <2>1. CASE \E s \in Server : u \in subscribed[s]
    BY <1>3, <2>1, PublishStays, ThereNow
  <2>2. CASE \A s \in Server : u \notin subscribed[s]
    <3>1. pc[c] \in {"publish", "groupPublish"} /\ pc'[c] # pc[c]
      BY <1>3 DEF Publish, Routed, Goto, HandlersOK
    <3> QED
      BY <2>2, <3>1 DEF Kept, Window
  <2> QED
    BY <2>1, <2>2
<1>4. CASE tgt[c] = u /\ msg[c] = m /\ StoreOffline(c)
  <2>1. offlineMsg' = Stored(u, m)
    BY <1>4 DEF StoreOffline
  <2> QED
    BY <2>1, OneMoreStays, ThereNow
<1>5. CASE GroupMember(c, u)
  <2> DEFINE d == userConnMap[ServerOf[c]][u]
  <2>1. ServerOf[c] \in Server /\ msg[c] = m
    BY ConstantsAssumption DEF ConstantsAssumption, Routing
  <2>2. CASE d = NoConn
    <3>1. tgt'[c] = u /\ msg'[c] = m
      BY <1>5, <2>1, <2>2 DEF GroupMember, HandlersOK
    <3>2. Routing(c, u, m)'
      BY <3>1 DEF Routing
    <3> QED
      BY <3>2, ThereNow
  <2>3. CASE d # NoConn
    <3>1. Send(d, u, m, LoopOf[d] = LoopOf[c])
      BY <1>5, <2>1, <2>3 DEF GroupMember
    <3>2. d \in Conn
      BY <2>1, <2>3 DEF SessionsOK
    <3>3. CASE ~(Connected(d) /\ client[d] # "gone")
      BY <2>1, <2>3, <3>3, ListedGone
    <3> HIDE DEF d
    <3>4. CASE Connected(d) /\ client[d] # "gone"
      <4>1. At(pending', d, <<u, m>>) \/ shown'[u][m] > 0
        BY <3>1, <3>2, <3>4, SendStays
      <4> QED
        BY <3>2, <4>1, ThereNow
    <3> QED
      BY <3>3, <3>4
  <2> QED
    BY <2>2, <2>3
<1> QED
  BY <1>1, <1>2, <1>3, <1>4, <1>5 DEF Takes

LEMMA EveryStepKeeps ==
    ASSUME HandlersOK, SessionsOK, MailOK, AwayTogether, LocalsClear,
           MapAtHome, ClientsInv, [Next]_vars, NoStop, NEW u \in User,
           NEW m \in Msg, Somewhere(u, m)
    PROVE  Kept(u, m)
<1>1. Takes(u, m) /\ MailOK'
  BY EveryStepTakes, MailStep
<1>2. CASE shown[u][m] > 0
  <2>1. shown[u][m] \in Nat /\ shown'[u][m] \in Nat
    BY <1>1 DEF MailOK
  <2>2. shown'[u][m] > 0
    BY <1>1, <1>2, <2>1 DEF Takes, ShownStays
  <2> QED
    BY <2>2, ThereNow
<1>3. CASE offlineMsg[u][m] > 0
  BY <1>1, <1>3, KeptOffline
<1>4. CASE \E c \in Conn : Reading(c, u) /\ read[c][m] > 0
  BY <1>1, <1>4, KeptRead
<1>5. CASE QHas(pending, Conn, <<u, m>>)
  BY <1>1, <1>5, KeptPending DEF QHas, At
<1>6. CASE QHas(redisOut, Server, <<u, m>>)
  BY <1>1, <1>6, KeptObserver DEF QHas, At
<1>7. CASE \E s \in Server : observer[s] = <<u, m>>
  BY <1>1, <1>7, KeptObserver
<1>8. CASE \E c \in Conn : Routing(c, u, m)
  BY <1>1, <1>8, KeptHandler
<1> QED
  BY <1>2, <1>3, <1>4, <1>5, <1>6, <1>7, <1>8 DEF Somewhere, Has, Kinds

(* The list of windows in which the last copy of a message can vanish is   *)
(* complete, for any number of servers, clients and groups, overlapping    *)
(* logins included, as long as no server process stops.  Every copy that a *)
(* step takes from its place it puts into another, or the place was one of *)
(* the three.                                                              *)
THEOREM NoOtherLoss ==
    ASSUME "kill" \notin Disruptions, "sigint" \notin Disruptions
    PROVE  DSpec => LossWindows
<1> DEFINE Running == \A s \in Server : exiting[s] = FALSE
           Inv == /\ HandlersOK /\ SessionsOK /\ LinksOK /\ MailOK /\ AwayTogether
                  /\ LocalsClear /\ MapAtHome /\ ClientsInv
           Listed == \A u \in User, m \in Msg :
                        Copies(u, m) # {} /\ Copies(u, m)' = {} => Window(u, m)
<1>1. Init => Inv
  <2>1. Init => HandlersOK /\ SessionsOK /\ AwayTogether
    BY ConstantsAssumption
    DEF Init, HandlersOK, LocalsSet, SessionsOK, AwayTogether, Nobody
  <2>2. Init => LinksOK /\ MailOK
    BY DEF Init, LinksOK, MailOK, NoMail
  <2>3. Init => LocalsClear /\ MapAtHome
    BY ConstantsAssumption
    DEF Init, LocalsClear, MapAtHome, Nobody, ConstantsAssumption
  <2>4. Init => ClientsInv
    BY ConstantsAssumption
    DEF Init, ClientsInv, Mapped, Nobody, ConstantsAssumption
  <2> QED
    BY <2>1, <2>2, <2>3, <2>4
<1>2. Inv /\ [Next]_vars => Inv'
  BY HandlersStep, SessionsStep, LinksStep, MailStep, AwayStep,
     LocalsClearStep, MapAtHomeStep, ClientsStep
<1>3. Inv /\ Running /\ [Next]_vars => Listed
  <2> SUFFICES ASSUME Inv, Running, [Next]_vars, NEW u \in User, NEW m \in Msg,
                      Copies(u, m) # {}, Copies(u, m)' = {}
               PROVE  Window(u, m)
    OBVIOUS
  <2>1. NoStop
    BY DEF NoStop, StopStep, Kill, Interrupt, Exit
  <2>2. Somewhere(u, m)
    BY CopyKinds
  <2>3. Kept(u, m) /\ MailOK'
    BY <2>1, <2>2, EveryStepKeeps, MailStep
  <2>4. ~Somewhere(u, m)'
    BY <2>3, CopyKindsNext
  <2> QED
    BY <2>3, <2>4 DEF Kept
<1>4. Spec => []Running
  BY NobodyExits
<1>5. DSpec => Spec
  <2>1. DInit => Init
    BY DEF DInit
  <2>2. [Next /\ TrackCalm /\ TrackGrouped]_dvars => [Next]_vars
    BY DEF dvars
  <2> QED
    BY <2>1, <2>2, PTL DEF DSpec, Spec
<1>6. Spec => [][Listed]_vars
  BY <1>1, <1>2, <1>3, <1>4, PTL DEF Spec
<1>7. [Listed]_vars => [\A u \in User, m \in Msg :
          Copies(u, m) # {} /\ Copies(u, m)' = {} =>
             \E c \in Conn :
                \/ /\ client[c] = "gone"
                   /\ Owns(c, u) \/ Positions(pending[c], <<u, m>>) # {}
                \/ /\ pc[c] \in {"publish", "groupPublish"} /\ pc'[c] # pc[c]
                   /\ \A s \in Server : u \notin subscribed[s]
                \/ /\ pc[c] = "removeOffline" /\ pc'[c] # pc[c] /\ uid[c] = u
                   /\ read[c][m] < offlineMsg[u][m]]_vars
  BY DEF Window
<1> QED
  BY <1>5, <1>6, <1>7, PTL DEF LossWindows

-----------------------------------------------------------------------------
(* While the session of an addressee stays settled.                        *)

(* Who a message is for is said once, by the handler that begins with it.  *)
LEMMA SentOnce ==
    ASSUME SessionsOK, [Next]_vars, NEW m \in Msg
    PROVE  \/ sentTo'[m] = sentTo[m]
           \/ /\ sentTo[m] = {}
              /\ \E c \in Conn :
                    \/ \E v \in User : OneChat(c, m, v) /\ sentTo'[m] = {v}
                    \/ \E g \in Groups : GroupChat(c, m, g)
                          /\ sentTo'[m] = g \ {currentUser[c]}
<1>1. ASSUME NEW c \in Conn, ClientStep(c)
      PROVE  \/ sentTo'[m] = sentTo[m]
             \/ /\ sentTo[m] = {}
                /\ \/ \E v \in User : OneChat(c, m, v) /\ sentTo'[m] = {v}
                   \/ \E g \in Groups : GroupChat(c, m, g)
                         /\ sentTo'[m] = g \ {currentUser[c]}
  <2>1. ASSUME NEW n \in Msg, NEW v \in User, OneChat(c, n, v)
        PROVE  \/ sentTo'[m] = sentTo[m]
               \/ sentTo[m] = {} /\ OneChat(c, m, v) /\ sentTo'[m] = {v}
    <3>1. sentTo[n] = {} /\ sentTo' = [sentTo EXCEPT ![n] = {v}]
      BY <2>1 DEF OneChat
    <3> QED
      BY <2>1, <3>1 DEF SessionsOK
  <2>2. ASSUME NEW n \in Msg, NEW g \in Groups, GroupChat(c, n, g)
        PROVE  \/ sentTo'[m] = sentTo[m]
               \/ /\ sentTo[m] = {} /\ GroupChat(c, m, g)
                  /\ sentTo'[m] = g \ {currentUser[c]}
    <3>1. sentTo[n] = {} /\ sentTo' = [sentTo EXCEPT ![n] = g \ {currentUser[c]}]
      BY <2>2 DEF GroupChat
    <3> QED
      BY <2>2, <3>1 DEF SessionsOK
  <2>3. ASSUME NEW v \in Accounts[c],
               Connect(c) \/ Loginout(c) \/ Quit(c) \/ LoginRequest(c, v)
        PROVE  UNCHANGED sentTo
    BY <2>3 DEF Connect, Loginout, Quit, LoginRequest
  <2>4. CASE Connect(c) \/ Loginout(c) \/ Quit(c)
    BY <2>4 DEF Connect, Loginout, Quit
  <2> QED
    BY <1>1, <2>1, <2>2, <2>3, <2>4 DEF ClientStep
<1>2. ASSUME NEW c \in Conn, HandlerStep(c)
      PROVE  UNCHANGED sentTo
  BY <1>2 DEF HandlerStep, RunFunctor, LoginStep, LoginUnknown, LoginInUse,
     LoginAccept, LoginInsert, LoginSubscribe, LoginUpdate, LoginReadOffline,
     LoginRemoveOffline, LoginRespond, ChatStep, QueryState, Publish,
     StoreOffline, Routed, GroupLock, GroupUnlock, GroupMember, CloseStep,
     HandleClose, CloseErase, CloseUnsubscribe, CloseSetOffline
<1>3. ASSUME NEW s \in Server, ObserverStep(s) \/ RedisExecute(s) \/ StopStep(s)
      PROVE  UNCHANGED sentTo
  BY <1>3 DEF ObserverStep, Notify, NotifyStore, RedisExecute, StopStep, Kill,
     Interrupt, Exit, ServerStops
<1>4. CASE UNCHANGED vars
  BY <1>4 DEF vars
<1> QED
  BY <1>1, <1>2, <1>3, <1>4 DEF Next, AllGone

(* A message that has not been sent to u has no copy for u.                *)
Unsent ==
    \A u \in User, m \in Msg : Somewhere(u, m) => u \in sentTo[m]

LEMMA UnsentStep ==
    ASSUME HandlersOK, SessionsOK, MailOK, LocalsClear, ReadStored, OneOwner,
           Unsent, [Next]_vars
    PROVE  Unsent'
<1> SUFFICES ASSUME NEW u \in User, NEW m \in Msg, NEW k \in Kinds \ {"unsent"},
                    Has(k, u, m)'
             PROVE  u \in sentTo'[m]
  BY DEF Unsent, Somewhere
<1>1. \A j \in Kinds \ {"unsent"} : Has(j, u, m) => u \in sentTo[m]
  BY DEF Unsent, Somewhere
<1>2. u \in sentTo[m] => u \in sentTo'[m]
  BY SentOnce
<1>3. /\ Has("unsent", u, m) <=> u \notin sentTo[m]
      /\ Has("unsent", u, m)' <=> u \notin sentTo'[m]
      /\ Once("unsent", u, m) /\ "unsent" \in Kinds
  BY DEF Has, Once, Kinds
<1>4. CASE \E c \in Conn : Publish(c)
  <2>1. KindKept(k, u, m) \/ Left("handler", u, m)
    BY <1>4, MailStep, PublishKinds
  <2>2. "handler" \in Kinds \ {"unsent"}
    BY DEF Kinds
  <2> QED
    BY <1>1, <1>2, <2>1, <2>2 DEF KindKept, Left
<1>5. CASE ~(\E c \in Conn : Publish(c))
  <2>1. StepFor(u, m)
    BY <1>5, EveryStepMoves
  <2>2. CASE Stays(u, m)
    BY <1>1, <1>2, <2>2 DEF Stays, KindKept
  <2>3. ASSUME NEW a \in Kinds, NEW b \in Kinds \ {a}, Moves(a, b, u, m)
        PROVE  u \in sentTo'[m]
    <3>1. a # "unsent" => u \in sentTo[m]
      BY <1>1, <2>3 DEF Moves
    <3>2. a = "unsent" => ~Has("unsent", u, m)'
      BY <1>3, <2>3 DEF Moves
    <3> QED
      BY <1>2, <1>3, <3>1, <3>2
  <2> QED
    BY <2>1, <2>2, <2>3 DEF StepFor
<1> QED
  BY <1>4, <1>5

(* Only the close handler takes an entry out of the map. *)
LEMMA MappedStays ==
    ASSUME HandlersOK, SessionsOK, [Next]_vars, NoStop, NEW u \in User,
           NEW c \in Conn, Mapped(u, c), pc[c] # "erase"
    PROVE  Mapped(u, c)'
<1>0. /\ c # NoConn /\ \A d \in Conn : ServerOf[d] \in Server
  BY ConstantsAssumption DEF ConstantsAssumption
<1>1. CASE UNCHANGED userConnMap
  BY <1>1 DEF Mapped
<1>2. ASSUME NEW d \in Conn, LoginInsert(d)
      PROVE  Mapped(u, c)'
  <2> DEFINE old == userConnMap[ServerOf[d]][uid[d]]
             new == IF old = NoConn THEN d ELSE old
  <2>1. /\ userConnMap' = [userConnMap EXCEPT ![ServerOf[d]][uid[d]] = new]
        /\ uid[d] \in User
    BY <1>2 DEF LoginInsert, HandlersOK, LocalsSet
  <2>2. \A s \in Server, v \in User : userConnMap'[s][v] =
           IF s = ServerOf[d] /\ v = uid[d] THEN new ELSE userConnMap[s][v]
    <3> HIDE DEF new
    <3> QED
      BY <1>0, <2>1 DEF SessionsOK
  <2>3. userConnMap[ServerOf[c]][u] = c
    BY DEF Mapped
  <2>4. ServerOf[c] = ServerOf[d] /\ u = uid[d] => new = c
    BY <1>0, <2>3
  <2>5. userConnMap'[ServerOf[c]][u] = c
    <3> HIDE DEF new
    <3> QED
      BY <1>0, <2>2, <2>3, <2>4
  <2> QED
    BY <2>5 DEF Mapped
<1>3. ASSUME NEW d \in Conn, CloseErase(d)
      PROVE  Mapped(u, c)'
  <2>1. pc[d] = "erase"
    BY <1>3 DEF CloseErase
  <2>2. ASSUME NEW v \in User, Mapped(v, d),
               userConnMap' = [userConnMap EXCEPT ![ServerOf[d]][v] = NoConn]
        PROVE  Mapped(u, c)'
    <3>1. \A s \in Server, w \in User : userConnMap'[s][w] =
             IF s = ServerOf[d] /\ w = v THEN NoConn ELSE userConnMap[s][w]
      BY <1>0, <2>2 DEF SessionsOK
    <3>2. ~(ServerOf[c] = ServerOf[d] /\ u = v)
      BY <2>1, <2>2 DEF Mapped
    <3> QED
      BY <1>0, <3>1, <3>2 DEF Mapped
  <2> QED
    BY <1>1, <1>3, <2>2 DEF CloseErase
<1>4. ASSUME NEW d \in Conn, HandlerStep(d)
      PROVE  UNCHANGED userConnMap \/ LoginInsert(d) \/ CloseErase(d)
  BY <1>4 DEF HandlerStep, RunFunctor, LoginStep, LoginUnknown, LoginInUse,
     LoginAccept, LoginSubscribe, LoginUpdate, LoginReadOffline,
     LoginRemoveOffline, LoginRespond, ChatStep, QueryState, Publish,
     StoreOffline, Routed, GroupLock, GroupUnlock, GroupMember, CloseStep,
     HandleClose, CloseUnsubscribe, CloseSetOffline, sessionVars
<1>5. ASSUME NEW d \in Conn, ClientStep(d)
      PROVE  UNCHANGED userConnMap
  BY <1>5 DEF ClientStep, Connect, Loginout, Quit, LoginRequest, OneChat,
     GroupChat, sessionVars
<1>6. ASSUME NEW s \in Server, ObserverStep(s) \/ RedisExecute(s)
      PROVE  UNCHANGED userConnMap
  BY <1>6 DEF ObserverStep, Notify, NotifyStore, RedisExecute, sessionVars
<1>7. CASE UNCHANGED vars
  BY <1>1, <1>7 DEF vars, sessionVars
<1> HIDE DEF HandlersOK, SessionsOK
<1>8. ASSUME Next
      PROVE  \/ UNCHANGED userConnMap
             \/ \E d \in Conn : LoginInsert(d) \/ CloseErase(d)
  <2>1. CASE \E d \in Conn : ClientStep(d) \/ HandlerStep(d)
    BY <1>4, <1>5, <2>1
  <2>2. CASE \E s \in Server : ObserverStep(s) \/ RedisExecute(s) \/ StopStep(s)
    BY <1>6, <2>2 DEF NoStop
  <2>3. CASE AllGone
    BY <1>7, <2>3 DEF AllGone, vars, sessionVars
  <2> QED
    BY <1>8, <2>1, <2>2, <2>3 DEF Next
<1> QED
  BY <1>1, <1>2, <1>3, <1>7, <1>8

(* On its way to the connection of a user who stays, or to the offline     *)
(* table for one who stays away.                                           *)
HomeBound(u, m) ==
    \/ shown[u][m] > 0
    \/ \E c \in Conn : Routing(c, u, m) /\
          (tgt[c] = u => pc[c] \in {"query", "publish", "groupPublish"})
    \/ \E c \in Conn : Mapped(u, c) /\
          (At(pending, c, <<u, m>>) \/ At(redisOut, ServerOf[c], <<u, m>>))

ShelfBound(u, m) ==
    \/ offlineMsg[u][m] > 0
    \/ \E c \in Conn : Routing(c, u, m) /\
          (tgt[c] = u => pc[c] \in {"query", "store", "groupStore"})

(* The connection of a settled session is the only one and is up.          *)
LEMMA SettledConnection ==
    ASSUME HandlersOK, SessionsOK, OneOwner, MapAtHome, ClientsInv, NoStop,
           [Next]_vars, NEW u \in User, SettledOn(u)
    PROVE  \E c \in Conn :
              /\ Mapped(u, c) /\ Mapped(u, c)' /\ client[c] = "in" /\ Connected(c)
              /\ u \in subscribed[ServerOf[c]]
              /\ \A d \in Conn : Mapped(u, d) => d = c
              /\ \A s \in Server : userConnMap[s][u] \in {c, NoConn}
<1>1. PICK c \in Conn : /\ Mapped(u, c) /\ client[c] = "in"
                        /\ {s \in Server : u \in subscribed[s]} = {ServerOf[c]}
  BY DEF SettledOn
<1>2. u \in subscribed[ServerOf[c]]
  BY <1>1
<1>3. Connected(c) /\ pc[c] # "erase"
  BY <1>1 DEF Connected, ClientsInv
<1>4. Mapped(u, c)'
  BY <1>1, <1>3, MappedStays
<1>5. \A d \in Conn : Mapped(u, d) => d = c
  BY <1>1 DEF OneOwner, Owns
<1>6. \A s \in Server : userConnMap[s][u] \in {c, NoConn}
  <2> SUFFICES ASSUME NEW s \in Server, userConnMap[s][u] # NoConn
               PROVE  userConnMap[s][u] = c
    OBVIOUS
  <2> DEFINE d == userConnMap[s][u]
  <2>1. d \in Conn /\ ServerOf[d] = s
    BY DEF SessionsOK, MapAtHome
  <2>2. Mapped(u, d)
    BY <2>1 DEF Mapped
  <2> QED
    BY <1>5, <2>1, <2>2
<1> QED
  BY <1>1, <1>2, <1>3, <1>4, <1>5, <1>6

(* Where it is now. *)
LEMMA HomeNow ==
    ASSUME NEW u \in User, NEW m \in Msg, NEW c \in Conn, Mapped(u, c)'
    PROVE  /\ shown'[u][m] > 0 => HomeBound(u, m)'
           /\ At(pending', c, <<u, m>>) => HomeBound(u, m)'
           /\ At(redisOut', ServerOf[c], <<u, m>>) => HomeBound(u, m)'
           /\ \A d \in Conn : Routing(d, u, m)' /\
                 (tgt'[d] = u => pc'[d] \in {"query", "publish", "groupPublish"})
                    => HomeBound(u, m)'
  BY DEF HomeBound, At

LEMMA HomeKept ==
    ASSUME HandlersOK, SessionsOK, MailOK, MailOK', AwayTogether, LocalsClear,
           OneOwner, MapAtHome, ClientsInv, NoStop, [Next]_vars,
           NEW u \in User, NEW m \in Msg, SettledOn(u), HomeBound(u, m)
    PROVE  HomeBound(u, m)'
<1>1. PICK c \in Conn :
         /\ Mapped(u, c) /\ Mapped(u, c)' /\ client[c] = "in" /\ Connected(c)
         /\ u \in subscribed[ServerOf[c]]
         /\ \A d \in Conn : Mapped(u, d) => d = c
         /\ \A s \in Server : userConnMap[s][u] \in {c, NoConn}
  BY SettledConnection
<1>2. Takes(u, m) /\ state[u] = "online" /\ ServerOf[c] \in Server
  BY EveryStepTakes, ConstantsAssumption DEF SettledOn, ConstantsAssumption
<1>3. CASE shown[u][m] > 0
  <2>1. shown[u][m] \in Nat /\ shown'[u][m] \in Nat
    BY DEF MailOK
  <2>2. shown'[u][m] > 0
    BY <1>2, <1>3, <2>1 DEF Takes, ShownStays
  <2> QED
    BY <1>1, <2>2, HomeNow
<1>4. ASSUME NEW d \in Conn, Routing(d, u, m),
             tgt[d] = u => pc[d] \in {"query", "publish", "groupPublish"}
      PROVE  HomeBound(u, m)'
  <2>1. CASE RoutingStays(d, u, m)
    BY <1>1, <1>4, <2>1, HomeNow DEF RoutingStays
  <2>2. CASE tgt[d] = u /\ msg[d] = m /\ QueryState(d)
    <3>1. Routing(d, u, m)' /\ pc'[d] = "publish"
      BY <1>2, <2>2 DEF QueryState, Routing, HandlersOK, Goto
    <3> QED
      BY <1>1, <3>1, HomeNow
  <2>3. CASE tgt[d] = u /\ msg[d] = m /\ Publish(d)
    <3>1. At(redisOut', ServerOf[c], <<u, m>>)
      BY <1>1, <1>2, <2>3, PublishStays
    <3> QED
      BY <1>1, <3>1, HomeNow
  <2>4. CASE tgt[d] = u /\ msg[d] = m /\ StoreOffline(d)
    BY <1>4, <2>4 DEF StoreOffline
  <2>5. CASE GroupMember(d, u)
    <3> DEFINE e == userConnMap[ServerOf[d]][u]
    <3>1. ServerOf[d] \in Server /\ msg[d] = m
      BY <1>4, ConstantsAssumption DEF ConstantsAssumption, Routing
    <3>2. CASE e = NoConn
      <4>1. tgt'[d] = u /\ msg'[d] = m /\ pc'[d] = "groupPublish"
        BY <1>2, <2>5, <3>1, <3>2 DEF GroupMember, HandlersOK, Goto
      <4>2. Routing(d, u, m)'
        BY <4>1 DEF Routing
      <4> QED
        BY <1>1, <4>1, <4>2, HomeNow
    <3>3. CASE e = c
      <4>1. Send(c, u, m, LoopOf[c] = LoopOf[d])
        BY <1>1, <2>5, <3>1, <3>3, ConstantsAssumption
        DEF GroupMember, ConstantsAssumption
      <4>2. At(pending', c, <<u, m>>) \/ shown'[u][m] > 0
        BY <1>1, <4>1, SendStays
      <4> QED
        BY <1>1, <4>2, HomeNow
    <3> QED
      BY <1>1, <3>1, <3>2, <3>3
  <2> QED
    BY <1>2, <2>1, <2>2, <2>3, <2>4, <2>5 DEF Takes
<1>5. CASE At(pending, c, <<u, m>>)
  <2>1. CASE PendingStays(c, u, m)
    BY <1>1, <1>5, <2>1, HomeNow DEF PendingStays
  <2>2. CASE HandleClose(c)
    BY <1>1, <2>2 DEF HandleClose
  <2>3. CASE RunFunctor(c) /\ Head(pending[c]) = <<u, m>>
    <3>1. shown'[u][m] > 0
      BY <1>1, <2>3, FunctorStays
    <3> QED
      BY <1>1, <3>1, HomeNow
  <2> QED
    BY <1>2, <2>1, <2>2, <2>3 DEF Takes
<1>6. CASE At(redisOut, ServerOf[c], <<u, m>>)
  <2> DEFINE s == ServerOf[c]
  <2>1. CASE RedisStays(s, u, m)
    BY <1>1, <1>6, <2>1, HomeNow DEF RedisStays
  <2>2. CASE Notify(s) /\ Head(redisOut[s]) = <<u, m>>
    <3>1. userConnMap[s][u] = c /\ c # NoConn
      BY <1>1, ConstantsAssumption DEF Mapped, ConstantsAssumption
    <3>2. At(pending', c, <<u, m>>)
      BY <1>1, <1>2, <2>2, <3>1, NotifyStays
    <3> QED
      BY <1>1, <3>2, HomeNow
  <2> QED
    BY <1>2, <2>1, <2>2 DEF Takes
<1> QED
  BY <1>1, <1>3, <1>4, <1>5, <1>6 DEF HomeBound

LEMMA ShelfKept ==
    ASSUME HandlersOK, SessionsOK, MailOK, MailOK', AwayTogether, LocalsClear,
           NoStop, [Next]_vars, NEW u \in User, NEW m \in Msg, SettledOff(u),
           ShelfBound(u, m)
    PROVE  ShelfBound(u, m)'
<1>1. Takes(u, m) /\ state[u] = "offline"
  BY EveryStepTakes DEF SettledOff
<1>2. CASE offlineMsg[u][m] > 0
  <2>1. offlineMsg[u][m] \in Nat /\ offlineMsg'[u][m] \in Nat
    BY DEF MailOK
  <2>2. StoredStays(u, m)
    BY <1>1 DEF Takes, SettledOff
  <2>3. offlineMsg'[u][m] > 0
    BY <1>2, <2>1, <2>2 DEF StoredStays
  <2> QED
    BY <2>3 DEF ShelfBound
<1>3. ASSUME NEW d \in Conn, Routing(d, u, m),
             tgt[d] = u => pc[d] \in {"query", "store", "groupStore"}
      PROVE  ShelfBound(u, m)'
  <2>1. CASE RoutingStays(d, u, m)
    BY <1>3, <2>1 DEF RoutingStays, ShelfBound
  <2>2. CASE tgt[d] = u /\ msg[d] = m /\ QueryState(d)
    <3>1. Routing(d, u, m)' /\ pc'[d] = "store"
      BY <1>1, <2>2 DEF QueryState, Routing, HandlersOK, Goto
    <3> QED
      BY <3>1 DEF ShelfBound
  <2>3. CASE tgt[d] = u /\ msg[d] = m /\ Publish(d)
    BY <1>3, <2>3 DEF Publish
  <2>4. CASE tgt[d] = u /\ msg[d] = m /\ StoreOffline(d)
    <3>1. offlineMsg' = Stored(u, m)
      BY <2>4 DEF StoreOffline
    <3>2. offlineMsg'[u][m] > 0
      BY <3>1, OneMoreStays
    <3> QED
      BY <3>2 DEF ShelfBound
  <2>5. CASE GroupMember(d, u)
    <3>1. ServerOf[d] \in Server /\ msg[d] = m
      BY <1>3, ConstantsAssumption DEF ConstantsAssumption, Routing
    <3>2. userConnMap[ServerOf[d]][u] = NoConn
      BY <3>1 DEF SettledOff
    <3>3. tgt'[d] = u /\ msg'[d] = m /\ pc'[d] = "groupStore"
      BY <1>1, <2>5, <3>1, <3>2 DEF GroupMember, HandlersOK, Goto
    <3>4. Routing(d, u, m)'
      BY <3>3 DEF Routing
    <3> QED
      BY <3>3, <3>4 DEF ShelfBound
  <2> QED
    BY <1>1, <2>1, <2>2, <2>3, <2>4, <2>5 DEF Takes
<1> QED
  BY <1>2, <1>3 DEF ShelfBound

(* The handler of a message to one user begins.                            *)
LEMMA BeginsBound ==
    ASSUME HandlersOK, SessionsOK, MailOK, LocalsClear, OneOwner, MapAtHome,
           ClientsInv, NoStop, [Next]_vars, NEW u \in User, NEW m \in Msg,
           sentTo[m] = {}, u \in sentTo'[m],
           ~\E c \in Conn, g \in Groups : GroupChat(c, m, g)
    PROVE  /\ SettledOn(u) => HomeBound(u, m)'
           /\ SettledOff(u) => ShelfBound(u, m)'
<1>1. PICK c \in Conn : OneChat(c, m, u)
  BY SentOnce
<1> DEFINE d == userConnMap[ServerOf[c]][u]
<1>2. /\ ServerOf[c] \in Server
      /\ d # NoConn => Send(d, u, m, LoopOf[d] = LoopOf[c])
      /\ d = NoConn => /\ tgt'[c] = u /\ msg'[c] = m /\ pc'[c] = "query"
  BY <1>1, ConstantsAssumption DEF OneChat, HandlersOK, Goto, ConstantsAssumption
<1>3. d = NoConn => HomeBound(u, m)' /\ ShelfBound(u, m)'
  BY <1>2 DEF HomeBound, ShelfBound, Routing
<1>4. ASSUME SettledOn(u), d # NoConn
      PROVE  HomeBound(u, m)'
  <2>1. PICK e \in Conn :
           /\ Mapped(u, e)' /\ client[e] = "in" /\ Connected(e)
           /\ \A s \in Server : userConnMap[s][u] \in {e, NoConn}
    BY <1>4, SettledConnection
  <2>2. d = e
    BY <1>2, <1>4, <2>1
  <2>3. Send(e, u, m, LoopOf[e] = LoopOf[c])
    BY <1>2, <1>4, <2>2
  <2> HIDE DEF d
  <2>4. At(pending', e, <<u, m>>) \/ shown'[u][m] > 0
    BY <2>1, <2>3, SendStays
  <2> QED
    BY <2>1, <2>4, HomeNow
<1>5. SettledOff(u) => d = NoConn
  BY <1>2 DEF SettledOff
<1> QED
  BY <1>3, <1>4, <1>5

CalmInv ==
    \A m \in Msg \ grouped : \A u \in calm[m] :
       /\ u \in sentTo[m] /\ Single(u, m)
       /\ \/ SettledOn(u) /\ HomeBound(u, m)
          \/ SettledOff(u) /\ ShelfBound(u, m)

LEMMA CalmStep ==
    ASSUME HandlersOK, SessionsOK, LinksOK, MailOK, AwayTogether, LocalsClear,
           ReadStored, OneOwner, MapAtHome, ClientsInv, Unsent, CalmInv,
           NoStop, Next, TrackCalm, TrackGrouped
    PROVE  CalmInv'
<1> SUFFICES ASSUME NEW m \in Msg \ grouped', NEW u, u \in calm'[m]
             PROVE  /\ u \in sentTo'[m] /\ Single(u, m)'
                    /\ \/ SettledOn(u)' /\ HomeBound(u, m)'
                       \/ SettledOff(u)' /\ ShelfBound(u, m)'
  BY DEF CalmInv
<1>0. /\ m \in Msg \ grouped
      /\ ~\E c \in Conn, g \in Groups : GroupChat(c, m, g)
  BY DEF TrackGrouped, GroupChat, HandlersOK, Goto
<1>1. /\ u \in (IF sentTo[m] = {} THEN sentTo'[m] ELSE calm[m])
      /\ \/ SettledOn(u) /\ SettledOn(u)'
         \/ SettledOff(u) /\ SettledOff(u)'
  BY DEF TrackCalm
<1>2. u \in sentTo'[m] /\ u \in User
  <2>1. sentTo[m] # {} => u \in sentTo[m]
    BY <1>0, <1>1 DEF CalmInv
  <2>2. sentTo'[m] \subseteq User
    BY SessionsStep DEF SessionsOK
  <2> QED
    BY <1>1, <2>1, <2>2, SentOnce
<1>3. MailOK'
  BY MailStep
<1>4. Single(u, m)
  <2>1. CASE sentTo[m] = {}
    <3>1. \A k \in Kinds \ {"unsent"} : ~Has(k, u, m)
      BY <1>2, <2>1 DEF Unsent, Somewhere
    <3>2. Once("unsent", u, m)
      BY DEF Once
    <3>3. \A k \in Kinds : Once(k, u, m)
      BY <1>2, <3>1, <3>2, NoneIsOnce
    <3> QED
      BY <3>1, <3>3 DEF Single
  <2>2. CASE sentTo[m] # {}
    BY <1>0, <1>1, <2>2 DEF CalmInv
  <2> QED
    BY <2>1, <2>2
<1>5. OneSubscribed(u)
  <2>1. CASE SettledOff(u)
    BY <2>1 DEF SettledOff, OneSubscribed
  <2>2. CASE SettledOn(u)
    <3>1. PICK s : {t \in Server : u \in subscribed[t]} = {s}
      BY <2>2 DEF SettledOn
    <3> QED
      BY <3>1 DEF OneSubscribed
  <2> QED
    BY <1>1, <2>1, <2>2
<1>6. Single(u, m)'
  <2>1. StepFor(u, m)
    BY <1>2, <1>5, EveryStepMoves
  <2> QED
    BY <1>2, <1>3, <1>4, <2>1, MovesKeepSingle DEF StepFor
<1>7. ~(SettledOn(u) /\ SettledOff(u))
  BY DEF SettledOn, SettledOff
<1>8. CASE sentTo[m] = {}
  BY <1>0, <1>1, <1>2, <1>6, <1>8, BeginsBound
<1>9. CASE sentTo[m] # {}
  <2>1. \/ SettledOn(u) /\ HomeBound(u, m)
        \/ SettledOff(u) /\ ShelfBound(u, m)
    BY <1>0, <1>1, <1>9 DEF CalmInv
  <2>2. CASE SettledOn(u) /\ SettledOn(u)'
    BY <1>2, <1>3, <1>6, <1>7, <2>1, <2>2, HomeKept
  <2>3. CASE SettledOff(u) /\ SettledOff(u)'
    BY <1>2, <1>3, <1>6, <1>7, <2>1, <2>3, ShelfKept
  <2> QED
    BY <1>1, <2>2, <2>3
<1> QED
  BY <1>8, <1>9

LEMMA CalmMeansOne ==
    ASSUME SessionsOK, MailOK, CalmInv
    PROVE  CalmDelivery
<1> SUFFICES ASSUME NEW m \in Msg \ grouped, NEW u \in calm[m]
             PROVE  /\ Cardinality(Copies(u, m)) = 1
                    /\ state[u] = "online" => offlineMsg[u][m] = 0
  BY DEF CalmDelivery
<1>1. /\ u \in User /\ Single(u, m)
      /\ \/ SettledOn(u) /\ HomeBound(u, m)
         \/ SettledOff(u) /\ ShelfBound(u, m)
  BY DEF CalmInv, SessionsOK
<1>2. HomeBound(u, m) => \E k \in {"shown", "handler", "pending", "redisOut"} :
                            Has(k, u, m)
  <2>1. \A c \in Conn : ServerOf[c] \in Server
    BY ConstantsAssumption DEF ConstantsAssumption
  <2> QED
    BY <2>1 DEF HomeBound, Has, QHas, At
<1>3. ShelfBound(u, m) => \E k \in {"offlineMsg", "handler"} : Has(k, u, m)
  BY DEF ShelfBound, Has
<1>4. Copies(u, m) # {}
  BY <1>1, <1>2, <1>3, CopyKinds DEF Somewhere, Kinds
<1>5. Cardinality(Copies(u, m)) = 1
  <2>1. PICK p : p \in Copies(u, m)
    BY <1>4
  <2>2. Copies(u, m) = {p}
    BY <1>1, <2>1, SingleIsOne
  <2> QED
    BY <2>2, FS_Singleton
<1>6. ASSUME state[u] = "online"
      PROVE  offlineMsg[u][m] = 0
  <2>1. HomeBound(u, m)
    BY <1>1, <1>6 DEF SettledOff
  <2>2. PICK k \in Kinds : k # "offlineMsg" /\ Has(k, u, m)
    BY <1>2, <2>1 DEF Kinds
  <2>3. ~Has("offlineMsg", u, m)
    BY <1>1, <2>2 DEF Single, Kinds
  <2>4. ~(offlineMsg[u][m] > 0)
    BY <2>3 DEF Has
  <2>5. offlineMsg[u][m] \in Nat
    BY <1>1 DEF MailOK
  <2> QED
    BY <2>4, <2>5
<1> QED
  BY <1>5, <1>6

(* The addressee of a message to one user, while its session stays         *)
(* settled, has one copy of it from the moment the handler begins, neither *)
(* lost nor doubled, and not in the offline table if the user is online:   *)
(* for any number of servers, clients and groups and whatever the others   *)
(* do, group messages included, as long as no server process stops and no  *)
(* login attempts overlap.                                                 *)
THEOREM SettledGetsOne ==
    ASSUME Disruptions \subseteq {"loginout"}
    PROVE  DSpec => []CalmDelivery
<1> DEFINE Running == \A s \in Server : exiting[s] = FALSE
           Sessions == HandlersOK /\ SessionsOK /\ AwayTogether /\ SessionInv
           Mails == LinksOK /\ MailOK /\ LocalsClear /\ ReadStored /\ ClientsInv
                      /\ Unsent
<1>1. Init => Mails
  <2>1. Init => LinksOK /\ MailOK
    BY DEF Init, LinksOK, MailOK, NoMail
  <2>2. Init => LocalsClear /\ ReadStored
    BY ConstantsAssumption DEF Init, LocalsClear, ReadStored, ConstantsAssumption
  <2>3. Init => ClientsInv
    BY ConstantsAssumption
    DEF Init, ClientsInv, Mapped, Nobody, ConstantsAssumption
  <2>4. Init => Unsent
    <3> SUFFICES ASSUME Init, NEW u \in User, NEW m \in Msg, Somewhere(u, m)
                 PROVE  FALSE
      BY DEF Unsent
    <3>1. Single(u, m)
      BY SinglesInit DEF Singles
    <3>2. Has("unsent", u, m) /\ "unsent" \in Kinds
      BY DEF Init, Has, Kinds
    <3> QED
      BY <3>1, <3>2 DEF Single, Somewhere
  <2> QED
    BY <2>1, <2>2, <2>3, <2>4
<1>2. Sessions /\ Mails /\ [Next]_vars => Mails'
  BY LinksStep, MailStep, LocalsClearStep, ReadStoredStep, ClientsStep, UnsentStep
  DEF SessionInv
<1>3. DInit => CalmInv
  BY DEF DInit, CalmInv
<1>4. Sessions /\ Running /\ Mails /\ CalmInv
         /\ [Next /\ TrackCalm /\ TrackGrouped]_dvars => CalmInv'
  <2> SUFFICES ASSUME Sessions, Running, Mails, CalmInv,
                      [Next /\ TrackCalm /\ TrackGrouped]_dvars
               PROVE  CalmInv'
    OBVIOUS
  <2>1. CASE Next /\ TrackCalm /\ TrackGrouped
    <3>1. NoStop
      BY <2>1 DEF NoStop, StopStep, Kill, Interrupt, Exit
    <3> QED
      BY <2>1, <3>1, CalmStep DEF SessionInv
  <2>2. CASE UNCHANGED dvars
    <3>1. /\ UNCHANGED <<client, currentUser, pc, uid, msg, tgt, todo, read>>
          /\ UNCHANGED <<userConnMap, state, redisCmd, subscribed, sentTo, calm,
                        grouped>>
          /\ UNCHANGED <<pending, observer, offlineMsg, redisOut, shown>>
      BY <2>2 DEF dvars, vars, clientVars, handlerVars, sessionVars, redisVars,
         mailVars
    <3>2. \A u \in User, m \in Msg, k \in Kinds :
             (Has(k, u, m)' <=> Has(k, u, m)) /\ (Once(k, u, m)' <=> Once(k, u, m))
      BY <3>1 DEF Has, Once, QHas, QOnce, Routing, Reading
    <3>3. \A u \in User, m \in Msg :
             /\ Single(u, m)' <=> Single(u, m)
             /\ HomeBound(u, m)' <=> HomeBound(u, m)
             /\ ShelfBound(u, m)' <=> ShelfBound(u, m)
      BY <3>1, <3>2 DEF Single, HomeBound, ShelfBound, Routing, Mapped, At
    <3>4. \A u \in User : /\ SettledOn(u)' <=> SettledOn(u)
                          /\ SettledOff(u)' <=> SettledOff(u)
      BY <3>1 DEF SettledOn, SettledOff, BrokerQuiet, Mapped
    <3>5. \A m \in Msg \ grouped : \A u \in calm[m] : u \in User
      BY DEF CalmInv, SessionsOK
    <3> QED
      BY <3>1, <3>3, <3>4, <3>5 DEF CalmInv
  <2> QED
    BY <2>1, <2>2
<1>5. Sessions /\ Mails /\ CalmInv => CalmDelivery
  BY CalmMeansOne
<1>6. DSpec => Spec
  <2>1. DInit => Init
    BY DEF DInit
  <2>2. [Next /\ TrackCalm /\ TrackGrouped]_dvars => [Next]_vars
    BY DEF dvars
  <2> QED
    BY <2>1, <2>2, PTL DEF DSpec, Spec
<1>7. Spec => [](Sessions)
  BY SessionInvariant
<1>8. Spec => []Running
  BY NobodyExits
<1>9. Spec => []Mails
  BY <1>1, <1>2, <1>7, PTL DEF Spec
<1>10. DSpec => []CalmInv
  BY <1>3, <1>4, <1>6, <1>7, <1>8, <1>9, PTL DEF DSpec
<1> QED
  BY <1>5, <1>6, <1>7, <1>9, <1>10, PTL

=============================================================================
