------------------------- MODULE ChatServiceProofs -------------------------
(***************************************************************************)
(* Type correctness of ChatService, for any number of servers, clients,    *)
(* accounts and messages and under every disruption.                       *)
(***************************************************************************)
EXTENDS ChatService, SequenceTheorems, TLAPS

USE DEF PCs, LoginSteps, ChatSteps, GroupLocked, CloseSteps, AtRest

(* The step a handler is at tells which of its locals are set. *)
LocalsSet ==
    \A c \in Conn :
       /\ pc[c] \in {"insert", "subscribe", "update", "readOffline",
                     "removeOffline", "respond", "setOffline"} => uid[c] \in User
       /\ pc[c] \in {"query", "publish", "store", "groupPublish", "groupStore"}
            => tgt[c] \in User
       /\ pc[c] \in ChatSteps \cup GroupLocked \cup {"lock"} => msg[c] \in Msg

HandlersOK ==
    /\ pc \in [Conn -> PCs]
    /\ uid \in [Conn -> User \cup {NoUser}]
    /\ msg \in [Conn -> Msg \cup {NoMsg}]
    /\ tgt \in [Conn -> User \cup {NoUser}]
    /\ todo \in [Conn -> SUBSET User]
    /\ LocalsSet

(* What a step of the server for connection c may do to the control state. *)
LEMMA LoginLocals ==
    ASSUME HandlersOK, NEW c \in Conn, LoginStep(c)
    PROVE  HandlersOK'
<1> USE DEF HandlersOK, LocalsSet, Goto
<1>1. CASE LoginUnknown(c) \/ LoginInUse(c) \/ LoginRespond(c)
  BY <1>1 DEF LoginUnknown, LoginInUse, LoginRespond
<1>2. CASE LoginAccept(c) \/ LoginInsert(c) \/ LoginSubscribe(c) \/ LoginUpdate(c)
  BY <1>2 DEF LoginAccept, LoginInsert, LoginSubscribe, LoginUpdate
<1>3. CASE LoginReadOffline(c) \/ LoginRemoveOffline(c)
  BY <1>3 DEF LoginReadOffline, LoginRemoveOffline
<1> QED
  BY <1>1, <1>2, <1>3 DEF LoginStep

LEMMA ChatLocals ==
    ASSUME HandlersOK, NEW c \in Conn, ChatStep(c)
    PROVE  HandlersOK'
<1> USE DEF HandlersOK, LocalsSet, Goto
<1>1. CASE QueryState(c)
  BY <1>1 DEF QueryState
<1>2. CASE Publish(c)
  BY <1>2 DEF Publish, Routed
<1>3. CASE StoreOffline(c)
  BY <1>3 DEF StoreOffline, Routed
<1>4. CASE GroupLock(c) \/ GroupUnlock(c)
  BY <1>4 DEF GroupLock, GroupUnlock
<1>5. ASSUME NEW u \in User, GroupMember(c, u)
      PROVE  HandlersOK'
  <2>1. /\ pc[c] = "loop"
        /\ \/ UNCHANGED <<pc, tgt>>
           \/ /\ \E step \in {"groupPublish", "groupStore"} : Goto(c, step)
              /\ tgt' = [tgt EXCEPT ![c] = u]
        /\ todo' = [todo EXCEPT ![c] = @ \ {u}]
        /\ UNCHANGED <<uid, msg>>
    BY <1>5 DEF GroupMember
  <2> QED
    BY <2>1
<1> QED
  BY <1>1, <1>2, <1>3, <1>4, <1>5 DEF ChatStep

LEMMA CloseLocals ==
    ASSUME HandlersOK, NEW c \in Conn, CloseStep(c)
    PROVE  HandlersOK'
<1> USE DEF HandlersOK, LocalsSet, Goto
<1>1. CASE HandleClose(c) \/ CloseSetOffline(c)
  BY <1>1 DEF HandleClose, CloseSetOffline, Ready
<1>2. CASE CloseErase(c)
  <2>1. PICK v \in User \cup {NoUser} : uid' = [uid EXCEPT ![c] = v]
    BY <1>2 DEF CloseErase
  <2> QED
    BY <1>2, <2>1 DEF CloseErase
<1>3. CASE CloseUnsubscribe(c)
  BY <1>3 DEF CloseUnsubscribe
<1> QED
  BY <1>1, <1>2, <1>3 DEF CloseStep

LEMMA ClientLocals ==
    ASSUME HandlersOK, NEW c \in Conn, ClientStep(c), ConstantsAssumption
    PROVE  HandlersOK'
<1> USE DEF HandlersOK, LocalsSet, Goto
<1>1. CASE Connect(c) \/ Loginout(c) \/ Quit(c)
  BY <1>1 DEF Connect, Loginout, Quit, handlerVars
<1>2. ASSUME NEW u \in Accounts[c], LoginRequest(c, u)
      PROVE  HandlersOK'
  <2>1. u \in User \cup {NoUser}
    BY DEF ConstantsAssumption
  <2> QED
    BY <1>2, <2>1 DEF LoginRequest
<1>3. ASSUME NEW m \in Msg, NEW u \in User, OneChat(c, m, u)
      PROVE  HandlersOK'
  <2>1. /\ \/ UNCHANGED <<pc, msg, tgt>>
           \/ /\ Goto(c, "query")
              /\ msg' = [msg EXCEPT ![c] = m]
              /\ tgt' = [tgt EXCEPT ![c] = u]
        /\ UNCHANGED <<uid, todo>>
    BY <1>3 DEF OneChat
  <2> QED
    BY <2>1
<1>4. ASSUME NEW m \in Msg, NEW g \in Groups, GroupChat(c, m, g)
      PROVE  HandlersOK'
  <2>1. PICK rest \in SUBSET User : todo' = [todo EXCEPT ![c] = rest]
    BY <1>4 DEF GroupChat, ConstantsAssumption
  <2> QED
    BY <1>4, <2>1 DEF GroupChat
<1> QED
  BY <1>1, <1>2, <1>3, <1>4 DEF ClientStep

LEMMA HandlersStep == HandlersOK /\ [Next]_vars => HandlersOK'
<1> SUFFICES ASSUME HandlersOK, [Next]_vars PROVE HandlersOK'
  OBVIOUS
<1>1. ASSUME NEW c \in Conn, ClientStep(c) \/ HandlerStep(c)
      PROVE  HandlersOK'
  <2>1. CASE RunFunctor(c)
    BY <2>1 DEF RunFunctor, handlerVars, HandlersOK, LocalsSet
  <2> QED
    BY <1>1, <2>1, ConstantsAssumption, LoginLocals, ChatLocals, CloseLocals,
       ClientLocals DEF HandlerStep
<1>2. ASSUME NEW s \in Server, ObserverStep(s) \/ RedisExecute(s) \/ Interrupt(s)
      PROVE  HandlersOK'
  BY <1>2 DEF ObserverStep, Notify, NotifyStore, RedisExecute, Interrupt,
              handlerVars, HandlersOK, LocalsSet
<1>3. ASSUME NEW s \in Server, ServerStops(s)
      PROVE  HandlersOK'
  BY <1>3 DEF ServerStops, HandlersOK, LocalsSet
<1>4. CASE UNCHANGED vars
  BY <1>4 DEF vars, handlerVars, HandlersOK, LocalsSet
<1> QED
  BY <1>1, <1>2, <1>3, <1>4 DEF Next, StopStep, Kill, Exit, AllGone

-----------------------------------------------------------------------------
(* The processes, the maps and the tables; what is queued comes after.     *)
SessionsOK ==
    /\ client \in [Conn -> {"away", "menu", "wait", "in", "gone"}]
    /\ currentUser \in [Conn -> User \cup {NoUser}]
    /\ userConnMap \in [Server -> [User -> Conn \cup {NoConn}]]
    /\ state \in [User -> {"online", "offline"}]
    /\ sentTo \in [Msg -> SUBSET User]

(* One entry of one server's map is replaced.                              *)
LEMMA MapUpdate ==
    ASSUME userConnMap \in [Server -> [User -> Conn \cup {NoConn}]],
           NEW s \in Server, NEW u \in User, NEW x \in Conn \cup {NoConn}
    PROVE  [userConnMap EXCEPT ![s][u] = x]
              \in [Server -> [User -> Conn \cup {NoConn}]]
  OBVIOUS

LEMMA SessionsStep == HandlersOK /\ SessionsOK /\ [Next]_vars => SessionsOK'
<1> SUFFICES ASSUME HandlersOK, SessionsOK, [Next]_vars PROVE SessionsOK'
  OBVIOUS
<1> USE ConstantsAssumption
    DEF HandlersOK, SessionsOK, clientVars, sessionVars, redisVars
<1>1. ASSUME NEW c \in Conn, LoginStep(c)
      PROVE  SessionsOK'
  <2>1. CASE LoginInUse(c) \/ LoginRespond(c)
    <3>1. /\ \/ UNCHANGED client
             \/ \E where \in {"away", "menu", "wait", "in", "gone"} :
                   client' = [client EXCEPT ![c] = where]
          /\ \/ UNCHANGED currentUser
             \/ currentUser' = [currentUser EXCEPT ![c] = uid[c]]
          /\ UNCHANGED <<userConnMap, state, sentTo>>
      <4>1. CASE LoginInUse(c)
        BY <4>1 DEF LoginInUse
      <4>2. CASE LoginRespond(c)
        BY <4>2 DEF LoginRespond
      <4> QED
        BY <2>1, <4>1, <4>2
    <3>2. client' \in [Conn -> {"away", "menu", "wait", "in", "gone"}]
      BY <3>1
    <3>3. currentUser' \in [Conn -> User \cup {NoUser}]
      <4>1. currentUser \in [Conn -> User \cup {NoUser}]
            /\ uid[c] \in User \cup {NoUser}
        OBVIOUS
      <4> HIDE DEF HandlersOK, SessionsOK
      <4> QED
        BY <3>1, <4>1
    <3> QED
      BY <3>1, <3>2, <3>3
  <2>2. CASE LoginUnknown(c) \/ LoginAccept(c) \/ LoginSubscribe(c)
             \/ LoginReadOffline(c) \/ LoginRemoveOffline(c)
    BY <2>2 DEF LoginUnknown, LoginAccept, LoginSubscribe, LoginReadOffline,
                LoginRemoveOffline
  <2>3. CASE LoginInsert(c)
    <3>1. uid[c] \in User /\ ServerOf[c] \in Server
      BY <2>3 DEF LoginInsert, LocalsSet, ConstantsAssumption
    <3> DEFINE old == userConnMap[ServerOf[c]][uid[c]]
                 x   == IF old = NoConn THEN c ELSE old
    <3>2. userConnMap' = [userConnMap EXCEPT ![ServerOf[c]][uid[c]] = x]
      BY <2>3 DEF LoginInsert
    <3>3. x \in Conn \cup {NoConn}
      BY <3>1
    <3>4. UNCHANGED <<client, currentUser, state, sentTo>>
      BY <2>3 DEF LoginInsert
    <3> HIDE DEF x
    <3> QED
      BY <3>1, <3>2, <3>3, <3>4, MapUpdate
  <2>4. CASE LoginUpdate(c)
    BY <2>4 DEF LoginUpdate
  <2> QED
    BY <1>1, <2>1, <2>2, <2>3, <2>4 DEF LoginStep
<1>2. ASSUME NEW c \in Conn, ChatStep(c)
      PROVE  SessionsOK'
  BY <1>2 DEF ChatStep, QueryState, Publish, StoreOffline, Routed, GroupLock,
              GroupUnlock, GroupMember
<1>3. ASSUME NEW c \in Conn, CloseStep(c)
      PROVE  SessionsOK'
  <2>1. CASE HandleClose(c) \/ CloseUnsubscribe(c) \/ CloseSetOffline(c)
    BY <2>1 DEF HandleClose, CloseUnsubscribe, CloseSetOffline
  <2>2. CASE CloseErase(c)
    <3>1. ServerOf[c] \in Server
      BY DEF ConstantsAssumption
    <3>2. \/ UNCHANGED userConnMap
          \/ \E u \in User :
               userConnMap' = [userConnMap EXCEPT ![ServerOf[c]][u] = NoConn]
      BY <2>2 DEF CloseErase
    <3>3. UNCHANGED <<client, currentUser, state, sentTo>>
      BY <2>2 DEF CloseErase
    <3>4. ASSUME NEW u \in User,
                 userConnMap' = [userConnMap EXCEPT ![ServerOf[c]][u] = NoConn]
          PROVE  userConnMap' \in [Server -> [User -> Conn \cup {NoConn}]]
      <4>1. [userConnMap EXCEPT ![ServerOf[c]][u] = NoConn]
               \in [Server -> [User -> Conn \cup {NoConn}]]
        BY <3>1, MapUpdate
      <4> QED
        BY <3>4, <4>1
    <3>5. userConnMap' \in [Server -> [User -> Conn \cup {NoConn}]]
      <4>1. CASE UNCHANGED userConnMap
        BY <4>1
      <4> QED
        BY <3>2, <3>4, <4>1
    <3> QED
      BY <3>3, <3>5
  <2> QED
    BY <1>3, <2>1, <2>2 DEF CloseStep
<1>4. ASSUME NEW c \in Conn, ClientStep(c)
      PROVE  SessionsOK'
  <2>1. CASE Connect(c) \/ Loginout(c) \/ Quit(c)
    BY <2>1 DEF Connect, Loginout, Quit
  <2>2. ASSUME NEW u \in Accounts[c], LoginRequest(c, u)
        PROVE  SessionsOK'
    BY <2>2 DEF LoginRequest
  <2>3. ASSUME NEW m \in Msg, NEW u \in User, OneChat(c, m, u)
        PROVE  SessionsOK'
    BY <2>3 DEF OneChat
  <2>4. ASSUME NEW m \in Msg, NEW g \in Groups, GroupChat(c, m, g)
        PROVE  SessionsOK'
    BY <2>4 DEF GroupChat, ConstantsAssumption
  <2> QED
    BY <1>4, <2>1, <2>2, <2>3, <2>4 DEF ClientStep
<1>5. ASSUME NEW c \in Conn, RunFunctor(c)
      PROVE  SessionsOK'
  BY <1>5 DEF RunFunctor
<1>6. ASSUME NEW s \in Server, ObserverStep(s) \/ RedisExecute(s) \/ Interrupt(s)
      PROVE  SessionsOK'
  <2>1. CASE ObserverStep(s)
    BY <2>1 DEF ObserverStep, Notify, NotifyStore
  <2>2. CASE RedisExecute(s)
    BY <2>2 DEF RedisExecute
  <2>3. CASE Interrupt(s)
    BY <2>3 DEF Interrupt
  <2> QED
    BY <1>6, <2>1, <2>2, <2>3
<1>7. ASSUME NEW s \in Server, ServerStops(s)
      PROVE  SessionsOK'
  BY <1>7 DEF ServerStops, Nobody, ConstantsAssumption
<1>8. CASE UNCHANGED vars
  BY <1>8 DEF vars
<1> QED
  BY <1>1, <1>2, <1>3, <1>4, <1>5, <1>6, <1>7, <1>8
  DEF Next, HandlerStep, StopStep, Kill, Exit, AllGone

(* Server processes stop at most MaxStops times.                           *)
StopsOK == exiting \in [Server -> BOOLEAN] /\ stops \in 0..MaxStops

LEMMA StopsStep == StopsOK /\ [Next]_vars => StopsOK'
<1> SUFFICES ASSUME StopsOK, [Next]_vars PROVE StopsOK'
  OBVIOUS
<1> USE ConstantsAssumption DEF StopsOK, stopVars
<1>1. ASSUME NEW c \in Conn, ClientStep(c)
      PROVE  UNCHANGED stopVars
  BY <1>1 DEF ClientStep, Connect, Loginout, Quit, LoginRequest, OneChat, GroupChat
<1>2. ASSUME NEW c \in Conn, HandlerStep(c)
      PROVE  UNCHANGED stopVars
  BY <1>2 DEF HandlerStep, RunFunctor, LoginStep, LoginUnknown, LoginInUse,
     LoginAccept, LoginInsert, LoginSubscribe, LoginUpdate, LoginReadOffline,
     LoginRemoveOffline, LoginRespond, ChatStep, QueryState, Publish,
     StoreOffline, Routed, GroupLock, GroupUnlock, GroupMember, CloseStep,
     HandleClose, CloseErase, CloseUnsubscribe, CloseSetOffline
<1>3. ASSUME NEW s \in Server, ObserverStep(s) \/ RedisExecute(s)
      PROVE  UNCHANGED stopVars
  BY <1>3 DEF ObserverStep, Notify, NotifyStore, RedisExecute
<1>4. ASSUME NEW s \in Server, StopStep(s)
      PROVE  StopsOK'
  <2>1. exiting' \in [Server -> BOOLEAN]
    BY <1>4 DEF StopStep, Kill, Interrupt, Exit, ServerStops
  <2>2. stops' \in 0..MaxStops
    BY <1>4 DEF StopStep, Kill, Interrupt, Exit, ConstantsAssumption
  <2> QED
    BY <2>1, <2>2
<1>5. CASE UNCHANGED vars
  BY <1>5 DEF vars
<1>6. UNCHANGED stopVars => StopsOK'
  OBVIOUS
<1> QED
  BY <1>1, <1>2, <1>3, <1>4, <1>5, <1>6 DEF Next, AllGone

-----------------------------------------------------------------------------
(* Messages on their way, and the commands of the subscriber links.        *)
Command == [op : {"SUBSCRIBE", "UNSUBSCRIBE"}, user : User]

LinksOK ==
    /\ redisCmd \in [Server -> Seq(Command)]
    /\ subscribed \in [Server -> SUBSET User]

LEMMA LinksStep == HandlersOK /\ LinksOK /\ [Next]_vars => LinksOK'
<1> SUFFICES ASSUME HandlersOK, LinksOK, [Next]_vars PROVE LinksOK'
  OBVIOUS
<1> USE DEF LinksOK
<1>1. ASSUME NEW s \in Server, NEW op \in {"SUBSCRIBE", "UNSUBSCRIBE"},
             NEW u \in User, RedisCommand(s, op, u)
      PROVE  redisCmd' \in [Server -> Seq(Command)]
  <2>1. Append(redisCmd[s], [op |-> op, user |-> u]) \in Seq(Command)
    BY AppendProperties DEF Command
  <2> QED
    BY <1>1, <2>1 DEF RedisCommand
<1>2. ASSUME NEW c \in Conn, LoginSubscribe(c) \/ CloseUnsubscribe(c)
      PROVE  LinksOK'
  <2>1. ServerOf[c] \in Server
    BY ConstantsAssumption DEF ConstantsAssumption
  <2>2. CASE LoginSubscribe(c)
    BY <1>1, <2>1, <2>2 DEF LoginSubscribe, HandlersOK, LocalsSet
  <2>3. CASE CloseUnsubscribe(c)
    BY <1>1, <2>1, <2>3 DEF CloseUnsubscribe, HandlersOK
  <2> QED
    BY <1>2, <2>2, <2>3
<1>3. ASSUME NEW c \in Conn, LoginStep(c), ~LoginSubscribe(c)
      PROVE  UNCHANGED redisVars
  BY <1>3 DEF LoginStep, LoginUnknown, LoginInUse, LoginAccept, LoginInsert,
     LoginUpdate, LoginReadOffline, LoginRemoveOffline, LoginRespond
<1>4. ASSUME NEW c \in Conn, ChatStep(c)
      PROVE  UNCHANGED redisVars
  BY <1>4 DEF ChatStep, QueryState, Publish, StoreOffline, Routed, GroupLock,
              GroupUnlock, GroupMember
<1>5. ASSUME NEW c \in Conn, CloseStep(c) \/ RunFunctor(c), ~CloseUnsubscribe(c)
      PROVE  UNCHANGED redisVars
  BY <1>5 DEF CloseStep, HandleClose, CloseErase, CloseSetOffline, RunFunctor
<1>6. ASSUME NEW c \in Conn, ClientStep(c)
      PROVE  UNCHANGED redisVars
  BY <1>6 DEF ClientStep, Connect, Loginout, Quit, LoginRequest, OneChat, GroupChat
<1>7. ASSUME NEW s \in Server, ObserverStep(s) \/ Interrupt(s)
      PROVE  UNCHANGED redisVars
  BY <1>7 DEF ObserverStep, Notify, NotifyStore, Interrupt
<1>8. ASSUME NEW s \in Server, RedisExecute(s)
      PROVE  LinksOK'
  <2>1. redisCmd[s] \in Seq(Command) /\ redisCmd[s] # <<>>
    BY <1>8 DEF RedisExecute
  <2>2. Head(redisCmd[s]) \in Command /\ Tail(redisCmd[s]) \in Seq(Command)
    BY <2>1, HeadTailProperties
  <2>3. Head(redisCmd[s]).user \in User
    BY <2>2 DEF Command
  <2>4. redisCmd' \in [Server -> Seq(Command)]
    BY <1>8, <2>2 DEF RedisExecute
  <2>5. subscribed' \in [Server -> SUBSET User]
    BY <1>8, <2>3 DEF RedisExecute
  <2> QED
    BY <2>4, <2>5
<1>9. ASSUME NEW s \in Server, ServerStops(s)
      PROVE  LinksOK'
  BY <1>9 DEF ServerStops
<1>10. UNCHANGED redisVars => LinksOK'
  BY DEF redisVars
<1>11. UNCHANGED vars => LinksOK'
  BY DEF vars, redisVars
<1> QED
  BY <1>2, <1>3, <1>4, <1>5, <1>6, <1>7, <1>8, <1>9, <1>10, <1>11
  DEF Next, HandlerStep, StopStep, Kill, Exit, AllGone, CloseStep, LoginStep

MailOK ==
    /\ read \in [Conn -> [Msg -> Nat]]
    /\ pending \in [Conn -> Seq(Envelope)]
    /\ observer \in [Server -> Envelope \cup {<<>>}]
    /\ offlineMsg \in [User -> [Msg -> Nat]]
    /\ redisOut \in [Server -> Seq(Envelope)]
    /\ shown \in [User -> [Msg -> Nat]]

(* Counting one more copy of m for u.                                      *)
LEMMA OneMore ==
    ASSUME NEW f \in [User -> [Msg -> Nat]], NEW u \in User, NEW m \in Msg
    PROVE  [f EXCEPT ![u][m] = @ + 1] \in [User -> [Msg -> Nat]]
<1>1. f[u] \in [Msg -> Nat] /\ f[u][m] \in Nat
  OBVIOUS
<1>2. [f[u] EXCEPT ![m] = f[u][m] + 1] \in [Msg -> Nat]
  BY <1>1
<1> QED
  BY <1>2

LEMMA Queueing ==
    ASSUME NEW S, NEW f \in [S -> Seq(Envelope)], NEW d \in S,
           NEW u \in User, NEW m \in Msg
    PROVE  [f EXCEPT ![d] = Append(@, <<u, m>>)] \in [S -> Seq(Envelope)]
<1>1. Append(f[d], <<u, m>>) \in Seq(Envelope)
  BY AppendProperties DEF Envelope
<1> QED
  BY <1>1

LEMMA SendOK ==
    ASSUME MailOK, NEW d \in Conn, NEW u \in User, NEW m \in Msg,
           NEW onLoop, Send(d, u, m, onLoop), UNCHANGED read
    PROVE  MailOK'
<1>1. pending' \in [Conn -> Seq(Envelope)]
  BY Queueing DEF Send, MailOK
<1>2. shown' \in [User -> [Msg -> Nat]]
  <2>1. UNCHANGED shown \/ shown' = [shown EXCEPT ![u][m] = @ + 1]
    BY DEF Send, Display
  <2>2. shown \in [User -> [Msg -> Nat]]
    BY DEF MailOK
  <2>3. [shown EXCEPT ![u][m] = @ + 1] \in [User -> [Msg -> Nat]]
    BY <2>2, OneMore
  <2> QED
    BY <2>1, <2>2, <2>3
<1> QED
  BY <1>1, <1>2 DEF Send, MailOK

LEMMA LoginMail ==
    ASSUME HandlersOK, MailOK, NEW c \in Conn, LoginStep(c)
    PROVE  MailOK'
<1> USE DEF MailOK, mailVars
<1>1. CASE LoginUnknown(c) \/ LoginInUse(c) \/ LoginAccept(c) \/ LoginInsert(c)
           \/ LoginSubscribe(c) \/ LoginUpdate(c)
  BY <1>1 DEF LoginUnknown, LoginInUse, LoginAccept, LoginInsert, LoginSubscribe,
              LoginUpdate
<1>2. CASE LoginReadOffline(c)
  <2>1. uid[c] \in User
    BY <1>2 DEF LoginReadOffline, HandlersOK, LocalsSet
  <2> QED
    BY <1>2, <2>1 DEF LoginReadOffline
<1>3. CASE LoginRemoveOffline(c)
  BY <1>3 DEF LoginRemoveOffline, NoMail
<1>4. CASE LoginRespond(c)
  <2>1. uid[c] \in User
    BY <1>4 DEF LoginRespond, HandlersOK, LocalsSet
  <2>2. [m \in Msg |-> shown[uid[c]][m] + read[c][m]] \in [Msg -> Nat]
    BY <2>1
  <2>3. shown' \in [User -> [Msg -> Nat]]
    BY <1>4, <2>1, <2>2 DEF LoginRespond
  <2>4. read' \in [Conn -> [Msg -> Nat]]
    BY <1>4 DEF LoginRespond, NoMail
  <2> QED
    BY <1>4, <2>3, <2>4 DEF LoginRespond
<1> QED
  BY <1>1, <1>2, <1>3, <1>4 DEF LoginStep

LEMMA ChatMail ==
    ASSUME HandlersOK, MailOK, NEW c \in Conn, ChatStep(c),
           userConnMap \in [Server -> [User -> Conn \cup {NoConn}]],
           ConstantsAssumption
    PROVE  MailOK'
<1>1. CASE QueryState(c) \/ GroupLock(c) \/ GroupUnlock(c)
  BY <1>1 DEF QueryState, GroupLock, GroupUnlock, MailOK, mailVars
<1>2. CASE Publish(c)
  <2>1. tgt[c] \in User /\ msg[c] \in Msg
    BY <1>2 DEF Publish, HandlersOK, LocalsSet
  <2>2. \A s \in Server : Append(redisOut[s], <<tgt[c], msg[c]>>) \in Seq(Envelope)
    BY <2>1, AppendProperties DEF MailOK, Envelope
  <2>3. redisOut' \in [Server -> Seq(Envelope)]
    BY <1>2, <2>2 DEF Publish, MailOK
  <2> QED
    BY <1>2, <2>3 DEF Publish, Routed, MailOK
<1>3. CASE StoreOffline(c)
  <2>1. tgt[c] \in User /\ msg[c] \in Msg
    BY <1>3 DEF StoreOffline, HandlersOK, LocalsSet
  <2>2. offlineMsg' \in [User -> [Msg -> Nat]]
    BY <1>3, <2>1, OneMore DEF StoreOffline, Stored, MailOK
  <2> QED
    BY <1>3, <2>2 DEF StoreOffline, Routed, MailOK
<1>4. ASSUME NEW u \in User, GroupMember(c, u)
      PROVE  MailOK'
  <2> DEFINE d == userConnMap[ServerOf[c]][u]
  <2>1. msg[c] \in Msg
    BY <1>4 DEF GroupMember, HandlersOK, LocalsSet
  <2>2. d \in Conn \cup {NoConn}
    BY DEF ConstantsAssumption
  <2>3. CASE d = NoConn
    BY <1>4, <2>3 DEF GroupMember, MailOK, mailVars
  <2>4. CASE d # NoConn
    <3>1. Send(d, u, msg[c], LoopOf[d] = LoopOf[c]) /\ UNCHANGED read
      BY <1>4, <2>4 DEF GroupMember
    <3> QED
      BY <2>1, <2>2, <2>4, <3>1, SendOK
  <2> QED
    BY <2>3, <2>4
<1> QED
  BY <1>1, <1>2, <1>3, <1>4 DEF ChatStep

LEMMA ClientMail ==
    ASSUME MailOK, NEW c \in Conn, ClientStep(c),
           userConnMap \in [Server -> [User -> Conn \cup {NoConn}]],
           ConstantsAssumption
    PROVE  MailOK'
<1>1. ASSUME NEW m \in Msg, NEW u \in User, OneChat(c, m, u)
      PROVE  MailOK'
  <2> DEFINE d == userConnMap[ServerOf[c]][u]
  <2>1. d \in Conn \cup {NoConn}
    BY DEF ConstantsAssumption
  <2>2. CASE d = NoConn
    BY <1>1, <2>2 DEF OneChat, MailOK, mailVars
  <2>3. CASE d # NoConn
    <3>1. Send(d, u, m, LoopOf[d] = LoopOf[c]) /\ UNCHANGED read
      BY <1>1, <2>3 DEF OneChat
    <3> QED
      BY <2>1, <2>3, <3>1, SendOK
  <2> QED
    BY <2>2, <2>3
<1>2. ASSUME ~(\E m \in Msg, u \in User : OneChat(c, m, u))
      PROVE  UNCHANGED <<read, mailVars>>
  BY <1>2 DEF ClientStep, Connect, Loginout, Quit, LoginRequest, GroupChat,
              handlerVars
<1> QED
  BY <1>1, <1>2 DEF MailOK, mailVars

(* A queue of envelopes gives one up.                                      *)
LEMMA Dequeueing ==
    ASSUME NEW q \in Seq(Envelope), q # <<>>
    PROVE  /\ Tail(q) \in Seq(Envelope) /\ Head(q) \in Envelope
           /\ Head(q)[1] \in User /\ Head(q)[2] \in Msg
<1>1. Tail(q) \in Seq(Envelope) /\ Head(q) \in Envelope
  BY HeadTailProperties
<1> QED
  BY <1>1 DEF Envelope

LEMMA FunctorMail ==
    ASSUME MailOK, NEW c \in Conn, RunFunctor(c)
    PROVE  MailOK'
<1> USE DEF MailOK
<1>1. pending[c] \in Seq(Envelope) /\ pending[c] # <<>>
  BY DEF RunFunctor
<1>2. Tail(pending[c]) \in Seq(Envelope)
      /\ Head(pending[c])[1] \in User /\ Head(pending[c])[2] \in Msg
  BY <1>1, Dequeueing
<1>3. shown' \in [User -> [Msg -> Nat]]
  <2> DEFINE u == Head(pending[c])[1]
             m == Head(pending[c])[2]
  <2>1. UNCHANGED shown \/ shown' = [shown EXCEPT ![u][m] = @ + 1]
    BY DEF RunFunctor, Display
  <2> HIDE DEF u, m
  <2>2. u \in User /\ m \in Msg
    BY <1>2 DEF u, m
  <2>3. shown \in [User -> [Msg -> Nat]]
    OBVIOUS
  <2>4. [shown EXCEPT ![u][m] = @ + 1] \in [User -> [Msg -> Nat]]
    BY <2>2, <2>3, OneMore
  <2> QED
    BY <2>1, <2>3, <2>4
<1>4. pending' \in [Conn -> Seq(Envelope)]
  BY <1>2 DEF RunFunctor
<1> QED
  BY <1>3, <1>4 DEF RunFunctor, handlerVars

LEMMA ObserverMail ==
    ASSUME MailOK, NEW s \in Server, ObserverStep(s),
           userConnMap \in [Server -> [User -> Conn \cup {NoConn}]]
    PROVE  MailOK'
<1> USE DEF MailOK
<1>1. CASE Notify(s)
  <2> DEFINE u == Head(redisOut[s])[1]
             m == Head(redisOut[s])[2]
             d == userConnMap[s][u]
  <2>1. redisOut[s] \in Seq(Envelope) /\ redisOut[s] # <<>>
    BY <1>1 DEF Notify
  <2>2. /\ Tail(redisOut[s]) \in Seq(Envelope)
        /\ u \in User /\ m \in Msg /\ <<u, m>> \in Envelope
    BY <2>1, Dequeueing DEF Envelope
  <2>3. redisOut' \in [Server -> Seq(Envelope)]
    BY <1>1, <2>2 DEF Notify
  <2>4. pending' \in [Conn -> Seq(Envelope)]
    <3> HIDE DEF u, m, d
    <3>1. \/ UNCHANGED pending
          \/ d \in Conn /\ pending' = [pending EXCEPT ![d] = Append(@, <<u, m>>)]
      BY <1>1, <2>2 DEF Notify, u, m, d
    <3>2. d \in Conn => [pending EXCEPT ![d] = Append(@, <<u, m>>)]
                           \in [Conn -> Seq(Envelope)]
      BY <2>2, Queueing
    <3> QED
      BY <3>1, <3>2
  <2>5. observer' \in [Server -> Envelope \cup {<<>>}]
    <3> HIDE DEF u, m
    <3>1. UNCHANGED observer \/ observer' = [observer EXCEPT ![s] = <<u, m>>]
      BY <1>1 DEF Notify, u, m
    <3> QED
      BY <2>2, <3>1
  <2>6. UNCHANGED <<read, offlineMsg, shown>>
    BY <1>1 DEF Notify, handlerVars
  <2> QED
    BY <2>3, <2>4, <2>5, <2>6
<1>2. CASE NotifyStore(s)
  <2>1. observer[s] \in Envelope
    BY <1>2 DEF NotifyStore
  <2>2. observer[s][1] \in User /\ observer[s][2] \in Msg
    BY <2>1 DEF Envelope
  <2>3. offlineMsg' \in [User -> [Msg -> Nat]]
    BY <1>2, <2>2, OneMore DEF NotifyStore, Stored
  <2> QED
    BY <1>2, <2>3 DEF NotifyStore, handlerVars
<1> QED
  BY <1>1, <1>2 DEF ObserverStep

LEMMA MailStep ==
    HandlersOK /\ SessionsOK /\ MailOK /\ [Next]_vars => MailOK'
<1> SUFFICES ASSUME HandlersOK, SessionsOK, MailOK, [Next]_vars PROVE MailOK'
  OBVIOUS
<1>1. userConnMap \in [Server -> [User -> Conn \cup {NoConn}]]
  BY DEF SessionsOK
<1>2. ASSUME NEW c \in Conn, CloseStep(c)
      PROVE  MailOK'
  <2>1. CASE HandleClose(c)
    BY <2>1 DEF HandleClose, MailOK
  <2>2. CASE CloseErase(c) \/ CloseUnsubscribe(c) \/ CloseSetOffline(c)
    BY <2>2 DEF CloseErase, CloseUnsubscribe, CloseSetOffline, MailOK, mailVars
  <2> QED
    BY <1>2, <2>1, <2>2 DEF CloseStep
<1>3. ASSUME NEW c \in Conn, ClientStep(c) \/ HandlerStep(c)
      PROVE  MailOK'
  BY <1>1, <1>2, <1>3, ConstantsAssumption, LoginMail, ChatMail, ClientMail,
     FunctorMail DEF HandlerStep
<1>4. ASSUME NEW s \in Server, RedisExecute(s) \/ Interrupt(s)
      PROVE  MailOK'
  BY <1>4 DEF RedisExecute, Interrupt, MailOK, mailVars, handlerVars
<1>5. ASSUME NEW s \in Server, ServerStops(s)
      PROVE  MailOK'
  BY <1>5 DEF ServerStops, MailOK, NoMail
<1>6. CASE UNCHANGED vars
  BY <1>6 DEF vars, handlerVars, mailVars, MailOK
<1> QED
  BY <1>1, <1>3, <1>4, <1>5, <1>6, ObserverMail
  DEF Next, StopStep, Kill, Exit, AllGone

-----------------------------------------------------------------------------
(* Who prints for whom: the client whose login response arrives, the one   *)
(* whose loop runs a queued send, and the one listed with the addressee    *)
(* when the sender's handler is on the same loop.                          *)
Printing(c, u) ==
    \/ LoginRespond(c) /\ client[c] = "wait" /\ u = uid[c]
    \/ RunFunctor(c) /\ client[c] # "gone" /\ u = Head(pending[c])[1]
    \/ \E b \in Conn :
          /\ GroupMember(b, u) \/ \E m \in Msg : OneChat(b, m, u)
          /\ c = userConnMap[ServerOf[b]][u] /\ LoopOf[c] = LoopOf[b]
          /\ client[c] # "gone"

PrintsOne ==
    \/ UNCHANGED printedFor
    \/ \E c \in Conn, u \in User :
          /\ Printing(c, u)
          /\ printedFor' = [printedFor EXCEPT ![c] = @ \cup {u}]

LEMMA PrintStep ==
    ASSUME HandlersOK, SessionsOK, MailOK, [Next]_vars
    PROVE  PrintsOne
<1> USE DEF PrintsOne
<1>1. ASSUME NEW c \in Conn, LoginStep(c)
      PROVE  PrintsOne
  <2>1. CASE LoginRespond(c)
    <3>1. uid[c] \in User
      BY <2>1 DEF LoginRespond, HandlersOK, LocalsSet
    <3>2. \/ UNCHANGED printedFor
          \/ /\ client[c] = "wait"
             /\ printedFor' = [printedFor EXCEPT ![c] = @ \cup {uid[c]}]
      BY <2>1 DEF LoginRespond
    <3>3. client[c] = "wait" => Printing(c, uid[c])
      BY <2>1 DEF Printing
    <3> QED
      BY <3>1, <3>2, <3>3
  <2>2. CASE ~LoginRespond(c)
    BY <1>1, <2>2 DEF LoginStep, LoginUnknown, LoginInUse, LoginAccept,
       LoginInsert, LoginSubscribe, LoginUpdate, LoginReadOffline,
       LoginRemoveOffline, mailVars
  <2> QED
    BY <2>1, <2>2
<1>2. ASSUME NEW b \in Conn, NEW u \in User, NEW m \in Msg,
             GroupMember(b, u) \/ OneChat(b, m, u),
             userConnMap[ServerOf[b]][u] # NoConn,
             Send(userConnMap[ServerOf[b]][u], u, m,
                  LoopOf[userConnMap[ServerOf[b]][u]] = LoopOf[b])
      PROVE  PrintsOne
  <2> DEFINE d == userConnMap[ServerOf[b]][u]
  <2>1. d \in Conn
    BY <1>2, ConstantsAssumption DEF SessionsOK, ConstantsAssumption
  <2>2. \/ UNCHANGED printedFor
        \/ /\ LoopOf[d] = LoopOf[b] /\ client[d] # "gone"
           /\ printedFor' = [printedFor EXCEPT ![d] = @ \cup {u}]
    BY <1>2 DEF Send, Display
  <2>3. LoopOf[d] = LoopOf[b] /\ client[d] # "gone" => Printing(d, u)
    BY <1>2 DEF Printing
  <2> HIDE DEF d
  <2> QED
    BY <2>1, <2>2, <2>3
<1>3. ASSUME NEW c \in Conn, ChatStep(c)
      PROVE  PrintsOne
  <2>1. ASSUME NEW u \in User, GroupMember(c, u)
        PROVE  PrintsOne
    <3>1. msg[c] \in Msg
      BY <2>1 DEF GroupMember, HandlersOK, LocalsSet
    <3>2. CASE userConnMap[ServerOf[c]][u] = NoConn
      BY <2>1, <3>2 DEF GroupMember, mailVars
    <3>3. CASE userConnMap[ServerOf[c]][u] # NoConn
      <4>1. Send(userConnMap[ServerOf[c]][u], u, msg[c],
                 LoopOf[userConnMap[ServerOf[c]][u]] = LoopOf[c])
        BY <2>1, <3>3 DEF GroupMember
      <4> QED
        BY <1>2, <2>1, <3>1, <3>3, <4>1
    <3> QED
      BY <3>2, <3>3
  <2>2. ASSUME ~\E u \in User : GroupMember(c, u)
        PROVE  UNCHANGED printedFor
    BY <1>3, <2>2 DEF ChatStep, QueryState, Publish, StoreOffline, GroupLock,
       GroupUnlock, mailVars
  <2> QED
    BY <2>1, <2>2
<1>4. ASSUME NEW c \in Conn, RunFunctor(c)
      PROVE  PrintsOne
  <2>1. pending[c] \in Seq(Envelope) /\ pending[c] # <<>>
    BY <1>4 DEF RunFunctor, MailOK
  <2>2. Head(pending[c])[1] \in User
    BY <2>1, Dequeueing
  <2>3. \/ UNCHANGED printedFor
        \/ /\ client[c] # "gone"
           /\ printedFor' = [printedFor EXCEPT ![c] = @ \cup {Head(pending[c])[1]}]
    BY <1>4 DEF RunFunctor, Display
  <2>4. client[c] # "gone" => Printing(c, Head(pending[c])[1])
    BY <1>4 DEF Printing
  <2> QED
    BY <2>2, <2>3, <2>4
<1>5. ASSUME NEW c \in Conn, ClientStep(c)
      PROVE  PrintsOne
  <2>1. ASSUME NEW m \in Msg, NEW u \in User, OneChat(c, m, u)
        PROVE  PrintsOne
    <3>1. CASE userConnMap[ServerOf[c]][u] = NoConn
      BY <2>1, <3>1 DEF OneChat, mailVars
    <3>2. CASE userConnMap[ServerOf[c]][u] # NoConn
      <4>1. Send(userConnMap[ServerOf[c]][u], u, m,
                 LoopOf[userConnMap[ServerOf[c]][u]] = LoopOf[c])
        BY <2>1, <3>2 DEF OneChat
      <4> QED
        BY <1>2, <2>1, <3>2, <4>1
    <3> QED
      BY <3>1, <3>2
  <2>2. ASSUME ~\E m \in Msg, u \in User : OneChat(c, m, u)
        PROVE  UNCHANGED printedFor
    BY <1>5, <2>2 DEF ClientStep, Connect, Loginout, Quit, LoginRequest,
       GroupChat, mailVars
  <2> QED
    BY <2>1, <2>2
<1>6. ASSUME NEW c \in Conn, CloseStep(c)
      PROVE  UNCHANGED printedFor
  BY <1>6 DEF CloseStep, HandleClose, CloseErase, CloseUnsubscribe,
              CloseSetOffline, mailVars
<1>7. ASSUME NEW s \in Server, ObserverStep(s) \/ RedisExecute(s) \/ StopStep(s)
      PROVE  UNCHANGED printedFor
  BY <1>7 DEF ObserverStep, Notify, NotifyStore, RedisExecute, StopStep, Kill,
              Interrupt, Exit, ServerStops, mailVars
<1>8. UNCHANGED vars => UNCHANGED printedFor
  BY DEF vars, mailVars
<1> QED
  BY <1>1, <1>3, <1>4, <1>5, <1>6, <1>7, <1>8 DEF Next, HandlerStep, AllGone

PrintsOK == printedFor \in [Conn -> SUBSET User]

LEMMA PrintsStep ==
    HandlersOK /\ SessionsOK /\ MailOK /\ PrintsOK /\ [Next]_vars => PrintsOK'
BY PrintStep DEF PrintsOne, PrintsOK

-----------------------------------------------------------------------------
(* Every variable keeps its type whatever clients, servers, broker and     *)
(* operators do.                                                           *)
THEOREM TypeCorrect == Spec => []TypeOK
<1> DEFINE AllOK == HandlersOK /\ SessionsOK /\ LinksOK /\ MailOK /\ PrintsOK
<1>1. Init => AllOK
  BY ConstantsAssumption DEF Init, HandlersOK, LocalsSet, SessionsOK, LinksOK,
     MailOK, PrintsOK, NoMail, Nobody
<1>2. Init => StopsOK
  BY ConstantsAssumption DEF Init, StopsOK, ConstantsAssumption
<1>3. AllOK /\ [Next]_vars => AllOK'
  BY HandlersStep, SessionsStep, LinksStep, MailStep, PrintsStep
<1>4. AllOK /\ StopsOK => TypeOK
  BY DEF HandlersOK, SessionsOK, LinksOK, MailOK, PrintsOK, StopsOK, TypeOK,
         Command
<1> QED
  BY <1>1, <1>2, <1>3, <1>4, StopsStep, PTL DEF Spec
=============================================================================
