------------------------- MODULE ChatSessionProofs -------------------------
(***************************************************************************)
(* Proofs about the sessions of ChatService, for any number of servers,    *)
(* clients, accounts and messages.  First the column "state" as a lock on  *)
(* an account: OneOwner, SessionNotDisturbed and OnlineIsOwned.  Then what *)
(* the map lists and what is queued behind it: MapHoldsOpenConnections and *)
(* RightReader.  Last the broker's subscriptions: SubscribedWhereMapped.   *)
(***************************************************************************)
EXTENDS ChatServiceProofs

USE DEF LoginSteps, CloseSteps, Attempting

(* Steps at which a handler neither owns an account nor asks for one.      *)
Quiet == {"away", "idle", "closed", "erase", "query", "publish", "store",
          "lock", "loop", "groupPublish", "groupStore"}

QuietStep ==
    /\ \A c \in Conn : pc'[c] = pc[c] \/ (pc[c] \in Quiet /\ pc'[c] \in Quiet)
    /\ UNCHANGED <<uid, userConnMap, state>>

LEMMA QuietKeeps ==
    ASSUME HandlersOK, SessionInv, QuietStep
    PROVE  SessionInv'
<1> USE DEF QuietStep, Quiet, HandlersOK
<1> USE DEF LoggingIn, Closing, Mapped
<1>1. \A c \in Conn, u \in User : Owns(c, u)' <=> Owns(c, u)
  BY DEF Owns
<1>2. \A c \in Conn : /\ pc'[c] \in Attempting => pc'[c] = pc[c]
                      /\ pc'[c] \in {"readOffline", "removeOffline", "respond",
                            "unsubscribe", "setOffline"} => pc'[c] = pc[c]
                      /\ pc[c] \in Attempting => pc'[c] = pc[c]
  OBVIOUS
<1>3. OneAttempt' /\ InsertedIsMapped' /\ MapAtHome' /\ Unmapped'
  BY <1>2 DEF SessionInv, OneAttempt, InsertedIsMapped, MapAtHome, Unmapped
<1>4. OfflineOwner' /\ OneOwner'
  BY <1>1, <1>2 DEF SessionInv, OfflineOwner, OneOwner
<1> QED
  BY <1>3, <1>4 DEF SessionInv

LEMMA QuietActions ==
    ASSUME HandlersOK, NEW c \in Conn,
           \/ ChatStep(c) \/ HandleClose(c) \/ RunFunctor(c)
           \/ (Connect(c) /\ pc[c] \in Quiet)
           \/ Loginout(c) \/ Quit(c)
           \/ \E m \in Msg, u \in User : OneChat(c, m, u)
           \/ \E m \in Msg, g \in Groups : GroupChat(c, m, g)
    PROVE  QuietStep
<1> USE DEF QuietStep, Quiet, HandlersOK, Goto, sessionVars, handlerVars
<1>1. CASE QueryState(c) \/ GroupLock(c) \/ GroupUnlock(c)
  BY <1>1 DEF QueryState, GroupLock, GroupUnlock
<1>2. CASE Publish(c) \/ StoreOffline(c)
  BY <1>2 DEF Publish, StoreOffline, Routed
<1>3. ASSUME NEW u \in User, GroupMember(c, u)
      PROVE  QuietStep
  <2>1. /\ pc[c] = "loop"
        /\ UNCHANGED pc \/ \E step \in {"groupPublish", "groupStore"} : Goto(c, step)
        /\ UNCHANGED <<uid, userConnMap, state>>
    BY <1>3 DEF GroupMember
  <2> QED
    BY <2>1
<1>4. CASE HandleClose(c) \/ RunFunctor(c) \/ Loginout(c) \/ Quit(c)
           \/ (Connect(c) /\ pc[c] \in Quiet)
  BY <1>4 DEF HandleClose, Ready, RunFunctor, Loginout, Quit, Connect
<1>5. ASSUME NEW m \in Msg, NEW u \in User, OneChat(c, m, u)
      PROVE  QuietStep
  <2>1. /\ pc[c] = "idle"
        /\ UNCHANGED pc \/ Goto(c, "query")
        /\ UNCHANGED <<uid, userConnMap, state>>
    BY <1>5 DEF OneChat, Ready
  <2> QED
    BY <2>1
<1>6. ASSUME NEW m \in Msg, NEW g \in Groups, GroupChat(c, m, g)
      PROVE  QuietStep
  BY <1>6 DEF GroupChat, Ready
<1> QED
  BY <1>1, <1>2, <1>3, <1>4, <1>5, <1>6 DEF ChatStep

-----------------------------------------------------------------------------
(* The steps of loginHandler and of the close handler that work on an      *)
(* account.                                                                *)

(* An attempt begins; nobody else's is before its update of "state".       *)
LEMMA RequestKeeps ==
    ASSUME HandlersOK, SessionInv, NEW c \in Conn, NEW u \in User \cup {NoUser},
           LoginRequest(c, u), "overlap" \notin Disruptions
    PROVE  SessionInv'
<1> USE DEF SessionInv, HandlersOK, LoginRequest, Ready, Goto, LoggingIn, Closing,
            Mapped, sessionVars
<1>1. OneAttempt'
  BY ConstantsAssumption DEF OneAttempt
<1>2. \A d \in Conn, v \in User : Owns(d, v)' <=> Owns(d, v)
  BY ConstantsAssumption DEF Owns
<1>3. OfflineOwner' /\ OneOwner'
  BY <1>2 DEF OfflineOwner, OneOwner
<1>4. InsertedIsMapped' /\ MapAtHome' /\ Unmapped'
  BY DEF InsertedIsMapped, MapAtHome, Unmapped
<1> QED
  BY <1>1, <1>3, <1>4

(* The attempt fails, or is over and leaves the map entry as the owner.    *)
LEMMA EndKeeps ==
    ASSUME HandlersOK, SessionInv, NEW c \in Conn,
           LoginUnknown(c) \/ LoginInUse(c) \/ LoginRespond(c)
    PROVE  SessionInv'
<1> USE DEF SessionInv, HandlersOK, Goto, LoggingIn, Closing, Mapped, sessionVars
<1>1. /\ pc[c] \in {"login", "respond"} /\ Goto(c, "idle")
      /\ uid' = [uid EXCEPT ![c] = NoUser] \/ (UNCHANGED uid /\ uid[c] = NoUser)
      /\ UNCHANGED <<userConnMap, state>>
  BY DEF LoginUnknown, LoginInUse, LoginRespond
<1>2. \A d \in Conn, v \in User : Owns(d, v)' <=> Owns(d, v)
  BY <1>1, ConstantsAssumption DEF Owns, InsertedIsMapped
<1>3. OfflineOwner' /\ OneOwner'
  BY <1>1, <1>2 DEF OfflineOwner, OneOwner
<1>4. OneAttempt' /\ InsertedIsMapped' /\ MapAtHome' /\ Unmapped'
  BY <1>1 DEF OneAttempt, InsertedIsMapped, MapAtHome, Unmapped
<1> QED
  BY <1>3, <1>4

(* The database says "offline": by OfflineOwner and OneAttempt nobody owns *)
(* the account, and the attempt becomes its owner.                         *)
LEMMA AcceptKeeps ==
    ASSUME HandlersOK, SessionInv, NEW c \in Conn, LoginAccept(c)
    PROVE  SessionInv'
<1> USE DEF SessionInv, HandlersOK, LoginAccept, Goto, LoggingIn, Closing, Mapped,
            sessionVars
<1>1. uid[c] \in User /\ \A d \in Conn : ~Owns(d, uid[c])
  BY DEF OneAttempt, OfflineOwner
<1>2. \A d \in Conn, v \in User :
         Owns(d, v)' => Owns(d, v) \/ (d = c /\ v = uid[c])
  BY DEF Owns
<1>3. OneOwner' /\ OfflineOwner'
  BY <1>1, <1>2 DEF OneOwner, OfflineOwner
<1>4. OneAttempt' /\ InsertedIsMapped' /\ MapAtHome'
  BY DEF OneAttempt, InsertedIsMapped, MapAtHome
<1>5. Unmapped'
  BY <1>1 DEF Unmapped, Owns
<1> QED
  BY <1>3, <1>4, <1>5

(* The map has no entry of the user yet, so insert makes one.              *)
LEMMA InsertMaps ==
    ASSUME HandlersOK, SessionsOK, SessionInv, ConstantsAssumption,
           NEW c \in Conn, LoginInsert(c)
    PROVE  /\ uid[c] \in User /\ ServerOf[c] \in Server
           /\ userConnMap' = [userConnMap EXCEPT ![ServerOf[c]][uid[c]] = c]
<1>1. uid[c] \in User /\ ServerOf[c] \in Server
  BY DEF LoginInsert, HandlersOK, LocalsSet, ConstantsAssumption
<1> DEFINE d == userConnMap[ServerOf[c]][uid[c]]
<1>2. d = NoConn
  <2> SUFFICES ASSUME d # NoConn PROVE FALSE
    OBVIOUS
  <2>1. d \in Conn /\ ServerOf[d] = ServerOf[c]
    BY <1>1 DEF SessionsOK, SessionInv, MapAtHome
  <2>2. Owns(d, uid[c]) /\ Owns(c, uid[c])
    BY <2>1 DEF Owns, Mapped, LoggingIn, LoginInsert
  <2>3. d = c
    BY <1>1, <2>1, <2>2 DEF SessionInv, OneOwner
  <2> QED
    BY <1>1, <2>3 DEF SessionInv, Unmapped, Mapped, LoginInsert
<1> QED
  BY <1>1, <1>2 DEF LoginInsert

LEMMA InsertKeeps ==
    ASSUME HandlersOK, SessionsOK, SessionInv, NEW c \in Conn, LoginInsert(c)
    PROVE  SessionInv'
<1> USE DEF SessionInv, HandlersOK, SessionsOK, LoggingIn, Closing, Mapped
<1>1. /\ uid[c] \in User /\ ServerOf[c] \in Server
      /\ userConnMap' = [userConnMap EXCEPT ![ServerOf[c]][uid[c]] = c]
      /\ pc[c] = "insert" /\ Goto(c, "subscribe")
      /\ UNCHANGED <<uid, state>>
  BY InsertMaps, ConstantsAssumption DEF LoginInsert
<1>2. \A s \in Server, v \in User : userConnMap'[s][v] =
         IF s = ServerOf[c] /\ v = uid[c] THEN c ELSE userConnMap[s][v]
  BY <1>1
<1>3. \A d \in Conn : ServerOf[d] \in Server
  BY ConstantsAssumption DEF ConstantsAssumption
<1>4. \A d \in Conn, v \in User :
         Mapped(v, d)' <=> (d = c /\ v = uid[c])
                           \/ (Mapped(v, d) /\ ~(v = uid[c] /\ ServerOf[d] = ServerOf[c]))
  BY <1>2, <1>3
<1>5. \A d \in Conn, v \in User : Owns(d, v)' => Owns(d, v)
  BY <1>1, <1>4 DEF Owns, Goto
<1>6. OneOwner' /\ OfflineOwner'
  BY <1>1, <1>5 DEF OneOwner, OfflineOwner, Goto
<1>7. OneAttempt'
  BY <1>1 DEF OneAttempt, Goto
<1>8. InsertedIsMapped'
  <2>1. Owns(c, uid[c])
    BY <1>1 DEF Owns
  <2> QED
    BY <1>1, <1>4, <2>1 DEF InsertedIsMapped, OneOwner, Owns, Goto
<1>9. MapAtHome'
  BY <1>1, <1>2 DEF MapAtHome
<1>10. Unmapped'
  BY <1>1, <1>4 DEF Unmapped, Goto
<1> QED
  BY <1>6, <1>7, <1>8, <1>9, <1>10

LEMMA AdvanceKeeps ==
    ASSUME HandlersOK, SessionInv, NEW c \in Conn,
           LoginSubscribe(c) \/ LoginReadOffline(c) \/ LoginRemoveOffline(c)
    PROVE  SessionInv'
<1> USE DEF SessionInv, HandlersOK, Goto, LoggingIn, Closing, Mapped, sessionVars
<1>1. \/ pc[c] = "subscribe" /\ Goto(c, "update")
      \/ /\ pc[c] \in {"readOffline", "removeOffline"}
         /\ Goto(c, "removeOffline") \/ Goto(c, "respond")
  BY DEF LoginSubscribe, LoginReadOffline, LoginRemoveOffline
<1>2. UNCHANGED <<uid, userConnMap, state>>
  BY DEF LoginSubscribe, LoginReadOffline, LoginRemoveOffline
<1>3. \A d \in Conn, v \in User : Owns(d, v)' <=> Owns(d, v)
  BY <1>1, <1>2 DEF Owns
<1>4. OneOwner' /\ OfflineOwner'
  BY <1>1, <1>2, <1>3 DEF OneOwner, OfflineOwner
<1>5. OneAttempt' /\ InsertedIsMapped' /\ MapAtHome' /\ Unmapped'
  BY <1>1, <1>2 DEF OneAttempt, InsertedIsMapped, MapAtHome, Unmapped
<1> QED
  BY <1>4, <1>5

LEMMA UpdateKeeps ==
    ASSUME HandlersOK, SessionsOK, SessionInv, NEW c \in Conn, LoginUpdate(c)
    PROVE  SessionInv'
<1> USE DEF SessionInv, HandlersOK, Goto, LoggingIn, Closing, Mapped
<1>1. /\ pc[c] = "update" /\ Goto(c, "readOffline") /\ uid[c] \in User
      /\ state' = [state EXCEPT ![uid[c]] = "online"]
      /\ UNCHANGED <<uid, userConnMap>>
  BY DEF LoginUpdate, LocalsSet
<1>2. \A d \in Conn, v \in User : Owns(d, v)' <=> Owns(d, v)
  BY <1>1 DEF Owns
<1>3. OneOwner' /\ OfflineOwner'
  BY <1>1, <1>2 DEF OneOwner, OfflineOwner, SessionsOK
<1>4. OneAttempt' /\ InsertedIsMapped' /\ MapAtHome' /\ Unmapped'
  BY <1>1 DEF OneAttempt, InsertedIsMapped, MapAtHome, Unmapped
<1> QED
  BY <1>3, <1>4

(* The close handler takes over from the map entry it erases.              *)
LEMMA EraseKeeps ==
    ASSUME HandlersOK, SessionsOK, SessionInv, NEW c \in Conn, CloseErase(c)
    PROVE  SessionInv'
<1> USE DEF SessionInv, HandlersOK, Goto, LoggingIn, Closing, Mapped
<1>1. pc[c] = "erase" /\ Goto(c, "unsubscribe") /\ UNCHANGED state
      /\ \A d \in Conn : ServerOf[d] \in Server
  BY ConstantsAssumption DEF CloseErase, ConstantsAssumption
<1>2. CASE uid' = [uid EXCEPT ![c] = NoUser] /\ UNCHANGED userConnMap
  <2>1. \A d \in Conn, v \in User : Owns(d, v)' <=> Owns(d, v)
    BY <1>1, <1>2, ConstantsAssumption DEF Owns, ConstantsAssumption
  <2>2. OneOwner' /\ OfflineOwner'
    BY <1>1, <1>2, <2>1 DEF OneOwner, OfflineOwner
  <2>3. OneAttempt' /\ InsertedIsMapped' /\ MapAtHome' /\ Unmapped'
    BY <1>1, <1>2, ConstantsAssumption
    DEF OneAttempt, InsertedIsMapped, MapAtHome, Unmapped, ConstantsAssumption
  <2> QED
    BY <2>2, <2>3
<1>3. ASSUME NEW u \in User, Mapped(u, c),
             userConnMap' = [userConnMap EXCEPT ![ServerOf[c]][u] = NoConn],
             uid' = [uid EXCEPT ![c] = u]
      PROVE  SessionInv'
  <2>1. \A s \in Server, v \in User : userConnMap'[s][v] =
           IF s = ServerOf[c] /\ v = u THEN NoConn ELSE userConnMap[s][v]
    BY <1>3 DEF SessionsOK
  <2>2. \A d \in Conn, v \in User :
           Mapped(v, d)' <=> Mapped(v, d) /\ ~(v = u /\ ServerOf[d] = ServerOf[c])
    BY <1>1, <2>1, ConstantsAssumption DEF ConstantsAssumption
  <2>3. \A d \in Conn, v \in User : Owns(d, v)' => Owns(d, v)
    BY <1>1, <1>3, <2>2 DEF Owns
  <2>4. OneOwner' /\ OfflineOwner'
    BY <1>1, <1>3, <2>3 DEF OneOwner, OfflineOwner
  <2>5. OneAttempt' /\ MapAtHome'
    BY <1>1, <1>3, <2>1 DEF OneAttempt, MapAtHome
  <2>6. InsertedIsMapped'
    <3>1. \A d \in Conn : Owns(d, u) => d = c
      BY <1>3 DEF Owns, OneOwner
    <3> QED
      BY <1>1, <1>3, <2>2, <3>1 DEF InsertedIsMapped, Owns
  <2>7. Unmapped'
    BY <1>1, <1>3, <2>2 DEF Unmapped
  <2> QED
    BY <2>4, <2>5, <2>6, <2>7
<1> QED
  BY <1>2, <1>3 DEF CloseErase

LEMMA UnsubscribeKeeps ==
    ASSUME HandlersOK, SessionInv, NEW c \in Conn, CloseUnsubscribe(c)
    PROVE  SessionInv'
<1> USE DEF SessionInv, HandlersOK, Goto, LoggingIn, Closing, Mapped, sessionVars
<1>1. /\ pc[c] = "unsubscribe"
      /\ Goto(c, "setOffline") \/ (Goto(c, "closed") /\ uid[c] = NoUser)
      /\ UNCHANGED <<uid, userConnMap, state>>
  BY DEF CloseUnsubscribe
<1>2. \A d \in Conn, v \in User : Owns(d, v)' <=> Owns(d, v)
  BY <1>1, ConstantsAssumption DEF Owns, ConstantsAssumption
<1>3. OneOwner' /\ OfflineOwner'
  BY <1>1, <1>2 DEF OneOwner, OfflineOwner
<1>4. OneAttempt' /\ InsertedIsMapped' /\ MapAtHome' /\ Unmapped'
  BY <1>1 DEF OneAttempt, InsertedIsMapped, MapAtHome, Unmapped
<1> QED
  BY <1>3, <1>4

(* The account goes offline and its only owner gives it up in one step.    *)
LEMMA SetOfflineKeeps ==
    ASSUME HandlersOK, SessionsOK, SessionInv, NEW c \in Conn, CloseSetOffline(c)
    PROVE  SessionInv'
<1> USE DEF SessionInv, HandlersOK, Goto, LoggingIn, Closing, Mapped
<1>1. PICK u \in User :
         /\ pc[c] = "setOffline" /\ Goto(c, "closed") /\ uid[c] = u
         /\ state' = [state EXCEPT ![u] = "offline"]
         /\ uid' = [uid EXCEPT ![c] = NoUser]
         /\ UNCHANGED userConnMap
  BY DEF CloseSetOffline, LocalsSet
<1>2. Owns(c, u) /\ ~Mapped(u, c)
  BY <1>1 DEF Owns, Unmapped
<1>3. \A d \in Conn : ~Owns(d, u)'
  BY <1>1, <1>2, ConstantsAssumption DEF Owns, OneOwner, ConstantsAssumption
<1>4. \A d \in Conn, v \in User : Owns(d, v)' => Owns(d, v)
  BY <1>1, ConstantsAssumption DEF Owns, ConstantsAssumption
<1>5. OneOwner'
  BY <1>4 DEF OneOwner
<1>6. OfflineOwner'
  BY <1>1, <1>3, <1>4 DEF OfflineOwner, SessionsOK
<1>7. OneAttempt' /\ InsertedIsMapped' /\ MapAtHome' /\ Unmapped'
  BY <1>1, ConstantsAssumption
  DEF OneAttempt, InsertedIsMapped, MapAtHome, Unmapped, ConstantsAssumption
<1> QED
  BY <1>5, <1>6, <1>7

(* A server process takes its map and its handlers with it.                *)
LEMMA StopKeeps ==
    ASSUME HandlersOK, SessionsOK, SessionInv, NEW s \in Server, ServerStops(s)
    PROVE  SessionInv'
<1> USE DEF SessionInv, HandlersOK, LoggingIn, Closing, Mapped
<1>1. /\ \A d \in Conn :
           \/ pc'[d] = "closed" /\ uid'[d] = NoUser /\ ServerOf[d] = s
           \/ /\ pc'[d] = pc[d] /\ uid'[d] = uid[d]
              /\ ServerOf[d] = s => pc[d] = "away"
      /\ \A r \in Server, v \in User :
           userConnMap'[r][v] = IF r = s THEN NoConn ELSE userConnMap[r][v]
      /\ UNCHANGED state
  BY DEF ServerStops, Nobody, SessionsOK
<1>2. \A d \in Conn : ServerOf[d] \in Server
  BY ConstantsAssumption DEF ConstantsAssumption
<1>3. NoConn \notin Conn /\ NoUser \notin User
  BY ConstantsAssumption DEF ConstantsAssumption
<1>4. \A d \in Conn, v \in User :
         Mapped(v, d)' <=> Mapped(v, d) /\ ServerOf[d] # s
  BY <1>1, <1>2, <1>3
<1>5. \A d \in Conn, v \in User : Owns(d, v)' => Owns(d, v)
  BY <1>1, <1>3, <1>4 DEF Owns
<1>6. OneOwner'
  BY <1>5 DEF OneOwner
<1>7. OfflineOwner'
  BY <1>1, <1>3, <1>4, <1>5 DEF OfflineOwner, Owns
<1>8. OneAttempt' /\ MapAtHome'
  BY <1>1 DEF OneAttempt, MapAtHome
<1>9. InsertedIsMapped' /\ Unmapped'
  BY <1>1, <1>3, <1>4 DEF InsertedIsMapped, Unmapped
<1> QED
  BY <1>6, <1>7, <1>8, <1>9

-----------------------------------------------------------------------------
(* Nothing runs for a client that is not there.                            *)
AwayTogether == \A c \in Conn : client[c] = "away" => pc[c] = "away"

LEMMA AwayStep ==
    HandlersOK /\ SessionsOK /\ AwayTogether /\ [Next]_vars => AwayTogether'
<1> SUFFICES ASSUME HandlersOK, SessionsOK, AwayTogether, [Next]_vars
             PROVE  AwayTogether'
  OBVIOUS
<1> USE DEF HandlersOK, SessionsOK, AwayTogether, Goto, clientVars, handlerVars
<1>1. ASSUME NEW c \in Conn, HandlerStep(c)
      PROVE  AwayTogether'
  <2>1. CASE LoginStep(c)
    <3>1. /\ pc[c] # "away"
          /\ \A d \in Conn : d # c => pc'[d] = pc[d] /\ client'[d] = client[d]
          /\ client'[c] = client[c] \/ client'[c] \in {"menu", "in"}
      BY <2>1 DEF LoginStep, LoginUnknown, LoginInUse, LoginAccept, LoginInsert,
         LoginSubscribe, LoginUpdate, LoginReadOffline, LoginRemoveOffline,
         LoginRespond
    <3> QED
      BY <3>1
  <2>2. CASE ChatStep(c) \/ CloseStep(c)
    <3>1. /\ pc[c] # "away"
          /\ \A d \in Conn : d # c => pc'[d] = pc[d]
          /\ UNCHANGED client
      BY <2>2 DEF ChatStep, QueryState, Publish, StoreOffline, Routed, GroupLock,
         GroupUnlock, GroupMember, ChatSteps, CloseStep, HandleClose, Ready,
         CloseErase, CloseUnsubscribe, CloseSetOffline
    <3> QED
      BY <3>1
  <2>3. CASE RunFunctor(c)
    BY <2>3 DEF RunFunctor
  <2> QED
    BY <1>1, <2>1, <2>2, <2>3 DEF HandlerStep
<1>2. ASSUME NEW c \in Conn, ClientStep(c)
      PROVE  AwayTogether'
  <2>1. CASE Connect(c) \/ Loginout(c) \/ Quit(c)
    BY <2>1 DEF Connect, Loginout, Quit
  <2>2. ASSUME NEW u, LoginRequest(c, u)
        PROVE  AwayTogether'
    BY <2>2 DEF LoginRequest
  <2>3. ASSUME NEW m, NEW u, OneChat(c, m, u)
        PROVE  AwayTogether'
    <3>1. /\ client[c] = "in" /\ UNCHANGED client
          /\ \A d \in Conn : d # c => pc'[d] = pc[d]
      BY <2>3 DEF OneChat
    <3> QED
      BY <3>1
  <2>4. ASSUME NEW m, NEW g, GroupChat(c, m, g)
        PROVE  AwayTogether'
    BY <2>4 DEF GroupChat
  <2> QED
    BY <1>2, <2>1, <2>2, <2>3, <2>4 DEF ClientStep
<1>3. ASSUME NEW s \in Server, ObserverStep(s) \/ RedisExecute(s) \/ Interrupt(s)
      PROVE  AwayTogether'
  BY <1>3 DEF ObserverStep, Notify, NotifyStore, RedisExecute, Interrupt
<1>4. ASSUME NEW s \in Server, ServerStops(s)
      PROVE  AwayTogether'
  BY <1>4 DEF ServerStops
<1>5. CASE UNCHANGED vars
  BY <1>5 DEF vars
<1> QED
  BY <1>1, <1>2, <1>3, <1>4, <1>5 DEF Next, StopStep, Kill, Exit, AllGone

(* Steps of Next, as far as sessions can tell them apart.                  *)
LEMMA StepKinds ==
    ASSUME HandlersOK, AwayTogether, [Next]_vars, "sigint" \notin Disruptions
    PROVE  \/ QuietStep
           \/ \E c \in Conn :
                \/ \E u \in User \cup {NoUser} : LoginRequest(c, u)
                \/ LoginUnknown(c) \/ LoginInUse(c) \/ LoginRespond(c)
                \/ LoginAccept(c) \/ LoginInsert(c)
                \/ LoginSubscribe(c) \/ LoginReadOffline(c) \/ LoginRemoveOffline(c)
                \/ LoginUpdate(c)
                \/ CloseErase(c) \/ CloseUnsubscribe(c) \/ CloseSetOffline(c)
           \/ \E s \in Server :
                ServerStops(s) /\ ("kill" \in Disruptions \/ exiting[s])
<1>1. ASSUME NEW c \in Conn, ClientStep(c)
      PROVE  QuietStep \/ \E u \in User \cup {NoUser} : LoginRequest(c, u)
  <2>1. Connect(c) => pc[c] \in Quiet
    BY DEF Connect, AwayTogether, Quiet
  <2>2. Accounts[c] \subseteq User \cup {NoUser}
    BY ConstantsAssumption DEF ConstantsAssumption
  <2> QED
    BY <1>1, <2>1, <2>2, QuietActions DEF ClientStep
<1>2. ASSUME NEW s \in Server, ObserverStep(s) \/ RedisExecute(s)
      PROVE  QuietStep
  BY <1>2 DEF ObserverStep, Notify, NotifyStore, RedisExecute, QuietStep,
              handlerVars, sessionVars
<1>3. CASE UNCHANGED vars
  BY <1>3 DEF vars, QuietStep, handlerVars, sessionVars
<1>4. ASSUME NEW c \in Conn, ChatStep(c) \/ HandleClose(c) \/ RunFunctor(c)
      PROVE  QuietStep
  BY <1>4, QuietActions
<1> QED
  BY <1>1, <1>2, <1>3, <1>4
  DEF Next, HandlerStep, LoginStep, CloseStep, StopStep, Kill, Interrupt, Exit,
      AllGone

LEMMA SessionStep ==
    ASSUME HandlersOK, SessionsOK, AwayTogether, SessionInv, [Next]_vars,
           "overlap" \notin Disruptions, "sigint" \notin Disruptions
    PROVE  SessionInv'
  BY ConstantsAssumption, StepKinds, QuietKeeps, RequestKeeps, EndKeeps,
     AcceptKeeps, InsertKeeps, AdvanceKeeps, UpdateKeeps, EraseKeeps,
     UnsubscribeKeeps, SetOfflineKeeps, StopKeeps

(* Where the two races of the login handler itself are left out - attempts *)
(* that overlap, and a SIGINT, whose reset() puts everybody offline - the  *)
(* session invariant holds, whatever else clients and servers do: killed   *)
(* servers and loginout included.                                          *)
THEOREM SessionInvariant ==
    ASSUME "overlap" \notin Disruptions, "sigint" \notin Disruptions
    PROVE  Spec => [](HandlersOK /\ SessionsOK /\ AwayTogether /\ SessionInv)
<1> DEFINE All == HandlersOK /\ SessionsOK /\ AwayTogether
<1>1. Init => All
  BY ConstantsAssumption
  DEF Init, HandlersOK, LocalsSet, SessionsOK, AwayTogether, Nobody, PCs, AtRest,
      ChatSteps, GroupLocked
<1>2. Init => SessionInv
  BY ConstantsAssumption
  DEF Init, SessionInv, OneAttempt, OfflineOwner, InsertedIsMapped, MapAtHome,
      Unmapped, OneOwner, Owns, LoggingIn, Closing, Mapped, Nobody,
      ConstantsAssumption
<1>3. All /\ [Next]_vars => All'
  BY HandlersStep, SessionsStep, AwayStep
<1>4. All /\ SessionInv /\ [Next]_vars => SessionInv'
  BY SessionStep
<1> QED
  BY <1>1, <1>2, <1>3, <1>4, PTL DEF Spec

(* The close handler of an earlier connection never puts a later session   *)
(* of the same account offline.                                            *)
THEOREM LaterSessionNotDisturbed ==
    ASSUME "overlap" \notin Disruptions, "sigint" \notin Disruptions
    PROVE  Spec => SessionNotDisturbed
<1> DEFINE Undisturbed ==
              \A u \in User : state[u] = "online" /\ state'[u] = "offline" =>
                 \A s \in Server : userConnMap'[s][u] = NoConn
<1>1. ASSUME HandlersOK, SessionsOK, AwayTogether, SessionInv, [Next]_vars
      PROVE  Undisturbed
  <2> SUFFICES ASSUME NEW u \in User, state[u] = "online", state'[u] = "offline"
               PROVE  \A s \in Server : userConnMap'[s][u] = NoConn
    OBVIOUS
  <2>1. PICK c \in Conn : CloseSetOffline(c)
    BY <1>1, StepKinds
    DEF QuietStep, LoginRequest, LoginUnknown, LoginInUse, LoginRespond,
        LoginAccept, LoginInsert, LoginSubscribe, LoginReadOffline,
        LoginRemoveOffline, LoginUpdate, CloseErase, CloseUnsubscribe,
        ServerStops, sessionVars, SessionsOK
  <2>2. uid[c] = u /\ pc[c] = "setOffline" /\ UNCHANGED userConnMap
    BY <1>1, <2>1 DEF CloseSetOffline, SessionsOK
  <2>3. Owns(c, u) /\ ~Mapped(u, c)
    BY <1>1, <2>2 DEF Owns, Closing, SessionInv, Unmapped
  <2>4. ASSUME NEW s \in Server, userConnMap[s][u] # NoConn
        PROVE  FALSE
    <3>1. userConnMap[s][u] \in Conn /\ Mapped(u, userConnMap[s][u])
      BY <1>1, <2>4 DEF SessionsOK, SessionInv, MapAtHome, Mapped
    <3> QED
      BY <1>1, <2>3, <3>1 DEF SessionInv, OneOwner, Owns
  <2> QED
    BY <2>2, <2>4
<1>2. HandlersOK /\ SessionsOK /\ AwayTogether /\ SessionInv /\ [Next]_vars
         => [Undisturbed]_vars
  BY <1>1
<1> QED
  BY <1>2, SessionInvariant, PTL DEF Spec, SessionNotDisturbed

-----------------------------------------------------------------------------
(* Without stops: an owner stays the owner until it has put the account    *)
(* offline, and only an owner puts an account online.                      *)
OwnersStay ==
    \A c \in Conn, u \in User :
       Owns(c, u) => Owns(c, u)' \/ state'[u] = "offline"

OnlyOwnersPutOnline ==
    \A u \in User : state'[u] = "online" =>
       state[u] = "online" \/ \E c \in Conn : Owns(c, u)

LEMMA OwnersStep ==
    ASSUME HandlersOK, SessionsOK, AwayTogether, SessionInv, [Next]_vars,
           Disruptions \subseteq {"loginout"},
           \A s \in Server : exiting[s] = FALSE
    PROVE  OwnersStay /\ OnlyOwnersPutOnline
<1> USE DEF OwnersStay, OnlyOwnersPutOnline, HandlersOK, SessionsOK, Goto,
            LoggingIn, Closing, Mapped, sessionVars
<1>1. CASE QuietStep
  BY <1>1 DEF QuietStep, Quiet, Owns
<1>2. ASSUME NEW c \in Conn,
             \/ \E u \in User \cup {NoUser} : LoginRequest(c, u)
             \/ LoginUnknown(c) \/ LoginAccept(c)
             \/ LoginSubscribe(c) \/ LoginReadOffline(c) \/ LoginRemoveOffline(c)
             \/ CloseUnsubscribe(c)
      PROVE  OwnersStay /\ OnlyOwnersPutOnline
  <2>1. /\ UNCHANGED <<userConnMap, state>>
        /\ \A d \in Conn : d # c => pc'[d] = pc[d] /\ uid'[d] = uid[d]
    BY <1>2 DEF LoginRequest, LoginUnknown, LoginAccept, LoginSubscribe,
       LoginReadOffline, LoginRemoveOffline, CloseUnsubscribe
  <2>2. \A u \in User : LoggingIn(c, u) \/ Closing(c, u)
                           => LoggingIn(c, u)' \/ Closing(c, u)'
    BY <1>2, ConstantsAssumption
    DEF LoginRequest, Ready, LoginUnknown, LoginAccept, LoginSubscribe,
        LoginReadOffline, LoginRemoveOffline, CloseUnsubscribe,
        ConstantsAssumption
  <2> QED
    BY <2>1, <2>2 DEF Owns
<1>3. ASSUME NEW c \in Conn, LoginInUse(c) \/ LoginRespond(c)
      PROVE  OwnersStay /\ OnlyOwnersPutOnline
  <2>1. /\ pc[c] \in {"login", "respond"}
        /\ \A d \in Conn : d # c => pc'[d] = pc[d] /\ uid'[d] = uid[d]
        /\ UNCHANGED <<userConnMap, state>>
    BY <1>3 DEF LoginInUse, LoginRespond
  <2> QED
    BY <2>1 DEF Owns, SessionInv, InsertedIsMapped
<1>4. ASSUME NEW c \in Conn, LoginInsert(c)
      PROVE  OwnersStay /\ OnlyOwnersPutOnline
  <2>1. /\ uid[c] \in User /\ ServerOf[c] \in Server
        /\ userConnMap' = [userConnMap EXCEPT ![ServerOf[c]][uid[c]] = c]
        /\ pc[c] = "insert" /\ Goto(c, "subscribe") /\ UNCHANGED <<uid, state>>
    BY <1>4, InsertMaps, ConstantsAssumption DEF LoginInsert
  <2>2. \A s \in Server, v \in User : userConnMap'[s][v] =
           IF s = ServerOf[c] /\ v = uid[c] THEN c ELSE userConnMap[s][v]
    BY <2>1
  <2>3. Owns(c, uid[c])
    BY <2>1 DEF Owns
  <2>4. \A d \in Conn : Owns(d, uid[c]) => d = c
    BY <2>1, <2>3 DEF SessionInv, OneOwner
  <2>5. \A d \in Conn : ServerOf[d] \in Server
    BY ConstantsAssumption DEF ConstantsAssumption
  <2> QED
    BY <2>1, <2>2, <2>4, <2>5 DEF Owns
<1>5. ASSUME NEW c \in Conn, LoginUpdate(c)
      PROVE  OwnersStay /\ OnlyOwnersPutOnline
  BY <1>5 DEF LoginUpdate, Owns, LocalsSet
<1>6. ASSUME NEW c \in Conn, CloseErase(c)
      PROVE  OwnersStay /\ OnlyOwnersPutOnline
  <2>1. /\ pc[c] = "erase" /\ Goto(c, "unsubscribe") /\ UNCHANGED state
        /\ \A d \in Conn : ServerOf[d] \in Server
    BY <1>6, ConstantsAssumption DEF CloseErase, ConstantsAssumption
  <2>2. CASE uid' = [uid EXCEPT ![c] = NoUser] /\ UNCHANGED userConnMap
    BY <2>1, <2>2 DEF Owns
  <2>3. ASSUME NEW u \in User, Mapped(u, c),
               userConnMap' = [userConnMap EXCEPT ![ServerOf[c]][u] = NoConn],
               uid' = [uid EXCEPT ![c] = u]
        PROVE  OwnersStay /\ OnlyOwnersPutOnline
    <3>1. \A s \in Server, v \in User : userConnMap'[s][v] =
             IF s = ServerOf[c] /\ v = u THEN NoConn ELSE userConnMap[s][v]
      BY <2>3
    <3>2. \A d \in Conn, v \in User : Mapped(v, d) => Mapped(v, d)' \/ (v = u /\ d = c)
      BY <2>1, <2>3, <3>1
    <3> QED
      BY <2>1, <2>3, <3>2 DEF Owns
  <2> QED
    BY <1>6, <2>2, <2>3 DEF CloseErase
<1>7. ASSUME NEW c \in Conn, CloseSetOffline(c)
      PROVE  OwnersStay /\ OnlyOwnersPutOnline
  BY <1>7 DEF CloseSetOffline, Owns, LocalsSet
<1> QED
  BY <1>1, <1>2, <1>3, <1>4, <1>5, <1>6, <1>7, StepKinds

(* No server process is interrupted.                                       *)
LEMMA NobodyExits ==
    ASSUME "sigint" \notin Disruptions
    PROVE  Spec => [](\A s \in Server : exiting[s] = FALSE)
<1> DEFINE Running == exiting \in [Server -> {FALSE}]
<1>1. Init => Running
  BY DEF Init
<1>2. Running /\ [Next]_vars => Running'
  <2> SUFFICES ASSUME Running, [Next]_vars PROVE Running'
    OBVIOUS
  <2>1. ASSUME NEW c \in Conn, ClientStep(c)
        PROVE  UNCHANGED exiting
    BY <2>1 DEF ClientStep, Connect, Loginout, Quit, LoginRequest, OneChat,
                GroupChat, stopVars
  <2>2. ASSUME NEW c \in Conn, HandlerStep(c)
        PROVE  UNCHANGED exiting
    BY <2>2 DEF HandlerStep, RunFunctor, LoginStep, LoginUnknown, LoginInUse,
       LoginAccept, LoginInsert, LoginSubscribe, LoginUpdate, LoginReadOffline,
       LoginRemoveOffline, LoginRespond, ChatStep, QueryState, Publish,
       StoreOffline, Routed, GroupLock, GroupUnlock, GroupMember, CloseStep,
       HandleClose, CloseErase, CloseUnsubscribe, CloseSetOffline, stopVars
  <2>3. ASSUME NEW s \in Server,
               ObserverStep(s) \/ RedisExecute(s) \/ ServerStops(s)
        PROVE  Running'
    BY <2>3 DEF ObserverStep, Notify, NotifyStore, RedisExecute, ServerStops,
                stopVars
  <2>4. CASE UNCHANGED vars
    BY <2>4 DEF vars, stopVars
  <2> QED
    BY <2>1, <2>2, <2>3, <2>4 DEF Next, StopStep, Kill, Interrupt, Exit, AllGone
<1>3. Running => \A s \in Server : exiting[s] = FALSE
  OBVIOUS
<1> QED
  BY <1>1, <1>2, <1>3, PTL DEF Spec

(* An account that is online has an owner, as long as no server process    *)
(* stops; with loginout it may be one that has nothing left to do.         *)
OnlineHasOwner ==
    \A u \in User : state[u] = "online" => \E c \in Conn : Owns(c, u)

LEMMA OwnerInvariant ==
    ASSUME Disruptions \subseteq {"loginout"}
    PROVE  Spec => []OnlineHasOwner
<1>1. Init => OnlineHasOwner
  BY DEF Init, OnlineHasOwner
<1>2. /\ HandlersOK /\ SessionsOK /\ AwayTogether /\ SessionInv
      /\ \A s \in Server : exiting[s] = FALSE
      /\ OnlineHasOwner /\ [Next]_vars
      => OnlineHasOwner'
  BY OwnersStep DEF OwnersStay, OnlyOwnersPutOnline, OnlineHasOwner
<1>3. "overlap" \notin Disruptions /\ "sigint" \notin Disruptions
  OBVIOUS
<1> QED
  BY <1>1, <1>2, <1>3, SessionInvariant, NobodyExits, PTL DEF Spec

-----------------------------------------------------------------------------
(* Whose messages a client prints.                                         *)

(* A loop runs one handler at a time.                                      *)
OneHandler ==
    \A c, d \in Conn :
       LoopOf[c] = LoopOf[d] /\ pc[c] \notin AtRest /\ pc[d] \notin AtRest
          => c = d

LEMMA OneHandlerStep ==
    ASSUME HandlersOK, OneHandler, [Next]_vars
    PROVE  OneHandler'
<1> USE DEF HandlersOK, Goto, AtRest, PCs, ChatSteps, GroupLocked
<1> DEFINE GoesOn == \A d \in Conn : pc'[d] \notin AtRest => pc[d] \notin AtRest
           Begins(c) == LoopIdle(c) /\ \A d \in Conn : d # c => pc'[d] = pc[d]
<1>1. GoesOn => OneHandler'
  BY DEF OneHandler
<1>2. ASSUME NEW c \in Conn, Begins(c)
      PROVE  OneHandler'
  BY <1>2 DEF OneHandler, LoopIdle
<1>3. ASSUME NEW c \in Conn, LoginStep(c)
      PROVE  GoesOn
  BY <1>3 DEF LoginStep, LoginUnknown, LoginInUse, LoginAccept, LoginInsert,
     LoginSubscribe, LoginUpdate, LoginReadOffline, LoginRemoveOffline,
     LoginRespond
<1>4. ASSUME NEW c \in Conn, ChatStep(c)
      PROVE  GoesOn
  <2>1. pc[c] \notin AtRest /\ \A d \in Conn : d # c => pc'[d] = pc[d]
    BY <1>4 DEF ChatStep, QueryState, Publish, StoreOffline, Routed, GroupLock,
                GroupUnlock, GroupMember
  <2> QED
    BY <2>1
<1>5. ASSUME NEW c \in Conn, CloseStep(c) \/ RunFunctor(c)
      PROVE  GoesOn \/ Begins(c)
  BY <1>5 DEF CloseStep, HandleClose, Ready, CloseErase, CloseUnsubscribe,
              CloseSetOffline, RunFunctor, handlerVars
<1>6. ASSUME NEW c \in Conn, ClientStep(c)
      PROVE  GoesOn \/ Begins(c)
  <2>1. ASSUME NEW m, NEW u, OneChat(c, m, u)
        PROVE  Begins(c)
    BY <2>1 DEF OneChat, Ready
  <2>2. CASE Connect(c) \/ Loginout(c) \/ Quit(c)
    BY <2>2 DEF Connect, Loginout, Quit, handlerVars
  <2> QED
    BY <1>6, <2>1, <2>2 DEF ClientStep, LoginRequest, GroupChat, Ready
<1>7. ASSUME NEW s \in Server, ObserverStep(s) \/ RedisExecute(s) \/ Interrupt(s)
      PROVE  GoesOn
  BY <1>7 DEF ObserverStep, Notify, NotifyStore, RedisExecute, Interrupt,
              handlerVars
<1>8. ASSUME NEW s \in Server, ServerStops(s)
      PROVE  GoesOn
  BY <1>8 DEF ServerStops
<1>9. UNCHANGED vars => GoesOn
  BY DEF vars, handlerVars
<1>10. ASSUME NEW c \in Conn, ClientStep(c) \/ HandlerStep(c)
       PROVE  GoesOn \/ Begins(c)
  BY <1>3, <1>4, <1>5, <1>6, <1>10, Zenon DEF HandlerStep
<1>11. ASSUME NEW s \in Server, ObserverStep(s) \/ RedisExecute(s) \/ StopStep(s)
       PROVE  GoesOn
  BY <1>7, <1>8, <1>11, Zenon DEF StopStep, Kill, Exit
<1> QED
  BY <1>1, <1>2, <1>9, <1>10, <1>11, Zenon
  DEF Next, HandlerStep, StopStep, Kill, Exit, AllGone

(* Only the home server of a connection lists it, under every disruption.  *)
LEMMA MapAtHomeStep ==
    ASSUME HandlersOK, SessionsOK, MapAtHome, [Next]_vars
    PROVE  MapAtHome'
<1> USE DEF SessionsOK, MapAtHome
<1>1. ASSUME NEW c \in Conn, LoginInsert(c)
      PROVE  MapAtHome'
  <2>1. uid[c] \in User /\ ServerOf[c] \in Server
    BY <1>1, ConstantsAssumption
    DEF LoginInsert, HandlersOK, LocalsSet, ConstantsAssumption
  <2> DEFINE old == userConnMap[ServerOf[c]][uid[c]]
             new == IF old = NoConn THEN c ELSE old
  <2>2. userConnMap' = [userConnMap EXCEPT ![ServerOf[c]][uid[c]] = new]
    BY <1>1 DEF LoginInsert
  <2>3. new # NoConn => ServerOf[new] = ServerOf[c]
    BY <2>1
  <2> HIDE DEF new
  <2> QED
    BY <2>1, <2>2, <2>3
<1>2. ASSUME NEW c \in Conn, CloseErase(c)
      PROVE  MapAtHome'
  <2>1. CASE UNCHANGED userConnMap
    BY <2>1
  <2>2. ASSUME NEW u \in User,
               userConnMap' = [userConnMap EXCEPT ![ServerOf[c]][u] = NoConn]
        PROVE  MapAtHome'
    BY <2>2
  <2> QED
    BY <1>2, <2>1, <2>2 DEF CloseErase
<1>3. ASSUME NEW c \in Conn, LoginStep(c), ~LoginInsert(c)
      PROVE  UNCHANGED userConnMap
  BY <1>3 DEF LoginStep, LoginUnknown, LoginInUse, LoginAccept, LoginSubscribe,
     LoginUpdate, LoginReadOffline, LoginRemoveOffline, LoginRespond, sessionVars
<1>4. ASSUME NEW c \in Conn, ChatStep(c) \/ RunFunctor(c)
      PROVE  UNCHANGED userConnMap
  BY <1>4 DEF ChatStep, QueryState, Publish, StoreOffline, Routed, GroupLock,
              GroupUnlock, GroupMember, RunFunctor, sessionVars
<1>5. ASSUME NEW c \in Conn, CloseStep(c), ~CloseErase(c)
      PROVE  UNCHANGED userConnMap
  BY <1>5 DEF CloseStep, HandleClose, CloseUnsubscribe, CloseSetOffline,
              sessionVars
<1>6. ASSUME NEW c \in Conn, ClientStep(c)
      PROVE  UNCHANGED userConnMap
  BY <1>6 DEF ClientStep, Connect, Loginout, Quit, LoginRequest, OneChat,
              GroupChat, sessionVars
<1>7. ASSUME NEW s \in Server, ObserverStep(s) \/ RedisExecute(s) \/ Interrupt(s)
      PROVE  UNCHANGED userConnMap
  BY <1>7 DEF ObserverStep, Notify, NotifyStore, RedisExecute, Interrupt,
              sessionVars
<1>8. ASSUME NEW s \in Server, ServerStops(s)
      PROVE  MapAtHome'
  BY <1>8 DEF ServerStops, Nobody
<1>9. CASE UNCHANGED vars
  BY <1>9 DEF vars, sessionVars
<1>10. UNCHANGED userConnMap => MapAtHome'
  OBVIOUS
<1> QED
  BY <1>1, <1>2, <1>3, <1>4, <1>5, <1>6, <1>7, <1>8, <1>9, <1>10
  DEF Next, HandlerStep, LoginStep, CloseStep, StopStep, Kill, Exit, AllGone

(* The client's part of a session.  Without loginout it logs in once: it   *)
(* waits while the handler of its login runs, and stays in mainMenu until  *)
(* it leaves.                                                              *)
WaitsForLogin ==
    \A c \in Conn : pc[c] \in LoginSteps => client[c] \in {"wait", "gone"}

Screen(c, u) ==
    \/ client[c] = "gone"
    \/ client[c] = "in" /\ currentUser[c] = u
    \/ client[c] = "wait" /\ uid[c] = u /\ pc[c] \in LoginSteps \ {"login", "insert"}

(* Whoever is listed with a connection, or has a message queued on it.     *)
Reaches(u, c) ==
    Mapped(u, c) \/ \E i \in DOMAIN pending[c] : pending[c][i][1] = u

(* A connection is listed for one user at most, and not at all before the  *)
(* insert and after the erase.                                             *)
EntriesInv ==
    /\ \A c \in Conn, u, v \in User : Mapped(u, c) /\ Mapped(v, c) => u = v
    /\ \A c \in Conn, u \in User :
          \/ pc[c] \in {"away", "login", "insert", "unsubscribe", "setOffline",
                        "closed"}
          \/ client[c] \in {"away", "menu"}
          => ~Mapped(u, c)

ScreenInv == \A c \in Conn, u \in User : Reaches(u, c) => Screen(c, u)

LEMMA WaitsStep ==
    ASSUME HandlersOK, SessionsOK, AwayTogether, WaitsForLogin, [Next]_vars,
           "loginout" \notin Disruptions
    PROVE  WaitsForLogin'
<1> USE DEF HandlersOK, SessionsOK, WaitsForLogin, Goto, clientVars, handlerVars
<1>1. ASSUME NEW c \in Conn, HandlerStep(c)
      PROVE  WaitsForLogin'
  <2>1. CASE LoginStep(c)
    BY <2>1 DEF LoginStep, LoginUnknown, LoginInUse, LoginAccept, LoginInsert,
       LoginSubscribe, LoginUpdate, LoginReadOffline, LoginRemoveOffline,
       LoginRespond
  <2>2. CASE ChatStep(c) \/ CloseStep(c) \/ RunFunctor(c)
    <3>1. /\ pc'[c] = pc[c] \/ pc'[c] \notin LoginSteps
          /\ \A d \in Conn : d # c => pc'[d] = pc[d]
          /\ UNCHANGED client
      BY <2>2 DEF ChatStep, QueryState, Publish, StoreOffline, Routed, GroupLock,
         GroupUnlock, GroupMember, CloseStep, HandleClose, CloseErase,
         CloseUnsubscribe, CloseSetOffline, RunFunctor
    <3> QED
      BY <3>1
  <2> QED
    BY <1>1, <2>1, <2>2 DEF HandlerStep
<1>2. ASSUME NEW c \in Conn, ClientStep(c)
      PROVE  WaitsForLogin'
  <2>1. CASE Connect(c) \/ Quit(c)
    BY <2>1 DEF Connect, Quit
  <2>2. ASSUME NEW u, LoginRequest(c, u)
        PROVE  WaitsForLogin'
    BY <2>2 DEF LoginRequest
  <2>3. ASSUME NEW m, NEW u, OneChat(c, m, u)
        PROVE  WaitsForLogin'
    <3>1. /\ pc'[c] = pc[c] \/ pc'[c] = "query"
          /\ UNCHANGED client /\ \A d \in Conn : d # c => pc'[d] = pc[d]
      BY <2>3 DEF OneChat
    <3> QED
      BY <3>1
  <2>4. ASSUME NEW m, NEW g, GroupChat(c, m, g)
        PROVE  WaitsForLogin'
    BY <2>4 DEF GroupChat
  <2> QED
    BY <1>2, <2>1, <2>2, <2>3, <2>4 DEF ClientStep, Loginout
<1>3. ASSUME NEW s \in Server, ObserverStep(s) \/ RedisExecute(s) \/ Interrupt(s)
      PROVE  WaitsForLogin'
  BY <1>3 DEF ObserverStep, Notify, NotifyStore, RedisExecute, Interrupt
<1>4. ASSUME NEW s \in Server, ServerStops(s)
      PROVE  WaitsForLogin'
  BY <1>4 DEF ServerStops
<1>5. CASE UNCHANGED vars
  BY <1>5 DEF vars
<1> QED
  BY <1>1, <1>2, <1>3, <1>4, <1>5 DEF Next, StopStep, Kill, Exit, AllGone

LEMMA EntriesStep ==
    ASSUME HandlersOK, SessionsOK, AwayTogether, WaitsForLogin, EntriesInv,
           [Next]_vars, "loginout" \notin Disruptions
    PROVE  EntriesInv'
<1> USE DEF HandlersOK, SessionsOK, Goto
<1> DEFINE Same == UNCHANGED userConnMap
           Bare == {"away", "login", "insert", "unsubscribe", "setOffline",
                    "closed"}
           NoNewBare == \A c \in Conn :
              /\ pc'[c] \in Bare => pc[c] \in Bare \/ client[c] \in {"away", "menu"}
              /\ client'[c] \in {"away", "menu"} =>
                    client[c] \in {"away", "menu"} \/ pc[c] \in Bare
<1>1. Same /\ NoNewBare => EntriesInv'
  <2> SUFFICES ASSUME Same, NoNewBare PROVE EntriesInv'
    OBVIOUS
  <2>1. \A c \in Conn, u \in User : Mapped(u, c)' <=> Mapped(u, c)
    BY DEF Mapped
  <2> QED
    BY <2>1 DEF EntriesInv
<1>2. ASSUME NEW c \in Conn, LoginStep(c), ~LoginInsert(c)
      PROVE  Same /\ NoNewBare
  <2>1. CASE LoginUnknown(c) \/ LoginInUse(c) \/ LoginAccept(c)
    BY <2>1 DEF LoginUnknown, LoginInUse, LoginAccept, clientVars, sessionVars
  <2>2. CASE LoginSubscribe(c) \/ LoginUpdate(c) \/ LoginReadOffline(c)
             \/ LoginRemoveOffline(c) \/ LoginRespond(c)
    BY <2>2 DEF LoginSubscribe, LoginUpdate, LoginReadOffline,
       LoginRemoveOffline, LoginRespond, clientVars, sessionVars
  <2> QED
    BY <1>2, <2>1, <2>2 DEF LoginStep
<1>3. ASSUME NEW c \in Conn, LoginInsert(c)
      PROVE  EntriesInv'
  <2>1. /\ pc[c] = "insert" /\ Goto(c, "subscribe")
        /\ UNCHANGED <<client, uid>>
        /\ uid[c] \in User /\ ServerOf[c] \in Server
        /\ \A d \in Conn : ServerOf[d] \in Server
        /\ client[c] \in {"wait", "gone"}
    BY <1>3, ConstantsAssumption
    DEF LoginInsert, LocalsSet, ConstantsAssumption, clientVars, WaitsForLogin
  <2> DEFINE old == userConnMap[ServerOf[c]][uid[c]]
             new == IF old = NoConn THEN c ELSE old
  <2>2. userConnMap' = [userConnMap EXCEPT ![ServerOf[c]][uid[c]] = new]
    BY <1>3 DEF LoginInsert
  <2>3. \A s \in Server, v \in User : userConnMap'[s][v] =
           IF s = ServerOf[c] /\ v = uid[c] THEN new ELSE userConnMap[s][v]
    BY <2>1, <2>2
  <2>4. \A d \in Conn, v \in User :
           Mapped(v, d)' => Mapped(v, d) \/ (d = c /\ v = uid[c])
    BY <2>1, <2>3 DEF Mapped
  <2>5. \A v \in User : ~Mapped(v, c)
    BY <2>1 DEF EntriesInv
  <2> HIDE DEF new
  <2> QED
    BY <2>1, <2>4, <2>5 DEF EntriesInv
<1>4. ASSUME NEW c \in Conn, ChatStep(c) \/ RunFunctor(c)
      PROVE  Same /\ NoNewBare
  <2>1. /\ pc'[c] = pc[c] \/ pc'[c] \notin Bare
        /\ \A d \in Conn : d # c => pc'[d] = pc[d]
        /\ UNCHANGED <<client, userConnMap>>
    BY <1>4 DEF ChatStep, QueryState, Publish, StoreOffline, Routed, GroupLock,
       GroupUnlock, GroupMember, RunFunctor, clientVars, handlerVars, sessionVars
  <2> QED
    BY <2>1
<1>5. ASSUME NEW c \in Conn, CloseStep(c), ~CloseErase(c)
      PROVE  Same /\ NoNewBare
  BY <1>5 DEF CloseStep, HandleClose, CloseUnsubscribe, CloseSetOffline,
              clientVars, sessionVars
<1>6. ASSUME NEW c \in Conn, CloseErase(c)
      PROVE  EntriesInv'
  <2>1. /\ pc[c] = "erase" /\ Goto(c, "unsubscribe") /\ UNCHANGED client
        /\ \A d \in Conn : ServerOf[d] \in Server
        /\ client[c] \notin {"away"}
    BY <1>6, ConstantsAssumption
    DEF CloseErase, ConstantsAssumption, clientVars, AwayTogether
  <2>2. NoConn \notin Conn
    BY ConstantsAssumption DEF ConstantsAssumption
  <2>3. CASE (\A u \in User : ~Mapped(u, c)) /\ UNCHANGED userConnMap
    <3>1. \A d \in Conn, v \in User : Mapped(v, d)' <=> Mapped(v, d)
      BY <2>3 DEF Mapped
    <3> QED
      BY <2>1, <2>3, <3>1 DEF EntriesInv
  <2>4. ASSUME NEW u \in User, Mapped(u, c),
               userConnMap' = [userConnMap EXCEPT ![ServerOf[c]][u] = NoConn]
        PROVE  EntriesInv'
    <3>1. \A s \in Server, v \in User : userConnMap'[s][v] =
             IF s = ServerOf[c] /\ v = u THEN NoConn ELSE userConnMap[s][v]
      BY <2>4
    <3>2. /\ \A d \in Conn, v \in User : Mapped(v, d)' => Mapped(v, d)
          /\ \A v \in User : Mapped(v, c)' => v # u
      BY <2>1, <2>2, <3>1 DEF Mapped
    <3>3. \A v \in User : ~Mapped(v, c)'
      BY <2>4, <3>2 DEF EntriesInv
    <3> QED
      BY <2>1, <3>2, <3>3 DEF EntriesInv
  <2>5. \/ (\A u \in User : ~Mapped(u, c)) /\ UNCHANGED userConnMap
        \/ \E u \in User : Mapped(u, c) /\
              userConnMap' = [userConnMap EXCEPT ![ServerOf[c]][u] = NoConn]
    BY <1>6 DEF CloseErase
  <2> QED
    BY <2>3, <2>4, <2>5
<1>7. ASSUME NEW c \in Conn, ClientStep(c)
      PROVE  Same /\ NoNewBare
  <2>1. CASE Connect(c) \/ Quit(c)
    BY <2>1 DEF Connect, Quit, clientVars, handlerVars, sessionVars
  <2>2. ASSUME NEW u, LoginRequest(c, u)
        PROVE  Same /\ NoNewBare
    BY <2>2 DEF LoginRequest, clientVars, sessionVars
  <2>3. ASSUME NEW m, NEW u, OneChat(c, m, u)
        PROVE  Same /\ NoNewBare
    <3>1. /\ pc'[c] = pc[c] \/ pc'[c] = "query"
          /\ \A d \in Conn : d # c => pc'[d] = pc[d]
          /\ UNCHANGED <<client, userConnMap>>
      BY <2>3 DEF OneChat, clientVars, sessionVars
    <3> QED
      BY <3>1
  <2>4. ASSUME NEW m, NEW g, GroupChat(c, m, g)
        PROVE  Same /\ NoNewBare
    BY <2>4 DEF GroupChat, clientVars, sessionVars
  <2> QED
    BY <1>7, <2>1, <2>2, <2>3, <2>4 DEF ClientStep, Loginout
<1>8. ASSUME NEW s \in Server, ObserverStep(s) \/ RedisExecute(s) \/ Interrupt(s)
      PROVE  Same /\ NoNewBare
  BY <1>8 DEF ObserverStep, Notify, NotifyStore, RedisExecute, Interrupt,
              clientVars, handlerVars, sessionVars
<1>9. ASSUME NEW s \in Server, ServerStops(s)
      PROVE  EntriesInv'
  <2>1. /\ userConnMap' = [userConnMap EXCEPT ![s] = Nobody]
        /\ \A d \in Conn : ServerOf[d] \in Server
        /\ NoConn \notin Conn
    BY <1>9, ConstantsAssumption DEF ServerStops, ConstantsAssumption
  <2>2. \A d \in Conn, v \in User :
           Mapped(v, d)' <=> Mapped(v, d) /\ ServerOf[d] # s
    BY <2>1 DEF Mapped, Nobody
  <2>3. \A d \in Conn : ServerOf[d] # s =>
           pc'[d] = pc[d] /\ client'[d] = client[d]
    BY <1>9 DEF ServerStops
  <2> QED
    BY <2>2, <2>3 DEF EntriesInv
<1>10. UNCHANGED vars => Same /\ NoNewBare
  BY DEF vars, clientVars, handlerVars, sessionVars
<1> HIDE DEF Same, NoNewBare, HandlersOK, SessionsOK, Goto
<1>11. ASSUME NEW c \in Conn, HandlerStep(c)
       PROVE  EntriesInv'
  BY <1>1, <1>2, <1>3, <1>4, <1>5, <1>6, <1>11 DEF HandlerStep
<1> QED
  BY <1>1, <1>7, <1>8, <1>9, <1>10, <1>11
  DEF Next, StopStep, Kill, Exit, AllGone

(* A message is queued for a user who is listed.                           *)
LEMMA QueuedForListed ==
    ASSUME MailOK, NEW d \in Conn, NEW u \in User, NEW m \in Msg, Mapped(u, d),
           \/ UNCHANGED pending
           \/ pending' = [pending EXCEPT ![d] = Append(@, <<u, m>>)],
           UNCHANGED userConnMap
    PROVE  \A c \in Conn, v \in User : Reaches(v, c)' => Reaches(v, c)
<1> SUFFICES ASSUME NEW c \in Conn, NEW v \in User, Reaches(v, c)'
             PROVE  Reaches(v, c)
  OBVIOUS
<1>1. Mapped(v, c)' <=> Mapped(v, c)
  BY DEF Mapped
<1>2. CASE UNCHANGED pending
  BY <1>1, <1>2 DEF Reaches
<1>3. CASE pending' = [pending EXCEPT ![d] = Append(@, <<u, m>>)]
  <2>1. CASE c # d
    BY <1>1, <1>3, <2>1 DEF Reaches, MailOK
  <2>2. CASE c = d
    <3>1. pending[d] \in Seq(Envelope) /\ <<u, m>> \in Envelope
      BY DEF MailOK, Envelope
    <3>2. pending'[d] = Append(pending[d], <<u, m>>)
      BY <1>3 DEF MailOK
    <3>3. \A i \in DOMAIN pending'[d] :
             pending'[d][i] = <<u, m>> \/ (i \in DOMAIN pending[d]
                                          /\ pending'[d][i] = pending[d][i])
      BY <3>1, <3>2, AppendProperties
    <3> QED
      BY <1>1, <2>2, <3>3 DEF Reaches
  <2> QED
    BY <2>1, <2>2
<1> QED
  BY <1>2, <1>3

LEMMA FewerQueued ==
    ASSUME MailOK, NEW d \in Conn, UNCHANGED userConnMap,
           \/ pending' = [pending EXCEPT ![d] = <<>>]
           \/ pending[d] # <<>> /\ pending' = [pending EXCEPT ![d] = Tail(@)]
    PROVE  \A c \in Conn, v \in User : Reaches(v, c)' => Reaches(v, c)
<1> SUFFICES ASSUME NEW c \in Conn, NEW v \in User, Reaches(v, c)'
             PROVE  Reaches(v, c)
  OBVIOUS
<1>1. Mapped(v, c)' <=> Mapped(v, c)
  BY DEF Mapped
<1>2. CASE c # d
  BY <1>1, <1>2 DEF Reaches, MailOK
<1>3. CASE c = d
  <2>1. pending[d] \in Seq(Envelope)
    BY DEF MailOK
  <2>2. pending'[d] = <<>> \/ (pending[d] # <<>> /\ pending'[d] = Tail(pending[d]))
    BY DEF MailOK
  <2>3. \A i \in DOMAIN pending'[d] :
           \E j \in DOMAIN pending[d] : pending'[d][i] = pending[d][j]
    <3>1. CASE pending'[d] = <<>>
      BY <3>1
    <3>2. CASE pending[d] # <<>> /\ pending'[d] = Tail(pending[d])
      <4>1. \A i \in DOMAIN pending'[d] :
               i + 1 \in DOMAIN pending[d] /\ pending'[d][i] = pending[d][i + 1]
        BY <2>1, <3>2
      <4> QED
        BY <4>1
    <3> QED
      BY <2>2, <3>1, <3>2
  <2> QED
    BY <1>1, <1>3, <2>3 DEF Reaches
<1> QED
  BY <1>2, <1>3

(* Whom a send finds in the map of the sender's server.                    *)
LEMMA ListedAtHome ==
    ASSUME SessionsOK, MapAtHome, NEW s \in Server, NEW u \in User,
           userConnMap[s][u] # NoConn
    PROVE  userConnMap[s][u] \in Conn /\ Mapped(u, userConnMap[s][u])
BY DEF SessionsOK, MapAtHome, Mapped

LEMMA SendReaches ==
    ASSUME SessionsOK, MailOK, MapAtHome, NEW c \in Conn, NEW u \in User,
           NEW m \in Msg, NEW onLoop, userConnMap[ServerOf[c]][u] # NoConn,
           Send(userConnMap[ServerOf[c]][u], u, m, onLoop),
           UNCHANGED userConnMap
    PROVE  \A d \in Conn, v \in User : Reaches(v, d)' => Reaches(v, d)
<1> DEFINE d == userConnMap[ServerOf[c]][u]
<1>1. d \in Conn /\ Mapped(u, d)
  BY ListedAtHome, ConstantsAssumption DEF ConstantsAssumption
<1>2. UNCHANGED pending \/ pending' = [pending EXCEPT ![d] = Append(@, <<u, m>>)]
  BY DEF Send, Display
<1> HIDE DEF d
<1> QED
  BY <1>1, <1>2, QueuedForListed

LEMMA ScreenStep ==
    ASSUME HandlersOK, SessionsOK, MailOK, AwayTogether, MapAtHome,
           WaitsForLogin, ScreenInv, [Next]_vars, "loginout" \notin Disruptions
    PROVE  ScreenInv'
<1> USE DEF HandlersOK, SessionsOK, Goto
<1> DEFINE NoneReached == \A d \in Conn, v \in User : Reaches(v, d)' => Reaches(v, d)
           Kept == \A d \in Conn, v \in User :
                      Reaches(v, d) /\ Screen(d, v) => Screen(d, v)'
<1>1. NoneReached /\ Kept => ScreenInv'
  BY DEF ScreenInv
<1>2. UNCHANGED <<userConnMap, pending>> => NoneReached
  BY DEF Reaches, Mapped
<1>3. ASSUME NEW c \in Conn, LoginStep(c), ~LoginInsert(c)
      PROVE  NoneReached /\ Kept
  <2>1. UNCHANGED <<userConnMap, pending>>
    BY <1>3 DEF LoginStep, LoginUnknown, LoginInUse, LoginAccept, LoginSubscribe,
       LoginUpdate, LoginReadOffline, LoginRemoveOffline, LoginRespond,
       sessionVars, mailVars
  <2>2. CASE LoginUnknown(c) \/ LoginInUse(c) \/ LoginAccept(c)
    BY <1>2, <2>1, <2>2
    DEF LoginUnknown, LoginInUse, LoginAccept, clientVars, Screen
  <2>3. CASE LoginSubscribe(c) \/ LoginUpdate(c) \/ LoginReadOffline(c)
             \/ LoginRemoveOffline(c)
    BY <1>2, <2>1, <2>3 DEF LoginSubscribe, LoginUpdate, LoginReadOffline,
       LoginRemoveOffline, clientVars, Screen
  <2>4. CASE LoginRespond(c)
    BY <1>2, <2>1, <2>4 DEF LoginRespond, clientVars, Screen
  <2> QED
    BY <1>3, <2>2, <2>3, <2>4 DEF LoginStep
<1>4. ASSUME NEW c \in Conn, LoginInsert(c)
      PROVE  ScreenInv'
  <2>1. /\ pc[c] = "insert" /\ Goto(c, "subscribe")
        /\ UNCHANGED <<client, currentUser, uid, pending>>
        /\ uid[c] \in User /\ ServerOf[c] \in Server
        /\ \A d \in Conn : ServerOf[d] \in Server
        /\ client[c] \in {"wait", "gone"}
    BY <1>4, ConstantsAssumption DEF LoginInsert, LocalsSet, ConstantsAssumption,
       clientVars, mailVars, WaitsForLogin
  <2> DEFINE old == userConnMap[ServerOf[c]][uid[c]]
             new == IF old = NoConn THEN c ELSE old
  <2>2. userConnMap' = [userConnMap EXCEPT ![ServerOf[c]][uid[c]] = new]
    BY <1>4 DEF LoginInsert
  <2>3. \A s \in Server, v \in User : userConnMap'[s][v] =
           IF s = ServerOf[c] /\ v = uid[c] THEN new ELSE userConnMap[s][v]
    BY <2>1, <2>2
  <2>4. \A d \in Conn, v \in User :
           Mapped(v, d)' => Mapped(v, d) \/ (d = c /\ v = uid[c])
    BY <2>1, <2>3 DEF Mapped
  <2> HIDE DEF new
  <2>5. \A d \in Conn, v \in User :
           Reaches(v, d)' => Reaches(v, d) \/ (d = c /\ v = uid[c])
    BY <2>1, <2>4 DEF Reaches
  <2>6. Screen(c, uid[c])'
    BY <2>1 DEF Screen
  <2>7. Kept
    BY <2>1 DEF Screen
  <2> HIDE DEF HandlersOK, SessionsOK, Goto
  <2> SUFFICES ASSUME NEW d \in Conn, NEW v \in User, Reaches(v, d)'
               PROVE  Screen(d, v)'
    BY DEF ScreenInv
  <2>8. CASE d = c /\ v = uid[c]
    BY <2>1, <2>6, <2>8
  <2>9. CASE Reaches(v, d)
    BY <2>7, <2>9 DEF ScreenInv
  <2> QED
    BY <2>5, <2>8, <2>9
<1>5. ASSUME NEW c \in Conn, \A d \in Conn : d # c => pc'[d] = pc[d],
             pc'[c] = pc[c] \/ pc[c] \notin LoginSteps,
             uid' = uid \/ \E x : uid' = [uid EXCEPT ![c] = x],
             UNCHANGED <<client, currentUser>>, pc[c] \notin LoginSteps
      PROVE  Kept
  BY <1>5 DEF Screen
<1>6. ASSUME NEW c \in Conn, ChatStep(c)
      PROVE  NoneReached /\ Kept
  <2>1. Kept
    BY <1>5, <1>6 DEF ChatStep, QueryState, Publish, StoreOffline, Routed,
       GroupLock, GroupUnlock, GroupMember, clientVars
  <2>2. ASSUME ~\E u \in User : GroupMember(c, u) PROVE NoneReached
    BY <1>2, <1>6, <2>2 DEF ChatStep, QueryState, Publish, StoreOffline, Routed,
       GroupLock, GroupUnlock, mailVars, sessionVars
  <2>3. ASSUME NEW u \in User, GroupMember(c, u) PROVE NoneReached
    <3>1. CASE userConnMap[ServerOf[c]][u] = NoConn
      BY <1>2, <2>3, <3>1 DEF GroupMember, mailVars, sessionVars
    <3>2. CASE userConnMap[ServerOf[c]][u] # NoConn
      <4>1. /\ Send(userConnMap[ServerOf[c]][u], u, msg[c],
                    LoopOf[userConnMap[ServerOf[c]][u]] = LoopOf[c])
            /\ UNCHANGED userConnMap /\ msg[c] \in Msg
        BY <2>3, <3>2 DEF GroupMember, sessionVars, LocalsSet, GroupLocked
      <4> QED
        BY <3>2, <4>1, SendReaches
    <3> QED
      BY <3>1, <3>2
  <2> QED
    BY <2>1, <2>2, <2>3
<1>7. ASSUME NEW c \in Conn, RunFunctor(c)
      PROVE  NoneReached /\ Kept
  <2>1. Kept
    BY <1>7 DEF RunFunctor, clientVars, handlerVars, Screen
  <2>2. NoneReached
    BY <1>7, FewerQueued DEF RunFunctor, sessionVars
  <2> QED
    BY <2>1, <2>2
<1>8. ASSUME NEW c \in Conn, CloseStep(c)
      PROVE  NoneReached /\ Kept
  <2>1. Kept
    BY <1>5, <1>8 DEF CloseStep, HandleClose, Ready, CloseErase,
       CloseUnsubscribe, CloseSetOffline, clientVars
  <2>2. CASE HandleClose(c)
    BY <2>1, <2>2, FewerQueued DEF HandleClose, sessionVars
  <2>3. CASE CloseErase(c)
    <3>1. UNCHANGED pending
      BY <2>3 DEF CloseErase, mailVars
    <3>2. NoConn \notin Conn /\ \A d \in Conn : ServerOf[d] \in Server
      BY ConstantsAssumption DEF ConstantsAssumption
    <3>3. \/ UNCHANGED userConnMap
          \/ \E u \in User :
               userConnMap' = [userConnMap EXCEPT ![ServerOf[c]][u] = NoConn]
      BY <2>3 DEF CloseErase
    <3>4. ASSUME NEW u \in User,
                 userConnMap' = [userConnMap EXCEPT ![ServerOf[c]][u] = NoConn]
          PROVE  \A d \in Conn, v \in User : Mapped(v, d)' => Mapped(v, d)
      <4>1. \A s \in Server, v \in User : userConnMap'[s][v] =
               IF s = ServerOf[c] /\ v = u THEN NoConn ELSE userConnMap[s][v]
        BY <3>4
      <4> QED
        BY <3>2, <4>1 DEF Mapped
    <3>5. \A d \in Conn, v \in User : Mapped(v, d)' => Mapped(v, d)
      BY <3>3, <3>4 DEF Mapped
    <3>6. NoneReached
      BY <3>1, <3>5 DEF Reaches
    <3> QED
      BY <2>1, <3>6
  <2>4. CASE CloseUnsubscribe(c) \/ CloseSetOffline(c)
    BY <1>2, <2>1, <2>4 DEF CloseUnsubscribe, CloseSetOffline, sessionVars, mailVars
  <2> QED
    BY <1>8, <2>2, <2>3, <2>4 DEF CloseStep
<1>9. ASSUME NEW c \in Conn, ClientStep(c)
      PROVE  ScreenInv'
  <2>1. CASE Connect(c) \/ Quit(c)
    BY <1>1, <1>2, <2>1 DEF Connect, Quit, clientVars, handlerVars, sessionVars,
                            mailVars, Screen
  <2>2. ASSUME NEW u, LoginRequest(c, u)
        PROVE  ScreenInv'
    BY <1>1, <1>2, <2>2 DEF LoginRequest, clientVars, sessionVars, mailVars, Screen
  <2>3. ASSUME NEW m \in Msg, NEW u \in User, OneChat(c, m, u)
        PROVE  ScreenInv'
    <3>1. pc[c] = "idle"
      BY <2>3 DEF OneChat, Ready
    <3>2. /\ pc'[c] = pc[c] \/ pc'[c] = "query"
          /\ \A d \in Conn : d # c => pc'[d] = pc[d]
          /\ UNCHANGED <<client, currentUser, uid, userConnMap>>
      BY <2>3 DEF OneChat, clientVars, sessionVars
    <3>3. Kept
      BY <1>5, <3>1, <3>2
    <3>4. CASE userConnMap[ServerOf[c]][u] = NoConn
      BY <1>1, <1>2, <2>3, <3>2, <3>3, <3>4 DEF OneChat, mailVars
    <3>5. CASE userConnMap[ServerOf[c]][u] # NoConn
      <4>1. Send(userConnMap[ServerOf[c]][u], u, m,
                 LoopOf[userConnMap[ServerOf[c]][u]] = LoopOf[c])
        BY <2>3, <3>5 DEF OneChat
      <4>2. NoneReached
        BY <3>2, <3>5, <4>1, SendReaches
      <4> QED
        BY <1>1, <3>3, <4>2
    <3> QED
      BY <3>4, <3>5
  <2>4. ASSUME NEW m, NEW g, GroupChat(c, m, g)
        PROVE  ScreenInv'
    BY <1>1, <1>2, <1>5, <2>4 DEF GroupChat, Ready, clientVars, sessionVars, mailVars
  <2> QED
    BY <1>9, <2>1, <2>2, <2>3, <2>4 DEF ClientStep, Loginout
<1>10. ASSUME NEW s \in Server, Notify(s)
       PROVE  NoneReached /\ Kept
  <2> DEFINE u == Head(redisOut[s])[1]
             m == Head(redisOut[s])[2]
             d == userConnMap[s][u]
  <2>1. Kept
    BY <1>10 DEF Notify, clientVars, handlerVars, Screen
  <2>2. u \in User /\ m \in Msg
    BY <1>10, Dequeueing DEF Notify, MailOK
  <2>3. UNCHANGED userConnMap
    BY <1>10 DEF Notify, sessionVars
  <2>4. CASE d = NoConn
    BY <1>2, <1>10, <2>1, <2>3, <2>4 DEF Notify
  <2>5. CASE d # NoConn
    <3>1. UNCHANGED pending \/ pending' = [pending EXCEPT ![d] = Append(@, <<u, m>>)]
      BY <1>10, <2>5 DEF Notify
    <3>2. d \in Conn /\ Mapped(u, d)
      BY <2>2, <2>5, ListedAtHome
    <3> HIDE DEF u, m, d
    <3> QED
      BY <2>1, <2>2, <2>3, <3>1, <3>2, QueuedForListed
  <2> QED
    BY <2>4, <2>5
<1>11. ASSUME NEW s \in Server, NotifyStore(s) \/ RedisExecute(s) \/ Interrupt(s)
       PROVE  NoneReached /\ Kept
  BY <1>2, <1>11 DEF NotifyStore, RedisExecute, Interrupt, clientVars,
     handlerVars, sessionVars, mailVars, Screen
<1>12. ASSUME NEW s \in Server, ServerStops(s)
       PROVE  ScreenInv'
  <2>1. /\ userConnMap' = [userConnMap EXCEPT ![s] = Nobody]
        /\ \A d \in Conn : ServerOf[d] \in Server
        /\ NoConn \notin Conn
    BY <1>12, ConstantsAssumption DEF ServerStops, ConstantsAssumption
  <2>2. \A d \in Conn, v \in User : Mapped(v, d)' => Mapped(v, d)
    BY <2>1 DEF Mapped, Nobody
  <2>3. \A d \in Conn :
           \/ client'[d] = "gone"
           \/ /\ client'[d] = client[d] /\ pc'[d] = pc[d] /\ uid'[d] = uid[d]
              /\ currentUser'[d] = currentUser[d] /\ pending'[d] = pending[d]
    BY <1>12 DEF ServerStops
  <2> QED
    BY <2>2, <2>3 DEF ScreenInv, Screen, Reaches
<1>13. UNCHANGED vars => NoneReached /\ Kept
  BY <1>2 DEF vars, clientVars, handlerVars, sessionVars, mailVars, Screen
<1> HIDE DEF NoneReached, Kept, HandlersOK, SessionsOK, Goto
<1>14. ASSUME NEW c \in Conn, HandlerStep(c)
       PROVE  ScreenInv'
  BY <1>1, <1>3, <1>4, <1>6, <1>7, <1>8, <1>14 DEF HandlerStep
<1> QED
  BY <1>1, <1>9, <1>10, <1>11, <1>12, <1>13, <1>14
  DEF Next, ObserverStep, StopStep, Kill, Exit, AllGone

LEMMA ScreensInvariant ==
    ASSUME "loginout" \notin Disruptions
    PROVE  Spec => [](/\ HandlersOK /\ SessionsOK /\ MailOK /\ AwayTogether
                      /\ MapAtHome /\ OneHandler /\ WaitsForLogin
                      /\ EntriesInv /\ ScreenInv)
<1> DEFINE Typed == HandlersOK /\ SessionsOK /\ MailOK /\ AwayTogether
           Alone == MapAtHome /\ OneHandler /\ WaitsForLogin
<1>1. Init => Typed
  BY ConstantsAssumption
  DEF Init, HandlersOK, LocalsSet, SessionsOK, MailOK, NoMail, AwayTogether,
      Nobody, PCs, AtRest, ChatSteps, GroupLocked
<1>2. Init => Alone
  BY DEF Init, MapAtHome, OneHandler, WaitsForLogin, Nobody, AtRest
<1>3. Init => EntriesInv /\ ScreenInv
  <2> SUFFICES ASSUME Init PROVE EntriesInv /\ ScreenInv
    OBVIOUS
  <2>1. \A c \in Conn, u \in User : ~Mapped(u, c) /\ pending[c] = <<>>
    BY ConstantsAssumption DEF Init, Mapped, Nobody, ConstantsAssumption
  <2> QED
    BY <2>1 DEF EntriesInv, ScreenInv, Reaches
<1>4. Typed /\ [Next]_vars => Typed'
  BY HandlersStep, SessionsStep, MailStep, AwayStep
<1>5. Typed /\ Alone /\ [Next]_vars => Alone'
  BY MapAtHomeStep, OneHandlerStep, WaitsStep
<1>6. Typed /\ Alone /\ EntriesInv /\ ScreenInv /\ [Next]_vars
         => EntriesInv' /\ ScreenInv'
  BY EntriesStep, ScreenStep
<1> QED
  BY <1>1, <1>2, <1>3, <1>4, <1>5, <1>6, PTL DEF Spec

(* No connection that has been destroyed stays in _userConnMap, under      *)
(* overlapping logins, killed servers and SIGINT: the close handler erases *)
(* one entry, and a connection has no more than one unless its client logs *)
(* out and in again (clientCloseExceptionHandler breaks after the first).  *)
THEOREM MapNeverStale ==
    ASSUME "loginout" \notin Disruptions
    PROVE  Spec => []MapHoldsOpenConnections
<1>1. SessionsOK /\ MapAtHome /\ EntriesInv => MapHoldsOpenConnections
  BY ListedAtHome DEF EntriesInv, MapHoldsOpenConnections
<1> QED
  BY <1>1, ScreensInvariant, PTL

(* In plain use an account that is online has an owner that still has the  *)
(* close handler ahead of it or in it: its user is not told for ever that  *)
(* the account is in use.  A loginout and a second login break this, a     *)
(* stop of the server process does too.                                    *)
THEOREM OnlineAccountIsOwned ==
    ASSUME Disruptions = {}
    PROVE  Spec => []OnlineIsOwned
<1>1. OnlineHasOwner /\ MapHoldsOpenConnections => OnlineIsOwned
  <2> SUFFICES ASSUME OnlineHasOwner, MapHoldsOpenConnections,
                      NEW u \in User, state[u] = "online"
               PROVE  \E c \in Conn : Owns(c, u) /\ pc[c] # "closed"
    BY DEF OnlineIsOwned
  <2>1. PICK c \in Conn : Owns(c, u)
    BY DEF OnlineHasOwner
  <2>2. LoggingIn(c, u) \/ Closing(c, u) => pc[c] # "closed"
    BY DEF LoggingIn, Closing, LoginSteps
  <2>3. Mapped(u, c) => pc[c] # "closed"
    BY ConstantsAssumption
    DEF Mapped, MapHoldsOpenConnections, ConstantsAssumption
  <2> QED
    BY <2>1, <2>2, <2>3 DEF Owns
<1>2. Disruptions \subseteq {"loginout"} /\ "loginout" \notin Disruptions
  OBVIOUS
<1> QED
  BY <1>1, <1>2, OwnerInvariant, MapNeverStale, PTL

(* Without loginout a client learns its user once, from the login response.*)
Fresh == \A c \in Conn : client[c] \in {"away", "menu", "wait"}
                            => currentUser[c] = NoUser

LEMMA FreshStep ==
    ASSUME HandlersOK, SessionsOK, Fresh, "loginout" \notin Disruptions,
           [Next]_vars
    PROVE  /\ Fresh'
           /\ \A c \in Conn : \/ currentUser'[c] = currentUser[c]
                             \/ /\ LoginRespond(c) /\ client[c] = "wait"
                                /\ currentUser'[c] = uid[c]
<1> DEFINE Learns(c) == \/ currentUser'[c] = currentUser[c]
                        \/ /\ LoginRespond(c) /\ client[c] = "wait"
                           /\ currentUser'[c] = uid[c]
           Fine == Fresh' /\ \A c \in Conn : Learns(c)
<1> USE DEF SessionsOK, Fresh, clientVars
<1>1. ASSUME NEW c \in Conn, ClientStep(c)
      PROVE  Fine
  BY <1>1 DEF ClientStep, Connect, Loginout, Quit, LoginRequest, OneChat, GroupChat
<1>2. ASSUME NEW c \in Conn, HandlerStep(c)
      PROVE  Fine
  <2>1. CASE LoginRespond(c)
    <3>1. \/ UNCHANGED <<client, currentUser>>
          \/ /\ client[c] = "wait"
             /\ client' = [client EXCEPT ![c] = "in"]
             /\ currentUser' = [currentUser EXCEPT ![c] = uid[c]]
      BY <2>1 DEF LoginRespond
    <3> QED
      BY <2>1, <3>1
  <2>2. CASE LoginInUse(c)
    BY <2>2 DEF LoginInUse
  <2>3. CASE ~LoginRespond(c) /\ ~LoginInUse(c)
    <3>1. UNCHANGED <<client, currentUser>>
      BY <1>2, <2>3 DEF HandlerStep, RunFunctor, LoginStep, LoginUnknown,
         LoginAccept, LoginInsert, LoginSubscribe, LoginUpdate, LoginReadOffline,
         LoginRemoveOffline, ChatStep, QueryState, Publish, StoreOffline, Routed,
         GroupLock, GroupUnlock, GroupMember, CloseStep, HandleClose, CloseErase,
         CloseUnsubscribe, CloseSetOffline
    <3> QED
      BY <3>1
  <2> QED
    BY <2>1, <2>2, <2>3
<1>3. ASSUME NEW s \in Server, ObserverStep(s) \/ RedisExecute(s) \/ Interrupt(s)
      PROVE  Fine
  BY <1>3 DEF ObserverStep, Notify, NotifyStore, RedisExecute, Interrupt
<1>4. ASSUME NEW s \in Server, ServerStops(s)
      PROVE  Fine
  BY <1>4 DEF ServerStops
<1>5. CASE UNCHANGED vars
  BY <1>5 DEF vars
<1> QED
  BY <1>1, <1>2, <1>3, <1>4, <1>5 DEF Next, StopStep, Kill, Exit, AllGone

LEMMA ReaderStep ==
    ASSUME HandlersOK, SessionsOK, MailOK, PrintsOK, MapAtHome, OneHandler,
           ScreenInv, Fresh, RightReader, "loginout" \notin Disruptions,
           [Next]_vars
    PROVE  RightReader'
<1>1. PrintsOne
  BY PrintStep
<1>2. \A c \in Conn : \/ currentUser'[c] = currentUser[c]
                      \/ /\ LoginRespond(c) /\ client[c] = "wait"
                         /\ currentUser'[c] = uid[c]
  BY FreshStep
<1>3. \A c \in Conn : client[c] = "wait" => printedFor[c] = {}
  BY ConstantsAssumption
  DEF PrintsOK, Fresh, RightReader, ConstantsAssumption
<1>4. \A c \in Conn : printedFor[c] \subseteq {currentUser'[c]}
  BY <1>2, <1>3 DEF RightReader
<1>5. ASSUME NEW c \in Conn, NEW u \in User, Reaches(u, c), client[c] # "gone",
             pc[c] \notin LoginSteps
      PROVE  currentUser'[c] = u
  <2>1. client[c] = "in" /\ currentUser[c] = u
    BY <1>5 DEF ScreenInv, Screen
  <2> QED
    BY <1>2, <2>1
<1>6. ASSUME NEW c \in Conn, NEW u \in User, Printing(c, u)
      PROVE  currentUser'[c] = u
  <2>1. CASE LoginRespond(c) /\ client[c] = "wait" /\ u = uid[c]
    BY <2>1 DEF LoginRespond, SessionsOK
  <2>2. CASE RunFunctor(c) /\ client[c] # "gone" /\ u = Head(pending[c])[1]
    <3>1. pending[c] \in Seq(Envelope) /\ pending[c] # <<>>
      BY <2>2 DEF RunFunctor, MailOK
    <3>2. 1 \in DOMAIN pending[c] /\ pending[c][1] = Head(pending[c])
      BY <3>1
    <3>3. Reaches(u, c) /\ pc[c] \notin LoginSteps
      BY <2>2, <3>2 DEF Reaches, RunFunctor, LoopIdle, AtRest, LoginSteps
    <3> QED
      BY <1>5, <2>2, <3>3
  <2>3. ASSUME NEW b \in Conn,
               GroupMember(b, u) \/ \E m \in Msg : OneChat(b, m, u),
               c = userConnMap[ServerOf[b]][u], LoopOf[c] = LoopOf[b],
               client[c] # "gone"
        PROVE  currentUser'[c] = u
    <3>1. Mapped(u, c)
      BY <2>3, ListedAtHome, ConstantsAssumption DEF ConstantsAssumption
    <3>2. pc[b] = "loop" \/ LoopIdle(b)
      BY <2>3 DEF GroupMember, OneChat, Ready
    <3>3. pc[c] \notin LoginSteps
      BY <2>3, <3>2
      DEF OneHandler, LoopIdle, AtRest, LoginSteps, HandlersOK, PCs
    <3> QED
      BY <1>5, <2>3, <3>1, <3>3 DEF Reaches
  <2> QED
    BY <1>6, <2>1, <2>2, <2>3 DEF Printing
<1>7. ASSUME NEW c \in Conn, NEW u \in User, Printing(c, u),
             printedFor' = [printedFor EXCEPT ![c] = @ \cup {u}]
      PROVE  RightReader'
  <2>1. currentUser'[c] = u
    BY <1>6, <1>7
  <2> QED
    BY <1>4, <1>7, <2>1 DEF PrintsOK, RightReader
<1> QED
  BY <1>1, <1>4, <1>7 DEF PrintsOne, RightReader

(* Each client prints messages of the account it is logged in to and of no *)
(* other, and none before its login response, whoever else logs in to the  *)
(* account meanwhile and whatever is queued for the connection while its   *)
(* login handler runs.                                                     *)
THEOREM PrintedForItsReader ==
    ASSUME "loginout" \notin Disruptions
    PROVE  Spec => []RightReader
<1>1. Init => PrintsOK /\ Fresh /\ RightReader
  BY DEF Init, PrintsOK, Fresh, RightReader
<1>2. /\ HandlersOK /\ SessionsOK /\ MailOK /\ MapAtHome /\ OneHandler
      /\ ScreenInv /\ PrintsOK /\ Fresh /\ RightReader /\ [Next]_vars
      => PrintsOK' /\ Fresh' /\ RightReader'
  BY PrintsStep, FreshStep, ReaderStep
<1> QED
  BY <1>1, <1>2, ScreensInvariant, PTL DEF Spec

-----------------------------------------------------------------------------
(* The subscriptions of a server against its map.                          *)

(* What the broker makes of u when it has executed the commands under way. *)
Ends(s, u) ==
    \/ \E i \in DOMAIN redisCmd[s] :
          /\ redisCmd[s][i].user = u /\ redisCmd[s][i].op = "SUBSCRIBE"
          /\ \A j \in DOMAIN redisCmd[s] : j > i => redisCmd[s][j].user # u
    \/ /\ \A i \in DOMAIN redisCmd[s] : redisCmd[s][i].user # u
       /\ u \in subscribed[s]

(* c wants messages for u: from the SUBSCRIBE that follows the insert into *)
(* the map until the UNSUBSCRIBE that follows the erase.                   *)
WantedBy(u, c) ==
    \/ Mapped(u, c) /\ ~(uid[c] = u /\ pc[c] = "subscribe")
    \/ uid[c] = u /\ pc[c] = "unsubscribe"

Wanted(s, u) == \E c \in Conn : ServerOf[c] = s /\ WantedBy(u, c)

LinkInv == \A s \in Server, u \in User : Ends(s, u) <=> Wanted(s, u)

LEMMA CommandQueued ==
    ASSUME LinksOK, NEW s \in Server, NEW u \in User,
           NEW op \in {"SUBSCRIBE", "UNSUBSCRIBE"},
           RedisCommand(s, op, u), UNCHANGED subscribed
    PROVE  /\ Ends(s, u)' <=> op = "SUBSCRIBE"
           /\ \A t \in Server, v \in User :
                 t # s \/ v # u => (Ends(t, v)' <=> Ends(t, v))
<1> DEFINE q == redisCmd[s]
           k == [op |-> op, user |-> u]
<1>1. q \in Seq(Command) /\ k \in Command
  BY DEF LinksOK, Command
<1>2. redisCmd'[s] = Append(q, k) /\ \A t \in Server : t # s => redisCmd'[t] = redisCmd[t]
  BY DEF LinksOK, RedisCommand
<1>3. /\ Len(redisCmd'[s]) = Len(q) + 1 /\ Len(q) \in Nat
      /\ DOMAIN redisCmd'[s] = 1 .. Len(q) + 1 /\ DOMAIN q = 1 .. Len(q)
      /\ \A i \in 1 .. Len(q) : redisCmd'[s][i] = q[i]
      /\ redisCmd'[s][Len(q) + 1] = k
  BY <1>1, <1>2, AppendProperties
<1>4. k.user = u /\ k.op = op
  OBVIOUS
<1> HIDE DEF k, q
<1>5. Ends(s, u)' <=> op = "SUBSCRIBE"
  <2>1. \A i \in DOMAIN redisCmd'[s] :
           (\A j \in DOMAIN redisCmd'[s] : j > i => redisCmd'[s][j].user # u)
              => i = Len(q) + 1
    BY <1>3, <1>4
  <2>2. Len(q) + 1 \in DOMAIN redisCmd'[s]
    BY <1>3
  <2>3. \A j \in DOMAIN redisCmd'[s] : ~(j > Len(q) + 1)
    BY <1>3
  <2> QED
    BY <1>3, <1>4, <2>1, <2>2, <2>3 DEF Ends
<1>6. ASSUME NEW t \in Server, t # s, NEW v \in User
      PROVE  Ends(t, v)' <=> Ends(t, v)
  BY <1>2, <1>6 DEF Ends
<1>7. ASSUME NEW v \in User, v # u
      PROVE  Ends(s, v)' <=> Ends(s, v)
  <2>1. ASSUME NEW i \in DOMAIN redisCmd'[s], redisCmd'[s][i].user = v
        PROVE  i \in DOMAIN q /\ redisCmd'[s][i] = q[i]
    BY <1>3, <1>4, <1>7, <2>1
  <2>2. ASSUME NEW i \in DOMAIN q
        PROVE  i \in DOMAIN redisCmd'[s] /\ redisCmd'[s][i] = q[i]
    BY <1>3
  <2> QED
    BY <2>1, <2>2 DEF Ends, q
<1> QED
  BY <1>5, <1>6, <1>7

LEMMA CommandExecuted ==
    ASSUME LinksOK, NEW s \in Server, RedisExecute(s)
    PROVE  \A t \in Server, v \in User : Ends(t, v)' <=> Ends(t, v)
<1> DEFINE q == redisCmd[s]
           r == redisCmd'[s]
<1>1. q \in Seq(Command) /\ q # <<>>
  BY DEF LinksOK, RedisExecute
<1>2. /\ r = Tail(q)
      /\ \A t \in Server : t # s => redisCmd'[t] = redisCmd[t]
                                    /\ subscribed'[t] = subscribed[t]
      /\ subscribed'[s] = IF q[1].op = "SUBSCRIBE"
                          THEN subscribed[s] \cup {q[1].user}
                          ELSE subscribed[s] \ {q[1].user}
  BY <1>1 DEF LinksOK, RedisExecute
<1>3. /\ Len(q) \in Nat \ {0} /\ DOMAIN q = 1 .. Len(q)
      /\ DOMAIN r = 1 .. Len(q) - 1
      /\ \A i \in 1 .. Len(q) - 1 : r[i] = q[i + 1]
  BY <1>1, <1>2, HeadTailProperties
<1>4. ASSUME NEW t \in Server, t # s, NEW v \in User
      PROVE  Ends(t, v)' <=> Ends(t, v)
  BY <1>2, <1>4 DEF Ends
<1>5. ASSUME NEW v \in User
      PROVE  Ends(s, v)' <=> Ends(s, v)
  <2> HIDE DEF q, r
  <2> DEFINE Last(i) == /\ q[i].user = v /\ q[i].op = "SUBSCRIBE"
                        /\ \A j \in DOMAIN q : j > i => q[j].user # v
             LastR(i) == /\ r[i].user = v /\ r[i].op = "SUBSCRIBE"
                         /\ \A j \in DOMAIN r : j > i => r[j].user # v
  <2>1. \A i \in DOMAIN r : i + 1 \in DOMAIN q /\ r[i] = q[i + 1]
    BY <1>3
  <2>2. \A i \in DOMAIN q : i = 1 \/ (i - 1 \in DOMAIN r /\ q[i] = r[i - 1])
    BY <1>3
  <2>3. \A i \in DOMAIN r : LastR(i) <=> Last(i + 1)
    <3> SUFFICES ASSUME NEW i \in DOMAIN r PROVE LastR(i) <=> Last(i + 1)
      OBVIOUS
    <3>1. ASSUME \A j \in DOMAIN r : j > i => r[j].user # v,
                 NEW j \in DOMAIN q, j > i + 1
          PROVE  q[j].user # v
      <4>1. j - 1 \in DOMAIN r /\ q[j] = r[j - 1] /\ j - 1 > i
        BY <1>3, <3>1
      <4> QED
        BY <3>1, <4>1
    <3>2. ASSUME \A j \in DOMAIN q : j > i + 1 => q[j].user # v,
                 NEW j \in DOMAIN r, j > i
          PROVE  r[j].user # v
      <4>1. j + 1 \in DOMAIN q /\ r[j] = q[j + 1] /\ j + 1 > i + 1
        BY <1>3, <3>2
      <4> QED
        BY <3>2, <4>1
    <3>3. r[i] = q[i + 1]
      BY <2>1
    <3> QED
      BY <3>1, <3>2, <3>3
  <2>4. (\A i \in DOMAIN q : q[i].user # v)
           <=> q[1].user # v /\ (\A i \in DOMAIN r : r[i].user # v)
    <3>1. 1 \in DOMAIN q
      BY <1>3
    <3> QED
      BY <2>1, <2>2, <3>1
  <2>5. Last(1) => \A i \in DOMAIN r : r[i].user # v
    <3> SUFFICES ASSUME Last(1), NEW i \in DOMAIN r PROVE r[i].user # v
      OBVIOUS
    <3>1. i + 1 \in DOMAIN q /\ i + 1 > 1 /\ r[i] = q[i + 1]
      BY <1>3
    <3> QED
      BY <3>1
  <2>6. (\A i \in DOMAIN r : r[i].user # v) /\ q[1].user = v
           => (Last(1) <=> q[1].op = "SUBSCRIBE")
    <3>1. ASSUME \A i \in DOMAIN r : r[i].user # v, NEW j \in DOMAIN q, j > 1
          PROVE  q[j].user # v
      <4>1. j # 1
        BY <1>3, <3>1
      <4> QED
        BY <2>2, <3>1, <4>1
    <3> QED
      BY <3>1
  <2>7. Ends(s, v) <=> \/ \E i \in DOMAIN q : Last(i)
                       \/ (\A i \in DOMAIN q : q[i].user # v) /\ v \in subscribed[s]
    BY DEF Ends, q
  <2>8. Ends(s, v)' <=> \/ \E i \in DOMAIN r : LastR(i)
                        \/ (\A i \in DOMAIN r : r[i].user # v) /\ v \in subscribed'[s]
    BY DEF Ends, r
  <2>9. (\E i \in DOMAIN q : Last(i)) <=> Last(1) \/ \E i \in DOMAIN r : LastR(i)
    <3>1. 1 \in DOMAIN q
      BY <1>3
    <3>2. \A i \in DOMAIN q : i # 1 => i - 1 \in DOMAIN r /\ (i - 1) + 1 = i
      BY <1>3
    <3> HIDE DEF Last, LastR
    <3> QED
      BY <2>1, <2>3, <3>1, <3>2
  <2>10. CASE q[1].user = v /\ \A i \in DOMAIN r : r[i].user # v
    <3>1. ~\E i \in DOMAIN r : LastR(i)
      BY <2>10
    <3>2. v \in subscribed'[s] <=> q[1].op = "SUBSCRIBE"
      BY <1>2, <2>10 DEF q
    <3> HIDE DEF Last, LastR
    <3> QED
      BY <2>4, <2>6, <2>7, <2>8, <2>9, <2>10, <3>1, <3>2
  <2>11. CASE q[1].user # v
    <3>1. ~Last(1)
      BY <2>11
    <3>2. v \in subscribed'[s] <=> v \in subscribed[s]
      BY <1>2, <2>11 DEF q
    <3> HIDE DEF Last, LastR
    <3> QED
      BY <2>4, <2>7, <2>8, <2>9, <2>11, <3>1, <3>2
  <2>12. CASE ~\A i \in DOMAIN r : r[i].user # v
    <3> HIDE DEF Last, LastR
    <3> QED
      BY <2>4, <2>5, <2>7, <2>8, <2>9, <2>12
  <2> QED
    BY <2>10, <2>11, <2>12
<1> QED
  BY <1>4, <1>5

(* Steps that issue no command change nobody's wish.                       *)
LEMMA WishesKept ==
    ASSUME HandlersOK, SessionsOK, SessionInv, ConstantsAssumption,
           \/ QuietStep
           \/ \E c \in Conn :
                \/ \E u \in User \cup {NoUser} : LoginRequest(c, u)
                \/ LoginUnknown(c) \/ LoginInUse(c) \/ LoginRespond(c)
                \/ LoginAccept(c) \/ LoginInsert(c)
                \/ LoginReadOffline(c) \/ LoginRemoveOffline(c)
                \/ LoginUpdate(c)
                \/ CloseErase(c) \/ CloseSetOffline(c)
                \/ CloseUnsubscribe(c) /\ uid[c] = NoUser
    PROVE  \A d \in Conn, v \in User : WantedBy(v, d)' <=> WantedBy(v, d)
<1> USE DEF HandlersOK, SessionsOK, Goto, Mapped
<1>1. CASE QuietStep
  BY <1>1 DEF QuietStep, Quiet, WantedBy
<1>2. ASSUME NEW c \in Conn,
             \/ \E u \in User \cup {NoUser} : LoginRequest(c, u)
             \/ LoginUnknown(c) \/ LoginInUse(c) \/ LoginRespond(c)
             \/ LoginAccept(c) \/ LoginReadOffline(c) \/ LoginRemoveOffline(c)
             \/ LoginUpdate(c) \/ CloseSetOffline(c)
             \/ CloseUnsubscribe(c) /\ uid[c] = NoUser
      PROVE  \A d \in Conn, v \in User : WantedBy(v, d)' <=> WantedBy(v, d)
  <2>1. /\ UNCHANGED userConnMap
        /\ \A d \in Conn : d # c => pc'[d] = pc[d] /\ uid'[d] = uid[d]
        /\ pc[c] # "subscribe" /\ pc'[c] \notin {"subscribe", "unsubscribe"}
        /\ pc[c] # "unsubscribe" \/ uid[c] = NoUser
    BY <1>2 DEF LoginRequest, Ready, LoginUnknown, LoginInUse, LoginRespond,
       LoginAccept, LoginReadOffline, LoginRemoveOffline, LoginUpdate,
       CloseSetOffline, CloseUnsubscribe, sessionVars
  <2> QED
    BY <2>1, ConstantsAssumption DEF WantedBy, ConstantsAssumption
<1>3. ASSUME NEW c \in Conn, LoginInsert(c)
      PROVE  \A d \in Conn, v \in User : WantedBy(v, d)' <=> WantedBy(v, d)
  <2>1. /\ uid[c] \in User /\ ServerOf[c] \in Server
        /\ userConnMap' = [userConnMap EXCEPT ![ServerOf[c]][uid[c]] = c]
        /\ pc[c] = "insert" /\ Goto(c, "subscribe") /\ UNCHANGED uid
    BY <1>3, InsertMaps DEF LoginInsert
  <2>2. \A s \in Server, v \in User : userConnMap'[s][v] =
           IF s = ServerOf[c] /\ v = uid[c] THEN c ELSE userConnMap[s][v]
    BY <2>1
  <2>3. \A d \in Conn : ServerOf[d] \in Server
    BY DEF ConstantsAssumption
  <2>4. \A d \in Conn : Mapped(uid[c], d) => d = c
    BY <2>1 DEF SessionInv, OneOwner, Owns, LoggingIn
  <2>5. ~Mapped(uid[c], c)
    BY <2>1 DEF SessionInv, Unmapped
  <2> QED
    BY <2>1, <2>2, <2>3, <2>4, <2>5 DEF WantedBy
<1>4. ASSUME NEW c \in Conn, CloseErase(c)
      PROVE  \A d \in Conn, v \in User : WantedBy(v, d)' <=> WantedBy(v, d)
  <2>1. /\ pc[c] = "erase" /\ Goto(c, "unsubscribe")
        /\ \A d \in Conn : ServerOf[d] \in Server
        /\ NoUser \notin User /\ NoConn \notin Conn
    BY <1>4 DEF CloseErase, ConstantsAssumption
  <2>2. CASE uid' = [uid EXCEPT ![c] = NoUser] /\ UNCHANGED userConnMap
    BY <2>1, <2>2 DEF WantedBy
  <2>3. ASSUME NEW u \in User, Mapped(u, c),
               userConnMap' = [userConnMap EXCEPT ![ServerOf[c]][u] = NoConn],
               uid' = [uid EXCEPT ![c] = u]
        PROVE  \A d \in Conn, v \in User : WantedBy(v, d)' <=> WantedBy(v, d)
    <3>1. \A s \in Server, v \in User : userConnMap'[s][v] =
             IF s = ServerOf[c] /\ v = u THEN NoConn ELSE userConnMap[s][v]
      BY <2>3
    <3>2. \A d \in Conn, v \in User : Mapped(v, d)' <=> Mapped(v, d) /\ ~(v = u /\ d = c)
      BY <2>1, <2>3, <3>1
    <3> QED
      BY <2>1, <2>3, <3>2 DEF WantedBy
  <2> QED
    BY <1>4, <2>2, <2>3 DEF CloseErase
<1> QED
  BY <1>1, <1>2, <1>3, <1>4

(* SUBSCRIBE follows the insert into the map, UNSUBSCRIBE the erase.       *)
LEMMA CommandWishes ==
    ASSUME HandlersOK, SessionsOK, LinksOK, SessionInv, LinkInv,
           ConstantsAssumption, NEW c \in Conn,
           LoginSubscribe(c) \/ (CloseUnsubscribe(c) /\ uid[c] # NoUser)
    PROVE  LinkInv'
<1> USE DEF HandlersOK, SessionsOK, Goto, Mapped
<1>1. PICK s \in Server, u \in User, op \in {"SUBSCRIBE", "UNSUBSCRIBE"} :
         /\ s = ServerOf[c] /\ u = uid[c]
         /\ RedisCommand(s, op, u)
         /\ \/ op = "SUBSCRIBE" /\ pc[c] = "subscribe" /\ Goto(c, "update")
            \/ op = "UNSUBSCRIBE" /\ pc[c] = "unsubscribe" /\ Goto(c, "setOffline")
         /\ UNCHANGED <<uid, userConnMap, subscribed>>
  <2>1. ServerOf[c] \in Server
    BY DEF ConstantsAssumption
  <2>2. CASE LoginSubscribe(c)
    <3>1. uid[c] \in User
      BY <2>2 DEF LoginSubscribe, LocalsSet
    <3> QED
      BY <2>1, <2>2, <3>1 DEF LoginSubscribe, sessionVars
  <2>3. CASE CloseUnsubscribe(c) /\ uid[c] # NoUser
    <3>1. uid[c] \in User
      BY <2>3
    <3> QED
      BY <2>1, <2>3, <3>1 DEF CloseUnsubscribe, sessionVars
  <2> QED
    BY <2>2, <2>3
<1>2. ASSUME NEW d \in Conn, NEW v \in User, d # c \/ v # u
      PROVE  WantedBy(v, d)' <=> WantedBy(v, d)
  BY <1>1, <1>2 DEF WantedBy
<1>4. WantedBy(u, c)' <=> op = "SUBSCRIBE"
  <2>1. CASE pc[c] = "subscribe"
    <3>1. Mapped(u, c)
      BY <1>1, <2>1 DEF SessionInv, InsertedIsMapped, LoggingIn
    <3>2. op = "SUBSCRIBE"
      BY <1>1, <2>1
    <3> QED
      BY <1>1, <2>1, <3>1, <3>2 DEF WantedBy
  <2>2. CASE pc[c] = "unsubscribe"
    <3>1. ~Mapped(u, c)
      BY <1>1, <2>2 DEF SessionInv, Unmapped
    <3>2. op = "UNSUBSCRIBE"
      BY <1>1, <2>2
    <3> QED
      BY <1>1, <2>2, <3>1, <3>2 DEF WantedBy
  <2> QED
    BY <1>1, <2>1, <2>2
<1>5. op = "UNSUBSCRIBE" => \A d \in Conn : WantedBy(u, d) => d = c
  <2> SUFFICES ASSUME op = "UNSUBSCRIBE", NEW d \in Conn, WantedBy(u, d)
               PROVE  d = c
    OBVIOUS
  <2>1. pc[c] = "unsubscribe"
    BY <1>1
  <2>2. Owns(c, u) /\ Owns(d, u)
    BY <1>1, <2>1 DEF Owns, Closing, WantedBy
  <2> QED
    BY <1>1, <2>2 DEF SessionInv, OneOwner
<1>6. Wanted(s, u)' <=> op = "SUBSCRIBE"
  <2>1. CASE op = "SUBSCRIBE"
    BY <1>1, <1>4, <2>1 DEF Wanted
  <2>2. CASE op # "SUBSCRIBE"
    <3>1. \A d \in Conn : ~WantedBy(u, d)'
      BY <1>1, <1>2, <1>4, <1>5, <2>2
    <3> QED
      BY <2>2, <3>1 DEF Wanted
  <2> QED
    BY <2>1, <2>2
<1>7. \A t \in Server, v \in User :
         t # s \/ v # u => (Wanted(t, v)' <=> Wanted(t, v))
  BY <1>1, <1>2 DEF Wanted
<1>8. /\ Ends(s, u)' <=> op = "SUBSCRIBE"
      /\ \A t \in Server, v \in User :
            t # s \/ v # u => (Ends(t, v)' <=> Ends(t, v))
  BY <1>1, CommandQueued
<1> QED
  BY <1>6, <1>7, <1>8, Zenon DEF LinkInv

(* A stopped server wants nothing and is subscribed to nothing.            *)
LEMMA StopWishes ==
    ASSUME HandlersOK, SessionsOK, LinksOK, LinkInv, ConstantsAssumption,
           NEW s \in Server, ServerStops(s)
    PROVE  LinkInv'
<1> USE DEF HandlersOK, SessionsOK, LinksOK
<1>1. /\ \A d \in Conn :
           \/ pc'[d] = "closed" /\ uid'[d] = NoUser /\ ServerOf[d] = s
           \/ /\ pc'[d] = pc[d] /\ uid'[d] = uid[d]
              /\ ServerOf[d] = s => pc[d] = "away"
      /\ \A r \in Server, v \in User :
           userConnMap'[r][v] = IF r = s THEN NoConn ELSE userConnMap[r][v]
  BY DEF ServerStops, Nobody
<1>2. /\ redisCmd'[s] = <<>> /\ subscribed'[s] = {}
      /\ \A t \in Server : t # s => /\ redisCmd'[t] = redisCmd[t]
                                    /\ subscribed'[t] = subscribed[t]
  BY DEF ServerStops
<1>3. \A d \in Conn : ServerOf[d] \in Server
  BY DEF ConstantsAssumption
<1>4. NoConn \notin Conn
  BY DEF ConstantsAssumption
<1>5. \A v \in User : ~Ends(s, v)'
  BY <1>2 DEF Ends
<1>6. \A v \in User : ~Wanted(s, v)'
  BY <1>1, <1>3, <1>4 DEF Wanted, WantedBy, Mapped
<1>7. ASSUME NEW t \in Server, t # s, NEW v \in User
      PROVE  (Wanted(t, v)' <=> Wanted(t, v)) /\ (Ends(t, v)' <=> Ends(t, v))
  <2>1. \A d \in Conn : ServerOf[d] = t =>
           pc'[d] = pc[d] /\ uid'[d] = uid[d] /\ (Mapped(v, d)' <=> Mapped(v, d))
    <3> SUFFICES ASSUME NEW d \in Conn, ServerOf[d] = t
                 PROVE  /\ pc'[d] = pc[d] /\ uid'[d] = uid[d]
                        /\ Mapped(v, d)' <=> Mapped(v, d)
      OBVIOUS
    <3>1. userConnMap'[t][v] = userConnMap[t][v]
      BY <1>1, <1>7
    <3>2. pc'[d] = pc[d] /\ uid'[d] = uid[d]
      BY <1>1, <1>7
    <3> QED
      BY <3>1, <3>2 DEF Mapped
  <2>2. Wanted(t, v)' <=> Wanted(t, v)
    BY <2>1 DEF Wanted, WantedBy
  <2>3. redisCmd'[t] = redisCmd[t] /\ subscribed'[t] = subscribed[t]
    BY <1>2, <1>7
  <2> HIDE DEF HandlersOK, SessionsOK, LinksOK
  <2>4. Ends(t, v)' <=> Ends(t, v)
    BY <2>3 DEF Ends
  <2> QED
    BY <2>2, <2>4
<1> QED
  BY <1>5, <1>6, <1>7, Zenon DEF LinkInv

LEMMA LinkStep ==
    ASSUME HandlersOK, SessionsOK, LinksOK, AwayTogether, SessionInv, LinkInv,
           [Next]_vars, "sigint" \notin Disruptions
    PROVE  LinkInv'
<1> DEFINE Silent == \A d \in Conn, v \in User : WantedBy(v, d)' <=> WantedBy(v, d)
<1>1. Silent /\ UNCHANGED redisVars => LinkInv'
  <2> SUFFICES ASSUME Silent, UNCHANGED redisVars PROVE LinkInv'
    OBVIOUS
  <2>1. \A s \in Server, v \in User : Ends(s, v)' <=> Ends(s, v)
    BY DEF Ends, redisVars
  <2>2. \A s \in Server, v \in User : Wanted(s, v)' <=> Wanted(s, v)
    BY DEF Wanted
  <2> QED
    BY <2>1, <2>2, Zenon DEF LinkInv
<1>2. ASSUME NEW c \in Conn, ClientStep(c)
      PROVE  LinkInv'
  <2>1. Connect(c) => pc[c] \in Quiet
    BY DEF Connect, AwayTogether, Quiet
  <2>2. Accounts[c] \subseteq User \cup {NoUser}
    BY ConstantsAssumption DEF ConstantsAssumption
  <2>3. QuietStep \/ \E u \in User \cup {NoUser} : LoginRequest(c, u)
    BY <1>2, <2>1, <2>2, QuietActions DEF ClientStep
  <2>4. Silent
    BY <2>3, WishesKept, ConstantsAssumption
  <2>5. UNCHANGED redisVars
    BY <1>2 DEF ClientStep, Connect, Loginout, Quit, LoginRequest, OneChat, GroupChat
  <2> QED
    BY <1>1, <2>4, <2>5
<1>3. ASSUME NEW c \in Conn, ChatStep(c) \/ HandleClose(c) \/ RunFunctor(c)
      PROVE  LinkInv'
  <2>1. Silent
    BY <1>3, QuietActions, WishesKept, ConstantsAssumption
  <2>2. UNCHANGED redisVars
    BY <1>3 DEF ChatStep, QueryState, Publish, StoreOffline, Routed, GroupLock,
       GroupUnlock, GroupMember, HandleClose, RunFunctor
  <2> QED
    BY <1>1, <2>1, <2>2
<1>4. ASSUME NEW c \in Conn,
             \/ LoginUnknown(c) \/ LoginInUse(c) \/ LoginRespond(c)
             \/ LoginAccept(c) \/ LoginInsert(c)
             \/ LoginReadOffline(c) \/ LoginRemoveOffline(c)
             \/ LoginUpdate(c)
             \/ CloseErase(c) \/ CloseSetOffline(c)
             \/ CloseUnsubscribe(c) /\ uid[c] = NoUser
      PROVE  LinkInv'
  <2>1. Silent
    BY <1>4, WishesKept, ConstantsAssumption
  <2>2. UNCHANGED redisVars
    BY <1>4 DEF LoginUnknown, LoginInUse, LoginRespond, LoginAccept, LoginInsert,
       LoginReadOffline, LoginRemoveOffline, LoginUpdate, CloseErase,
       CloseSetOffline, CloseUnsubscribe, redisVars
  <2> QED
    BY <1>1, <2>1, <2>2
<1>5. ASSUME NEW c \in Conn,
             LoginSubscribe(c) \/ (CloseUnsubscribe(c) /\ uid[c] # NoUser)
      PROVE  LinkInv'
  BY <1>5, CommandWishes, ConstantsAssumption
<1>6. ASSUME NEW s \in Server, ObserverStep(s)
      PROVE  LinkInv'
  <2>1. QuietStep /\ UNCHANGED redisVars
    BY <1>6 DEF ObserverStep, Notify, NotifyStore, QuietStep, handlerVars, sessionVars
  <2> QED
    BY <1>1, <2>1, WishesKept, ConstantsAssumption
<1>7. ASSUME NEW s \in Server, RedisExecute(s)
      PROVE  LinkInv'
  <2>1. QuietStep
    BY <1>7 DEF RedisExecute, QuietStep, handlerVars, sessionVars
  <2>2. Silent
    BY <2>1, WishesKept, ConstantsAssumption
  <2>3. \A t \in Server, v \in User : Wanted(t, v)' <=> Wanted(t, v)
    BY <2>2 DEF Wanted
  <2>4. \A t \in Server, v \in User : Ends(t, v)' <=> Ends(t, v)
    BY <1>7, CommandExecuted
  <2> QED
    BY <2>3, <2>4, Zenon DEF LinkInv
<1>8. ASSUME NEW s \in Server, ServerStops(s)
      PROVE  LinkInv'
  BY <1>8, StopWishes, ConstantsAssumption
<1>9. CASE UNCHANGED vars
  <2>1. QuietStep /\ UNCHANGED redisVars
    BY <1>9 DEF vars, QuietStep, handlerVars, sessionVars
  <2> QED
    BY <1>1, <2>1, WishesKept, ConstantsAssumption
<1> QED
  BY <1>2, <1>3, <1>4, <1>5, <1>6, <1>7, <1>8, <1>9
  DEF Next, HandlerStep, LoginStep, CloseStep, StopStep, Kill, Interrupt, Exit,
      AllGone

(* Once the broker has executed what was asked about a user and no handler *)
(* works on the account, it is subscribed exactly where it is mapped, with *)
(* killed servers and loginout included.                                   *)
THEOREM SubscribedAtRest ==
    ASSUME "overlap" \notin Disruptions, "sigint" \notin Disruptions
    PROVE  Spec => []SubscribedWhereMapped
<1> DEFINE Sessions == HandlersOK /\ SessionsOK /\ AwayTogether /\ SessionInv
<1>1. Init => LinksOK /\ LinkInv
  BY ConstantsAssumption
  DEF Init, LinksOK, LinkInv, Ends, Wanted, WantedBy, Mapped, Nobody,
      ConstantsAssumption
<1>2. Sessions /\ LinksOK /\ LinkInv /\ [Next]_vars => LinksOK' /\ LinkInv'
  BY LinksStep, LinkStep
<1>3. Sessions /\ LinkInv => SubscribedWhereMapped
  <2> SUFFICES ASSUME Sessions, LinkInv, NEW u \in User, NEW s \in Server,
                      BrokerQuiet(u), \A c \in Conn : uid[c] # u
               PROVE  u \in subscribed[s] <=> userConnMap[s][u] # NoConn
    BY DEF SubscribedWhereMapped
  <2>1. Ends(s, u) <=> u \in subscribed[s]
    BY DEF Ends, BrokerQuiet
  <2>2. Wanted(s, u) <=> \E c \in Conn : userConnMap[s][u] = c /\ ServerOf[c] = s
    BY DEF Wanted, WantedBy, Mapped
  <2>3. userConnMap[s][u] # NoConn =>
           userConnMap[s][u] \in Conn /\ ServerOf[userConnMap[s][u]] = s
    BY DEF SessionsOK, SessionInv, MapAtHome
  <2>4. NoConn \notin Conn
    BY ConstantsAssumption DEF ConstantsAssumption
  <2> QED
    BY <2>1, <2>2, <2>3, <2>4 DEF LinkInv
<1> QED
  BY <1>1, <1>2, <1>3, SessionInvariant, PTL DEF Spec
=============================================================================
