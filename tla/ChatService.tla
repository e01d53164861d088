---------------------------- MODULE ChatService ----------------------------
(***************************************************************************)
(* The chat service of src/src/server: a cluster of server processes that  *)
(* share one MySQL database and one Redis broker, and the clients that     *)
(* connect to them.                                                        *)
(*                                                                         *)
(* Every connection is pinned to one I/O loop of its server, and a loop    *)
(* runs one handler at a time.  A handler is cut where another thread or   *)
(* process can interleave: at each database call, each Redis command and   *)
(* each critical section of _connMutex.  pc[c] is the next such step of    *)
(* the handler that runs for connection c.                                 *)
(***************************************************************************)
EXTENDS Naturals, Sequences, FiniteSets

CONSTANTS
    Server,             \* server processes
    Conn,               \* client processes, each with its one connection
    User,               \* registered accounts
    Msg,                \* chat messages, each sent at most once
    Groups,             \* groups, each named by the set of its members
    ServerOf,           \* the server a client connects to
    LoopOf,             \* the I/O loop of the connection
    Accounts,           \* what the person at c logs in to
    GroupQueryParses,   \* whether MySQL accepts the text of queryGroupUsers
    Disruptions,        \* what the environment may do beyond plain use
    MaxStops,           \* bound on how many times server processes stop
    NoConn, NoUser, NoMsg

(* "overlap": two attempts to log in to one account may be under way at    *)
(* once; "loginout": the client command of that name; "kill": a server     *)
(* process dies; "sigint": an operator interrupts a server process.        *)
ASSUME ConstantsAssumption ==
    /\ ServerOf \in [Conn -> Server]
    /\ \A c, d \in Conn : LoopOf[c] = LoopOf[d] => ServerOf[c] = ServerOf[d]
    /\ Accounts \in [Conn -> SUBSET (User \cup {NoUser})]
    /\ Groups \subseteq SUBSET User
    /\ GroupQueryParses \in BOOLEAN
    /\ Disruptions \subseteq {"overlap", "loginout", "kill", "sigint"}
    /\ MaxStops \in Nat
    /\ NoConn \notin Conn /\ NoUser \notin User /\ NoMsg \notin Msg

VARIABLES
    client,       \* where the client process is in main() and mainMenu()
    currentUser,  \* g_currentUser of the client
    pc,           \* the step the server's loop is at for this connection
    uid,          \* local: the account a login or close handler works on
    msg, tgt,     \* locals: the message a chat handler routes, and to whom
    todo,         \* local: the rest of groupChat's userIdVec
    read,         \* local: the offline messages loginHandler has read
    pending,      \* sendInLoop functors queued on the connection's loop
    userConnMap,  \* _userConnMap of each server
    observer,     \* the message the observer thread is about to store
    state,        \* user.state in MySQL
    offlineMsg,   \* rows of the offlinemessage table
    redisCmd,     \* commands written on subscribe_context_, not yet executed
    subscribed,   \* the broker's subscriptions, by server
    redisOut,     \* published messages under way to a server
    exiting,      \* the server is between reset() and exit(0)
    stops,        \* number of times a server process stopped
    sentTo,       \* history: whom a message was meant for
    shown,        \* history: how often a client printed the message
    printedFor    \* history: whose messages each client has printed

clientVars  == <<client, currentUser>>
handlerVars == <<pc, uid, msg, tgt, todo, read>>
sessionVars == <<userConnMap, state>>
redisVars   == <<redisCmd, subscribed>>
mailVars    == <<pending, observer, offlineMsg, redisOut, shown, printedFor>>
stopVars    == <<exiting, stops>>
vars == <<clientVars, handlerVars, sessionVars, redisVars, mailVars, stopVars,
          sentTo>>

LoginSteps == {"login", "insert", "subscribe", "update",
               "readOffline", "removeOffline", "respond"}
ChatSteps  == {"query", "publish", "store"}
GroupLocked == {"loop", "groupPublish", "groupStore"}
CloseSteps == {"erase", "unsubscribe", "setOffline"}
AtRest     == {"away", "idle", "closed"}
PCs == LoginSteps \cup ChatSteps \cup {"lock"} \cup GroupLocked
         \cup CloseSteps \cup AtRest

NoMail == [m \in Msg |-> 0]
Envelope == User \X Msg
Nobody == [u \in User |-> NoConn]

Init ==
    /\ client = [c \in Conn |-> "away"]
    /\ currentUser = [c \in Conn |-> NoUser]
    /\ pc = [c \in Conn |-> "away"]
    /\ uid = [c \in Conn |-> NoUser]
    /\ msg = [c \in Conn |-> NoMsg]
    /\ tgt = [c \in Conn |-> NoUser]
    /\ todo = [c \in Conn |-> {}]
    /\ read = [c \in Conn |-> NoMail]
    /\ pending = [c \in Conn |-> <<>>]
    /\ userConnMap = [s \in Server |-> Nobody]
    /\ observer = [s \in Server |-> <<>>]
    /\ state = [u \in User |-> "offline"]
    /\ offlineMsg = [u \in User |-> NoMail]
    /\ redisCmd = [s \in Server |-> <<>>]
    /\ subscribed = [s \in Server |-> {}]
    /\ redisOut = [s \in Server |-> <<>>]
    /\ exiting = [s \in Server |-> FALSE]
    /\ stops = 0
    /\ sentTo = [m \in Msg |-> {}]
    /\ shown = [u \in User |-> NoMail]
    /\ printedFor = [c \in Conn |-> {}]

-----------------------------------------------------------------------------
(* Mutant: a send from another thread does not wait for the loop.          *)
AnyTime(c) == TRUE

(* The loop of c runs no handler: it can take the next event of c.         *)
LoopIdle(c) == \A d \in Conn : LoopOf[d] = LoopOf[c] => pc[d] \in AtRest
Ready(c) == pc[c] = "idle" /\ LoopIdle(c)

(* TcpConnection::state_ = kConnected *)
Connected(c) == pc[c] \notin CloseSteps \cup {"away", "closed"}

(* _connMutex of s is held across the steps of groupChat's loop and of the *)
(* observer's callback; every other critical section is a single step.     *)
Locked(s) == \/ \E c \in Conn : ServerOf[c] = s /\ pc[c] \in GroupLocked
             \/ observer[s] # <<>>

Mapped(u, c) == userConnMap[ServerOf[c]][u] = c

Goto(c, step) == pc' = [pc EXCEPT ![c] = step]

Stored(u, m) == [offlineMsg EXCEPT ![u][m] = @ + 1]

(* What is written to the socket of d reaches a client that still runs,    *)
(* whose readTaskHandler prints it, whoever is logged in there.            *)
Display(d, u, m) ==
    IF client[d] # "gone"
    THEN /\ shown' = [shown EXCEPT ![u][m] = @ + 1]
         /\ printedFor' = [printedFor EXCEPT ![d] = @ \cup {u}]
    ELSE UNCHANGED <<shown, printedFor>>

(* TcpConnection::send: written at once when the caller is on the loop of  *)
(* the connection, otherwise queued on that loop; dropped unless the       *)
(* connection is up.                                                       *)
Send(d, u, m, onLoop) ==
    /\ pending' = IF Connected(d) /\ ~onLoop
                  THEN [pending EXCEPT ![d] = Append(@, <<u, m>>)]
                  ELSE pending
    /\ IF Connected(d) /\ onLoop THEN Display(d, u, m)
                               ELSE UNCHANGED <<shown, printedFor>>
    /\ UNCHANGED <<observer, offlineMsg, redisOut>>

(* The loop of d runs a queued sendInLoop once its handler has returned.   *)
RunFunctor(d) ==
    /\ pending[d] # <<>>
    /\ LoopIdle(d)
    /\ pending' = [pending EXCEPT ![d] = Tail(@)]
    /\ Display(d, Head(pending[d])[1], Head(pending[d])[2])
    /\ UNCHANGED <<clientVars, handlerVars, sessionVars, redisVars, observer,
                   offlineMsg, redisOut, stopVars, sentTo>>

-----------------------------------------------------------------------------
(* The client process *)

Connect(c) ==
    /\ client[c] = "away"
    /\ client' = [client EXCEPT ![c] = "menu"]
    /\ Goto(c, "idle")
    /\ UNCHANGED <<currentUser, uid, msg, tgt, todo, read, sessionVars,
                   redisVars, mailVars, stopVars, sentTo>>

(* Login from the menu: the client then blocks on its semaphore.  NoUser   *)
(* stands for an unknown id or a wrong password.                           *)
LoginRequest(c, u) ==
    /\ client[c] = "menu"
    /\ Ready(c)
    /\ \/ u = NoUser
       \/ "overlap" \in Disruptions
       \/ \A d \in Conn : uid[d] = u =>
            pc[d] \notin {"login", "insert", "subscribe", "update"}
    /\ client' = [client EXCEPT ![c] = "wait"]
    /\ uid' = [uid EXCEPT ![c] = u]
    /\ Goto(c, "login")
    /\ UNCHANGED <<currentUser, msg, tgt, todo, read, sessionVars, redisVars,
                   mailVars, stopVars, sentTo>>

(* The command loginout: the client goes back to its menu; getHandler has  *)
(* no entry for LOGINOUT_MSG and the default handler only logs.            *)
Loginout(c) ==
    /\ "loginout" \in Disruptions
    /\ client[c] = "in"
    /\ Ready(c)
    /\ client' = [client EXCEPT ![c] = "menu"]
    /\ UNCHANGED <<currentUser, handlerVars, sessionVars, redisVars, mailVars,
                   stopVars, sentTo>>

(* The client quits or is killed; the server learns of it in HandleClose.  *)
Quit(c) ==
    /\ client[c] \in {"menu", "wait", "in"}
    /\ client' = [client EXCEPT ![c] = "gone"]
    /\ UNCHANGED <<currentUser, handlerVars, sessionVars, redisVars, mailVars,
                   stopVars, sentTo>>

-----------------------------------------------------------------------------
(* loginHandler *)

(* The query finds no such account or another password: the handler        *)
(* returns without a response.                                             *)
LoginUnknown(c) ==
    /\ pc[c] = "login" /\ uid[c] = NoUser
    /\ Goto(c, "idle")
    /\ UNCHANGED <<clientVars, uid, msg, tgt, todo, read, sessionVars,
                   redisVars, mailVars, stopVars, sentTo>>

(* The query finds the account online: errno 2, back to the menu. *)
LoginInUse(c) ==
    /\ pc[c] = "login" /\ uid[c] # NoUser
    /\ state[uid[c]] = "online"
    /\ client' = [client EXCEPT ![c] = IF @ = "wait" THEN "menu" ELSE @]
    /\ uid' = [uid EXCEPT ![c] = NoUser]
    /\ Goto(c, "idle")
    /\ UNCHANGED <<currentUser, msg, tgt, todo, read, sessionVars, redisVars,
                   mailVars, stopVars, sentTo>>

LoginAccept(c) ==
    /\ pc[c] = "login" /\ uid[c] # NoUser
    /\ state[uid[c]] = "offline"
    /\ Goto(c, "insert")
    /\ UNCHANGED <<clientVars, uid, msg, tgt, todo, read, sessionVars,
                   redisVars, mailVars, stopVars, sentTo>>

(* unordered_map::insert keeps an entry that is already there. *)
LoginInsert(c) ==
    /\ pc[c] = "insert"
    /\ ~Locked(ServerOf[c])
    /\ userConnMap' = [userConnMap EXCEPT ![ServerOf[c]][uid[c]] =
                         IF @ = NoConn THEN c ELSE @]
    /\ Goto(c, "subscribe")
    /\ UNCHANGED <<clientVars, uid, msg, tgt, todo, read, state, redisVars,
                   mailVars, stopVars, sentTo>>

RedisCommand(s, op, u) ==
    redisCmd' = [redisCmd EXCEPT ![s] = Append(@, [op |-> op, user |-> u])]

LoginSubscribe(c) ==
    /\ pc[c] = "subscribe"
    /\ RedisCommand(ServerOf[c], "SUBSCRIBE", uid[c])
    /\ Goto(c, "update")
    /\ UNCHANGED <<clientVars, uid, msg, tgt, todo, read, sessionVars,
                   subscribed, mailVars, stopVars, sentTo>>

(* Mutant: the handler forgets updateState.                                *)
LoginUpdateSkipped(c) ==
    /\ pc[c] = "update"
    /\ Goto(c, "readOffline")
    /\ UNCHANGED <<clientVars, uid, msg, tgt, todo, read, sessionVars,
                   redisVars, mailVars, stopVars, sentTo>>

LoginUpdate(c) ==
    /\ pc[c] = "update"
    /\ state' = [state EXCEPT ![uid[c]] = "online"]
    /\ Goto(c, "readOffline")
    /\ UNCHANGED <<clientVars, uid, msg, tgt, todo, read, userConnMap,
                   redisVars, mailVars, stopVars, sentTo>>

LoginReadOffline(c) ==
    /\ pc[c] = "readOffline"
    /\ read' = [read EXCEPT ![c] = offlineMsg[uid[c]]]
    /\ Goto(c, IF read'[c] = NoMail THEN "respond" ELSE "removeOffline")
    /\ UNCHANGED <<clientVars, uid, msg, tgt, todo, sessionVars, redisVars,
                   mailVars, stopVars, sentTo>>

(* Mutant: the messages that were read stay in the table.                  *)
LoginRemoveSkipped(c) ==
    /\ pc[c] = "removeOffline"
    /\ Goto(c, "respond")
    /\ UNCHANGED <<clientVars, uid, msg, tgt, todo, read, sessionVars,
                   redisVars, mailVars, stopVars, sentTo>>

LoginRemoveOffline(c) ==
    /\ pc[c] = "removeOffline"
    /\ offlineMsg' = [offlineMsg EXCEPT ![uid[c]] = NoMail]
    /\ Goto(c, "respond")
    /\ UNCHANGED <<clientVars, uid, msg, tgt, todo, read, sessionVars,
                   redisVars, pending, observer, redisOut, shown, printedFor,
                   stopVars, sentTo>>

(* The response, written from the connection's own loop, makes the client  *)
(* set g_currentUser, print the offline messages and enter mainMenu.       *)
LoginRespond(c) ==
    /\ pc[c] = "respond"
    /\ IF client[c] = "wait"
       THEN /\ client' = [client EXCEPT ![c] = "in"]
            /\ currentUser' = [currentUser EXCEPT ![c] = uid[c]]
            /\ shown' = [shown EXCEPT ![uid[c]] =
                           [m \in Msg |-> @[m] + read[c][m]]]
            /\ printedFor' = IF read[c] = NoMail THEN printedFor
                             ELSE [printedFor EXCEPT ![c] = @ \cup {uid[c]}]
       ELSE UNCHANGED <<clientVars, shown, printedFor>>
    /\ uid' = [uid EXCEPT ![c] = NoUser]
    /\ read' = [read EXCEPT ![c] = NoMail]
    /\ Goto(c, "idle")
    /\ UNCHANGED <<msg, tgt, todo, sessionVars, redisVars, pending, observer,
                   offlineMsg, redisOut, stopVars, sentTo>>

-----------------------------------------------------------------------------
(* oneChatHandler *)

(* The lookup under _connMutex: a recipient on this server gets the        *)
(* message directly, otherwise the handler goes on to the database.        *)
OneChat(c, m, u) ==
    /\ client[c] = "in"
    /\ Ready(c)
    /\ sentTo[m] = {}
    /\ ~Locked(ServerOf[c])
    /\ sentTo' = [sentTo EXCEPT ![m] = {u}]
    /\ LET d == userConnMap[ServerOf[c]][u]
       IN IF d # NoConn
          THEN Send(d, u, m, LoopOf[d] = LoopOf[c]) /\ UNCHANGED <<pc, msg, tgt>>
          ELSE /\ Goto(c, "query")
               /\ msg' = [msg EXCEPT ![c] = m]
               /\ tgt' = [tgt EXCEPT ![c] = u]
               /\ UNCHANGED mailVars
    /\ UNCHANGED <<clientVars, uid, todo, read, sessionVars, redisVars, stopVars>>

(* Mutant: published whatever the state of the recipient.                  *)
QueryStateIgnored(c) ==
    /\ pc[c] = "query"
    /\ Goto(c, "publish")
    /\ UNCHANGED <<clientVars, uid, msg, tgt, todo, read, sessionVars,
                   redisVars, mailVars, stopVars, sentTo>>

QueryState(c) ==
    /\ pc[c] = "query"
    /\ Goto(c, IF state[tgt[c]] = "online" THEN "publish" ELSE "store")
    /\ UNCHANGED <<clientVars, uid, msg, tgt, todo, read, sessionVars,
                   redisVars, mailVars, stopVars, sentTo>>

(* A chat handler that is done with tgt[c] returns, or goes on in the loop *)
(* of groupChat.                                                           *)
Routed(c) ==
    /\ Goto(c, IF pc[c] \in GroupLocked THEN "loop" ELSE "idle")
    /\ tgt' = [tgt EXCEPT ![c] = NoUser]
    /\ msg' = IF pc[c] \in GroupLocked THEN msg ELSE [msg EXCEPT ![c] = NoMsg]
    /\ UNCHANGED <<clientVars, uid, todo, read, sessionVars, redisVars,
                   stopVars, sentTo>>

(* PUBLISH: the broker hands the message to every current subscriber. *)
Publish(c) ==
    /\ pc[c] \in {"publish", "groupPublish"}
    /\ redisOut' = [s \in Server |->
                      IF tgt[c] \in subscribed[s]
                      THEN Append(redisOut[s], <<tgt[c], msg[c]>>)
                      ELSE redisOut[s]]
    /\ Routed(c)
    /\ UNCHANGED <<pending, observer, offlineMsg, shown, printedFor>>

StoreOffline(c) ==
    /\ pc[c] \in {"store", "groupStore"}
    /\ offlineMsg' = Stored(tgt[c], msg[c])
    /\ Routed(c)
    /\ UNCHANGED <<pending, observer, redisOut, shown, printedFor>>

-----------------------------------------------------------------------------
(* groupChat: the members are read first, then _connMutex is held over the *)
(* whole loop, its database and Redis calls included.                      *)

GroupChat(c, m, members) ==
    /\ client[c] = "in"
    /\ Ready(c)
    /\ sentTo[m] = {}
    /\ LET others == members \ {currentUser[c]}
       IN /\ others # {}
          /\ sentTo' = [sentTo EXCEPT ![m] = others]
          /\ todo' = [todo EXCEPT ![c] = IF GroupQueryParses THEN others ELSE {}]
    /\ msg' = [msg EXCEPT ![c] = m]
    /\ Goto(c, "lock")
    /\ UNCHANGED <<clientVars, uid, tgt, read, sessionVars, redisVars,
                   mailVars, stopVars>>

GroupLock(c) ==
    /\ pc[c] = "lock"
    /\ ~Locked(ServerOf[c])
    /\ Goto(c, "loop")
    /\ UNCHANGED <<clientVars, uid, msg, tgt, todo, read, sessionVars,
                   redisVars, mailVars, stopVars, sentTo>>

(* One iteration up to its database query: the map cannot change under the *)
(* lock, so the lookup and the query are one step.                         *)
GroupMember(c, u) ==
    /\ pc[c] = "loop" /\ u \in todo[c]
    /\ todo' = [todo EXCEPT ![c] = @ \ {u}]
    /\ LET d == userConnMap[ServerOf[c]][u]
       IN IF d # NoConn
          THEN /\ Send(d, u, msg[c], LoopOf[d] = LoopOf[c])
               /\ UNCHANGED <<pc, tgt>>
          ELSE /\ Goto(c, IF state[u] = "online" THEN "groupPublish"
                                                 ELSE "groupStore")
               /\ tgt' = [tgt EXCEPT ![c] = u]
               /\ UNCHANGED mailVars
    /\ UNCHANGED <<clientVars, uid, msg, read, sessionVars, redisVars,
                   stopVars, sentTo>>

(* Mutant: the loop does not come to its end.                              *)
GroupStuck(c) == pc[c] = "loop" /\ todo[c] = {} /\ UNCHANGED vars

GroupUnlock(c) ==
    /\ pc[c] = "loop" /\ todo[c] = {}
    /\ Goto(c, "idle")
    /\ msg' = [msg EXCEPT ![c] = NoMsg]
    /\ UNCHANGED <<clientVars, uid, tgt, todo, read, sessionVars, redisVars,
                   mailVars, stopVars, sentTo>>

-----------------------------------------------------------------------------
(* The broker and redis_subscribe_message_handler on the observer thread *)

(* The broker executes the next command of a server's subscriber link. *)
RedisExecute(s) ==
    /\ redisCmd[s] # <<>>
    /\ redisCmd' = [redisCmd EXCEPT ![s] = Tail(@)]
    /\ subscribed' = [subscribed EXCEPT ![s] =
                        IF Head(redisCmd[s]).op = "SUBSCRIBE"
                        THEN @ \cup {Head(redisCmd[s]).user}
                        ELSE @ \ {Head(redisCmd[s]).user}]
    /\ UNCHANGED <<clientVars, handlerVars, sessionVars, mailVars, stopVars,
                   sentTo>>

(* Mutant: a message for a user who is no longer here is not stored.       *)
NotifyOrDrop(s) ==
    /\ redisOut[s] # <<>>
    /\ ~Locked(s)
    /\ redisOut' = [redisOut EXCEPT ![s] = Tail(@)]
    /\ LET u == Head(redisOut[s])[1]
           m == Head(redisOut[s])[2]
           d == userConnMap[s][u]
       IN IF d # NoConn
          THEN pending' = [pending EXCEPT ![d] = Append(@, <<u, m>>)]
          ELSE UNCHANGED pending
    /\ UNCHANGED <<clientVars, handlerVars, sessionVars, redisVars, observer,
                   offlineMsg, shown, printedFor, stopVars, sentTo>>

(* Under _connMutex: a mapped user gets the message, for another one the   *)
(* thread goes on to store it with the lock still held.                    *)
Notify(s) ==
    /\ redisOut[s] # <<>>
    /\ ~Locked(s)
    /\ redisOut' = [redisOut EXCEPT ![s] = Tail(@)]
    /\ LET u == Head(redisOut[s])[1]
           m == Head(redisOut[s])[2]
           d == userConnMap[s][u]
       IN IF d # NoConn
          THEN /\ pending' = IF Connected(d)
                             THEN [pending EXCEPT ![d] = Append(@, <<u, m>>)]
                             ELSE pending
               /\ UNCHANGED observer
          ELSE /\ observer' = [observer EXCEPT ![s] = <<u, m>>]
               /\ UNCHANGED pending
    /\ UNCHANGED <<clientVars, handlerVars, sessionVars, redisVars, offlineMsg,
                   shown, printedFor, stopVars, sentTo>>

NotifyStore(s) ==
    /\ observer[s] # <<>>
    /\ offlineMsg' = Stored(observer[s][1], observer[s][2])
    /\ observer' = [observer EXCEPT ![s] = <<>>]
    /\ UNCHANGED <<clientVars, handlerVars, sessionVars, redisVars, pending,
                   redisOut, shown, printedFor, stopVars, sentTo>>

-----------------------------------------------------------------------------
(* TcpConnection::handleClose and clientCloseExceptionHandler *)

(* Mutant: the close callback does not reach the chat service.             *)
HandleCloseUnnoticed(c) ==
    /\ client[c] = "gone"
    /\ Ready(c)
    /\ Goto(c, "closed")
    /\ pending' = [pending EXCEPT ![c] = <<>>]
    /\ UNCHANGED <<clientVars, uid, msg, tgt, todo, read, sessionVars,
                   redisVars, observer, offlineMsg, redisOut, shown, printedFor,
                   stopVars, sentTo>>

(* read returns 0: state_ becomes kDisconnected, so that every sendInLoop  *)
(* still queued for the connection gives up writing.                       *)
HandleClose(c) ==
    /\ client[c] = "gone"
    /\ Ready(c)
    /\ Goto(c, "erase")
    /\ pending' = [pending EXCEPT ![c] = <<>>]
    /\ UNCHANGED <<clientVars, uid, msg, tgt, todo, read, sessionVars,
                   redisVars, observer, offlineMsg, redisOut, shown, printedFor,
                   stopVars, sentTo>>

(* Mutant: the entry is found but not erased.                              *)
CloseEraseSkipped(c) ==
    /\ pc[c] = "erase"
    /\ ~Locked(ServerOf[c])
    /\ \/ uid' = [uid EXCEPT ![c] = NoUser] /\ \A u \in User : ~Mapped(u, c)
       \/ \E u \in User : Mapped(u, c) /\ uid' = [uid EXCEPT ![c] = u]
    /\ Goto(c, "unsubscribe")
    /\ UNCHANGED <<clientVars, msg, tgt, todo, read, sessionVars, redisVars,
                   mailVars, stopVars, sentTo>>

(* The first entry of the map that holds the connection goes, one at most. *)
CloseErase(c) ==
    /\ pc[c] = "erase"
    /\ ~Locked(ServerOf[c])
    /\ LET entries == {u \in User : Mapped(u, c)}
       IN \/ /\ entries = {}
             /\ uid' = [uid EXCEPT ![c] = NoUser]
             /\ UNCHANGED userConnMap
          \/ \E u \in entries :
               /\ userConnMap' =
                    [userConnMap EXCEPT ![ServerOf[c]][u] = NoConn]
               /\ uid' = [uid EXCEPT ![c] = u]
    /\ Goto(c, "unsubscribe")
    /\ UNCHANGED <<clientVars, msg, tgt, todo, read, state, redisVars,
                   mailVars, stopVars, sentTo>>

(* Mutants: no check that an entry was found; no UNSUBSCRIBE at all.       *)
CloseUnsubscribeAny(c) ==
    /\ pc[c] = "unsubscribe"
    /\ Goto(c, "setOffline")
    /\ RedisCommand(ServerOf[c], "UNSUBSCRIBE", uid[c])
    /\ UNCHANGED <<clientVars, uid, msg, tgt, todo, read, sessionVars,
                   subscribed, mailVars, stopVars, sentTo>>

CloseUnsubscribeSkipped(c) ==
    /\ pc[c] = "unsubscribe"
    /\ Goto(c, IF uid[c] = NoUser THEN "closed" ELSE "setOffline")
    /\ UNCHANGED <<clientVars, uid, msg, tgt, todo, read, sessionVars,
                   redisVars, mailVars, stopVars, sentTo>>

(* Without an entry the channel is -1, which nobody subscribes to. *)
CloseUnsubscribe(c) ==
    /\ pc[c] = "unsubscribe"
    /\ IF uid[c] = NoUser
       THEN Goto(c, "closed") /\ UNCHANGED redisCmd
       ELSE Goto(c, "setOffline")
            /\ RedisCommand(ServerOf[c], "UNSUBSCRIBE", uid[c])
    /\ UNCHANGED <<clientVars, uid, msg, tgt, todo, read, sessionVars,
                   subscribed, mailVars, stopVars, sentTo>>

(* Mutant: the handler forgets updateState.                                *)
CloseSetOfflineSkipped(c) ==
    /\ pc[c] = "setOffline"
    /\ uid' = [uid EXCEPT ![c] = NoUser]
    /\ Goto(c, "closed")
    /\ UNCHANGED <<clientVars, msg, tgt, todo, read, sessionVars, redisVars,
                   mailVars, stopVars, sentTo>>

CloseSetOffline(c) ==
    /\ pc[c] = "setOffline"
    /\ state' = [state EXCEPT ![uid[c]] = "offline"]
    /\ uid' = [uid EXCEPT ![c] = NoUser]
    /\ Goto(c, "closed")
    /\ UNCHANGED <<clientVars, msg, tgt, todo, read, userConnMap, redisVars,
                   mailVars, stopVars, sentTo>>

-----------------------------------------------------------------------------
(* A server process stops, and is started again with an empty map.  Its    *)
(* clients read end-of-file and exit; the broker drops its subscriptions.  *)
ServerStops(s) ==
    LET here == {c \in Conn : ServerOf[c] = s /\ pc[c] # "away"}
        Reset(f, v) == [c \in Conn |-> IF c \in here THEN v ELSE f[c]]
    IN /\ client' = Reset(client, "gone")
       /\ pc' = Reset(pc, "closed")
       /\ uid' = Reset(uid, NoUser)
       /\ msg' = Reset(msg, NoMsg)
       /\ tgt' = Reset(tgt, NoUser)
       /\ todo' = Reset(todo, {})
       /\ read' = Reset(read, NoMail)
       /\ pending' = Reset(pending, <<>>)
       /\ userConnMap' = [userConnMap EXCEPT ![s] = Nobody]
       /\ observer' = [observer EXCEPT ![s] = <<>>]
       /\ redisCmd' = [redisCmd EXCEPT ![s] = <<>>]
       /\ subscribed' = [subscribed EXCEPT ![s] = {}]
       /\ redisOut' = [redisOut EXCEPT ![s] = <<>>]
       /\ exiting' = [exiting EXCEPT ![s] = FALSE]
       /\ UNCHANGED <<currentUser, state, offlineMsg, shown, printedFor, sentTo>>

Kill(s) ==
    /\ "kill" \in Disruptions
    /\ stops < MaxStops
    /\ ~exiting[s]
    /\ stops' = stops + 1
    /\ ServerStops(s)

(* resetHandler: reset() puts every user of the database offline ... *)
Interrupt(s) ==
    /\ "sigint" \in Disruptions
    /\ stops < MaxStops
    /\ ~exiting[s]
    /\ stops' = stops + 1
    /\ exiting' = [exiting EXCEPT ![s] = TRUE]
    /\ state' = [u \in User |-> "offline"]
    /\ UNCHANGED <<clientVars, handlerVars, userConnMap, redisVars, mailVars,
                   sentTo>>

(* ... and exit(0) ends the process; the other threads ran meanwhile. *)
Exit(s) ==
    /\ exiting[s]
    /\ ServerStops(s)
    /\ UNCHANGED stops

-----------------------------------------------------------------------------
LoginStep(c) ==
    \/ LoginUnknown(c) \/ LoginInUse(c) \/ LoginAccept(c) \/ LoginInsert(c)
    \/ LoginSubscribe(c) \/ LoginUpdate(c) \/ LoginReadOffline(c)
    \/ LoginRemoveOffline(c) \/ LoginRespond(c)

ChatStep(c) ==
    \/ QueryState(c) \/ Publish(c) \/ StoreOffline(c)
    \/ GroupLock(c) \/ GroupUnlock(c)
    \/ \E u \in User : GroupMember(c, u)

CloseStep(c) ==
    \/ HandleClose(c) \/ CloseErase(c) \/ CloseUnsubscribe(c)
    \/ CloseSetOffline(c)

(* What the threads of c's server do for c. *)
HandlerStep(c) ==
    LoginStep(c) \/ ChatStep(c) \/ CloseStep(c) \/ RunFunctor(c)

ObserverStep(s) == Notify(s) \/ NotifyStore(s)

ClientStep(c) ==
    \/ Connect(c) \/ Loginout(c) \/ Quit(c)
    \/ \E u \in Accounts[c] : LoginRequest(c, u)
    \/ \E m \in Msg, u \in User : OneChat(c, m, u)
    \/ \E m \in Msg, g \in Groups : GroupChat(c, m, g)

StopStep(s) == Kill(s) \/ Interrupt(s) \/ Exit(s)

(* Every client has left and everything it started has ended. *)
AllGone ==
    /\ \A c \in Conn : client[c] = "gone" /\ pc[c] = "closed"
    /\ \A s \in Server : /\ redisOut[s] = <<>> /\ observer[s] = <<>>
                         /\ redisCmd[s] = <<>>
    /\ UNCHANGED vars

Next ==
    \/ \E c \in Conn : ClientStep(c) \/ HandlerStep(c)
    \/ \E s \in Server : ObserverStep(s) \/ RedisExecute(s) \/ StopStep(s)
    \/ AllGone

Spec == Init /\ [][Next]_vars

(* A loop keeps running its events and, after each round of them, its      *)
(* queued functors, whatever events keep coming; the observer runs its     *)
(* replies and the broker its commands.  Clients and operators owe nothing.*)
Fairness ==
    /\ \A c \in Conn : WF_vars(HandlerStep(c)) /\ SF_vars(RunFunctor(c))
    /\ \A s \in Server : /\ WF_vars(ObserverStep(s))
                         /\ WF_vars(RedisExecute(s))

FairSpec == Spec /\ Fairness

-----------------------------------------------------------------------------
(* Properties *)

TypeOK ==
    /\ client \in [Conn -> {"away", "menu", "wait", "in", "gone"}]
    /\ currentUser \in [Conn -> User \cup {NoUser}]
    /\ pc \in [Conn -> PCs]
    /\ uid \in [Conn -> User \cup {NoUser}]
    /\ msg \in [Conn -> Msg \cup {NoMsg}]
    /\ tgt \in [Conn -> User \cup {NoUser}]
    /\ todo \in [Conn -> SUBSET User]
    /\ read \in [Conn -> [Msg -> Nat]]
    /\ pending \in [Conn -> Seq(Envelope)]
    /\ userConnMap \in [Server -> [User -> Conn \cup {NoConn}]]
    /\ observer \in [Server -> Envelope \cup {<<>>}]
    /\ state \in [User -> {"online", "offline"}]
    /\ offlineMsg \in [User -> [Msg -> Nat]]
    /\ redisCmd \in [Server ->
          Seq([op : {"SUBSCRIBE", "UNSUBSCRIBE"}, user : User])]
    /\ subscribed \in [Server -> SUBSET User]
    /\ redisOut \in [Server -> Seq(Envelope)]
    /\ exiting \in [Server -> BOOLEAN]
    /\ stops \in 0..MaxStops
    /\ sentTo \in [Msg -> SUBSET User]
    /\ shown \in [User -> [Msg -> Nat]]
    /\ printedFor \in [Conn -> SUBSET User]

(* A login that the database has let through, a map entry and a close      *)
(* handler that still has to put the user offline each own the account.    *)
LoggingIn(c, u) == uid[c] = u /\ pc[c] \in LoginSteps \ {"login"}
Closing(c, u)   == uid[c] = u /\ pc[c] \in {"unsubscribe", "setOffline"}
Owns(c, u) == LoggingIn(c, u) \/ Mapped(u, c) \/ Closing(c, u)

(* The database column "state" works as a lock on the account: at most one *)
(* connection of the whole cluster owns it (loginHandler lines 142-159     *)
(* against clientCloseExceptionHandler).                                   *)
OneOwner ==
    \A u \in User : \A c, d \in Conn : Owns(c, u) /\ Owns(d, u) => c = d

(* Why OneOwner holds.  At most one attempt per account is before its      *)
(* update of "state" at a time; an account that is offline has no other    *)
(* owner than such an attempt; the map holds a user on the server of its   *)
(* connection only, from loginHandler's insert until the close handler's   *)
(* erase.                                                                  *)
Attempting == {"login", "insert", "subscribe", "update"}

OneAttempt ==
    \A c, d \in Conn :
       /\ uid[c] # NoUser /\ uid[c] = uid[d]
       /\ pc[c] \in Attempting /\ pc[d] \in Attempting
       => c = d

OfflineOwner ==
    \A u \in User, c \in Conn :
       Owns(c, u) /\ state[u] = "offline" =>
          uid[c] = u /\ pc[c] \in Attempting \ {"login"}

InsertedIsMapped ==
    \A u \in User, c \in Conn :
       LoggingIn(c, u) /\ pc[c] # "insert" => Mapped(u, c)

MapAtHome ==
    \A s \in Server, u \in User :
       userConnMap[s][u] # NoConn => ServerOf[userConnMap[s][u]] = s

Unmapped ==
    \A u \in User, c \in Conn :
       uid[c] = u /\ pc[c] \in {"insert", "unsubscribe", "setOffline"}
          => ~Mapped(u, c)

(* user.state locks an account across map, database and handlers of all    *)
(* servers (loginHandler against clientCloseExceptionHandler): one owner,  *)
(* with the facts that keep it so.                                         *)
SessionInv ==
    /\ OneAttempt /\ OfflineOwner /\ InsertedIsMapped
    /\ MapAtHome /\ Unmapped /\ OneOwner

(* In plain use an account never stays online with nobody left to put it   *)
(* offline, or its user would find it "in use" for ever (loginHandler line *)
(* 144): an owner exists whose close handler has not finished.             *)
OnlineIsOwned ==
    \A u \in User : state[u] = "online" =>
       \E c \in Conn : Owns(c, u) /\ pc[c] # "closed"

(* The handler of a connection that closes never disturbs a session that   *)
(* began later: an account goes offline only when no map entry anywhere    *)
(* holds it (clientCloseExceptionHandler erases first, updates last).      *)
SessionNotDisturbed ==
    [][\A u \in User : state[u] = "online" /\ state'[u] = "offline" =>
          \A s \in Server : userConnMap'[s][u] = NoConn]_vars

(* _userConnMap holds no connection that has been destroyed: a send to it  *)
(* would drop the message without a trace (TcpConnection::send).           *)
MapHoldsOpenConnections ==
    \A s \in Server, u \in User :
       userConnMap[s][u] # NoConn => pc[userConnMap[s][u]] # "closed"

(* A client prints messages of the account it is logged in to and of no    *)
(* other, and none before its login response, although the map lists the   *)
(* connection earlier: another thread's send waits in pendingFunctors_     *)
(* until loginHandler has returned (LoginInsert before LoginRespond).      *)
RightReader ==
    \A c \in Conn : printedFor[c] \subseteq {currentUser[c]}

BrokerQuiet(u) ==
    \A s \in Server : \A i \in DOMAIN redisCmd[s] : redisCmd[s][i].user # u

(* Once the broker has executed all commands about a user and no handler   *)
(* works on the account, it is subscribed exactly where it is mapped.      *)
SubscribedWhereMapped ==
    \A u \in User :
       BrokerQuiet(u) /\ (\A c \in Conn : uid[c] # u) =>
          \A s \in Server :
             u \in subscribed[s] <=> userConnMap[s][u] # NoConn

-----------------------------------------------------------------------------
(* The places where a copy of m for u is. *)
Positions(q, e) == {i \in DOMAIN q : q[i] = e}
Routing(c, u, m) ==
    msg[c] = m /\ (tgt[c] = u \/ u \in todo[c])

InFlight(u, m) ==
         (UNION {{<<"redisOut", s, i>> : i \in Positions(redisOut[s], <<u, m>>)} :
                 s \in Server})
    \cup {<<"observer", s, 1>> : s \in {t \in Server : observer[t] = <<u, m>>}}
    \cup (UNION {{<<"pending", c, i>> : i \in Positions(pending[c], <<u, m>>)} :
                 c \in Conn})
    \cup {<<"handler", c, 1>> : c \in {d \in Conn : Routing(d, u, m)}}
    \cup (UNION {{<<"read", c, i>> : i \in 1..read[c][m]} :
                 c \in {d \in Conn : uid[d] = u /\ pc[d] = "respond"}})

Copies(u, m) ==
         InFlight(u, m)
    \cup {<<"offlineMsg", u, i>> : i \in 1..offlineMsg[u][m]}
    \cup {<<"shown", u, i>> : i \in 1..shown[u][m]}

(* The account of a client that left is put offline, so that it can be     *)
(* used again, logged out or not and whatever loop or lock was busy: if it *)
(* is the only entry of the connection and no login to another account is  *)
(* under way there, which the close handler could erase in its place.      *)
CloseFreesAccount ==
    \A c \in Conn : \A u \in Accounts[c] \cap User :
       /\ client[c] = "gone" /\ Connected(c) /\ Mapped(u, c)
       /\ \A v \in User \ {u} : ~Mapped(v, c) /\ uid[c] # v
       ~> state[u] = "offline"

(* No handler and no observer callback waits for ever. *)
HandlersReturn ==
    /\ \A c \in Conn : pc[c] \notin AtRest ~> pc[c] \in AtRest
    /\ \A u \in User, m \in Msg : InFlight(u, m) # {} ~> InFlight(u, m) = {}

-----------------------------------------------------------------------------
(* What messages of the program say, and the code does not keep.           *)

(* ChatService.cpp:148 "this account is using, input another!": an account *)
(* is used by one client at a time.                                        *)
AccountUsedOnce ==
    \A c, d \in Conn :
       client[c] = "in" /\ client[d] = "in" /\ currentUser[c] = currentUser[d]
          => c = d

(* ChatService.cpp:148 again: who is told so is refused because of another *)
(* login, held by a connection whose close handler will free the account.  *)
RefusedOnlyInUse ==
    [][\A c \in Conn : LoginInUse(c) =>
          \E d \in Conn : Owns(d, uid[c]) /\ pc[d] # "closed"]_vars
=============================================================================
