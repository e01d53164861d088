----------------------------- MODULE ChatClient -----------------------------
(***************************************************************************)
(* One client process (src/src/client/main.cpp), the byte streams of its   *)
(* connection, and what the server does with what it reads from it.        *)
(*                                                                         *)
(* The client has two threads: main(), which follows the menus, sends      *)
(* requests and waits on rwsem, and readTaskHandler.  Neither side frames  *)
(* its messages: each parses whatever one read returned as one JSON        *)
(* document.  A document that stops too early makes parse throw, which     *)
(* nobody catches.  The server's requests end in a zero byte, which ends   *)
(* the document too: what follows in the same read is never looked at.     *)
(* The client's answers end in nothing, so a second one in the same read   *)
(* makes parse throw.                                                      *)
(***************************************************************************)
EXTENDS Naturals, Sequences, FiniteSets

CONSTANTS
    User,          \* accounts that exist or may be registered
    Group,         \* groups that may be created
    Accounts,      \* accounts that exist at the start
    Contacts,      \* rows of friend and groupuser at the start
    MaxRequests,   \* bound: requests the person makes
    MaxPushes,     \* bound: chat messages other clients send here
    NoUser

ASSUME ClientAssumption ==
    /\ Accounts \subseteq User
    /\ Contacts \subseteq User \X (User \cup Group)
    /\ MaxRequests \in Nat /\ MaxPushes \in Nat
    /\ NoUser \notin User

VARIABLES
    main,               \* where the main thread is
    reader,             \* what the read thread is in the middle of
    rwsem,
    g_isLoginSuccess,
    g_currentUser,
    lists,              \* g_currentUserFriendList, g_currentUserGroupList
    toServer, toClient, \* bytes under way: <<number of the message, part>>
    sent,               \* history: requests, in order
    server,             \* "down" when the server process has died
    handling,           \* the handler the server's loop is in, with its step
    mapped,             \* accounts _userConnMap binds to this connection
    online,             \* accounts whose state is "online"
    accounts,           \* rows of user
    allgroup,           \* rows of allgroup
    rows,               \* rows of friend and groupuser
    answers,            \* history: messages to the client, in order
    pushes,             \* bound: how many of them are chat messages
    swallowed,          \* history: requests read behind another one
    ignored,            \* history: logins with a wrong id or password
    listOwner           \* history: whose answer each list is from

threadVars == <<main, reader, rwsem, g_isLoginSuccess>>
dataVars   == <<g_currentUser, lists, listOwner>>
tableVars  == <<online, accounts, allgroup, rows>>
serverVars == <<server, handling, mapped, tableVars, swallowed, ignored>>
upVars     == <<toServer, sent>>
downVars   == <<toClient, answers, pushes>>
vars == <<threadVars, dataVars, serverVars, upVars, downVars>>

List == {"friends", "groups"}
Idle == [step |-> "idle", request |-> 0]

(* A message is two parts long: enough to arrive in pieces. *)
Parts(n) == << <<n, 1>>, <<n, 2>> >>

Init ==
    /\ main = "menu"
    /\ reader = "idle"
    /\ rwsem = 0
    /\ g_isLoginSuccess = FALSE
    /\ g_currentUser = NoUser
    /\ lists = [l \in List |-> {}]
    /\ listOwner = [l \in List |-> NoUser]
    /\ toServer = <<>> /\ toClient = <<>>
    /\ sent = <<>> /\ answers = <<>>
    /\ pushes = 0
    /\ server = "up"
    /\ handling = Idle
    /\ mapped = {}
    /\ online = {}
    /\ accounts = Accounts
    /\ allgroup = {g \in Group : \E u \in User : <<u, g>> \in Contacts}
    /\ rows = Contacts
    /\ swallowed = {} /\ ignored = {}

-----------------------------------------------------------------------------
(* The client's main thread *)

Waiting == main \in {"waitLogin", "waitRegister"}
Gone    == main = "gone"

(* send(); to a server that has died the bytes go nowhere. *)
SendRequest(r) ==
    /\ Len(sent) < MaxRequests
    /\ sent' = Append(sent, r)
    /\ toServer' = IF server = "up" THEN toServer \o Parts(Len(sent'))
                   ELSE toServer

(* Choice 1, up to the assignment before the send *)
ChooseLogin ==
    /\ main = "menu" /\ Len(sent) < MaxRequests
    /\ main' = "sendLogin"
    /\ g_isLoginSuccess' = FALSE
    /\ UNCHANGED <<reader, rwsem, dataVars, serverVars, upVars, downVars>>

Login(u, right) ==
    /\ main = "sendLogin"
    /\ SendRequest([kind |-> "login", user |-> u, right |-> right])
    /\ main' = "waitLogin"
    /\ UNCHANGED <<reader, rwsem, g_isLoginSuccess, dataVars, serverVars,
                   downVars>>

(* Mutant: choice 2 does not wait for its answer.                          *)
RegisterAndGoOn ==
    /\ main = "menu"
    /\ SendRequest([kind |-> "register"])
    /\ UNCHANGED <<threadVars, dataVars, serverVars, downVars>>

(* Choice 2 *)
Register ==
    /\ main = "menu"
    /\ SendRequest([kind |-> "register"])
    /\ main' = "waitRegister"
    /\ UNCHANGED <<reader, rwsem, g_isLoginSuccess, dataVars, serverVars,
                   downVars>>

(* sem_wait returns *)
Released ==
    /\ Waiting /\ rwsem > 0
    /\ rwsem' = rwsem - 1
    /\ main' = IF main = "waitLogin" /\ g_isLoginSuccess THEN "mainMenu"
               ELSE "menu"
    /\ UNCHANGED <<reader, g_isLoginSuccess, dataVars, serverVars, upVars,
                   downVars>>

(* Commands of mainMenu: none waits for an answer. *)
Command(kind, x) ==
    /\ main = "mainMenu"
    /\ SendRequest([kind |-> kind, user |-> g_currentUser, arg |-> x])
    /\ UNCHANGED <<threadVars, dataVars, serverVars, downVars>>

(* The command that leaves the menu; nothing of the session is cleared. *)
Loginout ==
    /\ main = "mainMenu"
    /\ SendRequest([kind |-> "loginout", user |-> g_currentUser])
    /\ main' = "menu"
    /\ UNCHANGED <<reader, rwsem, g_isLoginSuccess, dataVars, serverVars,
                   downVars>>

(* Choice 3 *)
Quit ==
    /\ main = "menu"
    /\ main' = "gone"
    /\ UNCHANGED <<reader, rwsem, g_isLoginSuccess, dataVars, serverVars,
                   upVars, downVars>>

-----------------------------------------------------------------------------
(* readTaskHandler *)

(* Mutant: an answer is added to the list of the one before.               *)
ShowAdded(a) ==
    /\ g_currentUser' = a.user
    /\ lists' = [l \in List |-> lists[l] \cup a[l]]
    /\ listOwner' = [l \in List |-> IF a[l] = {} THEN listOwner[l] ELSE a.user]

(* doLoginResponse: a list that is not in the answer is left as it was. *)
Show(a) ==
    /\ g_currentUser' = a.user
    /\ lists' = [l \in List |-> IF a[l] = {} THEN lists[l] ELSE a[l]]
    /\ listOwner' = [l \in List |-> IF a[l] = {} THEN listOwner[l] ELSE a.user]

(* One recv returns the first n parts of what has arrived, and parse takes *)
(* it for one document.                                                    *)
Recv(n) ==
    /\ ~Gone /\ reader = "idle"
    /\ n \in 1..Len(toClient)
    /\ toClient' = SubSeq(toClient, n + 1, Len(toClient))
    /\ LET a == answers[toClient[1][1]] IN
       IF n = 2
       THEN /\ main' = main
            /\ reader' = IF a.kind = "chat" THEN "idle" ELSE "answered"
            /\ IF a.kind = "login" /\ a.errno = 0
               THEN Show(a) ELSE UNCHANGED dataVars
            /\ g_isLoginSuccess' = IF a.kind = "login" THEN a.errno = 0
                                   ELSE g_isLoginSuccess
       ELSE main' = "gone" /\ UNCHANGED <<reader, g_isLoginSuccess, dataVars>>
    /\ UNCHANGED <<rwsem, serverVars, upVars, answers, pushes>>

(* Mutant: doLoginResponse posts, and its caller once more.                *)
PostTwice ==
    /\ ~Gone /\ reader = "answered"
    /\ rwsem' = rwsem + 2
    /\ reader' = "idle"
    /\ UNCHANGED <<main, g_isLoginSuccess, dataVars, serverVars, upVars,
                   downVars>>

(* sem_post *)
Post ==
    /\ ~Gone /\ reader = "answered"
    /\ rwsem' = rwsem + 1
    /\ reader' = "idle"
    /\ UNCHANGED <<main, g_isLoginSuccess, dataVars, serverVars, upVars,
                   downVars>>

(* recv returns 0 or -1 when the server has gone. *)
RecvEnd ==
    /\ ~Gone /\ reader = "idle"
    /\ server = "down" /\ toClient = <<>>
    /\ main' = "gone"
    /\ UNCHANGED <<reader, rwsem, g_isLoginSuccess, dataVars, serverVars,
                   upVars, downVars>>

-----------------------------------------------------------------------------
(* The server *)

(* conn->send *)
Answer(a) ==
    /\ answers' = Append(answers, a)
    /\ toClient' = toClient \o Parts(Len(answers'))

At(step, kind) ==
    /\ server = "up" /\ handling.step = step
    /\ sent[handling.request].kind = kind

Requester == sent[handling.request].user

(* onMessage: retrieveAllAsString, parse and the lookup of the handler.    *)
(* Half a request makes parse throw, unless all it lacks is the zero byte; *)
(* and so does what the next read then begins with.                        *)
OnMessage(n) ==
    /\ server = "up" /\ handling = Idle
    /\ n \in 1..Len(toServer)
    /\ toServer' = SubSeq(toServer, n + 1, Len(toServer))
    /\ \/ /\ n = 1 \/ toServer[1][2] = 2
          /\ server' = "down"
          /\ UNCHANGED <<handling, swallowed>>
       \/ /\ toServer[1][2] = 1
          /\ handling' = [step |-> "begin", request |-> toServer[1][1]]
          /\ swallowed' = swallowed \cup {toServer[i][1] : i \in 3..n}
          /\ UNCHANGED server
    /\ UNCHANGED <<threadVars, dataVars, mapped, tableVars, ignored, sent,
                   downVars>>

(* loginHandler: the id or the password is wrong, and the handler returns. *)
LoginIgnored ==
    /\ At("begin", "login")
    /\ Requester \notin accounts \/ ~sent[handling.request].right
    /\ ignored' = ignored \cup {handling.request}
    /\ handling' = Idle
    /\ UNCHANGED <<threadVars, dataVars, server, mapped, tableVars, swallowed,
                   upVars, downVars>>

(* Mutant: an account in use is not answered either.                       *)
LoginRefusedSilently ==
    /\ At("begin", "login")
    /\ Requester \in accounts /\ sent[handling.request].right
    /\ Requester \in online
    /\ handling' = Idle
    /\ UNCHANGED <<threadVars, dataVars, server, mapped, tableVars, swallowed,
                   ignored, upVars, downVars>>

(* The account is in use. *)
LoginRefused ==
    /\ At("begin", "login")
    /\ Requester \in accounts /\ sent[handling.request].right
    /\ Requester \in online
    /\ Answer([kind |-> "login", user |-> Requester, errno |-> 2])
    /\ handling' = Idle
    /\ UNCHANGED <<threadVars, dataVars, server, mapped, tableVars, swallowed,
                   ignored, upVars, pushes>>

(* The query says that the account is not in use. *)
LoginAccepted ==
    /\ At("begin", "login")
    /\ Requester \in accounts /\ sent[handling.request].right
    /\ Requester \notin online
    /\ handling' = [handling EXCEPT !.step = "insert"]
    /\ UNCHANGED <<threadVars, dataVars, server, mapped, tableVars, swallowed,
                   ignored, upVars, downVars>>

(* From here on messages for the account come to this connection, unless   *)
(* a login that overlaps with this one has an entry: insert keeps that.    *)
LoginInsert ==
    /\ At("insert", "login")
    /\ mapped' = mapped \cup {Requester} \/ UNCHANGED mapped
    /\ handling' = [handling EXCEPT !.step = "update"]
    /\ UNCHANGED <<threadVars, dataVars, server, tableVars, swallowed, ignored,
                   upVars, downVars>>

LoginUpdate ==
    /\ At("update", "login")
    /\ online' = online \cup {Requester}
    /\ handling' = [handling EXCEPT !.step = "answer"]
    /\ UNCHANGED <<threadVars, dataVars, server, mapped, accounts, allgroup,
                   rows, swallowed, ignored, upVars, downVars>>

FriendsOf(u) == {f \in accounts : <<u, f>> \in rows}
GroupsOf(u)  == {g \in allgroup : <<u, g>> \in rows}

(* A query that fails looks like one without rows. *)
LoginAnswered ==
    /\ At("answer", "login")
    /\ \E f \in {FriendsOf(Requester), {}}, g \in {GroupsOf(Requester), {}} :
          Answer([kind |-> "login", user |-> Requester, errno |-> 0,
                  friends |-> f, groups |-> g])
    /\ handling' = Idle
    /\ UNCHANGED <<threadVars, dataVars, server, mapped, tableVars, swallowed,
                   ignored, upVars, pushes>>

(* registerHandler: the insert makes a new account, or fails. *)
RegisterHandler ==
    /\ At("begin", "register")
    /\ \/ \E u \in User \ accounts :
            /\ accounts' = accounts \cup {u}
            /\ Answer([kind |-> "register", errno |-> 0])
       \/ /\ Answer([kind |-> "register", errno |-> 1])
          /\ UNCHANGED accounts
    /\ handling' = Idle
    /\ UNCHANGED <<threadVars, dataVars, server, mapped, online, allgroup, rows,
                   swallowed, ignored, upVars, pushes>>

(* addFriendHandler and addGroup: the result of the insert is not looked   *)
(* at.  The second step of createGroup is an insert of the same kind.      *)
InsertRow ==
    /\ At("begin", "add") \/ At("creator", "create")
    /\ \/ rows' = rows \cup {<<Requester, sent[handling.request].arg>>}
       \/ UNCHANGED rows
    /\ handling' = Idle
    /\ UNCHANGED <<threadVars, dataVars, server, mapped, online, accounts,
                   allgroup, swallowed, ignored, upVars, downVars>>

(* createGroup: the group first, its creator in a statement of its own *)
CreateGroup ==
    /\ At("begin", "create")
    /\ \/ /\ sent[handling.request].arg \notin allgroup
          /\ allgroup' = allgroup \cup {sent[handling.request].arg}
          /\ handling' = [handling EXCEPT !.step = "creator"]
       \/ handling' = Idle /\ UNCHANGED allgroup
    /\ UNCHANGED <<threadVars, dataVars, server, mapped, online, accounts, rows,
                   swallowed, ignored, upVars, downVars>>

(* A chat message goes elsewhere; for a loginout getHandler only logs. *)
OtherHandler ==
    /\ At("begin", "chat") \/ At("begin", "loginout")
    /\ handling' = Idle
    /\ UNCHANGED <<threadVars, dataVars, server, mapped, tableVars, swallowed,
                   ignored, upVars, downVars>>

-----------------------------------------------------------------------------
(* Other clients *)

(* A chat message for an account that is mapped to this connection *)
Push ==
    /\ server = "up" /\ ~Gone
    /\ mapped # {} /\ pushes < MaxPushes
    /\ Answer([kind |-> "chat"])
    /\ pushes' = pushes + 1
    /\ UNCHANGED <<threadVars, dataVars, serverVars, upVars>>

(* Another client logs in to an account, or leaves it; of an account that  *)
(* is mapped here too, after overlapping logins.                           *)
Elsewhere(u) ==
    /\ u \in accounts
    /\ online' = IF u \in online THEN online \ {u} ELSE online \cup {u}
    /\ UNCHANGED <<threadVars, dataVars, server, handling, mapped, accounts,
                   allgroup, rows, swallowed, ignored, upVars, downVars>>

-----------------------------------------------------------------------------
Person ==
    \/ ChooseLogin \/ Register \/ Loginout \/ Quit
    \/ \E u \in User, right \in BOOLEAN : Login(u, right)
    \/ \E x \in User \cup Group : Command("add", x)
    \/ \E g \in Group : Command("create", g)
    \/ Command("chat", NoUser)

ReadTask == Post \/ RecvEnd \/ \E n \in 1..Len(toClient) : Recv(n)

Handler ==
    \/ LoginIgnored \/ LoginRefused \/ LoginAccepted \/ LoginInsert
    \/ LoginUpdate \/ LoginAnswered \/ RegisterHandler \/ InsertRow \/ CreateGroup \/ OtherHandler

ServerLoop == Handler \/ \E n \in 1..Len(toServer) : OnMessage(n)

Next ==
    \/ Person \/ Released \/ ReadTask \/ ServerLoop
    \/ Push \/ \E u \in User : Elsewhere(u)

Spec == Init /\ [][Next]_vars

(* The threads of both processes keep running and the network delivers;    *)
(* the person, and the other clients, owe nothing.                         *)
FairSpec ==
    /\ Spec
    /\ WF_vars(Released) /\ WF_vars(ReadTask) /\ WF_vars(ServerLoop)

-----------------------------------------------------------------------------
(* Properties *)

LastRequest == sent[Len(sent)]
IsAnswer(a) == a.kind # "chat"

IsLastAnswer(k) ==
    /\ k \in DOMAIN answers /\ IsAnswer(answers[k])
    /\ \A j \in DOMAIN answers : j > k => ~IsAnswer(answers[j])

LastAnswer == answers[CHOOSE k \in DOMAIN answers : IsLastAnswer(k)]

(* main() and readTaskHandler share g_isLoginSuccess, g_currentUser and    *)
(* the lists without a lock.  It is sound because an answer only arrives   *)
(* for the one request main() waits for: the read thread never writes      *)
(* while main() goes on, no post is left over for a later wait, main()     *)
(* goes by the answer to its own login, and mainMenu runs as the account   *)
(* of the last answer, a login the server has accepted.  (Which connection *)
(* the server delivers to is another matter: see LoginInsert.)             *)
AnswerMeetsWait ==
    /\ reader = "answered" /\ ~Gone => Waiting /\ rwsem = 0
    /\ rwsem > 0 /\ ~Gone =>
          /\ rwsem = 1 /\ Waiting /\ handling = Idle
          /\ \A i \in DOMAIN toServer : toServer[i][2] = 2
          /\ main = "waitLogin" => g_isLoginSuccess = (LastAnswer.errno = 0)
          /\ main = "waitLogin" /\ g_isLoginSuccess =>
                LastRequest.user = LastAnswer.user
    /\ main = "mainMenu" =>
          /\ g_isLoginSuccess
          /\ LastAnswer.kind = "login" /\ LastAnswer.errno = 0
          /\ g_currentUser = LastAnswer.user

(* The zero byte makes onMessage drop what it has read behind a request.   *)
(* What it drops was sent right behind a command of mainMenu, for which    *)
(* nobody waits, and never behind a login or a register, after which the   *)
(* client sends nothing before the answer.  (What is dropped may itself be *)
(* a login or a register, read together with the loginout before it; its   *)
(* wait is the one that WaitEnds excepts.)                                 *)
SwallowedBehindCommand ==
    \A i \in swallowed : i > 1 /\ sent[i - 1].kind \notin {"login", "register"}

(* The lists outlive a loginout, and are only replaced by an answer that   *)
(* has one of its own (doLoginResponse): whatever accounts log in one      *)
(* after the other, a list shows the contacts of one of them, never a      *)
(* mixture.                                                                *)
ListsAreOneAccounts ==
    /\ lists["friends"] \subseteq {f \in User : <<listOwner["friends"], f>> \in rows}
    /\ lists["groups"] \subseteq {g \in Group : <<listOwner["groups"], g>> \in rows}

(* A wait ends: main() is released, or the process ends; unless the        *)
(* request was swallowed, or it was a login that loginHandler ignores.     *)
WaitEnds ==
    Waiting ~> ~Waiting \/ Len(sent) \in swallowed \cup ignored
=============================================================================
