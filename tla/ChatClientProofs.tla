-------------------------- MODULE ChatClientProofs --------------------------
(***************************************************************************)
(* Proofs about ChatClient: AnswerMeetsWait, SwallowedBehindCommand and    *)
(* ListsAreOneAccounts, for any accounts, groups and contacts, and however *)
(* many requests and pushes there are.                                     *)
(*                                                                         *)
(* The argument: the parts under way in a direction are the last ones of   *)
(* what was sent, in order and without a gap (Stream), and whatever        *)
(* answers the client's last login or register is in one place only, and   *)
(* only while main() waits (Turn).                                         *)
(***************************************************************************)
EXTENDS ChatClient, SequenceTheorems, TLAPS

-----------------------------------------------------------------------------
(* Types *)

Request ==
         [kind : {"login"}, user : User, right : BOOLEAN]
    \cup [kind : {"register"}]
    \cup [kind : {"add"}, user : User, arg : User \cup Group]
    \cup [kind : {"create"}, user : User, arg : Group]
    \cup [kind : {"chat"}, user : User, arg : {NoUser}]
    \cup [kind : {"loginout"}, user : User]

Message ==
         [kind : {"chat"}]
    \cup [kind : {"register"}, errno : {0, 1}]
    \cup [kind : {"login"}, user : User, errno : {2}]
    \cup [kind : {"login"}, user : User, errno : {0},
          friends : SUBSET User, groups : SUBSET Group]

HandlerStep == {"begin", "insert", "update", "answer", "creator"}

Handling == {Idle} \cup [step : HandlerStep, request : Nat \ {0}]

Asks(r) == r.kind \in {"login", "register"}

LEMMA RequestFields ==
    ASSUME NEW r \in Request
    PROVE  /\ r.kind = "login" => r.user \in User
           /\ r.kind = "create" => r.arg \in Group
           /\ r.kind # "register" => r.user \in User
BY DEF Request

LEMMA MessageFields ==
    ASSUME NEW a \in Message
    PROVE  /\ a.kind \in {"chat", "register", "login"}
           /\ a.kind = "login" => a.user \in User /\ a.errno \in {0, 2}
           /\ a.kind = "login" /\ a.errno = 0 =>
                 /\ a.friends \in SUBSET User /\ a.groups \in SUBSET Group
                 /\ a["friends"] = a.friends /\ a["groups"] = a.groups
BY DEF Message

LEMMA HandlingFields ==
    ASSUME NEW h \in Handling
    PROVE  /\ h # Idle => h.step \in HandlerStep
           /\ h # Idle => h.request \in Nat \ {0}
           /\ h.step # "idle" => h # Idle
           /\ h # Idle => \A s \in HandlerStep :
                 [h EXCEPT !.step = s] = [step |-> s, request |-> h.request]
BY DEF Handling, HandlerStep, Idle

-----------------------------------------------------------------------------
(* What is under way in one direction: the last parts of messages 1 to n.  *)

Part == Nat \X {1, 2}

Stream(q, n) ==
    /\ q \in Seq(Part)
    /\ \A p \in DOMAIN q :
          /\ q[p][1] \in 1..n
          /\ 2 * q[p][1] + q[p][2] + (Len(q) - p) = 2 * n + 2

LEMMA PartFields ==
    ASSUME NEW q \in Seq(Part), NEW p \in DOMAIN q
    PROVE  /\ p \in Nat /\ p >= 1 /\ p <= Len(q) /\ Len(q) \in Nat
           /\ q[p] \in Part /\ q[p][1] \in Nat /\ q[p][2] \in {1, 2}
           /\ q[p] = <<q[p][1], q[p][2]>>
<1>1. q[p] \in Part
  BY ElementOfSeq
<1> QED
  BY <1>1, LenProperties DEF Part

LEMMA PartsAre ==
    ASSUME NEW n \in Nat
    PROVE  /\ Parts(n) \in Seq(Part) /\ Len(Parts(n)) = 2
           /\ Parts(n)[1] = <<n, 1>> /\ Parts(n)[2] = <<n, 2>>
BY DEF Parts, Part

(* What sending another message does to the parts under way. *)
LEMMA Sending ==
    ASSUME NEW q \in Seq(Part), NEW n \in Nat
    PROVE  /\ q \o Parts(n) \in Seq(Part)
           /\ Len(q \o Parts(n)) = Len(q) + 2
           /\ DOMAIN (q \o Parts(n)) = 1 .. Len(q) + 2
           /\ \A p \in 1 .. Len(q) : (q \o Parts(n))[p] = q[p]
           /\ (q \o Parts(n))[Len(q) + 1] = <<n, 1>>
           /\ (q \o Parts(n))[Len(q) + 2] = <<n, 2>>
<1>1. Parts(n) \in Seq(Part) /\ Len(Parts(n)) = 2
      /\ Parts(n)[1] = <<n, 1>> /\ Parts(n)[2] = <<n, 2>>
  BY PartsAre
<1> DEFINE r == Parts(n)
<1> HIDE DEF r
<1>2. r \in Seq(Part) /\ Len(r) = 2 /\ r[1] = <<n, 1>> /\ r[2] = <<n, 2>>
  BY <1>1 DEF r
<1>4. Len(q) \in Nat
  BY LenProperties
<1>3. /\ q \o r \in Seq(Part) /\ Len(q \o r) = Len(q) + 2
      /\ \A i \in 1 .. Len(q) + 2 :
            (q \o r)[i] = IF i <= Len(q) THEN q[i] ELSE r[i - Len(q)]
  <2>1. /\ q \o r \in Seq(Part) /\ Len(q \o r) = Len(q) + Len(r)
        /\ \A i \in 1 .. Len(q) + Len(r) :
            (q \o r)[i] = IF i <= Len(q) THEN q[i] ELSE r[i - Len(q)]
    BY <1>2, ConcatProperties
  <2> QED
    BY <1>2, <2>1
<1>5. DOMAIN (q \o r) = 1 .. Len(q) + 2
  BY <1>3, LenProperties
<1>6. (q \o r)[Len(q) + 1] = <<n, 1>> /\ (q \o r)[Len(q) + 2] = <<n, 2>>
  BY <1>2, <1>3, <1>4
<1> QED
  BY <1>3, <1>4, <1>5, <1>6 DEF r

(* What a read leaves. *)
LEMMA Reading ==
    ASSUME NEW q \in Seq(Part), NEW k \in 1 .. Len(q)
    PROVE  /\ SubSeq(q, k + 1, Len(q)) \in Seq(Part)
           /\ Len(SubSeq(q, k + 1, Len(q))) = Len(q) - k
           /\ DOMAIN SubSeq(q, k + 1, Len(q)) = 1 .. Len(q) - k
           /\ \A p \in 1 .. Len(q) - k :
                 /\ p + k \in DOMAIN q
                 /\ SubSeq(q, k + 1, Len(q))[p] = q[p + k]
<1>1. Len(q) \in Nat /\ DOMAIN q = 1 .. Len(q) /\ k \in Nat
  BY LenProperties
<1>2. \A i \in k + 1 .. Len(q) : q[i] \in Part
  <2>1. \A i \in k + 1 .. Len(q) : i \in 1 .. Len(q)
    BY <1>1
  <2> QED
    BY <2>1, ElementOfSeq
<1> DEFINE r == SubSeq(q, k + 1, Len(q))
<1>3. /\ r \in Seq(Part)
      /\ Len(r) = IF k + 1 <= Len(q) THEN Len(q) - (k + 1) + 1 ELSE 0
      /\ \A i \in 1 .. Len(q) - (k + 1) + 1 : r[i] = q[(k + 1) + i - 1]
  <2>1. k + 1 \in Int /\ Len(q) \in Int
    BY <1>1
  <2> QED
    BY <1>2, <2>1, SubSeqProperties
<1> HIDE DEF r
<1>4. r \in Seq(Part) /\ Len(r) = Len(q) - k /\ DOMAIN r = 1 .. Len(q) - k
  <2>1. Len(r) = IF k + 1 <= Len(q) THEN Len(q) - (k + 1) + 1 ELSE 0
    BY <1>3
  <2> DEFINE l == Len(q)
  <2>2. l \in Nat /\ k \in 1 .. l /\ Len(r) = IF k + 1 <= l THEN l - (k + 1) + 1 ELSE 0
    BY <1>1, <2>1
  <2> HIDE DEF l
  <2>3. Len(r) = l - k
    BY <2>2
  <2> QED
    BY <1>3, <2>3, LenProperties DEF l
<1>5. \A p \in 1 .. Len(q) - k : p + k \in DOMAIN q /\ r[p] = q[p + k]
  <2> SUFFICES ASSUME NEW p \in 1 .. Len(q) - k
               PROVE  p + k \in DOMAIN q /\ r[p] = q[p + k]
    OBVIOUS
  <2>1. p \in 1 .. Len(q) - (k + 1) + 1 /\ (k + 1) + p - 1 = p + k
    BY <1>1
  <2>2. p + k \in 1 .. Len(q)
    BY <1>1
  <2> QED
    BY <1>1, <1>3, <2>1, <2>2
<1> QED
  BY <1>4, <1>5 DEF r

LEMMA StreamGrows ==
    ASSUME NEW q, NEW n \in Nat, Stream(q, n)
    PROVE  Stream(q \o Parts(n + 1), n + 1)
<1> DEFINE r == q \o Parts(n + 1)
<1>1. q \in Seq(Part) /\ Len(q) \in Nat /\ DOMAIN q = 1 .. Len(q)
  BY LenProperties DEF Stream
<1>2. /\ r \in Seq(Part) /\ Len(r) = Len(q) + 2 /\ DOMAIN r = 1 .. Len(q) + 2
      /\ \A p \in 1 .. Len(q) : r[p] = q[p]
      /\ r[Len(q) + 1] = <<n + 1, 1>> /\ r[Len(q) + 2] = <<n + 1, 2>>
  <2>1. n + 1 \in Nat
    OBVIOUS
  <2> QED
    BY <1>1, <2>1, Sending
<1> HIDE DEF r
<1>3. ASSUME NEW p \in DOMAIN r
      PROVE  /\ r[p][1] \in 1 .. n + 1
             /\ 2 * r[p][1] + r[p][2] + (Len(r) - p) = 2 * (n + 1) + 2
  <2>1. CASE p \in DOMAIN q
    <3>1. /\ q[p][1] \in 1..n /\ q[p][2] \in {1, 2}
          /\ 2 * q[p][1] + q[p][2] + (Len(q) - p) = 2 * n + 2
      BY <1>1, <2>1, PartFields DEF Stream
    <3>2. r[p] = q[p] /\ Len(r) = Len(q) + 2 /\ p \in Nat
      BY <1>1, <1>2, <2>1
    <3>3. q[p][1] \in 1 .. n + 1 /\ q[p][1] \in Nat
      BY <3>1
    <3>4. 2 * q[p][1] + q[p][2] + ((Len(q) + 2) - p) = 2 * (n + 1) + 2
      <4> DEFINE a == q[p][1]
                 b == q[p][2]
                 l == Len(q)
      <4>1. /\ a \in Nat /\ b \in {1, 2} /\ l \in Nat /\ p \in Nat
            /\ 2 * a + b + (l - p) = 2 * n + 2
        BY <1>1, <3>1, <3>2, <3>3
      <4> HIDE DEF a, b, l
      <4>2. 2 * a + b + ((l + 2) - p) = 2 * (n + 1) + 2
        BY <4>1
      <4> QED
        BY <4>2 DEF a, b, l
    <3> QED
      BY <3>2, <3>3, <3>4
  <2>2. CASE p = Len(q) + 1 \/ p = Len(q) + 2
    BY <1>1, <1>2, <2>2
  <2> QED
    BY <1>1, <1>2, <2>1, <2>2
<1>4. Stream(r, n + 1)
  BY <1>2, <1>3 DEF Stream
<1> QED
  BY <1>4 DEF r

LEMMA StreamShrinks ==
    ASSUME NEW q, NEW n \in Nat, Stream(q, n), NEW k \in 1 .. Len(q)
    PROVE  Stream(SubSeq(q, k + 1, Len(q)), n)
<1> DEFINE r == SubSeq(q, k + 1, Len(q))
<1>1. q \in Seq(Part) /\ Len(q) \in Nat /\ DOMAIN q = 1 .. Len(q)
  BY LenProperties DEF Stream
<1>2. /\ r \in Seq(Part) /\ Len(r) = Len(q) - k /\ DOMAIN r = 1 .. Len(q) - k
      /\ \A p \in 1 .. Len(q) - k : p + k \in DOMAIN q /\ r[p] = q[p + k]
  BY <1>1, Reading
<1> HIDE DEF r
<1>3. ASSUME NEW p \in DOMAIN r
      PROVE  /\ r[p][1] \in 1 .. n
             /\ 2 * r[p][1] + r[p][2] + (Len(r) - p) = 2 * n + 2
  <2>1. p + k \in DOMAIN q /\ r[p] = q[p + k]
    BY <1>2
  <2>2. /\ q[p + k][1] \in 1..n /\ q[p + k][2] \in {1, 2}
        /\ 2 * q[p + k][1] + q[p + k][2] + (Len(q) - (p + k)) = 2 * n + 2
    BY <1>1, <2>1, PartFields DEF Stream
  <2>3. p \in Nat /\ p + k \in Nat /\ Len(r) = Len(q) - k /\ k \in Nat
    BY <1>1, <1>2
  <2>4. q[p + k][1] \in Nat
    BY <2>2
  <2>5. 2 * q[p + k][1] + q[p + k][2] + ((Len(q) - k) - p) = 2 * n + 2
    <3> DEFINE a == q[p + k][1]
               b == q[p + k][2]
               l == Len(q)
    <3>1. /\ a \in Nat /\ b \in {1, 2} /\ l \in Nat /\ p \in Nat /\ k \in Nat
          /\ 2 * a + b + (l - (p + k)) = 2 * n + 2
      BY <1>1, <2>2, <2>3, <2>4
    <3> HIDE DEF a, b, l
    <3>2. 2 * a + b + ((l - k) - p) = 2 * n + 2
      BY <3>1
    <3> QED
      BY <3>2 DEF a, b, l
  <2> QED
    BY <2>1, <2>2, <2>3, <2>5
<1>4. Stream(r, n)
  BY <1>2, <1>3 DEF Stream
<1> QED
  BY <1>4 DEF r

(* Two parts of one stream are as far apart as their numbers say. *)
LEMMA StreamOrder ==
    ASSUME NEW q, NEW n \in Nat, Stream(q, n),
           NEW i \in DOMAIN q, NEW j \in DOMAIN q
    PROVE  /\ 2 * q[i][1] + q[i][2] - i = 2 * q[j][1] + q[j][2] - j
           /\ q[i][2] \in {1, 2} /\ q[j][2] \in {1, 2}
           /\ q[i][1] \in 1..n /\ q[j][1] \in 1..n
           /\ i \in Nat /\ j \in Nat
<1>1. q \in Seq(Part)
  BY DEF Stream
<1>2. /\ i \in Nat /\ j \in Nat /\ Len(q) \in Nat
      /\ q[i][2] \in {1, 2} /\ q[j][2] \in {1, 2}
  BY <1>1, PartFields
<1>3. /\ q[i][1] \in 1..n /\ 2 * q[i][1] + q[i][2] + (Len(q) - i) = 2 * n + 2
      /\ q[j][1] \in 1..n /\ 2 * q[j][1] + q[j][2] + (Len(q) - j) = 2 * n + 2
  BY DEF Stream
<1>4. q[i][1] \in Nat /\ q[j][1] \in Nat
  BY <1>3
<1>5. 2 * q[i][1] + q[i][2] - i = 2 * q[j][1] + q[j][2] - j
  <2> DEFINE a == q[i][1]
             b == q[i][2]
             c == q[j][1]
             d == q[j][2]
             l == Len(q)
  <2>1. /\ a \in Nat /\ b \in {1, 2} /\ c \in Nat /\ d \in {1, 2}
        /\ l \in Nat /\ i \in Nat /\ j \in Nat
        /\ 2 * a + b + (l - i) = 2 * n + 2 /\ 2 * c + d + (l - j) = 2 * n + 2
    BY <1>2, <1>3, <1>4
  <2> HIDE DEF a, b, c, d, l
  <2>2. 2 * a + b - i = 2 * c + d - j
    BY <2>1
  <2> QED
    BY <2>2 DEF a, b, c, d, l
<1> QED
  BY <1>2, <1>3, <1>5

-----------------------------------------------------------------------------
(* The inductive invariant, part by part.                                  *)

TypesOK ==
    /\ main \in {"menu", "sendLogin", "waitLogin", "waitRegister", "mainMenu",
                 "gone"}
    /\ reader \in {"idle", "answered"}
    /\ rwsem \in Nat
    /\ g_isLoginSuccess \in BOOLEAN
    /\ sent \in Seq(Request)
    /\ answers \in Seq(Message)
    /\ server \in {"up", "down"}
    /\ handling \in Handling
    /\ handling # Idle => handling.request \in DOMAIN sent
    /\ mapped \subseteq User /\ accounts \subseteq User /\ allgroup \subseteq Group

(* Every read but the last one of the client begins with a whole message.  *)
StreamsOK ==
    /\ Stream(toClient, Len(answers))
    /\ toServer \in Seq(Part)
    /\ \A p \in DOMAIN toServer : toServer[p][1] \in 1..Len(sent)
    /\ server = "up" => Stream(toServer, Len(sent))
    /\ toClient # <<>> /\ ~Gone => toClient[1][2] = 1

(* Where the answer to the last login or register, or what will become it, *)
(* can be.                                                                 *)
Unread == \E p \in DOMAIN toServer :
             toServer[p][2] = 1 /\ Asks(sent[toServer[p][1]])
InHandler == handling # Idle /\ Asks(sent[handling.request])
OnTheWay  == \E p \in DOMAIN toClient : IsAnswer(answers[toClient[p][1]])
Taken  == reader = "answered"
Posted == rwsem > 0

NothingBegun == \A p \in DOMAIN toServer : toServer[p][2] = 2

(* Only the last request can be a login or a register that is not read.    *)
LastUnread ==
    \A p \in DOMAIN toServer :
       toServer[p][2] = 1 /\ Asks(sent[toServer[p][1]])
          => toServer[p][1] = Len(sent)

Asked ==
    /\ Waiting => Len(sent) > 0
    /\ main = "waitLogin" => sent[Len(sent)].kind = "login"
    /\ main = "waitRegister" => sent[Len(sent)].kind = "register"

Turn ==
    ~Gone =>
    /\ Unread \/ InHandler \/ OnTheWay \/ Taken \/ Posted => Waiting
    /\ Unread => ~InHandler /\ ~OnTheWay /\ ~Taken /\ ~Posted
    /\ InHandler => /\ handling.request = Len(sent) /\ NothingBegun
                    /\ ~OnTheWay /\ ~Taken /\ ~Posted
    /\ OnTheWay \/ Taken \/ Posted => NothingBegun /\ handling = Idle
    /\ OnTheWay => ~Taken /\ ~Posted
    /\ Taken => ~Posted
    /\ rwsem <= 1

(* The answer that is on its way, or has come, is the one waited for.      *)
Meets(a) ==
    /\ main = "waitLogin" => a.kind = "login" /\ a.user = sent[Len(sent)].user
    /\ main = "waitRegister" => a.kind = "register"

Told(a) ==
    main = "waitLogin" =>
       /\ g_isLoginSuccess = (a.errno = 0)
       /\ a.errno = 0 => g_currentUser = a.user

InMenu ==
    main = "mainMenu" =>
       /\ g_isLoginSuccess
       /\ \E k \in DOMAIN answers :
             /\ IsLastAnswer(k) /\ answers[k].kind = "login"
             /\ answers[k].errno = 0 /\ g_currentUser = answers[k].user

Answered ==
    ~Gone =>
    /\ \A p \in DOMAIN toClient : IsAnswer(answers[toClient[p][1]]) =>
          IsLastAnswer(toClient[p][1]) /\ Meets(answers[toClient[p][1]])
    /\ Taken \/ Posted =>
          \E k \in DOMAIN answers :
             IsLastAnswer(k) /\ Meets(answers[k]) /\ Told(answers[k])
    /\ InMenu

-----------------------------------------------------------------------------
(* The kinds of steps.                                                     *)

Writes(r) ==
    /\ r \in Request
    /\ sent' = Append(sent, r)
    /\ toServer' = IF server = "up" THEN toServer \o Parts(Len(sent) + 1)
                   ELSE toServer
    /\ \/ main = "sendLogin" /\ r.kind = "login" /\ main' = "waitLogin"
       \/ main = "menu" /\ r.kind = "register" /\ main' = "waitRegister"
       \/ main = "mainMenu" /\ ~Asks(r) /\ main' \in {"mainMenu", "menu"}
    /\ UNCHANGED <<reader, rwsem, g_isLoginSuccess, dataVars, serverVars,
                   downVars>>

Walks ==
    /\ \/ UNCHANGED <<main, g_isLoginSuccess>>
       \/ main = "menu" /\ main' = "sendLogin" /\ g_isLoginSuccess' = FALSE
       \/ main' = "gone" /\ UNCHANGED g_isLoginSuccess
    /\ UNCHANGED <<reader, rwsem, dataVars, server, handling, mapped, accounts,
                   allgroup, rows, swallowed, upVars, toClient, answers>>

Works ==
    /\ handling # Idle
    /\ \/ handling' = Idle
       \/ \E s \in HandlerStep :
             handling' = [step |-> s, request |-> handling.request]
    /\ mapped' \subseteq User
    /\ rows \subseteq rows' /\ allgroup' \subseteq Group
    /\ UNCHANGED <<threadVars, dataVars, server, accounts, swallowed, upVars,
                   downVars>>

Replies(a) ==
    /\ handling # Idle /\ handling' = Idle
    /\ a \in Message /\ a.kind \in {"login", "register"}
    /\ a.kind = sent[handling.request].kind
    /\ a.kind = "login" => a.user = sent[handling.request].user
    /\ a.kind = "login" /\ a.errno = 0 =>
          /\ \A f \in a.friends : <<a.user, f>> \in rows
          /\ \A g \in a.groups : <<a.user, g>> \in rows
    /\ Answer(a)
    /\ accounts' \subseteq User
    /\ UNCHANGED <<threadVars, dataVars, server, mapped, allgroup, rows,
                   swallowed, upVars>>

LEMMA RequestSent ==
    ASSUME TypesOK, handling # Idle
    PROVE  /\ handling.request \in DOMAIN sent /\ sent[handling.request] \in Request
           /\ handling.step \in HandlerStep
           /\ Idle.step = "idle"
<1>1. handling.request \in DOMAIN sent /\ sent \in Seq(Request)
  BY DEF TypesOK
<1>2. handling.step \in HandlerStep
  BY HandlingFields DEF TypesOK
<1>3. sent[handling.request] \in Request
  BY <1>1, ElementOfSeq, LenProperties
<1> QED
  BY <1>1, <1>2, <1>3 DEF Idle

LEMMA WritesSteps ==
    ASSUME TypesOK, main = "mainMenu" => g_currentUser \in User,
           \/ \E u \in User, right \in BOOLEAN : Login(u, right)
           \/ Register \/ Loginout
           \/ \E x \in User \cup Group : Command("add", x)
           \/ \E g \in Group : Command("create", g)
           \/ Command("chat", NoUser)
    PROVE  \E r : Writes(r)
<1>1. ASSUME NEW r, SendRequest(r)
      PROVE  /\ sent' = Append(sent, r)
             /\ toServer' = IF server = "up" THEN toServer \o Parts(Len(sent) + 1)
                            ELSE toServer
  <2>1. sent' = Append(sent, r) /\ sent \in Seq(Request)
    BY <1>1 DEF SendRequest, TypesOK
  <2>2. Len(sent') = Len(sent) + 1
    BY <2>1
  <2> QED
    BY <1>1, <2>1, <2>2 DEF SendRequest
<1>2. ASSUME NEW u \in User, NEW right \in BOOLEAN, Login(u, right)
      PROVE  \E r : Writes(r)
  <2> DEFINE r == [kind |-> "login", user |-> u, right |-> right]
  <2>1. r \in Request /\ r.kind = "login"
    BY DEF Request
  <2>2. SendRequest(r)
    BY <1>2 DEF Login
  <2> HIDE DEF r
  <2>3. Writes(r)
    BY <1>1, <1>2, <2>1, <2>2 DEF Login, Writes
  <2> QED
    BY <2>3
<1>3. CASE Register
  <2> DEFINE r == [kind |-> "register"]
  <2>1. r \in Request /\ r.kind = "register"
    BY DEF Request
  <2>2. SendRequest(r)
    BY <1>3 DEF Register
  <2> HIDE DEF r
  <2>3. Writes(r)
    BY <1>1, <1>3, <2>1, <2>2 DEF Register, Writes
  <2> QED
    BY <2>3
<1>4. CASE Loginout
  <2> DEFINE r == [kind |-> "loginout", user |-> g_currentUser]
  <2>1. r \in Request /\ r.kind = "loginout"
    BY <1>4 DEF Request, Loginout
  <2>2. SendRequest(r)
    BY <1>4 DEF Loginout
  <2> HIDE DEF r
  <2>3. Writes(r)
    BY <1>1, <1>4, <2>1, <2>2 DEF Loginout, Writes, Asks
  <2> QED
    BY <2>3
<1>5. ASSUME NEW kind, NEW x, Command(kind, x),
             \/ kind = "add" /\ x \in User \cup Group
             \/ kind = "create" /\ x \in Group
             \/ kind = "chat" /\ x = NoUser
      PROVE  \E r : Writes(r)
  <2> DEFINE r == [kind |-> kind, user |-> g_currentUser, arg |-> x]
  <2>1. r.kind = kind /\ main = "mainMenu" /\ g_currentUser \in User
    BY <1>5 DEF Command
  <2>2. r \in Request
    BY <1>5, <2>1 DEF Request
  <2>3. SendRequest(r)
    BY <1>5 DEF Command
  <2> HIDE DEF r
  <2>4. ~Asks(r)
    BY <1>5, <2>1 DEF Asks
  <2>5. Writes(r)
    BY <1>1, <1>5, <2>1, <2>2, <2>3, <2>4 DEF Command, Writes, threadVars
  <2> QED
    BY <2>5
<1> QED
  BY <1>2, <1>3, <1>4, <1>5

LEMMA WorksSteps ==
    ASSUME TypesOK, LoginIgnored \/ LoginAccepted \/ LoginInsert
                    \/ LoginUpdate \/ InsertRow \/ CreateGroup \/ OtherHandler
    PROVE  Works
<1>1. handling # Idle
  BY DEF LoginIgnored, LoginAccepted, LoginInsert, LoginUpdate, InsertRow,
         CreateGroup, OtherHandler, At, Idle
<1>2. /\ handling.request \in DOMAIN sent /\ sent[handling.request] \in Request
      /\ handling \in Handling
  BY <1>1, RequestSent DEF TypesOK
<1>3. CASE LoginIgnored \/ OtherHandler
  BY <1>1, <1>3 DEF LoginIgnored, OtherHandler, Works, TypesOK, tableVars
<1>4. CASE LoginAccepted \/ LoginInsert \/ LoginUpdate
  <2>1. \E s \in HandlerStep :
           handling' = [step |-> s, request |-> handling.request]
    <3>1. \A s \in HandlerStep : [handling EXCEPT !.step = s]
                                  = [step |-> s, request |-> handling.request]
      BY <1>1, <1>2, HandlingFields
    <3>2. \E s \in HandlerStep : handling' = [handling EXCEPT !.step = s]
      BY <1>4 DEF LoginAccepted, LoginInsert, LoginUpdate, HandlerStep
    <3> QED
      BY <3>1, <3>2
  <2>2. mapped' \subseteq User
    <3>1. LoginInsert => Requester \in User
      BY <1>2, RequestFields DEF LoginInsert, At, Requester
    <3> QED
      BY <1>4, <3>1 DEF LoginAccepted, LoginInsert, LoginUpdate, TypesOK
  <2> QED
    BY <1>1, <1>4, <2>1, <2>2
    DEF LoginAccepted, LoginInsert, LoginUpdate, Works, TypesOK, tableVars
<1>5. CASE InsertRow
  BY <1>1, <1>5 DEF InsertRow, Works, TypesOK
<1>6. CASE CreateGroup
  <2>1. sent[handling.request].arg \in Group
    BY <1>2, <1>6, RequestFields DEF CreateGroup, At
  <2>2. \/ handling' = [step |-> "creator", request |-> handling.request]
        \/ handling' = Idle
    BY <1>1, <1>2, <1>6, HandlingFields DEF CreateGroup, HandlerStep
  <2> QED
    BY <1>1, <1>6, <2>1, <2>2 DEF CreateGroup, Works, TypesOK, HandlerStep
<1> QED
  BY <1>3, <1>4, <1>5, <1>6

LEMMA RepliesSteps ==
    ASSUME TypesOK, LoginRefused \/ LoginAnswered \/ RegisterHandler
    PROVE  \E a : Replies(a)
<1>1. handling # Idle
  BY DEF LoginRefused, LoginAnswered, RegisterHandler, At, Idle
<1>2. /\ handling.request \in DOMAIN sent /\ sent[handling.request] \in Request
      /\ handling \in Handling
  BY <1>1, RequestSent DEF TypesOK
<1>3. CASE LoginRefused
  <2> DEFINE a == [kind |-> "login", user |-> Requester, errno |-> 2]
  <2>1. sent[handling.request].kind = "login" /\ Requester \in User
    BY <1>2, <1>3, RequestFields DEF LoginRefused, At, Requester
  <2>2. /\ a \in Message /\ a.kind = "login" /\ a.errno = 2
        /\ a.user = sent[handling.request].user
    BY <2>1 DEF Message, Requester
  <2>3. Answer(a)
    BY <1>3 DEF LoginRefused
  <2> HIDE DEF a
  <2>4. Replies(a)
    BY <1>1, <1>3, <2>1, <2>2, <2>3
    DEF LoginRefused, Replies, TypesOK, tableVars
  <2> QED
    BY <2>4
<1>4. CASE LoginAnswered
  <2>1. PICK f \in {FriendsOf(Requester), {}}, g \in {GroupsOf(Requester), {}} :
           Answer([kind |-> "login", user |-> Requester, errno |-> 0,
                   friends |-> f, groups |-> g])
    BY <1>4 DEF LoginAnswered
  <2>2. /\ f \subseteq User /\ \A x \in f : <<Requester, x>> \in rows
        /\ g \subseteq Group /\ \A x \in g : <<Requester, x>> \in rows
    BY DEF FriendsOf, GroupsOf, TypesOK
  <2> DEFINE a == [kind |-> "login", user |-> Requester, errno |-> 0,
                   friends |-> f, groups |-> g]
  <2>3. sent[handling.request].kind = "login" /\ Requester \in User
    BY <1>2, <1>4, RequestFields DEF LoginAnswered, At, Requester
  <2>5. /\ a \in Message /\ a.kind = "login" /\ a.user = sent[handling.request].user
        /\ a.friends = f /\ a.groups = g
    BY <2>2, <2>3 DEF Message, Requester
  <2>6. Answer(a)
    BY <2>1
  <2> HIDE DEF a
  <2>7. Replies(a)
    BY <1>1, <1>4, <2>2, <2>3, <2>5, <2>6
    DEF LoginAnswered, Replies, TypesOK, tableVars, Requester
  <2> QED
    BY <2>7
<1>5. CASE RegisterHandler
  <2>1. PICK e \in {0, 1} : Answer([kind |-> "register", errno |-> e])
    BY <1>5 DEF RegisterHandler
  <2> DEFINE a == [kind |-> "register", errno |-> e]
  <2>2. sent[handling.request].kind = "register" /\ accounts' \subseteq User
    BY <1>5 DEF RegisterHandler, At, TypesOK
  <2>3. a \in Message /\ a.kind = "register"
    BY DEF Message
  <2>4. Answer(a)
    BY <2>1
  <2> HIDE DEF a
  <2>5. Replies(a)
    BY <1>1, <1>5, <2>2, <2>3, <2>4 DEF RegisterHandler, Replies
  <2> QED
    BY <2>5
<1> QED
  BY <1>3, <1>4, <1>5

LEMMA StepKinds ==
    ASSUME TypesOK, Asked, Answered, [Next]_vars
    PROVE  \/ Walks \/ Works \/ Released \/ Post \/ Push
           \/ \E r : Writes(r)
           \/ \E a : Replies(a)
           \/ \E n \in 1..Len(toClient) : Recv(n)
           \/ \E n \in 1..Len(toServer) : OnMessage(n)
<1>1. ASSUME main = "mainMenu"
      PROVE  g_currentUser \in User
  <2>1. PICK k \in DOMAIN answers :
           answers[k].kind = "login" /\ g_currentUser = answers[k].user
    BY <1>1 DEF Answered, InMenu, Gone
  <2>2. answers[k] \in Message
    BY ElementOfSeq, LenProperties DEF TypesOK
  <2> QED
    BY <2>1, <2>2, MessageFields
<1>2. ChooseLogin \/ Quit \/ RecvEnd \/ (\E u \in User : Elsewhere(u)) \/ UNCHANGED vars
         => Walks
  BY DEF ChooseLogin, Quit, RecvEnd, Elsewhere, Walks, vars, threadVars, dataVars,
         serverVars, tableVars, upVars, downVars
<1> QED
  BY <1>1, <1>2, WritesSteps, WorksSteps, RepliesSteps
  DEF Next, Person, ReadTask, ServerLoop, Handler

-----------------------------------------------------------------------------
(* What the histories gain and keep.                                       *)

LEMMA Longer ==
    ASSUME NEW S, NEW q \in Seq(S), NEW x \in S
    PROVE  /\ Append(q, x) \in Seq(S)
           /\ Len(Append(q, x)) = Len(q) + 1 /\ Len(q) \in Nat
           /\ DOMAIN q = 1 .. Len(q)
           /\ DOMAIN Append(q, x) = 1 .. Len(q) + 1
           /\ \A i \in 1 .. Len(q) : Append(q, x)[i] = q[i]
           /\ Append(q, x)[Len(q) + 1] = x
BY AppendProperties, LenProperties

LEMMA WritesHistory ==
    ASSUME TypesOK, StreamsOK, NEW r, Writes(r)
    PROVE  /\ sent' \in Seq(Request) /\ Len(sent') = Len(sent) + 1
           /\ Len(sent) \in Nat /\ DOMAIN sent = 1 .. Len(sent)
           /\ DOMAIN sent' = 1 .. Len(sent) + 1
           /\ \A i \in DOMAIN sent : i \in DOMAIN sent' /\ sent'[i] = sent[i]
           /\ sent'[Len(sent')] = r
           /\ \A p \in DOMAIN toServer :
                 toServer[p][1] \in DOMAIN sent /\ toServer[p][1] # Len(sent')
           /\ \A p \in DOMAIN toServer' :
                 \/ p \in DOMAIN toServer /\ toServer'[p] = toServer[p]
                 \/ toServer'[p][1] = Len(sent')
<1>1. /\ sent' \in Seq(Request) /\ Len(sent') = Len(sent) + 1
      /\ Len(sent) \in Nat /\ DOMAIN sent = 1 .. Len(sent)
      /\ DOMAIN sent' = 1 .. Len(sent) + 1
      /\ \A i \in 1 .. Len(sent) : sent'[i] = sent[i]
      /\ sent'[Len(sent) + 1] = r
  BY Longer DEF Writes, TypesOK
<1>2. \A i \in DOMAIN sent : i \in DOMAIN sent' /\ sent'[i] = sent[i]
  BY <1>1
<1>3. \A p \in DOMAIN toServer :
         toServer[p][1] \in DOMAIN sent /\ toServer[p][1] # Len(sent')
  BY <1>1 DEF StreamsOK
<1>4. ASSUME NEW p \in DOMAIN toServer'
      PROVE  \/ p \in DOMAIN toServer /\ toServer'[p] = toServer[p]
             \/ toServer'[p][1] = Len(sent')
  <2>1. CASE server = "up"
    <3>1. toServer' = toServer \o Parts(Len(sent) + 1)
      BY <2>1 DEF Writes
    <3>2. toServer \in Seq(Part) /\ Len(sent) + 1 \in Nat
      BY <1>1 DEF StreamsOK
    <3>3. /\ DOMAIN toServer' = 1 .. Len(toServer) + 2
          /\ \A i \in 1 .. Len(toServer) : toServer'[i] = toServer[i]
          /\ toServer'[Len(toServer) + 1] = <<Len(sent) + 1, 1>>
          /\ toServer'[Len(toServer) + 2] = <<Len(sent) + 1, 2>>
      BY <3>1, <3>2, Sending
    <3>4. Len(toServer) \in Nat /\ DOMAIN toServer = 1 .. Len(toServer)
      BY <3>2, LenProperties
    <3>5. p \in 1 .. Len(toServer) \/ p = Len(toServer) + 1 \/ p = Len(toServer) + 2
      BY <3>3, <3>4
    <3> QED
      BY <1>1, <3>3, <3>4, <3>5
  <2>2. CASE server # "up"
    BY <2>2 DEF Writes
  <2> QED
    BY <2>1, <2>2
<1> QED
  BY <1>1, <1>2, <1>3, <1>4

LEMMA AnswerHistory ==
    ASSUME TypesOK, StreamsOK, NEW a \in Message, Answer(a)
    PROVE  /\ answers' \in Seq(Message) /\ Len(answers') = Len(answers) + 1
           /\ Len(answers) \in Nat /\ DOMAIN answers = 1 .. Len(answers)
           /\ DOMAIN answers' = 1 .. Len(answers) + 1
           /\ \A i \in DOMAIN answers : answers'[i] = answers[i]
           /\ answers'[Len(answers')] = a
           /\ \A p \in DOMAIN toClient : toClient[p][1] \in DOMAIN answers
           /\ Stream(toClient', Len(answers'))
           /\ \A p \in DOMAIN toClient' :
                 \/ p \in DOMAIN toClient /\ toClient'[p] = toClient[p]
                 \/ toClient'[p][1] = Len(answers')
           /\ (toClient' # <<>> /\ (toClient # <<>> => toClient[1][2] = 1))
                 => toClient'[1][2] = 1
<1>1. /\ answers' \in Seq(Message) /\ Len(answers') = Len(answers) + 1
      /\ Len(answers) \in Nat /\ DOMAIN answers = 1 .. Len(answers)
      /\ DOMAIN answers' = 1 .. Len(answers) + 1
      /\ \A i \in 1 .. Len(answers) : answers'[i] = answers[i]
      /\ answers'[Len(answers) + 1] = a
  BY Longer DEF Answer, TypesOK
<1>2. toClient \in Seq(Part) /\ toClient' = toClient \o Parts(Len(answers) + 1)
  BY <1>1 DEF Answer, StreamsOK, Stream
<1>3. Stream(toClient', Len(answers'))
  BY <1>1, <1>2, StreamGrows DEF StreamsOK
<1>4. Len(answers) + 1 \in Nat
  BY <1>1
<1>5. /\ DOMAIN toClient' = 1 .. Len(toClient) + 2
      /\ \A i \in 1 .. Len(toClient) : toClient'[i] = toClient[i]
      /\ toClient'[Len(toClient) + 1] = <<Len(answers) + 1, 1>>
      /\ toClient'[Len(toClient) + 2] = <<Len(answers) + 1, 2>>
  BY <1>2, <1>4, Sending
<1>6. Len(toClient) \in Nat /\ DOMAIN toClient = 1 .. Len(toClient)
  BY <1>2, LenProperties
<1>7. ASSUME NEW p \in DOMAIN toClient'
      PROVE  \/ p \in DOMAIN toClient /\ toClient'[p] = toClient[p]
             \/ toClient'[p][1] = Len(answers')
  <2>1. p \in 1 .. Len(toClient) \/ p = Len(toClient) + 1 \/ p = Len(toClient) + 2
    BY <1>5, <1>6
  <2> QED
    BY <1>1, <1>5, <1>6, <2>1
<1>8. (toClient # <<>> => toClient[1][2] = 1) => toClient'[1][2] = 1
  <2>1. CASE toClient = <<>>
    <3>1. Len(toClient) = 0
      BY <2>1
    <3> QED
      BY <1>5, <3>1
  <2>2. CASE toClient # <<>>
    <3>1. 1 \in 1 .. Len(toClient)
      BY <1>2, <1>6, <2>2, EmptySeq
    <3> QED
      BY <1>5, <2>2, <3>1
  <2> QED
    BY <2>1, <2>2
<1>9. \A p \in DOMAIN toClient : toClient[p][1] \in DOMAIN answers
  BY <1>1 DEF StreamsOK, Stream
<1> QED
  BY <1>1, <1>3, <1>7, <1>8, <1>9

(* The first part that the client reads belongs to a whole message.        *)
LEMMA RecvRest ==
    ASSUME TypesOK, StreamsOK, NEW n \in 1..Len(toClient), Recv(n)
    PROVE  /\ toClient[1][1] \in DOMAIN answers /\ answers[toClient[1][1]] \in Message
           /\ 1 \in DOMAIN toClient
           /\ Stream(toClient', Len(answers))
           /\ n = 2 /\ toClient' # <<>> => toClient'[1][2] = 1
           /\ \A p \in DOMAIN toClient' :
                 p + n \in DOMAIN toClient /\ toClient'[p] = toClient[p + n]
<1>1. /\ toClient' = SubSeq(toClient, n + 1, Len(toClient))
      /\ Stream(toClient, Len(answers)) /\ toClient \in Seq(Part)
      /\ Len(answers) \in Nat /\ DOMAIN answers = 1 .. Len(answers)
      /\ Len(toClient) \in Nat /\ DOMAIN toClient = 1 .. Len(toClient)
  BY LenProperties DEF Recv, StreamsOK, Stream, TypesOK
<1>2. Stream(toClient', Len(answers))
  BY <1>1, StreamShrinks
<1>3. /\ DOMAIN toClient' = 1 .. Len(toClient) - n
      /\ \A p \in 1 .. Len(toClient) - n :
            p + n \in DOMAIN toClient /\ toClient'[p] = toClient[p + n]
  BY <1>1, Reading
<1>4. 1 \in DOMAIN toClient
  BY <1>1
<1>5. toClient[1][1] \in DOMAIN answers
  BY <1>1, <1>4 DEF Stream
<1>6. answers[toClient[1][1]] \in Message
  BY <1>1, <1>5, ElementOfSeq DEF TypesOK
<1>7. ASSUME n = 2, toClient' # <<>>
      PROVE  toClient'[1][2] = 1
  <2>1. 1 \in DOMAIN toClient'
    BY <1>2, <1>7, EmptySeq, LenProperties DEF Stream
  <2>2. 3 \in DOMAIN toClient /\ toClient'[1] = toClient[3]
    BY <1>3, <1>7, <2>1
  <2>3. toClient[1][2] = 1
    <3>1. toClient # <<>>
      BY <1>1, EmptySeq
    <3> QED
      BY <3>1 DEF StreamsOK, Recv
  <2>4. 2 * toClient[1][1] + toClient[1][2] - 1 = 2 * toClient[3][1] + toClient[3][2] - 3
    BY <1>1, <1>4, <2>2, StreamOrder
  <2>5. /\ toClient[1][1] \in Nat /\ toClient[3][1] \in Nat
        /\ toClient[3][2] \in {1, 2}
    BY <1>1, <1>4, <2>2, PartFields
  <2> DEFINE a == toClient[1][1]
             b == toClient[3][1]
             c == toClient[3][2]
  <2>6. a \in Nat /\ b \in Nat /\ c \in {1, 2} /\ 2 * a + 1 - 1 = 2 * b + c - 3
    BY <2>3, <2>4, <2>5
  <2> HIDE DEF a, b, c
  <2>7. c = 1
    BY <2>6
  <2> QED
    BY <2>2, <2>7 DEF c
<1> QED
  BY <1>2, <1>3, <1>4, <1>5, <1>6, <1>7

(* What the server leaves of what it reads from; when it survives the read *)
(* and takes a request, the request is followed by its second part and by  *)
(* later requests.                                                         *)
LEMMA OnMessageRest ==
    ASSUME TypesOK, StreamsOK, NEW n \in 1..Len(toServer), OnMessage(n)
    PROVE  /\ toServer' \in Seq(Part)
           /\ Stream(toServer', Len(sent))
           /\ 1 \in DOMAIN toServer /\ toServer[1][1] \in DOMAIN sent
           /\ \A p \in DOMAIN toServer' :
                 p + n \in DOMAIN toServer /\ toServer'[p] = toServer[p + n]
           /\ toServer[1][2] = 1 => \A p \in DOMAIN toServer' :
                 toServer'[p][2] = 1 => toServer'[p][1] > toServer[1][1]
<1>1. /\ toServer' = SubSeq(toServer, n + 1, Len(toServer))
      /\ Stream(toServer, Len(sent)) /\ toServer \in Seq(Part)
      /\ Len(sent) \in Nat /\ DOMAIN sent = 1 .. Len(sent)
      /\ Len(toServer) \in Nat /\ DOMAIN toServer = 1 .. Len(toServer)
  BY LenProperties DEF OnMessage, StreamsOK, Stream, TypesOK
<1>2. Stream(toServer', Len(sent))
  BY <1>1, StreamShrinks
<1>3. /\ DOMAIN toServer' = 1 .. Len(toServer) - n
      /\ \A p \in 1 .. Len(toServer) - n :
            p + n \in DOMAIN toServer /\ toServer'[p] = toServer[p + n]
  BY <1>1, Reading
<1>4. 1 \in DOMAIN toServer
  BY <1>1
<1>5. toServer[1][1] \in DOMAIN sent
  BY <1>1, <1>4 DEF Stream
<1>6. ASSUME toServer[1][2] = 1, NEW p \in DOMAIN toServer', toServer'[p][2] = 1
      PROVE  toServer'[p][1] > toServer[1][1]
  <2>1. p + n \in DOMAIN toServer /\ toServer'[p] = toServer[p + n] /\ p \in Nat
        /\ p >= 1 /\ n \in Nat /\ n >= 1
    BY <1>1, <1>3
  <2>2. 2 * toServer[1][1] + toServer[1][2] - 1
           = 2 * toServer[p + n][1] + toServer[p + n][2] - (p + n)
    BY <1>1, <1>4, <2>1, StreamOrder
  <2>3. toServer[1][1] \in Nat /\ toServer[p + n][1] \in Nat
    BY <1>1, <1>4, <2>1, PartFields
  <2> DEFINE a == toServer[1][1]
             b == toServer[p + n][1]
  <2>4. /\ a \in Nat /\ b \in Nat /\ p \in Nat /\ p >= 1 /\ n \in Nat /\ n >= 1
        /\ 2 * a + 1 - 1 = 2 * b + 1 - (p + n)
    BY <1>6, <2>1, <2>2, <2>3
  <2> HIDE DEF a, b
  <2>5. b > a
    BY <2>4
  <2> QED
    BY <2>1, <2>5 DEF a, b
<1> QED
  BY <1>1, <1>2, <1>3, <1>4, <1>5, <1>6 DEF Stream

-----------------------------------------------------------------------------
(* Types and streams are kept.                                             *)

LEMMA OnMessageTakes ==
    ASSUME TypesOK, StreamsOK, NEW n \in 1..Len(toServer), OnMessage(n)
    PROVE  /\ handling = Idle
           /\ \/ server' = "down" /\ UNCHANGED <<handling, swallowed>>
              \/ /\ toServer[1][2] = 1 /\ UNCHANGED server
                 /\ handling' = [step |-> "begin", request |-> toServer[1][1]]
                 /\ handling' # Idle /\ handling' \in Handling
                 /\ handling'.request = toServer[1][1] /\ handling'.step = "begin"
                 /\ swallowed' = swallowed \cup {toServer[i][1] : i \in 3..n}
<1>1. toServer[1][1] \in Nat \ {0}
  <2>1. toServer[1][1] \in DOMAIN sent /\ sent \in Seq(Request)
    BY OnMessageRest DEF TypesOK
  <2> QED
    BY <2>1, LenProperties
<1>2. [step |-> "begin", request |-> toServer[1][1]] \in Handling
  BY <1>1 DEF Handling, HandlerStep
<1>3. [step |-> "begin", request |-> toServer[1][1]] # Idle
  BY DEF Idle
<1> QED
  BY <1>2, <1>3 DEF OnMessage

LEMMA TypesStep ==
    ASSUME TypesOK, StreamsOK, Asked, Answered, [Next]_vars
    PROVE  TypesOK'
<1>1. CASE Walks
  BY <1>1 DEF Walks, TypesOK, upVars
<1>2. ASSUME NEW r, Writes(r)
      PROVE  TypesOK'
  <2>1. sent' \in Seq(Request) /\ \A i \in DOMAIN sent : i \in DOMAIN sent'
    BY <1>2, WritesHistory
  <2> QED
    BY <1>2, <2>1 DEF Writes, TypesOK, serverVars, tableVars, downVars
<1>3. CASE Works
  <2>1. handling' \in Handling /\ (handling' # Idle => handling'.request = handling.request)
    <3>1. handling.request \in Nat \ {0}
      BY <1>3, HandlingFields DEF Works, TypesOK
    <3>2. \A s \in HandlerStep :
             /\ [step |-> s, request |-> handling.request] \in Handling
             /\ [step |-> s, request |-> handling.request].request = handling.request
      BY <3>1 DEF Handling
    <3>3. Idle \in Handling
      BY DEF Handling
    <3> QED
      BY <1>3, <3>2, <3>3 DEF Works
  <2> QED
    BY <1>3, <2>1 DEF Works, TypesOK, threadVars, upVars, downVars
<1>4. ASSUME NEW a, Replies(a)
      PROVE  TypesOK'
  <2>1. answers' \in Seq(Message)
    BY <1>4, AnswerHistory DEF Replies
  <2>2. Idle \in Handling
    BY DEF Handling
  <2> QED
    BY <1>4, <2>1, <2>2 DEF Replies, TypesOK, threadVars, upVars
<1>5. CASE Released \/ Post
  BY <1>5 DEF Released, Post, TypesOK, serverVars, tableVars, upVars, downVars
<1>6. CASE Push
  <2>1. Answer([kind |-> "chat"]) /\ [kind |-> "chat"] \in Message
    BY <1>6 DEF Push, Message
  <2>2. answers' \in Seq(Message)
    BY <2>1, AnswerHistory
  <2> QED
    BY <1>6, <2>2 DEF Push, TypesOK, threadVars, serverVars, tableVars, upVars
<1>7. ASSUME NEW n \in 1..Len(toClient), Recv(n)
      PROVE  TypesOK'
  BY <1>7 DEF Recv, TypesOK, serverVars, tableVars, upVars
<1>8. ASSUME NEW n \in 1..Len(toServer), OnMessage(n)
      PROVE  TypesOK'
  <2>1. toServer[1][1] \in DOMAIN sent
    BY <1>8, OnMessageRest
  <2>2. server' \in {"up", "down"} /\ handling' \in Handling
        /\ (handling' # Idle => handling'.request \in DOMAIN sent)
    BY <1>8, <2>1, OnMessageTakes DEF TypesOK
  <2> QED
    BY <1>8, <2>2 DEF OnMessage, TypesOK, threadVars, tableVars, downVars
<1> QED
  BY <1>1, <1>2, <1>3, <1>4, <1>5, <1>6, <1>7, <1>8, StepKinds

LEMMA StreamsStep ==
    ASSUME TypesOK, StreamsOK, Asked, Answered, [Next]_vars
    PROVE  StreamsOK'
<1>1. UNCHANGED <<toClient, answers, toServer, sent, server>> /\ (Gone => Gone')
         => StreamsOK'
  BY DEF StreamsOK, Stream
<1>2. CASE Walks
  BY <1>1, <1>2 DEF Walks, upVars, Gone
<1>3. CASE Works
  BY <1>1, <1>3 DEF Works, upVars, downVars, threadVars, Gone
<1>4. CASE Released \/ Post
  BY <1>1, <1>4 DEF Released, Post, serverVars, upVars, downVars, Gone, Waiting
<1>5. ASSUME NEW r, Writes(r)
      PROVE  StreamsOK'
  <2>1. UNCHANGED <<toClient, answers, server>> /\ ~Gone
    BY <1>5 DEF Writes, serverVars, downVars, Gone
  <2>2. /\ Len(sent') = Len(sent) + 1 /\ Len(sent) \in Nat
        /\ \A p \in DOMAIN toServer :
              toServer[p][1] \in DOMAIN sent /\ DOMAIN sent = 1 .. Len(sent)
        /\ \A p \in DOMAIN toServer' :
              \/ p \in DOMAIN toServer /\ toServer'[p] = toServer[p]
              \/ toServer'[p][1] = Len(sent')
    BY <1>5, WritesHistory
  <2>3. server = "up" => Stream(toServer', Len(sent'))
    BY <1>5, <2>2, StreamGrows DEF Writes, StreamsOK
  <2>4. toServer' \in Seq(Part)
    BY <1>5, <2>3 DEF Writes, StreamsOK, Stream
  <2>5. \A p \in DOMAIN toServer' : toServer'[p][1] \in 1..Len(sent')
    BY <2>2
  <2>6. Stream(toClient', Len(answers'))
    BY <2>1 DEF StreamsOK
  <2> QED
    BY <2>1, <2>3, <2>4, <2>5, <2>6 DEF StreamsOK
<1>6. ASSUME NEW a \in Message, Answer(a),
             UNCHANGED <<toServer, sent, server, main>>
      PROVE  StreamsOK'
  <2>1. /\ Stream(toClient', Len(answers'))
        /\ (toClient' # <<>> /\ (toClient # <<>> => toClient[1][2] = 1))
              => toClient'[1][2] = 1
    BY <1>6, AnswerHistory
  <2>2. Stream(toServer, Len(sent))' <=> Stream(toServer, Len(sent))
    BY <1>6
  <2> QED
    BY <1>6, <2>1, <2>2 DEF StreamsOK, Gone
<1>7. ASSUME NEW a, Replies(a)
      PROVE  StreamsOK'
  BY <1>6, <1>7 DEF Replies, upVars, threadVars
<1>8. CASE Push
  <2>1. Answer([kind |-> "chat"]) /\ [kind |-> "chat"] \in Message
    BY <1>8 DEF Push, Message
  <2> QED
    BY <1>6, <1>8, <2>1 DEF Push, upVars, threadVars, serverVars
<1>9. ASSUME NEW n \in 1..Len(toClient), Recv(n)
      PROVE  StreamsOK'
  <2>1. /\ Stream(toClient', Len(answers))
        /\ n = 2 /\ toClient' # <<>> => toClient'[1][2] = 1
    BY <1>9, RecvRest
  <2>2. /\ UNCHANGED <<answers, toServer, sent, server>>
        /\ n # 2 => Gone'
    BY <1>9 DEF Recv, serverVars, upVars, Gone
  <2>3. Stream(toServer, Len(sent))' <=> Stream(toServer, Len(sent))
    BY <2>2
  <2> QED
    BY <2>1, <2>2, <2>3 DEF StreamsOK
<1>10. ASSUME NEW n \in 1..Len(toServer), OnMessage(n)
       PROVE  StreamsOK'
  <2>1. toServer' \in Seq(Part) /\ Stream(toServer', Len(sent))
    BY <1>10, OnMessageRest
  <2>2. UNCHANGED <<toClient, answers, sent, main>>
    BY <1>10 DEF OnMessage, downVars, threadVars
  <2>3. \A p \in DOMAIN toServer' : toServer'[p][1] \in 1..Len(sent)
    BY <2>1 DEF Stream
  <2>4. Stream(toClient, Len(answers))' <=> Stream(toClient, Len(answers))
    BY <2>2
  <2> QED
    BY <2>1, <2>2, <2>3, <2>4 DEF StreamsOK, Gone
<1> QED
  BY <1>2, <1>3, <1>4, <1>5, <1>7, <1>8, <1>9, <1>10, StepKinds

(* Before every request that a read hands over there is none that waits.   *)
LEMMA LastUnreadStep ==
    ASSUME TypesOK, StreamsOK, Asked, Answered, Turn, LastUnread, [Next]_vars
    PROVE  LastUnread'
<1>1. UNCHANGED <<toServer, sent>> => LastUnread'
  BY DEF LastUnread
<1>2. CASE Walks \/ Works \/ Released \/ Post \/ Push
  BY <1>1, <1>2 DEF Walks, Works, Released, Post, Push, upVars
<1>3. ASSUME NEW a, Replies(a)
      PROVE  LastUnread'
  BY <1>1, <1>3 DEF Replies, upVars
<1>4. ASSUME NEW n \in 1..Len(toClient), Recv(n)
      PROVE  LastUnread'
  BY <1>1, <1>4 DEF Recv, upVars
<1>5. ASSUME NEW r, Writes(r)
      PROVE  LastUnread'
  <2>1. ~Unread
    BY <1>5 DEF Writes, Turn, Gone, Waiting
  <2>2. /\ \A i \in DOMAIN sent : sent'[i] = sent[i]
        /\ \A p \in DOMAIN toServer : toServer[p][1] \in DOMAIN sent
        /\ \A p \in DOMAIN toServer' :
              \/ p \in DOMAIN toServer /\ toServer'[p] = toServer[p]
              \/ toServer'[p][1] = Len(sent')
    BY <1>5, WritesHistory
  <2> QED
    BY <2>1, <2>2 DEF LastUnread, Unread
<1>6. ASSUME NEW n \in 1..Len(toServer), OnMessage(n)
      PROVE  LastUnread'
  <2>1. \A p \in DOMAIN toServer' :
           p + n \in DOMAIN toServer /\ toServer'[p] = toServer[p + n]
    BY <1>6, OnMessageRest
  <2>2. sent' = sent
    BY <1>6 DEF OnMessage
  <2> QED
    BY <2>1, <2>2 DEF LastUnread
<1> QED
  BY <1>2, <1>3, <1>4, <1>5, <1>6, StepKinds

LEMMA AskedStep ==
    ASSUME TypesOK, StreamsOK, Asked, Answered, [Next]_vars
    PROVE  Asked'
<1>1. CASE Walks
  BY <1>1 DEF Walks, Asked, Waiting, upVars
<1>2. ASSUME NEW r, Writes(r)
      PROVE  Asked'
  <2>1. /\ Len(sent') = Len(sent) + 1 /\ Len(sent) \in Nat /\ sent'[Len(sent')] = r
        /\ \A i \in DOMAIN sent : sent'[i] = sent[i]
    BY <1>2, WritesHistory
  <2> QED
    BY <1>2, <2>1 DEF Writes, Asked, Waiting
<1>3. CASE Works
  BY <1>3 DEF Works, Asked, Waiting, threadVars, upVars
<1>4. ASSUME NEW a, Replies(a)
      PROVE  Asked'
  BY <1>4 DEF Replies, Asked, Waiting, threadVars, upVars
<1>5. CASE Released \/ Post
  BY <1>5 DEF Released, Post, Asked, Waiting, serverVars, upVars
<1>6. CASE Push
  BY <1>6 DEF Push, Asked, Waiting, threadVars, serverVars, upVars
<1>7. ASSUME NEW n \in 1..Len(toClient), Recv(n)
      PROVE  Asked'
  <2>1. main' = main \/ main' = "gone"
    BY <1>7 DEF Recv
  <2>2. sent' = sent
    BY <1>7 DEF Recv, upVars
  <2> QED
    BY <2>1, <2>2 DEF Asked, Waiting
<1>8. ASSUME NEW n \in 1..Len(toServer), OnMessage(n)
      PROVE  Asked'
  BY <1>8 DEF OnMessage, Asked, Waiting, threadVars
<1> QED
  BY <1>1, <1>2, <1>3, <1>4, <1>5, <1>6, <1>7, <1>8, StepKinds

-----------------------------------------------------------------------------
(* Whose turn it is.                                                       *)

(* Behind a whole message the client reads only later ones.                *)
LEMMA RecvOrder ==
    ASSUME TypesOK, StreamsOK, 2 \in 1..Len(toClient), Recv(2)
    PROVE  \A p \in DOMAIN toClient' :
              /\ toClient'[p][1] \in DOMAIN answers
              /\ toClient'[p][1] > toClient[1][1]
<1> SUFFICES ASSUME NEW p \in DOMAIN toClient'
             PROVE  /\ toClient'[p][1] \in DOMAIN answers
                    /\ toClient'[p][1] > toClient[1][1]
  OBVIOUS
<1>1. /\ Stream(toClient, Len(answers)) /\ Stream(toClient', Len(answers))
      /\ 1 \in DOMAIN toClient
      /\ p + 2 \in DOMAIN toClient /\ toClient'[p] = toClient[p + 2]
  BY RecvRest DEF StreamsOK
<1>2. p \in Nat /\ p >= 1 /\ Len(answers) \in Nat /\ DOMAIN answers = 1..Len(answers)
  BY <1>1, PartFields, LenProperties DEF Stream, TypesOK
<1> DEFINE a == toClient[1][1]
           b == toClient[p + 2][1]
           c == toClient[1][2]
           d == toClient[p + 2][2]
<1>3. /\ 2 * a + c - 1 = 2 * b + d - (p + 2)
      /\ c \in {1, 2} /\ d \in {1, 2} /\ a \in 1..Len(answers) /\ b \in 1..Len(answers)
  <2>1. Len(answers) \in Nat
    BY <1>2
  <2> HIDE DEF a, b, c, d
  <2> QED
    BY <1>1, <2>1, StreamOrder DEF a, b, c, d
<1> HIDE DEF a, b, c, d
<1>4. a \in Nat /\ b \in Nat
  BY <1>2, <1>3
<1>5. b > a
  BY <1>2, <1>3, <1>4
<1> QED
  BY <1>1, <1>2, <1>3, <1>5 DEF a, b

LEMMA TurnWrites ==
    ASSUME TypesOK, StreamsOK, Asked, Turn, NEW r, Writes(r)
    PROVE  Turn'
<1>1. ~Unread /\ ~InHandler /\ ~OnTheWay /\ ~Taken /\ ~Posted /\ rwsem <= 1
  BY DEF Writes, Turn, Gone, Waiting
<1>2. UNCHANGED <<reader, rwsem, handling, toClient, answers>>
  BY DEF Writes, serverVars, downVars
<1>3. /\ \A i \in DOMAIN sent : sent'[i] = sent[i]
      /\ sent'[Len(sent')] = r
      /\ \A p \in DOMAIN toServer : toServer[p][1] \in DOMAIN sent
      /\ \A p \in DOMAIN toServer' :
            \/ p \in DOMAIN toServer /\ toServer'[p] = toServer[p]
            \/ toServer'[p][1] = Len(sent')
  BY WritesHistory
<1>4. ~InHandler' /\ ~OnTheWay' /\ ~Taken' /\ ~Posted' /\ rwsem' <= 1
  <2>1. handling # Idle => sent'[handling.request] = sent[handling.request]
    BY <1>3 DEF TypesOK
  <2> QED
    BY <1>1, <1>2, <2>1 DEF InHandler, OnTheWay, Taken, Posted
<1>5. Unread' => Asks(r)
  <2> SUFFICES ASSUME NEW p \in DOMAIN toServer', toServer'[p][2] = 1,
                      Asks(sent'[toServer'[p][1]])
               PROVE  Asks(r)
    BY DEF Unread
  <2>1. CASE p \in DOMAIN toServer /\ toServer'[p] = toServer[p]
    BY <1>1, <1>3, <2>1 DEF Unread
  <2>2. CASE toServer'[p][1] = Len(sent')
    BY <1>3, <2>2
  <2> QED
    BY <1>3, <2>1, <2>2
<1>6. Asks(r) => Waiting'
  BY DEF Writes, Waiting, Asks
<1> QED
  BY <1>4, <1>5, <1>6 DEF Turn

LEMMA TurnReplies ==
    ASSUME TypesOK, StreamsOK, Asked, Turn, ~Gone, NEW a, Replies(a)
    PROVE  Turn'
<1>1. InHandler
  BY DEF Replies, InHandler, Asks
<1>2. /\ Waiting /\ NothingBegun /\ ~Unread /\ ~OnTheWay /\ ~Taken /\ ~Posted
      /\ rwsem <= 1
  BY <1>1 DEF Turn
<1>3. UNCHANGED <<main, reader, rwsem, toServer, sent>> /\ handling' = Idle
  BY DEF Replies, threadVars, upVars
<1>4. /\ Waiting' /\ NothingBegun' /\ ~Unread' /\ ~Taken' /\ ~Posted' /\ rwsem' <= 1
      /\ ~InHandler'
  BY <1>2, <1>3 DEF Waiting, NothingBegun, Unread, Taken, Posted, InHandler
<1> QED
  BY <1>3, <1>4 DEF Turn

LEMMA TurnRecv ==
    ASSUME TypesOK, StreamsOK, Turn, Answered, NEW n \in 1..Len(toClient), Recv(n)
    PROVE  Turn'
<1>1. CASE n # 2
  BY <1>1 DEF Recv, Turn, Gone
<1>2. CASE n = 2
  <2>1. /\ UNCHANGED <<main, rwsem, handling, toServer, sent, answers>>
        /\ ~Gone /\ reader = "idle"
        /\ reader' = IF answers[toClient[1][1]].kind = "chat" THEN "idle"
                     ELSE "answered"
    BY <1>2 DEF Recv, serverVars, upVars
  <2>2. /\ 1 \in DOMAIN toClient
        /\ \A p \in DOMAIN toClient' :
              p + n \in DOMAIN toClient /\ toClient'[p] = toClient[p + n]
    BY RecvRest
  <2>3. OnTheWay' => OnTheWay
    BY <2>1, <2>2 DEF OnTheWay
  <2>4. ~Taken
    BY <2>1 DEF Taken
  <2>5. (Unread' <=> Unread) /\ (InHandler' <=> InHandler)
    BY <2>1 DEF Unread, InHandler
  <2>6. (Posted' <=> Posted) /\ (Waiting' <=> Waiting)
        /\ (NothingBegun' <=> NothingBegun)
    BY <2>1 DEF Posted, Waiting, NothingBegun
  <2>7. CASE IsAnswer(answers[toClient[1][1]])
    <3>1. OnTheWay
      BY <2>2, <2>7 DEF OnTheWay
    <3>2. IsLastAnswer(toClient[1][1])
      BY <2>1, <2>2, <2>7 DEF Answered
    <3>3. ~OnTheWay'
      BY <1>2, <2>1, <3>2, RecvOrder DEF OnTheWay, IsLastAnswer
    <3> QED
      BY <2>1, <2>4, <2>5, <2>6, <3>1, <3>3 DEF Turn
  <2>8. CASE ~IsAnswer(answers[toClient[1][1]])
    <3>1. ~Taken'
      BY <2>1, <2>8 DEF IsAnswer, Taken
    <3> QED
      BY <2>1, <2>3, <2>5, <2>6, <3>1 DEF Turn
  <2> QED
    BY <2>7, <2>8
<1> QED
  BY <1>1, <1>2

LEMMA TurnOnMessage ==
    ASSUME TypesOK, StreamsOK, LastUnread, Turn, ~Gone,
           NEW n \in 1..Len(toServer), OnMessage(n)
    PROVE  Turn'
<1>1. UNCHANGED <<main, reader, rwsem, toClient, answers, sent>> /\ handling = Idle
  BY DEF OnMessage, threadVars, downVars
<1>2. /\ 1 \in DOMAIN toServer
      /\ \A p \in DOMAIN toServer' :
            p + n \in DOMAIN toServer /\ toServer'[p] = toServer[p + n]
      /\ toServer[1][2] = 1 => \A p \in DOMAIN toServer' :
            toServer'[p][2] = 1 => toServer'[p][1] > toServer[1][1]
  BY OnMessageRest
<1>3. /\ (OnTheWay' <=> OnTheWay) /\ (Taken' <=> Taken) /\ (Posted' <=> Posted)
      /\ (Waiting' <=> Waiting) /\ ~InHandler
  BY <1>1 DEF OnTheWay, Taken, Posted, Waiting, InHandler
<1>4. Unread' => Unread
  BY <1>1, <1>2 DEF Unread
<1>5. NothingBegun => NothingBegun' /\ (toServer[1][2] = 1 => FALSE)
  BY <1>2 DEF NothingBegun
<1>6. CASE handling' = handling
  <2>1. ~InHandler' /\ handling' = Idle
    BY <1>1, <1>6 DEF InHandler
  <2> QED
    BY <1>1, <1>3, <1>4, <1>5, <2>1 DEF Turn
<1>7. CASE toServer[1][2] = 1 /\ handling'.request = toServer[1][1]
  <2>1. ~NothingBegun /\ ~OnTheWay /\ ~Taken /\ ~Posted
    BY <1>5, <1>7 DEF Turn
  <2>2. InHandler' => Unread /\ Asks(sent[toServer[1][1]])
    BY <1>1, <1>2, <1>7 DEF InHandler, Unread
  <2>3. ASSUME InHandler'
        PROVE  /\ handling'.request = Len(sent')
               /\ NothingBegun'
    <3>1. toServer[1][1] = Len(sent)
      BY <1>2, <1>7, <2>2, <2>3 DEF LastUnread
    <3>2. /\ toServer' \in Seq(Part) /\ Stream(toServer', Len(sent))
          /\ Len(sent) \in Nat
      BY OnMessageRest, LenProperties DEF TypesOK
    <3>3. ASSUME NEW p \in DOMAIN toServer'
          PROVE  toServer'[p][2] = 2
      <4>1. toServer'[p][2] \in {1, 2}
        BY <3>2, PartFields
      <4>2. toServer'[p][1] \in 1..Len(sent)
        BY <3>2 DEF Stream
      <4>3. ~(toServer'[p][1] > Len(sent))
        BY <3>2, <4>2
      <4> QED
        BY <1>2, <1>7, <3>1, <4>1, <4>3
    <3> QED
      BY <1>1, <1>7, <3>1, <3>3 DEF NothingBegun
  <2>4. InHandler' => ~Unread'
    BY <2>3 DEF NothingBegun, Unread
  <2> QED
    BY <1>1, <1>3, <1>4, <2>1, <2>2, <2>3, <2>4 DEF Turn
<1> QED
  BY <1>1, <1>6, <1>7, OnMessageTakes

LEMMA TurnStep ==
    ASSUME TypesOK, StreamsOK, Asked, Answered, Turn, LastUnread, [Next]_vars
    PROVE  Turn'
<1>1. CASE Walks
  <2>1. UNCHANGED <<reader, rwsem, handling, toServer, sent, toClient, answers>>
    BY <1>1 DEF Walks, upVars
  <2>2. /\ (Unread' <=> Unread) /\ (InHandler' <=> InHandler) /\ (OnTheWay' <=> OnTheWay)
    BY <2>1 DEF Unread, InHandler, OnTheWay
  <2>3. /\ (Taken' <=> Taken) /\ (Posted' <=> Posted) /\ (NothingBegun' <=> NothingBegun)
    BY <2>1 DEF Taken, Posted, NothingBegun
  <2>4. \/ (Waiting' <=> Waiting) /\ (Gone' <=> Gone)
        \/ ~Waiting /\ ~Gone /\ ~Waiting'
        \/ Gone'
    BY <1>1 DEF Walks, Waiting, Gone
  <2> QED
    BY <2>1, <2>2, <2>3, <2>4 DEF Turn
<1>2. CASE Works
  <2>1. /\ UNCHANGED <<main, reader, rwsem, toServer, sent, toClient, answers>>
        /\ handling # Idle
        /\ handling' = Idle \/ handling'.request = handling.request
    BY <1>2 DEF Works, threadVars, upVars, downVars
  <2>2. /\ (Unread' <=> Unread) /\ (InHandler' => InHandler) /\ (OnTheWay' <=> OnTheWay)
    BY <2>1 DEF Unread, InHandler, OnTheWay
  <2>3. /\ (Taken' <=> Taken) /\ (Posted' <=> Posted) /\ (NothingBegun' <=> NothingBegun)
        /\ (Waiting' <=> Waiting) /\ (Gone' <=> Gone)
    BY <2>1 DEF Taken, Posted, NothingBegun, Waiting, Gone
  <2>4. InHandler' => handling'.request = handling.request
    BY <2>1 DEF InHandler
  <2> QED
    BY <2>1, <2>2, <2>3, <2>4 DEF Turn
<1>3. CASE Gone'
  BY <1>3 DEF Turn
<1>4. CASE Released
  <2>1. /\ UNCHANGED <<reader, handling, toServer, sent, toClient, answers>>
        /\ Waiting /\ rwsem > 0 /\ rwsem' = rwsem - 1 /\ ~Gone
    BY <1>4 DEF Released, serverVars, upVars, downVars, Waiting, Gone
  <2>2. rwsem \in Nat /\ rwsem <= 1 /\ Posted
    BY <2>1 DEF TypesOK, Turn, Posted
  <2>3. ~Posted' /\ rwsem' <= 1
    BY <2>1, <2>2 DEF Posted
  <2>4. ~Unread /\ ~InHandler /\ ~OnTheWay /\ ~Taken
    BY <2>1, <2>2 DEF Turn
  <2>5. ~Unread' /\ ~InHandler' /\ ~OnTheWay' /\ ~Taken'
    BY <2>1, <2>4 DEF Unread, InHandler, OnTheWay, Taken
  <2> QED
    BY <2>3, <2>5 DEF Turn
<1>5. CASE Post
  <2>1. /\ UNCHANGED <<main, handling, toServer, sent, toClient, answers>>
        /\ Taken /\ ~Taken' /\ rwsem' = rwsem + 1 /\ ~Gone
    BY <1>5 DEF Post, serverVars, upVars, downVars, Taken
  <2>2. /\ Waiting /\ NothingBegun /\ handling = Idle /\ ~Unread /\ ~OnTheWay /\ ~Posted
        /\ ~InHandler
    BY <2>1 DEF Turn
  <2>3. rwsem' <= 1
    BY <2>1, <2>2 DEF TypesOK, Posted
  <2>4. /\ Waiting' /\ NothingBegun' /\ handling' = Idle /\ ~Unread' /\ ~OnTheWay'
        /\ ~InHandler'
    BY <2>1, <2>2 DEF Waiting, NothingBegun, Unread, OnTheWay, InHandler
  <2> QED
    BY <2>1, <2>3, <2>4 DEF Turn
<1>6. CASE Push
  <2>1. Answer([kind |-> "chat"]) /\ [kind |-> "chat"] \in Message
    BY <1>6 DEF Push, Message
  <2>2. /\ \A i \in DOMAIN answers : answers'[i] = answers[i]
        /\ answers'[Len(answers')] = [kind |-> "chat"]
        /\ \A p \in DOMAIN toClient : toClient[p][1] \in DOMAIN answers
        /\ \A p \in DOMAIN toClient' :
              \/ p \in DOMAIN toClient /\ toClient'[p] = toClient[p]
              \/ toClient'[p][1] = Len(answers')
    BY <2>1, AnswerHistory
  <2>3. OnTheWay' => OnTheWay
    <3> SUFFICES ASSUME NEW p \in DOMAIN toClient', IsAnswer(answers'[toClient'[p][1]])
                 PROVE  OnTheWay
      BY DEF OnTheWay, IsAnswer
    <3>1. toClient'[p][1] # Len(answers')
      BY <2>2 DEF IsAnswer
    <3> QED
      BY <2>2, <3>1 DEF OnTheWay
  <2>4. UNCHANGED <<main, reader, rwsem, handling, toServer, sent>> /\ ~Gone
    BY <1>6 DEF Push, threadVars, serverVars, upVars
  <2>5. /\ (Unread' <=> Unread) /\ (InHandler' <=> InHandler) /\ (Taken' <=> Taken)
        /\ (Posted' <=> Posted) /\ (NothingBegun' <=> NothingBegun)
        /\ (Waiting' <=> Waiting)
    BY <2>4 DEF Unread, InHandler, Taken, Posted, NothingBegun, Waiting
  <2> QED
    BY <2>3, <2>4, <2>5 DEF Turn
<1>7. ASSUME NEW r, Writes(r)
      PROVE  Turn'
  BY <1>7, TurnWrites
<1>8. ASSUME NEW a, Replies(a), ~Gone'
      PROVE  Turn'
  <2>1. ~Gone
    BY <1>8 DEF Replies, threadVars, Gone
  <2> QED
    BY <1>8, <2>1, TurnReplies
<1>9. ASSUME NEW n \in 1..Len(toClient), Recv(n)
      PROVE  Turn'
  BY <1>9, TurnRecv
<1>10. ASSUME NEW n \in 1..Len(toServer), OnMessage(n), ~Gone'
       PROVE  Turn'
  <2>1. ~Gone
    BY <1>10 DEF OnMessage, threadVars, Gone
  <2> QED
    BY <1>10, <2>1, TurnOnMessage
<1> QED
  BY <1>1, <1>2, <1>3, <1>4, <1>5, <1>6, <1>7, <1>8, <1>9, <1>10, StepKinds

-----------------------------------------------------------------------------
(* The answer that is on its way is the one main() waits for.              *)

LEMMA AnsweredReplies ==
    ASSUME TypesOK, StreamsOK, Asked, Turn, Answered, ~Gone, NEW a, Replies(a)
    PROVE  Answered'
<1>1. InHandler
  BY DEF Replies, InHandler, Asks
<1>2. /\ Waiting /\ ~OnTheWay /\ ~Taken /\ ~Posted
      /\ handling.request = Len(sent)
  BY <1>1 DEF Turn
<1>3. UNCHANGED <<main, reader, rwsem, sent>>
  BY DEF Replies, threadVars, upVars
<1>4. /\ Len(answers') = Len(answers) + 1 /\ Len(answers) \in Nat
      /\ DOMAIN answers' = 1 .. Len(answers) + 1
      /\ DOMAIN answers = 1 .. Len(answers)
      /\ \A i \in DOMAIN answers : answers'[i] = answers[i]
      /\ answers'[Len(answers')] = a
      /\ \A p \in DOMAIN toClient : toClient[p][1] \in DOMAIN answers
      /\ \A p \in DOMAIN toClient' :
            \/ p \in DOMAIN toClient /\ toClient'[p] = toClient[p]
            \/ toClient'[p][1] = Len(answers')
  BY AnswerHistory DEF Replies
<1>5. IsAnswer(a) /\ a \in Message
  BY DEF Replies, IsAnswer
<1>6. IsLastAnswer(Len(answers))'
  BY <1>4, <1>5 DEF IsLastAnswer, IsAnswer
<1>7. Meets(a)'
  <2>1. /\ a.kind = sent[Len(sent)].kind
        /\ a.kind = "login" => a.user = sent[Len(sent)].user
    BY <1>2 DEF Replies
  <2> QED
    BY <1>3, <2>1 DEF Meets, Asked
<1>8. ASSUME NEW p \in DOMAIN toClient', IsAnswer(answers'[toClient'[p][1]])
      PROVE  toClient'[p][1] = Len(answers')
  BY <1>2, <1>4, <1>8 DEF OnTheWay
<1>9. \A p \in DOMAIN toClient' : IsAnswer(answers'[toClient'[p][1]]) =>
         IsLastAnswer(toClient[p][1])' /\ Meets(answers[toClient[p][1]])'
  <2> SUFFICES ASSUME NEW p \in DOMAIN toClient', IsAnswer(answers'[toClient'[p][1]])
               PROVE  IsLastAnswer(toClient[p][1])' /\ Meets(answers[toClient[p][1]])'
    OBVIOUS
  <2>1. toClient'[p][1] = Len(answers')
    BY <1>8
  <2>2. IsLastAnswer(toClient[p][1])'
    BY <1>6, <2>1 DEF IsLastAnswer
  <2>3. answers'[toClient'[p][1]] = a
    BY <1>4, <2>1
  <2>4. Meets(answers[toClient[p][1]])'
    BY <1>7, <2>3 DEF Meets
  <2> QED
    BY <2>2, <2>4
<1>10. ~Taken' /\ ~Posted' /\ main' # "mainMenu"
  BY <1>2, <1>3 DEF Taken, Posted, Waiting
<1> QED
  BY <1>9, <1>10 DEF Answered, InMenu, IsAnswer

LEMMA AnsweredPush ==
    ASSUME TypesOK, StreamsOK, Answered, Push
    PROVE  Answered'
<1>1. Answer([kind |-> "chat"]) /\ [kind |-> "chat"] \in Message
  BY DEF Push, Message
<1>2. /\ Len(answers') = Len(answers) + 1 /\ Len(answers) \in Nat
      /\ DOMAIN answers' = 1 .. Len(answers) + 1
      /\ DOMAIN answers = 1 .. Len(answers)
      /\ \A i \in DOMAIN answers : answers'[i] = answers[i]
      /\ answers'[Len(answers')] = [kind |-> "chat"]
      /\ \A p \in DOMAIN toClient : toClient[p][1] \in DOMAIN answers
      /\ \A p \in DOMAIN toClient' :
            \/ p \in DOMAIN toClient /\ toClient'[p] = toClient[p]
            \/ toClient'[p][1] = Len(answers')
  BY <1>1, AnswerHistory
<1>3. ~IsAnswer(answers'[Len(answers')])
  BY <1>2 DEF IsAnswer
<1>4. UNCHANGED <<main, reader, rwsem, g_isLoginSuccess, g_currentUser, sent>>
      /\ ~Gone
  BY DEF Push, threadVars, dataVars, serverVars, upVars
<1>5. ASSUME NEW k \in DOMAIN answers, IsLastAnswer(k)
      PROVE  k \in DOMAIN answers' /\ IsLastAnswer(k)'
  <2>1. \A j \in DOMAIN answers' : j \in DOMAIN answers \/ j = Len(answers')
    BY <1>2
  <2>2. k \in DOMAIN answers'
    BY <1>2
  <2>3. IsAnswer(answers[k]) <=> IsAnswer(answers'[k])
    BY <1>2
  <2>4. \A j \in DOMAIN answers' : j > k => ~IsAnswer(answers'[j])
    BY <1>2, <1>3, <1>5, <2>1 DEF IsLastAnswer
  <2> QED
    BY <1>5, <2>2, <2>3, <2>4 DEF IsLastAnswer, IsAnswer
<1>6. ASSUME NEW k \in DOMAIN answers
      PROVE  /\ Meets(answers[k]) => Meets(answers[k])'
             /\ Told(answers[k]) => Told(answers[k])'
  <2>1. answers'[k] = answers[k]
    BY <1>2
  <2> QED
    BY <1>4, <2>1 DEF Meets, Told
<1>7. ASSUME NEW p \in DOMAIN toClient', IsAnswer(answers'[toClient'[p][1]])
      PROVE  IsLastAnswer(toClient[p][1])' /\ Meets(answers[toClient[p][1]])'
  <2>1. p \in DOMAIN toClient /\ toClient'[p] = toClient[p]
    BY <1>2, <1>3, <1>7
  <2>2. toClient[p][1] \in DOMAIN answers /\ IsAnswer(answers[toClient[p][1]])
    BY <1>2, <1>7, <2>1
  <2>3. IsLastAnswer(toClient[p][1]) /\ Meets(answers[toClient[p][1]])
    BY <1>4, <2>1, <2>2 DEF Answered
  <2> QED
    BY <1>5, <1>6, <2>1, <2>2, <2>3 DEF IsLastAnswer, Meets
<1>8. Taken' \/ Posted' =>
         \E k \in DOMAIN answers' :
            IsLastAnswer(k)' /\ Meets(answers[k])' /\ Told(answers[k])'
  <2> SUFFICES ASSUME Taken' \/ Posted'
               PROVE  \E k \in DOMAIN answers' :
                 IsLastAnswer(k)' /\ Meets(answers[k])' /\ Told(answers[k])'
    OBVIOUS
  <2>1. PICK k \in DOMAIN answers :
           IsLastAnswer(k) /\ Meets(answers[k]) /\ Told(answers[k])
    BY <1>4 DEF Answered, Taken, Posted
  <2> QED
    BY <1>5, <1>6, <2>1
<1>9. InMenu'
  <2> SUFFICES ASSUME main' = "mainMenu"
               PROVE  /\ g_isLoginSuccess'
                      /\ \E k \in DOMAIN answers' :
                            /\ IsLastAnswer(k)' /\ answers'[k].kind = "login"
                            /\ answers'[k].errno = 0
                            /\ g_currentUser' = answers'[k].user
    BY DEF InMenu
  <2>1. /\ g_isLoginSuccess
        /\ \E k \in DOMAIN answers :
              /\ IsLastAnswer(k) /\ answers[k].kind = "login"
              /\ answers[k].errno = 0 /\ g_currentUser = answers[k].user
    BY <1>4 DEF Answered, InMenu
  <2>2. PICK k \in DOMAIN answers :
           /\ IsLastAnswer(k) /\ answers[k].kind = "login"
           /\ answers[k].errno = 0 /\ g_currentUser = answers[k].user
    BY <2>1
  <2>3. answers'[k] = answers[k]
    BY <1>2
  <2>4. k \in DOMAIN answers' /\ IsLastAnswer(k)'
    BY <1>5, <2>2
  <2> QED
    BY <1>4, <2>1, <2>2, <2>3, <2>4
<1> QED
  BY <1>4, <1>7, <1>8, <1>9 DEF Answered, IsAnswer

LEMMA AnsweredRecv ==
    ASSUME TypesOK, StreamsOK, Turn, Answered, Turn',
           NEW n \in 1..Len(toClient), Recv(n)
    PROVE  Answered'
<1>1. CASE n # 2
  BY <1>1 DEF Recv, Answered, Gone
<1>2. CASE n = 2
  <2>1. /\ UNCHANGED <<main, rwsem, sent, answers>>
        /\ ~Gone /\ ~Gone' /\ reader = "idle"
    BY <1>2 DEF Recv, serverVars, upVars, Gone
  <2>2. /\ 1 \in DOMAIN toClient /\ toClient[1][1] \in DOMAIN answers
        /\ \A p \in DOMAIN toClient' :
              p + n \in DOMAIN toClient /\ toClient'[p] = toClient[p + n]
    BY RecvRest
  <2>3. \A k : /\ (IsLastAnswer(k)' <=> IsLastAnswer(k))
               /\ (Meets(answers[k])' <=> Meets(answers[k]))
    BY <2>1 DEF IsLastAnswer, Meets
  <2>4. PICK k : k = toClient[1][1]
    OBVIOUS
  <2>5. CASE IsAnswer(answers[k])
    <3>1. OnTheWay
      BY <2>2, <2>4, <2>5 DEF OnTheWay
    <3>2. IsLastAnswer(k) /\ Meets(answers[k])
      BY <2>1, <2>2, <2>4, <2>5 DEF Answered
    <3>3. Taken'
      BY <1>2, <2>4, <2>5 DEF Recv, IsAnswer, Taken
    <3>4. ~OnTheWay'
      BY <2>1, <3>3 DEF Turn
    <3>5. main' # "mainMenu"
      BY <2>1, <3>1 DEF Turn, Waiting
    <3>6. Told(answers[k])'
      <4>1. PICK a : a = answers[k]
        OBVIOUS
      <4>2. /\ IF a.kind = "login" /\ a.errno = 0
               THEN Show(a) ELSE UNCHANGED dataVars
            /\ g_isLoginSuccess' = IF a.kind = "login" THEN a.errno = 0
                                   ELSE g_isLoginSuccess
        BY <1>2, <2>4, <4>1 DEF Recv
      <4>3. main = "waitLogin" => a.kind = "login"
        BY <3>2, <4>1 DEF Meets
      <4>4. main = "waitLogin" => /\ g_isLoginSuccess' = (a.errno = 0)
                                  /\ a.errno = 0 => g_currentUser' = a.user
        BY <4>2, <4>3 DEF Show
      <4>5. answers'[k] = a
        BY <2>1, <4>1
      <4> QED
        BY <2>1, <4>4, <4>5 DEF Told
    <3>7. \E j \in DOMAIN answers' :
             IsLastAnswer(j)' /\ Meets(answers[j])' /\ Told(answers[j])'
      BY <2>1, <2>2, <2>3, <2>4, <3>2, <3>6
    <3> QED
      BY <3>4, <3>5, <3>7 DEF Answered, InMenu, OnTheWay, IsAnswer
  <2>6. CASE ~IsAnswer(answers[k])
    <3>1. UNCHANGED <<g_currentUser, g_isLoginSuccess, reader>>
      BY <1>2, <2>1, <2>4, <2>6 DEF Recv, IsAnswer, dataVars
    <3>2. \A j : Told(answers[j])' <=> Told(answers[j])
      BY <2>1, <3>1 DEF Told
    <3>3. Taken' \/ Posted' =>
             \E j \in DOMAIN answers' :
                IsLastAnswer(j)' /\ Meets(answers[j])' /\ Told(answers[j])'
      BY <2>1, <2>3, <3>1, <3>2 DEF Answered, Taken, Posted
    <3>4. \A p \in DOMAIN toClient' : IsAnswer(answers'[toClient'[p][1]]) =>
             IsLastAnswer(toClient[p][1])' /\ Meets(answers[toClient[p][1]])'
      <4> SUFFICES ASSUME NEW p \in DOMAIN toClient',
                          IsAnswer(answers'[toClient'[p][1]])
                   PROVE  IsLastAnswer(toClient[p][1])'
                          /\ Meets(answers[toClient[p][1]])'
        OBVIOUS
      <4>1. p + n \in DOMAIN toClient /\ toClient'[p] = toClient[p + n]
        BY <2>2
      <4>2. IsLastAnswer(toClient[p + n][1]) /\ Meets(answers[toClient[p + n][1]])
        BY <2>1, <4>1 DEF Answered
      <4> QED
        BY <2>1, <4>1, <4>2 DEF IsLastAnswer, Meets
    <3>5. InMenu'
      BY <2>1, <3>1 DEF Answered, InMenu, IsLastAnswer
    <3> QED
      BY <3>3, <3>4, <3>5 DEF Answered, IsAnswer
  <2> QED
    BY <2>5, <2>6
<1> QED
  BY <1>1, <1>2

LEMMA AnsweredStep ==
    ASSUME TypesOK, StreamsOK, Asked, Answered, Turn, LastUnread, [Next]_vars
    PROVE  Answered'
<1>1. Turn'
  BY TurnStep
<1>2. ~Waiting' /\ ~Gone' => ~OnTheWay' /\ ~Taken' /\ ~Posted'
  BY <1>1 DEF Turn
<1>3. CASE ~Waiting' /\ InMenu'
  BY <1>2, <1>3 DEF Answered, OnTheWay, IsAnswer
<1>4. ASSUME UNCHANGED <<toClient, answers, main, reader, rwsem, g_isLoginSuccess,
                         g_currentUser, sent>>
      PROVE  Answered'
  BY <1>4 DEF Answered, InMenu, IsLastAnswer, Meets, Told, Taken, Posted, Gone, IsAnswer
<1>5. CASE Walks
  <2>1. CASE UNCHANGED <<main, g_isLoginSuccess>>
    BY <1>4, <1>5, <2>1 DEF Walks, upVars, dataVars
  <2>2. CASE main' = "sendLogin"
    BY <1>3, <2>2 DEF Waiting, InMenu
  <2>3. CASE main' = "gone"
    BY <2>3 DEF Answered, Gone
  <2> QED
    BY <1>5, <2>1, <2>2, <2>3 DEF Walks
<1>6. ASSUME NEW r, Writes(r)
      PROVE  Answered'
  <2>1. /\ UNCHANGED <<toClient, answers, reader, rwsem, g_isLoginSuccess,
                       g_currentUser>>
        /\ ~Waiting /\ ~Gone /\ ~Gone'
        /\ main' = "mainMenu" => main = "mainMenu"
    BY <1>6 DEF Writes, serverVars, downVars, dataVars, Waiting, Gone
  <2>2. ~OnTheWay /\ ~Taken /\ ~Posted
    BY <2>1 DEF Turn
  <2>3. ~OnTheWay' /\ ~Taken' /\ ~Posted'
    BY <2>1, <2>2 DEF OnTheWay, Taken, Posted
  <2>4. InMenu'
    BY <2>1 DEF Answered, InMenu, IsLastAnswer
  <2> QED
    BY <2>3, <2>4 DEF Answered, OnTheWay, IsAnswer
<1>7. CASE Works
  BY <1>4, <1>7 DEF Works, threadVars, dataVars, upVars, downVars
<1>8. ASSUME NEW a, Replies(a)
      PROVE  Answered'
  <2>1. CASE Gone
    BY <1>8, <2>1 DEF Replies, threadVars, Gone, Answered
  <2>2. CASE ~Gone
    BY <1>8, <2>2, AnsweredReplies
  <2> QED
    BY <2>1, <2>2
<1>9. CASE Released
  <2>1. /\ Waiting /\ ~Gone /\ Posted /\ ~Waiting'
        /\ main' = "mainMenu" => main = "waitLogin" /\ g_isLoginSuccess
        /\ UNCHANGED <<g_isLoginSuccess, g_currentUser, answers>>
    BY <1>9 DEF Released, Waiting, Gone, Posted, dataVars, downVars
  <2>2. PICK k \in DOMAIN answers :
           IsLastAnswer(k) /\ Meets(answers[k]) /\ Told(answers[k])
    BY <2>1 DEF Answered
  <2>3. ASSUME main' = "mainMenu"
        PROVE  /\ g_isLoginSuccess
               /\ answers[k].kind = "login" /\ answers[k].errno = 0
               /\ g_currentUser = answers[k].user
    <3>1. main = "waitLogin" /\ g_isLoginSuccess
      BY <2>1, <2>3
    <3>2. answers[k].kind = "login" /\ answers[k].errno = 0
      BY <2>2, <3>1 DEF Meets, Told
    <3> QED
      BY <2>2, <3>1, <3>2 DEF Told
  <2>4. InMenu'
    BY <2>1, <2>2, <2>3 DEF InMenu, IsLastAnswer
  <2> QED
    BY <1>3, <2>1, <2>4
<1>10. CASE Post
  <2>1. /\ UNCHANGED <<toClient, answers, main, g_isLoginSuccess,
                       g_currentUser, sent>>
        /\ ~Gone /\ Taken
    BY <1>10 DEF Post, dataVars, serverVars, upVars, downVars, Taken
  <2>2. \A k : /\ (IsLastAnswer(k)' <=> IsLastAnswer(k))
               /\ (Meets(answers[k])' <=> Meets(answers[k]))
               /\ (Told(answers[k])' <=> Told(answers[k]))
    BY <2>1 DEF IsLastAnswer, Meets, Told
  <2>3. \E k \in DOMAIN answers' :
           IsLastAnswer(k)' /\ Meets(answers[k])' /\ Told(answers[k])'
    BY <2>1, <2>2 DEF Answered
  <2>4. \A p \in DOMAIN toClient' : IsAnswer(answers'[toClient'[p][1]]) =>
           IsLastAnswer(toClient[p][1])' /\ Meets(answers[toClient[p][1]])'
    BY <2>1 DEF Answered, IsLastAnswer, Meets
  <2>5. InMenu'
    BY <2>1 DEF Answered, InMenu, IsLastAnswer
  <2> QED
    BY <2>3, <2>4, <2>5 DEF Answered, IsAnswer
<1>11. CASE Push
  BY <1>11, AnsweredPush
<1>12. ASSUME NEW n \in 1..Len(toClient), Recv(n)
       PROVE  Answered'
  BY <1>1, <1>12, AnsweredRecv
<1>13. ASSUME NEW n \in 1..Len(toServer), OnMessage(n)
       PROVE  Answered'
  BY <1>4, <1>13 DEF OnMessage, threadVars, dataVars, downVars
<1> QED
  BY <1>5, <1>6, <1>7, <1>8, <1>9, <1>10, <1>11, <1>12, <1>13, StepKinds

-----------------------------------------------------------------------------
(* What is dropped, and the lists.                                         *)

SwallowedOK == swallowed \subseteq 1..Len(sent) /\ SwallowedBehindCommand

(* In what onMessage reads, a request is in front of every dropped one.    *)
LEMMA InFront ==
    ASSUME TypesOK, StreamsOK, NEW n \in 1..Len(toServer), OnMessage(n),
           toServer[1][2] = 1, NEW i \in 3..n
    PROVE  /\ toServer[i][1] \in 1..Len(sent) /\ toServer[i][1] > 1
           /\ \E j \in DOMAIN toServer :
                 toServer[j][2] = 1 /\ toServer[j][1] = toServer[i][1] - 1
<1>1. /\ Stream(toServer, Len(sent)) /\ toServer \in Seq(Part)
      /\ Len(sent) \in Nat
      /\ Len(toServer) \in Nat /\ DOMAIN toServer = 1 .. Len(toServer)
  BY LenProperties DEF OnMessage, StreamsOK, Stream, TypesOK
<1>2. 1 \in DOMAIN toServer /\ i \in DOMAIN toServer /\ i \in Nat /\ i >= 3
  BY <1>1
<1>3. PICK a, k, c :
         a = toServer[1][1] /\ k = toServer[i][1] /\ c = toServer[i][2]
  OBVIOUS
<1>4. /\ 2 * a + 1 - 1 = 2 * k + c - i
      /\ c \in {1, 2} /\ a \in 1..Len(sent) /\ k \in 1..Len(sent)
  <2>1. /\ 2 * toServer[1][1] + toServer[1][2] - 1
              = 2 * toServer[i][1] + toServer[i][2] - i
        /\ toServer[i][2] \in {1, 2}
        /\ toServer[1][1] \in 1..Len(sent) /\ toServer[i][1] \in 1..Len(sent)
    BY <1>1, <1>2, StreamOrder
  <2> QED
    BY <1>3, <2>1
<1>5. a \in Nat /\ a >= 1 /\ k \in Nat
  BY <1>1, <1>4
<1>6. k > 1
  BY <1>2, <1>4, <1>5
<1>7. PICK j : j = (i - 1) - c
  OBVIOUS
<1>8. j \in Nat /\ j >= 1 /\ j <= i
  BY <1>2, <1>4, <1>5, <1>7
<1>9. j \in DOMAIN toServer
  BY <1>1, <1>2, <1>8
<1>10. PICK x, y : x = toServer[j][1] /\ y = toServer[j][2]
  OBVIOUS
<1>11. 2 * a + 1 - 1 = 2 * x + y - j /\ y \in {1, 2} /\ x \in 1..Len(sent)
  <2>1. /\ 2 * toServer[1][1] + toServer[1][2] - 1
              = 2 * toServer[j][1] + toServer[j][2] - j
        /\ toServer[j][2] \in {1, 2} /\ toServer[j][1] \in 1..Len(sent)
    BY <1>1, <1>2, <1>9, StreamOrder
  <2> QED
    BY <1>3, <1>10, <2>1
<1>12. x \in Nat
  BY <1>1, <1>11
<1>13. y = 1 /\ x = k - 1
  BY <1>2, <1>4, <1>5, <1>7, <1>8, <1>11, <1>12
<1> QED
  BY <1>3, <1>4, <1>6, <1>9, <1>10, <1>13

LEMMA SwallowedStep ==
    ASSUME TypesOK, StreamsOK, Asked, Answered, LastUnread, SwallowedOK, [Next]_vars
    PROVE  SwallowedOK'
<1>1. UNCHANGED <<swallowed, sent>> => SwallowedOK'
  BY DEF SwallowedOK, SwallowedBehindCommand
<1>2. CASE Walks \/ Works \/ Released \/ Post \/ Push
  BY <1>1, <1>2 DEF Walks, Works, Released, Post, Push, serverVars, upVars
<1>3. ASSUME NEW a, Replies(a)
      PROVE  SwallowedOK'
  BY <1>1, <1>3 DEF Replies, upVars
<1>4. ASSUME NEW n \in 1..Len(toClient), Recv(n)
      PROVE  SwallowedOK'
  BY <1>1, <1>4 DEF Recv, serverVars, upVars
<1>5. ASSUME NEW r, Writes(r)
      PROVE  SwallowedOK'
  <2>1. /\ Len(sent') = Len(sent) + 1 /\ Len(sent) \in Nat
        /\ DOMAIN sent = 1 .. Len(sent)
        /\ \A i \in DOMAIN sent : sent'[i] = sent[i]
    BY <1>5, WritesHistory
  <2>2. swallowed' = swallowed
    BY <1>5 DEF Writes, serverVars
  <2>3. ASSUME NEW i \in swallowed
        PROVE  /\ i \in 1..Len(sent') /\ i > 1
               /\ sent'[i - 1].kind \notin {"login", "register"}
    <3>1. i \in 1..Len(sent) /\ i > 1 /\ sent[i - 1].kind \notin {"login", "register"}
      BY DEF SwallowedOK, SwallowedBehindCommand
    <3>2. i - 1 \in DOMAIN sent
      BY <2>1, <3>1
    <3> QED
      BY <2>1, <3>1, <3>2
  <2> QED
    BY <2>2, <2>3 DEF SwallowedOK, SwallowedBehindCommand
<1>6. ASSUME NEW n \in 1..Len(toServer), OnMessage(n)
      PROVE  SwallowedOK'
  <2>1. sent' = sent
    BY <1>6 DEF OnMessage
  <2>2. CASE swallowed' = swallowed
    BY <1>1, <2>1, <2>2
  <2>3. CASE /\ toServer[1][2] = 1
             /\ swallowed' = swallowed \cup {toServer[i][1] : i \in 3..n}
    <3>1. ASSUME NEW i \in 3..n
          PROVE  /\ toServer[i][1] \in 1..Len(sent) /\ toServer[i][1] > 1
                 /\ sent[toServer[i][1] - 1].kind \notin {"login", "register"}
      <4>1. /\ toServer[i][1] \in 1..Len(sent) /\ toServer[i][1] > 1
            /\ \E j \in DOMAIN toServer :
                  toServer[j][2] = 1 /\ toServer[j][1] = toServer[i][1] - 1
        BY <1>6, <2>3, InFront
      <4>2. PICK k : k = toServer[i][1]
        OBVIOUS
      <4>3. k \in 1..Len(sent) /\ Len(sent) \in Nat /\ k - 1 # Len(sent)
        <5>1. Len(sent) \in Nat
          BY LenProperties DEF TypesOK
        <5> QED
          BY <4>1, <4>2, <5>1
      <4>4. ~Asks(sent[k - 1])
        BY <4>1, <4>2, <4>3 DEF LastUnread
      <4> QED
        BY <4>1, <4>2, <4>4 DEF Asks
    <3> QED
      BY <2>1, <2>3, <3>1 DEF SwallowedOK, SwallowedBehindCommand
  <2> QED
    BY <1>6, <2>2, <2>3, OnMessageTakes
<1> QED
  BY <1>2, <1>3, <1>4, <1>5, <1>6, StepKinds

(* What an answer lists is in the tables, which only grow.                 *)
ListsOK ==
    /\ \A i \in DOMAIN answers :
          answers[i].kind = "login" /\ answers[i].errno = 0 =>
             /\ \A f \in answers[i].friends : <<answers[i].user, f>> \in rows
             /\ \A g \in answers[i].groups : <<answers[i].user, g>> \in rows
    /\ ListsAreOneAccounts

LEMMA ListsStep ==
    ASSUME TypesOK, StreamsOK, Asked, Answered, ListsOK, [Next]_vars
    PROVE  ListsOK'
<1>1. rows \subseteq rows' /\ UNCHANGED <<answers, lists, listOwner>> => ListsOK'
  BY DEF ListsOK, ListsAreOneAccounts
<1>2. CASE Walks \/ Works \/ Released \/ Post
  BY <1>1, <1>2 DEF Walks, Works, Released, Post, dataVars, serverVars, tableVars,
                    downVars
<1>3. ASSUME NEW r, Writes(r)
      PROVE  ListsOK'
  BY <1>1, <1>3 DEF Writes, dataVars, serverVars, tableVars, downVars
<1>4. ASSUME NEW n \in 1..Len(toServer), OnMessage(n)
      PROVE  ListsOK'
  BY <1>1, <1>4 DEF OnMessage, dataVars, tableVars, downVars
<1>5. ASSUME NEW a \in Message, Answer(a), UNCHANGED <<rows, lists, listOwner>>,
             a.kind = "login" /\ a.errno = 0 =>
                /\ \A f \in a.friends : <<a.user, f>> \in rows
                /\ \A g \in a.groups : <<a.user, g>> \in rows
      PROVE  ListsOK'
  <2>1. /\ DOMAIN answers' = 1 .. Len(answers) + 1 /\ Len(answers) \in Nat
        /\ DOMAIN answers = 1 .. Len(answers)
        /\ Len(answers') = Len(answers) + 1
        /\ \A i \in DOMAIN answers : answers'[i] = answers[i]
        /\ answers'[Len(answers')] = a
    BY <1>5, AnswerHistory
  <2>2. \A i \in DOMAIN answers' : i \in DOMAIN answers \/ answers'[i] = a
    BY <2>1
  <2> QED
    BY <1>5, <2>1, <2>2 DEF ListsOK, ListsAreOneAccounts
<1>6. ASSUME NEW a, Replies(a)
      PROVE  ListsOK'
  BY <1>5, <1>6 DEF Replies, dataVars
<1>7. CASE Push
  <2>1. /\ Answer([kind |-> "chat"]) /\ [kind |-> "chat"] \in Message
        /\ [kind |-> "chat"].kind # "login"
    BY <1>7 DEF Push, Message
  <2> QED
    BY <1>5, <1>7, <2>1 DEF Push, dataVars, serverVars, tableVars
<1>8. ASSUME NEW n \in 1..Len(toClient), Recv(n)
      PROVE  ListsOK'
  <2>1. UNCHANGED <<answers, rows>>
    BY <1>8 DEF Recv, serverVars, tableVars
  <2>2. CASE UNCHANGED dataVars
    BY <1>1, <2>1, <2>2 DEF dataVars
  <2>3. CASE ~UNCHANGED dataVars
    <3>1. PICK a : a = answers[toClient[1][1]]
      OBVIOUS
    <3>2. Show(a) /\ a.kind = "login" /\ a.errno = 0
      BY <1>8, <2>3, <3>1 DEF Recv
    <3>3. toClient[1][1] \in DOMAIN answers /\ a \in Message
      BY <1>8, <3>1, RecvRest
    <3>4. /\ \A f \in a.friends : <<a.user, f>> \in rows
          /\ \A g \in a.groups : <<a.user, g>> \in rows
      BY <3>1, <3>2, <3>3 DEF ListsOK
    <3>5. /\ a.friends \in SUBSET User /\ a.groups \in SUBSET Group
          /\ a["friends"] = a.friends /\ a["groups"] = a.groups
      BY <3>2, <3>3, MessageFields
    <3>6. /\ lists'["friends"] = IF a.friends = {} THEN lists["friends"] ELSE a.friends
          /\ listOwner'["friends"] = IF a.friends = {} THEN listOwner["friends"]
                                     ELSE a.user
      BY <3>2, <3>5 DEF Show, List
    <3>7. /\ lists'["groups"] = IF a.groups = {} THEN lists["groups"] ELSE a.groups
          /\ listOwner'["groups"] = IF a.groups = {} THEN listOwner["groups"]
                                    ELSE a.user
      BY <3>2, <3>5 DEF Show, List
    <3>8. lists'["friends"] \subseteq {f \in User : <<listOwner'["friends"], f>> \in rows}
      BY <3>4, <3>5, <3>6 DEF ListsOK, ListsAreOneAccounts
    <3>9. lists'["groups"] \subseteq {g \in Group : <<listOwner'["groups"], g>> \in rows}
      BY <3>4, <3>5, <3>7 DEF ListsOK, ListsAreOneAccounts
    <3> QED
      BY <2>1, <3>8, <3>9 DEF ListsOK, ListsAreOneAccounts
  <2> QED
    BY <2>2, <2>3
<1> QED
  BY <1>2, <1>3, <1>4, <1>6, <1>7, <1>8, StepKinds

-----------------------------------------------------------------------------
(* The inductive invariant and the theorems.                               *)

IInv ==
    /\ TypesOK /\ StreamsOK /\ Asked /\ Turn /\ Answered /\ LastUnread
    /\ SwallowedOK /\ ListsOK

LEMMA IInvInit ==
    ASSUME Init
    PROVE  IInv
<1>1. TypesOK
  <2>1. Idle \in Handling /\ sent \in Seq(Request) /\ answers \in Seq(Message)
    BY DEF Init, Handling
  <2> QED
    BY <2>1, ClientAssumption DEF Init, TypesOK
<1>2. /\ DOMAIN sent = {} /\ DOMAIN answers = {} /\ DOMAIN toServer = {}
      /\ DOMAIN toClient = {} /\ Len(sent) = 0 /\ Len(answers) = 0
      /\ toServer \in Seq(Part) /\ toClient \in Seq(Part)
  BY DEF Init
<1>3. StreamsOK
  BY <1>2 DEF Init, StreamsOK, Stream
<1>4. Asked /\ LastUnread /\ Answered
  BY <1>2 DEF Init, Asked, LastUnread, Answered, InMenu, Waiting, Taken, Posted
<1>5. Turn
  BY <1>2 DEF Init, Turn, Unread, InHandler, OnTheWay, Taken, Posted
<1>6. SwallowedOK
  BY DEF Init, SwallowedOK, SwallowedBehindCommand
<1>7. ListsOK
  BY <1>2 DEF Init, ListsOK, ListsAreOneAccounts, List
<1> QED
  BY <1>1, <1>3, <1>4, <1>5, <1>6, <1>7 DEF IInv

LEMMA IInvStep ==
    ASSUME IInv, [Next]_vars
    PROVE  IInv'
BY TypesStep, StreamsStep, AskedStep, TurnStep, AnsweredStep, LastUnreadStep,
   SwallowedStep, ListsStep DEF IInv

LEMMA IInvAlways == Spec => []IInv
<1>1. Init => IInv
  BY IInvInit
<1>2. IInv /\ [Next]_vars => IInv'
  BY IInvStep
<1> QED
  BY <1>1, <1>2, PTL DEF Spec

(* LastAnswer is the one the invariant speaks of.                          *)
LEMMA LastAnswerIs ==
    ASSUME TypesOK, NEW k \in DOMAIN answers, IsLastAnswer(k)
    PROVE  LastAnswer = answers[k]
<1>1. DOMAIN answers \subseteq Nat
  BY LenProperties DEF TypesOK
<1>2. ASSUME NEW j \in DOMAIN answers, IsLastAnswer(j)
      PROVE  j = k
  <2>1. ~(j > k) /\ ~(k > j) /\ j \in Nat /\ k \in Nat
    BY <1>1, <1>2 DEF IsLastAnswer
  <2> QED
    BY <2>1
<1>3. (CHOOSE j \in DOMAIN answers : IsLastAnswer(j)) = k
  BY <1>2
<1> QED
  BY <1>3 DEF LastAnswer

(* main() and the read thread of a client share their data without a lock  *)
(* (client/main.cpp): whatever was sent and in whatever pieces it arrives, *)
(* an answer only comes for the request main() waits for, and mainMenu     *)
(* runs as the account whose login was accepted last.                      *)
THEOREM AnswerForTheWaiting == Spec => []AnswerMeetsWait
<1>1. IInv => AnswerMeetsWait
  <2> SUFFICES ASSUME IInv
               PROVE  AnswerMeetsWait
    OBVIOUS
  <2>1. TypesOK /\ Turn /\ Answered
    BY DEF IInv
  <2>2. reader = "answered" /\ ~Gone => Waiting /\ rwsem = 0
    BY <2>1 DEF TypesOK, Turn, Taken, Posted
  <2>3. ASSUME rwsem > 0, ~Gone
        PROVE  /\ rwsem = 1 /\ Waiting /\ handling = Idle
               /\ \A i \in DOMAIN toServer : toServer[i][2] = 2
               /\ main = "waitLogin" => g_isLoginSuccess = (LastAnswer.errno = 0)
               /\ main = "waitLogin" /\ g_isLoginSuccess =>
                     LastRequest.user = LastAnswer.user
    <3>1. /\ Waiting /\ handling = Idle
          /\ \A i \in DOMAIN toServer : toServer[i][2] = 2
      BY <2>1, <2>3 DEF Turn, Posted, NothingBegun
    <3>2. rwsem = 1
      BY <2>1, <2>3 DEF Turn, TypesOK
    <3>3. PICK k \in DOMAIN answers :
             IsLastAnswer(k) /\ Meets(answers[k]) /\ Told(answers[k])
      BY <2>1, <2>3 DEF Answered, Posted
    <3>4. LastAnswer = answers[k]
      BY <2>1, <3>3, LastAnswerIs
    <3>5. main = "waitLogin" => g_isLoginSuccess = (LastAnswer.errno = 0)
      BY <3>3, <3>4 DEF Told
    <3>6. main = "waitLogin" => LastRequest.user = LastAnswer.user
      BY <3>3, <3>4 DEF Meets, LastRequest
    <3> QED
      BY <3>1, <3>2, <3>5, <3>6
  <2>4. ASSUME main = "mainMenu"
        PROVE  /\ g_isLoginSuccess
               /\ LastAnswer.kind = "login" /\ LastAnswer.errno = 0
               /\ g_currentUser = LastAnswer.user
    <3>1. PICK k \in DOMAIN answers :
             /\ IsLastAnswer(k) /\ answers[k].kind = "login"
             /\ answers[k].errno = 0 /\ g_currentUser = answers[k].user
      BY <2>1, <2>4 DEF Answered, InMenu, Gone
    <3>2. LastAnswer = answers[k]
      BY <2>1, <3>1, LastAnswerIs
    <3> QED
      BY <2>1, <2>4, <3>1, <3>2 DEF Answered, InMenu, Gone
  <2> QED
    BY <2>2, <2>3, <2>4 DEF AnswerMeetsWait
<1> QED
  BY <1>1, IInvAlways, PTL

(* onMessage parses all it has read as one request (ChatServer.cpp): what  *)
(* it drops that way was sent right behind a command of mainMenu, never    *)
(* behind a login or a register.                                           *)
THEOREM SwallowedOnlyBehindCommands == Spec => []SwallowedBehindCommand
<1>1. IInv => SwallowedBehindCommand
  BY DEF IInv, SwallowedOK
<1> QED
  BY <1>1, IInvAlways, PTL

(* doLoginResponse (client/main.cpp) replaces a list or leaves it: however *)
(* accounts follow each other, a list shows contacts of one of them.       *)
THEOREM ListsOfOneAccount == Spec => []ListsAreOneAccounts
<1>1. IInv => ListsAreOneAccounts
  BY DEF IInv, ListsOK
<1> QED
  BY <1>1, IInvAlways, PTL
=============================================================================
