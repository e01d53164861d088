--------------------------- MODULE TcpConnection ---------------------------
(***************************************************************************)
(* One TcpConnection of a TcpServer, from accept to the destructor: its    *)
(* Channel and the channel's place in the poller, the two loops that share *)
(* its life cycle, the threads that send on it, and its peer.              *)
(*                                                                         *)
(* ioLoop owns the connection.  What other threads ask of it goes through  *)
(* its queue of functors, which is first in, first out (EventLoop,         *)
(* RunsInOrder).  The acceptor and connections_ belong to the main loop.   *)
(* send and the functors it queues use a raw this; the functors of         *)
(* connectEstablished and connectDestroyed hold a shared_ptr.              *)
(*                                                                         *)
(* The application is the chat service: it keeps the connection in a map   *)
(* guarded by _connMutex and sends from other threads while it holds the   *)
(* mutex.  Its message handler may also shut the connection down, as       *)
(* HttpServer does.                                                        *)
(***************************************************************************)
EXTENDS Naturals, Sequences

CONSTANTS
    Thread,        \* threads other than the two loops
    Msg,           \* messages, each sent at most once
    Size,          \* units of a message
    Space,         \* units the kernel's send buffer takes
    MaxRequests,   \* bound: messages of the peer
    Nobody         \* not a member of Thread

ASSUME SizeAssumption == Size \in Nat \ {0}
ASSUME SpaceAssumption == Space \in Nat
ASSUME BoundAssumption == MaxRequests \in Nat
ASSUME NobodyAssumption == Nobody \notin Thread

VARIABLES
    state_,        \* "none" before the connection is accepted
    events,        \* Channel::events_
    index,         \* Channel::index_, the channel's place in the poller
    outputBuffer_,
    connections_,  \* TcpServer lists the connection
    ioFunctors,    \* functors ioLoop has still to run
    removal,       \* the main loop has removeConnectionInLoop to run
    io,            \* what ioLoop is in the middle of
    registered,    \* entries of the application's map for the connection
    mutex,         \* the thread that holds _connMutex
    inHand,        \* the message that thread is sending
    inbox,         \* requests that have arrived and were not read
    requests,      \* requests the peer has sent
    peer,          \* "open", "finished" (FIN) or "reset" (RST)
    space,         \* free room in the kernel's send buffer
    finSent,       \* socket_->shutdownWrite() was called
    used,          \* history: messages handed to send
    accepted,      \* history: units sendInLoop did not drop
    written        \* history: units the kernel took

appVars    == <<registered, mutex, inHand>>
peerVars   == <<inbox, requests, peer>>
streamVars == <<outputBuffer_, space, accepted, written>>
channelVars == <<events, index>>
serverVars == <<connections_, removal>>
vars == <<state_, channelVars, streamVars, serverVars, ioFunctors, io, appVars,
          peerVars, finSent, used>>

Bytes(m) == [i \in 1..Size |-> <<m, i>>]

Established == <<"connectEstablished">>
Destroyed   == <<"connectDestroyed">>
Send(m)     == <<"sendInLoop", m>>
Functors    == {Established, Destroyed} \cup {Send(m) : m \in Msg}

Queued(f) == \E i \in DOMAIN ioFunctors : ioFunctors[i] = f

(* Some shared_ptr still points to the connection: the map of the server   *)
(* or of the application, a functor, or the loop that runs one of its      *)
(* handlers (tie_.lock() in handleEvent).                                  *)
Held ==
    \/ connections_ \/ registered > 0 \/ removal
    \/ Queued(Established) \/ Queued(Destroyed)
    \/ io # "idle"

(* Channel::isWriting compares the whole mask *)
IsWriting == events = {"write"}

(* EPollPoller::updateChannel: a channel that wants no event leaves the    *)
(* epoll set, but not the poller's map.                                    *)
UpdateChannel(mask) ==
    /\ events' = mask
    /\ index' = IF index = "added" /\ mask = {} THEN "deleted" ELSE "added"

RemoveChannel == index' = "new"

Init ==
    /\ state_ = "none"
    /\ events = {}
    /\ index = "new"
    /\ outputBuffer_ = <<>>
    /\ connections_ = FALSE
    /\ ioFunctors = <<>>
    /\ removal = FALSE
    /\ io = "idle"
    /\ registered = 0
    /\ mutex = Nobody
    /\ inHand = {}
    /\ inbox = 0
    /\ requests = 0
    /\ peer = "open"
    /\ space = Space
    /\ finSent = FALSE
    /\ used = {}
    /\ accepted = <<>>
    /\ written = <<>>

-----------------------------------------------------------------------------
(* The main loop *)

(* Acceptor::handleRead and newConnection *)
NewConnection ==
    /\ state_ = "none"
    /\ state_' = "connecting"
    /\ connections_' = TRUE
    /\ ioFunctors' = Append(ioFunctors, Established)
    /\ UNCHANGED <<channelVars, streamVars, removal, io, appVars, peerVars,
                   finSent, used>>

RemoveConnectionInLoop ==
    /\ removal
    /\ removal' = FALSE
    /\ connections_' = FALSE
    /\ ioFunctors' = Append(ioFunctors, Destroyed)
    /\ UNCHANGED <<state_, channelVars, streamVars, io, appVars, peerVars,
                   finSent, used>>

-----------------------------------------------------------------------------
(* Other threads: a chat handler of another connection, or the observer *)

(* The map is searched under _connMutex and send() sees kConnected. *)
BeginSend(t, m) ==
    /\ mutex = Nobody
    /\ registered > 0
    /\ state_ = "connected"
    /\ m \notin used
    /\ mutex' = t
    /\ inHand' = {m}
    /\ used' = used \cup {m}
    /\ UNCHANGED <<state_, channelVars, streamVars, serverVars, ioFunctors, io,
                   registered, peerVars, finSent>>

(* runInLoop queues sendInLoop with a raw this; the mutex is released. *)
QueueSend(t) ==
    /\ mutex = t
    /\ \E m \in inHand : ioFunctors' = Append(ioFunctors, Send(m))
    /\ mutex' = Nobody
    /\ inHand' = {}
    /\ UNCHANGED <<state_, channelVars, streamVars, serverVars, io, registered,
                   peerVars, finSent, used>>

-----------------------------------------------------------------------------
(* ioLoop: sendInLoop *)

(* write() fails with EPIPE or ECONNRESET.  That it returns at all is      *)
(* assumed: nothing in src/ ignores SIGPIPE, a library it uses may.        *)
Broken == finSent \/ peer = "reset"

(* Nothing is waiting: write, keep what the kernel did not take (all of it *)
(* for EWOULDBLOCK) and ask for EPOLLOUT.                                  *)
WriteNow(m) ==
    LET n == IF space < Size THEN space ELSE Size IN
    /\ ~Broken
    /\ written' = written \o SubSeq(Bytes(m), 1, n)
    /\ space' = space - n
    /\ outputBuffer_' = SubSeq(Bytes(m), n + 1, Size)
    /\ accepted' = accepted \o Bytes(m)
    /\ IF n < Size
       THEN UpdateChannel(events \cup {"write"})
       ELSE UNCHANGED channelVars

(* Mutant: the output that waits is not looked at.                         *)
DirectAlways == TRUE

(* The kernel may be asked at once *)
Direct == ~IsWriting /\ outputBuffer_ = <<>>

SendInLoop(m) ==
    \/ /\ state_ = "disconnected" \/ (Direct /\ Broken)
       /\ UNCHANGED <<streamVars, channelVars>>
    \/ /\ state_ # "disconnected" /\ Direct
       /\ WriteNow(m)
    \/ /\ state_ # "disconnected" /\ ~Direct
       /\ outputBuffer_' = outputBuffer_ \o Bytes(m)
       /\ accepted' = accepted \o Bytes(m)
       /\ IF IsWriting THEN UNCHANGED channelVars
          ELSE UpdateChannel(events \cup {"write"})
       /\ UNCHANGED <<written, space>>

-----------------------------------------------------------------------------
(* ioLoop: doPendingFunctors *)

Runs(f) ==
    /\ io = "idle"
    /\ ioFunctors # <<>> /\ Head(ioFunctors) = f
    /\ ioFunctors' = Tail(ioFunctors)

(* The application's connection callback does nothing for a connection     *)
(* that is up.                                                             *)
ConnectEstablished ==
    /\ Runs(Established)
    /\ state_' = "connected"
    /\ UpdateChannel(events \cup {"read"})
    /\ UNCHANGED <<streamVars, serverVars, io, appVars, peerVars, finSent, used>>

RunSend(m) ==
    /\ Runs(Send(m))
    /\ SendInLoop(m)
    /\ UNCHANGED <<state_, serverVars, io, appVars, peerVars, finSent, used>>

(* Mutant: the channel stays in the poller's map.                          *)
ConnectDestroyedUnremoved ==
    /\ Runs(Destroyed)
    /\ UNCHANGED <<state_, channelVars, streamVars, serverVars, io, appVars,
                   peerVars, finSent, used>>

(* Reached after handleClose only, so state_ is kDisconnected and line 157 *)
(* skips.  The functor's shared_ptr is the last one.                       *)
ConnectDestroyed ==
    /\ Runs(Destroyed)
    /\ RemoveChannel
    /\ UNCHANGED <<state_, events, streamVars, serverVars, io, appVars,
                   peerVars, finSent, used>>

-----------------------------------------------------------------------------
(* ioLoop: the channel's events *)

Polled(e) == io = "idle" /\ index = "added" /\ e \in events

(* handleRead, n > 0: the message callback begins. *)
HandleRead ==
    /\ Polled("read") /\ inbox > 0
    /\ inbox' = inbox - 1
    /\ io' = "message"
    /\ UNCHANGED <<state_, channelVars, streamVars, serverVars, ioFunctors,
                   appVars, requests, peer, finSent, used>>

(* A request that is a login lists the connection under its account: a     *)
(* second account after a loginout makes a second entry.                   *)
Register ==
    /\ io = "message" /\ mutex = Nobody
    /\ registered < requests - inbox
    /\ registered' = registered + 1
    /\ UNCHANGED <<state_, channelVars, streamVars, serverVars, ioFunctors, io,
                   mutex, inHand, peerVars, finSent, used>>

(* send() on the loop's own thread *)
Reply(m) ==
    /\ io = "message" /\ m \notin used
    /\ state_ = "connected"
    /\ SendInLoop(m)
    /\ used' = used \cup {m}
    /\ UNCHANGED <<state_, serverVars, ioFunctors, io, appVars, peerVars,
                   finSent>>

(* shutdown() on the loop's own thread runs shutdownInLoop at once. *)
Shutdown ==
    /\ io = "message"
    /\ state_ = "connected"
    /\ state_' = "disconnecting"
    /\ finSent' = ~IsWriting
    /\ UNCHANGED <<channelVars, streamVars, serverVars, ioFunctors, io, appVars,
                   peerVars, used>>

MessageDone ==
    /\ io = "message"
    /\ io' = "idle"
    /\ UNCHANGED <<state_, channelVars, streamVars, serverVars, ioFunctors,
                   appVars, peerVars, finSent, used>>

(* handleWrite, which acts only while IsWriting *)
HandleWrite ==
    /\ Polled("write") /\ space > 0
    /\ IF IsWriting
       THEN LET n == IF space < Len(outputBuffer_) THEN space
                     ELSE Len(outputBuffer_)
                drained == n = Len(outputBuffer_) IN
            /\ written' = written \o SubSeq(outputBuffer_, 1, n)
            /\ outputBuffer_' =
                  SubSeq(outputBuffer_, n + 1, Len(outputBuffer_))
            /\ space' = space - n
            /\ IF drained THEN UpdateChannel(events \ {"write"})
               ELSE UNCHANGED channelVars
            /\ finSent' = (finSent \/ (drained /\ state_ = "disconnecting"))
       ELSE UNCHANGED <<written, outputBuffer_, space, channelVars, finSent>>
    /\ UNCHANGED <<state_, accepted, serverVars, ioFunctors, io, appVars,
                   peerVars, used>>

(* handleRead, n = 0, which is also how a hang-up or an error ends: the    *)
(* kernel reports them together with EPOLLIN.                              *)
HandleClose ==
    /\ Polled("read") /\ inbox = 0 /\ peer # "open"
    /\ state_' = "disconnected"
    /\ UpdateChannel({})
    /\ io' = "down"
    /\ UNCHANGED <<streamVars, serverVars, ioFunctors, appVars, peerVars,
                   finSent, used>>

(* The loop over the map stops at the first entry it finds. *)
EraseOne == registered' = IF registered > 0 THEN registered - 1 ELSE 0

(* Mutant: the entry is erased without _connMutex.                         *)
ConnectionDownUnlocked ==
    /\ io = "down"
    /\ EraseOne
    /\ io' = "downTold"
    /\ UNCHANGED <<state_, channelVars, streamVars, serverVars, ioFunctors,
                   mutex, inHand, peerVars, finSent, used>>

(* Mutant: the entry stays in the map.                                     *)
ConnectionDownKept ==
    /\ io = "down" /\ mutex = Nobody
    /\ io' = "downTold"
    /\ UNCHANGED <<state_, channelVars, streamVars, serverVars, ioFunctors,
                   appVars, peerVars, finSent, used>>

(* connectionCallback_: ChatService erases one entry under _connMutex; the *)
(* shutdown() that follows sees kDisconnected.                             *)
ConnectionDown ==
    /\ io = "down" /\ mutex = Nobody
    /\ EraseOne
    /\ io' = "downTold"
    /\ UNCHANGED <<state_, channelVars, streamVars, serverVars, ioFunctors,
                   mutex, inHand, peerVars, finSent, used>>

(* closeCallback_: removeConnection queues removeConnectionInLoop. *)
RemoveConnection ==
    /\ io = "downTold"
    /\ removal' = TRUE
    /\ io' = "idle"
    /\ UNCHANGED <<state_, channelVars, streamVars, connections_, ioFunctors,
                   appVars, peerVars, finSent, used>>

-----------------------------------------------------------------------------
(* The peer and the kernel *)

PeerSends ==
    /\ state_ # "none" /\ peer = "open" /\ requests < MaxRequests
    /\ inbox' = inbox + 1
    /\ requests' = requests + 1
    /\ UNCHANGED <<state_, channelVars, streamVars, serverVars, ioFunctors, io,
                   appVars, peer, finSent, used>>

(* The peer takes what has arrived. *)
PeerReads ==
    /\ peer # "reset" /\ space < Space
    /\ space' = Space
    /\ UNCHANGED <<state_, channelVars, outputBuffer_, accepted, written,
                   serverVars, ioFunctors, io, appVars, peerVars, finSent, used>>

PeerLeaves(how) ==
    /\ state_ # "none" /\ peer # "reset" /\ peer # how
    /\ peer' = how
    /\ UNCHANGED <<state_, channelVars, streamVars, serverVars, ioFunctors, io,
                   appVars, inbox, requests, finSent, used>>

-----------------------------------------------------------------------------
MainStep == NewConnection \/ RemoveConnectionInLoop

FunctorStep ==
    ConnectEstablished \/ ConnectDestroyed \/ \E m \in Msg : RunSend(m)

HandlerStep == MessageDone \/ ConnectionDown \/ RemoveConnection

Next ==
    \/ MainStep \/ FunctorStep \/ HandlerStep
    \/ HandleRead \/ HandleWrite \/ HandleClose
    \/ Register \/ Shutdown
    \/ \E m \in Msg : Reply(m)
    \/ \E t \in Thread : QueueSend(t) \/ \E m \in Msg : BeginSend(t, m)
    \/ PeerSends \/ PeerReads
    \/ \E how \in {"finished", "reset"} : PeerLeaves(how)

Spec == Init /\ [][Next]_vars

(* Threads keep running, and a loop looks at its channels and at its       *)
(* functors in every round.  The peer owes nothing.                        *)
FairSpec ==
    /\ Spec
    /\ WF_vars(MainStep) /\ WF_vars(FunctorStep) /\ WF_vars(HandlerStep)
    /\ WF_vars(HandleRead) /\ WF_vars(HandleClose)
    /\ \A t \in Thread : WF_vars(QueueSend(t))

-----------------------------------------------------------------------------
(* Properties *)

TypeOK ==
    /\ state_ \in {"none", "connecting", "connected", "disconnecting",
                   "disconnected"}
    /\ events \in SUBSET {"read", "write"}
    /\ index \in {"new", "added", "deleted"}
    /\ outputBuffer_ \in Seq(Msg \X (1..Size))
    /\ connections_ \in BOOLEAN
    /\ ioFunctors \in Seq(Functors)
    /\ removal \in BOOLEAN
    /\ io \in {"idle", "message", "down", "downTold"}
    /\ registered \in Nat
    /\ mutex \in Thread \cup {Nobody}
    /\ inHand \in SUBSET Msg
    /\ inbox \in Nat
    /\ requests \in 0..MaxRequests
    /\ peer \in {"open", "finished", "reset"}
    /\ space \in 0..Space
    /\ finSent \in BOOLEAN
    /\ used \in SUBSET Msg
    /\ accepted \in Seq(Msg \X (1..Size))
    /\ written \in Seq(Msg \X (1..Size))

(* sendInLoop is queued with a raw this (line 69), and no functor of that  *)
(* kind waits for a connection nobody holds: what keeps the connection     *)
(* alive is that the sender holds _connMutex from its look into the map to *)
(* the end of queueInLoop, that the entry is erased under that mutex       *)
(* before closeCallback_ runs, and that connectDestroyed queues up last.   *)
NoUseAfterFree == (\E m \in Msg : Queued(Send(m))) \/ mutex # Nobody => Held

(* When the last shared_ptr goes (the destructors close the descriptor),   *)
(* the poller has neither the descriptor nor the channel any more          *)
(* (removeChannel), no functor is left, and the application does not know  *)
(* the connection: it can be reused by the next accept.                    *)
FreedIsForgotten ==
    state_ # "none" /\ ~Held =>
       index = "new" /\ events = {} /\ ioFunctors = <<>> /\ mutex = Nobody

Stream == INSTANCE ByteStream
            WITH stream <- accepted, delivered <- written,
                 open <- state_ # "disconnected"

(* Whatever threads send, however short the writes, and whenever the peer  *)
(* leaves: the kernel is given a prefix of the accepted messages, none cut *)
(* into by another one, and nothing after the close (sendInLoop,           *)
(* handleWrite, handleClose).                                              *)
InOrder == Stream!Spec

(* A peer that leaves, in whatever stage, costs the server nothing for     *)
(* good (handleClose, removeConnectionInLoop, connectDestroyed): the       *)
(* connection leaves the poller and the server's map, and is destroyed     *)
(* unless the application's map ever had two entries for it.  The close    *)
(* handler erases one (ChatService.cpp:54-59), and the other keeps the     *)
(* connection and its descriptor for ever.                                 *)
PeerCloseFrees ==
    /\ peer # "open" ~>
          state_ = "disconnected" /\ index = "new" /\ ~connections_
    /\ [](registered <= 1) =>
          (peer # "open" ~> state_ = "disconnected" /\ ~Held)

(* shutdownInLoop closes the sending side when the output has been sent:   *)
(* TcpConnection.cpp:139.                                                  *)
ShutdownAfterDrain == finSent => outputBuffer_ = <<>>
=============================================================================
