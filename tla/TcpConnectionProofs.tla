------------------------ MODULE TcpConnectionProofs ------------------------
(* Proofs about TcpConnection: for any number of threads and messages, and *)
(* any size of the messages and of the kernel's buffer.                    *)
EXTENDS TcpConnection, SequenceTheorems, TLAPS

Sends == {Send(m) : m \in Msg}

LEMMA FunctorsDiffer ==
    /\ Established \notin Sends /\ Destroyed \notin Sends
    /\ Established # Destroyed
<1>1. Established # Destroyed
  BY DEF Established, Destroyed
<1>2. \A m \in Msg : Send(m) # Established /\ Send(m) # Destroyed
  <2>1. ASSUME NEW m \in Msg PROVE Len(Send(m)) = 2
    BY DEF Send
  <2>2. Len(Established) = 1 /\ Len(Destroyed) = 1
    BY DEF Established, Destroyed
  <2> QED
    BY <2>1, <2>2
<1> QED
  BY <1>1, <1>2 DEF Sends

-----------------------------------------------------------------------------
(* The life of the connection, as a sequence of phases.  What the safety   *)
(* of the raw this needs is at the end of it: once the close handler has   *)
(* had the mutex no thread holds it to send, and connectDestroyed is the   *)
(* last functor.                                                           *)
Quiet == mutex = Nobody

Ended ==
    \/ io = "down" /\ connections_ /\ ~removal /\ ioFunctors \in Seq(Sends)
    \/ /\ io = "downTold" /\ connections_ /\ ~removal
       /\ ioFunctors \in Seq(Sends) /\ Quiet
    \/ /\ io = "idle" /\ connections_ /\ removal
       /\ ioFunctors \in Seq(Sends) /\ Quiet
    \/ /\ io = "idle" /\ ~connections_ /\ ~removal
       /\ Quiet
       /\ \E s \in Seq(Sends) : ioFunctors = Append(s, Destroyed)
    \/ /\ io = "idle" /\ ~connections_ /\ ~removal
       /\ Quiet
       /\ ioFunctors = <<>> /\ index = "new"

Life ==
    /\ state_ \in {"none", "connecting", "connected", "disconnecting",
                   "disconnected"}
    /\ inHand \in SUBSET Msg
    /\ state_ \in {"none", "connecting"} =>
          /\ io = "idle" /\ ~removal /\ Quiet
          /\ events = {} /\ index = "new"
          /\ state_ = "none" => ioFunctors = <<>>
          /\ state_ = "connecting" =>
                connections_ /\ ioFunctors = <<Established>>
    /\ state_ \in {"connected", "disconnecting"} =>
          /\ io \in {"idle", "message"} /\ connections_ /\ ~removal
          /\ ioFunctors \in Seq(Sends)
    /\ state_ = "disconnected" => events = {} /\ Ended

LEMMA LifeInit == Init => Life
BY DEF Init, Life, Quiet

(* The actions that leave the phase as it is: they change neither the      *)
(* functors nor anything else Ended speaks of.                             *)
LEMMA LifeUntouched ==
  ASSUME Life, UNCHANGED <<state_, index, connections_, removal, io, registered,
                           mutex, ioFunctors, inHand>>,
         events' = events \/ state_ \in {"connected", "disconnecting"}
  PROVE  Life'
BY DEF Life, Ended, Quiet

(* A functor that sends is taken off the queue; in state_ "disconnected"   *)
(* it does nothing (SendInLoop), and connectDestroyed stays the last one.  *)
LEMMA RunSendLife == ASSUME Life, NEW m \in Msg, RunSend(m) PROVE Life'
<1>1. /\ io = "idle" /\ ioFunctors # <<>> /\ Head(ioFunctors) = Send(m)
      /\ ioFunctors' = Tail(ioFunctors)
      /\ UNCHANGED <<state_, connections_, removal, io, registered, mutex, inHand>>
  BY DEF RunSend, Runs, serverVars, appVars
<1>2. Send(m) \in Sends /\ Send(m) # Established /\ Send(m) # Destroyed
  BY FunctorsDiffer DEF Sends
<1>3. state_ \notin {"none", "connecting"}
  <2>1. state_ # "none"
    BY <1>1 DEF Life
  <2>2. ASSUME state_ = "connecting" PROVE FALSE
    <3>1. ioFunctors = <<Established>>
      BY <2>2 DEF Life
    <3>2. Head(ioFunctors) = Established
      BY <3>1
    <3> QED
      BY <1>1, <1>2, <3>2
  <2> QED
    BY <2>1, <2>2
<1>4. ASSUME ioFunctors \in Seq(Sends)
      PROVE  ioFunctors' \in Seq(Sends)
  BY <1>1, <1>4, HeadTailProperties
<1>5. CASE state_ \in {"connected", "disconnecting"}
  BY <1>1, <1>4, <1>5 DEF Life
<1>6. CASE state_ = "disconnected"
  <2>1. UNCHANGED <<events, index>>
    BY <1>6 DEF RunSend, SendInLoop, channelVars
  <2>2. CASE ioFunctors \in Seq(Sends) /\ removal /\ connections_ /\ Quiet
    BY <1>1, <1>4, <1>6, <2>1, <2>2 DEF Life, Ended, Quiet
  <2>3. CASE \E s \in Seq(Sends) : ioFunctors = Append(s, Destroyed)
    <3>1. PICK s \in Seq(Sends) : ioFunctors = Append(s, Destroyed)
      BY <2>3
    <3>2. s # <<>>
      BY <1>1, <1>2, <3>1, HeadTailAppend
    <3>3. ioFunctors' = Append(Tail(s), Destroyed) /\ Tail(s) \in Seq(Sends)
      BY <1>1, <3>1, <3>2, HeadTailAppend, HeadTailProperties
    <3>4. ioFunctors \notin Seq(Sends) /\ ioFunctors # <<>>
      <4>1. ASSUME ioFunctors \in Seq(Sends) PROVE FALSE
        <5>1. Len(ioFunctors) = Len(s) + 1 /\ ioFunctors[Len(s) + 1] = Destroyed
          BY <3>1
        <5>2. ioFunctors[Len(s) + 1] \in Sends
          BY <4>1, <5>1, LenProperties, ElementOfSeq
        <5> QED
          BY <5>1, <5>2, FunctorsDiffer
      <4> QED
        BY <1>1, <4>1
    <3>5. ~connections_ /\ ~removal /\ Quiet
      BY <1>1, <1>6, <3>4 DEF Life, Ended
    <3> QED
      BY <1>1, <1>6, <2>1, <3>3, <3>5 DEF Life, Ended, Quiet
  <2> QED
    BY <1>1, <1>6, <2>2, <2>3 DEF Life, Ended
<1> QED
  BY <1>3, <1>5, <1>6 DEF Life

LEMMA NewConnectionLife == ASSUME Life, NewConnection PROVE Life'
<1>1. ioFunctors' = <<Established>>
  BY DEF NewConnection, Life
<1> QED
  BY <1>1 DEF NewConnection, Life, Quiet, channelVars, appVars

LEMMA ConnectEstablishedLife == ASSUME Life, ConnectEstablished PROVE Life'
<1>1. ioFunctors # <<>> /\ Head(ioFunctors) = Established
  BY DEF ConnectEstablished, Runs
<1>2. ASSUME ioFunctors \in Seq(Sends) PROVE FALSE
  BY <1>1, <1>2, FunctorsDiffer, HeadTailProperties
<1>3. ASSUME NEW s \in Seq(Sends), ioFunctors = Append(s, Destroyed)
      PROVE  FALSE
  <2>1. CASE s = <<>>
    BY <1>1, <1>3, <2>1, HeadTailAppend, FunctorsDiffer
  <2>2. CASE s # <<>>
    BY <1>1, <1>3, <2>2, HeadTailAppend, HeadTailProperties, FunctorsDiffer
  <2> QED
    BY <2>1, <2>2
<1>4. state_ = "connecting"
  <2>1. state_ # "none"
    BY <1>1 DEF Life
  <2>2. state_ \notin {"connected", "disconnecting"}
    BY <1>2 DEF Life
  <2>3. state_ # "disconnected"
    BY <1>1, <1>2, <1>3 DEF Life, Ended
  <2> QED
    BY <2>1, <2>2, <2>3 DEF Life
<1>5. ioFunctors' = <<>>
  BY <1>4 DEF ConnectEstablished, Runs, Life
<1>6. ioFunctors' \in Seq(Sends)
  BY <1>5
<1> QED
  BY <1>4, <1>6 DEF ConnectEstablished, Life, serverVars, appVars

(* The functor of connectDestroyed is the last one. *)
LEMMA ConnectDestroyedLife == ASSUME Life, ConnectDestroyed PROVE Life'
<1>1. /\ ioFunctors # <<>> /\ Head(ioFunctors) = Destroyed
      /\ ioFunctors' = Tail(ioFunctors)
  BY DEF ConnectDestroyed, Runs
<1>2. ASSUME ioFunctors \in Seq(Sends) PROVE FALSE
  BY <1>1, <1>2, FunctorsDiffer, HeadTailProperties
<1>3. state_ = "disconnected"
  <2>1. state_ # "none"
    BY <1>1 DEF Life
  <2>2. state_ # "connecting"
    <3>1. ASSUME ioFunctors = <<Established>> PROVE FALSE
      BY <1>1, <3>1, FunctorsDiffer
    <3> QED
      BY <3>1 DEF Life
  <2>3. state_ \notin {"connected", "disconnecting"}
    BY <1>2 DEF Life
  <2> QED
    BY <2>1, <2>2, <2>3 DEF Life
<1>4. /\ io = "idle" /\ ~connections_ /\ ~removal /\ Quiet
      /\ \E s \in Seq(Sends) : ioFunctors = Append(s, Destroyed)
  BY <1>1, <1>2, <1>3 DEF Life, Ended
<1>5. PICK s \in Seq(Sends) : ioFunctors = Append(s, Destroyed)
  BY <1>4
<1>6. s = <<>>
  <2>1. ASSUME s # <<>> PROVE FALSE
    BY <1>1, <1>5, <2>1, HeadTailAppend, HeadTailProperties, FunctorsDiffer
  <2> QED
    BY <2>1
<1>7. ioFunctors' = <<>>
  BY <1>1, <1>5, <1>6, HeadTailAppend
<1> QED
  BY <1>3, <1>4, <1>7
     DEF ConnectDestroyed, RemoveChannel, Life, Ended, Quiet, serverVars, appVars

LEMMA RemoveConnectionInLoopLife ==
  ASSUME Life, RemoveConnectionInLoop PROVE Life'
<1>1. state_ = "disconnected"
  BY DEF RemoveConnectionInLoop, Life
<1>2. io = "idle" /\ ioFunctors \in Seq(Sends) /\ Quiet
  BY <1>1 DEF RemoveConnectionInLoop, Life, Ended
<1>3. ioFunctors' = Append(ioFunctors, Destroyed)
  BY DEF RemoveConnectionInLoop
<1> QED
  BY <1>1, <1>2, <1>3
     DEF RemoveConnectionInLoop, Life, Ended, Quiet, channelVars, appVars

LEMMA SenderLife ==
  ASSUME Life, NEW t \in Thread, QueueSend(t) \/ \E m \in Msg : BeginSend(t, m)
  PROVE  Life'
<1>1. ASSUME NEW m \in Msg, BeginSend(t, m) PROVE Life'
  BY <1>1 DEF BeginSend, Life, channelVars, serverVars
<1>2. CASE QueueSend(t)
  <2>1. ~Quiet
    BY <1>2, NobodyAssumption DEF QueueSend, Quiet
  <2>2. PICK m \in Msg : ioFunctors' = Append(ioFunctors, Send(m))
    BY <1>2 DEF QueueSend, Life
  <2>3. ASSUME ioFunctors \in Seq(Sends) PROVE ioFunctors' \in Seq(Sends)
    BY <2>2, <2>3, AppendProperties DEF Sends
  <2>4. CASE state_ \in {"connected", "disconnecting"}
    BY <1>2, <2>3, <2>4 DEF QueueSend, Life, channelVars, serverVars
  <2>5. CASE state_ = "disconnected"
    BY <1>2, <2>1, <2>3, <2>5
       DEF QueueSend, Life, Ended, Quiet, channelVars, serverVars
  <2> QED
    BY <2>1, <2>4, <2>5 DEF Life
<1> QED
  BY <1>1, <1>2

(* The channel is polled only between connectEstablished and handleClose.  *)
LEMMA PolledWhenUp ==
  ASSUME Life, NEW e, Polled(e)
  PROVE  io = "idle" /\ state_ \in {"connected", "disconnecting"}
BY DEF Polled, Life

LEMMA HandlerLife ==
  ASSUME Life, HandleRead \/ HandleWrite \/ HandleClose \/ HandlerStep
  PROVE  Life'
<1>1. CASE HandleRead
  <2>1. io = "idle" /\ state_ \in {"connected", "disconnecting"}
    BY <1>1, PolledWhenUp DEF HandleRead
  <2> QED
    BY <1>1, <2>1 DEF HandleRead, Life, Quiet, channelVars, serverVars, appVars
<1>2. CASE HandleWrite
  <2>1. state_ \in {"connected", "disconnecting"}
    BY <1>2, PolledWhenUp DEF HandleWrite
  <2> QED
    BY <1>2, <2>1 DEF HandleWrite, Life, serverVars, appVars
<1>3. CASE HandleClose
  <2>1. io = "idle" /\ state_ \in {"connected", "disconnecting"}
    BY <1>3, PolledWhenUp DEF HandleClose
  <2> QED
    BY <1>3, <2>1
       DEF HandleClose, UpdateChannel, Life, Ended, serverVars, appVars
<1>4. CASE MessageDone
  <2>1. state_ \in {"connected", "disconnecting"}
    BY <1>4 DEF MessageDone, Life, Ended
  <2> QED
    BY <1>4, <2>1 DEF MessageDone, Life, channelVars, serverVars, appVars
<1>5. CASE ConnectionDown
  <2>1. state_ = "disconnected"
    BY <1>5 DEF ConnectionDown, Life
  <2> QED
    BY <1>5, <2>1
       DEF ConnectionDown, Life, Ended, Quiet, channelVars, serverVars
<1>6. CASE RemoveConnection
  <2>1. state_ = "disconnected"
    BY <1>6 DEF RemoveConnection, Life
  <2> QED
    BY <1>6, <2>1 DEF RemoveConnection, Life, Ended, Quiet, channelVars, appVars
<1> QED
  BY <1>1, <1>2, <1>3, <1>4, <1>5, <1>6 DEF HandlerStep

LEMMA MessageLife ==
  ASSUME Life, Register \/ Shutdown \/ \E m \in Msg : Reply(m) PROVE Life'
<1>1. ASSUME io = "message" PROVE state_ \in {"connected", "disconnecting"}
  BY <1>1 DEF Life, Ended
<1>2. CASE Register
  BY <1>1, <1>2 DEF Register, Life, channelVars, serverVars
<1>3. CASE Shutdown
  BY <1>1, <1>3 DEF Shutdown, Life, channelVars, serverVars, appVars
<1>4. ASSUME NEW m \in Msg, Reply(m) PROVE Life'
  BY <1>1, <1>4 DEF Reply, Life, serverVars, appVars
<1> QED
  BY <1>2, <1>3, <1>4

LEMMA LifeStep == ASSUME Life, [Next]_vars PROVE Life'
<1>1. CASE MainStep
  BY <1>1, NewConnectionLife, RemoveConnectionInLoopLife DEF MainStep
<1>2. CASE FunctorStep
  BY <1>2, ConnectEstablishedLife, ConnectDestroyedLife, RunSendLife
     DEF FunctorStep
<1>3. CASE HandlerStep \/ HandleRead \/ HandleWrite \/ HandleClose
  BY <1>3, HandlerLife
<1>4. CASE Register \/ Shutdown \/ \E m \in Msg : Reply(m)
  BY <1>4, MessageLife
<1>5. CASE \E t \in Thread : QueueSend(t) \/ \E m \in Msg : BeginSend(t, m)
  BY <1>5, SenderLife
<1>6. CASE PeerSends \/ PeerReads \/ \E how \in {"finished", "reset"} : PeerLeaves(how)
  BY <1>6, LifeUntouched
     DEF PeerSends, PeerReads, PeerLeaves, channelVars, serverVars, appVars
<1>7. CASE UNCHANGED vars
  BY <1>7, LifeUntouched DEF vars, channelVars, serverVars, appVars
<1> QED
  BY <1>1, <1>2, <1>3, <1>4, <1>5, <1>6, <1>7 DEF Next

LEMMA LifeInvariant == Spec => []Life
BY LifeInit, LifeStep, PTL DEF Spec
-----------------------------------------------------------------------------
(* No functor with a raw this waits for a connection that nobody holds:    *)
(* queueInLoop is called with _connMutex held (TcpConnection.cpp:69).      *)
THEOREM RawThisIsSafe == Spec => []NoUseAfterFree
<1>1. Life => NoUseAfterFree
  <2> SUFFICES ASSUME Life, (\E m \in Msg : Queued(Send(m))) \/ mutex # Nobody
               PROVE  Held
    BY DEF NoUseAfterFree
  <2>1. state_ # "none"
    BY DEF Life, Quiet, Queued
  <2>2. CASE state_ = "connecting"
    BY <2>2 DEF Life, Held
  <2>3. CASE state_ \in {"connected", "disconnecting"}
    BY <2>3 DEF Life, Held
  <2>4. CASE state_ = "disconnected"
    <3>1. CASE connections_
      BY <3>1 DEF Held
    <3>2. CASE \E s \in Seq(Sends) : ioFunctors = Append(s, Destroyed)
      <4>1. PICK s \in Seq(Sends) : ioFunctors = Append(s, Destroyed)
        BY <3>2
      <4>2. /\ ioFunctors[Len(s) + 1] = Destroyed
            /\ Len(s) + 1 \in DOMAIN ioFunctors
        BY <4>1
      <4> QED
        BY <4>2 DEF Held, Queued
    <3>3. CASE ioFunctors = <<>> /\ Quiet
      BY <3>3 DEF Quiet, Queued
    <3> QED
      BY <2>4, <3>1, <3>2, <3>3 DEF Life, Ended
  <2> QED
    BY <2>1, <2>2, <2>3, <2>4 DEF Life
<1> QED
  BY <1>1, LifeInvariant, PTL

(* When the connection is freed, the poller, the functors and the          *)
(* application have all forgotten it (removeChannel, connectDestroyed).    *)
THEOREM FreedLeavesNothing == Spec => []FreedIsForgotten
<1>1. Life => FreedIsForgotten
  <2> SUFFICES ASSUME Life, state_ # "none", ~Held
               PROVE  index = "new" /\ events = {} /\ ioFunctors = <<>>
                      /\ mutex = Nobody
    BY DEF FreedIsForgotten
  <2>1. /\ ~connections_ /\ ~Queued(Destroyed)
    BY DEF Held
  <2>2. state_ = "disconnected"
    BY <2>1 DEF Life
  <2>3. ASSUME NEW s \in Seq(Sends), ioFunctors = Append(s, Destroyed)
        PROVE  FALSE
    <3>1. /\ ioFunctors[Len(s) + 1] = Destroyed
          /\ Len(s) + 1 \in DOMAIN ioFunctors
      BY <2>3
    <3> QED
      BY <2>1, <3>1 DEF Queued
  <2> QED
    BY <2>1, <2>2, <2>3 DEF Life, Ended, Quiet
<1> QED
  BY <1>1, LifeInvariant, PTL
-----------------------------------------------------------------------------
(* The streams: what was accepted is what the kernel took, followed by     *)
(* what waits in outputBuffer_.                                            *)
Units == Msg \X (1..Size)

StreamsOK ==
    /\ outputBuffer_ \in Seq(Units)
    /\ accepted \in Seq(Units)
    /\ written \in Seq(Units)
    /\ space \in 0..Space
    /\ accepted = written \o outputBuffer_

LEMMA BytesOK ==
  ASSUME NEW m \in Msg PROVE Bytes(m) \in Seq(Units) /\ Len(Bytes(m)) = Size
<1>1. Size \in Nat
  BY SizeAssumption
<1>2. Bytes(m) \in [1..Size -> Units]
  BY DEF Bytes, Units
<1> QED
  BY <1>1, <1>2, IsASeq

(* A sequence is the concatenation of its two parts.                       *)
LEMMA Parted ==
  ASSUME NEW s \in Seq(Units), NEW n \in 0..Len(s)
  PROVE  /\ SubSeq(s, 1, n) \in Seq(Units)
         /\ SubSeq(s, n + 1, Len(s)) \in Seq(Units)
         /\ SubSeq(s, 1, n) \o SubSeq(s, n + 1, Len(s)) = s
<1>1. Len(s) \in Nat /\ \A i \in 1..Len(s) : s[i] \in Units
  BY LenProperties, ElementOfSeq
<1>2. SubSeq(s, 1, n) \in Seq(Units)
  BY <1>1, SubSeqProperties
<1>3. SubSeq(s, n + 1, Len(s)) \in Seq(Units)
  BY <1>1, SubSeqProperties
<1>4. SubSeq(s, 1, n) \o SubSeq(s, n + 1, Len(s)) = SubSeq(s, 1, Len(s))
  <2>1. 1 \in 1..Len(s) + 1 /\ n \in 1 - 1..Len(s) /\ Len(s) \in n..Len(s)
    BY <1>1
  <2> QED
    BY <2>1, ConcatAdjacentSubSeq
<1> QED
  BY <1>2, <1>3, <1>4, SubSeqFull

LEMMA PrefixOfConcat ==
  ASSUME NEW s \in Seq(Units), NEW t \in Seq(Units)
  PROVE  Stream!IsPrefixOf(s, s \o t)
<1>1. Len(s) \in Nat /\ Len(t) \in Nat /\ Len(s \o t) = Len(s) + Len(t)
  BY LenProperties, ConcatProperties
<1>2. SubSeq(s \o t, 1, Len(s)) = s
  <2>1. CASE s = <<>>
    BY <2>1, SubSeqEmpty
  <2>2. CASE s # <<>>
    <3>1. 1 \in 1..Len(s) /\ Len(s) \in 1..Len(s)
      BY <1>1, <2>2, EmptySeq
    <3>2. SubSeq(s \o t, 1, Len(s)) = SubSeq(s, 1, Len(s))
      BY <3>1, SubSeqOfConcat1
    <3> QED
      BY <3>2, SubSeqFull
  <2> QED
    BY <2>1, <2>2
<1> QED
  BY <1>1, <1>2 DEF Stream!IsPrefixOf

LEMMA Regroup ==
  ASSUME NEW s \in Seq(Units), NEW t \in Seq(Units), NEW u \in Seq(Units)
  PROVE  (s \o t) \o u = s \o (t \o u)
BY ConcatAssociative

(* The kernel takes some more of the stream, perhaps nothing. *)
Delivers == \E d \in Seq(Units) : written' = written \o d

LEMMA DeliversAdvances ==
  ASSUME StreamsOK, StreamsOK', Delivers PROVE Stream!Advance
<1>1. Stream!IsPrefixOf(written, written')
  BY PrefixOfConcat DEF Delivers, StreamsOK
<1>2. Stream!IsPrefixOf(written', accepted')
  BY PrefixOfConcat DEF StreamsOK
<1> QED
  BY <1>1, <1>2 DEF Stream!Advance

(* Everything sendInLoop does while the connection is up: it appends the   *)
(* message to the stream, or drops all of it.                              *)
LEMMA SendInLoopStream ==
  ASSUME StreamsOK, NEW m \in Msg, SendInLoop(m)
  PROVE  \/ UNCHANGED streamVars
         \/ /\ StreamsOK' /\ Delivers
            /\ accepted' = accepted \o Bytes(m)
            /\ state_ # "disconnected"
<1>1. Bytes(m) \in Seq(Units) /\ Len(Bytes(m)) = Size
  BY BytesOK
<1>2. accepted \o Bytes(m) \in Seq(Units)
  BY <1>1, ConcatProperties DEF StreamsOK
<1>3. CASE state_ # "disconnected" /\ Direct /\ WriteNow(m)
  <2> DEFINE n == IF space < Size THEN space ELSE Size
             done == SubSeq(Bytes(m), 1, n)
             rest == SubSeq(Bytes(m), n + 1, Size)
  <2>1. n \in 0..Len(Bytes(m)) /\ space - n \in 0..Space
    BY <1>1, SizeAssumption, SpaceAssumption DEF StreamsOK
  <2>2. /\ written' = written \o done /\ outputBuffer_' = rest
        /\ accepted' = accepted \o Bytes(m) /\ space' = space - n
    BY <1>3 DEF WriteNow
  <2> HIDE DEF n
  <2>3. /\ done \in Seq(Units) /\ rest \in Seq(Units)
        /\ done \o rest = Bytes(m)
    BY <1>1, <2>1, Parted
  <2> HIDE DEF done, rest
  <2>4. accepted = written
    BY <1>3, ConcatEmptySeq DEF Direct, StreamsOK
  <2>5. written' \in Seq(Units)
    BY <2>2, <2>3, ConcatProperties DEF StreamsOK
  <2>6. accepted' = written' \o outputBuffer_'
    <3>1. written \in Seq(Units)
      BY DEF StreamsOK
    <3>2. (written \o done) \o rest = written \o (done \o rest)
      BY <2>3, <3>1, Regroup
    <3> QED
      BY <2>2, <2>3, <2>4, <3>2
  <2> QED
    BY <1>2, <1>3, <2>1, <2>2, <2>3, <2>5, <2>6 DEF StreamsOK, Delivers
<1>4. CASE state_ # "disconnected" /\ ~Direct /\ accepted' = accepted \o Bytes(m)
             /\ outputBuffer_' = outputBuffer_ \o Bytes(m)
             /\ UNCHANGED <<written, space>>
  <2>1. outputBuffer_' \in Seq(Units)
    BY <1>1, <1>4, ConcatProperties DEF StreamsOK
  <2>2. accepted' = written' \o outputBuffer_'
    BY <1>1, <1>4, ConcatAssociative DEF StreamsOK
  <2>3. <<>> \in Seq(Units) /\ written' = written \o <<>>
    BY <1>4, ConcatEmptySeq DEF StreamsOK
  <2> QED
    BY <1>2, <1>4, <2>1, <2>2, <2>3 DEF StreamsOK, Delivers
<1> QED
  BY <1>3, <1>4 DEF SendInLoop

(* handleWrite takes the front of the output. *)
LEMMA HandleWriteStream ==
  ASSUME StreamsOK, HandleWrite
  PROVE  StreamsOK' /\ Delivers /\ accepted' = accepted
<1>1. accepted' = accepted
  BY DEF HandleWrite
<1>2. CASE IsWriting
  <2> DEFINE n == IF space < Len(outputBuffer_) THEN space
                  ELSE Len(outputBuffer_)
             done == SubSeq(outputBuffer_, 1, n)
             rest == SubSeq(outputBuffer_, n + 1, Len(outputBuffer_))
  <2>1. n \in 0..Len(outputBuffer_) /\ space - n \in 0..Space
    BY SpaceAssumption, LenProperties DEF StreamsOK
  <2>2. /\ written' = written \o done /\ outputBuffer_' = rest
        /\ space' = space - n
    BY <1>2 DEF HandleWrite
  <2> HIDE DEF n
  <2>3. /\ done \in Seq(Units) /\ rest \in Seq(Units)
        /\ done \o rest = outputBuffer_
    BY <2>1, Parted DEF StreamsOK
  <2> HIDE DEF done, rest
  <2>4. written' \in Seq(Units)
    BY <2>2, <2>3, ConcatProperties DEF StreamsOK
  <2>5. accepted' = written' \o outputBuffer_'
    <3>1. written \in Seq(Units) /\ accepted = written \o outputBuffer_
      BY DEF StreamsOK
    <3>2. (written \o done) \o rest = written \o (done \o rest)
      BY <2>3, <3>1, Regroup
    <3> QED
      BY <1>1, <2>2, <2>3, <3>1, <3>2
  <2> QED
    BY <1>1, <2>1, <2>2, <2>3, <2>4, <2>5 DEF StreamsOK, Delivers
<1>3. CASE ~IsWriting
  <2>1. UNCHANGED <<written, outputBuffer_, space>>
    BY <1>3 DEF HandleWrite
  <2>2. <<>> \in Seq(Units) /\ written' = written \o <<>>
    BY <2>1, ConcatEmptySeq DEF StreamsOK
  <2> QED
    BY <1>1, <2>1, <2>2 DEF StreamsOK, Delivers
<1> QED
  BY <1>2, <1>3

(* Each step adds to the stream, hands some of it over, closes it, or      *)
(* leaves it alone.                                                        *)
LEMMA StreamStep ==
  ASSUME Life, Life', StreamsOK, [Next]_vars
  PROVE  /\ StreamsOK'
         /\ \/ Stream!Next
            \/ UNCHANGED <<accepted, written, state_ # "disconnected">>
<1>1. ASSUME UNCHANGED streamVars,
             UNCHANGED (state_ # "disconnected")
      PROVE  StreamsOK' /\ UNCHANGED <<accepted, written, state_ # "disconnected">>
  BY <1>1 DEF StreamsOK, streamVars
<1>2. ASSUME NEW m \in Msg, SendInLoop(m), UNCHANGED state_
      PROVE  /\ StreamsOK'
             /\ \/ Stream!Next
                \/ UNCHANGED <<accepted, written, state_ # "disconnected">>
  <2>1. CASE UNCHANGED streamVars
    BY <1>1, <1>2, <2>1
  <2>2. CASE /\ StreamsOK' /\ Delivers
             /\ accepted' = accepted \o Bytes(m)
             /\ state_ # "disconnected"
    BY <1>2, <2>2, DeliversAdvances DEF Stream!Next, Stream!Accept
  <2> QED
    BY <1>2, <2>1, <2>2, SendInLoopStream
<1>3. CASE \E m \in Msg : RunSend(m) \/ Reply(m)
  BY <1>2, <1>3 DEF RunSend, Reply
<1>4. CASE HandleWrite
  <2>1. StreamsOK' /\ Delivers /\ accepted' = accepted
    BY <1>4, HandleWriteStream
  <2>2. state_ # "disconnected" /\ state_' = state_
    BY <1>4, PolledWhenUp DEF HandleWrite
  <2> QED
    BY <2>1, <2>2, DeliversAdvances DEF Stream!Next, Stream!Transmit
<1>5. CASE HandleClose
  <2>1. state_ # "disconnected" /\ state_' = "disconnected"
    BY <1>5, PolledWhenUp DEF HandleClose
  <2>2. UNCHANGED streamVars
    BY <1>5 DEF HandleClose
  <2> QED
    BY <2>1, <2>2 DEF StreamsOK, streamVars, Stream!Next, Stream!Close
<1>6. CASE ConnectEstablished
  <2>1. state_ # "disconnected"
    <3>1. ioFunctors # <<>> /\ Head(ioFunctors) = Established /\ io = "idle"
      BY <1>6 DEF ConnectEstablished, Runs
    <3>2. state_' = "connected"
      BY <1>6 DEF ConnectEstablished
    <3>3. UNCHANGED <<connections_, removal>>
      BY <1>6 DEF ConnectEstablished, serverVars
    <3>4. ASSUME ioFunctors \in Seq(Sends) PROVE FALSE
      BY <3>1, <3>4, FunctorsDiffer, HeadTailProperties
    <3> QED
      BY <3>1, <3>2, <3>3, <3>4 DEF Life, Ended
  <2> QED
    BY <1>1, <1>6, <2>1 DEF ConnectEstablished
<1>7. CASE NewConnection
  BY <1>1, <1>7 DEF NewConnection
<1>8. CASE RemoveConnectionInLoop \/ ConnectDestroyed
  BY <1>1, <1>8 DEF RemoveConnectionInLoop, ConnectDestroyed
<1>9. CASE HandlerStep \/ HandleRead
  BY <1>1, <1>9 DEF HandlerStep, MessageDone, ConnectionDown, RemoveConnection,
                    HandleRead
<1>10. CASE Register \/ Shutdown
  BY <1>1, <1>10 DEF Register, Shutdown
<1>11. CASE \E t \in Thread : QueueSend(t) \/ \E m \in Msg : BeginSend(t, m)
  BY <1>1, <1>11 DEF QueueSend, BeginSend
<1>12. CASE PeerSends \/ \E how \in {"finished", "reset"} : PeerLeaves(how)
  BY <1>1, <1>12 DEF PeerSends, PeerLeaves
<1>13. CASE PeerReads
  BY <1>13, SpaceAssumption DEF PeerReads, StreamsOK
<1>14. CASE UNCHANGED vars
  BY <1>1, <1>14 DEF vars
<1> QED
  BY <1>3, <1>4, <1>5, <1>6, <1>7, <1>8, <1>9, <1>10, <1>11, <1>12, <1>13, <1>14
     DEF Next, MainStep, FunctorStep

(* TcpConnection implements ByteStream: for any number of senders, however *)
(* short the writes, and whenever the peer leaves.                         *)
THEOREM ImplementsByteStream == Spec => InOrder
<1>1. Init => StreamsOK
  <2>1. <<>> \in Seq(Units) /\ <<>> \o <<>> = <<>>
    BY ConcatEmptySeq
  <2> QED
    BY <2>1, SpaceAssumption DEF Init, StreamsOK
<1>2. Init => Stream!Init
  BY DEF Init, Stream!Init
<1>3. Life /\ Life' /\ StreamsOK /\ [Next]_vars
        => /\ StreamsOK'
           /\ [Stream!Next]_<<accepted, written, state_ # "disconnected">>
  BY StreamStep
<1> QED
  BY <1>1, <1>2, <1>3, LifeInvariant, PTL DEF Spec, InOrder, Stream!Spec
=============================================================================
