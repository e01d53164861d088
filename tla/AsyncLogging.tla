---------------------------- MODULE AsyncLogging ----------------------------
(***************************************************************************)
(* The asynchronous logger of the network library: any thread appends a    *)
(* line to the buffer in front, the logging thread swaps the full buffers  *)
(* and the one in front out and writes them to the file.                   *)
(*                                                                         *)
(* Lines are numbered in the order in which append takes mutex_.  Whatever *)
(* is done with mutex_ held is one step; wait_for releases it.             *)
(***************************************************************************)
EXTENDS Naturals, Sequences

CONSTANTS
    Room,       \* lines that fit into a buffer
    MaxLines,   \* bound: lines
    Null        \* a unique_ptr that owns nothing

ASSUME RoomAssumption == Room \in Nat \ {0}
ASSUME MaxLinesAssumption == MaxLines \in Nat
ASSUME NullAssumption == Null \notin Seq(Nat)

VARIABLES
    running_,
    pc,               \* where the logging thread is
    currentBuffer_,   \* the lines in it, or Null
    nextBuffer_,      \* <<>> or Null; so are newBuffer1 and newBuffer2
    buffers_,
    newBuffer1, newBuffer2,
    buffersToWrite,   \* those that are still to be written
    file,             \* lines given to LogFile::append
    appended,         \* number of lines so far
    crashed           \* a null pointer was followed

frontVars == <<currentBuffer_, nextBuffer_, buffers_>>
backVars  == <<newBuffer1, newBuffer2, buffersToWrite, file>>
vars == <<running_, pc, frontVars, backVars, appended, crashed>>

Init ==
    /\ running_ = FALSE
    /\ pc = "off"
    /\ currentBuffer_ = <<>> /\ nextBuffer_ = <<>>
    /\ buffers_ = <<>>
    /\ newBuffer1 = <<>> /\ newBuffer2 = <<>>
    /\ buffersToWrite = <<>>
    /\ file = <<>>
    /\ appended = 0
    /\ crashed = FALSE

-----------------------------------------------------------------------------
(* Threads that log, and the one that owns the logger *)

(* start(), once *)
Start ==
    /\ pc = "off"
    /\ running_' = TRUE
    /\ pc' = "check"
    /\ UNCHANGED <<frontVars, backVars, appended, crashed>>

(* stop() sets running_ without mutex_, and joins the logging thread. *)
Stop ==
    /\ running_
    /\ running_' = FALSE
    /\ UNCHANGED <<pc, frontVars, backVars, appended, crashed>>

NewLine ==
    /\ ~crashed /\ appended < MaxLines
    /\ appended' = appended + 1

AppendHere ==
    /\ NewLine
    /\ currentBuffer_ # Null /\ Len(currentBuffer_) < Room
    /\ currentBuffer_' = Append(currentBuffer_, appended')
    /\ UNCHANGED <<running_, pc, nextBuffer_, buffers_, backVars, crashed>>

(* The buffer is full: it joins buffers_, and nextBuffer_, or a new one,   *)
(* takes its place.                                                        *)
AppendNext ==
    /\ NewLine
    /\ currentBuffer_ # Null /\ Len(currentBuffer_) = Room
    /\ buffers_' = Append(buffers_, currentBuffer_)
    /\ currentBuffer_' = <<appended'>>
    /\ nextBuffer_' = Null
    /\ UNCHANGED <<running_, pc, backVars, crashed>>

(* Line 28 follows currentBuffer_ without a look. *)
AppendNull ==
    /\ ~crashed
    /\ currentBuffer_ = Null
    /\ crashed' = TRUE
    /\ UNCHANGED <<running_, pc, frontVars, backVars, appended>>

-----------------------------------------------------------------------------
(* threadFunc *)

Check ==
    /\ ~crashed /\ pc = "check"
    /\ pc' = IF running_ THEN "round" ELSE "exited"
    /\ UNCHANGED <<running_, frontVars, backVars, appended, crashed>>

(* Mutant: the buffer in front is put before the full ones.                *)
SwapFront(front) ==
    /\ buffersToWrite' = <<front>> \o buffers_
    /\ buffers_' = <<>>
    /\ currentBuffer_' = newBuffer1
    /\ newBuffer1' = Null
    /\ IF nextBuffer_ = Null
       THEN nextBuffer_' = newBuffer2 /\ newBuffer2' = Null
       ELSE UNCHANGED <<nextBuffer_, newBuffer2>>

(* Lines 66 to 71 *)
Swap(front) ==
    /\ buffersToWrite' = Append(buffers_, front)
    /\ buffers_' = <<>>
    /\ currentBuffer_' = newBuffer1
    /\ newBuffer1' = Null
    /\ IF nextBuffer_ = Null
       THEN nextBuffer_' = newBuffer2 /\ newBuffer2' = Null
       ELSE UNCHANGED <<nextBuffer_, newBuffer2>>

(* The missing buffer is made; with nothing in buffers_ the thread waits. *)
BeginRound ==
    /\ ~crashed /\ pc = "round"
    /\ LET front == IF currentBuffer_ = Null THEN <<>> ELSE currentBuffer_ IN
       IF buffers_ = <<>>
       THEN /\ pc' = "waiting"
            /\ currentBuffer_' = front
            /\ UNCHANGED <<nextBuffer_, buffers_, backVars>>
       ELSE pc' = "write" /\ Swap(front) /\ UNCHANGED file
    /\ UNCHANGED <<running_, appended, crashed>>

(* Mutant: wait, without a timeout.                                        *)
WakeNotified ==
    /\ ~crashed /\ pc = "waiting"
    /\ buffers_ # <<>> \/ ~running_
    /\ pc' = "write"
    /\ Swap(currentBuffer_)
    /\ UNCHANGED <<running_, file, appended, crashed>>

(* wait_for returns: notified, spuriously, or after three seconds. *)
Wake ==
    /\ ~crashed /\ pc = "waiting"
    /\ pc' = "write"
    /\ Swap(currentBuffer_)
    /\ UNCHANGED <<running_, file, appended, crashed>>

(* One buffer at a time, without mutex_ *)
WriteBuffer ==
    /\ ~crashed /\ pc = "write" /\ buffersToWrite # <<>>
    /\ IF Head(buffersToWrite) = Null
       THEN crashed' = TRUE /\ UNCHANGED <<file, buffersToWrite>>
       ELSE /\ file' = file \o Head(buffersToWrite)
            /\ buffersToWrite' = Tail(buffersToWrite)
            /\ UNCHANGED crashed
    /\ UNCHANGED <<running_, pc, frontVars, newBuffer1, newBuffer2, appended>>

(* Lines 80 to 98: what is given back is reset at once, which frees it:    *)
(* both pointers that were Null still are.                                 *)
GiveBack ==
    /\ ~crashed /\ pc = "write" /\ buffersToWrite = <<>>
    /\ pc' = "check"
    /\ UNCHANGED <<running_, frontVars, backVars, appended, crashed>>

-----------------------------------------------------------------------------
LoggingThread == Check \/ BeginRound \/ Wake \/ WriteBuffer \/ GiveBack

Next == Start \/ Stop \/ AppendHere \/ AppendNext \/ AppendNull \/ LoggingThread

Spec == Init /\ [][Next]_vars

(* The logging thread keeps running, and its wait has a timeout. *)
FairSpec == Spec /\ WF_vars(LoggingThread)

-----------------------------------------------------------------------------
(* Properties *)

Buffer == Seq(Nat)

TypeOK ==
    /\ running_ \in BOOLEAN
    /\ pc \in {"off", "check", "round", "waiting", "write", "exited"}
    /\ currentBuffer_ \in Buffer \cup {Null}
    /\ nextBuffer_ \in {<<>>, Null}
    /\ buffers_ \in Seq(Buffer)
    /\ newBuffer1 \in {<<>>, Null}
    /\ newBuffer2 \in {<<>>, Null}
    /\ buffersToWrite \in Seq(Buffer)
    /\ file \in Buffer
    /\ appended \in 0..MaxLines
    /\ crashed \in BOOLEAN

(* The comment of line 60 did not find out why currentBuffer_ is null: it  *)
(* is, because line 88 freed the spare buffer, from the swap of the second *)
(* round until the next round begins.  Nothing but an append in that time  *)
(* follows a null pointer: the buffers to write are all there.             *)
NullOnlyBetweenRounds ==
    /\ currentBuffer_ = Null =>
          newBuffer1 = Null /\ pc \in {"write", "check", "round", "exited"}
    /\ crashed => currentBuffer_ = Null

(* Where lines are, the oldest first. *)
Places ==
    <<file>> \o buffersToWrite \o buffers_
       \o <<IF currentBuffer_ = Null THEN <<>> ELSE currentBuffer_>>

(* Read place after place, the lines are 1, 2, ... n. *)
Holds(places, n) ==
    /\ \A b \in DOMAIN places : \A i \in DOMAIN places[b] :
          places[b][i] \in 1..n
    /\ \A line \in 1..n : \E b \in DOMAIN places :
          \E i \in DOMAIN places[b] : places[b][i] = line
    /\ \A b, c \in DOMAIN places :
          \A i \in DOMAIN places[b], j \in DOMAIN places[c] :
             b < c \/ (b = c /\ i < j) => places[b][i] < places[c][j]

(* Through the swaps, the spare buffers and the resize to two, no line is  *)
(* lost, written twice or overtaken: those in the file, in the buffers to  *)
(* write, in the full ones and in the one in front are the lines so far.   *)
LinesKept == Holds(Places, appended)

(* A line gets into the file without another one pushing it, whatever      *)
(* notification was missed; or the logger is stopped, and then its thread  *)
(* ends and stop() returns; or a null pointer was followed first.          *)
LineWritten ==
    \A n \in 1..MaxLines :
       running_ /\ appended >= n ~> Len(file) >= n \/ pc = "exited" \/ crashed
=============================================================================
