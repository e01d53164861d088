------------------------- MODULE AsyncLoggingProofs -------------------------
(* Proofs about AsyncLogging, for any size of the buffers.                 *)
EXTENDS AsyncLogging, TLAPS

FlagsOK == running_ \in BOOLEAN /\ crashed \in BOOLEAN

LEMMA FlagsStep == ASSUME FlagsOK, [Next]_vars PROVE FlagsOK'
<1> USE DEF FlagsOK
<1>1. CASE Start \/ Stop
  BY <1>1 DEF Start, Stop
<1>2. CASE AppendHere \/ AppendNext \/ AppendNull
  BY <1>2 DEF AppendHere, AppendNext, AppendNull
<1>3. CASE Check \/ BeginRound \/ Wake
  BY <1>3 DEF Check, BeginRound, Wake
<1>4. CASE WriteBuffer \/ GiveBack
  BY <1>4 DEF WriteBuffer, GiveBack
<1>5. CASE UNCHANGED vars
  BY <1>5 DEF vars
<1> QED
  BY <1>1, <1>2, <1>3, <1>4, <1>5 DEF Next, LoggingThread

(* The buffers, and where they may be missing.  That the thread never      *)
(* waits without a buffer in front is what keeps null pointers out of      *)
(* buffers_.                                                               *)
BuffersOK ==
    /\ pc \in {"off", "check", "round", "waiting", "write", "exited"}
    /\ currentBuffer_ \in Seq(Nat) \cup {Null}
    /\ nextBuffer_ \in {<<>>, Null}
    /\ buffers_ \in Seq(Seq(Nat))
    /\ newBuffer1 \in {<<>>, Null}
    /\ newBuffer2 \in {<<>>, Null}
    /\ buffersToWrite \in Seq(Seq(Nat))
    /\ file \in Seq(Nat)
    /\ appended \in 0..MaxLines
    /\ currentBuffer_ = Null =>
          newBuffer1 = Null /\ pc \in {"write", "check", "round", "exited"}

LEMMA SwapStep ==
  ASSUME BuffersOK, NEW front \in Seq(Nat), Swap(front)
  PROVE  /\ buffersToWrite' \in Seq(Seq(Nat)) /\ buffers_' \in Seq(Seq(Nat))
         /\ currentBuffer_' \in Seq(Nat) \cup {Null}
         /\ nextBuffer_' \in {<<>>, Null}
         /\ newBuffer1' = Null /\ newBuffer2' \in {<<>>, Null}
<1>1. /\ buffersToWrite' \in Seq(Seq(Nat)) /\ buffers_' \in Seq(Seq(Nat))
      /\ newBuffer1' = Null
  BY DEF Swap, BuffersOK
<1>2. currentBuffer_' = newBuffer1 /\ newBuffer1 \in {<<>>, Null}
  BY DEF Swap, BuffersOK
<1>3. nextBuffer_' \in {<<>>, Null} /\ newBuffer2' \in {<<>>, Null}
  BY DEF Swap, BuffersOK
<1>4. <<>> \in Seq(Nat)
  OBVIOUS
<1> QED
  BY <1>1, <1>2, <1>3, <1>4

LEMMA BuffersStep == ASSUME BuffersOK, [Next]_vars PROVE BuffersOK'
<1> USE NullAssumption, MaxLinesAssumption
<1>1. CASE Start \/ Stop
  BY <1>1 DEF BuffersOK, Start, Stop, frontVars, backVars
<1>2. CASE AppendHere
  <2>1. appended' \in Nat /\ appended' \in 0..MaxLines
    BY <1>2 DEF BuffersOK, AppendHere, NewLine
  <2>2. currentBuffer_' \in Seq(Nat)
    BY <1>2, <2>1 DEF BuffersOK, AppendHere
  <2> QED
    BY <1>2, <2>1, <2>2 DEF BuffersOK, AppendHere, backVars
<1>3. CASE AppendNext
  <2>1. appended' \in Nat /\ appended' \in 0..MaxLines
    BY <1>3 DEF BuffersOK, AppendNext, NewLine
  <2>2. currentBuffer_' \in Seq(Nat) /\ buffers_' \in Seq(Seq(Nat))
    BY <1>3, <2>1 DEF BuffersOK, AppendNext
  <2> QED
    BY <1>3, <2>1, <2>2 DEF BuffersOK, AppendNext, backVars
<1>4. CASE AppendNull \/ Check \/ GiveBack
  BY <1>4 DEF BuffersOK, AppendNull, Check, GiveBack, frontVars, backVars
<1>5. CASE BeginRound
  <2> DEFINE front == IF currentBuffer_ = Null THEN <<>> ELSE currentBuffer_
  <2>1. front \in Seq(Nat)
    BY DEF BuffersOK
  <2>2. CASE buffers_ = <<>>
    <3>1. /\ currentBuffer_' = front /\ pc' = "waiting"
          /\ UNCHANGED <<nextBuffer_, buffers_, newBuffer1, newBuffer2,
                         buffersToWrite, file, appended>>
      BY <1>5, <2>2 DEF BeginRound, backVars
    <3> HIDE DEF front
    <3>2. currentBuffer_' # Null
      BY <2>1, <3>1
    <3> QED
      BY <2>1, <3>1, <3>2 DEF BuffersOK
  <2>3. CASE buffers_ # <<>>
    <3>1. Swap(front) /\ pc' = "write" /\ file' = file /\ appended' = appended
      BY <1>5, <2>3 DEF BeginRound
    <3> HIDE DEF front
    <3> QED
      BY <2>1, <3>1, SwapStep DEF BuffersOK
  <2> QED
    BY <2>2, <2>3
<1>6. CASE Wake
  <2>1. currentBuffer_ \in Seq(Nat)
    BY <1>6 DEF Wake, BuffersOK
  <2>2. Swap(currentBuffer_) /\ pc' = "write" /\ file' = file
        /\ appended' = appended
    BY <1>6 DEF Wake
  <2> QED
    BY <2>1, <2>2, SwapStep DEF BuffersOK
<1>7. CASE WriteBuffer
  <2>1. Head(buffersToWrite) \in Seq(Nat) /\ Tail(buffersToWrite) \in Seq(Seq(Nat))
    BY <1>7 DEF BuffersOK, WriteBuffer
  <2>2. /\ file' = file \o Head(buffersToWrite)
        /\ buffersToWrite' = Tail(buffersToWrite)
    BY <1>7, <2>1 DEF WriteBuffer
  <2>3. file' \in Seq(Nat) /\ buffersToWrite' \in Seq(Seq(Nat))
    BY <2>1, <2>2 DEF BuffersOK
  <2> QED
    BY <1>7, <2>3 DEF BuffersOK, WriteBuffer, frontVars
<1>8. CASE UNCHANGED vars
  BY <1>8 DEF BuffersOK, vars, frontVars, backVars
<1> QED
  BY <1>1, <1>2, <1>3, <1>4, <1>5, <1>6, <1>7, <1>8 DEF Next, LoggingThread

(* A crash comes from append: the buffers to write are none of them Null.  *)
CrashOK == crashed => currentBuffer_ = Null

LEMMA CrashStep ==
  ASSUME BuffersOK, FlagsOK, CrashOK, [Next]_vars PROVE CrashOK'
<1> USE DEF CrashOK
<1>1. CASE Start \/ Stop \/ AppendNull
  BY <1>1 DEF Start, Stop, AppendNull, frontVars
<1>2. CASE AppendHere \/ AppendNext
  BY <1>2 DEF AppendHere, AppendNext, NewLine
<1>3. CASE Check \/ GiveBack
  BY <1>3 DEF Check, GiveBack
<1>4. CASE BeginRound \/ Wake
  BY <1>4 DEF BeginRound, Wake
<1>5. CASE WriteBuffer
  <2>1. Head(buffersToWrite) \in Seq(Nat)
    BY <1>5 DEF WriteBuffer, BuffersOK
  <2>2. Head(buffersToWrite) # Null
    BY <2>1, NullAssumption
  <2> QED
    BY <1>5, <2>2 DEF WriteBuffer
<1>6. CASE UNCHANGED vars
  BY <1>6 DEF vars, frontVars
<1> QED
  BY <1>1, <1>2, <1>3, <1>4, <1>5, <1>6 DEF Next, LoggingThread

LEMMA Invariance == Spec => [](FlagsOK /\ BuffersOK /\ CrashOK)
<1>1. Init => FlagsOK /\ BuffersOK /\ CrashOK
  <2>1. <<>> \in Seq(Nat) /\ <<>> \in Seq(Seq(Nat)) /\ <<>> # Null
    <3>1. <<>> \in Seq(Nat) /\ <<>> \in Seq(Seq(Nat))
      OBVIOUS
    <3> QED
      BY <3>1, NullAssumption, Zenon
  <2>2. ASSUME Init PROVE BuffersOK
    <3>1. currentBuffer_ # Null /\ currentBuffer_ \in Seq(Nat)
      BY <2>1, <2>2 DEF Init
    <3>2. /\ nextBuffer_ = <<>> /\ newBuffer1 = <<>> /\ newBuffer2 = <<>>
          /\ pc = "off" /\ appended \in 0..MaxLines
      BY <2>2, MaxLinesAssumption DEF Init
    <3>3. /\ file \in Seq(Nat)
          /\ buffers_ \in Seq(Seq(Nat)) /\ buffersToWrite \in Seq(Seq(Nat))
      BY <2>1, <2>2 DEF Init
    <3> QED
      BY <3>1, <3>2, <3>3 DEF BuffersOK
  <2>3. Init => FlagsOK /\ CrashOK
    BY DEF Init, FlagsOK, CrashOK
  <2> QED
    BY <2>2, <2>3
<1>2. FlagsOK /\ BuffersOK /\ CrashOK /\ [Next]_vars
        => (FlagsOK /\ BuffersOK /\ CrashOK)'
  BY FlagsStep, BuffersStep, CrashStep
<1> QED
  BY <1>1, <1>2, PTL DEF Spec

(* The state of the logger stays within its types: no buffer that waits to *)
(* be written is missing (AsyncLogging.cpp:66).                            *)
THEOREM TypeCorrect == Spec => []TypeOK
<1>1. FlagsOK /\ BuffersOK => TypeOK
  BY DEF FlagsOK, BuffersOK, TypeOK, Buffer
<1> QED
  BY <1>1, Invariance, PTL

(* Why currentBuffer_ is null at line 60, and where it is followed.        *)
THEOREM NullWindow == Spec => []NullOnlyBetweenRounds
<1>1. BuffersOK /\ CrashOK => NullOnlyBetweenRounds
  BY DEF BuffersOK, CrashOK, NullOnlyBetweenRounds
<1> QED
  BY <1>1, Invariance, PTL

-----------------------------------------------------------------------------
(* Reading place after place: what the steps of the logger do to it.       *)

Lines == Seq(Nat)

LEMMA LineInFront ==
    ASSUME NEW q \in Seq(Lines), NEW f \in Lines, NEW n \in Nat,
           Holds(q \o <<f>>, n)
    PROVE  Holds(q \o <<Append(f, n + 1)>>, n + 1)
<1> DEFINE p == q \o <<f>>
           r == q \o <<Append(f, n + 1)>>
           last == Len(q) + 1
<1>1. /\ Len(q) \in Nat /\ Len(f) \in Nat
      /\ DOMAIN p = 1 .. last /\ DOMAIN r = 1 .. last
      /\ p[last] = f /\ r[last] = Append(f, n + 1)
      /\ \A b \in 1 .. Len(q) : p[b] = q[b] /\ r[b] = q[b]
  BY DEF Lines
<1>2. /\ DOMAIN f = 1 .. Len(f) /\ DOMAIN Append(f, n + 1) = 1 .. Len(f) + 1
      /\ \A i \in 1 .. Len(f) : Append(f, n + 1)[i] = f[i]
      /\ Append(f, n + 1)[Len(f) + 1] = n + 1
  BY DEF Lines
<1> HIDE DEF p, r
<1>3. \A b \in DOMAIN r : \A i \in DOMAIN r[b] :
         \/ b = last /\ i = Len(f) + 1 /\ r[b][i] = n + 1
         \/ b \in DOMAIN p /\ i \in DOMAIN p[b] /\ r[b][i] = p[b][i]
  <2> SUFFICES ASSUME NEW b \in DOMAIN r, NEW i \in DOMAIN r[b],
                      ~(b = last /\ i = Len(f) + 1)
               PROVE  b \in DOMAIN p /\ i \in DOMAIN p[b] /\ r[b][i] = p[b][i]
    BY <1>1, <1>2
  <2> QED
    BY <1>1, <1>2
<1>4. \A b \in DOMAIN p : \A i \in DOMAIN p[b] :
         b \in DOMAIN r /\ i \in DOMAIN r[b] /\ r[b][i] = p[b][i]
  BY <1>1, <1>2
<1>5. Holds(p, n)
  BY DEF p
<1>6. \A b \in DOMAIN r : \A i \in DOMAIN r[b] : r[b][i] \in 1 .. n + 1
  BY <1>3, <1>5 DEF Holds
<1>7. \A line \in 1 .. n + 1 : \E b \in DOMAIN r :
         \E i \in DOMAIN r[b] : r[b][i] = line
  <2> SUFFICES ASSUME NEW line \in 1 .. n + 1
               PROVE  \E b \in DOMAIN r : \E i \in DOMAIN r[b] : r[b][i] = line
    OBVIOUS
  <2>1. CASE line = n + 1
    BY <1>1, <1>2, <2>1
  <2>2. CASE line \in 1 .. n
    BY <1>4, <1>5, <2>2 DEF Holds
  <2> QED
    BY <2>1, <2>2
<1>8. ASSUME NEW b \in DOMAIN r, NEW c \in DOMAIN r,
             NEW i \in DOMAIN r[b], NEW j \in DOMAIN r[c],
             b < c \/ (b = c /\ i < j)
      PROVE  r[b][i] < r[c][j]
  <2>1. b \in DOMAIN p /\ i \in DOMAIN p[b] /\ r[b][i] = p[b][i]
    BY <1>1, <1>2, <1>3, <1>8
  <2>2. CASE c = last /\ j = Len(f) + 1
    <3>1. p[b][i] \in 1 .. n
      BY <1>5, <2>1 DEF Holds
    <3> QED
      BY <1>1, <1>2, <2>1, <2>2, <3>1
  <2>3. CASE c \in DOMAIN p /\ j \in DOMAIN p[c] /\ r[c][j] = p[c][j]
    BY <1>5, <1>8, <2>1, <2>3 DEF Holds
  <2> QED
    BY <1>3, <2>2, <2>3
<1>9. Holds(r, n + 1)
  BY <1>6, <1>7, <1>8 DEF Holds
<1> QED
  BY <1>9 DEF r

LEMMA EmptyPlace ==
    ASSUME NEW q \in Seq(Lines), NEW n \in Nat, Holds(q, n)
    PROVE  Holds(q \o << <<>> >>, n)
<1> DEFINE r == q \o << <<>> >>
<1>1. /\ Len(q) \in Nat /\ DOMAIN q = 1 .. Len(q) /\ DOMAIN r = 1 .. Len(q) + 1
      /\ \A b \in 1 .. Len(q) : r[b] = q[b]
      /\ r[Len(q) + 1] = <<>>
  BY DEF Lines
<1> HIDE DEF r
<1>2. \A b \in DOMAIN r : \A i \in DOMAIN r[b] : b \in DOMAIN q /\ r[b] = q[b]
  <2> SUFFICES ASSUME NEW b \in DOMAIN r, b = Len(q) + 1, NEW i \in DOMAIN r[b]
               PROVE  FALSE
    BY <1>1
  <2> QED
    BY <1>1
<1>3. \A b \in DOMAIN q : b \in DOMAIN r /\ r[b] = q[b]
  BY <1>1
<1>4. Holds(r, n)
  BY <1>2, <1>3 DEF Holds
<1> QED
  BY <1>4 DEF r

LEMMA OnePlace ==
    ASSUME NEW f \in Lines, NEW h \in Lines, NEW q \in Seq(Lines), NEW n \in Nat,
           Holds(<<f, h>> \o q, n)
    PROVE  Holds(<<f \o h>> \o q, n)
<1> DEFINE p == <<f, h>> \o q
           r == <<f \o h>> \o q
<1>1. /\ Len(q) \in Nat /\ Len(f) \in Nat /\ Len(h) \in Nat
      /\ DOMAIN p = 1 .. Len(q) + 2 /\ DOMAIN r = 1 .. Len(q) + 1
      /\ p[1] = f /\ p[2] = h /\ r[1] = f \o h
  BY DEF Lines
<1>2. \A b \in 2 .. Len(q) + 1 : r[b] = p[b + 1]
  BY DEF Lines
<1>3. /\ DOMAIN f = 1 .. Len(f) /\ DOMAIN h = 1 .. Len(h)
      /\ DOMAIN (f \o h) = 1 .. Len(f) + Len(h)
      /\ \A i \in 1 .. Len(f) + Len(h) :
            (f \o h)[i] = IF i <= Len(f) THEN f[i] ELSE h[i - Len(f)]
  BY DEF Lines
<1> HIDE DEF p, r
<1> DEFINE B(b, i) == IF b = 1 THEN IF i <= Len(f) THEN 1 ELSE 2 ELSE b + 1
           I(b, i) == IF b = 1 /\ i > Len(f) THEN i - Len(f) ELSE i
<1>4. ASSUME NEW b \in DOMAIN r, NEW i \in DOMAIN r[b]
      PROVE  /\ B(b, i) \in DOMAIN p /\ I(b, i) \in DOMAIN p[B(b, i)]
             /\ r[b][i] = p[B(b, i)][I(b, i)]
  <2>1. CASE b = 1
    BY <1>1, <1>3, <2>1
  <2>2. CASE b # 1
    BY <1>1, <1>2, <2>2
  <2> QED
    BY <2>1, <2>2
<1>5. ASSUME NEW b \in DOMAIN p, NEW i \in DOMAIN p[b]
      PROVE  \E c \in DOMAIN r : \E j \in DOMAIN r[c] : r[c][j] = p[b][i]
  <2>1. CASE b = 1
    <3>1. 1 \in DOMAIN r /\ i \in DOMAIN r[1] /\ r[1][i] = p[b][i]
      BY <1>1, <1>3, <2>1
    <3> QED
      BY <3>1
  <2>2. CASE b = 2
    <3>1. /\ 1 \in DOMAIN r /\ i + Len(f) \in DOMAIN r[1]
          /\ r[1][i + Len(f)] = p[b][i]
      BY <1>1, <1>3, <2>2
    <3> QED
      BY <3>1
  <2>3. CASE b > 2
    <3>1. b - 1 \in DOMAIN r /\ r[b - 1] = p[b]
      BY <1>1, <1>2, <2>3
    <3> QED
      BY <3>1
  <2> QED
    BY <1>1, <2>1, <2>2, <2>3
<1>6. ASSUME NEW b \in DOMAIN r, NEW c \in DOMAIN r,
             NEW i \in DOMAIN r[b], NEW j \in DOMAIN r[c],
             b < c \/ (b = c /\ i < j)
      PROVE  B(b, i) < B(c, j) \/ (B(b, i) = B(c, j) /\ I(b, i) < I(c, j))
  <2>1. b \in Nat /\ c \in Nat /\ b >= 1 /\ c >= 1
    BY <1>1
  <2>2. CASE b = 1 /\ c = 1
    <3>1. i \in Nat /\ j \in Nat
      BY <1>1, <1>3, <2>2
    <3> QED
      BY <1>1, <1>6, <2>2, <3>1
  <2>3. CASE b = c /\ b # 1
    BY <1>6, <2>1, <2>3
  <2>4. CASE b < c
    BY <2>1, <2>4
  <2> QED
    BY <1>6, <2>1, <2>2, <2>3, <2>4
<1>7. Holds(p, n)
  BY DEF p
<1> HIDE DEF B, I
<1>8. Holds(r, n)
  <2>1. \A b \in DOMAIN r : \A i \in DOMAIN r[b] : r[b][i] \in 1 .. n
    BY <1>4, <1>7 DEF Holds
  <2>2. \A line \in 1 .. n : \E b \in DOMAIN r :
           \E i \in DOMAIN r[b] : r[b][i] = line
    BY <1>5, <1>7 DEF Holds
  <2>3. \A b, c \in DOMAIN r : \A i \in DOMAIN r[b], j \in DOMAIN r[c] :
           b < c \/ (b = c /\ i < j) => r[b][i] < r[c][j]
    BY <1>4, <1>6, <1>7 DEF Holds
  <2> QED
    BY <2>1, <2>2, <2>3 DEF Holds
<1> QED
  BY <1>8 DEF r

(* The buffers to write are taken over from the full ones when the thread  *)
(* has none left.                                                          *)
WrittenOut == pc # "write" => buffersToWrite = <<>>

Front == IF currentBuffer_ = Null THEN <<>> ELSE currentBuffer_

LEMMA SwapKeepsLines ==
    ASSUME BuffersOK, buffersToWrite = <<>>, Swap(Front), UNCHANGED <<file, appended>>,
           LinesKept
    PROVE  LinesKept'
<1>1. /\ file \in Lines /\ buffers_ \in Seq(Lines) /\ Front \in Lines
      /\ appended \in Nat
  BY MaxLinesAssumption DEF BuffersOK, Front, Lines
<1>2. /\ buffersToWrite' = Append(buffers_, Front) /\ buffers_' = <<>>
      /\ currentBuffer_' \in {<<>>, Null}
  BY DEF Swap, BuffersOK
<1>3. (IF currentBuffer_' = Null THEN <<>> ELSE currentBuffer_') = <<>>
  BY <1>2
<1>4. Places = <<file>> \o <<>> \o buffers_ \o <<Front>>
  BY DEF Places, Front
<1>5. Places' = <<file>> \o Append(buffers_, Front) \o <<>> \o << <<>> >>
  BY <1>2, <1>3 DEF Places
<1>6. Places = <<file>> \o Append(buffers_, Front) /\ Places \in Seq(Lines)
  BY <1>1, <1>4
<1>7. Places' = Places \o << <<>> >>
  BY <1>1, <1>5, <1>6
<1> QED
  BY <1>1, <1>6, <1>7, EmptyPlace DEF LinesKept

LEMMA FullJoins ==
    ASSUME NEW a \in Seq(Lines), NEW b \in Seq(Lines), NEW c \in Lines
    PROVE  a \o Append(b, c) = a \o b \o <<c>>
<1>1. Append(b, c) \in Seq(Lines) /\ <<c>> \in Seq(Lines)
  OBVIOUS
<1>2. Len(a \o Append(b, c)) = Len(a \o b \o <<c>>)
  BY <1>1
<1>3. \A i \in 1 .. Len(a) + Len(b) + 1 :
         (a \o Append(b, c))[i] = (a \o b \o <<c>>)[i]
  BY <1>1
<1> QED
  BY <1>1, <1>2, <1>3

LEMMA LinesStep ==
    ASSUME BuffersOK, WrittenOut, LinesKept, [Next]_vars
    PROVE  LinesKept' /\ WrittenOut'
<1>1. /\ file \in Lines /\ buffers_ \in Seq(Lines) /\ buffersToWrite \in Seq(Lines)
      /\ appended \in Nat /\ Front \in Lines
  BY MaxLinesAssumption DEF BuffersOK, Front, Lines
<1>2. CASE Start \/ Stop \/ AppendNull \/ Check \/ GiveBack \/ UNCHANGED vars
  <2>1. /\ UNCHANGED <<file, buffersToWrite, buffers_, currentBuffer_, appended>>
        /\ pc' = "write" => pc = "write"
        /\ pc = "write" => pc' = "write" \/ buffersToWrite = <<>>
    BY <1>2 DEF Start, Stop, AppendNull, Check, GiveBack, vars, frontVars, backVars
  <2> QED
    BY <2>1 DEF LinesKept, Places, Holds, WrittenOut
<1>3. CASE AppendHere
  <2>1. /\ currentBuffer_ # Null /\ currentBuffer_ \in Lines
        /\ currentBuffer_' = Append(currentBuffer_, appended + 1)
        /\ appended' = appended + 1
        /\ UNCHANGED <<file, buffersToWrite, buffers_, pc>>
    BY <1>3 DEF AppendHere, NewLine, BuffersOK, backVars, Lines
  <2>2. currentBuffer_' # Null
    <3>1. currentBuffer_' \in Seq(Nat)
      BY <1>1, <2>1 DEF Lines
    <3> QED
      BY <3>1, NullAssumption, Zenon
  <2> DEFINE q == <<file>> \o buffersToWrite \o buffers_
  <2>3. Places = q \o <<currentBuffer_>>
        /\ Places' = q \o <<Append(currentBuffer_, appended + 1)>>
    BY <2>1, <2>2 DEF Places
  <2>4. q \in Seq(Lines)
    BY <1>1
  <2> HIDE DEF q
  <2>5. Holds(Places', appended + 1)
    BY <1>1, <2>1, <2>3, <2>4, LineInFront DEF LinesKept
  <2> QED
    BY <2>1, <2>5 DEF LinesKept, WrittenOut
<1>4. CASE AppendNext
  <2>1. /\ currentBuffer_ # Null /\ currentBuffer_ \in Lines
        /\ buffers_' = Append(buffers_, currentBuffer_)
        /\ currentBuffer_' = <<appended + 1>>
        /\ appended' = appended + 1
        /\ UNCHANGED <<file, buffersToWrite, pc>>
    BY <1>4 DEF AppendNext, NewLine, BuffersOK, backVars, Lines
  <2>2. currentBuffer_' # Null
    <3>1. currentBuffer_' \in Seq(Nat)
      BY <1>1, <2>1
    <3> QED
      BY <3>1, NullAssumption, Zenon
  <2>3. /\ Places = <<file>> \o buffersToWrite \o buffers_ \o <<currentBuffer_>>
        /\ Places' = <<file>> \o buffersToWrite
                        \o Append(buffers_, currentBuffer_) \o << <<appended + 1>> >>
    BY <2>1, <2>2 DEF Places
  <2>4. Places \in Seq(Lines)
    BY <1>1, <2>1, <2>3
  <2>5. Holds(Places \o << <<>> >>, appended)
    BY <1>1, <2>4, EmptyPlace DEF LinesKept
  <2>6. Append(<<>>, appended + 1) = <<appended + 1>> /\ <<>> \in Lines
    BY <1>1 DEF Lines
  <2>7. Holds(Places \o << <<appended + 1>> >>, appended + 1)
    BY <1>1, <2>4, <2>5, <2>6, LineInFront
  <2>8. Places' = Places \o << <<appended + 1>> >>
    <3> DEFINE a == <<file>> \o buffersToWrite
               x == <<appended + 1>>
    <3>1. a \in Seq(Lines) /\ x \in Lines
      BY <1>1 DEF Lines
    <3>2. /\ Places = a \o buffers_ \o <<currentBuffer_>>
          /\ Places' = a \o Append(buffers_, currentBuffer_) \o <<x>>
      BY <2>3
    <3> HIDE DEF a, x
    <3>3. a \o Append(buffers_, currentBuffer_) = a \o buffers_ \o <<currentBuffer_>>
      BY <1>1, <2>1, <3>1, FullJoins
    <3>4. Places' = Places \o <<x>>
      BY <3>2, <3>3
    <3> QED
      BY <3>4 DEF x
  <2> QED
    BY <2>1, <2>7, <2>8 DEF LinesKept, WrittenOut
<1>5. CASE BeginRound
  <2>1. pc = "round" /\ buffersToWrite = <<>>
    BY <1>5 DEF BeginRound, WrittenOut
  <2>2. CASE buffers_ = <<>>
    <3>1. /\ currentBuffer_' = Front /\ pc' = "waiting"
          /\ UNCHANGED <<buffers_, buffersToWrite, file, appended>>
      BY <1>5, <2>2 DEF BeginRound, backVars, Front
    <3>2. Front' = Front
      BY <3>1, NullAssumption DEF Front
    <3>3. Places' = Places
      BY <3>1, <3>2 DEF Places, Front
    <3> QED
      BY <2>1, <3>1, <3>3 DEF LinesKept, Holds, WrittenOut
  <2>3. CASE buffers_ # <<>>
    <3>1. Swap(Front) /\ pc' = "write" /\ UNCHANGED <<file, appended>>
      BY <1>5, <2>3 DEF BeginRound, Front
    <3> QED
      BY <2>1, <3>1, SwapKeepsLines DEF WrittenOut
  <2> QED
    BY <2>2, <2>3
<1>6. CASE Wake
  <2>1. /\ pc = "waiting" /\ buffersToWrite = <<>> /\ Front = currentBuffer_
        /\ Swap(currentBuffer_) /\ pc' = "write" /\ UNCHANGED <<file, appended>>
    BY <1>6 DEF Wake, BuffersOK, WrittenOut, Front
  <2> QED
    BY <2>1, SwapKeepsLines DEF WrittenOut
<1>7. CASE WriteBuffer
  <2> DEFINE h == Head(buffersToWrite)
             rest == Tail(buffersToWrite) \o buffers_ \o <<Front>>
  <2>1. /\ h \in Lines /\ Tail(buffersToWrite) \in Seq(Lines)
        /\ buffersToWrite = <<h>> \o Tail(buffersToWrite)
    BY <1>1, <1>7 DEF WriteBuffer
  <2>2. h # Null
    BY <2>1, NullAssumption DEF Lines
  <2>3. /\ file' = file \o h /\ buffersToWrite' = Tail(buffersToWrite)
        /\ UNCHANGED <<pc, buffers_, currentBuffer_, appended>>
        /\ pc = "write"
    BY <1>7, <2>2 DEF WriteBuffer, frontVars
  <2>4. rest \in Seq(Lines)
    BY <1>1, <2>1
  <2>5. Places = <<file, h>> \o rest
    <3>1. Places = <<file>> \o (<<h>> \o Tail(buffersToWrite)) \o buffers_ \o <<Front>>
      BY <2>1 DEF Places, Front
    <3> HIDE DEF h
    <3> QED
      BY <1>1, <2>1, <3>1
  <2>6. Places' = <<file \o h>> \o rest
    <3>1. Places' = <<file \o h>> \o Tail(buffersToWrite) \o buffers_ \o <<Front>>
      BY <2>3 DEF Places, Front
    <3> HIDE DEF h
    <3> QED
      BY <1>1, <2>1, <3>1
  <2> HIDE DEF h, rest
  <2>7. Holds(Places', appended)
    BY <1>1, <2>1, <2>4, <2>5, <2>6, OnePlace DEF LinesKept
  <2> QED
    BY <2>3, <2>7 DEF LinesKept, WrittenOut
<1> QED
  BY <1>2, <1>3, <1>4, <1>5, <1>6, <1>7 DEF Next, LoggingThread

(* Whatever threads append and the logging thread swaps and writes, in any *)
(* interleaving and with buffers of any size, no line is lost, written     *)
(* twice or overtaken (AsyncLogging.cpp:26-44 against 55-98).              *)
THEOREM NoLineLost == Spec => []LinesKept
<1>1. Init => LinesKept /\ WrittenOut
  <2> SUFFICES ASSUME Init PROVE LinesKept
    BY DEF Init, WrittenOut
  <2>1. <<>> # Null
    <3>1. <<>> \in Seq(Nat)
      OBVIOUS
    <3> QED
      BY <3>1, NullAssumption, Zenon
  <2>2. Places = << <<>> >> \o <<>> \o <<>> \o << <<>> >>
    BY <2>1 DEF Init, Places
  <2>3. DOMAIN Places = 1 .. 2 /\ \A b \in 1 .. 2 : Places[b] = <<>>
    BY <2>2
  <2>4. \A b \in DOMAIN Places : \A i \in DOMAIN Places[b] : FALSE
    BY <2>3
  <2>5. appended = 0
    BY DEF Init
  <2> QED
    BY <2>4, <2>5 DEF LinesKept, Holds
<1>2. BuffersOK /\ LinesKept /\ WrittenOut /\ [Next]_vars
         => LinesKept' /\ WrittenOut'
  BY LinesStep
<1> QED
  BY <1>1, <1>2, Invariance, PTL DEF Spec
=============================================================================
