----------------------------- MODULE ByteStream -----------------------------
(***************************************************************************)
(* What a TcpConnection promises the code that sends on it: the messages   *)
(* it accepts form one stream, the peer's socket is handed a prefix of it, *)
(* and a closed stream stays as it is.                                     *)
(***************************************************************************)
EXTENDS Naturals, Sequences

CONSTANTS
    Msg,
    Bytes(_)     \* the units of a message, in order

VARIABLES
    stream,      \* everything accepted, in order
    delivered,   \* what was handed to the kernel
    open

IsPrefixOf(s, t) == Len(s) <= Len(t) /\ s = SubSeq(t, 1, Len(s))

Init == stream = <<>> /\ delivered = <<>> /\ open = TRUE

(* More of the stream, perhaps none, is handed over. *)
Advance ==
    /\ IsPrefixOf(delivered, delivered')
    /\ IsPrefixOf(delivered', stream')

Accept(m) ==
    /\ open
    /\ stream' = stream \o Bytes(m)
    /\ Advance
    /\ UNCHANGED open

Transmit == open /\ UNCHANGED <<stream, open>> /\ Advance

Close == open /\ open' = FALSE /\ UNCHANGED <<stream, delivered>>

Next == Transmit \/ Close \/ \E m \in Msg : Accept(m)

Spec == Init /\ [][Next]_<<stream, delivered, open>>
=============================================================================
