----------------------------- MODULE TaskQueue -----------------------------
(***************************************************************************)
(* What EventLoop::queueInLoop promises its callers: the tasks handed to   *)
(* it run one after the other, each once, in the order they were handed    *)
(* in.                                                                     *)
(***************************************************************************)
EXTENDS Sequences

CONSTANT Task

VARIABLES
    queue,   \* tasks handed in that did not run yet
    done     \* tasks that ran, in order

Init == queue = <<>> /\ done = <<>>

Submit(k) ==
    /\ \A i \in DOMAIN queue : queue[i] # k
    /\ \A i \in DOMAIN done : done[i] # k
    /\ queue' = Append(queue, k)
    /\ UNCHANGED done

RunNext ==
    /\ queue # <<>>
    /\ done' = Append(done, Head(queue))
    /\ queue' = Tail(queue)

Next == RunNext \/ \E k \in Task : Submit(k)

Spec == Init /\ [][Next]_<<queue, done>>
=============================================================================
