---------------------------- MODULE BoundedFifo ----------------------------
(***************************************************************************)
(* What a FIFO promises its producer and its consumer: at most Capacity    *)
(* words, taken in the order in which they were accepted, each once.  A    *)
(* word may be accepted at the instant at which another one is taken.  A   *)
(* reset empties it.                                                       *)
(***************************************************************************)
EXTENDS Integers, Sequences

CONSTANTS Data, Capacity

VARIABLES
    queue,  \* the words inside, oldest first
    taken   \* the word the consumer took last

vars == <<queue, taken>>

Init == queue = << >> /\ taken \in Data

Push(d) == /\ Len(queue) < Capacity
           /\ queue' = Append(queue, d)
           /\ UNCHANGED taken

Pop == /\ queue # << >>
       /\ queue' = Tail(queue)
       /\ taken' = Head(queue)

PushPop(d) == /\ queue # << >> /\ Len(queue) < Capacity
              /\ queue' = Append(Tail(queue), d)
              /\ taken' = Head(queue)

Clear == queue' = << >> /\ UNCHANGED taken

Next == \/ \E d \in Data : Push(d) \/ PushPop(d)
        \/ Pop \/ Clear

Spec == Init /\ [][Next]_vars
=============================================================================
