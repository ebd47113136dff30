------------------------------ MODULE KeyQueue ------------------------------
(***************************************************************************)
(* What the kernel expects of its keyboard buffer: a first-in first-out    *)
(* queue that holds a bounded number of characters.  A character offered   *)
(* while the queue is full is lost, and is the only one that ever is; a    *)
(* character is taken once, and in the order in which it was offered.      *)
(* The module Keyboard implements it with the ring buffer of keyboard.c.   *)
(***************************************************************************)
EXTENDS Naturals, Sequences

CONSTANTS
    Chars,      \* the characters a key press can produce
    Capacity,   \* how many of them wait at most
    Nothing     \* what the reader holds before its first character

VARIABLES
    offered,    \* the last character offered, with a bit that alternates
    queue,      \* the characters waiting, oldest first
    taken       \* the character the reader took last

kqVars == <<offered, queue, taken>>

Init ==
    /\ offered = <<Nothing, 0>>
    /\ queue = <<>>
    /\ taken = Nothing

\* Every offer flips the bit, so an offer cannot pass for a stuttering step
\* and a character can be lost by a full queue only.
Put(c) ==
    /\ offered' = <<c, 1 - offered[2]>>
    /\ queue' = IF Len(queue) < Capacity THEN Append(queue, c) ELSE queue
    /\ UNCHANGED taken

Get ==
    /\ queue # <<>>
    /\ taken' = Head(queue)
    /\ queue' = Tail(queue)
    /\ UNCHANGED offered

Next == Get \/ \E c \in Chars : Put(c)

Spec == Init /\ [][Next]_kqVars

=============================================================================
