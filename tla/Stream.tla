------------------------------- MODULE Stream -------------------------------
(***************************************************************************)
(* What an outbound handler expects of the reader it is given: the data the *)
(* client wrote, complete and in order, until the stream is broken.  Chunks *)
(* are numbered in the order in which the client writes them.               *)
(***************************************************************************)
EXTENDS Naturals, Sequences

VARIABLES
    sent,   \* chunks written so far
    queue,  \* written and not yet read
    got,    \* what the handler has read
    broken  \* no write succeeds any more

vars == <<sent, queue, got, broken>>

Init ==
    /\ sent = 0
    /\ queue = <<>> /\ got = <<>>
    /\ broken = FALSE

Write ==
    /\ ~broken
    /\ sent' = sent + 1
    /\ queue' = Append(queue, sent')
    /\ UNCHANGED <<got, broken>>

(* The reader gets one or more chunks. *)
Read ==
    /\ \E k \in 1..Len(queue) :
         /\ got' = got \o SubSeq(queue, 1, k)
         /\ queue' = SubSeq(queue, k + 1, Len(queue))
    /\ UNCHANGED <<sent, broken>>

(* Somebody interrupts the stream: what is lost is its end. *)
Break ==
    /\ broken' = TRUE
    /\ \E k \in 0..Len(queue) : queue' = SubSeq(queue, 1, k)
    /\ UNCHANGED <<sent, got>>

Next == Write \/ Read \/ Break

(* Nothing is lost but the end, nothing is repeated, nothing is reordered. *)
Safety == Init /\ [][Next]_vars

Spec == Safety /\ WF_vars(Read)
=============================================================================
