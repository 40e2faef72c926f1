----------------------------- MODULE ByteQueue -----------------------------
(* What a buffer of a link promises: a first-in first-out queue of bytes with *)
(* a capacity, which its owner empties and resizes when a link is closed.     *)
EXTENDS Integers, Sequences

CONSTANTS Byte, Sizes

VARIABLES
  q,      (* the bytes, oldest first *)
  room    (* the capacity            *)

Init == q = <<>> /\ room = 0

\* Bytes enter behind the others as long as there is room.
Put == \E n \in 1..(room - Len(q)) : \E s \in [1..n -> Byte] :
         q' = q \o s /\ UNCHANGED room

\* The oldest bytes leave.
Take == \E n \in 1..Len(q) : q' = SubSeq(q, n + 1, Len(q)) /\ UNCHANGED room

Resize == q' = <<>> /\ room' \in Sizes

Next == Put \/ Take \/ Resize

Spec == Init /\ [][Next]_<<q, room>>
=============================================================================
