---------------------------- MODULE TokenChannel ----------------------------
(***************************************************************************)
(* What one direction of the client's connection promises to the code that *)
(* calls WriteToken and ReadToken: tokens arrive whole, once each and in   *)
(* order; when the connection ends some of the last ones may be lost.      *)
(* From then on the reader is told so by a null, or once the tokens are    *)
(* used up by some filler of the implementation.                           *)
(***************************************************************************)
EXTENDS Sequences, Naturals

CONSTANTS
  Token,     \* what may be sent
  Null,      \* the reader's answer for `no token'
  Filler     \* what it may be told instead once nothing is left

VARIABLES
  queue,     \* the tokens offered and not yet delivered
  ended,     \* has the connection ended?
  answer     \* what the last read returned, Null before the first

Init == queue = <<>> /\ ended = FALSE /\ answer = Null

Offer ==
  /\ ~ended
  /\ \E t \in Token : queue' = Append(queue, t)
  /\ UNCHANGED <<ended, answer>>

Deliver ==
  /\ queue # <<>>
  /\ answer' = Head(queue) /\ queue' = Tail(queue)
  /\ UNCHANGED ended

Lose ==
  /\ ~ended /\ ended' = TRUE
  /\ \E kept \in 0 .. Len(queue) : queue' = SubSeq(queue, 1, kept)
  /\ UNCHANGED answer

Refuse ==
  /\ ended
  /\ answer' = Null /\ queue' = <<>>
  /\ UNCHANGED ended

Fill ==
  /\ ended /\ queue = <<>>
  /\ answer' \in Filler
  /\ UNCHANGED <<queue, ended>>

Next == Offer \/ Deliver \/ Lose \/ Refuse \/ Fill

Spec == Init /\ [][Next]_<<queue, ended, answer>>
=============================================================================
