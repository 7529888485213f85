----------------------------- MODULE ByteStream -----------------------------
(***************************************************************************)
(* What a connection promises to its two ends in one direction: the bytes  *)
(* that come out are the bytes that went in, in that order, up to where    *)
(* the connection breaks.                                                  *)
(***************************************************************************)
EXTENDS SequencesExt

VARIABLES
  sent,       \* what was put in so far
  received    \* what has come out

Init == sent = <<>> /\ received = <<>>

\* Any number of bytes at a time.
Send ==
  /\ IsStrictPrefix(sent, sent')
  /\ UNCHANGED received

Receive ==
  /\ \E n \in (Len(received) + 1)..Len(sent) : received' = SubSeq(sent, 1, n)
  /\ UNCHANGED sent

Next == Send \/ Receive

Spec == Init /\ [][Next]_<<sent, received>>
=============================================================================
