------------------------------- MODULE Buffers -------------------------------
(***************************************************************************)
(* What varbuf.h promises: every variable declared as a varbuf is a list   *)
(* that grows at its end and gives up any part of itself.  A call that     *)
(* throws changes nothing.                                                 *)
(***************************************************************************)
EXTENDS Naturals, Sequences

CONSTANTS Names, Chunks

VARIABLES
  contents,  \* the list of each buffer
  popped     \* what the call before copied to its destination

Init == contents = [b \in Names |-> <<>>] /\ popped = <<>>

Push(b, chunk) ==
  /\ contents' = [contents EXCEPT ![b] = @ \o chunk]
  /\ popped' = <<>>

\* Takes the elements first .. last, none if last is first - 1.
Pop(b, first, last) ==
  LET list == contents[b] IN
  /\ popped' = SubSeq(list, first, last)
  /\ contents' = [contents EXCEPT ![b] =
       SubSeq(list, 1, first - 1) \o SubSeq(list, last + 1, Len(list))]

Clear(b) ==
  /\ contents' = [contents EXCEPT ![b] = <<>>]
  /\ popped' = <<>>

Next == \E b \in Names :
  \/ Clear(b)
  \/ \E chunk \in Chunks : Push(b, chunk)
  \/ \E first \in 1 .. Len(contents[b]) + 1 :
       \E last \in first - 1 .. Len(contents[b]) : Pop(b, first, last)

Spec == Init /\ [][Next]_<<contents, popped>>

=============================================================================
