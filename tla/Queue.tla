-------------------------------- MODULE Queue --------------------------------
(***************************************************************************)
(* What fifo.h promises: a queue of at most Size elements.  put is every   *)
(* element that ever entered it, in order, taken every element that left;  *)
(* the queue is the part of put behind taken.                              *)
(***************************************************************************)
EXTENDS Naturals, Sequences

CONSTANTS Size, Elements

VARIABLES put, taken

Length == Len(put) - Len(taken)

Init == put = <<>> /\ taken = <<>>

\* fifo_put waits for space, then appends; an element enters once.
Put(e) ==
  /\ Length < Size
  /\ \A i \in DOMAIN put : put[i] # e
  /\ put' = Append(put, e)
  /\ UNCHANGED taken

\* fifo_get waits for an element and takes the oldest.
Get ==
  /\ Length > 0
  /\ taken' = Append(taken, put[Len(taken) + 1])
  /\ UNCHANGED put

Next == Get \/ \E e \in Elements : Put(e)

Spec == Init /\ [][Next]_<<put, taken>>

=============================================================================
