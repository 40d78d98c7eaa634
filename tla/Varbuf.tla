-------------------------------- MODULE Varbuf --------------------------------
(***************************************************************************)
(* The growing buffer of src/src/knabberkiste/util/varbuf.c: a variable of *)
(* the caller that is null or points into a block of the heap, which holds *)
(* a length and the elements.  malloc and realloc may fail at any call,    *)
(* and realloc may move the block it enlarges.                             *)
(*                                                                         *)
(* push and pop are split into the calls that return and those that        *)
(* throw, so that a module with an error library can join a throw to the   *)
(* latter.  Elements are of one type; a block is known by its address.     *)
(***************************************************************************)
EXTENDS Naturals, Sequences, FiniteSets

CONSTANTS
  Names,         \* the variables declared as a varbuf
  Addresses,     \* where blocks can be (not Null)
  Null,
  Chunks,        \* what is pushed at once
  Word,          \* 2^32: the range of size_t
  ShrinkMoves,   \* whether a realloc that shrinks may move the block (newlib: FALSE)
  MaxLength      \* bound of the model: elements of a buffer

VARIABLES
  buf,      \* the caller's variables
  heap,     \* the elements of every allocated block
  popped,   \* what the call before copied to its destination
  wild      \* TRUE iff memory outside the blocks was read or written

vars == <<buf, heap, popped, wild>>

Free == Addresses \ DOMAIN heap
IsNull(b) == buf[b] = Null
Elements(b) == IF IsNull(b) THEN <<>> ELSE heap[buf[b]]
varbuf_get_length(b) == Len(Elements(b))

\* The heap after the block at from is replaced by one at to.
Moved(from, to, elements) ==
  [a \in (DOMAIN heap \ {from}) \cup {to} |-> IF a = to THEN elements ELSE heap[a]]
Released(address) == [a \in DOMAIN heap \ {address} |-> heap[a]]

-----------------------------------------------------------------------------
(* _varbuf_push_chunk *)

\* The block may move, but the caller's variable is only set by the first push.
PushKeepsPointer(b, chunk) ==
  /\ varbuf_get_length(b) + Len(chunk) <= MaxLength
  /\ \E a \in Free \cup ({buf[b]} \ {Null}) :
       /\ buf' = [buf EXCEPT ![b] = IF IsNull(b) THEN a ELSE @]
       /\ heap' = Moved(buf[b], a, Elements(b) \o chunk)
  /\ popped' = <<>>
  /\ UNCHANGED wild

\* malloc if there is no block yet, realloc to the new size, which may move it.
push_chunk(b, chunk) ==
  /\ varbuf_get_length(b) + Len(chunk) <= MaxLength
  /\ \E a \in Free \cup ({buf[b]} \ {Null}) :
       /\ buf' = [buf EXCEPT ![b] = a]
       /\ heap' = Moved(buf[b], a, Elements(b) \o chunk)
  /\ popped' = <<>>
  /\ UNCHANGED wild

\* ERR_ALLOCATION: malloc fails, or realloc does and leaves the block it was given,
\* which is an empty one when malloc has just returned it.
PushThrows(b) ==
  /\ \/ UNCHANGED <<buf, heap>>
     \/ /\ IsNull(b)
        /\ \E a \in Free : /\ buf' = [buf EXCEPT ![b] = a]
                           /\ heap' = Moved(Null, a, <<>>)
  /\ UNCHANGED <<popped, wild>>

-----------------------------------------------------------------------------
(* _varbuf_pop_chunk: n elements from index start on *)

InRangeAtStart(b, start, n) == varbuf_get_length(b) >= start
InRange(b, start, n) == varbuf_get_length(b) >= (start + n) % Word

\* The elements behind the popped ones are not moved to the front.
RestUnmoved(b, start, n) == SubSeq(Elements(b), 1, varbuf_get_length(b) - n)

Rest(b, start, n) ==
  LET all == Elements(b) IN SubSeq(all, 1, start) \o SubSeq(all, start + n + 1, Len(all))

\* The last element takes the block with it; a smaller block is not written back to
\* the caller's variable.
pop_chunk(b, start, n) ==
  /\ ~IsNull(b) /\ InRange(b, start, n)
  /\ start + n <= varbuf_get_length(b)
  /\ popped' = SubSeq(Elements(b), start + 1, start + n)
  /\ IF Rest(b, start, n) = <<>>
       THEN /\ heap' = Released(buf[b])
            /\ buf' = [buf EXCEPT ![b] = Null]
       ELSE /\ \E a \in {buf[b]} \cup {f \in Free : ShrinkMoves} :
                 heap' = Moved(buf[b], a, Rest(b, start, n))
            /\ UNCHANGED buf
  /\ UNCHANGED wild

\* ERR_ALLOCATION on a null pointer, ERR_RANGE behind the end.
PopThrows(b, start, n) ==
  /\ IsNull(b) \/ ~InRange(b, start, n)
  /\ UNCHANGED vars

\* The sum of the range check wraps around: elements in front of the first are
\* copied and the length becomes negative.
PopWild(b, start, n) ==
  /\ ~IsNull(b) /\ InRange(b, start, n)
  /\ start + n > varbuf_get_length(b)
  /\ wild' = TRUE
  /\ UNCHANGED <<buf, heap, popped>>

\* varbuf_pop_end: the index is computed without a look at the length.
EndOf(b) == (varbuf_get_length(b) + Word - 1) % Word

varbuf_clear(b) ==
  /\ heap' = Released(buf[b])
  /\ buf' = [buf EXCEPT ![b] = Null]
  /\ popped' = <<>>
  /\ UNCHANGED wild

-----------------------------------------------------------------------------

Init ==
  /\ buf = [b \in Names |-> Null]
  /\ heap = [a \in {} |-> <<>>]
  /\ popped = <<>>
  /\ wild = FALSE

Spans == (0 .. MaxLength) \X (0 .. MaxLength)    \* start and number of elements

Returns == \E b \in Names :
  \/ varbuf_clear(b)
  \/ \E chunk \in Chunks : push_chunk(b, chunk)
  \/ \E span \in Spans : pop_chunk(b, span[1], span[2])
  \/ pop_chunk(b, EndOf(b), 1)

Throws == \E b \in Names :
  \/ PushThrows(b)
  \/ \E span \in Spans : PopThrows(b, span[1], span[2])
  \/ PopThrows(b, EndOf(b), 1)

Runaway == \E b \in Names :
  PopWild(b, EndOf(b), 1) \/ \E span \in Spans : PopWild(b, span[1], span[2])

=============================================================================
