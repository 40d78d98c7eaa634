---------------------------- MODULE UtilitiesProofs ----------------------------
(***************************************************************************)
(* Programs on top of the utilities, for any values of the constants: what *)
(* the error library promises also when library calls throw, and what the  *)
(* growing buffer, the watchdog, the delay and the display promise.        *)
(***************************************************************************)
EXTENDS Utilities, ErrorsProofs, WellFoundedInduction

-----------------------------------------------------------------------------
(* The steps of a program *)

\* The error library and the scheduler take their own steps, also when a library throws;
\* a call that returns leaves them alone, and all else stops the MCU.
LEMMA StepOfErrors ==
  [UtilitiesNext]_allVars => [Next]_vars \/ \E state \in {"corrupted", "reset"} : Becomes(state)
<1> SUFFICES ASSUME [UtilitiesNext]_allVars
             PROVE  [Next]_vars \/ \E state \in {"corrupted", "reset"} : Becomes(state)
  OBVIOUS
<1>1. \A c \in Contexts : InUserCode(c) /\ Throwing(c) => Next
  BY DEF Throwing, Next, Application, error_throw
<1>2. ASSUME NEW c \in Contexts, VarbufStep(c)
      PROVE  [Next]_vars \/ Becomes("corrupted")
  BY <1>1, <1>2 DEF VarbufStep, Calling
<1>3. ASSUME NEW c \in Contexts, WatchdogStep(c) PROVE [Next]_vars
  BY <1>1, <1>3 DEF WatchdogStep, Calling
<1>4. ASSUME NEW c \in Contexts, DelayStep(c) \/ DisplayStep(c) PROVE [Next]_vars
  BY <1>4 DEF DelayStep, DisplayStep
<1>5. CASE ErrorStep \/ DelayTick \/ DelayReturn
  BY <1>5 DEF ErrorStep, DelayTick, DelayReturn
<1>6. CASE WatchdogTick
  BY <1>6 DEF WatchdogTick
<1>7. CASE UNCHANGED allVars
  BY <1>7 DEF allVars
<1> QED
  BY <1>2, <1>3, <1>4, <1>5, <1>6, <1>7 DEF UtilitiesNext

\* A machine that has stopped stays so.
LEMMA StaysDown ==
  ASSUME [UtilitiesNext]_allVars, mcu # "up"
  PROVE  mcu' # "up" /\ (mcu = "reset" => mcu' = "reset")
<1>1. [Next]_vars => mcu' = mcu
  BY DEF Next, vars, processor, Library, Application, Land, close_try, CloseMasked, TestCatch,
         FinishCatch, Finish, error_try, FinishBody, error_throw, InUserCode, Runs,
         StartScheduler, Preempt, InterruptThrow
<1>2. ASSUME NEW state \in {"corrupted", "reset"}, Becomes(state) PROVE mcu' # "up"
  BY <1>2 DEF Becomes
<1>3. mcu' # "up"
  BY <1>1, <1>2, StepOfErrors
<1>4. ASSUME mcu = "reset" PROVE mcu' = "reset"
  <2>1. \A c \in Contexts : ~InUserCode(c)
    BY <1>4 DEF InUserCode, Runs
  <2>2. \A c \in Contexts : ~VarbufStep(c) /\ ~WatchdogStep(c)
    BY <2>1 DEF VarbufStep, WatchdogStep, Calling
  <2>3. ~WatchdogTick
    BY <1>4 DEF WatchdogTick
  <2>4. ErrorStep \/ DelayTick \/ DelayReturn => [Next]_vars
    BY DEF ErrorStep, DelayTick, DelayReturn
  <2>5. \A c \in Contexts : DelayStep(c) \/ DisplayStep(c) => [Next]_vars
    BY DEF DelayStep, DisplayStep
  <2>6. UNCHANGED allVars => [Next]_vars
    BY DEF allVars
  <2> QED
    BY <1>1, <1>4, <2>2, <2>3, <2>4, <2>5, <2>6 DEF UtilitiesNext
<1> QED
  BY <1>3, <1>4

-----------------------------------------------------------------------------
(* Errors *)

LEMMA BecomesArmed ==
  ASSUME ArmedInv, NEW state \in {"corrupted", "reset"}, Becomes(state)
  PROVE  ArmedInv'
<1>1. /\ mcu' = state /\ mcu' # "up" /\ mcu' # "undefined"
      /\ UNCHANGED <<habits, scheduler, cpu, irq_enabled, manager, globals, blocks, status, tries,
                     raced>>
  BY DEF Becomes
<1>2. TypeOK'
  BY <1>1 DEF ArmedInv, CaughtInv, OwnInv, Typed, TypeOK, globals
<1>3. Managed' /\ OuterBodies' = OuterBodies /\ Orderly' = Orderly /\ AllThrow' = AllThrow
  BY <1>1 DEF ArmedInv, CaughtInv, OwnInv, Typed, Managed, OuterBodies, Orderly, AllThrow, Has,
              Open
<1>4. \A c \in Contexts : ContextInv(c)' = ContextInv(c)
  BY <1>1 DEF ContextInv, StackInv, Armed, OwnError, At, Open, Innermost
<1>5. \A c \in Contexts : LinkInv(c)' = LinkInv(c)
  BY <1>1 DEF LinkInv, Chained, NextLink, ClosedByThrow, Restored, At, Open, Innermost
<1> QED
  BY <1>1, <1>2, <1>3, <1>4, <1>5 DEF ArmedInv, CaughtInv, OwnInv, Typed

LEMMA ArmedStep == ArmedInv /\ [UtilitiesNext]_allVars => ArmedInv'
BY StepOfErrors, LinkStep, BecomesArmed

\* error.h: what holds of the tries and catches of an Orderly execution holds as well when
\* the errors are thrown inside the buffer or the watchdog, and when calls of the libraries,
\* ticks and resets come between: no try is entered from a catch body, no throw under a try
\* meets another context at the test of its loop and, for the jumps, tries end with errors
\* and malloc returns zeroed memory.
THEOREM ErrorsUnderLibraries ==
  UtilitiesSpec => [](HandlerOwnsGlobals /\ CaughtByInnermost /\ JumpsAreArmed)
<1>1. UtilitiesInit => ArmedInv
  BY LinkInit DEF UtilitiesInit
<1>2. ArmedInv => HandlerOwnsGlobals /\ CaughtByInnermost
  BY DEF ArmedInv, CaughtInv, OwnInv, ContextInv, OwnError, CaughtByInnermost, Owned, LoopOwns,
         InLoop, HandlerOwnsGlobals, Runs
<1>3. ArmedInv => JumpsAreArmed
  BY ArmedMeansWrapped
<1> QED
  BY <1>1, <1>2, <1>3, ArmedStep, PTL DEF UtilitiesSpec

-----------------------------------------------------------------------------
(* The growing buffer *)

Items == UNION {{chunk[i] : i \in DOMAIN chunk} : chunk \in Chunks}

VarbufTyped ==
  /\ buf \in [Names -> Addresses \cup {Null}]
  /\ heap = [a \in DOMAIN heap |-> heap[a]] /\ DOMAIN heap \subseteq Addresses
  /\ \A a \in DOMAIN heap : heap[a] \in Seq(Items) /\ Len(heap[a]) <= MaxLength

VarbufOwned == VarbufTyped /\ HeapOwned

LEMMA ChunksTyped == \A chunk \in Chunks : chunk \in Seq(Items)
<1> SUFFICES ASSUME NEW chunk \in Chunks PROVE chunk \in Seq(Items)
  OBVIOUS
<1>1. chunk \in Seq({chunk[i] : i \in DOMAIN chunk})
  BY UtilitiesAssumption
<1>2. \A i \in 1 .. Len(chunk) : chunk[i] \in Items
  BY <1>1 DEF Items
<1> QED
  BY <1>1, <1>2

\* A buffer is null and empty, or the only one that points to its block.
LEMMA BufferTyped ==
  ASSUME VarbufOwned, NEW b \in Names
  PROVE  /\ buf[b] = Null \/ buf[b] \in DOMAIN heap
         /\ Varbuf!Elements(b) \in Seq(Items) /\ Len(Varbuf!Elements(b)) <= MaxLength
         /\ Len(Varbuf!Elements(b)) \in Nat
         /\ \A d \in Names \ {b} : buf[d] = Null \/ buf[d] # buf[b]
         /\ Null \notin DOMAIN heap
<1>1. Null \notin DOMAIN heap
  BY UtilitiesAssumption DEF VarbufOwned, VarbufTyped
<1>2. buf[b] = Null \/ buf[b] \in DOMAIN heap
  BY DEF VarbufOwned, HeapOwned
<1>3. \A d \in Names \ {b} : buf[d] = Null \/ buf[d] # buf[b]
  BY DEF VarbufOwned, HeapOwned
<1>4. Varbuf!Elements(b) \in Seq(Items) /\ Len(Varbuf!Elements(b)) <= MaxLength
  <2>1. CASE buf[b] = Null
    <3>1. Varbuf!Elements(b) = <<>>
      BY <2>1 DEF Varbuf!Elements, Varbuf!IsNull
    <3> QED
      BY <3>1, UtilitiesAssumption
  <2>2. CASE buf[b] # Null
    <3>1. Varbuf!Elements(b) = heap[buf[b]]
      BY <2>2 DEF Varbuf!Elements, Varbuf!IsNull
    <3> QED
      BY <1>2, <2>2, <3>1 DEF VarbufOwned, VarbufTyped
  <2> QED
    BY <2>1, <2>2
<1> QED
  BY <1>1, <1>2, <1>3, <1>4

\* The lists the buffers hold.
Contents == [b \in Names |-> Varbuf!Elements(b)]

\* Every step that allocates, enlarges or shrinks a block.
LEMMA BlockReplaced ==
  ASSUME VarbufOwned, NEW b \in Names, NEW a \in Addresses,
         a \notin DOMAIN heap \/ a = buf[b],
         NEW s \in Seq(Items), Len(s) <= MaxLength,
         buf' = [buf EXCEPT ![b] = a], heap' = Varbuf!Moved(buf[b], a, s)
  PROVE  VarbufOwned' /\ Contents' = [Contents EXCEPT ![b] = s]
<1>1. /\ buf' \in [Names -> Addresses \cup {Null}] /\ buf'[b] = a
      /\ \A d \in Names \ {b} : buf'[d] = buf[d]
  BY DEF VarbufOwned, VarbufTyped
<1>2. /\ DOMAIN heap' = (DOMAIN heap \ {buf[b]}) \cup {a}
      /\ heap' = [x \in DOMAIN heap' |-> heap'[x]]
      /\ heap'[a] = s /\ \A x \in DOMAIN heap' \ {a} : x \in DOMAIN heap /\ heap'[x] = heap[x]
  BY DEF Varbuf!Moved
<1>3. a # Null
  BY UtilitiesAssumption
<1>4. VarbufTyped'
  BY <1>1, <1>2 DEF VarbufOwned, VarbufTyped
<1>5. ASSUME NEW d \in Names \ {b}
      PROVE  \/ buf'[d] = Null
             \/ buf'[d] \in DOMAIN heap' /\ buf'[d] # a /\ heap'[buf'[d]] = heap[buf[d]]
  BY <1>1, <1>2, BufferTyped
<1>6. HeapOwned'
  <2>1. \A d \in Names : buf'[d] # Null => buf'[d] \in DOMAIN heap'
    BY <1>1, <1>2, <1>5
  <2>2. \A x \in DOMAIN heap' : \E d \in Names : buf'[d] = x
    <3> SUFFICES ASSUME NEW x \in DOMAIN heap' PROVE \E d \in Names : buf'[d] = x
      OBVIOUS
    <3>1. CASE x = a
      BY <1>1, <3>1
    <3>2. CASE x # a
      <4>1. x \in DOMAIN heap /\ x # buf[b]
        BY <1>2, <3>2
      <4>2. PICK d \in Names : buf[d] = x
        BY <4>1 DEF VarbufOwned, HeapOwned
      <4> QED
        BY <1>1, <4>1, <4>2
    <3> QED
      BY <3>1, <3>2
  <2>3. ASSUME NEW d \in Names, NEW e \in Names, d # e, buf'[d] = buf'[e] PROVE buf'[d] = Null
    <3>1. CASE d = b
      BY <1>1, <1>3, <1>5, <2>3, <3>1
    <3>2. CASE e = b
      BY <1>1, <1>3, <1>5, <2>3, <3>2
    <3>3. CASE d # b /\ e # b
      BY <1>1, <2>3, <3>3 DEF VarbufOwned, HeapOwned
    <3> QED
      BY <3>1, <3>2, <3>3
  <2> QED
    BY <2>1, <2>2, <2>3 DEF HeapOwned
<1>7. Contents' = [Contents EXCEPT ![b] = s]
  <2>1. Varbuf!Elements(b)' = s
    BY <1>1, <1>2, <1>3 DEF Varbuf!Elements, Varbuf!IsNull
  <2>2. \A d \in Names \ {b} : Varbuf!Elements(d)' = Varbuf!Elements(d)
    BY <1>1, <1>5 DEF Varbuf!Elements, Varbuf!IsNull
  <2> QED
    BY <2>1, <2>2 DEF Contents
<1> QED
  BY <1>4, <1>6, <1>7 DEF VarbufOwned

LEMMA BlockReleased ==
  ASSUME VarbufOwned, NEW b \in Names,
         buf' = [buf EXCEPT ![b] = Null], heap' = Varbuf!Released(buf[b])
  PROVE  VarbufOwned' /\ Contents' = [Contents EXCEPT ![b] = <<>>]
<1>1. /\ buf' \in [Names -> Addresses \cup {Null}] /\ buf'[b] = Null
      /\ \A d \in Names \ {b} : buf'[d] = buf[d]
  BY DEF VarbufOwned, VarbufTyped
<1>2. /\ DOMAIN heap' = DOMAIN heap \ {buf[b]}
      /\ heap' = [x \in DOMAIN heap' |-> heap'[x]]
      /\ \A x \in DOMAIN heap' : heap'[x] = heap[x]
  BY DEF Varbuf!Released
<1>3. VarbufTyped'
  BY <1>1, <1>2 DEF VarbufOwned, VarbufTyped
<1>4. ASSUME NEW d \in Names \ {b}
      PROVE  buf'[d] = Null \/ (buf'[d] \in DOMAIN heap' /\ heap'[buf'[d]] = heap[buf[d]])
  <2>1. buf[d] = Null \/ (buf[d] \in DOMAIN heap /\ buf[d] # buf[b])
    BY BufferTyped DEF VarbufOwned, HeapOwned
  <2> QED
    BY <1>1, <1>2, <2>1
<1>5. HeapOwned'
  <2>1. \A d \in Names : buf'[d] # Null => buf'[d] \in DOMAIN heap'
    BY <1>1, <1>4
  <2>2. \A x \in DOMAIN heap' : \E d \in Names : buf'[d] = x
    <3> SUFFICES ASSUME NEW x \in DOMAIN heap' PROVE \E d \in Names : buf'[d] = x
      OBVIOUS
    <3>1. x \in DOMAIN heap /\ x # buf[b]
      BY <1>2
    <3>2. PICK d \in Names : buf[d] = x
      BY <3>1 DEF VarbufOwned, HeapOwned
    <3> QED
      BY <1>1, <3>1, <3>2
  <2>3. ASSUME NEW d \in Names, NEW e \in Names, d # e, buf'[d] = buf'[e] PROVE buf'[d] = Null
    BY <1>1, <2>3 DEF VarbufOwned, HeapOwned
  <2> QED
    BY <2>1, <2>2, <2>3 DEF HeapOwned
<1>6. Contents' = [Contents EXCEPT ![b] = <<>>]
  <2>1. Varbuf!Elements(b)' = <<>>
    BY <1>1 DEF Varbuf!Elements, Varbuf!IsNull
  <2>2. \A d \in Names \ {b} : Varbuf!Elements(d)' = Varbuf!Elements(d)
    BY <1>1, <1>4 DEF Varbuf!Elements, Varbuf!IsNull
  <2> QED
    BY <2>1, <2>2 DEF Contents
<1> QED
  BY <1>3, <1>5, <1>6 DEF VarbufOwned

LEMMA SpanInRange ==
  ASSUME NEW b \in Names, VarbufOwned, NEW start \in 0 .. MaxLength, NEW n \in 0 .. MaxLength
  PROVE  Varbuf!InRange(b, start, n) => start + n <= Varbuf!varbuf_get_length(b)
<1>1. start + n \in Nat /\ start + n < Word /\ Word \in Nat
  BY UtilitiesAssumption
<1>2. (start + n) % Word = start + n
  BY <1>1
<1>3. Varbuf!varbuf_get_length(b) \in Nat
  BY BufferTyped DEF Varbuf!varbuf_get_length
<1> QED
  BY <1>1, <1>2, <1>3 DEF Varbuf!InRange

LEMMA EndInRange ==
  ASSUME NEW b \in Names, VarbufOwned
  PROVE  /\ Varbuf!EndOf(b) \in Nat
         /\ Varbuf!varbuf_get_length(b) = 0 \/ Varbuf!EndOf(b) + 1 <= Varbuf!varbuf_get_length(b)
<1> DEFINE n == Varbuf!varbuf_get_length(b)
<1>1. n \in Nat /\ n <= MaxLength /\ n < Word /\ Word \in Nat /\ Word > 0
  BY BufferTyped, UtilitiesAssumption DEF Varbuf!varbuf_get_length
<1>2. Varbuf!EndOf(b) = (n + Word - 1) % Word
  BY DEF Varbuf!EndOf
<1> HIDE DEF n
<1>3. n > 0 => (n + Word - 1) % Word = n - 1
  <2> SUFFICES ASSUME n > 0 PROVE (n + Word - 1) % Word = n - 1
    OBVIOUS
  <2>1. n + Word - 1 = 1 * Word + (n - 1) /\ n - 1 \in 0 .. Word - 1
    BY <1>1
  <2> QED
    BY <1>1, <2>1
<1>4. (n + Word - 1) % Word \in Nat
  BY <1>1
<1> QED
  BY <1>1, <1>2, <1>3, <1>4 DEF n

LEMMA PushGrows ==
  ASSUME VarbufOwned, NEW b \in Names, NEW chunk \in Chunks, Varbuf!push_chunk(b, chunk)
  PROVE  VarbufOwned' /\ Lists!Push(b, chunk)
<1> DEFINE s == Varbuf!Elements(b) \o chunk
<1>1. /\ Varbuf!varbuf_get_length(b) + Len(chunk) <= MaxLength
      /\ popped' = <<>>
      /\ \E a \in Varbuf!Free \cup ({buf[b]} \ {Null}) :
           buf' = [buf EXCEPT ![b] = a] /\ heap' = Varbuf!Moved(buf[b], a, s)
  BY DEF Varbuf!push_chunk
<1>2. s \in Seq(Items) /\ Len(s) <= MaxLength
  <2>1. Varbuf!Elements(b) \in Seq(Items) /\ chunk \in Seq(Items)
    BY BufferTyped, ChunksTyped
  <2>2. s \in Seq(Items) /\ Len(s) = Len(Varbuf!Elements(b)) + Len(chunk)
    BY <2>1
  <2> QED
    BY <1>1, <2>2 DEF Varbuf!varbuf_get_length
<1> HIDE DEF s
<1>3. PICK a \in Varbuf!Free \cup ({buf[b]} \ {Null}) :
        buf' = [buf EXCEPT ![b] = a] /\ heap' = Varbuf!Moved(buf[b], a, s)
  BY <1>1
<1>4. a \in Addresses /\ (a \notin DOMAIN heap \/ a = buf[b])
  BY <1>3, BufferTyped DEF Varbuf!Free, VarbufOwned, VarbufTyped
<1>5. VarbufOwned' /\ Contents' = [Contents EXCEPT ![b] = s]
  BY <1>2, <1>3, <1>4, BlockReplaced
<1>6. Contents[b] \o chunk = s
  BY DEF Contents, s
<1>7. Contents' = [Contents EXCEPT ![b] = @ \o chunk]
  BY <1>5, <1>6
<1> QED
  BY <1>1, <1>5, <1>7 DEF Lists!Push, Contents

LEMMA ThrowKeeps ==
  ASSUME VarbufOwned, NEW b \in Names, Varbuf!PushThrows(b)
  PROVE  VarbufOwned' /\ UNCHANGED <<Contents, popped>>
<1>1. CASE UNCHANGED <<buf, heap>>
  <2>1. VarbufOwned' = VarbufOwned /\ Contents' = Contents
    BY <1>1 DEF VarbufOwned, VarbufTyped, HeapOwned, Contents, Varbuf!Elements, Varbuf!IsNull
  <2> QED
    BY <2>1 DEF Varbuf!PushThrows
<1>2. ASSUME buf[b] = Null, NEW a \in Varbuf!Free, buf' = [buf EXCEPT ![b] = a],
             heap' = Varbuf!Moved(Null, a, <<>>)
      PROVE  VarbufOwned' /\ UNCHANGED <<Contents, popped>>
  <2>1. a \in Addresses /\ a \notin DOMAIN heap
    BY DEF Varbuf!Free
  <2>2. <<>> \in Seq(Items) /\ Len(<<>>) <= MaxLength
    BY UtilitiesAssumption
  <2>3. VarbufOwned' /\ Contents' = [Contents EXCEPT ![b] = <<>>]
    BY <1>2, <2>1, <2>2, BlockReplaced
  <2>4. Contents[b] = <<>>
    BY <1>2 DEF Contents, Varbuf!Elements, Varbuf!IsNull
  <2>5. Contents' = Contents
    BY <2>3, <2>4 DEF Contents
  <2> QED
    BY <2>3, <2>5 DEF Varbuf!PushThrows
<1> QED
  BY <1>1, <1>2 DEF Varbuf!PushThrows, Varbuf!IsNull

LEMMA PopTakes ==
  ASSUME VarbufOwned, ShrinkMoves = FALSE, NEW b \in Names, NEW start \in Nat, NEW n \in Nat,
         Varbuf!pop_chunk(b, start, n)
  PROVE  /\ VarbufOwned' /\ Lists!Pop(b, start + 1, start + n)
         /\ start + n <= Len(Contents[b])
<1> DEFINE s == Varbuf!Elements(b)
           rest == Varbuf!Rest(b, start, n)
<1>1. /\ buf[b] # Null /\ start + n <= Len(s)
      /\ popped' = SubSeq(s, start + 1, start + n)
  BY DEF Varbuf!pop_chunk, Varbuf!IsNull, Varbuf!varbuf_get_length
<1>2. s \in Seq(Items) /\ Len(s) \in Nat /\ Len(s) <= MaxLength
      /\ buf[b] \in DOMAIN heap /\ buf[b] \in Addresses
  BY <1>1, BufferTyped DEF VarbufOwned, VarbufTyped
<1>3. rest = SubSeq(s, 1, start) \o SubSeq(s, start + n + 1, Len(s))
  BY DEF Varbuf!Rest
<1> HIDE DEF s
<1>4. rest \in Seq(Items) /\ Len(rest) <= MaxLength
  <2> DEFINE front == SubSeq(s, 1, start)
             back == SubSeq(s, start + n + 1, Len(s))
  <2>1. front \in Seq(Items) /\ Len(front) = start
    BY <1>1, <1>2
  <2>2. back \in Seq(Items) /\ Len(back) = Len(s) - (start + n)
    BY <1>1, <1>2
  <2>3. rest = front \o back
    BY <1>3
  <2> HIDE DEF front, back, rest
  <2>4. rest \in Seq(Items) /\ Len(rest) = Len(front) + Len(back)
    BY <2>1, <2>2, <2>3
  <2>5. Len(front) + Len(back) <= MaxLength
    BY <1>1, <1>2, <2>1, <2>2, UtilitiesAssumption
  <2> QED
    BY <2>4, <2>5
<1> HIDE DEF rest
<1>5. VarbufOwned' /\ Contents' = [Contents EXCEPT ![b] = rest]
  <2>1. CASE rest = <<>>
    <3>1. heap' = Varbuf!Released(buf[b]) /\ buf' = [buf EXCEPT ![b] = Null]
      BY <2>1 DEF Varbuf!pop_chunk, rest
    <3> QED
      BY <2>1, <3>1, BlockReleased
  <2>2. CASE rest # <<>>
    <3>1. heap' = Varbuf!Moved(buf[b], buf[b], rest) /\ buf' = buf
      BY <2>2 DEF Varbuf!pop_chunk, rest
    <3>2. buf' = [buf EXCEPT ![b] = buf[b]]
      BY <3>1 DEF VarbufOwned, VarbufTyped
    <3> QED
      BY <1>2, <1>4, <3>1, <3>2, BlockReplaced
  <2> QED
    BY <2>1, <2>2
<1>6. Contents[b] = s
  BY DEF Contents, s
<1>7. /\ popped' = SubSeq(Contents[b], start + 1, start + n)
      /\ Contents' = [Contents EXCEPT ![b] =
           SubSeq(Contents[b], 1, (start + 1) - 1)
             \o SubSeq(Contents[b], (start + n) + 1, Len(Contents[b]))]
  <2>1. (start + 1) - 1 = start
    OBVIOUS
  <2> QED
    BY <1>1, <1>3, <1>5, <1>6, <2>1
<1>8. Lists!Pop(b, start + 1, start + n)
  BY <1>7, Zenon DEF Lists!Pop, Contents
<1> QED
  BY <1>1, <1>5, <1>6, <1>8

\* Memory outside the blocks is only reached from a block without elements.
WildIsEmpty ==
  wild => mcu # "up" /\ \E b \in Names : buf[b] # Null /\ heap[buf[b]] = <<>>

VarbufInv == VarbufOwned /\ WildIsEmpty

VarbufKept == UNCHANGED <<buf, heap, popped>>

LEMMA KeptOwned ==
  ASSUME VarbufOwned, UNCHANGED <<buf, heap>>
  PROVE  VarbufOwned' /\ Contents' = Contents
BY DEF VarbufOwned, VarbufTyped, HeapOwned, Contents, Varbuf!Elements, Varbuf!IsNull

ListStep == [Lists!Next]_<<Contents, popped>>

LEMMA ReturnsList ==
  ASSUME VarbufOwned, ShrinkMoves = FALSE, Varbuf!Returns
  PROVE  VarbufOwned' /\ Lists!Next /\ wild' = wild
<1>1. ASSUME NEW b \in Names, Varbuf!varbuf_clear(b)
      PROVE  VarbufOwned' /\ Lists!Clear(b) /\ wild' = wild
  <2>1. VarbufOwned' /\ Contents' = [Contents EXCEPT ![b] = <<>>]
    BY <1>1, BlockReleased DEF Varbuf!varbuf_clear
  <2> QED
    BY <1>1, <2>1 DEF Lists!Clear, Contents, Varbuf!varbuf_clear
<1>2. ASSUME NEW b \in Names, NEW chunk \in Chunks, Varbuf!push_chunk(b, chunk)
      PROVE  VarbufOwned' /\ Lists!Push(b, chunk) /\ wild' = wild
  BY <1>2, PushGrows DEF Varbuf!push_chunk
<1>3. ASSUME NEW b \in Names, NEW start \in Nat, NEW n \in Nat, Varbuf!pop_chunk(b, start, n)
      PROVE  /\ VarbufOwned' /\ wild' = wild
             /\ \E first \in 1 .. Len(Contents[b]) + 1 :
                  \E last \in first - 1 .. Len(Contents[b]) : Lists!Pop(b, first, last)
  <2>1. /\ VarbufOwned' /\ Lists!Pop(b, start + 1, start + n)
        /\ start + n <= Len(Contents[b]) /\ Len(Contents[b]) \in Nat
    BY <1>3, PopTakes, BufferTyped DEF Contents
  <2>2. wild' = wild
    BY <1>3 DEF Varbuf!pop_chunk
  <2>3. start + 1 \in 1 .. Len(Contents[b]) + 1 /\ start + n \in (start + 1) - 1 .. Len(Contents[b])
    BY <2>1
  <2> QED
    BY <2>1, <2>2, <2>3
<1>4. PICK b \in Names :
        \/ Varbuf!varbuf_clear(b)
        \/ \E chunk \in Chunks : Varbuf!push_chunk(b, chunk)
        \/ \E start \in Nat, n \in Nat : Varbuf!pop_chunk(b, start, n)
  <2>1. \A b \in Names : Varbuf!EndOf(b) \in Nat
    BY EndInRange
  <2>2. \A span \in Varbuf!Spans : span[1] \in Nat /\ span[2] \in Nat
    BY UtilitiesAssumption DEF Varbuf!Spans
  <2> QED
    BY <2>1, <2>2 DEF Varbuf!Returns
<1>5. /\ VarbufOwned' /\ wild' = wild
      /\ \/ Lists!Clear(b)
         \/ \E chunk \in Chunks : Lists!Push(b, chunk)
         \/ \E first \in 1 .. Len(Contents[b]) + 1 :
              \E last \in first - 1 .. Len(Contents[b]) : Lists!Pop(b, first, last)
  BY <1>1, <1>2, <1>3, <1>4
<1>6. Lists!Next
  BY <1>5, Zenon DEF Lists!Next, Contents
<1> QED
  BY <1>5, <1>6

LEMMA ThrowsNothing ==
  ASSUME VarbufOwned, Varbuf!Throws
  PROVE  VarbufOwned' /\ UNCHANGED <<Contents, popped>> /\ wild' = wild
<1>1. ASSUME NEW b \in Names, Varbuf!PushThrows(b)
      PROVE  VarbufOwned' /\ UNCHANGED <<Contents, popped>> /\ wild' = wild
  BY <1>1, ThrowKeeps DEF Varbuf!PushThrows
<1>2. ASSUME UNCHANGED Varbuf!vars
      PROVE  VarbufOwned' /\ UNCHANGED <<Contents, popped>> /\ wild' = wild
  BY <1>2, KeptOwned DEF Varbuf!vars
<1> QED
  BY <1>1, <1>2 DEF Varbuf!Throws, Varbuf!PopThrows

LEMMA RunawayIsEmpty ==
  ASSUME VarbufOwned, Varbuf!Runaway
  PROVE  /\ VarbufOwned' /\ UNCHANGED <<Contents, popped>>
         /\ \E b \in Names : buf'[b] # Null /\ heap'[buf'[b]] = <<>>
<1>1. ASSUME NEW b \in Names, NEW start, NEW n, Varbuf!PopWild(b, start, n)
      PROVE  /\ buf[b] # Null /\ Varbuf!InRange(b, start, n)
             /\ start + n > Varbuf!varbuf_get_length(b)
             /\ UNCHANGED <<buf, heap, popped>>
  BY <1>1 DEF Varbuf!PopWild, Varbuf!IsNull
<1>2. ASSUME NEW b \in Names, NEW span \in Varbuf!Spans, Varbuf!PopWild(b, span[1], span[2])
      PROVE  FALSE
  <2>1. span[1] \in 0 .. MaxLength /\ span[2] \in 0 .. MaxLength
    BY DEF Varbuf!Spans
  <2>2. span[1] + span[2] <= Varbuf!varbuf_get_length(b)
    BY <1>1, <1>2, <2>1, SpanInRange
  <2>3. span[1] + span[2] \in Nat /\ Varbuf!varbuf_get_length(b) \in Nat
    BY <2>1, UtilitiesAssumption, BufferTyped DEF Varbuf!varbuf_get_length
  <2>4. span[1] + span[2] > Varbuf!varbuf_get_length(b)
    BY <1>1, <1>2
  <2> QED
    BY <2>2, <2>3, <2>4
<1>3. PICK b \in Names : Varbuf!PopWild(b, Varbuf!EndOf(b), 1)
  BY <1>2 DEF Varbuf!Runaway
<1>4. /\ buf[b] # Null /\ UNCHANGED <<buf, heap, popped>>
      /\ Varbuf!EndOf(b) + 1 > Varbuf!varbuf_get_length(b)
  BY <1>1, <1>3
<1>5. Len(Varbuf!Elements(b)) = 0
  <2>1. Varbuf!EndOf(b) \in Nat /\ Varbuf!varbuf_get_length(b) \in Nat
    BY EndInRange, BufferTyped DEF Varbuf!varbuf_get_length
  <2>2. Varbuf!varbuf_get_length(b) = 0 \/ Varbuf!EndOf(b) + 1 <= Varbuf!varbuf_get_length(b)
    BY EndInRange
  <2> QED
    BY <1>4, <2>1, <2>2 DEF Varbuf!varbuf_get_length
<1>6. heap[buf[b]] = <<>>
  <2>1. Varbuf!Elements(b) \in Seq(Items) /\ Varbuf!Elements(b) = heap[buf[b]]
    BY <1>4, BufferTyped DEF Varbuf!Elements, Varbuf!IsNull
  <2> QED
    BY <1>5, <2>1
<1> QED
  BY <1>4, <1>6, KeptOwned

LEMMA VarbufStepInv ==
  ASSUME ShrinkMoves = FALSE
  PROVE  VarbufInv /\ [UtilitiesNext]_allVars => VarbufInv' /\ ListStep
<1> SUFFICES ASSUME VarbufInv, [UtilitiesNext]_allVars PROVE VarbufInv' /\ ListStep
  OBVIOUS
<1>1. mcu # "up" => mcu' # "up"
  BY StaysDown
<1>2. ASSUME UNCHANGED varbuf PROVE VarbufInv' /\ ListStep
  <2>1. UNCHANGED <<buf, heap, popped, wild>>
    BY <1>2 DEF varbuf
  <2>2. VarbufOwned' /\ Contents' = Contents
    BY <2>1, KeptOwned DEF VarbufInv
  <2>3. WildIsEmpty'
    BY <1>1, <2>1 DEF VarbufInv, WildIsEmpty
  <2> QED
    BY <2>1, <2>2, <2>3 DEF VarbufInv, ListStep
<1>3. ASSUME NEW c \in Contexts, VarbufStep(c) PROVE VarbufInv' /\ ListStep
  <2>1. ~wild /\ VarbufOwned
    BY <1>3 DEF VarbufStep, Calling, InUserCode, Runs, VarbufInv, WildIsEmpty
  <2>2. CASE Varbuf!Returns
    <3>1. VarbufOwned' /\ Lists!Next /\ wild' = wild
      BY <2>1, <2>2, ReturnsList
    <3> QED
      BY <2>1, <3>1 DEF VarbufInv, WildIsEmpty, ListStep
  <2>3. CASE Varbuf!Throws
    <3>1. VarbufOwned' /\ UNCHANGED <<Contents, popped>> /\ wild' = wild
      BY <2>1, <2>3, ThrowsNothing
    <3> QED
      BY <2>1, <3>1 DEF VarbufInv, WildIsEmpty, ListStep
  <2>4. CASE Varbuf!Runaway /\ Becomes("corrupted")
    <3>1. /\ VarbufOwned' /\ UNCHANGED <<Contents, popped>>
          /\ \E b \in Names : buf'[b] # Null /\ heap'[buf'[b]] = <<>>
      BY <2>1, <2>4, RunawayIsEmpty
    <3>2. mcu' # "up"
      BY <2>4 DEF Becomes
    <3> QED
      BY <3>1, <3>2 DEF VarbufInv, WildIsEmpty, ListStep
  <2> QED
    BY <1>3, <2>2, <2>3, <2>4 DEF VarbufStep
<1>4. ASSUME NEW c \in Contexts, WatchdogStep(c) \/ DelayStep(c) \/ DisplayStep(c)
      PROVE  VarbufInv' /\ ListStep
  BY <1>2, <1>4 DEF WatchdogStep, DelayStep, DisplayStep
<1>5. CASE ErrorStep \/ DelayTick \/ DelayReturn \/ WatchdogTick \/ UNCHANGED allVars
  BY <1>2, <1>5 DEF ErrorStep, Alongside, DelayTick, DelayReturn, WatchdogTick, allVars, libraries
<1> QED
  BY <1>3, <1>4, <1>5 DEF UtilitiesNext

LEMMA VarbufInit == UtilitiesInit => VarbufInv /\ Lists!Init
<1> SUFFICES ASSUME UtilitiesInit PROVE VarbufInv /\ Lists!Init
  OBVIOUS
<1>1. /\ buf = [b \in Names |-> Null] /\ heap = [a \in {} |-> <<>>] /\ popped = <<>> /\ wild = FALSE
  BY DEF UtilitiesInit, Varbuf!Init
<1>2. VarbufOwned
  BY <1>1 DEF VarbufOwned, VarbufTyped, HeapOwned
<1>3. Lists!Init
  BY <1>1 DEF Lists!Init, Varbuf!Elements, Varbuf!IsNull
<1> QED
  BY <1>1, <1>2, <1>3 DEF VarbufInv, WildIsEmpty

\* varbuf.c: every block belongs to exactly one buffer and no buffer points to a block that
\* was freed, for any number of buffers and any elements, whichever allocations fail or move
\* blocks, if a realloc that shrinks a block leaves it where it is.
THEOREM BlocksAreOwned ==
  ASSUME ShrinkMoves = FALSE
  PROVE  UtilitiesSpec => []HeapOwned
<1>1. VarbufInv => HeapOwned
  BY DEF VarbufInv, VarbufOwned
<1> QED
  BY <1>1, VarbufInit, VarbufStepInv, PTL DEF UtilitiesSpec

\* varbuf.c: a call that leaves its block, in any program, is varbuf_pop_end of a block
\* without elements; all other indices up to half of size_t are checked.
THEOREM OnlyEmptyBlocksLeft ==
  ASSUME ShrinkMoves = FALSE
  PROVE  UtilitiesSpec => []OnlyEmptyRunsWild
<1>1. VarbufInv => OnlyEmptyRunsWild
  BY DEF VarbufInv, WildIsEmpty, OnlyEmptyRunsWild
<1> QED
  BY <1>1, VarbufInit, VarbufStepInv, PTL DEF UtilitiesSpec

\* varbuf.h: the buffers are lists, and a call that throws changes none of them: each step of
\* a program is a push, a pop or a clear of one list, or leaves all of them alone.
THEOREM BuffersAreLists ==
  ASSUME ShrinkMoves = FALSE
  PROVE  UtilitiesSpec => VarbufImplementsLists
<1>1. ListStep => [Lists!Next]_<<[b \in Names |-> Varbuf!Elements(b)], popped>>
  BY DEF ListStep, Contents
<1> QED
  BY <1>1, VarbufInit, VarbufStepInv, PTL DEF UtilitiesSpec, VarbufImplementsLists, Lists!Spec

-----------------------------------------------------------------------------
(* The watchdog *)

Indices == 0 .. 6

LEMMA Prescalers ==
  /\ Watchdog!Prescaler(0) = 4 /\ Watchdog!Prescaler(1) = 8 /\ Watchdog!Prescaler(2) = 16
  /\ Watchdog!Prescaler(3) = 32 /\ Watchdog!Prescaler(4) = 64 /\ Watchdog!Prescaler(5) = 128
  /\ Watchdog!Prescaler(6) = 256
BY DEF Watchdog!Prescaler

\* The largest prescaler that matches is one that matches.
LEMMA IndexMatches ==
  ASSUME NEW t \in Nat, Watchdog!Matching(t) # {}
  PROVE  /\ Watchdog!PrescalerIndex(t) \in Indices
         /\ Watchdog!PrescalerIndex(t) \in Watchdog!Matching(t)
<1> DEFINE M == Watchdog!Matching(t)
<1>1. \A i \in M : i \in Indices
  BY DEF Watchdog!Matching, Watchdog!Indices, Indices
<1> HIDE DEF M
<1>2. \E i \in M : \A j \in M : i >= j
  <2>1. CASE 6 \in M
    BY <1>1, <2>1 DEF Indices
  <2>2. CASE 6 \notin M /\ 5 \in M
    BY <1>1, <2>2 DEF Indices
  <2>3. CASE 6 \notin M /\ 5 \notin M /\ 4 \in M
    BY <1>1, <2>3 DEF Indices
  <2>4. CASE 6 \notin M /\ 5 \notin M /\ 4 \notin M /\ 3 \in M
    BY <1>1, <2>4 DEF Indices
  <2>5. CASE 6 \notin M /\ 5 \notin M /\ 4 \notin M /\ 3 \notin M /\ 2 \in M
    BY <1>1, <2>5 DEF Indices
  <2>6. CASE \A i \in 2 .. 6 : i \notin M
    <3>1. M # {}
      BY DEF M
    <3> QED
      BY <1>1, <2>6, <3>1 DEF Indices
  <2> QED
    BY <1>1, <2>1, <2>2, <2>3, <2>4, <2>5, <2>6 DEF Indices
<1>3. Watchdog!PrescalerIndex(t) = CHOOSE i \in M : \A j \in M : i >= j
  BY DEF Watchdog!PrescalerIndex, Watchdog!Max, M
<1>4. Watchdog!PrescalerIndex(t) \in M
  BY <1>2, <1>3
<1> QED
  BY <1>1, <1>4 DEF M

\* One step of the largest prescaler is 6.4 ms, the largest reload value has 12 bits.
LEMMA PeriodOfTimeout ==
  ASSUME NEW t \in Nat, NEW i \in Indices
  PROVE  LET p == Watchdog!Prescaler(i)
             r == (40000 * t) \div (1000 * p)
         IN /\ r \in Nat
            /\ t <= (1000 * p * (r + 1)) \div 40000
            /\ (1000 * p * (r + 1)) \div 40000 < t + 7
            /\ Watchdog!MaxTimeout(i) >= t => r <= 4095
<1> DEFINE p == Watchdog!Prescaler(i)
           r == (40000 * t) \div (1000 * p)
<1> SUFFICES /\ r \in Nat
             /\ t <= (1000 * p * (r + 1)) \div 40000
             /\ (1000 * p * (r + 1)) \div 40000 < t + 7
             /\ (1000 * p * 4095) \div 40000 >= t => r <= 4095
  BY DEF Watchdog!MaxTimeout, Watchdog!MAX_COUNTER_VALUE, Watchdog!LSI_RC_FREQ
<1> HIDE DEF p
<1>1. p = 4 \/ p = 8 \/ p = 16 \/ p = 32 \/ p = 64 \/ p = 128 \/ p = 256
  BY Prescalers DEF Indices, p
<1>2. CASE p = 4
  BY <1>2
<1>3. CASE p = 8
  BY <1>3
<1>4. CASE p = 16
  BY <1>4
<1>5. CASE p = 32
  BY <1>5
<1>6. CASE p = 64
  BY <1>6
<1>7. CASE p = 128
  BY <1>7
<1>8. CASE p = 256
  BY <1>8
<1> QED
  BY <1>1, <1>2, <1>3, <1>4, <1>5, <1>6, <1>7, <1>8

\* The registers hold what iwdg_init computed of the timeout it accepted last; the counter
\* is within the period until the watchdog has reset the MCU.
WatchdogTyped ==
  /\ timeout \in Nat /\ elapsed \in Nat
  /\ PR \in Indices /\ RLR \in Nat /\ enabled \in BOOLEAN /\ expired \in BOOLEAN

InForce ==
  enabled => /\ Watchdog!Matching(timeout) # {}
             /\ PR = Watchdog!PrescalerIndex(timeout)
             /\ RLR = Watchdog!ReloadValue(timeout) /\ RLR # 0

Counting ==
  /\ ~enabled => ~expired
  /\ enabled /\ ~expired => elapsed <= Watchdog!Period
  /\ expired => elapsed > Watchdog!Period /\ mcu = "reset"

WatchdogInv == WatchdogTyped /\ InForce /\ Counting

LEMMA PeriodInForce ==
  ASSUME WatchdogInv, enabled
  PROVE  /\ Watchdog!Period \in Nat
         /\ timeout <= Watchdog!Period /\ Watchdog!Period < timeout + 7
         /\ RLR <= 4095
<1>1. PR \in Indices /\ Watchdog!MaxTimeout(PR) >= timeout /\ timeout \in Nat
  <2>1. PR \in Watchdog!Matching(timeout)
    BY IndexMatches DEF WatchdogInv, WatchdogTyped, InForce
  <2> QED
    BY <2>1 DEF Watchdog!Matching, WatchdogInv, WatchdogTyped
<1>2. RLR = (40000 * timeout) \div (1000 * Watchdog!Prescaler(PR))
  BY DEF WatchdogInv, InForce, Watchdog!ReloadValue, Watchdog!LSI_RC_FREQ
<1>3. Watchdog!Period = (1000 * Watchdog!Prescaler(PR) * (RLR + 1)) \div 40000
  BY DEF Watchdog!Period, Watchdog!LSI_RC_FREQ
<1>4. Watchdog!Prescaler(PR) \in Nat /\ RLR \in Nat
  BY <1>1, Prescalers DEF Indices, WatchdogInv, WatchdogTyped
<1>5. /\ timeout <= Watchdog!Period /\ Watchdog!Period < timeout + 7 /\ RLR <= 4095
  BY <1>1, <1>2, <1>3, PeriodOfTimeout
<1>6. Watchdog!Period \in Nat
  <2> DEFINE n == 1000 * Watchdog!Prescaler(PR) * (RLR + 1)
  <2>1. n \in Nat
    BY <1>4
  <2> HIDE DEF n
  <2>2. n \div 40000 \in Nat
    BY <2>1
  <2> QED
    BY <1>3, <2>2 DEF n
<1> QED
  BY <1>5, <1>6

LEMMA InitCounts ==
  ASSUME WatchdogInv, mcu = "up", NEW t \in Timeouts, Watchdog!iwdg_init(t), mcu' = mcu
  PROVE  WatchdogInv'
<1>1. t \in Nat /\ ~expired
  BY UtilitiesAssumption DEF WatchdogInv, Counting
<1>2. /\ Watchdog!ReloadValue(t) # 0 /\ enabled' = TRUE
      /\ PR' = Watchdog!PrescalerIndex(t) /\ RLR' = Watchdog!ReloadValue(t)
      /\ timeout' = t /\ elapsed' = 0 /\ expired' = expired
  BY DEF Watchdog!iwdg_init
<1>3. Watchdog!Matching(t) # {}
  BY <1>2 DEF Watchdog!ReloadValue
<1>4. /\ PR' \in Indices
      /\ RLR' = (40000 * t) \div (1000 * Watchdog!Prescaler(PR'))
  BY <1>1, <1>2, <1>3, IndexMatches DEF Watchdog!ReloadValue, Watchdog!LSI_RC_FREQ
<1>5. RLR' \in Nat /\ t <= (1000 * Watchdog!Prescaler(PR') * (RLR' + 1)) \div 40000
  BY <1>1, <1>4, PeriodOfTimeout
<1>6. elapsed' <= Watchdog!Period'
  <2>1. Watchdog!Period' = (1000 * Watchdog!Prescaler(PR') * (RLR' + 1)) \div 40000
    BY DEF Watchdog!Period, Watchdog!LSI_RC_FREQ, Watchdog!Prescaler
  <2>2. Watchdog!Prescaler(PR') \in Nat
    BY <1>4, Prescalers DEF Indices
  <2> DEFINE n == 1000 * Watchdog!Prescaler(PR') * (RLR' + 1)
  <2>3. n \in Nat
    BY <1>5, <2>2
  <2> HIDE DEF n
  <2>4. n \div 40000 \in Nat
    BY <2>3
  <2> QED
    BY <1>2, <2>1, <2>4 DEF n
<1>7. WatchdogTyped'
  BY <1>1, <1>2, <1>4, <1>5 DEF WatchdogInv, WatchdogTyped
<1>8. InForce'
  BY <1>2, <1>3 DEF InForce, Watchdog!Matching, Watchdog!PrescalerIndex, Watchdog!ReloadValue,
                    Watchdog!MaxTimeout, Watchdog!Prescaler
<1>9. Counting'
  BY <1>1, <1>2, <1>6 DEF Counting
<1> QED
  BY <1>7, <1>8, <1>9 DEF WatchdogInv

LEMMA RegistersKept ==
  ASSUME WatchdogInv, UNCHANGED <<PR, RLR, enabled, timeout>>
  PROVE  InForce' /\ Watchdog!Period' = Watchdog!Period
BY DEF WatchdogInv, InForce, Watchdog!Period

LEMMA TickCounts ==
  ASSUME WatchdogInv, WatchdogTick
  PROVE  WatchdogInv'
<1>1. /\ mcu # "reset" /\ enabled /\ elapsed' = elapsed + 1
      /\ expired' = (elapsed + 1 > Watchdog!Period)
      /\ UNCHANGED <<PR, RLR, enabled, timeout>>
      /\ expired' => mcu' = "reset"
  BY DEF WatchdogTick, Watchdog!Tick, Watchdog!registers, Becomes
<1>2. InForce' /\ Watchdog!Period' = Watchdog!Period /\ Watchdog!Period \in Nat
  BY <1>1, RegistersKept, PeriodInForce
<1>3. elapsed \in Nat
  BY DEF WatchdogInv, WatchdogTyped
<1>4. WatchdogTyped'
  BY <1>1, <1>3 DEF WatchdogInv, WatchdogTyped
<1>5. ~expired' => elapsed' <= Watchdog!Period'
  <2>1. ~expired' => ~(elapsed + 1 > Watchdog!Period)
    BY <1>1, Zenon
  <2>2. ~(elapsed + 1 > Watchdog!Period) => elapsed + 1 <= Watchdog!Period
    BY <1>2, <1>3
  <2> QED
    BY <1>1, <1>2, <2>1, <2>2, Zenon
<1>6. expired' => elapsed' > Watchdog!Period'
  BY <1>1, <1>2, <1>3
<1>7. Counting'
  BY <1>1, <1>5, <1>6 DEF Counting
<1> QED
  BY <1>2, <1>4, <1>7 DEF WatchdogInv

LEMMA WatchdogKept ==
  ASSUME WatchdogInv, UNCHANGED watchdog, mcu = "reset" => mcu' = "reset"
  PROVE  WatchdogInv'
<1>1. UNCHANGED <<PR, RLR, enabled, timeout, elapsed, expired>>
  BY DEF watchdog
<1>2. InForce' /\ Watchdog!Period' = Watchdog!Period
  BY <1>1, RegistersKept
<1>3. WatchdogTyped' /\ Counting'
  BY <1>1, <1>2 DEF WatchdogInv, WatchdogTyped, Counting
<1> QED
  BY <1>2, <1>3 DEF WatchdogInv

LEMMA WatchdogCall ==
  ASSUME WatchdogInv, NEW c \in Contexts, WatchdogStep(c), mcu = "reset" => mcu' = "reset"
  PROVE  WatchdogInv'
<1>1. mcu = "up"
  BY DEF WatchdogStep, Calling, InUserCode, Runs
<1>2. CASE Watchdog!iwdg_reset /\ UNCHANGED vars
  <2>1. /\ UNCHANGED <<PR, RLR, enabled, timeout, expired>> /\ elapsed' = 0 /\ mcu' = mcu
    BY <1>2 DEF Watchdog!iwdg_reset, Watchdog!registers, vars, processor
  <2>2. InForce' /\ Watchdog!Period' = Watchdog!Period
    BY <2>1, RegistersKept
  <2>3. ~expired
    BY <1>1 DEF WatchdogInv, Counting
  <2>4. enabled => elapsed' <= Watchdog!Period'
    BY <2>1, <2>2, PeriodInForce
  <2>5. WatchdogTyped' /\ Counting'
    BY <2>1, <2>3, <2>4 DEF WatchdogInv, WatchdogTyped, Counting
  <2> QED
    BY <2>2, <2>5 DEF WatchdogInv
<1>3. ASSUME NEW t \in Timeouts, Watchdog!iwdg_init(t), UNCHANGED vars PROVE WatchdogInv'
  <2>1. mcu' = mcu
    BY <1>3 DEF vars, processor
  <2> QED
    BY <1>1, <1>3, <2>1, InitCounts
<1>4. ASSUME NEW t \in Timeouts, Watchdog!InitThrows(t) PROVE WatchdogInv'
  <2>1. UNCHANGED watchdog
    BY <1>4 DEF Watchdog!InitThrows, Watchdog!vars, Watchdog!registers, watchdog
  <2> QED
    BY <2>1, WatchdogKept
<1> QED
  BY <1>2, <1>3, <1>4 DEF WatchdogStep

LEMMA WatchdogStepInv == WatchdogInv /\ [UtilitiesNext]_allVars => WatchdogInv'
<1> SUFFICES ASSUME WatchdogInv, [UtilitiesNext]_allVars PROVE WatchdogInv'
  OBVIOUS
<1>1. mcu = "reset" => mcu' = "reset"
  BY StaysDown
<1>2. UNCHANGED watchdog => WatchdogInv'
  BY <1>1, WatchdogKept
<1>3. ASSUME NEW c \in Contexts, WatchdogStep(c) PROVE WatchdogInv'
  BY <1>1, <1>3, WatchdogCall
<1>4. ASSUME NEW c \in Contexts, VarbufStep(c) \/ DelayStep(c) \/ DisplayStep(c)
      PROVE  WatchdogInv'
  BY <1>2, <1>4 DEF VarbufStep, DelayStep, DisplayStep
<1>5. CASE ErrorStep \/ DelayTick \/ DelayReturn \/ UNCHANGED allVars
  BY <1>2, <1>5 DEF ErrorStep, Alongside, DelayTick, DelayReturn, allVars, libraries
<1>6. CASE WatchdogTick
  BY <1>6, TickCounts
<1> QED
  BY <1>3, <1>4, <1>5, <1>6 DEF UtilitiesNext

LEMMA WatchdogInit == UtilitiesInit => WatchdogInv
<1> SUFFICES ASSUME UtilitiesInit PROVE WatchdogInv
  OBVIOUS
<1>1. /\ PR = 0 /\ RLR = 4095 /\ enabled = FALSE /\ timeout = 0
      /\ elapsed = 0 /\ expired = FALSE
  BY DEF UtilitiesInit, Watchdog!Init, Watchdog!MAX_COUNTER_VALUE
<1>2. WatchdogTyped
  <2>1. timeout \in Nat /\ elapsed \in Nat /\ PR \in Indices /\ RLR \in Nat
    BY <1>1 DEF Indices
  <2>2. enabled \in BOOLEAN /\ expired \in BOOLEAN
    BY <1>1, Zenon
  <2> QED
    BY <2>1, <2>2, Zenon DEF WatchdogTyped
<1>3. InForce /\ Counting
  BY <1>1, Zenon DEF InForce, Counting
<1> QED
  BY <1>2, <1>3 DEF WatchdogInv

\* wdg.h: the watchdog resets the MCU when the timeout accepted last is over, and within
\* one step of its prescaler; the reload value fits its register of 12 bits.
THEOREM WatchdogIsHonoured ==
  UtilitiesSpec => [](WatchdogHonoursTimeout /\ (enabled => RLR \in 1 .. 4095 /\ PR \in 0 .. 6))
<1>1. WatchdogInv => WatchdogHonoursTimeout
  <2> SUFFICES ASSUME WatchdogInv PROVE WatchdogHonoursTimeout
    OBVIOUS
  <2>1. elapsed \in Nat /\ timeout \in Nat
    BY DEF WatchdogInv, WatchdogTyped
  <2>2. expired => enabled
    BY DEF WatchdogInv, WatchdogTyped, Counting
  <2>3. enabled => /\ Watchdog!Period \in Nat
                   /\ timeout <= Watchdog!Period /\ Watchdog!Period < timeout + 7
    BY PeriodInForce
  <2>4. /\ expired => elapsed > Watchdog!Period
        /\ enabled /\ ~expired => elapsed <= Watchdog!Period
    BY DEF WatchdogInv, Counting
  <2> QED
    BY <2>1, <2>2, <2>3, <2>4 DEF WatchdogHonoursTimeout
<1>2. WatchdogInv => (enabled => RLR \in 1 .. 4095 /\ PR \in 0 .. 6)
  <2> SUFFICES ASSUME WatchdogInv, enabled PROVE RLR \in 1 .. 4095 /\ PR \in 0 .. 6
    OBVIOUS
  <2>1. RLR \in Nat /\ RLR # 0 /\ PR \in Indices
    BY DEF WatchdogInv, WatchdogTyped, InForce
  <2>2. RLR <= 4095
    BY PeriodInForce
  <2> QED
    BY <2>1, <2>2 DEF Indices
<1> QED
  BY <1>1, <1>2, WatchdogInit, WatchdogStepInv, PTL DEF UtilitiesSpec

-----------------------------------------------------------------------------
(* The delay *)

\* While a delay waits: the quarters of a tick since its first tick began, less those
\* that were waited, are those of the tick it was called in.
DelayTyped ==
  /\ tick_cnt \in Nat /\ phase \in 0 .. 3
  /\ request \in Nat /\ endTick \in Nat /\ waited \in Nat

DelayClock ==
  request > 0 =>
    /\ tick_cnt <= endTick
    /\ tick_cnt = endTick => phase = 0 \/ waited = 0
    /\ 4 * tick_cnt + phase - 4 * (endTick - (request \div 4)) - waited \in 0 .. 3

DelayInv == DelayTyped /\ DelayClock

LEMMA DelayBegins ==
  ASSUME DelayInv, NEW q \in Requests, Delay!delay(q)
  PROVE  DelayInv'
<1>1. q \in Nat /\ q \div 4 \in Nat
  BY UtilitiesAssumption
<1>2. /\ request' = q /\ endTick' = tick_cnt + (q \div 4) /\ waited' = 0
      /\ tick_cnt' = tick_cnt /\ phase' = phase /\ tick_cnt \in Nat /\ phase \in 0 .. 3
  BY DEF Delay!delay, Delay!DiffTicks, DelayInv, DelayTyped
<1>3. tick_cnt' <= endTick' /\ endTick' \in Nat
  BY <1>1, <1>2
<1>4. 4 * tick_cnt' + phase' - 4 * (endTick' - (request' \div 4)) - waited' = phase
  <2>1. endTick' - (request' \div 4) = tick_cnt
    BY <1>1, <1>2
  <2> QED
    BY <1>2, <2>1
<1> QED
  BY <1>1, <1>2, <1>3, <1>4 DEF DelayInv, DelayTyped, DelayClock

LEMMA DelayTicks ==
  ASSUME DelayInv, Delay!SysTick
  PROVE  DelayInv'
<1> DEFINE d == request \div 4
<1>1. /\ request \in Nat /\ request > 0 /\ tick_cnt \in Nat /\ endTick \in Nat /\ waited \in Nat
      /\ phase \in 0 .. 3 /\ tick_cnt < endTick
      /\ request' = request /\ endTick' = endTick /\ waited' = waited + 1
      /\ phase' = (phase + 1) % 4
      /\ tick_cnt' = IF phase = 3 THEN tick_cnt + 1 ELSE tick_cnt
  BY DEF Delay!SysTick, Delay!Waiting, DelayInv, DelayTyped
<1>2. d \in Nat /\ 4 * tick_cnt + phase - 4 * (endTick - d) - waited \in 0 .. 3
  BY <1>1 DEF DelayInv, DelayClock
<1>3. d' = d
  BY <1>1
<1> HIDE DEF d
<1>4. CASE phase = 3
  <2>1. phase' = 0 /\ tick_cnt' = tick_cnt + 1
    BY <1>1, <1>4
  <2>2. 4 * tick_cnt' + phase' - 4 * (endTick' - d') - waited' \in 0 .. 3
    BY <1>1, <1>2, <1>3, <1>4, <2>1
  <2> QED
    BY <1>1, <2>1, <2>2 DEF DelayInv, DelayTyped, DelayClock, d
<1>5. CASE phase # 3
  <2>1. phase' = phase + 1 /\ phase' \in 0 .. 3 /\ tick_cnt' = tick_cnt
    BY <1>1, <1>5
  <2>2. 4 * tick_cnt' + phase' - 4 * (endTick' - d') - waited' \in 0 .. 3
    BY <1>1, <1>2, <1>3, <2>1
  <2> QED
    BY <1>1, <2>1, <2>2 DEF DelayInv, DelayTyped, DelayClock, d
<1> QED
  BY <1>4, <1>5

LEMMA DelayStepInv == DelayInv /\ [UtilitiesNext]_allVars => DelayInv'
<1> SUFFICES ASSUME DelayInv, [UtilitiesNext]_allVars PROVE DelayInv'
  OBVIOUS
<1>1. CASE UNCHANGED delays
  BY <1>1 DEF delays, DelayInv, DelayTyped, DelayClock
<1>2. ASSUME NEW c \in Contexts, DelayStep(c) PROVE DelayInv'
  BY <1>2, DelayBegins DEF DelayStep
<1>3. CASE DelayTick
  BY <1>3, DelayTicks DEF DelayTick
<1>4. CASE DelayReturn
  BY <1>4 DEF DelayReturn, Delay!Return, DelayInv, DelayTyped, DelayClock
<1>5. CASE ErrorStep
  BY <1>1, <1>5 DEF ErrorStep, Alongside, libraries
<1>6. ASSUME NEW c \in Contexts, VarbufStep(c) \/ WatchdogStep(c) \/ DisplayStep(c)
      PROVE  DelayInv'
  BY <1>1, <1>6 DEF VarbufStep, WatchdogStep, DisplayStep
<1>7. CASE WatchdogTick
  BY <1>1, <1>7 DEF WatchdogTick
<1>8. CASE UNCHANGED allVars
  BY <1>1, <1>8 DEF allVars, libraries
<1> QED
  BY <1>2, <1>3, <1>4, <1>5, <1>6, <1>7, <1>8 DEF UtilitiesNext

\* delay.h: a delay of any length, called at any time, ends less than two ticks early and
\* never a tick late.
THEOREM DelaysAreShort == UtilitiesSpec => []DelayShortByLessThanTwoTicks
<1>1. UtilitiesInit => DelayInv
  BY DEF UtilitiesInit, Delay!Init, DelayInv, DelayTyped, DelayClock
<1>2. DelayInv => DelayShortByLessThanTwoTicks
  <2> DEFINE d == request \div 4
  <2> SUFFICES ASSUME DelayInv, request > 0
               PROVE  (tick_cnt >= endTick => waited + 8 > request) /\ waited <= request
    BY DEF DelayShortByLessThanTwoTicks, Delay!Waiting
  <2>1. /\ request \in Nat /\ tick_cnt \in Nat /\ endTick \in Nat /\ waited \in Nat
        /\ phase \in 0 .. 3 /\ tick_cnt <= endTick
        /\ tick_cnt = endTick => phase = 0 \/ waited = 0
    BY DEF DelayInv, DelayTyped, DelayClock
  <2>2. 4 * tick_cnt + phase - 4 * (endTick - d) - waited \in 0 .. 3
    BY DEF DelayInv, DelayClock
  <2>3. d \in Nat /\ 4 * d <= request /\ request <= 4 * d + 3
    BY <2>1
  <2> HIDE DEF d
  <2>4. tick_cnt >= endTick => waited + 8 > request
    BY <2>1, <2>2, <2>3
  <2>5. waited <= request
    BY <2>1, <2>2, <2>3
  <2> QED
    BY <2>4, <2>5
<1> QED
  BY <1>1, <1>2, DelayStepInv, PTL DEF UtilitiesSpec

-----------------------------------------------------------------------------
(* Lists that are joined *)

\* FlattenSeq joins the lists with a recursive function: the joins of the first n lists.
Joins(f, lists, n) ==
  f = [i \in 1 .. n |-> IF i = 1 THEN lists[i] ELSE f[i - 1] \o lists[i]]

JoinsOnce(f, lists, n) == Joins(f, lists, n) /\ \A g : Joins(g, lists, n) => g = f

\* The function for n lists is part of that for n + 1.
LEMMA OneMoreJoin ==
  ASSUME NEW lists, NEW more, NEW n \in Nat, \A i \in 1 .. n : more[i] = lists[i],
         NEW f, JoinsOnce(f, lists, n)
  PROVE  LET h == [i \in 1 .. n + 1 |->
                     IF i <= n THEN f[i] ELSE IF i = 1 THEN more[i] ELSE f[n] \o more[i]]
         IN  JoinsOnce(h, more, n + 1)
<1> DEFINE h == [i \in 1 .. n + 1 |->
                   IF i <= n THEN f[i] ELSE IF i = 1 THEN more[i] ELSE f[n] \o more[i]]
<1>1. \A i \in 1 .. n : f[i] = IF i = 1 THEN lists[i] ELSE f[i - 1] \o lists[i]
  BY DEF JoinsOnce, Joins
<1>2. \A i \in 1 .. n + 1 : h[i] = IF i = 1 THEN more[i] ELSE h[i - 1] \o more[i]
  <2> SUFFICES ASSUME NEW i \in 1 .. n + 1
               PROVE  h[i] = IF i = 1 THEN more[i] ELSE h[i - 1] \o more[i]
    OBVIOUS
  <2>1. CASE i <= n
    <3>1. i \in 1 .. n /\ h[i] = f[i] /\ more[i] = lists[i]
      BY <2>1
    <3>2. i # 1 => i - 1 \in 1 .. n + 1 /\ i - 1 <= n /\ h[i - 1] = f[i - 1]
      BY <2>1
    <3> QED
      BY <1>1, <3>1, <3>2, Zenon
  <2>2. CASE i = n + 1
    <3>1. h[i] = IF i = 1 THEN more[i] ELSE f[n] \o more[i]
      BY <2>2
    <3>2. i # 1 => i - 1 = n /\ h[n] = f[n]
      BY <2>2
    <3> QED
      BY <3>1, <3>2, Zenon
  <2> QED
    BY <2>1, <2>2
<1>3. Joins(h, more, n + 1)
  <2>1. h = [i \in 1 .. n + 1 |-> h[i]]
    OBVIOUS
  <2> HIDE DEF h
  <2> QED
    BY <1>2, <2>1 DEF Joins
<1>4. ASSUME NEW g, Joins(g, more, n + 1) PROVE g = h
  <2> DEFINE k == [i \in 1 .. n |-> g[i]]
  <2>1. \A i \in 1 .. n + 1 : g[i] = IF i = 1 THEN more[i] ELSE g[i - 1] \o more[i]
    BY <1>4 DEF Joins
  <2>2. g = [i \in 1 .. n + 1 |-> g[i]]
    BY <1>4 DEF Joins
  <2>3. \A i \in 1 .. n : k[i] = IF i = 1 THEN lists[i] ELSE k[i - 1] \o lists[i]
    <3> SUFFICES ASSUME NEW i \in 1 .. n
                 PROVE  k[i] = IF i = 1 THEN lists[i] ELSE k[i - 1] \o lists[i]
      OBVIOUS
    <3>1. k[i] = g[i] /\ i \in 1 .. n + 1 /\ more[i] = lists[i]
      OBVIOUS
    <3>2. i # 1 => k[i - 1] = g[i - 1]
      OBVIOUS
    <3> QED
      BY <2>1, <3>1, <3>2, Zenon
  <2>4. k = [i \in 1 .. n |-> k[i]]
    OBVIOUS
  <2>5. k = f
    <3> HIDE DEF k
    <3>1. Joins(k, lists, n)
      BY <2>3, <2>4 DEF Joins
    <3> QED
      BY <3>1 DEF JoinsOnce
  <2>6. \A i \in 1 .. n : g[i] = f[i]
    BY <2>5
  <2>7. \A i \in 1 .. n + 1 : g[i] = h[i]
    <3> SUFFICES ASSUME NEW i \in 1 .. n + 1 PROVE g[i] = h[i]
      OBVIOUS
    <3>1. CASE i <= n
      BY <2>6, <3>1
    <3>2. CASE i = n + 1
      <4>1. g[i] = IF i = 1 THEN more[i] ELSE g[n] \o more[i]
        BY <2>1, <3>2
      <4>2. i # 1 => g[n] = f[n]
        BY <2>6, <3>2
      <4>3. h[i] = IF i = 1 THEN more[i] ELSE f[n] \o more[i]
        BY <3>2
      <4> QED
        BY <4>1, <4>2, <4>3, Zenon
    <3> QED
      BY <3>1, <3>2
  <2>8. h = [i \in 1 .. n + 1 |-> h[i]]
    OBVIOUS
  <2> HIDE DEF h
  <2> QED
    BY <2>2, <2>7, <2>8
<1> QED
  BY <1>3, <1>4 DEF JoinsOnce

\* Induction over the number of lists, as the smallest number for which it is wrong.
LEMMA JoinsExist ==
  ASSUME NEW lists, NEW n \in Nat
  PROVE  \E f : JoinsOnce(f, lists, n)
<1> DEFINE wrong == {m \in Nat : ~ \E f : JoinsOnce(f, lists, m)}
           less == {p \in Nat \X Nat : p[1] < p[2]}
<1>1. IsWellFoundedOn(less, Nat)
  BY NatLessThanWellFounded DEF OpToRel
<1>2. JoinsOnce(<<>>, lists, 0)
  BY DEF JoinsOnce, Joins
<1>3. ASSUME wrong # {} PROVE FALSE
  <2>1. wrong \subseteq Nat
    OBVIOUS
  <2> HIDE DEF wrong, less
  <2>2. PICK m \in wrong : \A l \in wrong : <<l, m>> \notin less
    BY <1>1, <1>3, <2>1, WFMin
  <2>3. m \in Nat /\ m # 0
    BY <1>2, <2>1, <2>2 DEF wrong
  <2>4. m - 1 \in Nat /\ m - 1 < m /\ (m - 1) + 1 = m
    BY <2>3
  <2>5. m - 1 \notin wrong
    BY <2>2, <2>3, <2>4 DEF less
  <2>6. PICK f : JoinsOnce(f, lists, m - 1)
    BY <2>4, <2>5 DEF wrong
  <2>7. \E h : JoinsOnce(h, lists, (m - 1) + 1)
    BY <2>4, <2>6, OneMoreJoin
  <2> QED
    BY <2>2, <2>4, <2>7 DEF wrong
<1> QED
  BY <1>3

\* What FlattenSeq returns.
LEMMA FlattenIs ==
  ASSUME NEW lists, NEW f, Len(lists) \in Nat \ {0}, JoinsOnce(f, lists, Len(lists))
  PROVE  FlattenSeq(lists) = f[Len(lists)]
<1> DEFINE J(g) == g = [i \in 1 .. Len(lists) |->
                          IF i = 1 THEN lists[i] ELSE g[i - 1] \o lists[i]]
<1>1. \A g : J(g) <=> g = f
  BY DEF JoinsOnce, Joins
<1>2. (CHOOSE g : J(g)) = f
  <2> HIDE DEF J
  <2>1. J(CHOOSE g : J(g))
    BY <1>1
  <2> QED
    BY <1>1, <2>1
<1> QED
  BY <1>2 DEF FlattenSeq

\* A list more is joined at the end.
LEMMA FlattenAppend ==
  ASSUME NEW T, NEW lists \in Seq(Seq(T)), NEW list \in Seq(T)
  PROVE  FlattenSeq(Append(lists, list)) = FlattenSeq(lists) \o list
<1> DEFINE n == Len(lists)
           more == Append(lists, list)
<1>1. /\ n \in Nat /\ Len(more) = n + 1 /\ more[n + 1] = list
      /\ \A i \in 1 .. n : more[i] = lists[i]
  OBVIOUS
<1> HIDE DEF n, more
<1>2. PICK f : JoinsOnce(f, lists, n)
  BY <1>1, JoinsExist
<1> DEFINE h == [i \in 1 .. n + 1 |->
                   IF i <= n THEN f[i] ELSE IF i = 1 THEN more[i] ELSE f[n] \o more[i]]
<1>3. JoinsOnce(h, more, n + 1)
  BY <1>1, <1>2, OneMoreJoin
<1>4. h[n + 1] = IF n = 0 THEN list ELSE f[n] \o list
  BY <1>1
<1> HIDE DEF h
<1>5. FlattenSeq(more) = h[n + 1]
  BY <1>1, <1>3, FlattenIs
<1>6. CASE n = 0
  <2>1. lists = <<>>
    BY <1>6 DEF n
  <2>2. FlattenSeq(lists) = <<>>
    BY <2>1 DEF FlattenSeq
  <2> QED
    BY <1>4, <1>5, <1>6, <2>2 DEF more
<1>7. CASE n # 0
  <2>1. FlattenSeq(lists) = f[n]
    BY <1>1, <1>2, <1>7, FlattenIs DEF n
  <2> QED
    BY <1>4, <1>5, <1>7, <2>1 DEF more
<1> QED
  BY <1>6, <1>7

-----------------------------------------------------------------------------
(* The display *)

Bytes == {0, 1} \X Nat
Instructions == {Display!Decode(b[1], b[2]) : b \in Bytes} \cup Calls
Decoded(bytes) == [i \in DOMAIN bytes |-> Display!Decode(bytes[i][1], bytes[i][2])]

LEMMA ElementsOf ==
  ASSUME NEW T, NEW s \in Seq(T)
  PROVE  /\ DOMAIN s = 1 .. Len(s) /\ Len(s) \in Nat /\ \A i \in DOMAIN s : s[i] \in T
         /\ s = [i \in 1 .. Len(s) |-> s[i]]
OBVIOUS

LEMMA OneByte ==
  ASSUME NEW b \in Bytes
  PROVE  <<b>> \in Seq(Bytes) /\ Decoded(<<b>>) = <<Display!Decode(b[1], b[2])>>
BY DEF Decoded

LEMMA OneCommand ==
  ASSUME NEW n \in Nat, NEW bytes, bytes = <<Display!CommandByte(n)>>
  PROVE  bytes \in Seq(Bytes) /\ Decoded(bytes) = <<Display!Instruction(n)>>
<1>1. Display!CommandByte(n) = <<0, n>> /\ <<0, n>> \in Bytes
  BY DEF Display!CommandByte, Display!COMMAND, Bytes
<1>2. Display!Decode(0, n) = Display!Instruction(n)
  BY DEF Display!Decode, Display!DATA
<1> QED
  BY <1>1, <1>2, OneByte

\* Every function but st7066u_set_entry_mode sends what the controller takes for what was
\* asked, for every argument.
LEMMA SentIsMeant ==
  ASSUME NEW call \in Calls, call.op # "entry"
  PROVE  /\ Display!Sent(call) \in Seq(Bytes)
         /\ Decoded(Display!Sent(call)) = Display!Meant(call)
<1> DEFINE op == call.op
           arg == call.arg
<1>0. call \in Display!Askable
  BY CallsAssumption
<1>1. CASE op = "init"
  <2>1. /\ Display!Sent(call) = [i \in 1 .. 3 |-> Display!CommandByte(<<48, 48, 56>>[i])]
        /\ Display!Meant(call) = [i \in 1 .. 3 |-> [op |-> "function", arg |-> <<16, 16, 24>>[i]]]
    BY <1>1 DEF Display!Sent, Display!Meant
  <2>2. \A i \in 1 .. 3 : Display!Sent(call)[i] = <<0, <<48, 48, 56>>[i]>>
    BY <2>1 DEF Display!CommandByte, Display!COMMAND
  <2>3. \A i \in 1 .. 3 : <<48, 48, 56>>[i] \in 48 .. 63 /\ <<48, 48, 56>>[i] - 32 = <<16, 16, 24>>[i]
    OBVIOUS
  <2>4. \A i \in 1 .. 3 : Display!Decode(0, <<48, 48, 56>>[i]) = [op |-> "function", arg |-> <<16, 16, 24>>[i]]
    BY <2>3 DEF Display!Decode, Display!DATA, Display!Instruction
  <2> QED
    BY <2>1, <2>2, <2>3, <2>4 DEF Decoded, Bytes
<1>2. CASE op = "clear"
  <2>1. arg = 0 /\ call = [op |-> "clear", arg |-> 0]
    BY <1>0, <1>2 DEF Display!Askable
  <2>2. Display!Sent(call) = <<Display!CommandByte(1)>> /\ Display!Meant(call) = <<call>>
    BY <1>2 DEF Display!Sent, Display!Meant
  <2>3. Display!Instruction(1) = [op |-> "clear", arg |-> 0]
    BY DEF Display!Instruction, Display!Bit
  <2> QED
    BY <2>1, <2>2, <2>3, OneCommand
<1>3. CASE op = "home"
  <2>1. arg = 0 /\ call = [op |-> "home", arg |-> 0]
    BY <1>0, <1>3 DEF Display!Askable
  <2>2. Display!Sent(call) = <<Display!CommandByte(2)>> /\ Display!Meant(call) = <<call>>
    BY <1>3 DEF Display!Sent, Display!Meant
  <2>3. Display!Instruction(2) = [op |-> "home", arg |-> 0]
    BY DEF Display!Instruction, Display!Bit
  <2> QED
    BY <2>1, <2>2, <2>3, OneCommand
<1>4. CASE op = "control"
  <2> DEFINE b == 8 + 4 * arg[1] + 2 * arg[2] + arg[3]
  <2>1. /\ arg[1] \in 0 .. 1 /\ arg[2] \in 0 .. 1 /\ arg[3] \in 0 .. 1
        /\ call = [op |-> "control", arg |-> <<arg[1], arg[2], arg[3]>>]
    BY <1>0, <1>4 DEF Display!Askable
  <2>2. Display!Sent(call) = <<Display!CommandByte(b)>> /\ Display!Meant(call) = <<call>>
    BY <1>4 DEF Display!Sent, Display!Meant
  <2>3. /\ b \in 8 .. 15
        /\ (b \div 4) % 2 = arg[1] /\ (b \div 2) % 2 = arg[2] /\ (b \div 1) % 2 = arg[3]
    BY <2>1
  <2> HIDE DEF b
  <2>4. Display!Instruction(b) = [op |-> "control", arg |-> <<arg[1], arg[2], arg[3]>>]
    BY <2>3 DEF Display!Instruction, Display!Bit
  <2> QED
    BY <2>1, <2>2, <2>3, <2>4, OneCommand
<1>5. CASE op = "cursor"
  <2> DEFINE b == 16 + 4 * arg
  <2>1. arg \in 0 .. 1 /\ call = [op |-> "cursor", arg |-> arg]
    BY <1>0, <1>5 DEF Display!Askable
  <2>2. Display!Sent(call) = <<Display!CommandByte(b)>> /\ Display!Meant(call) = <<call>>
    BY <1>5 DEF Display!Sent, Display!Meant, Display!Shift
  <2>3. b \in Nat /\ b \in 16 .. 31 /\ (b \div 4) % 2 = arg /\ (b \div 8) % 2 = 0
    <3> HIDE DEF arg
    <3> QED
      BY <2>1
  <2>4. Display!Instruction(b) = [op |-> "cursor", arg |-> arg]
    <3> HIDE DEF b
    <3> QED
      BY <2>3 DEF Display!Instruction, Display!Bit
  <2> HIDE DEF b
  <2> QED
    BY <2>1, <2>2, <2>3, <2>4, OneCommand
<1>6. CASE op = "display"
  <2> DEFINE b == 24 + 4 * arg
  <2>1. arg \in 0 .. 1 /\ call = [op |-> "display", arg |-> arg]
    BY <1>0, <1>6 DEF Display!Askable
  <2>2. Display!Sent(call) = <<Display!CommandByte(b)>> /\ Display!Meant(call) = <<call>>
    BY <1>6 DEF Display!Sent, Display!Meant, Display!Shift
  <2>3. b \in Nat /\ b \in 16 .. 31 /\ (b \div 4) % 2 = arg /\ (b \div 8) % 2 = 1
    <3> HIDE DEF arg
    <3> QED
      BY <2>1
  <2>4. Display!Instruction(b) = [op |-> "display", arg |-> arg]
    <3> HIDE DEF b
    <3> QED
      BY <2>3 DEF Display!Instruction, Display!Bit
  <2> HIDE DEF b
  <2> QED
    BY <2>1, <2>2, <2>3, <2>4, OneCommand
<1>7. CASE op = "cgram"
  <2> DEFINE b == 64 + (arg % 64)
  <2>1. arg \in 0 .. 63 /\ call = [op |-> "cgram", arg |-> arg]
    BY <1>0, <1>7 DEF Display!Askable
  <2>2. Display!Sent(call) = <<Display!CommandByte(b)>> /\ Display!Meant(call) = <<call>>
    BY <1>7 DEF Display!Sent, Display!Meant
  <2>3. b = 64 + arg
    BY <2>1
  <2>4. b \in Nat /\ Display!Instruction(b) = [op |-> "cgram", arg |-> arg]
    BY <2>1, <2>3 DEF Display!Instruction
  <2> HIDE DEF b
  <2> QED
    BY <2>1, <2>2, <2>4, OneCommand
<1>8. CASE op = "ddram"
  <2> DEFINE b == 128 + (arg % 128)
  <2>1. arg \in 0 .. 127 /\ call = [op |-> "ddram", arg |-> arg]
    BY <1>0, <1>8 DEF Display!Askable
  <2>2. Display!Sent(call) = <<Display!CommandByte(b)>> /\ Display!Meant(call) = <<call>>
    BY <1>8 DEF Display!Sent, Display!Meant
  <2>3. b = 128 + arg
    BY <2>1
  <2>4. b \in Nat /\ Display!Instruction(b) = [op |-> "ddram", arg |-> arg]
    BY <2>1, <2>3 DEF Display!Instruction
  <2> HIDE DEF b
  <2> QED
    BY <2>1, <2>2, <2>4, OneCommand
<1>9. CASE op = "string"
  <2>1. arg \in Seq(0 .. 255)
    BY <1>0, <1>9 DEF Display!Askable
  <2>2. /\ Display!Sent(call) = [i \in DOMAIN arg |-> <<1, arg[i]>>]
        /\ Display!Meant(call) = [i \in DOMAIN arg |-> [op |-> "data", arg |-> arg[i]]]
    BY <1>9 DEF Display!Sent, Display!Meant, Display!DATA
  <2>3. \A n : Display!Decode(1, n) = [op |-> "data", arg |-> n]
    BY DEF Display!Decode, Display!DATA
  <2> HIDE DEF arg
  <2>4. /\ DOMAIN arg = 1 .. Len(arg) /\ Len(arg) \in Nat
        /\ \A i \in DOMAIN arg : arg[i] \in 0 .. 255
    BY <2>1, ElementsOf
  <2>5. \A i \in DOMAIN arg : <<1, arg[i]>> \in Bytes
    <3>1. \A n \in 0 .. 255 : <<1, n>> \in Bytes
      BY DEF Bytes
    <3> QED
      BY <2>4, <3>1
  <2>6. Display!Sent(call) \in Seq(Bytes)
    <3>1. /\ Display!Sent(call) = [i \in 1 .. Len(arg) |-> Display!Sent(call)[i]]
          /\ \A i \in 1 .. Len(arg) : Display!Sent(call)[i] \in Bytes
      BY <2>2, <2>4, <2>5
    <3> QED
      BY <2>4, <3>1
  <2>7. Decoded(Display!Sent(call)) = Display!Meant(call)
    BY <2>2, <2>3 DEF Decoded
  <2> QED
    BY <2>6, <2>7
<1> QED
  BY <1>0, <1>1, <1>2, <1>3, <1>4, <1>5, <1>6, <1>7, <1>8, <1>9 DEF Display!Askable

\* What the calls made so far ask for, all together.
MeantSoFar == FlattenSeq([i \in DOMAIN asked |-> Display!Meant(asked[i].call)])

OneWriter ==
  /\ \A i, j \in DOMAIN asked : asked[i].by = asked[j].by
  /\ \A i \in DOMAIN asked : asked[i].call.op # "entry"

\* What a writer still has to send was asked by it; while it is the only one the pins show
\* the byte it is at, and what was taken and what it has left are what was meant.
DisplayTyped ==
  /\ asked \in Seq([by : Tasks, call : Calls])
  /\ taken \in Seq(Instructions)
  /\ rs \in {0, 1} /\ db \in Nat
  /\ queue \in [Tasks -> Seq(Bytes)]
  /\ stage \in [Tasks -> {"idle", "lines", "high"}]

SendsWhatItAsked == \A w \in Tasks :
  /\ queue[w] # <<>> => \E i \in DOMAIN asked : asked[i].by = w
  /\ stage[w] # "idle" => queue[w] # <<>>

PinsShowByte == \A w \in Tasks :
  /\ stage[w] # "idle" => rs = Head(queue[w])[1]
  /\ stage[w] = "high" => db = Head(queue[w])[2]

LeftIsMeant ==
  /\ asked = <<>> => taken = <<>>
  /\ \A i \in DOMAIN asked : taken \o Decoded(queue[asked[i].by]) = MeantSoFar

DisplayInv ==
  /\ DisplayTyped /\ SendsWhatItAsked
  /\ OneWriter => PinsShowByte /\ LeftIsMeant

LEMMA DecodedTyped ==
  ASSUME NEW s \in Seq(Bytes)
  PROVE  Decoded(s) \in Seq(Instructions) /\ Len(Decoded(s)) = Len(s)
<1>1. /\ Decoded(s) = [i \in 1 .. Len(s) |-> Decoded(s)[i]] /\ Len(s) \in Nat
      /\ \A i \in 1 .. Len(s) : Decoded(s)[i] \in Instructions
  BY ElementsOf DEF Decoded, Instructions
<1> QED
  BY <1>1

\* The first byte can be taken in front of the others.
LEMMA NextDecoded ==
  ASSUME NEW s \in Seq(Bytes), s # <<>>, NEW before \in Seq(Instructions)
  PROVE  Append(before, Display!Decode(Head(s)[1], Head(s)[2])) \o Decoded(Tail(s))
           = before \o Decoded(s)
<1> DEFINE x == Display!Decode(Head(s)[1], Head(s)[2])
<1>1. Head(s) = s[1] /\ Head(s) \in Bytes /\ Tail(s) \in Seq(Bytes) /\ Len(Tail(s)) = Len(s) - 1
  OBVIOUS
<1>2. x \in Instructions
  BY <1>1 DEF Instructions
<1>3. Decoded(s) = <<x>> \o Decoded(Tail(s))
  <2>1. Decoded(s)[1] = x
    BY <1>1 DEF Decoded
  <2>2. \A i \in 1 .. Len(s) - 1 : Decoded(Tail(s))[i] = Decoded(s)[i + 1]
    BY <1>1 DEF Decoded
  <2>3. /\ Decoded(s) \in Seq(Instructions) /\ Len(Decoded(s)) = Len(s)
        /\ Decoded(Tail(s)) \in Seq(Instructions) /\ Len(Decoded(Tail(s))) = Len(s) - 1
    BY <1>1, DecodedTyped
  <2> HIDE DEF x
  <2> QED
    BY <1>2, <2>1, <2>2, <2>3
<1> HIDE DEF x
<1>4. Decoded(Tail(s)) \in Seq(Instructions)
  BY <1>1, DecodedTyped
<1> QED
  BY <1>2, <1>3, <1>4 DEF x

LEMMA MeantTyped ==
  ASSUME NEW call \in Calls
  PROVE  Display!Meant(call) \in Seq(Instructions)
<1>1. CASE call.op = "entry"
  BY <1>1 DEF Display!Meant, Instructions
<1>2. CASE call.op # "entry"
  BY <1>2, SentIsMeant, DecodedTyped
<1> QED
  BY <1>1, <1>2

\* A call adds what it means to what was meant.
LEMMA MoreIsMeant ==
  ASSUME DisplayTyped, NEW w \in Tasks, NEW call \in Calls,
         asked' = Append(asked, [by |-> w, call |-> call])
  PROVE  MeantSoFar' = MeantSoFar \o Display!Meant(call)
<1> DEFINE lists == [i \in DOMAIN asked |-> Display!Meant(asked[i].call)]
           lists1 == [i \in DOMAIN asked' |-> Display!Meant(asked'[i].call)]
<1>1. /\ DOMAIN asked = 1 .. Len(asked) /\ Len(asked) \in Nat
      /\ \A i \in DOMAIN asked : asked[i].call \in Calls
  <2>1. asked \in Seq([by : Tasks, call : Calls])
    BY DEF DisplayTyped
  <2>2. \A i \in DOMAIN asked : asked[i] \in [by : Tasks, call : Calls]
    BY <2>1, ElementsOf
  <2> QED
    BY <2>1, <2>2, ElementsOf
<1>2. /\ DOMAIN asked' = 1 .. Len(asked) + 1 /\ asked'[Len(asked) + 1].call = call
      /\ \A i \in 1 .. Len(asked) : asked'[i] = asked[i]
  BY <1>1 DEF DisplayTyped
<1>3. lists \in Seq(Seq(Instructions)) /\ Len(lists) = Len(asked)
  <2>1. \A i \in 1 .. Len(asked) : lists[i] \in Seq(Instructions)
    BY <1>1, MeantTyped
  <2>2. lists = [i \in 1 .. Len(asked) |-> lists[i]]
    BY <1>1
  <2> HIDE DEF lists
  <2> QED
    BY <1>1, <2>1, <2>2
<1>4. Display!Meant(call) \in Seq(Instructions)
  BY MeantTyped
<1>5. lists1 = Append(lists, Display!Meant(call))
  <2>1. \A i \in 1 .. Len(asked) + 1 : lists1[i] = Append(lists, Display!Meant(call))[i]
    <3> SUFFICES ASSUME NEW i \in 1 .. Len(asked) + 1
                 PROVE  lists1[i] = Append(lists, Display!Meant(call))[i]
      OBVIOUS
    <3>1. CASE i \in 1 .. Len(asked)
      <4>1. lists1[i] = lists[i]
        BY <1>1, <1>2, <3>1
      <4> HIDE DEF lists, lists1
      <4> QED
        BY <1>3, <1>4, <3>1, <4>1
    <3>2. CASE i = Len(asked) + 1
      <4>1. lists1[i] = Display!Meant(call)
        BY <1>1, <1>2, <3>2
      <4> HIDE DEF lists, lists1
      <4> QED
        BY <1>3, <1>4, <3>2, <4>1
    <3> QED
      BY <1>1, <3>1, <3>2
  <2>2. lists1 = [i \in 1 .. Len(asked) + 1 |-> lists1[i]]
    BY <1>2
  <2> HIDE DEF lists, lists1
  <2>3. /\ Append(lists, Display!Meant(call)) \in Seq(Seq(Instructions))
        /\ Len(Append(lists, Display!Meant(call))) = Len(asked) + 1
    BY <1>3, <1>4
  <2>4. Append(lists, Display!Meant(call)) =
          [i \in 1 .. Len(asked) + 1 |-> Append(lists, Display!Meant(call))[i]]
    BY <2>3, ElementsOf
  <2> QED
    BY <2>1, <2>2, <2>4
<1>6. MeantSoFar = FlattenSeq(lists) /\ MeantSoFar' = FlattenSeq(lists1)
  BY DEF MeantSoFar
<1> HIDE DEF lists, lists1
<1> QED
  BY <1>3, <1>4, <1>5, <1>6, FlattenAppend

LEMMA DisplayCalled ==
  ASSUME DisplayInv, NEW w \in Tasks, NEW call \in Calls, Display!Call(w, call)
  PROVE  DisplayInv'
<1>1. /\ queue[w] = <<>> /\ queue' = [queue EXCEPT ![w] = Display!Sent(call)]
      /\ asked' = Append(asked, [by |-> w, call |-> call])
      /\ UNCHANGED <<rs, db, stage, taken>>
  BY DEF Display!Call
<1>2. /\ asked \in Seq([by : Tasks, call : Calls]) /\ taken \in Seq(Instructions)
      /\ queue \in [Tasks -> Seq(Bytes)] /\ stage \in [Tasks -> {"idle", "lines", "high"}]
  BY DEF DisplayInv, DisplayTyped
<1>3. DOMAIN asked = 1 .. Len(asked) /\ Len(asked) \in Nat
  BY <1>2
<1>4. /\ DOMAIN asked' = 1 .. Len(asked) + 1
      /\ asked'[Len(asked) + 1] = [by |-> w, call |-> call]
      /\ \A i \in DOMAIN asked : asked'[i] = asked[i]
  BY <1>1, <1>2
<1>5. Display!Sent(call) \in Seq(Bytes)
  <2>1. CASE call.op = "entry"
    <3>1. Display!Sent(call) = <<Display!CommandByte(1)>>
      BY <2>1 DEF Display!Sent
    <3> QED
      BY <3>1, OneCommand
  <2>2. CASE call.op # "entry"
    BY <2>2, SentIsMeant
  <2> QED
    BY <2>1, <2>2
<1>6. DisplayTyped'
  <2>1. [by |-> w, call |-> call] \in [by : Tasks, call : Calls]
    OBVIOUS
  <2> QED
    BY <1>1, <1>2, <1>5, <2>1 DEF DisplayInv, DisplayTyped
<1>7. \A t \in Tasks : queue'[t] = IF t = w THEN Display!Sent(call) ELSE queue[t]
  BY <1>1, <1>2
<1>8. stage[w] = "idle"
  BY <1>1 DEF DisplayInv, SendsWhatItAsked
<1>9. SendsWhatItAsked'
  <2> SUFFICES ASSUME NEW t \in Tasks
               PROVE  /\ queue'[t] # <<>> => \E i \in DOMAIN asked' : asked'[i].by = t
                      /\ stage'[t] # "idle" => queue'[t] # <<>>
    BY DEF SendsWhatItAsked
  <2>1. CASE t = w
    <3>1. Len(asked) + 1 \in DOMAIN asked' /\ asked'[Len(asked) + 1].by = w
      BY <1>3, <1>4
    <3> QED
      BY <1>1, <1>8, <2>1, <3>1
  <2>2. CASE t # w
    <3>1. queue'[t] = queue[t] /\ stage'[t] = stage[t]
      BY <1>1, <1>7, <2>2
    <3>2. \A i \in DOMAIN asked : i \in DOMAIN asked' /\ asked'[i].by = asked[i].by
      BY <1>3, <1>4
    <3> QED
      BY <3>1, <3>2 DEF DisplayInv, SendsWhatItAsked
  <2> QED
    BY <2>1, <2>2
<1>10. ASSUME OneWriter' PROVE PinsShowByte' /\ LeftIsMeant'
  <2>1. \A i \in DOMAIN asked : i \in DOMAIN asked'
    BY <1>3, <1>4
  <2>2. OneWriter /\ \A i \in DOMAIN asked' : asked'[i].by = w
    <3>1. Len(asked) + 1 \in DOMAIN asked' /\ asked'[Len(asked) + 1].by = w
      BY <1>3, <1>4
    <3> QED
      BY <1>4, <1>10, <2>1, <3>1 DEF OneWriter
  <2>3. call.op # "entry"
    <3>1. Len(asked) + 1 \in DOMAIN asked' /\ asked'[Len(asked) + 1].call = call
      BY <1>3, <1>4
    <3> QED
      BY <1>10, <3>1 DEF OneWriter
  <2>4. PinsShowByte /\ LeftIsMeant
    BY <2>2 DEF DisplayInv
  <2>5. PinsShowByte'
    <3> SUFFICES ASSUME NEW t \in Tasks
                 PROVE  /\ stage'[t] # "idle" => rs' = Head(queue'[t])[1]
                        /\ stage'[t] = "high" => db' = Head(queue'[t])[2]
      BY DEF PinsShowByte
    <3>1. CASE t = w
      BY <1>1, <1>8, <3>1
    <3>2. CASE t # w
      BY <1>1, <1>7, <2>4, <3>2 DEF PinsShowByte
    <3> QED
      BY <3>1, <3>2
  <2>6. taken = MeantSoFar
    <3>1. CASE asked = <<>>
      <4>1. MeantSoFar = <<>>
        BY <3>1 DEF MeantSoFar, FlattenSeq
      <4> QED
        BY <2>4, <3>1, <4>1 DEF LeftIsMeant
    <3>2. CASE asked # <<>>
      <4>1. 1 \in DOMAIN asked
        BY <1>2, <1>3, <3>2
      <4>2. asked[1].by = w
        BY <1>4, <2>1, <2>2, <4>1
      <4>3. taken \o Decoded(<<>>) = MeantSoFar
        BY <1>1, <2>4, <4>1, <4>2 DEF LeftIsMeant
      <4>4. Decoded(<<>>) = <<>>
        BY DEF Decoded
      <4> QED
        BY <1>2, <4>3, <4>4
    <3> QED
      BY <3>1, <3>2
  <2>7. taken' \o Decoded(queue'[w]) = MeantSoFar'
    <3>1. queue'[w] = Display!Sent(call) /\ taken' = taken
      BY <1>1, <1>7
    <3>2. Decoded(Display!Sent(call)) = Display!Meant(call)
      BY <2>3, SentIsMeant
    <3>3. MeantSoFar' = MeantSoFar \o Display!Meant(call)
      BY <1>1, MoreIsMeant DEF DisplayInv
    <3> QED
      BY <2>6, <3>1, <3>2, <3>3
  <2>8. LeftIsMeant'
    <3>1. asked' # <<>>
      BY <1>3, <1>4
    <3>2. \A i \in DOMAIN asked' : taken' \o Decoded(queue[asked[i].by])' = MeantSoFar'
      BY <2>2, <2>7
    <3> QED
      BY <3>1, <3>2 DEF LeftIsMeant
  <2> QED
    BY <2>5, <2>8
<1> QED
  BY <1>6, <1>9, <1>10 DEF DisplayInv

\* Two tasks that both have bytes to send are no single writer.
LEMMA OthersSendNothing ==
  ASSUME DisplayInv, OneWriter, NEW w \in Tasks, queue[w] # <<>>, NEW t \in Tasks, t # w
  PROVE  queue[t] = <<>> /\ stage[t] = "idle"
<1>1. PICK i \in DOMAIN asked : asked[i].by = w
  BY DEF DisplayInv, SendsWhatItAsked
<1>2. ASSUME queue[t] # <<>> PROVE FALSE
  <2>1. PICK j \in DOMAIN asked : asked[j].by = t
    BY <1>2 DEF DisplayInv, SendsWhatItAsked
  <2> QED
    BY <1>1, <2>1 DEF OneWriter
<1>3. stage[t] \in {"idle", "lines", "high"}
  BY DEF DisplayInv, DisplayTyped
<1> QED
  BY <1>2, <1>3 DEF DisplayInv, SendsWhatItAsked

\* The pins are set to the byte the writer is at, and nothing is taken yet.
LEMMA DisplayPins ==
  ASSUME DisplayInv, NEW w \in Tasks, Display!SetLines(w) \/ Display!SendByte(w)
  PROVE  DisplayInv'
<1>1. /\ queue[w] # <<>> /\ UNCHANGED <<asked, queue, taken>>
      /\ \E to \in {"lines", "high"} : stage' = [stage EXCEPT ![w] = to]
  BY DEF Display!SetLines, Display!SendByte, Display!Stage
<1>2. /\ stage \in [Tasks -> {"idle", "lines", "high"}]
      /\ stage' \in [Tasks -> {"idle", "lines", "high"}]
      /\ \A t \in Tasks \ {w} : stage'[t] = stage[t]
  BY <1>1 DEF DisplayInv, DisplayTyped
<1>3. DisplayTyped'
  <2>1. Head(queue[w]) \in Bytes
    BY <1>1 DEF DisplayInv, DisplayTyped
  <2>2. Head(queue[w])[1] \in {0, 1} /\ Head(queue[w])[2] \in Nat
    BY <2>1 DEF Bytes
  <2>3. rs' \in {0, 1} /\ db' \in Nat
    BY <2>2 DEF Display!SetLines, Display!SendByte, DisplayInv, DisplayTyped
  <2> QED
    BY <1>1, <1>2, <2>3 DEF DisplayInv, DisplayTyped
<1>4. SendsWhatItAsked'
  BY <1>1, <1>2 DEF DisplayInv, SendsWhatItAsked
<1>5. MeantSoFar' = MeantSoFar /\ OneWriter' = OneWriter
  BY <1>1 DEF MeantSoFar, OneWriter
<1>6. ASSUME OneWriter PROVE PinsShowByte' /\ LeftIsMeant'
  <2>1. LeftIsMeant'
    BY <1>1, <1>5, <1>6 DEF DisplayInv, LeftIsMeant
  <2>2. \A t \in Tasks \ {w} : stage'[t] = "idle"
    BY <1>1, <1>2, <1>6, OthersSendNothing
  <2>3. rs' = Head(queue'[w])[1] /\ (stage'[w] = "high" => db' = Head(queue'[w])[2])
    <3>1. CASE Display!SetLines(w)
      BY <1>2, <3>1 DEF Display!SetLines, Display!Stage
    <3>2. CASE Display!SendByte(w)
      <4>1. stage[w] = "lines" /\ rs' = rs /\ db' = Head(queue[w])[2]
        BY <3>2 DEF Display!SendByte, Display!Stage
      <4>2. rs = Head(queue[w])[1]
        BY <1>6, <4>1 DEF DisplayInv, PinsShowByte
      <4> QED
        BY <1>1, <4>1, <4>2
    <3> QED
      BY <3>1, <3>2
  <2> QED
    BY <2>1, <2>2, <2>3 DEF PinsShowByte
<1> QED
  BY <1>3, <1>4, <1>5, <1>6 DEF DisplayInv

\* The byte that is clocked in is the next one of what was meant.
LEMMA DisplayClocked ==
  ASSUME DisplayInv, NEW w \in Tasks, Display!Clock(w)
  PROVE  DisplayInv'
<1>1. /\ queue[w] # <<>> /\ stage[w] = "high" /\ stage' = [stage EXCEPT ![w] = "idle"]
      /\ taken' = Append(taken, Display!Decode(rs, db))
      /\ queue' = [queue EXCEPT ![w] = Tail(@)]
      /\ UNCHANGED <<asked, rs, db>>
  BY DEF Display!Clock, Display!Stage
<1>2. /\ asked \in Seq([by : Tasks, call : Calls]) /\ taken \in Seq(Instructions)
      /\ queue \in [Tasks -> Seq(Bytes)] /\ stage \in [Tasks -> {"idle", "lines", "high"}]
  BY DEF DisplayInv, DisplayTyped
<1>3. /\ Tail(queue[w]) \in Seq(Bytes) /\ Head(queue[w]) \in Bytes
      /\ \A t \in Tasks \ {w} : queue'[t] = queue[t] /\ stage'[t] = stage[t]
      /\ queue'[w] = Tail(queue[w]) /\ stage'[w] = "idle"
  BY <1>1, <1>2
<1>4. Display!Decode(rs, db) \in Instructions
  <2>1. <<rs, db>> \in Bytes
    BY DEF DisplayInv, DisplayTyped, Bytes
  <2> QED
    BY <2>1 DEF Instructions
<1>5. DisplayTyped'
  BY <1>1, <1>2, <1>3, <1>4 DEF DisplayInv, DisplayTyped
<1>6. SendsWhatItAsked'
  <2> SUFFICES ASSUME NEW t \in Tasks
               PROVE  /\ queue'[t] # <<>> => \E i \in DOMAIN asked' : asked'[i].by = t
                      /\ stage'[t] # "idle" => queue'[t] # <<>>
    BY DEF SendsWhatItAsked
  <2>1. CASE t = w
    BY <1>1, <1>3, <2>1 DEF DisplayInv, SendsWhatItAsked
  <2>2. CASE t # w
    BY <1>1, <1>3, <2>2 DEF DisplayInv, SendsWhatItAsked
  <2> QED
    BY <2>1, <2>2
<1>7. MeantSoFar' = MeantSoFar /\ OneWriter' = OneWriter
  BY <1>1 DEF MeantSoFar, OneWriter
<1>8. ASSUME OneWriter PROVE PinsShowByte' /\ LeftIsMeant'
  <2>1. \A t \in Tasks : stage'[t] = "idle"
    BY <1>1, <1>3, <1>8, OthersSendNothing
  <2>2. PICK i \in DOMAIN asked : asked[i].by = w
    BY <1>1 DEF DisplayInv, SendsWhatItAsked
  <2>3. \A j \in DOMAIN asked : asked[j].by = w
    BY <1>8, <2>2 DEF OneWriter
  <2>4. taken \o Decoded(queue[w]) = MeantSoFar
    BY <1>8, <2>2 DEF DisplayInv, LeftIsMeant
  <2>5. rs = Head(queue[w])[1] /\ db = Head(queue[w])[2]
    BY <1>1, <1>8 DEF DisplayInv, PinsShowByte
  <2>6. Append(taken, Display!Decode(rs, db)) \o Decoded(Tail(queue[w])) = taken \o Decoded(queue[w])
    BY <1>1, <1>2, <1>4, <2>5, NextDecoded
  <2>7. LeftIsMeant'
    <3>1. asked # <<>>
      BY <2>2
    <3> QED
      BY <1>1, <1>3, <1>7, <2>3, <2>4, <2>6, <3>1 DEF LeftIsMeant
  <2> QED
    BY <2>1, <2>7 DEF PinsShowByte
<1> QED
  BY <1>5, <1>6, <1>7, <1>8 DEF DisplayInv

LEMMA DisplayStepInv == DisplayInv /\ [UtilitiesNext]_allVars => DisplayInv'
<1> SUFFICES ASSUME DisplayInv, [UtilitiesNext]_allVars PROVE DisplayInv'
  OBVIOUS
<1>1. CASE UNCHANGED display
  <2>1. UNCHANGED <<rs, db, queue, stage, asked, taken>>
    BY <1>1 DEF display
  <2> QED
    BY <2>1 DEF DisplayInv, DisplayTyped, SendsWhatItAsked, PinsShowByte, LeftIsMeant, OneWriter,
                MeantSoFar
<1>2. ASSUME NEW c \in Contexts, DisplayStep(c) PROVE DisplayInv'
  <2>1. c \in Tasks
    BY <1>2 DEF DisplayStep
  <2>2. ASSUME NEW call \in Calls, Display!Call(c, call) PROVE DisplayInv'
    BY <2>1, <2>2, DisplayCalled
  <2>3. CASE Display!Write(c)
    BY <2>1, <2>3, DisplayPins, DisplayClocked DEF Display!Write
  <2> QED
    BY <1>2, <2>2, <2>3 DEF DisplayStep
<1>3. ASSUME NEW c \in Contexts, VarbufStep(c) \/ WatchdogStep(c) \/ DelayStep(c)
      PROVE  DisplayInv'
  BY <1>1, <1>3 DEF VarbufStep, WatchdogStep, DelayStep
<1>4. CASE ErrorStep \/ UNCHANGED allVars
  BY <1>1, <1>4 DEF ErrorStep, Alongside, allVars, libraries
<1>5. CASE WatchdogTick \/ DelayTick \/ DelayReturn
  BY <1>1, <1>5 DEF WatchdogTick, DelayTick, DelayReturn
<1> QED
  BY <1>2, <1>3, <1>4, <1>5 DEF UtilitiesNext

LEMMA DisplayInit == UtilitiesInit => DisplayInv
<1> SUFFICES ASSUME UtilitiesInit PROVE DisplayInv
  OBVIOUS
<1>1. /\ rs = 0 /\ db = 0 /\ queue = [w \in Tasks |-> <<>>] /\ stage = [w \in Tasks |-> "idle"]
      /\ asked = <<>> /\ taken = <<>>
  BY DEF UtilitiesInit, Display!Init, Display!COMMAND
<1> QED
  BY <1>1 DEF DisplayInv, DisplayTyped, SendsWhatItAsked, PinsShowByte, LeftIsMeant

\* st7066u.h: what the controller takes is what the calls of a single task ask for, each
\* byte once and in the order of the calls, for any calls with any arguments but those of
\* st7066u_set_entry_mode, which sends another command, however the scheduler and the
\* interrupts come between two pins.
THEOREM DisplayTakesWhatWasMeant == UtilitiesSpec => []DisplayTakesWhatIsMeant
<1>1. DisplayInv => DisplayTakesWhatIsMeant
  <2> SUFFICES ASSUME DisplayInv, OneWriter PROVE IsPrefix(taken, MeantSoFar)
    BY DEF DisplayTakesWhatIsMeant, OneWriter, MeantSoFar
  <2>1. taken \in Seq(Instructions)
    BY DEF DisplayInv, DisplayTyped
  <2>2. CASE asked = <<>>
    <3>1. taken = <<>> /\ MeantSoFar = <<>>
      BY <2>2 DEF DisplayInv, LeftIsMeant, MeantSoFar, FlattenSeq
    <3> QED
      BY <3>1 DEF IsPrefix
  <2>3. CASE asked # <<>>
    <3>1. PICK w \in Tasks : taken \o Decoded(queue[w]) = MeantSoFar
      <4>1. asked \in Seq([by : Tasks, call : Calls])
        BY DEF DisplayInv, DisplayTyped
      <4>2. 1 \in DOMAIN asked
        BY <2>3, <4>1
      <4>3. asked[1] \in [by : Tasks, call : Calls]
        BY <4>1, <4>2, ElementsOf
      <4> QED
        BY <4>2, <4>3 DEF DisplayInv, LeftIsMeant
    <3>2. Decoded(queue[w]) \in Seq(Instructions)
      BY DecodedTyped DEF DisplayInv, DisplayTyped
    <3> QED
      BY <2>1, <3>1, <3>2 DEF IsPrefix
  <2> QED
    BY <2>2, <2>3
<1> QED
  BY <1>1, DisplayInit, DisplayStepInv, PTL DEF UtilitiesSpec

=============================================================================
