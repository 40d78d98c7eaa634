------------------------------ MODULE FifoProofs ------------------------------
(***************************************************************************)
(* Critical sections exclude each other and the interrupt, for any number  *)
(* of threads and any nesting.  And the ring as coded, of any size, for    *)
(* any number of elements and any range of its counters: it is a queue     *)
(* when nobody can disturb an operation that is under way, and the receive *)
(* FIFO, where the interrupt can, at least invents nothing.                *)
(***************************************************************************)
EXTENDS Fifo, TLAPS

\* Arithmetic modulo n of a sum that goes around at most once.
LEMMA Around ==
  ASSUME NEW n \in Nat, n > 0, NEW a \in 0 .. n - 1, NEW b \in 0 .. n
  PROVE  (a + b) % n = IF a + b < n THEN a + b ELSE a + b - n
OBVIOUS

LEMMA SuccTyped == \A s \in Slots : Succ(s) \in Slots
BY FifoAssumption DEF Slots, Succ

LEMMA WordTyped ==
  ASSUME NEW n \in 0 .. Word - 1
  PROVE  /\ (n + 1) % Word \in 0 .. Word - 1 /\ (n + Word - 1) % Word \in 0 .. Word - 1
         /\ n + 1 < Word => (n + 1) % Word = n + 1
         /\ n > 0 => (n + Word - 1) % Word = n - 1
BY FifoAssumption

LEMMA TypeInit == Init => TypeOK
<1> SUFFICES ASSUME Init PROVE TypeOK
  OBVIOUS
<1>1. 0 \in Slots /\ 0 \in 0 .. Word - 1 /\ 0 \in 0 .. MaxElements /\ 0 \in 0 .. MaxDepth
  BY FifoAssumption DEF Slots
<1> QED
  BY <1>1 DEF Init, TypeOK, Labels

LEMMA MaskTyped ==
  ASSUME TypeOK
  PROVE  /\ critical_enter \/ critical_exit
              => critical_counter' \in 0 .. Word - 1 /\ irq_enabled' \in BOOLEAN
         /\ \A n \in {1, 3} : IsrBlocks(n)
              => critical_counter' \in 0 .. Word - 1 /\ irq_enabled' \in BOOLEAN
<1>1. critical_counter \in 0 .. Word - 1 /\ irq_enabled \in BOOLEAN
  BY DEF TypeOK
<1>2. \A n \in Nat : n % Word \in 0 .. Word - 1
  BY FifoAssumption
<1>3. \A n \in {1, 3} : critical_counter + n * (Word - 1) \in Nat
  BY <1>1, FifoAssumption
<1>4. critical_enter \/ critical_exit
        => critical_counter' \in 0 .. Word - 1 /\ irq_enabled' \in BOOLEAN
  BY <1>1, WordTyped DEF critical_enter, critical_exit
<1>5. ASSUME NEW n \in {1, 3}, IsrBlocks(n)
      PROVE  critical_counter' \in 0 .. Word - 1 /\ irq_enabled' \in BOOLEAN
  BY <1>1, <1>2, <1>3, <1>5 DEF IsrBlocks
<1> QED
  BY <1>4, <1>5

LEMMA ThreadTyped ==
  ASSUME TypeOK, use' = use, NEW t \in Threads, Thread(t)
  PROVE  TypeOK'
<1> USE DEF Labels, PutLabels, GetLabels, At, Goto
<1>1. CASE SectionEnter(t)
  <2>1. depth' \in [Threads -> 0 .. MaxDepth]
    BY <1>1, FifoAssumption DEF SectionEnter, TypeOK
  <2> QED
    BY <1>1, <2>1, MaskTyped DEF SectionEnter, TypeOK, ring, locals, history
<1>2. CASE SectionExit(t)
  <2>1. depth' \in [Threads -> 0 .. MaxDepth]
    BY <1>2, FifoAssumption DEF SectionExit, TypeOK
  <2> QED
    BY <1>2, <2>1, MaskTyped DEF SectionExit, TypeOK, ring, locals, history
<1>3. CASE PutCheck(t)
  <2>1. written' \in 0 .. MaxElements
    BY <1>3, FifoAssumption DEF PutCheck, TypeOK
  <2> QED
    BY <1>3, <2>1 DEF PutCheck, TypeOK, ring, mask
<1>4. CASE PutEnd(t)
  BY <1>4, SuccTyped DEF PutEnd, TypeOK, mask, locals, history
<1>5. CASE PutCopy(t)
  BY <1>5 DEF PutCopy, TypeOK, mask, locals, history
<1>6. CASE PutLoad(t)
  BY <1>6 DEF PutLoad, TypeOK, ring, mask, history
<1>7. CASE PutStore(t)
  <2>1. count' \in 0 .. Word - 1
    BY <1>7, WordTyped DEF PutStore, TypeOK
  <2> QED
    BY <1>7, <2>1, MaskTyped DEF PutStore, TypeOK, locals, history
<1>8. CASE GetCheck(t)
  BY <1>8 DEF GetCheck, TypeOK, ring, mask, locals, history
<1>9. CASE GetStart(t)
  BY <1>9, SuccTyped DEF GetStart, TypeOK, mask, history
<1>10. CASE GetLoad(t)
  BY <1>10 DEF GetLoad, TypeOK, ring, mask, history
<1>11. CASE GetStore(t)
  <2>1. count' \in 0 .. Word - 1
    BY <1>11, WordTyped DEF GetStore, TypeOK
  <2> QED
    BY <1>11, <2>1, MaskTyped DEF GetStore, TypeOK, locals, history
<1>12. CASE GetCopy(t)
  <2>1. got' \in Seq(0 .. MaxElements)
    BY <1>12 DEF GetCopy, TypeOK
  <2> QED
    BY <1>12, <2>1, MaskTyped DEF GetCopy, TypeOK, ring, locals
<1> QED
  BY <1>1, <1>2, <1>3, <1>4, <1>5, <1>6, <1>7, <1>8, <1>9, <1>10, <1>11, <1>12 DEF Thread

LEMMA IsrTyped ==
  ASSUME TypeOK, use' = use, IsrPut \/ IsrGet
  PROVE  TypeOK'
<1>1. count' \in 0 .. Word - 1
  BY WordTyped DEF IsrPut, IsrGet, TypeOK
<1>2. critical_counter' \in 0 .. Word - 1 /\ irq_enabled' \in BOOLEAN
  BY MaskTyped DEF IsrPut, IsrGet
<1>3. CASE IsrPut
  <2>1. written' \in 0 .. MaxElements
    BY <1>3, FifoAssumption DEF IsrPut, TypeOK
  <2> QED
    BY <1>1, <1>2, <1>3, <2>1, SuccTyped DEF IsrPut, TypeOK, locals
<1>4. CASE IsrGet
  <2>1. got' \in Seq(0 .. MaxElements)
    BY <1>4, SuccTyped DEF IsrGet, TypeOK
  <2> QED
    BY <1>1, <1>2, <1>4, <2>1, SuccTyped DEF IsrGet, TypeOK, locals
<1> QED
  BY <1>3, <1>4

LEMMA TypeStep == TypeOK /\ [Next]_vars => TypeOK'
BY ThreadTyped, IsrTyped DEF Next, vars, TypeOK, ring, mask, locals, history

\* fifo.h: the indices stay on the ring and the counts in their C types, whatever threads
\* and interrupt do.
THEOREM RingTyped == Spec => []TypeOK
BY TypeInit, TypeStep, PTL DEF Spec

-----------------------------------------------------------------------------
(* Critical sections *)

\* At most one thread is in a section; interrupts are blocked exactly then; the counter
\* is the depth of its nesting.
OneInside ==
  /\ \A t, u \in Threads : depth[t] > 0 /\ depth[u] > 0 => t = u
  /\ \A t \in Threads : depth[t] > 0 => ~irq_enabled /\ critical_counter = depth[t]
  /\ (\A t \in Threads : depth[t] = 0) => irq_enabled /\ critical_counter = 0

\* Without sections nothing ever blocks interrupts.
MaskInv ==
  /\ TypeOK
  /\ use.section # {} => OneInside /\ \A t \in Threads : pc[t] = "idle"
  /\ use.section = {} => irq_enabled /\ \A t \in Threads : depth[t] = 0

LEMMA EnterInside ==
  ASSUME MaskInv, use' = use, NEW t \in Threads, SectionEnter(t)
  PROVE  OneInside' /\ use.section # {} /\ pc' = pc
<1>1. /\ use.section # {} /\ OneInside /\ pc' = pc /\ irq_enabled' = FALSE
      /\ critical_counter' = (critical_counter + 1) % Word
      /\ depth' = [depth EXCEPT ![t] = depth[t] + 1] /\ depth[t] < MaxDepth
      /\ depth \in [Threads -> 0 .. MaxDepth]
      /\ irq_enabled \/ depth[t] > 0
  BY DEF MaskInv, TypeOK, SectionEnter, critical_enter, At, CanRun
<1>2. /\ depth'[t] = depth[t] + 1 /\ depth[t] \in Nat
      /\ \A u \in Threads : u # t => depth'[u] = depth[u]
  BY <1>1, FifoAssumption
<1>3. \A u \in Threads : u # t => depth[u] = 0
  <2>1. CASE depth[t] > 0
    BY <1>1, <2>1, FifoAssumption DEF OneInside
  <2>2. CASE irq_enabled
    BY <1>1, <2>2, FifoAssumption DEF OneInside
  <2> QED
    BY <1>1, <2>1, <2>2
<1>4. critical_counter = depth[t]
  BY <1>1, <1>2, <1>3 DEF OneInside
<1>5. critical_counter' = depth[t] + 1
  BY <1>1, <1>2, <1>4, FifoAssumption
<1> QED
  BY <1>1, <1>2, <1>3, <1>5 DEF OneInside

LEMMA ExitInside ==
  ASSUME MaskInv, use' = use, NEW t \in Threads, SectionExit(t)
  PROVE  OneInside' /\ use.section # {} /\ pc' = pc
<1>1. /\ use.section # {} /\ OneInside /\ pc' = pc
      /\ critical_counter' = (critical_counter + Word - 1) % Word
      /\ irq_enabled' = (irq_enabled \/ critical_counter = 1)
      /\ depth' = [depth EXCEPT ![t] = depth[t] - 1] /\ depth[t] > 0
      /\ depth \in [Threads -> 0 .. MaxDepth]
      /\ irq_enabled \in BOOLEAN
  BY DEF MaskInv, TypeOK, SectionExit, critical_exit
<1>2. /\ depth'[t] = depth[t] - 1 /\ depth[t] \in 1 .. MaxDepth
      /\ \A u \in Threads : u # t => depth'[u] = depth[u]
  BY <1>1, FifoAssumption
<1>3. /\ \A u \in Threads : u # t => depth[u] = 0
      /\ ~irq_enabled /\ critical_counter = depth[t]
  BY <1>1, FifoAssumption DEF OneInside
<1>4. critical_counter' = depth[t] - 1
  BY <1>1, <1>2, <1>3, FifoAssumption
<1>5. irq_enabled' <=> depth[t] = 1
  BY <1>1, <1>3
<1>6. \A u \in Threads : depth'[u] > 0 => u = t /\ depth[t] > 1 /\ critical_counter' = depth'[u]
  BY <1>2, <1>3, <1>4
<1>7. (\A u \in Threads : depth'[u] = 0) => depth[t] = 1 /\ critical_counter' = 0
  BY <1>2, <1>4
<1>8. \A u \in Threads : depth'[u] > 0 => ~irq_enabled'
  BY <1>2, <1>5, <1>6
<1> QED
  BY <1>1, <1>5, <1>6, <1>7, <1>8 DEF OneInside

\* The FIFO is not used where sections are, and its blocks mask nothing.
LEMMA OthersUnmasked ==
  ASSUME MaskInv, use' = use, IsrPut \/ IsrGet \/ \E t \in Threads : Thread(t),
         \A t \in Threads : ~SectionEnter(t) /\ ~SectionExit(t)
  PROVE  /\ use.section = {} /\ irq_enabled' /\ depth' = depth
<1>1. CASE use.section = {}
  <2>1. irq_enabled
    BY <1>1 DEF MaskInv
  <2> QED
    BY <1>1, <2>1 DEF IsrPut, IsrGet, IsrBlocks, Thread, PutCheck, PutEnd, PutCopy, PutLoad,
       PutStore, GetCheck, GetStart, GetLoad, GetStore, GetCopy, mask, critical_exit
<1>2. CASE use.section # {}
  <2>1. use.put \cup use.get = {} /\ \A t \in Threads : pc[t] = "idle"
    BY <1>2, FifoAssumption DEF MaskInv, TypeOK
  <2> QED
    BY <2>1 DEF IsrPut, IsrGet, Thread, PutCheck, PutEnd, PutCopy, PutLoad,
       PutStore, GetCheck, GetStart, GetLoad, GetStore, GetCopy, At
<1> QED
  BY <1>1, <1>2

LEMMA MaskInit == Init => MaskInv
BY TypeInit DEF Init, MaskInv, OneInside

LEMMA MaskStep == MaskInv /\ [Next]_vars => MaskInv'
<1> SUFFICES ASSUME MaskInv, [Next]_vars PROVE MaskInv'
  OBVIOUS
<1>1. TypeOK' /\ use' = use
  BY TypeStep DEF MaskInv, Next, vars
<1>2. CASE UNCHANGED vars
  BY <1>1, <1>2 DEF MaskInv, OneInside, vars, mask
<1>3. ASSUME NEW t \in Threads, SectionEnter(t) \/ SectionExit(t) PROVE MaskInv'
  BY <1>1, <1>3, EnterInside, ExitInside DEF MaskInv
<1>4. CASE Next /\ \A t \in Threads : ~SectionEnter(t) /\ ~SectionExit(t)
  <2>1. use.section = {} /\ irq_enabled' /\ depth' = depth
    BY <1>1, <1>4, OthersUnmasked DEF Next
  <2> QED
    BY <1>1, <2>1 DEF MaskInv
<1> QED
  BY <1>2, <1>3, <1>4

\* ... so the exclusion is an invariant.
LEMMA MaskInvariant == Spec => []MaskInv
BY MaskInit, MaskStep, PTL DEF Spec

\* critical.h: interrupts are blocked while any thread is inside a section it entered with
\* critical_enter, however deeply nested.
THEOREM BlocksMask == Spec => []MaskedInside
<1>1. MaskInv => MaskedInside
  BY DEF MaskInv, OneInside, MaskedInside, TypeOK
<1> QED
  BY <1>1, MaskInvariant, PTL

\* critical.h: once every thread has left its sections interrupts are enabled again.
THEOREM BlocksUnmask == Spec => []EnabledOutside
<1>1. MaskInv => EnabledOutside
  BY DEF MaskInv, OneInside, EnabledOutside
<1> QED
  BY <1>1, MaskInvariant, PTL

-----------------------------------------------------------------------------
(* The count *)

Taking == {"get_wait", "get_load", "get_store"}
Callers == Threads \cap (use.put \cup use.get)

\* The element in the hands of fifo_put is not counted yet, that in the hands of
\* fifo_get not any more; a flushing sender puts into an empty FIFO only.
Counted ==
  \A t \in Threads :
    /\ pc[t] \in PutLabels =>
         /\ t \in use.put /\ count + Len(got) + 1 = written /\ count < Size
         /\ use.flushes => count = 0
    /\ pc[t] \in GetLabels => t \in use.get
    /\ pc[t] \in Taking => count + Len(got) = written /\ count > 0
    /\ pc[t] = "get_copy" => count + Len(got) + 1 = written
    /\ pc[t] \in {"put_store", "get_store"} => reg[t] = count

CountInv ==
  /\ TypeOK /\ Exclusive
  /\ count <= Size
  /\ Counted
  /\ CountExact

LEMMA CountInit == Init /\ Exclusive => CountInv
<1> SUFFICES ASSUME Init, Exclusive PROVE CountInv
  OBVIOUS
<1>1. TypeOK
  BY TypeInit
<1>2. count = 0 /\ Len(got) = 0 /\ written = 0 /\ 0 <= Size
  BY FifoAssumption DEF Init
<1>3. \A t \in Threads : pc[t] = "idle"
  BY DEF Init
<1>4. Counted
  BY <1>2, <1>3 DEF Counted, PutLabels, GetLabels, Taking
<1> QED
  BY <1>1, <1>2, <1>4 DEF CountInv, CountExact

\* A caller of the FIFO is alone.
LEMMA Alone ==
  ASSUME CountInv, NEW t \in Callers, NEW u \in Threads, u # t
  PROVE  pc[u] = "idle"
<1>1. u \notin use.put \cup use.get
  BY DEF CountInv, Exclusive, Callers
<1>2. pc[u] \in Labels
  BY DEF CountInv, TypeOK
<1> QED
  BY <1>1, <1>2 DEF CountInv, Counted, Labels

\* The steps of a thread inside the FIFO are those of a caller.
Operation(t) ==
  \/ PutCheck(t) \/ PutEnd(t) \/ PutCopy(t) \/ PutLoad(t) \/ PutStore(t)
  \/ GetCheck(t) \/ GetStart(t) \/ GetLoad(t) \/ GetStore(t) \/ GetCopy(t)

LEMMA OperationBy ==
  ASSUME CountInv, NEW t \in Threads, Operation(t)
  PROVE  /\ t \in Callers
         /\ \A u \in Threads : u # t => pc[u] = "idle" /\ pc'[u] = "idle"
<1> USE DEF At, PutLabels, GetLabels
<1>1. t \in Callers
  BY DEF Operation, PutCheck, PutEnd, PutCopy, PutLoad, PutStore,
     GetCheck, GetStart, GetLoad, GetStore, GetCopy, CountInv, Counted, Callers
<1>2. \A u \in Threads : u # t => pc'[u] = pc[u]
  BY DEF Operation, PutCheck, PutEnd, PutCopy, PutLoad, PutStore,
     GetCheck, GetStart, GetLoad, GetStore, GetCopy, Goto, CountInv, TypeOK
<1> QED
  BY <1>1, <1>2, Alone

LEMMA OperationCounted ==
  ASSUME CountInv, TypeOK', use' = use, NEW t \in Threads, Operation(t)
  PROVE  count' <= Size /\ Counted' /\ CountExact'
<1>1. /\ count \in 0 .. Word - 1 /\ count <= Size /\ Len(got) \in Nat /\ written \in Nat
      /\ reg[t] \in 0 .. Word - 1 /\ Size \in Nat /\ Size < Word /\ Word \in Nat
  BY FifoAssumption DEF CountInv, TypeOK
<1>2. \A u \in Threads : u # t => pc[u] = "idle" /\ pc'[u] = "idle"
  BY OperationBy
<1>3. \A s \in Labels : Goto(t, s) => pc'[t] = s
  BY DEF Goto, CountInv, TypeOK
<1> USE DEF At, PutLabels, Taking, GetLabels, Labels
<1>4. pc[t] = "idle" => count + Len(got) = written
  BY <1>2 DEF CountInv, CountExact
<1> SUFFICES count' <= Size /\
      /\ pc'[t] \in PutLabels =>
           /\ t \in use.put /\ count' + Len(got') + 1 = written' /\ count' < Size
           /\ use.flushes => count' = 0
      /\ pc'[t] \in GetLabels => t \in use.get
      /\ pc'[t] \in Taking => count' + Len(got') = written' /\ count' > 0
      /\ pc'[t] = "get_copy" => count' + Len(got') + 1 = written'
      /\ pc'[t] = "idle" => count' + Len(got') = written'
      /\ pc'[t] \in {"put_store", "get_store"} => reg'[t] = count'
  BY <1>2 DEF Counted, CountExact
<1>5. CASE PutCheck(t)
  BY <1>1, <1>3, <1>4, <1>5 DEF PutCheck, Flushed, ring
<1>6. CASE PutEnd(t)
  BY <1>1, <1>3, <1>6 DEF PutEnd, CountInv, Counted, history
<1>7. CASE PutCopy(t)
  BY <1>1, <1>3, <1>7 DEF PutCopy, CountInv, Counted, history
<1>8. CASE PutLoad(t)
  BY <1>1, <1>3, <1>8 DEF PutLoad, CountInv, Counted, ring, history, TypeOK
<1>9. CASE PutStore(t)
  <2>1. reg[t] = count /\ count + Len(got) + 1 = written /\ count < Size
    BY <1>9 DEF PutStore, CountInv, Counted
  <2>2. count' = count + 1
    BY <1>1, <1>9, <2>1, WordTyped DEF PutStore
  <2> QED
    BY <1>1, <1>3, <1>9, <2>1, <2>2 DEF PutStore, history
<1>10. CASE GetCheck(t)
  BY <1>1, <1>3, <1>4, <1>10 DEF GetCheck, ring, history
<1>11. CASE GetStart(t)
  BY <1>1, <1>3, <1>11 DEF GetStart, CountInv, Counted, history
<1>12. CASE GetLoad(t)
  BY <1>1, <1>3, <1>12 DEF GetLoad, CountInv, Counted, ring, history, TypeOK
<1>13. CASE GetStore(t)
  <2>1. reg[t] = count /\ count + Len(got) = written /\ count > 0 /\ t \in use.get
    BY <1>13 DEF GetStore, CountInv, Counted
  <2>2. count' = count - 1
    BY <1>1, <1>13, <2>1, WordTyped DEF GetStore
  <2> QED
    BY <1>1, <1>3, <1>13, <2>1, <2>2 DEF GetStore, history
<1>14. CASE GetCopy(t)
  <2>1. count + Len(got) + 1 = written
    BY <1>14 DEF GetCopy, CountInv, Counted
  <2>2. Len(got') = Len(got) + 1
    BY <1>14 DEF GetCopy, CountInv, TypeOK
  <2> QED
    BY <1>1, <1>3, <1>14, <2>1, <2>2 DEF GetCopy, ring
<1> QED
  BY <1>5, <1>6, <1>7, <1>8, <1>9, <1>10, <1>11, <1>12, <1>13, <1>14 DEF Operation

\* The interrupt finds no operation under way: it never puts, and while an element is
\* being put there is none to take.
LEMMA IsrAlone ==
  ASSUME CountInv, IsrPut \/ IsrGet
  PROVE  IsrGet /\ count + Len(got) = written /\ \A t \in Threads : pc[t] = "idle"
<1>1. use.flushes /\ ISR \notin use.put /\ use.get = {ISR} /\ IsrGet /\ count # 0
  BY DEF IsrPut, IsrGet, CountInv, Exclusive
<1>2. \A t \in Threads : pc[t] \in Labels /\ pc[t] \notin PutLabels /\ pc[t] \notin GetLabels
  BY <1>1, FifoAssumption DEF CountInv, Counted, TypeOK
<1> QED
  BY <1>1, <1>2 DEF Labels, CountInv, CountExact

LEMMA IsrCounted ==
  ASSUME CountInv, use' = use, IsrPut \/ IsrGet
  PROVE  count' <= Size /\ Counted' /\ CountExact'
<1>1. /\ count \in 0 .. Word - 1 /\ count <= Size /\ Len(got) \in Nat /\ written \in Nat
      /\ Size \in Nat /\ Size < Word /\ Word \in Nat
  BY FifoAssumption DEF CountInv, TypeOK
<1>2. IsrGet /\ count + Len(got) = written /\ \A t \in Threads : pc[t] = "idle"
  BY IsrAlone
<1>3. pc' = pc /\ count # 0 /\ written' = written /\ Len(got') = Len(got) + 1
  BY <1>2, SuccTyped DEF IsrGet, CountInv, TypeOK
<1>4. count' = count - 1
  BY <1>1, <1>2, <1>3, WordTyped DEF IsrGet
<1> QED
  BY <1>1, <1>2, <1>3, <1>4 DEF Counted, CountExact, PutLabels, GetLabels, Taking

LEMMA CountStep == CountInv /\ [Next]_vars => CountInv'
<1> SUFFICES ASSUME CountInv, [Next]_vars PROVE CountInv'
  OBVIOUS
<1>1. TypeOK' /\ use' = use /\ Exclusive'
  BY TypeStep DEF CountInv, Next, vars, Exclusive
<1>2. CASE UNCHANGED vars
  BY <1>1, <1>2 DEF CountInv, Counted, CountExact, vars, ring, locals, history
<1>3. CASE IsrPut \/ IsrGet
  BY <1>1, <1>3, IsrCounted DEF CountInv
<1>4. ASSUME NEW t \in Threads, Operation(t) PROVE CountInv'
  BY <1>1, <1>4, OperationCounted DEF CountInv
<1>5. ASSUME NEW t \in Threads, SectionEnter(t) \/ SectionExit(t) PROVE CountInv'
  BY <1>1, <1>5 DEF CountInv, Counted, CountExact, SectionEnter, SectionExit,
     ring, locals, history
<1> QED
  BY <1>2, <1>3, <1>4, <1>5 DEF Next, Thread, Operation

\* What holds in the exclusive uses, as an invariant of all of them.
LEMMA CountInvariant == Spec => [](Exclusive => CountInv)
<1>1. Init => (Exclusive => CountInv)
  BY CountInit
<1>2. (Exclusive => CountInv) /\ [Next]_vars => (Exclusive => CountInv)'
  <2>1. [Next]_vars => (Exclusive' => Exclusive)
    BY DEF Next, vars, Exclusive
  <2> QED
    BY <2>1, CountStep
<1> QED
  BY <1>1, <1>2, PTL DEF Spec

\* fifo.h: in the transmit queue as coded, shared with the interrupt that no block keeps
\* out, and in a FIFO of one thread, the counter is exact whenever no operation is under way.
THEOREM CountIsExact == Spec => []NothingLost
<1>1. (Exclusive => CountInv) => NothingLost
  BY DEF CountInv, NothingLost
<1> QED
  BY <1>1, CountInvariant, PTL

\* ... and never above the size: fifo_put never writes over an element that was not taken.
THEOREM CountIsBounded == Spec => [](Exclusive => count <= Size)
<1>1. (Exclusive => CountInv) => (Exclusive => count <= Size)
  BY DEF CountInv
<1> QED
  BY <1>1, CountInvariant, PTL

-----------------------------------------------------------------------------
(* The queue *)

SlotAt(s, i) == (s + i) % Size

LEMMA SlotFacts ==
  ASSUME NEW s \in Slots
  PROVE  /\ \A i \in 0 .. Size : SlotAt(s, i) \in Slots
         /\ SlotAt(s, 0) = s
         /\ \A i \in 0 .. Size - 1 : /\ SlotAt(Succ(s), i) = SlotAt(s, i + 1)
                                     /\ Succ(SlotAt(s, i)) = SlotAt(s, i + 1)
         /\ \A i, j \in 1 .. Size : SlotAt(s, i) = SlotAt(s, j) => i = j
<1>1. Size \in Nat /\ Size > 0 /\ Slots = 0 .. Size - 1
  BY FifoAssumption DEF Slots
<1>2. \A r \in Slots, i \in 0 .. Size :
        SlotAt(r, i) = IF r + i < Size THEN r + i ELSE r + i - Size
  BY <1>1, Around DEF SlotAt
<1>3. \A r \in Slots : Succ(r) = IF r + 1 < Size THEN r + 1 ELSE 0
  <2>1. \A r \in Slots : Succ(r) = SlotAt(r, 1) /\ 1 \in 0 .. Size
    BY <1>1 DEF Succ, SlotAt
  <2> QED
    BY <1>1, <1>2, <2>1
<1>4. \A i \in 0 .. Size : SlotAt(s, i) \in Slots
  BY <1>1, <1>2
<1>5. SlotAt(s, 0) = s
  BY <1>1, <1>2
<1>6. ASSUME NEW i \in 0 .. Size - 1 PROVE SlotAt(Succ(s), i) = SlotAt(s, i + 1)
  <2>1. SlotAt(s, i + 1) = IF s + (i + 1) < Size THEN s + (i + 1) ELSE s + (i + 1) - Size
    BY <1>1, <1>2
  <2>2. SlotAt(Succ(s), i) = IF Succ(s) + i < Size THEN Succ(s) + i ELSE Succ(s) + i - Size
    <3>1. Succ(s) \in Slots /\ i \in 0 .. Size
      BY <1>1, SuccTyped
    <3> QED
      BY <1>2, <3>1
  <2> QED
    BY <1>1, <1>3, <2>1, <2>2
<1>7. ASSUME NEW i \in 0 .. Size - 1 PROVE Succ(SlotAt(s, i)) = SlotAt(s, i + 1)
  <2>1. SlotAt(s, i + 1) = IF s + (i + 1) < Size THEN s + (i + 1) ELSE s + (i + 1) - Size
    BY <1>1, <1>2
  <2>2. SlotAt(s, i) = IF s + i < Size THEN s + i ELSE s + i - Size
    BY <1>1, <1>2
  <2>3. SlotAt(s, i) \in Slots
    BY <1>1, <1>4
  <2>4. Succ(SlotAt(s, i)) = IF SlotAt(s, i) + 1 < Size THEN SlotAt(s, i) + 1 ELSE 0
    BY <1>3, <2>3
  <2> QED
    BY <1>1, <2>1, <2>2, <2>4
<1>8. ASSUME NEW i \in 1 .. Size, NEW j \in 1 .. Size, SlotAt(s, i) = SlotAt(s, j)
      PROVE  i = j
  <2>1. SlotAt(s, i) = IF s + i < Size THEN s + i ELSE s + i - Size
    BY <1>1, <1>2
  <2>2. SlotAt(s, j) = IF s + j < Size THEN s + j ELSE s + j - Size
    BY <1>1, <1>2
  <2>3. (IF s + i < Size THEN s + i ELSE s + i - Size)
          = (IF s + j < Size THEN s + j ELSE s + j - Size)
    BY <1>8, <2>1, <2>2, Zenon
  <2> QED
    BY <1>1, <2>3
<1> QED
  BY <1>4, <1>5, <1>6, <1>7, <1>8

\* Elements are numbered in the order they are put.
UpTo(n) == [i \in 1 .. n |-> i]

LEMMA UpToFacts ==
  ASSUME NEW n \in Nat
  PROVE  /\ UpTo(n) \in Seq(Nat) /\ Len(UpTo(n)) = n
         /\ Append(UpTo(n), n + 1) = UpTo(n + 1)
         /\ \A k \in Nat : UpTo(n) \o [i \in 1 .. k |-> n + i] = UpTo(n + k)
<1>1. UpTo(n) \in Seq(Nat) /\ Len(UpTo(n)) = n
  BY DEF UpTo
<1>2. Append(UpTo(n), n + 1) = UpTo(n + 1)
  BY <1>1 DEF UpTo
<1>3. ASSUME NEW k \in Nat PROVE UpTo(n) \o [i \in 1 .. k |-> n + i] = UpTo(n + k)
  <2> DEFINE s == [i \in 1 .. k |-> n + i]
  <2>1. s \in Seq(Nat) /\ Len(s) = k
    OBVIOUS
  <2> DEFINE r == UpTo(n) \o s
  <2>2. r \in Seq(Nat) /\ Len(r) = n + k
    BY <1>1, <2>1
  <2>3. \A i \in 1 .. n + k : r[i] = i
    BY <1>1, <2>1 DEF UpTo
  <2> HIDE DEF r
  <2>4. r = UpTo(n + k)
    BY <2>2, <2>3 DEF UpTo
  <2> QED
    BY <2>4 DEF r
<1> QED
  BY <1>1, <1>2, <1>3

\* How many elements have left the queue, and how many are in it.
Taken == Len(got) + (IF Leaving = {} THEN 0 ELSE 1)
InQueue == IF Uncounted = {} THEN count ELSE count - 1

\* _end is one ahead of the count while fifo_put is inside its block.
Ahead == IF \E t \in Threads : pc[t] \in PutLabels \ {"put_end"} THEN 1 ELSE 0

\* The slots behind _start hold what was put and not taken, in order.
Contents ==
  /\ \A i \in 1 .. Len(got) : got[i] = i
  /\ \A t \in Leaving : buf[ptr[t]] = Len(got) + 1
  /\ \A i \in 1 .. InQueue : buf[SlotAt(start, i)] = Taken + i
  /\ end = SlotAt(start, InQueue + Ahead)
  /\ \A t \in Threads :
       /\ pc[t] \in PutLabels => element[t] = written
       /\ pc[t] \in {"put_load", "put_store"} => buf[end] = written

QueueInv == CountInv /\ Contents

\* What the other invariants say of these numbers.
LEMMA Numbers ==
  ASSUME CountInv
  PROVE  /\ Taken \in Nat /\ InQueue \in Nat /\ Ahead \in {0, 1}
         /\ InQueue <= Size /\ InQueue + Ahead <= Size
         /\ \A t \in Threads : pc[t] \in PutLabels => InQueue + Taken + 1 = written
         /\ (\A t \in Threads : pc[t] \notin PutLabels) => InQueue + Taken = written
<1>1. /\ count \in Nat /\ count <= Size /\ Len(got) \in Nat /\ written \in Nat
      /\ Size \in Nat
  BY FifoAssumption DEF CountInv, TypeOK
<1> USE DEF PutLabels, GetLabels, Taking
<1>2. CASE \A t \in Threads : pc[t] = "idle"
  <2>1. Leaving = {} /\ Uncounted = {} /\ Ahead = 0 /\ count + Len(got) = written
    BY <1>2 DEF Leaving, Uncounted, Ahead, CountInv, CountExact
  <2> QED
    BY <1>1, <1>2, <2>1 DEF Taken, InQueue
<1>3. ASSUME NEW t \in Threads, pc[t] # "idle" PROVE
         /\ Taken \in Nat /\ InQueue \in Nat /\ Ahead \in {0, 1}
         /\ InQueue <= Size /\ InQueue + Ahead <= Size
         /\ \A u \in Threads : pc[u] \in PutLabels => InQueue + Taken + 1 = written
         /\ (\A u \in Threads : pc[u] \notin PutLabels) => InQueue + Taken = written
  <2>1. pc[t] \in Labels
    BY DEF CountInv, TypeOK
  <2>2. t \in Callers
    BY <1>3, <2>1 DEF CountInv, Counted, Callers, Labels
  <2>3. \A u \in Threads : u # t => pc[u] = "idle"
    BY <2>2, Alone
  <2>4. /\ Leaving = IF pc[t] \in {"get_load", "get_store", "get_copy"} THEN {t} ELSE {}
        /\ Uncounted = IF pc[t] \in {"get_load", "get_store"} THEN {t} ELSE {}
        /\ Ahead = IF pc[t] \in PutLabels \ {"put_end"} THEN 1 ELSE 0
    BY <2>3 DEF Leaving, Uncounted, Ahead
  <2>5. /\ pc[t] \in PutLabels => count + Len(got) + 1 = written /\ count < Size
        /\ pc[t] \in Taking => count + Len(got) = written /\ count > 0
        /\ pc[t] = "get_copy" => count + Len(got) + 1 = written
    BY DEF CountInv, Counted
  <2>6. {t} # {}
    OBVIOUS
  <2>7. CASE pc[t] \in PutLabels
    <3>1. Leaving = {} /\ Uncounted = {} /\ Ahead \in {0, 1}
      BY <2>4, <2>7
    <3>2. Taken = Len(got) /\ InQueue = count
      BY <1>1, <3>1 DEF Taken, InQueue
    <3> QED
      BY <1>1, <2>3, <2>5, <2>7, <3>1, <3>2
  <2>8. CASE pc[t] \in {"get_load", "get_store"}
    <3>1. Leaving # {} /\ Uncounted # {} /\ Ahead = 0
      BY <2>4, <2>6, <2>8
    <3>2. Taken = Len(got) + 1 /\ InQueue = count - 1
      BY <3>1 DEF Taken, InQueue
    <3> QED
      BY <1>1, <2>3, <2>5, <2>8, <3>1, <3>2
  <2>9. CASE pc[t] = "get_copy"
    <3>1. Leaving # {} /\ Uncounted = {} /\ Ahead = 0
      BY <2>4, <2>6, <2>9
    <3>2. Taken = Len(got) + 1 /\ InQueue = count
      BY <3>1 DEF Taken, InQueue
    <3> QED
      BY <1>1, <2>3, <2>5, <2>9, <3>1, <3>2
  <2>10. CASE pc[t] = "get_wait"
    <3>1. Leaving = {} /\ Uncounted = {} /\ Ahead = 0
      BY <2>4, <2>10
    <3>2. Taken = Len(got) /\ InQueue = count
      BY <1>1, <3>1 DEF Taken, InQueue
    <3> QED
      BY <1>1, <2>3, <2>5, <2>10, <3>1, <3>2
  <2> QED
    BY <1>3, <2>1, <2>7, <2>8, <2>9, <2>10 DEF Labels
<1> QED
  BY <1>2, <1>3

\* The refinement mapping in these numbers.
LEMMA Mapped ==
  ASSUME QueueInv
  PROVE  TakenSoFar = UpTo(Taken) /\ TakenSoFar \o Queued = UpTo(Taken + InQueue)
<1>1. got \in Seq(0 .. MaxElements) /\ Len(got) \in Nat /\ Taken \in Nat /\ InQueue \in Nat
  BY Numbers DEF QueueInv, CountInv, TypeOK
<1>2. got = UpTo(Len(got))
  BY <1>1 DEF QueueInv, Contents, UpTo
<1>3. TakenSoFar = UpTo(Taken)
  <2>1. CASE Leaving = {}
    BY <1>1, <1>2, <2>1 DEF TakenSoFar, Taken
  <2>2. CASE Leaving # {}
    <3>1. buf[ptr[CHOOSE t \in Leaving : TRUE]] = Len(got) + 1
      BY <2>2 DEF QueueInv, Contents
    <3>2. TakenSoFar = Append(UpTo(Len(got)), Len(got) + 1)
      BY <1>2, <2>2, <3>1 DEF TakenSoFar
    <3> QED
      BY <1>1, <2>2, <3>2, UpToFacts DEF Taken
  <2> QED
    BY <2>1, <2>2
<1>4. Queued = [i \in 1 .. InQueue |-> Taken + i]
  <2>1. Queued = [i \in 1 .. InQueue |-> buf[SlotAt(start, i)]]
    BY DEF Queued, InQueue, SlotAt
  <2>2. \A i \in 1 .. InQueue : buf[SlotAt(start, i)] = Taken + i
    BY DEF QueueInv, Contents
  <2> QED
    BY <2>1, <2>2
<1> QED
  BY <1>1, <1>3, <1>4, UpToFacts


\* The numbers before and after a step, by the label of the only thread.
LEMMA AtLabel ==
  ASSUME NEW t \in Threads,
         \A u \in Threads : u # t => pc[u] = "idle" /\ pc'[u] = "idle"
  PROVE  /\ Leaving = IF pc[t] \in {"get_load", "get_store", "get_copy"} THEN {t} ELSE {}
         /\ Taken = IF pc[t] \in {"get_load", "get_store", "get_copy"}
                    THEN Len(got) + 1 ELSE Len(got) + 0
         /\ InQueue = IF pc[t] \in {"get_load", "get_store"} THEN count - 1 ELSE count
         /\ Ahead = IF pc[t] \in PutLabels \ {"put_end"} THEN 1 ELSE 0
         /\ Leaving' = IF pc'[t] \in {"get_load", "get_store", "get_copy"} THEN {t} ELSE {}
         /\ Taken' = IF pc'[t] \in {"get_load", "get_store", "get_copy"}
                     THEN Len(got') + 1 ELSE Len(got') + 0
         /\ InQueue' = IF pc'[t] \in {"get_load", "get_store"} THEN count' - 1 ELSE count'
         /\ Ahead' = IF pc'[t] \in PutLabels \ {"put_end"} THEN 1 ELSE 0
<1>1. {t} # {}
  OBVIOUS
<1>2. /\ Leaving = IF pc[t] \in {"get_load", "get_store", "get_copy"} THEN {t} ELSE {}
      /\ Uncounted = IF pc[t] \in {"get_load", "get_store"} THEN {t} ELSE {}
      /\ Leaving' = IF pc'[t] \in {"get_load", "get_store", "get_copy"} THEN {t} ELSE {}
      /\ Uncounted' = IF pc'[t] \in {"get_load", "get_store"} THEN {t} ELSE {}
      /\ Ahead = IF pc[t] \in PutLabels \ {"put_end"} THEN 1 ELSE 0
      /\ Ahead' = IF pc'[t] \in PutLabels \ {"put_end"} THEN 1 ELSE 0
  BY DEF Leaving, Uncounted, Ahead, PutLabels
<1>3. /\ Taken = IF pc[t] \in {"get_load", "get_store", "get_copy"}
                 THEN Len(got) + 1 ELSE Len(got) + 0
      /\ Taken' = IF pc'[t] \in {"get_load", "get_store", "get_copy"}
                  THEN Len(got') + 1 ELSE Len(got') + 0
  BY <1>1, <1>2, Zenon DEF Taken
<1>4. /\ InQueue = IF pc[t] \in {"get_load", "get_store"} THEN count - 1 ELSE count
      /\ InQueue' = IF pc'[t] \in {"get_load", "get_store"} THEN count' - 1 ELSE count'
  BY <1>1, <1>2, Zenon DEF InQueue
<1> QED
  BY <1>2, <1>3, <1>4

\* An element leaves, enters, or the queue stays.
Moves ==
  \/ Taken' = Taken /\ InQueue' = InQueue
  \/ Taken' = Taken /\ InQueue' = InQueue + 1
  \/ Taken' = Taken + 1 /\ InQueue' = InQueue - 1

LEMMA OperationContents ==
  ASSUME QueueInv, CountInv', use' = use, NEW t \in Threads, Operation(t)
  PROVE  Contents' /\ Moves
<1>1. \A u \in Threads : u # t => pc[u] = "idle" /\ pc'[u] = "idle"
  BY OperationBy DEF QueueInv
<1>2. /\ start \in Slots /\ end \in Slots /\ count \in Nat /\ count <= Size
      /\ buf \in [Slots -> 0 .. MaxElements]
      /\ got \in Seq(0 .. MaxElements) /\ Len(got) \in Nat /\ written \in Nat
      /\ pc \in [Threads -> Labels] /\ element \in [Threads -> 0 .. MaxElements]
      /\ ptr \in [Threads -> Slots]
      /\ Size \in Nat /\ Size > 0
  <2>1. TypeOK /\ count <= Size
    BY DEF QueueInv, CountInv
  <2>2. /\ start \in Slots /\ end \in Slots /\ buf \in [Slots -> 0 .. MaxElements]
        /\ got \in Seq(0 .. MaxElements)
        /\ pc \in [Threads -> Labels] /\ element \in [Threads -> 0 .. MaxElements]
        /\ ptr \in [Threads -> Slots]
    BY <2>1, Zenon DEF TypeOK
  <2>3. count \in Nat /\ written \in Nat
    BY <2>1, FifoAssumption DEF TypeOK
  <2> QED
    BY <2>1, <2>2, <2>3, FifoAssumption
<1>3. /\ Taken \in Nat /\ InQueue \in Nat /\ InQueue <= Size /\ InQueue + Ahead <= Size
      /\ pc[t] \in PutLabels => InQueue + Taken + 1 = written
  BY Numbers DEF QueueInv
<1>4. \A s \in Labels : Goto(t, s) => pc'[t] = s
  BY <1>2 DEF Goto
<1>5. /\ \A i \in 1 .. Len(got) : got[i] = i
      /\ t \in Leaving => buf[ptr[t]] = Len(got) + 1
      /\ \A i \in 1 .. InQueue : buf[SlotAt(start, i)] = Taken + i
      /\ end = SlotAt(start, InQueue + Ahead)
      /\ pc[t] \in PutLabels => element[t] = written
      /\ pc[t] \in {"put_load", "put_store"} => buf[end] = written
  BY DEF QueueInv, Contents
<1>6. SUFFICES
      /\ \A i \in 1 .. Len(got') : got'[i] = i
      /\ t \in Leaving' => buf'[ptr'[t]] = Len(got') + 1
      /\ \A i \in 1 .. InQueue' : buf'[SlotAt(start', i)] = Taken' + i
      /\ end' = SlotAt(start', InQueue' + Ahead')
      /\ pc'[t] \in PutLabels => element'[t] = written'
      /\ pc'[t] \in {"put_load", "put_store"} => buf'[end'] = written'
      /\ Moves
  <2>1. \A u \in Leaving' : u = t
    BY <1>1 DEF Leaving
  <2>2. \A u \in Threads : u # t => pc'[u] \notin PutLabels
    BY <1>1 DEF PutLabels
  <2>3. \A u \in Threads : u # t => pc'[u] \notin {"put_load", "put_store"}
    BY <1>1
  <2> QED
    BY <1>6, <2>1, <2>2, <2>3 DEF Contents, SlotAt
<1> USE DEF At, PutLabels, GetLabels, Labels
<1>7. ASSUME ring' = ring, got' = got, ptr' = ptr, Taken' = Taken, InQueue' = InQueue,
             Ahead' = Ahead, t \in Leaving' => t \in Leaving,
             pc'[t] \in PutLabels => element'[t] = written',
             pc'[t] \in {"put_load", "put_store"} => buf[end] = written'
      PROVE  /\ \A i \in 1 .. Len(got') : got'[i] = i
             /\ t \in Leaving' => buf'[ptr'[t]] = Len(got') + 1
             /\ \A i \in 1 .. InQueue' : buf'[SlotAt(start', i)] = Taken' + i
             /\ end' = SlotAt(start', InQueue' + Ahead')
             /\ pc'[t] \in PutLabels => element'[t] = written'
             /\ pc'[t] \in {"put_load", "put_store"} => buf'[end'] = written'
             /\ Moves
  <2>1. start' = start /\ end' = end /\ buf' = buf
    BY <1>7 DEF ring
  <2>2. Moves
    BY <1>7 DEF Moves
  <2>3. \A i \in 1 .. InQueue' : buf'[SlotAt(start', i)] = Taken' + i
    BY <1>5, <1>7, <2>1
  <2>4. end' = SlotAt(start', InQueue' + Ahead')
    BY <1>5, <1>7, <2>1
  <2> QED
    BY <1>5, <1>7, <2>1, <2>2, <2>3, <2>4
<1>8. CASE PutCheck(t)
  <2>1. pc[t] = "idle" /\ pc'[t] = "put_end" /\ ring' = ring /\ got' = got /\ ptr' = ptr
        /\ count' = count
    BY <1>4, <1>8 DEF PutCheck, ring
  <2>2. element'[t] = written'
    BY <1>2, <1>8 DEF PutCheck
  <2>3. Taken' = Taken /\ InQueue' = InQueue /\ Ahead' = Ahead /\ ~(t \in Leaving')
    BY <1>1, <2>1, AtLabel
  <2> QED
    BY <1>7, <2>1, <2>2, <2>3
<1>9. CASE PutEnd(t)
  <2>1. /\ pc[t] = "put_end" /\ pc'[t] = "put_copy" /\ got' = got /\ ptr' = ptr
        /\ count' = count /\ start' = start /\ buf' = buf /\ end' = Succ(end)
        /\ element' = element /\ written' = written
    BY <1>4, <1>9 DEF PutEnd, locals, history
  <2>2. Taken' = Taken /\ InQueue' = InQueue /\ Ahead = 0 /\ Ahead' = 1 /\ ~(t \in Leaving')
    BY <1>1, <2>1, AtLabel
  <2>3. InQueue + 1 <= Size
    <3>1. pc[t] \in PutLabels => count < Size
      BY DEF QueueInv, CountInv, Counted
    <3>2. InQueue = count
      BY <1>1, <2>1, AtLabel
    <3> QED
      BY <1>2, <2>1, <3>1, <3>2
  <2>4. end = SlotAt(start, InQueue)
    BY <1>3, <1>5, <2>2
  <2>5. end' = SlotAt(start, InQueue + 1)
    BY <1>2, <1>3, <2>1, <2>3, <2>4, SlotFacts
  <2>6. Moves
    BY <2>2 DEF Moves
  <2> QED
    BY <1>5, <2>1, <2>2, <2>5, <2>6
<1>10. CASE PutCopy(t)
  <2>1. /\ pc[t] = "put_copy" /\ pc'[t] = "put_load" /\ got' = got /\ ptr' = ptr
        /\ count' = count /\ start' = start /\ end' = end
        /\ element' = element /\ written' = written
        /\ buf' = [buf EXCEPT ![end] = element[t]]
    BY <1>4, <1>10 DEF PutCopy, locals, history
  <2>2. Taken' = Taken /\ InQueue' = InQueue /\ Ahead = 1 /\ Ahead' = 1 /\ ~(t \in Leaving')
    BY <1>1, <2>1, AtLabel
  <2>3. InQueue + 1 <= Size /\ end = SlotAt(start, InQueue + 1)
    BY <1>3, <1>5, <2>2
  <2>4. \A i \in 1 .. InQueue : SlotAt(start, i) \in Slots /\ SlotAt(start, i) # end
    <3>1. ASSUME NEW i \in 1 .. InQueue
          PROVE  SlotAt(start, i) \in Slots /\ SlotAt(start, i) # end
      <4>1. i \in 1 .. Size /\ i \in 0 .. Size /\ InQueue + 1 \in 1 .. Size /\ i # InQueue + 1
        BY <1>2, <1>3, <2>3
      <4> QED
        BY <1>2, <2>3, <4>1, SlotFacts
    <3> QED
      BY <3>1
  <2>5. \A i \in 1 .. InQueue : buf'[SlotAt(start, i)] = buf[SlotAt(start, i)]
    BY <1>2, <2>1, <2>4
  <2>6. buf'[end] = written
    BY <1>2, <1>5, <2>1
  <2>7. Moves
    BY <2>2 DEF Moves
  <2> QED
    BY <1>5, <2>1, <2>2, <2>5, <2>6, <2>7
<1>11. CASE PutLoad(t)
  <2>1. /\ pc[t] = "put_load" /\ pc'[t] = "put_store" /\ ring' = ring /\ got' = got /\ ptr' = ptr
        /\ count' = count /\ element' = element /\ written' = written
    BY <1>4, <1>11 DEF PutLoad, ring, history
  <2>2. Taken' = Taken /\ InQueue' = InQueue /\ Ahead' = Ahead /\ ~(t \in Leaving')
    BY <1>1, <2>1, AtLabel
  <2> QED
    BY <1>5, <1>7, <2>1, <2>2
<1>12. CASE PutStore(t)
  <2>1. /\ pc[t] = "put_store" /\ pc'[t] = "idle" /\ got' = got
        /\ start' = start /\ end' = end /\ buf' = buf
        /\ count' = (reg[t] + 1) % Word
    BY <1>4, <1>12 DEF PutStore, locals, history
  <2>2. reg[t] = count /\ count < Size
    BY <2>1 DEF QueueInv, CountInv, Counted
  <2>3. count' = count + 1
    <3>1. count \in 0 .. Word - 1 /\ count + 1 < Word
      BY <1>2, <2>2, FifoAssumption
    <3> QED
      BY <2>1, <2>2, <3>1, WordTyped
  <2>4. /\ Taken' = Taken /\ InQueue' = InQueue + 1 /\ Ahead = 1 /\ Ahead' = 0
        /\ ~(t \in Leaving')
    BY <1>1, <2>1, <2>3, AtLabel
  <2>5. end = SlotAt(start, InQueue + 1) /\ buf[end] = Taken + (InQueue + 1)
    BY <1>3, <1>5, <2>1, <2>4
  <2>6. end' = SlotAt(start', InQueue' + Ahead')
    BY <1>3, <2>1, <2>4, <2>5
  <2>7. \A i \in 1 .. InQueue + 1 : buf[SlotAt(start, i)] = Taken + i
    BY <1>3, <1>5, <2>5
  <2>8. Moves
    BY <2>4 DEF Moves
  <2> QED
    BY <1>5, <2>1, <2>4, <2>6, <2>7, <2>8
<1>13. CASE GetCheck(t)
  <2>1. /\ pc[t] = "idle" /\ pc'[t] = "get_wait" /\ ring' = ring /\ got' = got /\ ptr' = ptr
        /\ count' = count
    BY <1>4, <1>13 DEF GetCheck, ring, history, locals
  <2>2. Taken' = Taken /\ InQueue' = InQueue /\ Ahead' = Ahead /\ ~(t \in Leaving')
    BY <1>1, <2>1, AtLabel
  <2> QED
    BY <1>7, <2>1, <2>2
<1>14. CASE GetStart(t)
  <2>1. /\ pc[t] = "get_wait" /\ pc'[t] = "get_load" /\ got' = got /\ count' = count
        /\ start' = Succ(start) /\ end' = end /\ buf' = buf /\ ptr'[t] = Succ(start)
        /\ count > 0
    BY <1>2, <1>4, <1>14 DEF GetStart, history
  <2>2. /\ Taken' = Taken + 1 /\ Taken = Len(got) /\ InQueue' = InQueue - 1 /\ InQueue > 0
        /\ Ahead = 0 /\ Ahead' = 0
    <3>1. /\ Taken = Len(got) + 0 /\ Taken' = Len(got') + 1
          /\ InQueue = count /\ InQueue' = count' - 1 /\ Ahead = 0 /\ Ahead' = 0
      BY <1>1, <2>1, AtLabel
    <3> QED
      BY <1>2, <2>1, <3>1
  <2>3. \A i \in 0 .. Size - 1 : SlotAt(start', i) = SlotAt(start, i + 1)
    BY <1>2, <2>1, SlotFacts
  <2>4. ptr'[t] = SlotAt(start, 1)
    <3>1. 0 \in 0 .. Size - 1 /\ Succ(SlotAt(start, 0)) = SlotAt(start, 0 + 1)
      BY <1>2, <1>3, <2>2, SlotFacts
    <3>2. SlotAt(start, 0) = start
      BY <1>2, SlotFacts
    <3> QED
      BY <2>1, <3>1, <3>2
  <2>5. buf'[ptr'[t]] = Len(got') + 1
    BY <1>3, <1>5, <2>1, <2>2, <2>4
  <2>6. ASSUME NEW i \in 1 .. InQueue' PROVE buf'[SlotAt(start', i)] = Taken' + i
    <3>1. i \in 0 .. Size - 1 /\ i + 1 \in 1 .. InQueue
      BY <1>2, <1>3, <2>2
    <3>2. buf[SlotAt(start, i + 1)] = Taken + (i + 1)
      BY <1>5, <3>1
    <3>3. SlotAt(start', i) = SlotAt(start, i + 1)
      BY <2>3, <3>1
    <3>4. buf'[SlotAt(start', i)] = Taken + (i + 1)
      BY <2>1, <3>2, <3>3
    <3> QED
      BY <1>3, <2>2, <3>1, <3>4
  <2>7. end' = SlotAt(start', InQueue' + Ahead')
    <3>1. InQueue - 1 \in 0 .. Size - 1 /\ InQueue + Ahead = (InQueue - 1) + 1
          /\ InQueue' + Ahead' = InQueue - 1
      BY <1>2, <1>3, <2>2
    <3>2. SlotAt(start', InQueue - 1) = SlotAt(start, (InQueue - 1) + 1)
      BY <2>3, <3>1
    <3>3. end = SlotAt(start, (InQueue - 1) + 1)
      BY <1>5, <3>1
    <3>4. end' = SlotAt(start', InQueue - 1)
      BY <2>1, <3>2, <3>3
    <3> QED
      BY <3>1, <3>4
  <2>8. Moves
    BY <2>2 DEF Moves
  <2> QED
    BY <1>5, <2>1, <2>5, <2>6, <2>7, <2>8
<1>15. CASE GetLoad(t)
  <2>1. /\ pc[t] = "get_load" /\ pc'[t] = "get_store" /\ ring' = ring /\ got' = got /\ ptr' = ptr
        /\ count' = count
    BY <1>4, <1>15 DEF GetLoad, ring, history
  <2>2. Taken' = Taken /\ InQueue' = InQueue /\ Ahead' = Ahead /\ t \in Leaving
    BY <1>1, <2>1, AtLabel
  <2> QED
    BY <1>7, <2>1, <2>2
<1>16. CASE GetStore(t)
  <2>1. /\ pc[t] = "get_store" /\ pc'[t] = "get_copy" /\ got' = got /\ ptr' = ptr
        /\ start' = start /\ end' = end /\ buf' = buf
        /\ count' = (reg[t] + Word - 1) % Word
    BY <1>4, <1>16 DEF GetStore, history, locals
  <2>2. reg[t] = count /\ count > 0
    BY <2>1 DEF QueueInv, CountInv, Counted, Taking
  <2>3. count' = count - 1
    BY <1>2, <2>1, <2>2, WordTyped, FifoAssumption
  <2>4. Taken' = Taken /\ InQueue' = InQueue /\ Ahead' = Ahead /\ t \in Leaving
    BY <1>1, <2>1, <2>3, AtLabel
  <2>5. Moves
    BY <2>4 DEF Moves
  <2> QED
    BY <1>5, <2>1, <2>4, <2>5
<1>17. CASE GetCopy(t)
  <2>1. /\ pc[t] = "get_copy" /\ pc'[t] = "idle" /\ got' = Append(got, buf[ptr[t]])
        /\ start' = start /\ end' = end /\ buf' = buf /\ count' = count
    BY <1>4, <1>17 DEF GetCopy, ring
  <2>2. t \in Leaving /\ ~(t \in Leaving') /\ buf[ptr[t]] = Len(got) + 1
    BY <1>1, <1>5, <2>1, AtLabel
  <2>3. Len(got') = Len(got) + 1 /\ \A i \in 1 .. Len(got') : got'[i] = i
    BY <1>2, <1>5, <2>1, <2>2
  <2>4. Taken = Len(got) + 1 /\ Taken' = Len(got') + 0 /\ InQueue' = InQueue /\ Ahead' = Ahead
    BY <1>1, <2>1, AtLabel
  <2>5. Taken' = Taken
    BY <1>2, <2>3, <2>4
  <2>6. Moves
    BY <2>4, <2>5 DEF Moves
  <2> QED
    BY <1>5, <2>1, <2>2, <2>3, <2>4, <2>5, <2>6
<1> QED
  BY <1>8, <1>9, <1>10, <1>11, <1>12, <1>13, <1>14, <1>15, <1>16, <1>17 DEF Operation

LEMMA IsrContents ==
  ASSUME QueueInv, CountInv', use' = use, IsrPut \/ IsrGet
  PROVE  Contents' /\ Moves
<1>1. /\ start \in Slots /\ end \in Slots /\ count \in Nat /\ count <= Size
      /\ buf \in [Slots -> 0 .. MaxElements]
      /\ got \in Seq(0 .. MaxElements) /\ Len(got) \in Nat
      /\ Size \in Nat /\ Size > 0 /\ Size < Word
      /\ \A t \in Threads : pc[t] \in Labels
  <2>1. TypeOK /\ count <= Size
    BY DEF QueueInv, CountInv
  <2>2. /\ start \in Slots /\ end \in Slots /\ buf \in [Slots -> 0 .. MaxElements]
        /\ got \in Seq(0 .. MaxElements) /\ \A t \in Threads : pc[t] \in Labels
    BY <2>1 DEF TypeOK
  <2>3. count \in Nat
    BY <2>1, FifoAssumption DEF TypeOK
  <2> QED
    BY <2>1, <2>2, <2>3, FifoAssumption
<1>2. pc' = pc /\ element' = element /\ ptr' = ptr /\ written' = written
  BY IsrAlone DEF IsrGet, locals, QueueInv
<1>3. IsrGet /\ \A t \in Threads : pc[t] = "idle"
  BY IsrAlone DEF QueueInv
<1>4. /\ Taken = Len(got) /\ Taken' = Len(got')
      /\ InQueue = count /\ InQueue' = count'
      /\ Ahead = 0 /\ Ahead' = 0
      /\ Leaving = {} /\ Leaving' = {}
  <2>1. Leaving = {} /\ Leaving' = {} /\ Uncounted = {} /\ Uncounted' = {}
    BY <1>2, <1>3 DEF Leaving, Uncounted
  <2>2. Ahead = 0 /\ Ahead' = 0
    BY <1>2, <1>3 DEF Ahead, PutLabels
  <2>3. Len(got') \in Nat
    BY DEF CountInv, TypeOK
  <2>4. Taken = Len(got) + 0 /\ Taken' = Len(got') + 0
    BY <2>1, Zenon DEF Taken
  <2>5. InQueue = count /\ InQueue' = count'
    BY <2>1 DEF InQueue
  <2> QED
    BY <1>1, <2>1, <2>2, <2>3, <2>4, <2>5
<1>5. /\ \A i \in 1 .. Len(got) : got[i] = i
      /\ \A i \in 1 .. count : buf[SlotAt(start, i)] = Len(got) + i
      /\ end = SlotAt(start, count)
  <2>1. \A i \in 1 .. InQueue : buf[SlotAt(start, i)] = Taken + i
    BY DEF QueueInv, Contents
  <2>2. end = SlotAt(start, InQueue + Ahead)
    BY DEF QueueInv, Contents
  <2>3. end = SlotAt(start, count)
    BY <1>1, <1>4, <2>2
  <2> QED
    BY <1>4, <2>1, <2>3 DEF QueueInv, Contents
<1>6. SUFFICES
      /\ \A i \in 1 .. Len(got') : got'[i] = i
      /\ \A i \in 1 .. count' : buf'[SlotAt(start', i)] = Len(got') + i
      /\ end' = SlotAt(start', count')
      /\ Moves
  <2>1. count' \in Nat
    BY FifoAssumption DEF CountInv, TypeOK
  <2>2. end' = SlotAt(start', InQueue' + Ahead')
    BY <1>4, <1>6, <2>1
  <2>3. \A i \in 1 .. InQueue' : buf'[SlotAt(start', i)] = Taken' + i
    BY <1>4, <1>6
  <2>4. \A t \in Threads : pc[t] \notin {"put_load", "put_store"} \cup PutLabels
    BY <1>3 DEF PutLabels
  <2> QED
    BY <1>2, <1>4, <1>6, <2>2, <2>3, <2>4 DEF Contents, SlotAt
<1>7. /\ start' = Succ(start) /\ got' = Append(got, buf[Succ(start)]) /\ written' = written
      /\ count > 0 /\ end' = end /\ buf' = buf
  BY <1>1, <1>3 DEF IsrGet
<1>8. count' = count - 1
  <2>1. count \in 0 .. Word - 1 /\ count > 0 /\ count' = (count + Word - 1) % Word
    BY <1>1, <1>3, <1>7, FifoAssumption DEF IsrGet
  <2> QED
    BY <2>1, WordTyped
<1>9. \A i \in 0 .. Size - 1 : SlotAt(start', i) = SlotAt(start, i + 1)
  BY <1>1, <1>7, SlotFacts
<1>10. buf[Succ(start)] = Len(got) + 1
  <2>1. 0 \in 0 .. Size - 1 /\ Succ(SlotAt(start, 0)) = SlotAt(start, 0 + 1)
        /\ SlotAt(start, 0) = start /\ 0 + 1 = 1
    BY <1>1, SlotFacts
  <2>2. Succ(start) = SlotAt(start, 1)
    BY <2>1
  <2>3. 1 \in 1 .. count
    BY <1>1, <1>7
  <2> QED
    BY <1>5, <2>2, <2>3
<1>11. Len(got') = Len(got) + 1 /\ \A i \in 1 .. Len(got') : got'[i] = i
  <2>1. buf[Succ(start)] \in 0 .. MaxElements
    BY <1>1, SuccTyped
  <2> QED
    BY <1>1, <1>5, <1>7, <1>10, <2>1
<1>12. ASSUME NEW i \in 1 .. count' PROVE buf'[SlotAt(start', i)] = Len(got') + i
  <2>1. i \in 0 .. Size - 1 /\ i + 1 \in 1 .. count
    BY <1>1, <1>8
  <2>2. buf'[SlotAt(start', i)] = Len(got) + (i + 1)
    BY <1>5, <1>7, <1>9, <2>1
  <2> QED
    BY <1>1, <1>11, <2>1, <2>2
<1>13. end' = SlotAt(start', count')
  <2>1. count - 1 \in 0 .. Size - 1 /\ (count - 1) + 1 = count
    BY <1>1, <1>7
  <2>2. SlotAt(start', count - 1) = SlotAt(start, (count - 1) + 1)
    BY <1>9, <2>1
  <2> QED
    BY <1>5, <1>7, <1>8, <2>1, <2>2
<1>14. Moves
  BY <1>4, <1>8, <1>11 DEF Moves
<1> QED
  BY <1>5, <1>7, <1>11, <1>12, <1>13, <1>14

LEMMA QueueInit == Init /\ Exclusive => QueueInv
<1> SUFFICES ASSUME Init, Exclusive PROVE QueueInv
  OBVIOUS
<1>1. CountInv /\ 0 \in Slots /\ Size \in Nat
  BY CountInit, FifoAssumption DEF Slots
<1>2. \A t \in Threads : pc[t] = "idle"
  BY DEF Init
<1>3. Leaving = {} /\ Uncounted = {} /\ Ahead = 0
  BY <1>2 DEF Leaving, Uncounted, Ahead, PutLabels
<1>4. Len(got) = 0 /\ InQueue = 0
  BY <1>3 DEF Init, InQueue
<1>5. end = SlotAt(start, InQueue + Ahead)
  BY <1>1, <1>3, <1>4, SlotFacts DEF Init
<1> QED
  BY <1>1, <1>2, <1>3, <1>4, <1>5 DEF QueueInv, Contents, PutLabels

LEMMA QueueStep == QueueInv /\ [Next]_vars => QueueInv' /\ Moves
<1> SUFFICES ASSUME QueueInv, [Next]_vars PROVE Contents' /\ Moves
  BY CountStep DEF QueueInv
<1>1. CountInv' /\ use' = use
  BY CountStep DEF QueueInv, Next, vars
<1>2. CASE UNCHANGED vars
  <2>1. Taken' = Taken /\ InQueue' = InQueue /\ Ahead' = Ahead /\ Leaving' = Leaving
    BY <1>2 DEF Taken, InQueue, Ahead, Leaving, Uncounted, vars, ring, locals, history
  <2>2. UNCHANGED <<got, buf, ptr, start, end, element, written, pc>>
    BY <1>2 DEF vars, ring, locals, history
  <2>3. Contents'
    BY <2>1, <2>2 DEF QueueInv, Contents, SlotAt
  <2> QED
    BY <2>1, <2>3 DEF Moves
<1>3. CASE IsrPut \/ IsrGet
  BY <1>1, <1>3, IsrContents
<1>4. ASSUME NEW t \in Threads, Operation(t) PROVE Contents' /\ Moves
  BY <1>1, <1>4, OperationContents
<1>5. ASSUME NEW t \in Threads, SectionEnter(t) \/ SectionExit(t) PROVE Contents' /\ Moves
  <2>1. UNCHANGED <<got, buf, ptr, start, end, count, element, written, pc>>
    BY <1>5 DEF SectionEnter, SectionExit, ring, locals, history
  <2>2. Taken' = Taken /\ InQueue' = InQueue /\ Ahead' = Ahead /\ Leaving' = Leaving
    BY <2>1 DEF Taken, InQueue, Ahead, Leaving, Uncounted
  <2>3. Contents'
    BY <2>1, <2>2 DEF QueueInv, Contents, SlotAt
  <2> QED
    BY <2>2, <2>3 DEF Moves
<1> QED
  BY <1>2, <1>3, <1>4, <1>5 DEF Next, Thread, Operation

\* What holds of the numbers and of the mapping holds after a step too.
LEMMA MappedNext ==
  QueueInv' => /\ (TakenSoFar = UpTo(Taken) /\ TakenSoFar \o Queued = UpTo(Taken + InQueue))'
                      /\ (Taken \in Nat /\ InQueue \in Nat /\ InQueue <= Size
                          /\ Taken + InQueue <= MaxElements)'
<1>1. QueueInv => /\ TakenSoFar = UpTo(Taken) /\ TakenSoFar \o Queued = UpTo(Taken + InQueue)
                  /\ Taken \in Nat /\ InQueue \in Nat /\ InQueue <= Size
                  /\ Taken + InQueue <= MaxElements
  <2> SUFFICES ASSUME QueueInv
               PROVE  /\ TakenSoFar = UpTo(Taken) /\ TakenSoFar \o Queued = UpTo(Taken + InQueue)
                      /\ Taken \in Nat /\ InQueue \in Nat /\ InQueue <= Size
                      /\ Taken + InQueue <= MaxElements
    OBVIOUS
  <2>1. TakenSoFar = UpTo(Taken) /\ TakenSoFar \o Queued = UpTo(Taken + InQueue)
    BY Mapped
  <2>2. /\ Taken \in Nat /\ InQueue \in Nat /\ InQueue <= Size
        /\ \A t \in Threads : pc[t] \in PutLabels => InQueue + Taken + 1 = written
        /\ (\A t \in Threads : pc[t] \notin PutLabels) => InQueue + Taken = written
    BY Numbers DEF QueueInv
  <2>3. written <= MaxElements /\ written \in Nat /\ MaxElements \in Nat
    BY FifoAssumption DEF QueueInv, CountInv, TypeOK
  <2> QED
    BY <2>1, <2>2, <2>3
<1> QED
  BY <1>1, PTL

LEMMA ExclusiveStays == [Next]_vars => (Exclusive' <=> Exclusive)
BY DEF Next, vars, Exclusive

LEMMA AbstractInit == Init => AbstractQueue!Init
<1> SUFFICES ASSUME Init PROVE AbstractQueue!Init
  OBVIOUS
<1>1. Leaving = {} /\ Uncounted = {} /\ got = <<>> /\ count = 0
  BY DEF Init, Leaving, Uncounted
<1>2. TakenSoFar = <<>> /\ Queued = <<>>
  BY <1>1 DEF TakenSoFar, Queued
<1> QED
  BY <1>2 DEF AbstractQueue!Init

LEMMA AbstractStep ==
  (Exclusive => QueueInv) /\ [Next]_vars
    => [AbstractQueue!Next]_<<IF Exclusive THEN TakenSoFar \o Queued ELSE <<>>,
                              IF Exclusive THEN TakenSoFar ELSE <<>> >>
<1> DEFINE put == IF Exclusive THEN TakenSoFar \o Queued ELSE <<>>
           taken == IF Exclusive THEN TakenSoFar ELSE <<>>
<1> SUFFICES ASSUME Exclusive => QueueInv, [Next]_vars
             PROVE  [AbstractQueue!Next]_<<put, taken>>
  OBVIOUS
<1>1. Exclusive' <=> Exclusive
  BY ExclusiveStays
<1>2. CASE ~Exclusive
  BY <1>1, <1>2
<1>3. ASSUME Exclusive PROVE [AbstractQueue!Next]_<<put, taken>>
  <2> DEFINE T == Taken
             n == InQueue
  <2>1. Moves /\ QueueInv' /\ QueueInv
    BY <1>3, QueueStep
  <2>2. /\ taken = UpTo(T) /\ put = UpTo(T + n)
        /\ T \in Nat /\ n \in Nat /\ n <= Size
    BY <1>3, <2>1, Mapped, Numbers DEF QueueInv
  <2>3. /\ taken' = UpTo(Taken') /\ put' = UpTo(Taken' + InQueue')
        /\ Taken' \in Nat /\ InQueue' \in Nat /\ InQueue' <= Size
        /\ Taken' + InQueue' <= MaxElements
    BY <1>1, <1>3, <2>1, MappedNext
  <2>4. /\ Len(UpTo(T)) = T /\ Len(UpTo(T + n)) = T + n
        /\ Append(UpTo(T), T + 1) = UpTo(T + 1)
        /\ Append(UpTo(T + n), (T + n) + 1) = UpTo((T + n) + 1)
    <3>1. T + n \in Nat
      BY <2>2
    <3> QED
      BY <2>2, <3>1, UpToFacts
  <2>5. AbstractQueue!Length = n
    <3>1. Len(put) = T + n /\ Len(taken) = T
      BY <2>2, <2>4
    <3> QED
      BY <2>2, <3>1 DEF AbstractQueue!Length
  <2> HIDE DEF put, taken
  <2>6. CASE Taken' = Taken /\ InQueue' = InQueue
    BY <2>2, <2>3, <2>6
  <2>7. CASE Taken' = Taken /\ InQueue' = InQueue + 1
    <3>1. T + n + 1 \in Elements /\ n < Size
      BY <2>2, <2>3, <2>7, FifoAssumption DEF Elements
    <3>2. \A i \in DOMAIN put : put[i] # T + n + 1
      <4>1. DOMAIN UpTo(T + n) = 1 .. T + n /\ \A i \in 1 .. T + n : UpTo(T + n)[i] = i
        BY DEF UpTo
      <4>2. \A i \in 1 .. T + n : i # T + n + 1
        BY <2>2
      <4> QED
        BY <2>2, <4>1, <4>2
    <3>3. put' = Append(put, T + n + 1)
      <4>1. Taken' + InQueue' = (T + n) + 1
        BY <2>2, <2>7
      <4> QED
        BY <2>2, <2>3, <2>4, <4>1
    <3>4. taken' = taken
      BY <2>2, <2>3, <2>7
    <3>5. AbstractQueue!Put(T + n + 1)
      BY <2>5, <3>1, <3>2, <3>3, <3>4 DEF AbstractQueue!Put, put, taken
    <3> QED
      BY <3>1, <3>5 DEF AbstractQueue!Next
  <2>8. CASE Taken' = Taken + 1 /\ InQueue' = InQueue - 1
    <3>1. n > 0 /\ Taken' + InQueue' = T + n
      BY <2>2, <2>3, <2>8
    <3>2. put' = put
      BY <2>2, <2>3, <3>1
    <3>3. put[Len(taken) + 1] = T + 1
      <4>1. T + 1 \in 1 .. T + n
        BY <2>2, <3>1
      <4>2. UpTo(T + n)[T + 1] = T + 1
        BY <4>1 DEF UpTo
      <4> QED
        BY <2>2, <2>4, <4>2
    <3>4. taken' = Append(taken, T + 1)
      BY <2>2, <2>3, <2>4, <2>8
    <3>5. AbstractQueue!Get
      BY <2>5, <3>1, <3>2, <3>3, <3>4 DEF AbstractQueue!Get, put, taken
    <3> QED
      BY <3>5 DEF AbstractQueue!Next
  <2> QED
    BY <2>1, <2>6, <2>7, <2>8 DEF Moves
<1> QED
  BY <1>2, <1>3

\* fifo.h: used that way the ring is a queue, of any size and for any number of elements:
\* each is taken once, in the order they were put.
THEOREM RingIsQueue == Spec => ImplementsQueue
<1>1. Init => (Exclusive => QueueInv) /\ AbstractQueue!Init
  BY QueueInit, AbstractInit
<1>2. (Exclusive => QueueInv) /\ [Next]_vars
        => /\ (Exclusive => QueueInv)'
           /\ [AbstractQueue!Next]_<<IF Exclusive THEN TakenSoFar \o Queued ELSE <<>>,
                                     IF Exclusive THEN TakenSoFar ELSE <<>> >>
  BY QueueStep, AbstractStep, ExclusiveStays
<1> QED
  BY <1>1, <1>2, PTL DEF Spec, ImplementsQueue, AbstractQueue!Spec

-----------------------------------------------------------------------------
(* The receive FIFO as coded *)

\* The quotient and the remainder of a number determine it and are determined by it.
LEMMA NextSlot ==
  ASSUME NEW n \in Nat
  PROVE  Succ(n % Size) = (n + 1) % Size
<1> DEFINE q == n \div Size
           r == n % Size
<1>1. Size \in Nat /\ Size > 0
  BY FifoAssumption
<1>2. q \in Nat /\ r \in 0 .. Size - 1 /\ n = Size * q + r
  BY <1>1
<1>3. Succ(n % Size) = IF r + 1 < Size THEN r + 1 ELSE 0
  BY <1>1, <1>2, Around DEF Succ
<1> HIDE DEF q, r
<1>4. \A m, k, s \in Nat : s < Size /\ m = Size * k + s => m % Size = s
  BY <1>1
<1>5. CASE r + 1 < Size
  <2>1. n + 1 = Size * q + (r + 1)
    BY <1>1, <1>2
  <2> QED
    BY <1>1, <1>2, <1>3, <1>4, <1>5, <2>1
<1>6. CASE r + 1 = Size
  <2>1. n + 1 = Size * (q + 1) + 0
    BY <1>1, <1>2, <1>6
  <2> QED
    BY <1>1, <1>2, <1>3, <1>4, <1>6, <2>1
<1> QED
  BY <1>1, <1>2, <1>5, <1>6

\* What is in the queue and what was taken were put; a slot holds the element of its
\* number or a later one, which overwrote it; fifo_get holds on to the slot it took.
RecvInv ==
  /\ TypeOK /\ Receiving
  /\ count <= Size
  /\ InQueue + Taken <= written
  /\ start = Taken % Size /\ end = written % Size
  /\ \A i \in 1 .. written : buf[i % Size] \in i .. written
  /\ \A i \in 1 .. Len(got) : got[i] \in i .. written
  /\ \A t \in Threads :
       /\ pc[t] # "idle" => t \in use.get /\ pc[t] \in GetLabels
       /\ pc[t] \in Taking => count > 0
       /\ pc[t] = "get_store" => reg[t] \in 1 .. count
       /\ t \in Leaving => ptr[t] = Taken % Size

LEMMA RecvInit == Init /\ Receiving => RecvInv
<1> SUFFICES ASSUME Init, Receiving PROVE RecvInv
  OBVIOUS
<1>1. TypeOK /\ \A t \in Threads : pc[t] = "idle"
  BY TypeInit DEF Init
<1>2. Leaving = {} /\ Uncounted = {}
  BY <1>1 DEF Leaving, Uncounted
<1>3. Len(got) = 0 /\ count = 0 /\ written = 0 /\ start = 0 /\ end = 0
  BY DEF Init
<1>4. Taken = 0 /\ InQueue = 0
  BY <1>2, <1>3 DEF Taken, InQueue
<1>5. 0 % Size = 0 /\ 0 <= Size
  BY FifoAssumption
<1> QED
  BY <1>1, <1>2, <1>3, <1>4, <1>5 DEF RecvInv, Taking

\* The one reader: the others stay outside.
LEMMA ReaderAlone ==
  ASSUME RecvInv, NEW t \in Threads, Operation(t)
  PROVE  /\ t \in use.get
         /\ GetCheck(t) \/ GetStart(t) \/ GetLoad(t) \/ GetStore(t) \/ GetCopy(t)
         /\ \A u \in Threads : u # t => pc[u] = "idle" /\ pc'[u] = "idle"
<1> USE DEF At, GetLabels
<1>1. t \notin use.put /\ \A u \in Threads \cap use.get : u = t \/ t \notin use.get
  BY FifoAssumption DEF RecvInv, Receiving
<1>2. /\ t \in use.get
      /\ GetCheck(t) \/ GetStart(t) \/ GetLoad(t) \/ GetStore(t) \/ GetCopy(t)
  BY <1>1 DEF Operation, PutCheck, PutEnd, PutCopy, PutLoad, PutStore,
     GetCheck, GetStart, GetLoad, GetStore, GetCopy, RecvInv
<1>3. \A u \in Threads : u # t => pc'[u] = pc[u]
  BY <1>2 DEF GetCheck, GetStart, GetLoad, GetStore, GetCopy, Goto, RecvInv, TypeOK
<1>4. ASSUME NEW u \in Threads, u # t PROVE pc[u] = "idle"
  <2>1. u \notin use.get
    BY <1>1, <1>2, <1>4
  <2> QED
    BY <2>1 DEF RecvInv
<1> QED
  BY <1>2, <1>3, <1>4

LEMMA ReaderStep ==
  ASSUME RecvInv, TypeOK', use' = use, NEW t \in Threads, Operation(t)
  PROVE  RecvInv'
<1>1. /\ start \in Slots /\ end \in Slots /\ count \in Nat /\ count <= Size
      /\ count \in 0 .. Word - 1
      /\ buf \in [Slots -> 0 .. MaxElements]
      /\ got \in Seq(0 .. MaxElements) /\ Len(got) \in Nat /\ written \in Nat
      /\ pc \in [Threads -> Labels] /\ reg \in [Threads -> 0 .. Word - 1]
      /\ ptr \in [Threads -> Slots] /\ Size \in Nat /\ Size > 0 /\ Size < Word /\ Word \in Nat
  <2>1. TypeOK /\ count <= Size
    BY DEF RecvInv
  <2>2. /\ start \in Slots /\ end \in Slots /\ buf \in [Slots -> 0 .. MaxElements]
        /\ got \in Seq(0 .. MaxElements) /\ count \in 0 .. Word - 1
        /\ written \in 0 .. MaxElements
        /\ pc \in [Threads -> Labels] /\ reg \in [Threads -> 0 .. Word - 1]
        /\ ptr \in [Threads -> Slots]
    BY <2>1, Zenon DEF TypeOK
  <2> QED
    BY <2>1, <2>2, FifoAssumption
<1>2. /\ t \in use.get
      /\ GetCheck(t) \/ GetStart(t) \/ GetLoad(t) \/ GetStore(t) \/ GetCopy(t)
      /\ \A u \in Threads : u # t => pc[u] = "idle" /\ pc'[u] = "idle"
  BY ReaderAlone
<1>3. \A s \in Labels : Goto(t, s) => pc'[t] = s
  BY <1>1 DEF Goto
<1>4. /\ InQueue + Taken <= written
      /\ start = Taken % Size /\ end = written % Size
      /\ \A i \in 1 .. written : buf[i % Size] \in i .. written
      /\ \A i \in 1 .. Len(got) : got[i] \in i .. written
      /\ pc[t] \in Taking => count > 0
      /\ pc[t] = "get_store" => reg[t] \in 1 .. count
      /\ t \in Leaving => ptr[t] = Taken % Size
  BY DEF RecvInv
<1>5. end' = end /\ buf' = buf /\ written' = written
  BY <1>2 DEF GetCheck, GetStart, GetLoad, GetStore, GetCopy, ring, history
<1> SUFFICES
      /\ count' <= Size
      /\ InQueue' + Taken' <= written
      /\ start' = Taken' % Size
      /\ \A i \in 1 .. Len(got') : got'[i] \in i .. written
      /\ pc'[t] # "idle" => pc'[t] \in GetLabels
      /\ pc'[t] \in Taking => count' > 0
      /\ pc'[t] = "get_store" => reg'[t] \in 1 .. count'
      /\ t \in Leaving' => ptr'[t] = Taken' % Size
  <2>1. \A u \in Leaving' : u = t
    BY <1>2 DEF Leaving
  <2>2. Receiving'
    BY DEF Receiving, RecvInv
  <2> QED
    BY <1>2, <1>4, <1>5, <2>1, <2>2 DEF RecvInv, Taking
<1> USE DEF At, GetLabels, Labels, Taking
<1>6. CASE GetCheck(t)
  <2>1. /\ pc[t] = "idle" /\ pc'[t] = "get_wait" /\ got' = got /\ count' = count /\ count > 0
        /\ start' = start
    BY <1>1, <1>3, <1>6 DEF GetCheck, ring, history
  <2>2. Taken' = Taken /\ InQueue' = InQueue /\ t \notin Leaving'
    BY <1>2, <2>1, AtLabel
  <2> QED
    BY <1>1, <1>4, <2>1, <2>2
<1>7. CASE GetStart(t)
  <2>1. /\ pc[t] = "get_wait" /\ pc'[t] = "get_load" /\ got' = got /\ count' = count /\ count > 0
        /\ start' = Succ(start) /\ ptr'[t] = Succ(start)
    BY <1>1, <1>3, <1>7 DEF GetStart, history
  <2>2. /\ Taken = Len(got) + 0 /\ Taken' = Len(got') + 1
        /\ InQueue = count /\ InQueue' = count' - 1
    BY <1>2, <2>1, AtLabel
  <2>3. Taken \in Nat /\ Taken' = Taken + 1 /\ InQueue' = InQueue - 1
    BY <1>1, <2>1, <2>2
  <2>4. start' = Taken' % Size
    BY <1>4, <2>1, <2>3, NextSlot
  <2>5. InQueue' + Taken' <= written
    BY <1>1, <1>4, <2>2, <2>3
  <2> QED
    BY <1>1, <1>4, <2>1, <2>4, <2>5
<1>8. CASE GetLoad(t)
  <2>1. /\ pc[t] = "get_load" /\ pc'[t] = "get_store" /\ got' = got /\ count' = count
        /\ start' = start /\ ptr' = ptr /\ reg'[t] = count
    BY <1>1, <1>3, <1>8 DEF GetLoad, ring, history
  <2>2. Taken' = Taken /\ InQueue' = InQueue /\ t \in Leaving
    BY <1>2, <2>1, AtLabel
  <2> QED
    BY <1>1, <1>4, <2>1, <2>2
<1>9. CASE GetStore(t)
  <2>1. /\ pc[t] = "get_store" /\ pc'[t] = "get_copy" /\ got' = got
        /\ start' = start /\ ptr' = ptr /\ count' = (reg[t] + Word - 1) % Word
    BY <1>1, <1>3, <1>9 DEF GetStore, locals, history
  <2>2. count' = reg[t] - 1 /\ reg[t] \in 1 .. count
    BY <1>1, <1>4, <2>1, WordTyped
  <2>3. /\ Taken = Len(got) + 1 /\ Taken' = Len(got') + 1 /\ t \in Leaving
        /\ InQueue = count - 1 /\ InQueue' = count'
    BY <1>2, <2>1, AtLabel
  <2>4. /\ Taken' = Taken /\ Taken \in Nat /\ count' <= Size /\ count' \in Nat
        /\ InQueue \in Nat /\ InQueue' \in Nat /\ InQueue' <= InQueue
    <3>1. Taken' = Taken /\ Taken \in Nat
      BY <1>1, <2>1, <2>3
    <3>2. count' \in Nat /\ count' <= count - 1 /\ count - 1 \in Nat /\ count' <= Size
      BY <1>1, <2>2
    <3>3. InQueue \in Nat /\ InQueue' \in Nat /\ InQueue' <= InQueue
      BY <2>3, <3>2, Zenon
    <3> QED
      BY <3>1, <3>2, <3>3
  <2>5. InQueue' + Taken' <= written
    <3>1. InQueue + Taken <= written
      BY <1>4
    <3>2. InQueue \in Nat /\ Taken \in Nat /\ InQueue' \in Nat /\ written \in Nat
      BY <1>1, <2>4
    <3>3. InQueue' <= InQueue /\ Taken' = Taken
      BY <2>4
    <3>4. \A a, b, c, d \in Nat : a <= b /\ b + c <= d => a + c <= d
      OBVIOUS
    <3>5. InQueue' + Taken <= written
      BY <3>1, <3>2, <3>3, <3>4, Zenon
    <3> QED
      BY <3>3, <3>5, Zenon
  <2> QED
    BY <1>4, <2>1, <2>3, <2>4, <2>5
<1>10. CASE GetCopy(t)
  <2>1. /\ pc[t] = "get_copy" /\ pc'[t] = "idle" /\ got' = Append(got, buf[ptr[t]])
        /\ start' = start /\ count' = count
    BY <1>1, <1>3, <1>10 DEF GetCopy, ring
  <2>2. /\ Taken = Len(got) + 1 /\ Taken' = Len(got') + 0 /\ t \in Leaving /\ t \notin Leaving'
        /\ InQueue = count /\ InQueue' = count'
    BY <1>2, <2>1, AtLabel
  <2>3. Len(got') = Len(got) + 1 /\ Taken' = Taken
    BY <1>1, <2>1, <2>2
  <2>4. buf[ptr[t]] \in Len(got) + 1 .. written
    <3>1. ptr[t] = Taken % Size
      BY <1>4, <2>2
    <3>2. Taken \in 1 .. written
      <4>1. InQueue + Taken <= written
        BY <1>4
      <4> QED
        BY <1>1, <2>2, <4>1
    <3>3. buf[Taken % Size] \in Taken .. written
      BY <1>4, <3>2
    <3> QED
      BY <2>2, <3>1, <3>3
  <2>5. \A i \in 1 .. Len(got') : got'[i] \in i .. written
    BY <1>1, <1>4, <2>1, <2>3, <2>4
  <2> QED
    BY <1>1, <1>4, <2>1, <2>2, <2>3, <2>5
<1> QED
  BY <1>2, <1>6, <1>7, <1>8, <1>9, <1>10

LEMMA RecvIsr ==
  ASSUME RecvInv, TypeOK', use' = use, IsrPut \/ IsrGet
  PROVE  RecvInv'
<1>1. /\ count \in 0 .. Word - 1 /\ count \in Nat /\ count <= Size
      /\ buf \in [Slots -> 0 .. MaxElements]
      /\ Len(got) \in Nat /\ written \in Nat
      /\ Size \in Nat /\ Size > 0 /\ Size < Word /\ Word \in Nat
  BY FifoAssumption DEF RecvInv, TypeOK
<1>2. /\ written' = written + 1 /\ count # Size /\ end' = Succ(end)
      /\ buf' = [buf EXCEPT ![Succ(end)] = written + 1] /\ count' = (count + 1) % Word
      /\ UNCHANGED <<start, pc, element, reg, ptr, got>>
  BY DEF RecvInv, Receiving, IsrPut, IsrGet, locals
<1>3. count' = count + 1
  BY <1>1, <1>2, WordTyped
<1>4. Leaving' = Leaving /\ Uncounted' = Uncounted
  BY <1>2 DEF Leaving, Uncounted
<1>5. Taken' = Taken /\ InQueue' = InQueue + 1
  BY <1>1, <1>2, <1>3, <1>4 DEF Taken, InQueue
<1>6. Taken \in Nat /\ (InQueue = count \/ InQueue = count - 1)
  BY <1>1 DEF Taken, InQueue
<1>7. end' = written' % Size /\ Succ(end) = (written + 1) % Size
  BY <1>1, <1>2, NextSlot DEF RecvInv
<1>8. \A i \in Nat : i % Size \in Slots
  BY <1>1 DEF Slots
<1>9. ASSUME NEW i \in 1 .. written' PROVE buf'[i % Size] \in i .. written'
  <2>1. CASE i % Size = Succ(end)
    BY <1>1, <1>2, <1>8, <2>1
  <2>2. CASE i % Size # Succ(end)
    <3>1. i # written + 1
      BY <1>7, <2>2
    <3>2. i \in 1 .. written
      BY <1>1, <1>2, <3>1
    <3>3. buf[i % Size] \in i .. written /\ buf'[i % Size] = buf[i % Size]
      BY <1>1, <1>2, <1>8, <2>2, <3>2 DEF RecvInv
    <3> QED
      BY <1>1, <1>2, <3>3
  <2> QED
    BY <2>1, <2>2
<1>10. \A i \in 1 .. Len(got') : got'[i] \in i .. written'
  BY <1>1, <1>2 DEF RecvInv
<1>11. InQueue' + Taken' <= written' /\ count' <= Size
  <2>1. InQueue + Taken <= written
    BY DEF RecvInv
  <2>2. InQueue + 1 + Taken <= written + 1
    BY <1>1, <1>6, <2>1
  <2>3. count' <= Size
    BY <1>1, <1>2, <1>3
  <2> QED
    BY <1>2, <1>5, <2>2, <2>3
<1>12. \A t \in Threads :
         /\ pc'[t] \in Taking => count' > 0
         /\ pc'[t] = "get_store" => reg'[t] \in 1 .. count'
  BY <1>1, <1>2, <1>3 DEF RecvInv
<1>13. Receiving' /\ start' = Taken' % Size
  BY <1>2, <1>5 DEF RecvInv, Receiving
<1>14. \A t \in Threads :
         /\ pc'[t] # "idle" => t \in use'.get /\ pc'[t] \in GetLabels
         /\ t \in Leaving' => ptr'[t] = Taken' % Size
  BY <1>2, <1>4, <1>5 DEF RecvInv
<1>15. Taking' = Taking
  BY DEF Taking
<1> QED
  BY <1>7, <1>9, <1>10, <1>11, <1>12, <1>13, <1>14, <1>15 DEF RecvInv

LEMMA RecvStep == RecvInv /\ [Next]_vars => RecvInv'
<1> SUFFICES ASSUME RecvInv, [Next]_vars PROVE RecvInv'
  OBVIOUS
<1>1. TypeOK' /\ use' = use
  BY TypeStep DEF RecvInv, Next, vars
<1>2. ASSUME UNCHANGED <<ring, pc, locals, history>> PROVE RecvInv'
  <2>1. UNCHANGED <<got, buf, reg, ptr, start, end, count, written, pc, use>>
    BY <1>1, <1>2 DEF ring, locals, history
  <2>2. Taken' = Taken /\ InQueue' = InQueue /\ Leaving' = Leaving
    BY <2>1 DEF Taken, InQueue, Leaving, Uncounted
  <2> QED
    BY <1>1, <2>1, <2>2 DEF RecvInv, Receiving
<1>3. CASE UNCHANGED vars
  BY <1>2, <1>3 DEF vars
<1>4. CASE IsrPut \/ IsrGet
  BY <1>1, <1>4, RecvIsr
<1>5. ASSUME NEW t \in Threads, Operation(t) PROVE RecvInv'
  BY <1>1, <1>5, ReaderStep
<1>6. ASSUME NEW t \in Threads, SectionEnter(t) \/ SectionExit(t) PROVE RecvInv'
  BY <1>2, <1>6 DEF SectionEnter, SectionExit
<1> QED
  BY <1>3, <1>4, <1>5, <1>6 DEF Next, Thread, Operation

\* kc_recv_fifo as coded, with the interrupt anywhere inside fifo_get: every element
\* returned was put before, and none of a turn that has passed.
THEOREM ReceiveInventsNothing == Spec => []TakenWasPut
<1>1. Init => (Exclusive => QueueInv) /\ (Receiving => RecvInv)
  BY QueueInit, RecvInit
<1>2. (Exclusive => QueueInv) /\ (Receiving => RecvInv) /\ [Next]_vars
        => (Exclusive => QueueInv)' /\ (Receiving => RecvInv)'
  <2>1. [Next]_vars => (Receiving' <=> Receiving)
    BY DEF Next, vars, Receiving
  <2> QED
    BY <2>1, ExclusiveStays, QueueStep, RecvStep
<1>3. (Exclusive => QueueInv) /\ (Receiving => RecvInv) => TakenWasPut
  <2>1. ASSUME QueueInv PROVE \A i \in DOMAIN got : got[i] \in i .. written
    <3>1. got \in Seq(0 .. MaxElements) /\ written \in Nat
      BY <2>1 DEF QueueInv, CountInv, TypeOK
    <3>2. InQueue + Taken <= written /\ InQueue \in Nat /\ Taken >= Len(got)
      <4>1. Taken >= Len(got)
        BY <3>1 DEF Taken
      <4>2. \/ InQueue + Taken + 1 = written
            \/ InQueue + Taken = written
        BY <2>1, Numbers DEF QueueInv
      <4>3. InQueue \in Nat /\ Taken \in Nat
        BY <2>1, Numbers DEF QueueInv
      <4> QED
        BY <3>1, <4>1, <4>2, <4>3
    <3>3. Len(got) <= written
      BY <2>1, <3>1, <3>2, Numbers DEF QueueInv
    <3> QED
      BY <2>1, <3>1, <3>3 DEF QueueInv, Contents
  <2>2. ASSUME RecvInv PROVE \A i \in DOMAIN got : got[i] \in i .. written
    BY <2>2 DEF RecvInv, TypeOK
  <2> QED
    BY <2>1, <2>2 DEF TakenWasPut
<1> QED
  BY <1>1, <1>2, <1>3, PTL DEF Spec

=============================================================================
