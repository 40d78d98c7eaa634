--------------------------------- MODULE Fifo ---------------------------------
(***************************************************************************)
(* The ring buffer of src/src/knabberkiste/util/fifo.c and the critical    *)
(* sections of critical.c on one processor.  Threads call fifo_put and     *)
(* fifo_get; the interrupt strikes between any two steps unless it is      *)
(* masked.  The interrupt handler puts (the receive FIFO of knabbercan.c)  *)
(* or takes (the transmit queue of bxcan.c) a whole element at once.       *)
(*                                                                         *)
(* The critical_block macro of critical.h only calls critical_exit, after  *)
(* its body: the blocks of the FIFO mask nothing.  Sections are what an    *)
(* application gets that calls critical_enter and critical_exit itself.    *)
(* use says who does what.                                                 *)
(***************************************************************************)
EXTENDS Naturals, Sequences

CONSTANTS
  Size,         \* _fifo_size
  Word,         \* 2^32: the range of size_t and uint32_t
  Threads,
  Uses,         \* the ways the FIFO and the sections may be used
  MaxElements,  \* bound of the model: elements put
  MaxDepth      \* bound of the model: sections nested in each other

ISR == "interrupt"

\* put, get, section: who calls fifo_put, fifo_get, critical_enter and critical_exit.
\* flushes: every put waits until the FIFO is empty.  Blocks and sections are not mixed:
\* a block's exit is one that no section entered.
ASSUME FifoAssumption ==
  /\ Size \in Nat \ {0}
  /\ Word \in Nat
  /\ Word > 2 /\ Size < Word
  /\ ISR \notin Threads
  /\ Uses \subseteq [put : SUBSET (Threads \cup {ISR}), get : SUBSET (Threads \cup {ISR}),
                     section : SUBSET Threads, flushes : BOOLEAN]
  /\ \A u \in Uses : u.section = {} \/ u.put \cup u.get = {}
  /\ MaxElements \in Nat
  /\ MaxDepth \in Nat /\ MaxDepth < Word

VARIABLES
  use,                            \* who does what
  start, end, count, buf,         \* _start, _end, _count and _buf of _FIFO_t
  critical_counter, irq_enabled,  \* critical.c; PRIMASK is clear
  depth,                          \* per thread: sections entered and not left
  pc, element, reg, ptr,          \* per thread: position, argument of fifo_put,
                                  \* _count in a register, slot to copy from
  written,                        \* elements handed to fifo_put so far
  got                             \* elements returned by fifo_get so far

ring == <<start, end, count, buf>>
mask == <<critical_counter, irq_enabled>>
locals == <<element, reg, ptr>>
history == <<written, got>>
vars == <<use, ring, mask, depth, pc, locals, history>>

Slots == 0 .. Size - 1
Elements == 1 .. MaxElements
Succ(slot) == (slot + 1) % Size

PutLabels == {"put_end", "put_copy", "put_load", "put_store"}
GetLabels == {"get_wait", "get_load", "get_store", "get_copy"}
Labels == {"idle"} \cup PutLabels \cup GetLabels

-----------------------------------------------------------------------------
(* Critical sections *)

critical_enter ==
  /\ irq_enabled' = FALSE
  /\ critical_counter' = (critical_counter + 1) % Word

\* The exit of an inner section leaves the outer one unprotected.
ExitEnablesAlways ==
  /\ critical_counter' = (critical_counter + Word - 1) % Word
  /\ irq_enabled' = TRUE

\* An uncounted exit: nested sections never enable interrupts again.
ExitWithoutCount ==
  /\ irq_enabled' = (irq_enabled \/ critical_counter = 0)
  /\ UNCHANGED critical_counter

critical_exit ==
  /\ critical_counter' = (critical_counter + Word - 1) % Word
  /\ irq_enabled' = (irq_enabled \/ critical_counter = 1)

\* n blocks of the interrupt handler.
IsrBlocks(n) ==
  /\ critical_counter' = (critical_counter + n * (Word - 1)) % Word
  /\ UNCHANGED irq_enabled

-----------------------------------------------------------------------------
(* Threads *)

CanRun(t) == irq_enabled \/ depth[t] > 0
At(t, label) == pc[t] = label /\ CanRun(t)
Goto(t, label) == pc' = [pc EXCEPT ![t] = label]

SectionEnter(t) ==
  /\ At(t, "idle")
  /\ t \in use.section
  /\ depth[t] < MaxDepth
  /\ critical_enter
  /\ depth' = [depth EXCEPT ![t] = depth[t] + 1]
  /\ UNCHANGED <<ring, pc, locals, history>>

SectionExit(t) ==
  /\ At(t, "idle")
  /\ depth[t] > 0
  /\ critical_exit
  /\ depth' = [depth EXCEPT ![t] = depth[t] - 1]
  /\ UNCHANGED <<ring, pc, locals, history>>

\* A sender that does not wait for its frame.
Unflushed == TRUE

\* kc_frame_transmit waits after each frame until the transmit queue is empty.
Flushed == use.flushes => count = 0

PutWithoutWaiting(t) ==
  /\ At(t, "idle")
  /\ t \in use.put /\ Flushed
  /\ written < MaxElements
  /\ written' = written + 1
  /\ element' = [element EXCEPT ![t] = written + 1]
  /\ Goto(t, "put_end")
  /\ UNCHANGED <<ring, mask, depth, reg, ptr, got>>

\* while(fifo_full(*fifo)); outside the critical block
PutCheck(t) ==
  /\ At(t, "idle")
  /\ t \in use.put /\ Flushed
  /\ written < MaxElements
  /\ count # Size
  /\ written' = written + 1
  /\ element' = [element EXCEPT ![t] = written + 1]
  /\ Goto(t, "put_end")
  /\ UNCHANGED <<ring, mask, depth, reg, ptr, got>>

PutEnd(t) ==
  /\ At(t, "put_end")
  /\ end' = Succ(end)
  /\ Goto(t, "put_copy")
  /\ UNCHANGED <<start, count, buf, mask, depth, locals, history>>

PutCopy(t) ==
  /\ At(t, "put_copy")
  /\ buf' = [buf EXCEPT ![end] = element[t]]
  /\ Goto(t, "put_load")
  /\ UNCHANGED <<start, end, count, mask, depth, locals, history>>

\* _count++ is a load and a store
PutLoad(t) ==
  /\ At(t, "put_load")
  /\ reg' = [reg EXCEPT ![t] = count]
  /\ Goto(t, "put_store")
  /\ UNCHANGED <<ring, mask, depth, element, ptr, history>>


PutStore(t) ==
  /\ At(t, "put_store")
  /\ count' = (reg[t] + 1) % Word
  /\ critical_exit
  /\ Goto(t, "idle")
  /\ UNCHANGED <<start, end, buf, depth, locals, history>>

\* while(fifo_empty(*fifo)); of _fifo_get
GetCheck(t) ==
  /\ At(t, "idle")
  /\ t \in use.get
  /\ count # 0
  /\ Goto(t, "get_wait")
  /\ UNCHANGED <<ring, mask, depth, locals, history>>

\* _fifo_get_direct: its own wait, the slot of the element
GetStart(t) ==
  /\ At(t, "get_wait")
  /\ count # 0
  /\ start' = Succ(start)
  /\ ptr' = [ptr EXCEPT ![t] = Succ(start)]
  /\ Goto(t, "get_load")
  /\ UNCHANGED <<end, count, buf, mask, depth, element, reg, history>>

GetLoad(t) ==
  /\ At(t, "get_load")
  /\ reg' = [reg EXCEPT ![t] = count]
  /\ Goto(t, "get_store")
  /\ UNCHANGED <<ring, mask, depth, element, ptr, history>>

GetUncounted(t) ==
  /\ At(t, "get_store")
  /\ critical_exit
  /\ Goto(t, "get_copy")
  /\ UNCHANGED <<ring, depth, locals, history>>

GetStore(t) ==
  /\ At(t, "get_store")
  /\ count' = (reg[t] + Word - 1) % Word
  /\ critical_exit
  /\ Goto(t, "get_copy")
  /\ UNCHANGED <<start, end, buf, depth, locals, history>>

\* memcpy to the caller, end of _fifo_get's block
GetCopy(t) ==
  /\ At(t, "get_copy")
  /\ got' = Append(got, buf[ptr[t]])
  /\ critical_exit
  /\ Goto(t, "idle")
  /\ UNCHANGED <<ring, depth, locals, written>>

Thread(t) ==
  \/ SectionEnter(t) \/ SectionExit(t)
  \/ PutCheck(t) \/ PutEnd(t) \/ PutCopy(t) \/ PutLoad(t) \/ PutStore(t)
  \/ GetCheck(t) \/ GetStart(t) \/ GetLoad(t) \/ GetStore(t) \/ GetCopy(t)

-----------------------------------------------------------------------------
(* The interrupt handler *)

\* can_recv_callback throws instead of waiting when the FIFO is full.
IsrPut ==
  /\ irq_enabled
  /\ ISR \in use.put
  /\ written < MaxElements
  /\ count # Size
  /\ written' = written + 1
  /\ end' = Succ(end)
  /\ buf' = [buf EXCEPT ![Succ(end)] = written + 1]
  /\ count' = (count + 1) % Word
  /\ IsrBlocks(1)
  /\ UNCHANGED <<start, depth, pc, locals, got>>

\* can_transmit_next_if_possible looks before it takes: three blocks.
IsrGet ==
  /\ irq_enabled
  /\ ISR \in use.get
  /\ count # 0
  /\ start' = Succ(start)
  /\ got' = Append(got, buf[Succ(start)])
  /\ count' = (count + Word - 1) % Word
  /\ IsrBlocks(3)
  /\ UNCHANGED <<end, buf, depth, pc, locals, written>>

-----------------------------------------------------------------------------

Init ==
  /\ use \in Uses
  /\ start = 0 /\ end = 0 /\ count = 0
  /\ buf = [s \in Slots |-> 0]
  /\ critical_counter = 0 /\ irq_enabled = TRUE
  /\ depth = [t \in Threads |-> 0]
  /\ pc = [t \in Threads |-> "idle"]
  /\ element = [t \in Threads |-> 0]
  /\ reg = [t \in Threads |-> 0]
  /\ ptr = [t \in Threads |-> 0]
  /\ written = 0
  /\ got = <<>>

Next == UNCHANGED use /\ (IsrPut \/ IsrGet \/ \E t \in Threads : Thread(t))

Spec == Init /\ [][Next]_vars

\* Threads keep running, and the transmit interrupt comes as long as frames wait.
FairSpec == /\ Spec
            /\ WF_vars(UNCHANGED use /\ IsrGet)
            /\ \A t \in Threads : WF_vars(UNCHANGED use /\ Thread(t))

-----------------------------------------------------------------------------
(* Properties *)

\* Every variable holds a value of its C type; the indices stay on the ring.
TypeOK ==
  /\ use \in Uses
  /\ start \in Slots /\ end \in Slots
  /\ count \in 0 .. Word - 1
  /\ buf \in [Slots -> 0 .. MaxElements]
  /\ critical_counter \in 0 .. Word - 1
  /\ irq_enabled \in BOOLEAN
  /\ depth \in [Threads -> 0 .. MaxDepth]
  /\ pc \in [Threads -> Labels]
  /\ element \in [Threads -> 0 .. MaxElements]
  /\ reg \in [Threads -> 0 .. Word - 1]
  /\ ptr \in [Threads -> Slots]
  /\ written \in 0 .. MaxElements
  /\ got \in Seq(0 .. MaxElements)

\* critical.h: between critical_enter and critical_exit interrupts are blocked, also
\* after the exit of a section nested inside, and whichever thread is switched to.
MaskedInside == \A t \in Threads : depth[t] > 0 => ~irq_enabled

\* ... and after the exit of the outermost section they are enabled again.
EnabledOutside == (\A t \in Threads : depth[t] = 0) => irq_enabled

\* No operation of the FIFO starts while another is under way although nothing is
\* masked: one thread has it alone, or that thread only puts into the empty FIFO and the
\* interrupt, which finds nothing to take before the count is stored, only takes.
Exclusive ==
  /\ \A t, u \in Threads \cap (use.put \cup use.get) : t = u
  /\ \/ ISR \notin use.put \cup use.get
     \/ use.flushes /\ ISR \notin use.put /\ use.get = {ISR}

\* fifo.h: while no operation is under way _count is the number of elements put and
\* not yet taken.
CountExact == (\A t \in Threads : pc[t] = "idle") => count + Len(got) = written

\* So it is in the transmit queue, which the interrupt shares as coded, and in a FIFO of
\* one thread: no element is lost, none is counted twice.
NothingLost == Exclusive => CountExact

\* kc_recv_fifo as coded, filled by the interrupt in the midst of fifo_get: it loses
\* count of elements and overwrites them, but what fifo_get returns has been put, no
\* later than now, and never leads its turn: no slot is read before it is filled.
Receiving ==
  /\ use.put = {ISR} /\ ISR \notin use.get
  /\ \A t, u \in Threads \cap use.get : t = u
TakenWasPut == Exclusive \/ Receiving => \A i \in DOMAIN got : got[i] \in i .. written

\* The queue the ring stands for.  An element has left it when _start has passed
\* its slot, before it is copied; it has entered when _count covers it.
Leaving == {t \in Threads : pc[t] \in {"get_load", "get_store", "get_copy"}}
Uncounted == {t \in Threads : pc[t] \in {"get_load", "get_store"}}
TakenSoFar == IF Leaving = {} THEN got
              ELSE Append(got, buf[ptr[CHOOSE t \in Leaving : TRUE]])
Queued == [i \in 1 .. (IF Uncounted = {} THEN count ELSE count - 1) |-> buf[(start + i) % Size]]

AbstractQueue ==
  INSTANCE Queue WITH put <- IF Exclusive THEN TakenSoFar \o Queued ELSE <<>>,
                      taken <- IF Exclusive THEN TakenSoFar ELSE <<>>

\* fifo.h: used that way the FIFO is a queue, across every step of its operations; of
\* other uses this says nothing.
ImplementsQueue == AbstractQueue!Spec


=============================================================================
