-------------------------------- MODULE BxCanTx --------------------------------
(***************************************************************************)
(* Transmission in src/src/knabberkiste/hal/bxcan.c: tasks hand over       *)
(* frames with can_transmit_frame, the peripheral sends its mailboxes in   *)
(* the order of the requests (TXFP), the transmit interrupt moves a frame  *)
(* from bxcan_tx_queue into a mailbox whenever one was completed.          *)
(*                                                                         *)
(* critical_block masks nothing as coded (see Fifo), so the interrupt may  *)
(* strike between any two steps of a task.  The queue itself is atomic     *)
(* here: a task that flushes finds it empty when it puts, and the          *)
(* interrupt does not touch an empty queue.                                *)
(***************************************************************************)
EXTENDS Naturals, Sequences, SequencesExt, FiniteSetsExt

CONSTANTS
  Tasks,
  Mailboxes,   \* transmit mailboxes of the peripheral (3)
  QueueSize,   \* BXCAN_TX_QUEUE_SIZE (32)
  MaxFrames    \* bound of the model: frames per task

ASSUME BxCanAssumption ==
  /\ Mailboxes \in Nat \ {0}
  /\ QueueSize \in Nat \ {0}
  /\ MaxFrames \in Nat

VARIABLES
  pc, frame, mailbox_id,  \* per task: position, argument, local of
                          \* can_transmit_frame_direct
  requests,               \* mailboxes with TXRQ set, in the order of the requests
  registers,              \* identifier and data registers of each mailbox
  rqcp,                   \* mailboxes whose RQCP flag asks for the interrupt
  bxcan_tx_queue,
  handed,                 \* frames handed to can_transmit_frame so far, in order
  sent                    \* frames that went over the bus, in order

tasks == <<pc, frame, mailbox_id>>
hardware == <<requests, registers, rqcp>>
vars == <<tasks, hardware, bxcan_tx_queue, handed, sent>>

Boxes == 0 .. Mailboxes - 1
Frames == Tasks \X (1 .. MaxFrames)
NoFrame == <<>>
Labels == {"idle", "code", "load", "request", "put", "flush"}

-----------------------------------------------------------------------------
(* The mailboxes *)

\* TSR.TMEx
Empty(m) == m \notin Range(requests)
EmptyBoxes == {m \in Boxes : Empty(m)}

\* TSR.CODE: the next free mailbox, or else the one with the lowest priority
Code == IF EmptyBoxes # {} THEN Min(EmptyBoxes) ELSE Last(requests)

\* Registers of a mailbox that is not empty are write-protected.
WriteRegisters(m, f) ==
  registers' = IF Empty(m) THEN [registers EXCEPT ![m] = f] ELSE registers

\* TXRQ
RequestTransmission(m) ==
  /\ requests' = IF Empty(m) THEN Append(requests, m) ELSE requests
  /\ rqcp' = IF Empty(m) THEN rqcp \ {m} ELSE rqcp

-----------------------------------------------------------------------------
(* A task *)

Goto(t, label) == pc' = [pc EXCEPT ![t] = label]

\* the number of the next frame of t
NextFrame(t) == <<t, Cardinality({i \in DOMAIN handed : handed[i][1] = t}) + 1>>

HandOver(t) ==
  /\ pc[t] = "idle"
  /\ NextFrame(t)[2] <= MaxFrames
  /\ frame' = [frame EXCEPT ![t] = NextFrame(t)]
  /\ handed' = Append(handed, NextFrame(t))
  /\ UNCHANGED <<mailbox_id, hardware, bxcan_tx_queue, sent>>

TransmitWithoutCheck(t) == HandOver(t) /\ Goto(t, "code")

\* can_transmit_frame: mailbox_free is read here and used in the next step.
can_transmit_frame(t) ==
  HandOver(t) /\ Goto(t, IF EmptyBoxes # {} THEN "code" ELSE "put")

\* can_transmit_frame_direct: choose the mailbox, fill it, request transmission
ReadCode(t) ==
  /\ pc[t] = "code"
  /\ mailbox_id' = [mailbox_id EXCEPT ![t] = Code]
  /\ Goto(t, "load")
  /\ UNCHANGED <<frame, hardware, bxcan_tx_queue, handed, sent>>

LoadMailbox(t) ==
  /\ pc[t] = "load"
  /\ WriteRegisters(mailbox_id[t], frame[t])
  /\ Goto(t, "request")
  /\ UNCHANGED <<frame, mailbox_id, requests, rqcp, bxcan_tx_queue, handed, sent>>

SetRequest(t) ==
  /\ pc[t] = "request"
  /\ RequestTransmission(mailbox_id[t])
  /\ Goto(t, "flush")
  /\ UNCHANGED <<frame, mailbox_id, registers, bxcan_tx_queue, handed, sent>>

\* fifo_put
QueuePut(t) ==
  /\ pc[t] = "put"
  /\ Len(bxcan_tx_queue) < QueueSize
  /\ bxcan_tx_queue' = Append(bxcan_tx_queue, frame[t])
  /\ Goto(t, "flush")
  /\ UNCHANGED <<frame, mailbox_id, hardware, handed, sent>>

ReturnAtOnce(t) ==
  /\ pc[t] = "flush"
  /\ Goto(t, "idle")
  /\ UNCHANGED <<frame, mailbox_id, hardware, bxcan_tx_queue, handed, sent>>

FlushAwaitsFlag(t) == ReturnAtOnce(t) /\ bxcan_tx_queue = <<>> /\ rqcp # {}

\* kc_frame_transmit waits for the queue to empty after every frame.
can_flush_tx_buffer(t) ==
  /\ pc[t] = "flush"
  /\ bxcan_tx_queue = <<>>
  /\ Goto(t, "idle")
  /\ UNCHANGED <<frame, mailbox_id, hardware, bxcan_tx_queue, handed, sent>>

Task(t) ==
  \/ can_transmit_frame(t) \/ ReadCode(t) \/ LoadMailbox(t) \/ SetRequest(t)
  \/ QueuePut(t) \/ can_flush_tx_buffer(t)

-----------------------------------------------------------------------------
(* The bus and the transmit interrupt *)

\* The oldest request is sent and acknowledged.
BusSend ==
  /\ requests # <<>>
  /\ sent' = Append(sent, registers[Head(requests)])
  /\ requests' = Tail(requests)
  /\ rqcp' = rqcp \cup {Head(requests)}
  /\ UNCHANGED <<tasks, registers, bxcan_tx_queue, handed>>

ClearOnly ==
  /\ rqcp # {}
  /\ rqcp' = {}
  /\ UNCHANGED <<tasks, requests, registers, bxcan_tx_queue, handed, sent>>

\* USB_HP_CAN_TX_IRQHandler acknowledges every completed mailbox but moves one
\* frame only: can_transmit_next_if_possible.
TransmitInterrupt ==
  LET m == Code IN
  /\ rqcp # {}
  /\ IF bxcan_tx_queue # <<>> /\ EmptyBoxes # {}
       THEN /\ WriteRegisters(m, Head(bxcan_tx_queue))
            /\ requests' = Append(requests, m)
            /\ bxcan_tx_queue' = Tail(bxcan_tx_queue)
       ELSE UNCHANGED <<registers, requests, bxcan_tx_queue>>
  /\ rqcp' = {}
  /\ UNCHANGED <<tasks, handed, sent>>

-----------------------------------------------------------------------------

Init ==
  /\ pc = [t \in Tasks |-> "idle"]
  /\ frame = [t \in Tasks |-> NoFrame]
  /\ mailbox_id = [t \in Tasks |-> 0]
  /\ requests = <<>>
  /\ registers = [m \in Boxes |-> NoFrame]
  /\ rqcp = {}
  /\ bxcan_tx_queue = <<>>
  /\ handed = <<>>
  /\ sent = <<>>

Next == BusSend \/ TransmitInterrupt \/ \E t \in Tasks : Task(t)

Spec == Init /\ [][Next]_vars

\* Some node acknowledges every frame in the end, the interrupt is taken, tasks run.
FairSpec == /\ Spec
            /\ WF_vars(BusSend) /\ WF_vars(TransmitInterrupt)
            /\ \A t \in Tasks : WF_vars(Task(t))

-----------------------------------------------------------------------------
(* Properties *)

\* Every variable has its type, and the queue never exceeds its array.
TypeOK ==
  /\ pc \in [Tasks -> Labels]
  /\ frame \in [Tasks -> Frames \cup {NoFrame}]
  /\ mailbox_id \in [Tasks -> Boxes]
  /\ requests \in Seq(Boxes)
  /\ registers \in [Boxes -> Frames \cup {NoFrame}]
  /\ rqcp \subseteq Boxes
  /\ bxcan_tx_queue \in Seq(Frames) /\ Len(bxcan_tx_queue) <= QueueSize
  /\ handed \in Seq(Frames)
  /\ sent \in Seq(Frames)

\* Frames the driver has taken over from the tasks and not sent yet, in the order in
\* which they will be sent when nothing interferes.
Underway == [i \in DOMAIN requests |-> registers[requests[i]]] \o bxcan_tx_queue
InHand == {t \in Tasks : pc[t] \in {"code", "load", "request", "put"}}

\* A frame handed over is sent exactly once and in order, through whichever of the
\* two ways into the mailboxes it goes: none is lost in a mailbox that is not empty,
\* none overtakes another.
SentInOrder ==
  handed = sent \o Underway \o (IF InHand = {} THEN <<>> ELSE <<Last(handed)>>)

\* bxcan.h, for a task that flushes after every frame as kc_frame_transmit does: mailboxes,
\* queue and interrupt together are one queue with a place more than there are mailboxes,
\* filled by handing over and emptied by the bus.
Driver == INSTANCE Queue
            WITH put <- handed, taken <- sent, Size <- Mailboxes + 1, Elements <- Frames

TransmitsAsQueue == Driver!Spec

\* A frame waits in the queue while no mailbox is left whose completion would bring
\* the interrupt that moves it.
Stranded == bxcan_tx_queue # <<>> /\ requests = <<>> /\ rqcp = {}

\* USB_HP_CAN_TX_IRQHandler acknowledges all mailboxes and moves one frame, and the
\* direct way takes mailboxes from under the queue: neither ever leaves a frame
\* stranded.  Only a task can, that puts its frame after the mailboxes it saw taken
\* have all been sent.
OnlyLatePutStrands == [][~Stranded /\ Stranded' => \E t \in Tasks : QueuePut(t)]_vars

\* bxcan.h:242: can_flush_tx_buffer returns, because the queue empties without further
\* calls.
FlushReturns == \A t \in Tasks : pc[t] = "flush" ~> pc[t] = "idle"

\* The flush returns or a late put has stranded a frame; nothing else can hold it up.
FlushReturnsUnlessStranded ==
  \A t \in Tasks : pc[t] = "flush" ~> pc[t] = "idle" \/ Stranded

=============================================================================
