----------------------------- MODULE KCTransport -----------------------------
(***************************************************************************)
(* Transport of knabberCAN messages (src/src/knabberkiste/knabbercan.c):   *)
(* kc_frame_transmit cuts a payload into CAN frames, the receive interrupt *)
(* can_recv_callback of another node puts it together again and hands it   *)
(* to kc_process_incoming through kc_recv_fifo.                            *)
(*                                                                         *)
(* Each sender is one task of one node; key[t] stands for the fields of    *)
(* the identifier that tell messages apart: frame type, transaction,       *)
(* sender and receiver address.  A payload is known by the message it      *)
(* belongs to and the place of its bytes in it.  Frames are lost when the  *)
(* receive FIFO of the peripheral overruns, and nodes may restart.         *)
(***************************************************************************)
EXTENDS Naturals, Sequences, FiniteSets

CONSTANTS
  Senders, key,
  Sizes,        \* payload sizes, in bytes
  CounterMod,   \* KC_FRAME_COUNTER_MAX + 1
  Mailboxes,    \* transmit mailboxes of the sender (3)
  RxSize,       \* receive mailboxes of the receiver (3), locked mode
  FifoSize,     \* KC_RECV_FIFO_SIZE (128)
  MaxMessages,  \* bound of the model: messages per sender
  FaultKinds,   \* what may fail: "loss", "sender", "receiver"
  MaxFaults     \* bound of the model: lost frames and restarts

ASSUME TransportAssumption ==
  /\ Sizes \subseteq Nat
  /\ CounterMod \in Nat \ {0}
  /\ Mailboxes \in Nat \ {0}
  /\ RxSize \in Nat \ {0} /\ FifoSize \in Nat \ {0}
  /\ MaxMessages \in Nat
  /\ MaxFaults \in Nat

VARIABLES
  sizes,       \* per sender: the payload sizes of the messages begun so far
  sending,     \* per sender: locals of kc_frame_transmit, Idle outside it
  wire,        \* per sender: frames in its mailboxes
  rx,          \* frames in the receive FIFO of the receiver's bxCAN
  incomplete,  \* kc_incomplete_frames, by key
  kc_recv_fifo,
  halted,      \* TRUE iff the receiver is stuck in its interrupt after error_throw
  delivered,   \* messages kc_process_incoming has dispatched
  faults

sender == <<sizes, sending>>
receiver == <<rx, incomplete, kc_recv_fifo, halted>>
vars == <<sender, wire, receiver, delivered, faults>>

Keys == {key[t] : t \in Senders}
Idle == [offset |-> 0, counter |-> 0, active |-> FALSE]

\* A piece of a payload: bytes offset .. offset + dlc - 1 of message number of t.
Pieces == [from : Senders, number : 1 .. MaxMessages, offset : Nat, dlc : 0 .. 8]
Frames == [key : Keys, first : BOOLEAN, last : BOOLEAN, counter : 0 .. CounterMod - 1,
           data : Pieces]
Messages == [key : Keys, payload : Seq(Pieces), counter : 0 .. CounterMod - 1]

-----------------------------------------------------------------------------
(* kc_frame_transmit *)

Begin(t) ==
  /\ ~sending[t].active
  /\ Len(sizes[t]) < MaxMessages
  /\ \E size \in Sizes : sizes' = [sizes EXCEPT ![t] = Append(@, size)]
  /\ sending' = [sending EXCEPT ![t] = [offset |-> 0, counter |-> 0, active |-> TRUE]]
  /\ UNCHANGED <<wire, receiver, delivered, faults>>

PieceAt(t, number, offset) ==
  LET remaining == sizes[t][number] - offset IN
  [from |-> t, number |-> number, offset |-> offset,
   dlc |-> IF remaining <= 8 THEN remaining ELSE 8]

IsLastBelow8(t, offset) == sizes[t][Len(sizes[t])] - offset < 8
IsLast(t, offset) == sizes[t][Len(sizes[t])] - offset <= 8

NextCounterUnbounded(c) == c + 1
NextCounter(c) == (c + 1) % CounterMod

FrameAt(t, offset, counter) ==
  [key |-> key[t], first |-> offset = 0, last |-> IsLast(t, offset), counter |-> counter,
   data |-> PieceAt(t, Len(sizes[t]), offset)]

\* One round of the loop: can_transmit_frame, and can_flush_tx_buffer until a
\* mailbox has taken the frame.
TransmitFrame(t) ==
  LET next == sending[t].offset + 8 IN
  /\ sending[t].active
  /\ Len(wire[t]) < Mailboxes
  /\ wire' = [wire EXCEPT ![t] = Append(@, FrameAt(t, sending[t].offset, sending[t].counter))]
  /\ sending' = [sending EXCEPT ![t] =
       IF next < sizes[t][Len(sizes[t])]
         THEN [offset |-> next, counter |-> NextCounter(sending[t].counter), active |-> TRUE]
         ELSE Idle]
  /\ UNCHANGED <<sizes, receiver, delivered, faults>>

-----------------------------------------------------------------------------
(* can_recv_callback *)

\* "Check if this can be the case": the frame continues the message it belongs to,
\* or begins one when there is none; and a complete message finds room.
FitsWithoutCounter(f) ==
  /\ f.first <=> f.key \notin DOMAIN incomplete
  /\ f.last => Len(kc_recv_fifo) < FifoSize

Fits(f) ==
  /\ f.first <=> f.key \notin DOMAIN incomplete
  /\ ~f.first => f.counter = NextCounter(incomplete[f.key].counter)
  /\ f.last => Len(kc_recv_fifo) < FifoSize

\* The message of f with f's data appended.
Extended(f) ==
  [key |-> f.key, counter |-> f.counter,
   payload |-> (IF f.key \in DOMAIN incomplete THEN incomplete[f.key].payload ELSE <<>>)
               \o <<f.data>>]

Without(k) == [j \in DOMAIN incomplete \ {k} |-> incomplete[j]]
With(m) == [j \in DOMAIN incomplete \cup {m.key} |-> IF j = m.key THEN m ELSE incomplete[j]]

\* The finished message stays among the incomplete ones.
AcceptAndKeep(f) ==
  /\ incomplete' = With(Extended(f))
  /\ kc_recv_fifo' = IF f.last THEN Append(kc_recv_fifo, Extended(f)) ELSE kc_recv_fifo
  /\ UNCHANGED halted

Accept(f) ==
  /\ incomplete' = IF f.last THEN Without(f.key) ELSE With(Extended(f))
  /\ kc_recv_fifo' = IF f.last THEN Append(kc_recv_fifo, Extended(f)) ELSE kc_recv_fifo
  /\ UNCHANGED halted

\* error_throw in the interrupt: the receiver never leaves it.
Throw == halted' = TRUE /\ UNCHANGED <<incomplete, kc_recv_fifo>>

\* Takes the oldest frame and releases its mailbox; the write clears the overrun flag.
can_read_frame_from_fifo == rx' = Tail(rx)

\* USB_LP_CAN_RX0_IRQHandler, which runs while a frame is pending.  Its branch for an
\* overrun needs the flag without a frame: the read has cleared it by then.
ReceiveInterrupt ==
  /\ ~halted
  /\ rx # <<>>
  /\ can_read_frame_from_fifo
  /\ IF Fits(Head(rx)) THEN Accept(Head(rx)) ELSE Throw
  /\ UNCHANGED <<sender, wire, delivered, faults>>

\* The newest message first.
DispatchNewest ==
  /\ ~halted
  /\ kc_recv_fifo # <<>>
  /\ delivered' = Append(delivered, kc_recv_fifo[Len(kc_recv_fifo)])
  /\ kc_recv_fifo' = SubSeq(kc_recv_fifo, 1, Len(kc_recv_fifo) - 1)
  /\ UNCHANGED <<sender, wire, rx, incomplete, halted, faults>>

\* kc_process_incoming takes a message and dispatches it.
Dispatch ==
  /\ ~halted
  /\ kc_recv_fifo # <<>>
  /\ delivered' = Append(delivered, Head(kc_recv_fifo))
  /\ kc_recv_fifo' = Tail(kc_recv_fifo)
  /\ UNCHANGED <<sender, wire, rx, incomplete, halted, faults>>

-----------------------------------------------------------------------------
(* The bus, and faults *)

Fault(kind) == kind \in FaultKinds /\ faults < MaxFaults /\ faults' = faults + 1

BusFrame(t) == wire[t] # <<>> /\ wire' = [wire EXCEPT ![t] = Tail(@)]

Arrive(t) ==
  /\ BusFrame(t)
  /\ \/ Len(rx) < RxSize /\ rx' = Append(rx, Head(wire[t]))
     \/ halted /\ Len(rx) = RxSize /\ UNCHANGED rx
  /\ UNCHANGED <<sender, incomplete, kc_recv_fifo, halted, delivered, faults>>

\* The receive FIFO is full, because the interrupt is masked: in locked mode the frame
\* that arrives is lost.
Overrun(t) ==
  /\ ~halted /\ Len(rx) = RxSize
  /\ Fault("loss")
  /\ BusFrame(t)
  /\ UNCHANGED <<sender, receiver, delivered>>

RestartSender(t) ==
  /\ Fault("sender")
  /\ sending' = [sending EXCEPT ![t] = Idle]
  /\ wire' = [wire EXCEPT ![t] = <<>>]
  /\ UNCHANGED <<sizes, receiver, delivered>>

RestartReceiver ==
  /\ Fault("receiver")
  /\ rx' = <<>>
  /\ incomplete' = [k \in {} |-> <<>>]
  /\ kc_recv_fifo' = <<>>
  /\ halted' = FALSE
  /\ UNCHANGED <<sender, wire, delivered>>

-----------------------------------------------------------------------------

Init ==
  /\ sizes = [t \in Senders |-> <<>>]
  /\ sending = [t \in Senders |-> Idle]
  /\ wire = [t \in Senders |-> <<>>]
  /\ rx = <<>>
  /\ incomplete = [k \in {} |-> <<>>]
  /\ kc_recv_fifo = <<>>
  /\ halted = FALSE
  /\ delivered = <<>>
  /\ faults = 0

Next ==
  \/ ReceiveInterrupt \/ Dispatch \/ RestartReceiver
  \/ \E t \in Senders : \/ Begin(t) \/ TransmitFrame(t) \/ Arrive(t)
                        \/ Overrun(t) \/ RestartSender(t)

Spec == Init /\ [][Next]_vars

\* A sender finishes the messages it began, the bus carries frames, the receiver
\* polls; nobody has to begin a message.
FairSpec == /\ Spec
            /\ WF_vars(ReceiveInterrupt) /\ WF_vars(Dispatch)
            /\ \A t \in Senders : WF_vars(TransmitFrame(t)) /\ WF_vars(Arrive(t))

-----------------------------------------------------------------------------
(* Properties *)

\* Every variable has its type; the FIFO never exceeds its array, and a message is
\* filed under its own key.
TypeOK ==
  /\ \A t \in Senders : sizes[t] \in Seq(Sizes) /\ Len(sizes[t]) <= MaxMessages
  /\ sending \in [Senders -> [offset : Nat, counter : 0 .. CounterMod - 1, active : BOOLEAN]]
  /\ \A t \in Senders : wire[t] \in Seq(Frames) /\ Len(wire[t]) <= Mailboxes
  /\ rx \in Seq(Frames) /\ Len(rx) <= RxSize
  /\ DOMAIN incomplete \subseteq Keys
  /\ \A k \in DOMAIN incomplete : incomplete[k] \in Messages /\ incomplete[k].key = k
  /\ kc_recv_fifo \in Seq(Messages) /\ Len(kc_recv_fifo) <= FifoSize
  /\ halted \in BOOLEAN
  /\ delivered \in Seq(Messages)
  /\ faults \in 0 .. MaxFaults

\* The pieces message number of t consists of.
Pieced(t, number) ==
  LET size == sizes[t][number]
      pieces == IF size = 0 THEN 1 ELSE (size + 7) \div 8
  IN [i \in 1 .. pieces |-> PieceAt(t, number, 8 * (i - 1))]

Carries(m, t, number) == m.key = key[t] /\ m.payload = Pieced(t, number)

\* What is dispatched is a message somebody sent, whole: pieces in order, none
\* missing, none from another message.
DeliveredIntact ==
  \A i \in DOMAIN delivered :
    \E t \in Senders : \E number \in DOMAIN sizes[t] : Carries(delivered[i], t, number)

\* Messages of one sender are dispatched in the order they were sent, each once.
DeliveredInOrder ==
  \A i, j \in DOMAIN delivered :
    i < j /\ delivered[i].payload[1].from = delivered[j].payload[1].from
      => delivered[i].payload[1].number < delivered[j].payload[1].number

\* The receiver throws only when a frame was lost, a node restarted or its FIFO
\* overran: senders that interleave their frames do not disturb each other.
HaltHasCause == halted => faults > 0 \/ Len(kc_recv_fifo) = FifoSize

\* A message begun is dispatched in the end, unless something failed.
EveryMessageArrives ==
  \A t \in Senders : \A number \in 1 .. MaxMessages :
    Len(sizes[t]) >= number ~>
      \/ faults > 0 \/ halted
      \/ \E i \in DOMAIN delivered :
           number \in DOMAIN sizes[t] /\ Carries(delivered[i], t, number)

=============================================================================
