-------------------------- MODULE KCTransportProofs --------------------------
(***************************************************************************)
(* Transport of messages, for any number of senders and any sizes of their *)
(* messages, queues and mailboxes: every variable keeps its type; a        *)
(* message that is dispatched is whole and those of one sender are         *)
(* dispatched in their order, unless a frame is lost besides another       *)
(* fault; the receiver is stopped only for a cause.                        *)
(*                                                                         *)
(* The invariant is about the chain of frames of a sender: the one the     *)
(* receiver accepted last, those in its receive FIFO, those in the         *)
(* sender's mailboxes, and the next one to be sent. A frame of the chain   *)
(* either continues its neighbour, or is one the receiver can tell from    *)
(* its continuation.                                                       *)
(***************************************************************************)
EXTENDS KCTransport, TLAPS, SequenceTheorems

-----------------------------------------------------------------------------
(* What is underway from a sender to the receiver *)

KeysApart == \A t, u \in Senders : key[t] = key[u] => t = u

\* The frames of sequence s that carry key k, and whether they are in order.
FramesOf(s, k) == {s[i] : i \in {j \in DOMAIN s : s[j].key = k}}

Before(f, g) ==
  \/ f.data.number < g.data.number
  \/ f.data.number = g.data.number /\ f.data.offset < g.data.offset

Sorted(s, k) ==
  \A i, j \in DOMAIN s : i < j /\ s[i].key = k /\ s[j].key = k => Before(s[i], s[j])

AllBefore(A, B) == \A f \in A, g \in B : Before(f, g)

\* The frame accepted last of a message that is not complete.
Accepted(t) ==
  LET m == incomplete[key[t]] IN
  IF ~halted /\ key[t] \in DOMAIN incomplete
    THEN {[key |-> key[t], first |-> Len(m.payload) = 1, last |-> FALSE,
           counter |-> m.counter, data |-> m.payload[Len(m.payload)]]}
    ELSE {}
Received(t) == IF halted THEN {} ELSE FramesOf(rx, key[t])
OnWire(t) == FramesOf(wire[t], key[t])
Upcoming(t) ==
  IF sending[t].active THEN {FrameAt(t, sending[t].offset, sending[t].counter)} ELSE {}

Chain(t) == Accepted(t) \cup Received(t) \cup OnWire(t) \cup Upcoming(t)

Adjacent(C, a, b) == Before(a, b) /\ \A c \in C : ~ (Before(a, c) /\ Before(c, b))

\* b is the next piece of the message of a.
Continues(a, b) ==
  /\ ~b.first /\ ~a.last
  /\ b.data.number = a.data.number /\ b.data.offset = a.data.offset + 8
  /\ b.counter = NextCounter(a.counter)

\* A receiver that accepted a last accepts b only if it continues the message.
Link(a, b) ==
  \/ b.first /\ b.data.number > a.data.number
  \/ Continues(a, b)
  \/ ~b.first /\ (a.last \/ b.counter # NextCounter(a.counter))

\* Nothing is missing between a and b.
Unbroken(a, b) ==
  \/ a.last /\ b.first /\ b.data.number > a.data.number
  \/ Continues(a, b)

Linked(C) == \A a, b \in C : Adjacent(C, a, b) => Link(a, b)
Complete(C) == \A a, b \in C : Adjacent(C, a, b) => Unbroken(a, b)

\* f is a frame of a message t has begun.
Genuine(t, f) ==
  /\ f \in Frames
  /\ f.key = key[t]
  /\ f.data.number \in DOMAIN sizes[t]
  /\ f.data = PieceAt(t, f.data.number, f.data.offset)
  /\ f.first <=> f.data.offset = 0
  /\ f.last <=> sizes[t][f.data.number] - f.data.offset <= 8

InOrder(t) ==
  /\ ~halted => Sorted(rx, key[t])
  /\ Sorted(wire[t], key[t])
  /\ AllBefore(Accepted(t), Received(t))
  /\ AllBefore(Accepted(t) \cup Received(t), OnWire(t))
  /\ AllBefore(Accepted(t) \cup Received(t) \cup OnWire(t), Upcoming(t))

\* As long as nothing failed, no frame is missing and the oldest is the one expected.
WithoutFault(t) ==
  /\ Complete(Chain(t))
  /\ key[t] \notin DOMAIN incomplete =>
       \A f \in Chain(t) : (\A g \in Chain(t) : ~Before(g, f)) => f.first
  /\ ~sending[t].active =>
       \A f \in Chain(t) : (\A g \in Chain(t) : ~Before(f, g)) => f.last

\* The beginning of a message.
Partial(t) ==
  key[t] \in DOMAIN incomplete =>
    LET p == incomplete[key[t]].payload
        number == p[1].number
    IN /\ p # <<>>
       /\ number \in DOMAIN sizes[t]
       /\ p = [i \in 1 .. Len(p) |-> PieceAt(t, number, 8 * (i - 1))]
       /\ sizes[t][number] > 8 * Len(p)

\* Messages that are complete.
Done == {delivered[i] : i \in DOMAIN delivered} \cup {kc_recv_fifo[i] : i \in DOMAIN kc_recv_fifo}

Whole(m) == \E t \in Senders : \E number \in DOMAIN sizes[t] : Carries(m, t, number)

Precedes(m, n) ==
  m.payload[1].from = n.payload[1].from => m.payload[1].number < n.payload[1].number
Increasing(s) == \A i, j \in DOMAIN s : i < j => Precedes(s[i], s[j])

CompletedInOrder ==
  /\ Increasing(delivered) /\ Increasing(kc_recv_fifo)
  /\ \A i \in DOMAIN delivered, j \in DOMAIN kc_recv_fifo : Precedes(delivered[i], kc_recv_fifo[j])

\* A message of t that is done is older than those to come.
Fresh(t) ==
  \A m \in Done :
    m.payload[1].from = t =>
      /\ \A f \in Chain(t) : f.first => m.payload[1].number < f.data.number
      /\ key[t] \in DOMAIN incomplete =>
           m.payload[1].number < incomplete[key[t]].payload[1].number

SenderInv(t) ==
  /\ \A f \in Chain(t) : Genuine(t, f)
  /\ InOrder(t)
  /\ Linked(Chain(t))
  /\ ~halted /\ faults = 0 => WithoutFault(t)
  /\ Partial(t)
  /\ Fresh(t)

\* Each sender has frames of its own in its mailboxes, and has not sent past the end of
\* its message.
OwnFrames(t) == {f \in Frames : f.key = key[t]}

TypeInv ==
  /\ TypeOK
  /\ sizes \in [Senders -> Seq(Sizes)]
  /\ wire \in [Senders -> Seq(Frames)]
  /\ \A t \in Senders : wire[t] \in Seq(OwnFrames(t))
  /\ \A t \in Senders : sending[t].active =>
       /\ sizes[t] # <<>>
       /\ sending[t].offset = 0 \/ sending[t].offset < sizes[t][Len(sizes[t])]

\* What faults may have happened for a loss to be noticed: two lost frames can join the
\* pieces of two messages.
Trusted == faults <= 1 \/ "loss" \notin FaultKinds

TransportInv ==
  /\ TypeInv
  /\ Trusted => /\ \A m \in Done : Whole(m)
                /\ CompletedInOrder
                /\ \A t \in Senders : SenderInv(t)
  /\ HaltHasCause

-----------------------------------------------------------------------------
(* Types *)

LEMMA CounterTyped ==
  ASSUME NEW c \in Nat
  PROVE  NextCounter(c) \in 0 .. CounterMod - 1
<1>1. CounterMod \in Nat /\ CounterMod > 0
  BY TransportAssumption
<1>2. (c + 1) % CounterMod \in 0 .. CounterMod - 1
  BY <1>1
<1> QED
  BY <1>2 DEF NextCounter

LEMMA UpcomingTyped ==
  ASSUME TypeInv, NEW t \in Senders, sending[t].active
  PROVE  LET o == sending[t].offset
             f == FrameAt(t, o, sending[t].counter)
         IN /\ f \in Frames
            /\ Len(sizes[t]) \in DOMAIN sizes[t]
            /\ sizes[t][Len(sizes[t])] \in Nat
            /\ o \in Nat /\ o <= sizes[t][Len(sizes[t])]
<1> DEFINE o == sending[t].offset
           c == sending[t].counter
           n == Len(sizes[t])
           s == sizes[t][n]
<1>1. o \in Nat /\ c \in 0 .. CounterMod - 1
  BY DEF TypeInv, TypeOK
<1>2. n \in 1 .. MaxMessages /\ n \in DOMAIN sizes[t] /\ s \in Nat
  <2>1. sizes[t] \in Seq(Sizes) /\ sizes[t] # <<>> /\ Len(sizes[t]) <= MaxMessages
    BY DEF TypeInv, TypeOK
  <2>2. n \in Nat /\ n > 0 /\ DOMAIN sizes[t] = 1 .. n
    BY <2>1
  <2>3. s \in Sizes
    BY <2>1, <2>2
  <2>4. n \in 1 .. MaxMessages
    BY <2>1, <2>2, TransportAssumption
  <2> HIDE DEF n, s
  <2> QED
    BY <2>2, <2>3, <2>4, TransportAssumption
<1>3. o <= s
  <2>1. o = 0 \/ o < s
    BY DEF TypeInv
  <2> QED
    BY <1>1, <1>2, <2>1
<1>4. PieceAt(t, n, o) \in Pieces
  <2> HIDE DEF n, o
  <2>1. s - o \in Nat
    BY <1>1, <1>2, <1>3
  <2>2. (IF s - o <= 8 THEN s - o ELSE 8) \in 0 .. 8
    BY <2>1
  <2> QED
    BY <1>1, <1>2, <2>2 DEF PieceAt, Pieces
<1>5. FrameAt(t, o, c) \in Frames
  <2> HIDE DEF o, c
  <2>1. key[t] \in Keys
    BY DEF Keys
  <2>2. (o = 0) \in BOOLEAN /\ IsLast(t, o) \in BOOLEAN
    BY DEF IsLast
  <2> QED
    BY <1>1, <1>4, <2>1, <2>2 DEF FrameAt, Frames, n
<1> QED
  BY <1>1, <1>2, <1>3, <1>5

LEMMA TailTyped ==
  ASSUME NEW S, NEW s \in Seq(S), s # <<>>
  PROVE  Tail(s) \in Seq(S) /\ Len(Tail(s)) = Len(s) - 1 /\ Head(s) \in S /\ Len(s) \in Nat
OBVIOUS

LEMMA TypeInit == Init => TypeInv
<1> SUFFICES ASSUME Init PROVE TypeInv
  OBVIOUS
<1>1. /\ <<>> \in Seq(Sizes) /\ <<>> \in Seq(Frames) /\ <<>> \in Seq(Messages) /\ Len(<<>>) = 0
      /\ \A u \in Senders : <<>> \in Seq(OwnFrames(u))
  OBVIOUS
<1>2. Idle \in [offset : Nat, counter : 0 .. CounterMod - 1, active : BOOLEAN] /\ ~Idle.active
  BY TransportAssumption DEF Idle
<1>3. DOMAIN incomplete = {}
  BY DEF Init
<1>4. /\ sizes \in [Senders -> Seq(Sizes)] /\ wire \in [Senders -> Seq(Frames)]
      /\ \A t \in Senders : wire[t] \in Seq(OwnFrames(t))
      /\ \A t \in Senders : sizes[t] = <<>> /\ wire[t] = <<>> /\ ~sending[t].active
      /\ sending \in [Senders -> [offset : Nat, counter : 0 .. CounterMod - 1, active : BOOLEAN]]
  BY <1>1, <1>2 DEF Init
<1>5. rx = <<>> /\ kc_recv_fifo = <<>> /\ delivered = <<>> /\ halted = FALSE /\ faults = 0
  BY DEF Init
<1>6. 0 <= MaxMessages /\ 0 <= Mailboxes /\ 0 <= RxSize /\ 0 <= FifoSize /\ 0 \in 0 .. MaxFaults
  BY TransportAssumption
<1> QED
  BY <1>1, <1>3, <1>4, <1>5, <1>6 DEF TypeInv, TypeOK

LEMMA TypeBegin ==
  ASSUME TypeInv, NEW t \in Senders, Begin(t)
  PROVE  TypeInv'
<1> PICK size \in Sizes : sizes' = [sizes EXCEPT ![t] = Append(@, size)]
  BY DEF Begin
<1>1. sizes \in [Senders -> Seq(Sizes)]
  BY DEF TypeInv
<1> DEFINE s == Append(sizes[t], size)
<1>2. s \in Seq(Sizes) /\ Len(s) = Len(sizes[t]) + 1 /\ s # <<>> /\ Len(s) <= MaxMessages
  <2>1. sizes[t] \in Seq(Sizes) /\ Len(sizes[t]) < MaxMessages
    BY <1>1 DEF Begin
  <2>2. s \in Seq(Sizes) /\ Len(s) = Len(sizes[t]) + 1 /\ s # <<>>
    BY <2>1, AppendProperties
  <2> QED
    BY <2>1, <2>2, TransportAssumption
<1> HIDE DEF s
<1>3. sizes' = [sizes EXCEPT ![t] = s]
  BY DEF s
<1>4. sizes' \in [Senders -> Seq(Sizes)]
  BY <1>1, <1>2, <1>3
<1>5. \A u \in Senders : sizes'[u] \in Seq(Sizes) /\ Len(sizes'[u]) <= MaxMessages
  BY <1>1, <1>2, <1>3 DEF TypeInv, TypeOK
<1>6. sending' \in [Senders -> [offset : Nat, counter : 0 .. CounterMod - 1, active : BOOLEAN]]
  <2>1. [offset |-> 0, counter |-> 0, active |-> TRUE]
          \in [offset : Nat, counter : 0 .. CounterMod - 1, active : BOOLEAN]
    BY TransportAssumption
  <2> QED
    BY <2>1 DEF Begin, TypeInv, TypeOK
<1>7. \A u \in Senders : sending'[u].active =>
        /\ sizes'[u] # <<>>
        /\ sending'[u].offset = 0 \/ sending'[u].offset < sizes'[u][Len(sizes'[u])]
  <2>1. sizes'[t] = s /\ sending'[t].offset = 0
    BY <1>1, <1>3 DEF Begin, TypeInv, TypeOK
  <2>2. \A u \in Senders : u # t => sizes'[u] = sizes[u] /\ sending'[u] = sending[u]
    BY <1>1, <1>3 DEF Begin, TypeInv, TypeOK
  <2> QED
    BY <1>2, <2>1, <2>2 DEF TypeInv
<1> QED
  BY <1>4, <1>5, <1>6, <1>7 DEF Begin, TypeInv, TypeOK, receiver

LEMMA TypeTransmit ==
  ASSUME TypeInv, NEW t \in Senders, TransmitFrame(t)
  PROVE  TypeInv'
<1> DEFINE o == sending[t].offset
           f == FrameAt(t, o, sending[t].counter)
           s == sizes[t][Len(sizes[t])]
           on == [offset |-> o + 8, counter |-> NextCounter(sending[t].counter), active |-> TRUE]
           State == [offset : Nat, counter : 0 .. CounterMod - 1, active : BOOLEAN]
<1>1. f \in Frames /\ o \in Nat /\ s \in Nat /\ sizes[t] # <<>>
  BY UpcomingTyped DEF TransmitFrame, TypeInv
<1>2. /\ wire' = [wire EXCEPT ![t] = Append(@, f)] /\ Len(wire[t]) < Mailboxes
      /\ sending' = [sending EXCEPT ![t] = IF o + 8 < s THEN on ELSE Idle]
      /\ sending \in [Senders -> State] /\ wire \in [Senders -> Seq(Frames)]
  BY DEF TransmitFrame, TypeInv, TypeOK
<1>3. on \in State /\ Idle \in State /\ ~Idle.active /\ on.offset = o + 8
  <2>1. NextCounter(sending[t].counter) \in 0 .. CounterMod - 1
    <3>1. sending[t].counter \in Nat
      BY <1>2
    <3> QED
      BY <3>1, CounterTyped
  <2> QED
    BY <1>1, <2>1, TransportAssumption DEF Idle
<1>4. /\ Append(wire[t], f) \in Seq(Frames) /\ Append(wire[t], f) \in Seq(OwnFrames(t))
      /\ Len(Append(wire[t], f)) <= Mailboxes
  <2>1. f \in OwnFrames(t)
    BY <1>1 DEF OwnFrames, FrameAt
  <2>2. wire[t] \in Seq(OwnFrames(t))
    BY DEF TypeInv
  <2> HIDE DEF f
  <2> QED
    BY <1>1, <1>2, <2>1, <2>2, TransportAssumption
<1> HIDE DEF f, on, State, o, s
<1>5. /\ wire' \in [Senders -> Seq(Frames)]
      /\ \A u \in Senders : Len(wire'[u]) <= Mailboxes /\ wire'[u] \in Seq(OwnFrames(u))
  BY <1>2, <1>4 DEF TypeInv, TypeOK
<1>6. sending' \in [Senders -> State]
  BY <1>2, <1>3
<1>7. \A u \in Senders : sending'[u].active =>
        /\ sizes[u] # <<>>
        /\ sending'[u].offset = 0 \/ sending'[u].offset < sizes[u][Len(sizes[u])]
  <2>1. sending'[t] = IF o + 8 < s THEN on ELSE Idle
    BY <1>2
  <2>2. \A u \in Senders : u # t => sending'[u] = sending[u]
    BY <1>2
  <2> QED
    BY <1>1, <1>3, <2>1, <2>2 DEF TypeInv, s
<1> QED
  BY <1>5, <1>6, <1>7 DEF TransmitFrame, TypeInv, TypeOK, receiver, State

LEMMA ExtendedTyped ==
  ASSUME TypeInv, NEW f \in Frames
  PROVE  Extended(f) \in Messages
<1> DEFINE p == IF f.key \in DOMAIN incomplete THEN incomplete[f.key].payload ELSE <<>>
<1>1. p \in Seq(Pieces)
  BY DEF TypeInv, TypeOK, Messages
<1>2. f.data \in Pieces /\ f.key \in Keys /\ f.counter \in 0 .. CounterMod - 1
  BY DEF Frames
<1>3. p \o <<f.data>> \in Seq(Pieces)
  BY <1>1, <1>2
<1> HIDE DEF p
<1> QED
  BY <1>2, <1>3 DEF Extended, Messages, p

LEMMA TypeReceive ==
  ASSUME TypeInv, ReceiveInterrupt
  PROVE  TypeInv'
<1> DEFINE f == Head(rx)
           m == Extended(f)
<1>1. /\ rx' = Tail(rx) /\ rx # <<>> /\ rx \in Seq(Frames)
      /\ UNCHANGED <<sizes, sending, wire, delivered, faults>>
  BY DEF ReceiveInterrupt, can_read_frame_from_fifo, sender, TypeInv, TypeOK
<1>2. f \in Frames /\ rx' \in Seq(Frames) /\ Len(rx') <= RxSize
  <2>1. Tail(rx) \in Seq(Frames) /\ Len(Tail(rx)) = Len(rx) - 1 /\ f \in Frames /\ Len(rx) \in Nat
    BY <1>1, TailTyped
  <2>2. Len(rx) <= RxSize
    BY DEF TypeInv, TypeOK
  <2> QED
    BY <1>1, <2>1, <2>2, TransportAssumption
<1>3. m \in Messages /\ m.key = f.key /\ f.key \in Keys
  BY <1>2, ExtendedTyped DEF Extended, Frames
<1> HIDE DEF f, m
<1>4. /\ kc_recv_fifo' \in Seq(Messages) /\ Len(kc_recv_fifo') <= FifoSize
      /\ halted' \in BOOLEAN
      /\ DOMAIN incomplete' \subseteq Keys
      /\ \A k \in DOMAIN incomplete' : incomplete'[k] \in Messages /\ incomplete'[k].key = k
  <2>1. /\ kc_recv_fifo \in Seq(Messages) /\ Len(kc_recv_fifo) <= FifoSize
        /\ halted \in BOOLEAN
        /\ DOMAIN incomplete \subseteq Keys
        /\ \A k \in DOMAIN incomplete : incomplete[k] \in Messages /\ incomplete[k].key = k
    BY DEF TypeInv, TypeOK
  <2>2. CASE Fits(f) /\ f.last
    <3>1. incomplete' = Without(f.key) /\ kc_recv_fifo' = Append(kc_recv_fifo, m) /\ halted' = halted
      BY <2>2 DEF ReceiveInterrupt, Accept, f, m
    <3>2. Len(kc_recv_fifo) < FifoSize
      BY <2>2 DEF Fits
    <3>3. Append(kc_recv_fifo, m) \in Seq(Messages)
          /\ Len(Append(kc_recv_fifo, m)) <= FifoSize
      BY <1>3, <2>1, <3>2, TransportAssumption
    <3>4. /\ DOMAIN incomplete' \subseteq DOMAIN incomplete
          /\ \A k \in DOMAIN incomplete' : incomplete'[k] = incomplete[k]
      BY <3>1 DEF Without
    <3> QED
      BY <2>1, <3>1, <3>3, <3>4
  <2>3. CASE Fits(f) /\ ~f.last
    <3>1. incomplete' = With(m) /\ kc_recv_fifo' = kc_recv_fifo /\ halted' = halted
      BY <2>3 DEF ReceiveInterrupt, Accept, f, m
    <3>2. /\ DOMAIN incomplete' = DOMAIN incomplete \cup {f.key}
          /\ \A k \in DOMAIN incomplete' :
               incomplete'[k] = IF k = f.key THEN m ELSE incomplete[k]
      BY <1>3, <3>1 DEF With
    <3> QED
      BY <1>3, <2>1, <3>1, <3>2
  <2>4. CASE ~Fits(f)
    BY <2>1, <2>4 DEF ReceiveInterrupt, Throw, f
  <2> QED
    BY <2>2, <2>3, <2>4
<1> QED
  BY <1>1, <1>2, <1>4 DEF TypeInv, TypeOK

LEMMA TypeArrive ==
  ASSUME TypeInv, NEW t \in Senders, BusFrame(t),
         rx' = rx \/ (Len(rx) < RxSize /\ rx' = Append(rx, Head(wire[t]))),
         faults' \in 0 .. MaxFaults,
         UNCHANGED <<sizes, sending, incomplete, kc_recv_fifo, halted, delivered>>
  PROVE  TypeInv'
<1>1. /\ wire \in [Senders -> Seq(Frames)] /\ wire[t] # <<>> /\ Len(wire[t]) <= Mailboxes
      /\ wire' = [wire EXCEPT ![t] = Tail(@)]
  BY DEF BusFrame, TypeInv, TypeOK
<1>2. /\ Tail(wire[t]) \in Seq(Frames) /\ Len(Tail(wire[t])) <= Mailboxes
      /\ Head(wire[t]) \in Frames /\ Tail(wire[t]) \in Seq(OwnFrames(t))
  <2>1. /\ Tail(wire[t]) \in Seq(Frames) /\ Len(Tail(wire[t])) = Len(wire[t]) - 1
        /\ Head(wire[t]) \in Frames /\ Len(wire[t]) \in Nat
    BY <1>1, TailTyped
  <2>2. Tail(wire[t]) \in Seq(OwnFrames(t))
    BY <1>1, TailTyped DEF TypeInv
  <2> QED
    BY <1>1, <2>1, <2>2, TransportAssumption
<1>3. /\ wire' \in [Senders -> Seq(Frames)]
      /\ \A u \in Senders : Len(wire'[u]) <= Mailboxes /\ wire'[u] \in Seq(OwnFrames(u))
  BY <1>1, <1>2 DEF TypeInv, TypeOK
<1>4. rx' \in Seq(Frames) /\ Len(rx') <= RxSize
  <2>1. rx \in Seq(Frames) /\ Len(rx) <= RxSize
    BY DEF TypeInv, TypeOK
  <2> QED
    BY <1>2, <2>1, TransportAssumption
<1> QED
  BY <1>3, <1>4 DEF TypeInv, TypeOK

LEMMA TypeDispatch ==
  ASSUME TypeInv, Dispatch
  PROVE  TypeInv'
<1>1. /\ kc_recv_fifo \in Seq(Messages) /\ kc_recv_fifo # <<>> /\ Len(kc_recv_fifo) <= FifoSize
      /\ kc_recv_fifo' = Tail(kc_recv_fifo) /\ delivered' = Append(delivered, Head(kc_recv_fifo))
      /\ delivered \in Seq(Messages)
  BY DEF Dispatch, TypeInv, TypeOK
<1>2. /\ Tail(kc_recv_fifo) \in Seq(Messages) /\ Head(kc_recv_fifo) \in Messages
      /\ Len(Tail(kc_recv_fifo)) <= FifoSize
  <2>1. /\ Tail(kc_recv_fifo) \in Seq(Messages) /\ Len(Tail(kc_recv_fifo)) = Len(kc_recv_fifo) - 1
        /\ Head(kc_recv_fifo) \in Messages /\ Len(kc_recv_fifo) \in Nat
    BY <1>1, TailTyped
  <2> QED
    BY <1>1, <2>1, TransportAssumption
<1>3. delivered' \in Seq(Messages)
  BY <1>1, <1>2
<1> QED
  BY <1>1, <1>2, <1>3 DEF Dispatch, TypeInv, TypeOK, sender

LEMMA TypeRestart ==
  ASSUME TypeInv, RestartReceiver \/ \E t \in Senders : RestartSender(t)
  PROVE  TypeInv'
<1>1. /\ <<>> \in Seq(Frames) /\ <<>> \in Seq(Messages) /\ Len(<<>>) = 0
      /\ \A u \in Senders : <<>> \in Seq(OwnFrames(u))
  OBVIOUS
<1>2. Idle \in [offset : Nat, counter : 0 .. CounterMod - 1, active : BOOLEAN] /\ ~Idle.active
  BY TransportAssumption DEF Idle
<1>3. faults' \in 0 .. MaxFaults
  BY TransportAssumption DEF RestartReceiver, RestartSender, Fault, TypeInv, TypeOK
<1>4. CASE RestartReceiver
  <2>1. DOMAIN incomplete' = {}
    BY <1>4 DEF RestartReceiver
  <2>2. /\ rx' = <<>> /\ kc_recv_fifo' = <<>> /\ halted' = FALSE
        /\ UNCHANGED <<sizes, sending, wire, delivered>>
    BY <1>4 DEF RestartReceiver, sender
  <2>3. 0 <= RxSize /\ 0 <= FifoSize
    BY TransportAssumption
  <2> QED
    BY <1>1, <1>3, <2>1, <2>2, <2>3 DEF TypeInv, TypeOK
<1>5. ASSUME NEW t \in Senders, RestartSender(t)
      PROVE  TypeInv'
  <2>1. /\ sending' = [sending EXCEPT ![t] = Idle] /\ wire' = [wire EXCEPT ![t] = <<>>]
        /\ UNCHANGED <<sizes, rx, incomplete, kc_recv_fifo, halted, delivered>>
    BY <1>5 DEF RestartSender, receiver
  <2>2. sending' \in [Senders -> [offset : Nat, counter : 0 .. CounterMod - 1, active : BOOLEAN]]
    BY <1>2, <2>1 DEF TypeInv, TypeOK
  <2>3. /\ wire' \in [Senders -> Seq(Frames)]
        /\ \A u \in Senders : Len(wire'[u]) <= Mailboxes /\ wire'[u] \in Seq(OwnFrames(u))
    BY <1>1, <2>1, TransportAssumption DEF TypeInv, TypeOK
  <2>4. \A u \in Senders : sending'[u].active => u # t /\ sending'[u] = sending[u]
    BY <1>2, <2>1 DEF TypeInv, TypeOK
  <2> QED
    BY <1>3, <2>1, <2>2, <2>3, <2>4 DEF TypeInv, TypeOK
<1> QED
  BY <1>4, <1>5

LEMMA TypeStep == TypeInv /\ [Next]_vars => TypeInv'
<1> SUFFICES ASSUME TypeInv, [Next]_vars PROVE TypeInv'
  OBVIOUS
<1>1. CASE UNCHANGED vars
  BY <1>1 DEF vars, sender, receiver, TypeInv, TypeOK
<1>2. ASSUME NEW t \in Senders, Arrive(t) \/ Overrun(t)
      PROVE  TypeInv'
  <2>1. faults \in 0 .. MaxFaults
    BY DEF TypeInv, TypeOK
  <2>2. faults' \in 0 .. MaxFaults
    BY <1>2, <2>1, TransportAssumption DEF Arrive, Overrun, Fault
  <2> QED
    BY <1>2, <2>2, TypeArrive DEF Arrive, Overrun, sender, receiver
<1> QED
  BY <1>1, <1>2, TypeBegin, TypeTransmit, TypeReceive, TypeDispatch, TypeRestart DEF Next

\* kc_frame_transmit, can_recv_callback and kc_process_incoming keep every variable in its
\* type, whatever fails; the FIFOs never exceed their arrays.
THEOREM TransportTyped == Spec => []TypeOK
<1>1. TypeInv => TypeOK
  BY DEF TypeInv
<1> QED
  BY <1>1, TypeInit, TypeStep, PTL DEF Spec

-----------------------------------------------------------------------------
(* Frames in order *)

LEMMA BeforeOrders ==
  ASSUME NEW f \in Frames, NEW g \in Frames, NEW h \in Frames
  PROVE  /\ ~Before(f, f)
         /\ Before(f, g) => ~Before(g, f)
         /\ Before(f, g) /\ Before(g, h) => Before(f, h)
<1>1. /\ f.data.number \in Nat /\ f.data.offset \in Nat
      /\ g.data.number \in Nat /\ g.data.offset \in Nat
      /\ h.data.number \in Nat /\ h.data.offset \in Nat
  BY TransportAssumption DEF Frames, Pieces
<1> QED
  BY <1>1 DEF Before

\* Taking away the oldest, or the newest frames makes no new neighbours.
LEMMA PartAdjacent ==
  ASSUME NEW C \in SUBSET Frames, NEW D \in SUBSET C,
         AllBefore(C \ D, D) \/ AllBefore(D, C \ D),
         NEW a \in D, NEW b \in D, Adjacent(D, a, b)
  PROVE  Adjacent(C, a, b)
<1>1. Before(a, b) /\ a \in Frames /\ b \in Frames
  BY DEF Adjacent
<1>2. ASSUME NEW c \in C \ D PROVE ~ (Before(a, c) /\ Before(c, b))
  <2>1. c \in Frames
    OBVIOUS
  <2>2. CASE AllBefore(C \ D, D)
    BY <1>1, <2>1, <2>2, BeforeOrders DEF AllBefore
  <2>3. CASE AllBefore(D, C \ D)
    BY <1>1, <2>1, <2>3, BeforeOrders DEF AllBefore
  <2> QED
    BY <2>2, <2>3
<1> QED
  BY <1>1, <1>2 DEF Adjacent

LEMMA PartLinked ==
  ASSUME NEW C \in SUBSET Frames, NEW D \in SUBSET C,
         AllBefore(C \ D, D) \/ AllBefore(D, C \ D)
  PROVE  (Linked(C) => Linked(D)) /\ (Complete(C) => Complete(D))
<1>1. \A a, b \in D : Adjacent(D, a, b) => Adjacent(C, a, b)
  BY PartAdjacent
<1> QED
  BY <1>1 DEF Linked, Complete

\* A new frame has the newest of the others as its neighbour.
LEMMA NewestAdjacent ==
  ASSUME NEW C \in SUBSET Frames, NEW m \in Frames, AllBefore(C, {m}),
         NEW a \in C \cup {m}, NEW b \in C \cup {m}, Adjacent(C \cup {m}, a, b)
  PROVE  /\ a \in C
         /\ \/ b \in C /\ Adjacent(C, a, b)
            \/ b = m /\ \A c \in C : ~Before(a, c)
<1>1. a \in Frames /\ b \in Frames /\ Before(a, b) /\ \A c \in C : Before(c, m)
  BY DEF Adjacent, AllBefore
<1>2. a # m
  <2>1. b = m \/ Before(b, m)
    BY <1>1
  <2> QED
    BY <1>1, <2>1, BeforeOrders
<1>3. CASE b \in C
  BY <1>2, <1>3 DEF Adjacent
<1>4. CASE b = m
  BY <1>1, <1>2, <1>4 DEF Adjacent
<1> QED
  BY <1>2, <1>3, <1>4

\* Without the frame h its neighbours are neighbours.
LEMMA InnerAdjacent ==
  ASSUME NEW C \in SUBSET Frames, NEW h \in C,
         NEW a \in C \ {h}, NEW b \in C \ {h}, Adjacent(C \ {h}, a, b)
  PROVE  Adjacent(C, a, b) \/ (Adjacent(C, a, h) /\ Adjacent(C, h, b))
<1>1. SUFFICES ASSUME ~Adjacent(C, a, b)
               PROVE  Adjacent(C, a, h) /\ Adjacent(C, h, b)
  OBVIOUS
<1>2. Before(a, h) /\ Before(h, b)
  BY <1>1 DEF Adjacent
<1>3. ASSUME NEW c \in C
      PROVE  ~ (Before(a, c) /\ Before(c, h)) /\ ~ (Before(h, c) /\ Before(c, b))
  <2>1. a \in Frames /\ b \in Frames /\ c \in Frames /\ h \in Frames
    OBVIOUS
  <2>2. CASE c = h
    BY <2>1, <2>2, BeforeOrders
  <2>3. CASE c # h
    BY <1>2, <2>1, <2>3, BeforeOrders DEF Adjacent
  <2> QED
    BY <2>2, <2>3
<1> QED
  BY <1>2, <1>3 DEF Adjacent

LEMMA CounterMoves ==
  ASSUME CounterMod > 1, NEW c \in Nat
  PROVE  NextCounter(NextCounter(c)) # NextCounter(c)
<1> DEFINE d == NextCounter(c)
<1>1. d \in 0 .. CounterMod - 1 /\ CounterMod \in Nat
  BY CounterTyped, TransportAssumption
<1> HIDE DEF d
<1>2. CASE d + 1 < CounterMod
  <2>1. (d + 1) % CounterMod = d + 1
    BY <1>1, <1>2
  <2> QED
    BY <1>1, <2>1 DEF NextCounter, d
<1>3. CASE d + 1 = CounterMod
  <2>1. (d + 1) % CounterMod = 0
    BY <1>1, <1>3
  <2>2. d # 0
    BY <1>3
  <2> QED
    BY <2>1, <2>2 DEF NextCounter, d
<1> QED
  BY <1>1, <1>2, <1>3

\* Where one frame is missing in an unbroken chain the receiver sees it.
LEMMA OneGapLinks ==
  ASSUME CounterMod > 1, NEW a \in Frames, NEW h \in Frames, NEW b \in Frames,
         Unbroken(a, h), Unbroken(h, b)
  PROVE  Link(a, b)
<1>1. /\ a.data.number \in Nat /\ h.data.number \in Nat /\ b.data.number \in Nat
      /\ a.counter \in Nat
  BY TransportAssumption DEF Frames, Pieces
<1>2. CASE Continues(a, h) /\ Continues(h, b)
  <2>1. b.counter = NextCounter(NextCounter(a.counter)) /\ ~b.first
    BY <1>2 DEF Continues
  <2> QED
    BY <1>1, <2>1, CounterMoves DEF Link
<1>3. CASE ~Continues(a, h) \/ ~Continues(h, b)
  BY <1>1, <1>3 DEF Unbroken, Link, Continues
<1> QED
  BY <1>2, <1>3

LEMMA UnbrokenLinks ==
  ASSUME NEW a, NEW b, Unbroken(a, b)
  PROVE  Link(a, b)
BY DEF Unbroken, Link

-----------------------------------------------------------------------------
(* Queues of frames *)

LEMMA FramesOfTyped ==
  ASSUME NEW s \in Seq(Frames), NEW k
  PROVE  FramesOf(s, k) \in SUBSET Frames /\ \A f \in FramesOf(s, k) : f.key = k
BY DEF FramesOf

LEMMA EmptyQueue ==
  ASSUME NEW k
  PROVE  FramesOf(<<>>, k) = {} /\ Sorted(<<>>, k)
<1>1. DOMAIN <<>> = {}
  OBVIOUS
<1> QED
  BY <1>1 DEF FramesOf, Sorted

LEMMA FramesOfAppend ==
  ASSUME NEW s \in Seq(Frames), NEW f \in Frames, NEW k
  PROVE  /\ FramesOf(Append(s, f), k) = FramesOf(s, k) \cup (IF f.key = k THEN {f} ELSE {})
         /\ Sorted(s, k) /\ (f.key = k => AllBefore(FramesOf(s, k), {f}))
              => Sorted(Append(s, f), k)
<1> DEFINE a == Append(s, f)
           n == Len(s)
<1>1. /\ n \in Nat /\ DOMAIN s = 1 .. n /\ DOMAIN a = 1 .. n + 1
      /\ \A i \in 1 .. n : a[i] = s[i]
      /\ a[n + 1] = f
  OBVIOUS
<1> HIDE DEF a, n
<1>2. FramesOf(a, k) = FramesOf(s, k) \cup (IF f.key = k THEN {f} ELSE {})
  BY <1>1 DEF FramesOf
<1>3. ASSUME Sorted(s, k), f.key = k => AllBefore(FramesOf(s, k), {f})
      PROVE  Sorted(a, k)
  <2> SUFFICES ASSUME NEW i \in DOMAIN a, NEW j \in DOMAIN a, i < j, a[i].key = k, a[j].key = k
               PROVE  Before(a[i], a[j])
    BY DEF Sorted
  <2>1. i \in 1 .. n /\ a[i] = s[i]
    BY <1>1
  <2>2. CASE j \in 1 .. n
    BY <1>1, <1>3, <2>1, <2>2 DEF Sorted
  <2>3. CASE j = n + 1
    <3>1. a[j] = f /\ f.key = k /\ s[i] \in FramesOf(s, k)
      BY <1>1, <2>1, <2>3 DEF FramesOf
    <3> QED
      BY <1>3, <2>1, <3>1 DEF AllBefore
  <2> QED
    BY <1>1, <2>2, <2>3
<1> QED
  BY <1>2, <1>3 DEF a

LEMMA FramesOfTail ==
  ASSUME NEW s \in Seq(Frames), s # <<>>, NEW k
  PROVE  /\ FramesOf(s, k) =
              FramesOf(Tail(s), k) \cup (IF Head(s).key = k THEN {Head(s)} ELSE {})
         /\ Sorted(s, k) =>
              /\ Sorted(Tail(s), k)
              /\ Head(s).key = k => AllBefore({Head(s)}, FramesOf(Tail(s), k))
<1> DEFINE h == Head(s)
           r == Tail(s)
           n == Len(s)
<1>1. /\ n \in Nat \ {0} /\ DOMAIN s = 1 .. n /\ DOMAIN r = 1 .. n - 1
      /\ \A i \in 1 .. n - 1 : r[i] = s[i + 1]
      /\ h = s[1]
  <2>1. n \in Nat \ {0} /\ DOMAIN s = 1 .. n
    OBVIOUS
  <2>2. Len(r) = n - 1 /\ \A i \in 1 .. Len(r) : r[i] = s[i + 1]
    BY HeadTailProperties
  <2>3. r \in Seq(Frames)
    OBVIOUS
  <2> HIDE DEF r
  <2>4. DOMAIN r = 1 .. n - 1
    BY <2>2, <2>3
  <2> QED
    BY <2>1, <2>2, <2>4
<1> HIDE DEF h, r, n
<1>2. \A i \in 1 .. n : i = 1 \/ (i - 1 \in 1 .. n - 1 /\ s[i] = r[i - 1])
  BY <1>1
<1>3. FramesOf(s, k) = FramesOf(r, k) \cup (IF h.key = k THEN {h} ELSE {})
  <2>1. \A i \in DOMAIN s : s[i].key = k => s[i] \in FramesOf(r, k) \/ (s[i] = h /\ h.key = k)
    BY <1>1, <1>2 DEF FramesOf
  <2>2. \A i \in DOMAIN r : r[i].key = k => r[i] \in FramesOf(s, k)
    <3>1. \A i \in DOMAIN r : i + 1 \in DOMAIN s /\ r[i] = s[i + 1]
      BY <1>1
    <3> QED
      BY <3>1 DEF FramesOf
  <2>3. h.key = k => h \in FramesOf(s, k)
    <3>1. 1 \in DOMAIN s
      BY <1>1
    <3> QED
      BY <1>1, <3>1 DEF FramesOf
  <2>4. \A f \in FramesOf(s, k) : f \in FramesOf(r, k) \/ (f = h /\ h.key = k)
    BY <2>1 DEF FramesOf
  <2>5. \A f \in FramesOf(r, k) : f \in FramesOf(s, k)
    BY <2>2 DEF FramesOf
  <2> QED
    BY <2>3, <2>4, <2>5
<1>4. ASSUME Sorted(s, k)
      PROVE  Sorted(r, k) /\ (h.key = k => AllBefore({h}, FramesOf(r, k)))
  <2>1. Sorted(r, k)
    <3> SUFFICES ASSUME NEW i \in DOMAIN r, NEW j \in DOMAIN r, i < j, r[i].key = k, r[j].key = k
                 PROVE  Before(r[i], r[j])
      BY DEF Sorted
    <3>1. i + 1 \in DOMAIN s /\ j + 1 \in DOMAIN s /\ i + 1 < j + 1
          /\ r[i] = s[i + 1] /\ r[j] = s[j + 1]
      BY <1>1
    <3> QED
      BY <1>4, <3>1 DEF Sorted
  <2>2. ASSUME h.key = k, NEW i \in DOMAIN r, r[i].key = k
        PROVE  Before(h, r[i])
    <3>1. 1 \in DOMAIN s /\ i + 1 \in DOMAIN s /\ 1 < i + 1 /\ h = s[1] /\ r[i] = s[i + 1]
      BY <1>1
    <3> QED
      BY <1>4, <2>2, <3>1 DEF Sorted
  <2> QED
    BY <2>1, <2>2 DEF AllBefore, FramesOf
<1> QED
  BY <1>3, <1>4 DEF h, r

-----------------------------------------------------------------------------
(* What every step keeps *)

LEMMA ChainOrder ==
  ASSUME NEW t \in Senders, SenderInv(t)
  PROVE  /\ Chain(t) \in SUBSET Frames
         /\ AllBefore(Accepted(t), Received(t) \cup OnWire(t) \cup Upcoming(t))
         /\ AllBefore(Accepted(t) \cup Received(t), OnWire(t) \cup Upcoming(t))
         /\ AllBefore(Accepted(t) \cup Received(t) \cup OnWire(t), Upcoming(t))
<1>1. Chain(t) \in SUBSET Frames
  BY DEF SenderInv, Genuine
<1> QED
  BY <1>1 DEF SenderInv, InOrder, AllBefore

LEMMA FrameOrder ==
  ASSUME NEW t \in Senders, NEW f, Genuine(t, f), NEW g, Genuine(t, g)
  PROVE  /\ f.data.number \in Nat /\ f.data.offset \in Nat /\ f.data.from = t
         /\ Before(f, g) /\ g.first => f.data.number < g.data.number
<1>1. /\ f.data.number \in Nat /\ f.data.offset \in Nat
      /\ g.data.number \in Nat /\ g.data.offset \in Nat
  BY TransportAssumption DEF Genuine, Frames, Pieces
<1>2. f.data.from = t
  BY DEF Genuine, PieceAt
<1> QED
  BY <1>1, <1>2 DEF Genuine, Before

SizesKept(t) ==
  \A n \in DOMAIN sizes[t] : n \in DOMAIN sizes'[t] /\ sizes'[t][n] = sizes[t][n]

LEMMA GenuineKept ==
  ASSUME NEW t \in Senders, SizesKept(t), NEW f, Genuine(t, f)
  PROVE  Genuine(t, f)'
BY DEF SizesKept, Genuine, PieceAt

LEMMA PartialKept ==
  ASSUME NEW t \in Senders, SizesKept(t), Partial(t),
         key[t] \in DOMAIN incomplete' =>
           key[t] \in DOMAIN incomplete /\ incomplete'[key[t]] = incomplete[key[t]]
  PROVE  Partial(t)'
BY DEF SizesKept, Partial, PieceAt

LEMMA FreshKept ==
  ASSUME NEW t \in Senders, Fresh(t),
         \A f \in Chain(t)' : f \in Chain(t) \/ ~f.first,
         \A m \in Done' : m \in Done \/ m.payload[1].from # t,
         key[t] \in DOMAIN incomplete' =>
           key[t] \in DOMAIN incomplete /\ incomplete'[key[t]] = incomplete[key[t]]
  PROVE  Fresh(t)'
BY DEF Fresh

LEMMA SameChain ==
  ASSUME NEW u \in Senders, SenderInv(u),
         Chain(u)' = Chain(u), InOrder(u)', SizesKept(u),
         sending'[u].active <=> sending[u].active,
         key[u] \in DOMAIN incomplete' <=> key[u] \in DOMAIN incomplete,
         key[u] \in DOMAIN incomplete => incomplete'[key[u]] = incomplete[key[u]],
         ~halted' /\ faults' = 0 => ~halted /\ faults = 0,
         \A m \in Done' : m \in Done \/ m.payload[1].from # u
  PROVE  SenderInv(u)'
<1>1. \A f \in Chain(u)' : Genuine(u, f)'
  BY GenuineKept DEF SenderInv
<1>2. Linked(Chain(u)')
  BY DEF SenderInv
<1>3. ~halted' /\ faults' = 0 => WithoutFault(u)'
  <2>1. WithoutFault(u)' <=> WithoutFault(u)
    BY DEF WithoutFault
  <2> QED
    BY <2>1 DEF SenderInv
<1>4. Partial(u)'
  BY PartialKept DEF SenderInv
<1>5. Fresh(u)'
  BY FreshKept DEF SenderInv
<1> QED
  BY <1>1, <1>2, <1>3, <1>4, <1>5 DEF SenderInv

LEMMA Untouched ==
  ASSUME NEW u \in Senders, SenderInv(u),
         Accepted(u)' = Accepted(u), Received(u)' = Received(u),
         OnWire(u)' = OnWire(u), Upcoming(u)' = Upcoming(u),
         sizes'[u] = sizes[u], sending'[u] = sending[u],
         ~halted' => Sorted(rx', key[u]),
         Sorted(wire'[u], key[u]),
         key[u] \in DOMAIN incomplete' <=> key[u] \in DOMAIN incomplete,
         key[u] \in DOMAIN incomplete => incomplete'[key[u]] = incomplete[key[u]],
         ~halted' /\ faults' = 0 => ~halted /\ faults = 0,
         \A m \in Done' : m \in Done \/ m.payload[1].from # u
  PROVE  SenderInv(u)'
<1>1. Chain(u)' = Chain(u)
  BY DEF Chain
<1>2. SizesKept(u)
  BY DEF SizesKept
<1>3. InOrder(u)'
  BY DEF SenderInv, InOrder
<1> QED
  BY <1>1, <1>2, <1>3, SameChain

\* A part of the chain is gone for good.
LEMMA Cut ==
  ASSUME NEW t \in Senders, SenderInv(t), halted' \/ faults' > 0, SizesKept(t),
         Chain(t)' \subseteq Chain(t),
         \/ AllBefore(Chain(t) \ Chain(t)', Chain(t)')
         \/ AllBefore(Chain(t)', Chain(t) \ Chain(t)'),
         InOrder(t)',
         Done' \subseteq Done,
         key[t] \in DOMAIN incomplete' =>
           key[t] \in DOMAIN incomplete /\ incomplete'[key[t]] = incomplete[key[t]]
  PROVE  SenderInv(t)'
<1>1. \A f \in Chain(t)' : Genuine(t, f)'
  BY GenuineKept DEF SenderInv
<1>2. Chain(t) \in SUBSET Frames
  BY ChainOrder
<1>3. Linked(Chain(t)')
  <2> DEFINE C == Chain(t)
             D == Chain(t)'
  <2>1. D \in SUBSET C /\ C \in SUBSET Frames /\ Linked(C)
    BY <1>2 DEF SenderInv
  <2>2. AllBefore(C \ D, D) \/ AllBefore(D, C \ D)
    OBVIOUS
  <2> HIDE DEF C, D
  <2>3. Linked(D)
    BY <2>1, <2>2, PartLinked
  <2> QED
    BY <2>3 DEF D
<1>4. Partial(t)'
  BY PartialKept DEF SenderInv
<1>5. Fresh(t)'
  BY FreshKept DEF SenderInv
<1> QED
  BY <1>1, <1>3, <1>4, <1>5 DEF SenderInv

LEMMA PiecedStarts ==
  ASSUME TypeInv, NEW t \in Senders, NEW n \in DOMAIN sizes[t]
  PROVE  /\ sizes[t][n] \in Nat
         /\ Len(Pieced(t, n)) \in Nat \ {0}
         /\ Pieced(t, n)[1] = PieceAt(t, n, 0)
<1> DEFINE s == sizes[t][n]
           pieces == IF s = 0 THEN 1 ELSE (s + 7) \div 8
<1>1. s \in Nat
  <2>1. s \in Sizes
    BY DEF TypeInv
  <2> QED
    BY <2>1, TransportAssumption
<1> HIDE DEF s
<1>2. pieces \in Nat \ {0}
  BY <1>1
<1>3. Pieced(t, n) = [i \in 1 .. pieces |-> PieceAt(t, n, 8 * (i - 1))]
  BY DEF Pieced, s
<1> HIDE DEF pieces
<1>4. 1 \in 1 .. pieces /\ 8 * (1 - 1) = 0 /\ Len(Pieced(t, n)) = pieces
  BY <1>2, <1>3
<1> QED
  BY <1>1, <1>2, <1>3, <1>4 DEF s

LEMMA WholeKept ==
  ASSUME \A t \in Senders : SizesKept(t), NEW m, Whole(m)
  PROVE  Whole(m)'
<1> PICK t \in Senders : \E n \in DOMAIN sizes[t] : Carries(m, t, n)
  BY DEF Whole
<1> PICK n \in DOMAIN sizes[t] : Carries(m, t, n)
  OBVIOUS
<1>1. n \in DOMAIN sizes'[t] /\ sizes'[t][n] = sizes[t][n]
  BY DEF SizesKept
<1>2. Pieced(t, n)' = Pieced(t, n)
  BY <1>1 DEF Pieced, PieceAt
<1>3. Carries(m, t, n)'
  BY <1>2 DEF Carries
<1> QED
  BY <1>1, <1>3 DEF Whole

LEMMA AppendEither ==
  ASSUME NEW S, NEW s \in Seq(S), NEW e
  PROVE  /\ DOMAIN Append(s, e) = DOMAIN s \cup {Len(s) + 1}
         /\ \A i \in DOMAIN Append(s, e) :
              \/ Append(s, e)[i] = e /\ i = Len(s) + 1
              \/ i \in DOMAIN s /\ Append(s, e)[i] = s[i]
OBVIOUS

-----------------------------------------------------------------------------
(* The sender *)

LEMMA BeginKeeps ==
  ASSUME TypeInv, \A m \in Done : Whole(m), \A u \in Senders : SenderInv(u), TypeInv',
         NEW t \in Senders, Begin(t)
  PROVE  \A u \in Senders : SenderInv(u)'
<1> PICK size \in Sizes : sizes' = [sizes EXCEPT ![t] = Append(@, size)]
  BY DEF Begin
<1>1. /\ sizes \in [Senders -> Seq(Sizes)]
      /\ sizes' = [sizes EXCEPT ![t] = Append(sizes[t], size)]
      /\ sending' = [sending EXCEPT ![t] = [offset |-> 0, counter |-> 0, active |-> TRUE]]
      /\ DOMAIN sending = Senders
      /\ ~sending[t].active
      /\ UNCHANGED <<wire, rx, incomplete, kc_recv_fifo, halted, delivered, faults>>
  BY DEF Begin, TypeInv, TypeOK, receiver
<1>2. Done' = Done
  BY <1>1 DEF Done
<1>3. \A u \in Senders : /\ Accepted(u)' = Accepted(u) /\ Received(u)' = Received(u)
                         /\ OnWire(u)' = OnWire(u)
  BY <1>1 DEF Accepted, Received, OnWire
<1>4. ASSUME NEW u \in Senders, u # t
      PROVE  SenderInv(u)'
  <2>1. sizes'[u] = sizes[u] /\ sending'[u] = sending[u]
    BY <1>1, <1>4
  <2>2. Upcoming(u)' = Upcoming(u)
    BY <2>1 DEF Upcoming, FrameAt, PieceAt, IsLast
  <2>3. (~halted => Sorted(rx, key[u])) /\ Sorted(wire[u], key[u])
    BY DEF SenderInv, InOrder
  <2> QED
    BY <1>1, <1>2, <1>3, <2>1, <2>2, <2>3, Untouched
<1> PICK n \in Nat : n = Len(sizes[t])
  BY <1>1
<1> DEFINE f == [key |-> key[t], first |-> TRUE, last |-> size <= 8, counter |-> 0,
                 data |-> [from |-> t, number |-> n + 1, offset |-> 0,
                           dlc |-> IF size <= 8 THEN size ELSE 8]]
<1>5. /\ Len(sizes'[t]) = n + 1
      /\ DOMAIN sizes[t] = 1 .. n /\ DOMAIN sizes'[t] = 1 .. n + 1
      /\ \A i \in 1 .. n : sizes'[t][i] = sizes[t][i]
      /\ sizes'[t][n + 1] = size /\ size \in Nat
  <2> DEFINE s == Append(sizes[t], size)
  <2>1. sizes'[t] = s /\ sizes[t] \in Seq(Sizes)
    BY <1>1
  <2>2. /\ Len(s) = n + 1 /\ DOMAIN sizes[t] = 1 .. n /\ DOMAIN s = 1 .. n + 1
        /\ \A i \in 1 .. n : s[i] = sizes[t][i]
        /\ s[n + 1] = size
    BY <2>1
  <2> HIDE DEF s
  <2> QED
    BY <2>1, <2>2, TransportAssumption
<1>6. SizesKept(t)
  BY <1>5 DEF SizesKept
<1>7. Upcoming(t) = {} /\ Upcoming(t)' = {f}
  <2>1. sending'[t] = [offset |-> 0, counter |-> 0, active |-> TRUE]
    BY <1>1
  <2>2. FrameAt(t, 0, 0)' = f
    <3>1. size - 0 = size
      BY <1>5
    <3> QED
      BY <1>5, <3>1 DEF FrameAt, PieceAt, IsLast
  <2> QED
    BY <1>1, <2>1, <2>2 DEF Upcoming
<1>8. /\ f \in Frames /\ f.key = key[t] /\ f.first /\ f.data.number = n + 1
      /\ f.data.offset = 0
      /\ Genuine(t, f)'
  <2>1. n + 1 \in 1 .. MaxMessages /\ key[t] \in Keys
    <3>1. Len(sizes'[t]) <= MaxMessages
      BY DEF TypeInv, TypeOK
    <3>2. n + 1 \in 1 .. MaxMessages
      BY <1>5, <3>1, TransportAssumption
    <3> QED
      BY <3>2 DEF Keys
  <2>2. f \in Frames
    <3>1. (IF size <= 8 THEN size ELSE 8) \in 0 .. 8 /\ (size <= 8) \in BOOLEAN
      BY <1>5
    <3> QED
      BY <2>1, <3>1, TransportAssumption DEF Frames, Pieces
  <2>3. /\ n + 1 \in DOMAIN sizes'[t]
        /\ f.data = PieceAt(t, n + 1, 0)'
        /\ f.last <=> sizes'[t][n + 1] - 0 <= 8
    <3>1. sizes'[t][n + 1] - 0 = size /\ n + 1 \in DOMAIN sizes'[t]
      BY <1>5
    <3>2. PieceAt(t, n + 1, 0)' = [from |-> t, number |-> n + 1, offset |-> 0,
                                   dlc |-> IF size <= 8 THEN size ELSE 8]
      BY <3>1 DEF PieceAt
    <3>3. f.data = PieceAt(t, n + 1, 0)'
      BY <3>2
    <3>4. f.last <=> size <= 8
      OBVIOUS
    <3> QED
      BY <3>1, <3>3, <3>4, Zenon
  <2>4. f.key = key[t] /\ f.first /\ f.data.number = n + 1 /\ f.data.offset = 0
    OBVIOUS
  <2> HIDE DEF f
  <2>5. Genuine(t, f)'
    BY <2>2, <2>3, <2>4 DEF Genuine
  <2> QED
    BY <2>2, <2>4, <2>5
<1> DEFINE C == Chain(t)
<1>9. Chain(t)' = C \cup {f}
  BY <1>3, <1>7 DEF Chain
<1>10. C \in SUBSET Frames /\ \A g \in C : g.data.number \in Nat /\ g.data.number < n + 1
  <2>1. \A g \in C : Genuine(t, g)
    BY DEF SenderInv
  <2> QED
    BY <1>5, <2>1 DEF Genuine
<1>11. AllBefore(C, {f})
  BY <1>8, <1>10 DEF AllBefore, Before
<1>12. \A g \in Chain(t)' : Genuine(t, g)'
  BY <1>6, <1>8, <1>9, GenuineKept DEF SenderInv
<1>13. InOrder(t)'
  <2>1. AllBefore(Accepted(t) \cup Received(t) \cup OnWire(t), {f})
    BY <1>7, <1>11 DEF Chain, AllBefore
  <2> QED
    BY <1>1, <1>3, <1>7, <2>1 DEF SenderInv, InOrder
<1>14. \A a, b \in C \cup {f} : Adjacent(C \cup {f}, a, b) =>
          /\ a \in C
          /\ \/ b \in C /\ Adjacent(C, a, b)
             \/ b = f /\ \A c \in C : ~Before(a, c)
  <2> HIDE DEF C, f
  <2> QED
    BY <1>8, <1>10, <1>11, NewestAdjacent
<1>15. Linked(Chain(t)')
  BY <1>8, <1>9, <1>10, <1>14 DEF SenderInv, Linked, Link
<1>16. ~halted' /\ faults' = 0 => WithoutFault(t)'
  <2> SUFFICES ASSUME ~halted', faults' = 0
               PROVE  WithoutFault(t)'
    OBVIOUS
  <2>1. WithoutFault(t)
    BY <1>1 DEF SenderInv
  <2>2. Complete(Chain(t)')
    BY <1>1, <1>8, <1>9, <1>10, <1>14, <2>1 DEF WithoutFault, Complete, Unbroken
  <2>3. sending'[t].active
    BY <1>1
  <2>4. key[t] \notin DOMAIN incomplete' =>
          \A g \in Chain(t)' : (\A h \in Chain(t)' : ~Before(h, g)) => g.first
    BY <1>1, <1>8, <1>9, <2>1 DEF WithoutFault
  <2> QED
    BY <2>2, <2>3, <2>4 DEF WithoutFault
<1>17. Partial(t)'
  BY <1>1, <1>6, PartialKept DEF SenderInv
<1>18. Fresh(t)'
  <2>1. \A m \in Done : m.payload[1].from = t => m.payload[1].number < n + 1
    <3> SUFFICES ASSUME NEW m \in Done, m.payload[1].from = t
                 PROVE  m.payload[1].number < n + 1
      OBVIOUS
    <3>1. PICK u \in Senders : \E i \in DOMAIN sizes[u] : Carries(m, u, i)
      BY DEF Whole
    <3>2. PICK i \in DOMAIN sizes[u] : Carries(m, u, i)
      BY <3>1
    <3>3. m.payload[1] = PieceAt(u, i, 0)
      BY <1>1, <3>2, PiecedStarts DEF Carries
    <3>4. u = t /\ m.payload[1].number = i
      BY <3>3 DEF PieceAt
    <3> QED
      BY <1>5, <3>2, <3>4
  <2>2. \A m \in Done : m.payload[1].from = t => m.payload[1].number < f.data.number
    BY <1>8, <2>1
  <2> QED
    BY <1>1, <1>2, <1>9, <2>2 DEF SenderInv, Fresh
<1>19. SenderInv(t)'
  BY <1>12, <1>13, <1>15, <1>16, <1>17, <1>18 DEF SenderInv
<1> QED
  BY <1>4, <1>19

LEMMA TransmitKeeps ==
  ASSUME TypeInv, \A u \in Senders : SenderInv(u), TypeInv',
         NEW t \in Senders, TransmitFrame(t)
  PROVE  \A u \in Senders : SenderInv(u)'
<1> PICK n \in Nat, s \in Nat, o \in Nat, c \in 0 .. CounterMod - 1 :
      /\ n = Len(sizes[t]) /\ n \in DOMAIN sizes[t] /\ n \in 1 .. MaxMessages
      /\ s = sizes[t][n] /\ o = sending[t].offset /\ c = sending[t].counter
  <2>1. /\ Len(sizes[t]) \in DOMAIN sizes[t] /\ sizes[t][Len(sizes[t])] \in Nat
        /\ sending[t].offset \in Nat
    BY UpcomingTyped DEF TransmitFrame
  <2>2. sending[t].counter \in 0 .. CounterMod - 1 /\ Len(sizes[t]) <= MaxMessages
        /\ sizes[t] \in Seq(Sizes)
    BY DEF TypeInv, TypeOK
  <2>3. Len(sizes[t]) \in Nat /\ Len(sizes[t]) \in 1 .. MaxMessages
    BY <2>1, <2>2, TransportAssumption
  <2> QED
    BY <2>1, <2>2, <2>3
<1> DEFINE f == FrameAt(t, o, c)
           g == [key |-> key[t], first |-> FALSE, last |-> s - (o + 8) <= 8,
                 counter |-> NextCounter(c),
                 data |-> [from |-> t, number |-> n, offset |-> o + 8,
                           dlc |-> IF s - (o + 8) <= 8 THEN s - (o + 8) ELSE 8]]
           N == IF o + 8 < s THEN {g} ELSE {}
           on == [offset |-> o + 8, counter |-> NextCounter(c), active |-> TRUE]
<1>1. /\ wire' = [wire EXCEPT ![t] = Append(wire[t], f)]
      /\ wire \in [Senders -> Seq(Frames)]
      /\ sending' = [sending EXCEPT ![t] = IF o + 8 < s THEN on ELSE Idle]
      /\ DOMAIN sending = Senders
      /\ sending[t].active
      /\ UNCHANGED <<sizes, rx, incomplete, kc_recv_fifo, halted, delivered, faults>>
  BY DEF TransmitFrame, TypeInv, TypeOK, receiver
<1>2. Done' = Done
  BY <1>1 DEF Done
<1>3. \A u \in Senders : /\ Accepted(u)' = Accepted(u) /\ Received(u)' = Received(u)
                         /\ SizesKept(u)
  BY <1>1 DEF Accepted, Received, SizesKept
<1>4. ASSUME NEW u \in Senders, u # t
      PROVE  SenderInv(u)'
  <2>1. wire'[u] = wire[u] /\ sending'[u] = sending[u] /\ sizes'[u] = sizes[u]
    BY <1>1, <1>4
  <2>2. Upcoming(u)' = Upcoming(u) /\ OnWire(u)' = OnWire(u)
    BY <1>1, <2>1 DEF Upcoming, FrameAt, PieceAt, IsLast, OnWire
  <2>3. (~halted => Sorted(rx, key[u])) /\ Sorted(wire[u], key[u])
    BY DEF SenderInv, InOrder
  <2> QED
    BY <1>1, <1>2, <1>3, <2>1, <2>2, <2>3, Untouched
<1>5. Upcoming(t) = {f} /\ f \in Chain(t) /\ Genuine(t, f) /\ f \in Frames
  <2>1. Upcoming(t) = {f} /\ f \in Chain(t)
    BY <1>1 DEF Upcoming, Chain
  <2> HIDE DEF f
  <2> QED
    BY <2>1 DEF SenderInv, Genuine
<1>6. /\ f.key = key[t] /\ f.counter = c /\ f.data.number = n /\ f.data.offset = o
      /\ f.last <=> s - o <= 8
  BY DEF FrameAt, PieceAt, IsLast
<1>7. o + 8 < s => g \in Frames /\ Genuine(t, g)'
  <2> SUFFICES ASSUME o + 8 < s
               PROVE  g \in Frames /\ Genuine(t, g)'
    OBVIOUS
  <2>1. (IF s - (o + 8) <= 8 THEN s - (o + 8) ELSE 8) \in 0 .. 8
        /\ (s - (o + 8) <= 8) \in BOOLEAN /\ o + 8 \in Nat
    <3>1. s - (o + 8) \in Nat /\ o + 8 \in Nat
      BY SMT
    <3> DEFINE d == s - (o + 8)
    <3> HIDE DEF d
    <3>2. d \in Nat => (IF d <= 8 THEN d ELSE 8) \in 0 .. 8
      OBVIOUS
    <3>3. (d <= 8) \in BOOLEAN
      OBVIOUS
    <3> QED
      BY <3>1, <3>2, <3>3, Zenon DEF d
  <2>2. NextCounter(c) \in 0 .. CounterMod - 1 /\ key[t] \in Keys
    <3>1. c \in Nat
      BY TransportAssumption
    <3> QED
      BY <3>1, CounterTyped DEF Keys
  <2>3. g \in Frames
    BY <2>1, <2>2 DEF Frames, Pieces
  <2>4. PieceAt(t, n, o + 8)' = [from |-> t, number |-> n, offset |-> o + 8,
                                 dlc |-> IF s - (o + 8) <= 8 THEN s - (o + 8) ELSE 8]
    BY <1>1 DEF PieceAt
  <2>5. g.data = PieceAt(t, n, o + 8)'
    BY <2>4
  <2>6. /\ g.key = key[t] /\ ~g.first /\ g.data.number = n /\ g.data.offset = o + 8
        /\ g.last <=> s - (o + 8) <= 8
    OBVIOUS
  <2>7. n \in DOMAIN sizes'[t] /\ sizes'[t][n] = s
    BY <1>1
  <2> HIDE DEF g
  <2>8. Genuine(t, g)'
    BY <2>3, <2>5, <2>6, <2>7 DEF Genuine
  <2> QED
    BY <2>3, <2>8
<1>8. o + 8 < s => Continues(f, g)
  <2>1. o + 8 < s => ~ (s - o <= 8)
    BY SMT
  <2>2. /\ ~g.first /\ g.data.number = n /\ g.data.offset = o + 8
        /\ g.counter = NextCounter(c)
    OBVIOUS
  <2> HIDE DEF f, g
  <2> QED
    BY <1>6, <2>1, <2>2 DEF Continues
<1>9. /\ Upcoming(t)' = N
      /\ ~sending'[t].active => ~ (o + 8 < s)
      /\ o + 8 < s => sending'[t].active
  <2>1. sending'[t] = IF o + 8 < s THEN on ELSE Idle
    BY <1>1
  <2>2. CASE o + 8 < s
    <3>1. /\ sending'[t].active /\ sending'[t].offset = o + 8
          /\ sending'[t].counter = NextCounter(c)
      BY <2>1, <2>2
    <3>2. (o + 8 = 0) = FALSE /\ sizes' = sizes
      BY <1>1
    <3>3. Upcoming(t)' = {g}
      BY <3>1, <3>2 DEF Upcoming, FrameAt, PieceAt, IsLast
    <3> QED
      BY <2>2, <3>1, <3>3
  <2>3. CASE ~ (o + 8 < s)
    BY <2>1, <2>3 DEF Upcoming, Idle
  <2> QED
    BY <2>2, <2>3
<1> HIDE DEF f, g
<1>10. OnWire(t)' = OnWire(t) \cup {f}
  <2>1. wire'[t] = Append(wire[t], f) /\ wire[t] \in Seq(Frames)
    BY <1>1
  <2>2. FramesOf(Append(wire[t], f), key[t]) =
          FramesOf(wire[t], key[t]) \cup (IF f.key = key[t] THEN {f} ELSE {})
    BY <1>5, <2>1, FramesOfAppend
  <2> QED
    BY <1>6, <2>1, <2>2 DEF OnWire
<1> DEFINE C == Chain(t)
<1>11. Chain(t)' = C \cup N
  BY <1>3, <1>5, <1>9, <1>10 DEF Chain
<1>12. C \in SUBSET Frames /\ AllBefore(Accepted(t) \cup Received(t) \cup OnWire(t), {f})
  BY <1>5, ChainOrder
<1>13. AllBefore(C, N)
  <2> SUFFICES ASSUME o + 8 < s
               PROVE  AllBefore(C, {g})
    BY DEF AllBefore
  <2>1. g \in Frames /\ Before(f, g)
    BY <1>6, <1>7, <1>8 DEF Continues, Before
  <2>2. ASSUME NEW x \in C PROVE x = f \/ Before(x, f)
    BY <1>5, <1>12 DEF Chain, AllBefore
  <2> HIDE DEF C
  <2>3. \A x \in C : x \in Frames
    BY <1>12 DEF C
  <2> QED
    BY <1>5, <2>1, <2>2, <2>3, BeforeOrders DEF AllBefore
<1>14. \A x \in Chain(t)' : Genuine(t, x)'
  BY <1>3, <1>7, <1>11, GenuineKept DEF SenderInv
<1>15. InOrder(t)'
  <2>1. Sorted(wire'[t], key[t])
    <3>1. wire'[t] = Append(wire[t], f) /\ wire[t] \in Seq(Frames)
      BY <1>1
    <3>2. AllBefore(FramesOf(wire[t], key[t]), {f}) /\ Sorted(wire[t], key[t])
      BY <1>12 DEF AllBefore, OnWire, SenderInv, InOrder
    <3> QED
      BY <1>5, <3>1, <3>2, FramesOfAppend
  <2>2. AllBefore(Accepted(t) \cup Received(t), OnWire(t) \cup {f})
    BY <1>12 DEF SenderInv, InOrder, AllBefore
  <2>3. AllBefore(Accepted(t) \cup Received(t) \cup (OnWire(t) \cup {f}), N)
    BY <1>5, <1>13 DEF AllBefore, Chain
  <2> HIDE DEF N
  <2> QED
    BY <1>1, <1>3, <1>9, <1>10, <2>1, <2>2, <2>3 DEF SenderInv, InOrder
<1>16. \A a, b \in C \cup N : Adjacent(C \cup N, a, b) =>
          \/ a \in C /\ b \in C /\ Adjacent(C, a, b)
          \/ a \in C /\ b = g /\ o + 8 < s /\ \A x \in C : ~Before(a, x)
  <2> HIDE DEF C
  <2>1. CASE o + 8 < s
    BY <1>7, <1>12, <1>13, <2>1, NewestAdjacent DEF C
  <2>2. CASE ~ (o + 8 < s)
    <3>1. C \cup N = C
      BY <2>2
    <3> QED
      BY <3>1
  <2> QED
    BY <2>1, <2>2
<1>17. \A a \in C : (\A x \in C : ~Before(a, x)) => a = f
  BY <1>5, <1>12 DEF Chain, AllBefore
<1>18. Linked(Chain(t)')
  <2>1. Linked(C)
    BY DEF SenderInv
  <2> HIDE DEF C, N
  <2> QED
    BY <1>8, <1>11, <1>16, <1>17, <2>1 DEF Linked, Link
<1>19. ~halted' /\ faults' = 0 => WithoutFault(t)'
  <2> SUFFICES ASSUME ~halted', faults' = 0
               PROVE  WithoutFault(t)'
    OBVIOUS
  <2>1. WithoutFault(t)
    BY <1>1 DEF SenderInv
  <2>2. Complete(Chain(t)')
    <3>1. Complete(C)
      BY <2>1 DEF WithoutFault
    <3> HIDE DEF C, N
    <3> QED
      BY <1>8, <1>11, <1>16, <1>17, <3>1 DEF Complete, Unbroken
  <2>3. key[t] \notin DOMAIN incomplete' =>
          \A x \in Chain(t)' : (\A h \in Chain(t)' : ~Before(h, x)) => x.first
    <3>1. \A x \in N : Before(f, x)
      BY <1>5, <1>13 DEF AllBefore
    <3>2. key[t] \notin DOMAIN incomplete =>
            \A x \in C : (\A h \in C : ~Before(h, x)) => x.first
      BY <2>1 DEF WithoutFault
    <3>3. f \in C
      BY <1>5
    <3> HIDE DEF C, N
    <3> QED
      BY <1>1, <1>11, <3>1, <3>2, <3>3
  <2>4. ~sending'[t].active =>
          \A x \in Chain(t)' : (\A h \in Chain(t)' : ~Before(x, h)) => x.last
    <3> SUFFICES ASSUME ~ (o + 8 < s), NEW x \in C, \A h \in C : ~Before(x, h)
                 PROVE  x.last
      BY <1>9, <1>11
    <3>1. s - o <= 8
      BY SMT
    <3> QED
      BY <1>6, <1>17, <3>1
  <2> QED
    BY <2>2, <2>3, <2>4 DEF WithoutFault
<1>20. Partial(t)'
  BY <1>1, <1>3, PartialKept DEF SenderInv
<1>21. Fresh(t)'
  <2>1. \A x \in Chain(t)' : x \in Chain(t) \/ ~x.first
    BY <1>8, <1>11 DEF Continues
  <2> QED
    BY <1>1, <1>2, <2>1, FreshKept DEF SenderInv
<1>22. SenderInv(t)'
  BY <1>14, <1>15, <1>18, <1>19, <1>20, <1>21 DEF SenderInv
<1> QED
  BY <1>4, <1>22

-----------------------------------------------------------------------------
(* The bus, and faults *)

\* A frame of t leaves the mailboxes of its sender.
LEMMA BusFrameSets ==
  ASSUME KeysApart, TypeInv, NEW t \in Senders, SenderInv(t), BusFrame(t)
  PROVE  LET h == Head(wire[t]) IN
         /\ h \in Frames /\ h.key = key[t] /\ rx \in Seq(Frames)
         /\ OnWire(t) = OnWire(t)' \cup {h} /\ AllBefore({h}, OnWire(t)')
         /\ Sorted(wire'[t], key[t])
         /\ \A u \in Senders \ {t} : wire'[u] = wire[u] /\ h.key # key[u]
<1> DEFINE h == Head(wire[t])
<1>1. /\ wire \in [Senders -> Seq(Frames)] /\ wire[t] \in Seq(OwnFrames(t)) /\ wire[t] # <<>>
      /\ wire' = [wire EXCEPT ![t] = Tail(wire[t])] /\ rx \in Seq(Frames)
  BY DEF TypeInv, TypeOK, BusFrame
<1>2. h \in OwnFrames(t)
  BY <1>1
<1>3. wire'[t] = Tail(wire[t]) /\ \A u \in Senders \ {t} : wire'[u] = wire[u]
  BY <1>1
<1>4. h \in Frames /\ h.key = key[t]
  BY <1>2 DEF OwnFrames
<1>5. /\ FramesOf(wire[t], key[t]) =
           FramesOf(Tail(wire[t]), key[t]) \cup (IF h.key = key[t] THEN {h} ELSE {})
      /\ Sorted(Tail(wire[t]), key[t])
      /\ AllBefore({h}, FramesOf(Tail(wire[t]), key[t]))
  <2>1. Sorted(wire[t], key[t]) /\ wire[t] \in Seq(Frames)
    BY <1>1 DEF SenderInv, InOrder
  <2> QED
    BY <1>1, <1>4, <2>1, FramesOfTail
<1> HIDE DEF h
<1>6. OnWire(t) = OnWire(t)' \cup {h} /\ AllBefore({h}, OnWire(t)')
  BY <1>3, <1>4, <1>5 DEF OnWire
<1> QED
  BY <1>1, <1>3, <1>4, <1>5, <1>6 DEF KeysApart, h

LEMMA ArriveKeeps ==
  ASSUME KeysApart, TypeInv, \A u \in Senders : SenderInv(u), NEW t \in Senders, Arrive(t)
  PROVE  \A u \in Senders : SenderInv(u)'
<1> DEFINE h == Head(wire[t])
<1>1. /\ BusFrame(t)
      /\ rx' = Append(rx, h) \/ (halted /\ rx' = rx)
      /\ UNCHANGED <<sizes, sending, incomplete, kc_recv_fifo, halted, delivered, faults>>
  BY DEF Arrive, sender
<1>2. /\ h \in Frames /\ h.key = key[t] /\ rx \in Seq(Frames)
      /\ OnWire(t) = OnWire(t)' \cup {h} /\ AllBefore({h}, OnWire(t)')
      /\ Sorted(wire'[t], key[t])
      /\ \A u \in Senders \ {t} : wire'[u] = wire[u] /\ h.key # key[u]
  BY <1>1, BusFrameSets
<1> HIDE DEF h
<1>3. /\ Done' = Done
      /\ \A u \in Senders : SizesKept(u) /\ Accepted(u)' = Accepted(u) /\ Upcoming(u)' = Upcoming(u)
  BY <1>1 DEF Done, SizesKept, Accepted, Upcoming, FrameAt, PieceAt, IsLast
<1>4. ASSUME NEW u \in Senders, u # t
      PROVE  SenderInv(u)'
  <2>1. OnWire(u)' = OnWire(u) /\ Sorted(wire'[u], key[u])
    BY <1>2, <1>4 DEF OnWire, SenderInv, InOrder
  <2>2. ~halted' => Received(u)' = Received(u) /\ Sorted(rx', key[u])
    <3> SUFFICES ASSUME ~halted
                 PROVE  Received(u)' = Received(u) /\ Sorted(rx', key[u])
      BY <1>1
    <3>1. h.key # key[u] /\ Sorted(rx, key[u]) /\ rx' = Append(rx, h)
      BY <1>1, <1>2, <1>4 DEF SenderInv, InOrder
    <3>2. /\ FramesOf(Append(rx, h), key[u]) = FramesOf(rx, key[u]) \cup {}
          /\ Sorted(Append(rx, h), key[u])
      BY <1>2, <3>1, FramesOfAppend
    <3> QED
      BY <1>1, <3>1, <3>2 DEF Received
  <2>3. Received(u)' = Received(u)
    BY <1>1, <2>2 DEF Received
  <2> QED
    BY <1>1, <1>3, <2>1, <2>2, <2>3, Untouched
<1>5. CASE ~halted
  <2>1. rx' = Append(rx, h) /\ ~halted' /\ Sorted(rx, key[t])
    BY <1>1, <1>5 DEF SenderInv, InOrder
  <2>2. AllBefore(Accepted(t) \cup Received(t), {h})
    BY <1>2 DEF SenderInv, InOrder, AllBefore
  <2>3. AllBefore(FramesOf(rx, key[t]), {h})
    BY <1>5, <2>2 DEF Received, AllBefore
  <2>4. /\ FramesOf(Append(rx, h), key[t]) = FramesOf(rx, key[t]) \cup {h}
        /\ Sorted(Append(rx, h), key[t])
    BY <1>2, <2>1, <2>3, FramesOfAppend
  <2>5. Received(t)' = Received(t) \cup {h}
    BY <1>5, <2>1, <2>4 DEF Received
  <2>6. Chain(t)' = Chain(t)
    BY <1>2, <1>3, <2>5 DEF Chain
  <2>7. InOrder(t)'
    <3>1. AllBefore(Accepted(t), Received(t) \cup {h})
      BY <2>2 DEF SenderInv, InOrder, AllBefore
    <3>2. AllBefore(Accepted(t) \cup (Received(t) \cup {h}), OnWire(t)')
      BY <1>2 DEF SenderInv, InOrder, AllBefore
    <3>3. Accepted(t) \cup (Received(t) \cup {h}) \cup OnWire(t)'
            = Accepted(t) \cup Received(t) \cup OnWire(t)
      BY <1>2
    <3>4. AllBefore(Accepted(t) \cup (Received(t) \cup {h}) \cup OnWire(t)', Upcoming(t))
      BY <3>3 DEF SenderInv, InOrder
    <3> QED
      BY <1>2, <1>3, <2>1, <2>4, <2>5, <3>1, <3>2, <3>4 DEF InOrder
  <2>8. SenderInv(t)'
    BY <1>1, <1>3, <2>6, <2>7, SameChain
  <2> QED
    BY <1>4, <2>8
<1>6. CASE halted
  <2>1. /\ halted' /\ Received(t) = {} /\ Received(t)' = {}
        /\ Accepted(t) = {} /\ Accepted(t)' = {}
    BY <1>1, <1>6 DEF Received, Accepted
  <2>2. Chain(t) = OnWire(t) \cup Upcoming(t) /\ Chain(t)' = OnWire(t)' \cup Upcoming(t)
    BY <1>3, <2>1 DEF Chain
  <2>3. AllBefore({h}, Upcoming(t)) /\ AllBefore(OnWire(t)', Upcoming(t))
    BY <1>2 DEF SenderInv, InOrder, AllBefore
  <2>4. InOrder(t)'
    BY <1>2, <1>3, <2>1, <2>3 DEF InOrder, AllBefore
  <2>5. /\ Chain(t)' \subseteq Chain(t)
        /\ AllBefore(Chain(t) \ Chain(t)', Chain(t)')
    <3>1. \A x \in Chain(t) \ Chain(t)' : x = h
      BY <1>2, <2>2
    <3>2. \A y \in Chain(t)' : Before(h, y)
      BY <1>2, <2>2, <2>3 DEF AllBefore
    <3> QED
      BY <1>2, <2>2, <3>1, <3>2 DEF AllBefore
  <2>6. SenderInv(t)'
    BY <1>1, <1>3, <2>1, <2>4, <2>5, Cut
  <2> QED
    BY <1>4, <2>6
<1> QED
  BY <1>5, <1>6

LEMMA OverrunKeeps ==
  ASSUME KeysApart, CounterMod > 1, TypeInv, Trusted', \A u \in Senders : SenderInv(u),
         NEW t \in Senders, Overrun(t)
  PROVE  \A u \in Senders : SenderInv(u)'
<1> DEFINE h == Head(wire[t])
           C == Chain(t)
<1>1. /\ BusFrame(t) /\ ~halted /\ faults = 0 /\ faults' = 1
      /\ UNCHANGED <<sizes, sending, rx, incomplete, kc_recv_fifo, halted, delivered>>
  <2>1. faults \in Nat /\ faults' = faults + 1 /\ "loss" \in FaultKinds
    BY TransportAssumption DEF Overrun, Fault, TypeInv, TypeOK
  <2> QED
    BY <2>1 DEF Overrun, sender, receiver, Trusted
<1>2. /\ h \in Frames /\ h.key = key[t]
      /\ OnWire(t) = OnWire(t)' \cup {h} /\ AllBefore({h}, OnWire(t)')
      /\ Sorted(wire'[t], key[t])
      /\ \A u \in Senders \ {t} : wire'[u] = wire[u]
  BY <1>1, BusFrameSets
<1> HIDE DEF h
<1>3. /\ Done' = Done
      /\ \A u \in Senders : /\ SizesKept(u) /\ Accepted(u)' = Accepted(u)
                            /\ Upcoming(u)' = Upcoming(u) /\ Received(u)' = Received(u)
  BY <1>1 DEF Done, SizesKept, Accepted, Upcoming, FrameAt, PieceAt, IsLast, Received
<1>4. ASSUME NEW u \in Senders, u # t
      PROVE  SenderInv(u)'
  <2>1. OnWire(u)' = OnWire(u) /\ Sorted(wire'[u], key[u]) /\ Sorted(rx', key[u])
    BY <1>1, <1>2, <1>4 DEF OnWire, SenderInv, InOrder
  <2> QED
    BY <1>1, <1>3, <2>1, Untouched
<1>5. /\ C \in SUBSET Frames /\ h \in C
      /\ AllBefore(Accepted(t) \cup Received(t), {h}) /\ AllBefore({h}, Upcoming(t))
  BY <1>2, ChainOrder DEF Chain, SenderInv, InOrder, AllBefore
<1>6. Chain(t)' = C \ {h}
  <2>1. ~Before(h, h)
    BY <1>2, BeforeOrders
  <2>2. h \notin Accepted(t) \cup Received(t) /\ h \notin OnWire(t)' /\ h \notin Upcoming(t)
    BY <1>2, <1>5, <2>1 DEF AllBefore
  <2> QED
    BY <1>2, <1>3, <2>2 DEF Chain
<1>7. InOrder(t)'
  <2>1. AllBefore(Accepted(t) \cup Received(t), OnWire(t)')
    BY <1>2 DEF SenderInv, InOrder, AllBefore
  <2>2. AllBefore(Accepted(t) \cup Received(t) \cup OnWire(t)', Upcoming(t))
    BY <1>2 DEF SenderInv, InOrder, AllBefore
  <2> QED
    BY <1>1, <1>2, <1>3, <2>1, <2>2 DEF SenderInv, InOrder
<1>8. Linked(Chain(t)')
  <2>1. Complete(C)
    BY <1>1 DEF SenderInv, WithoutFault
  <2>2. C \in SUBSET Frames /\ h \in C
    BY <1>5
  <2> HIDE DEF C
  <2>3. ASSUME NEW a \in C \ {h}, NEW b \in C \ {h}, Adjacent(C \ {h}, a, b)
        PROVE  Link(a, b)
    <3>1. a \in Frames /\ b \in Frames /\ h \in Frames
      BY <2>2
    <3>2. CASE Adjacent(C, a, b)
      BY <2>1, <3>2, UnbrokenLinks DEF Complete
    <3>3. CASE Adjacent(C, a, h) /\ Adjacent(C, h, b)
      <4>1. Unbroken(a, h) /\ Unbroken(h, b)
        BY <2>1, <2>2, <3>3 DEF Complete
      <4> QED
        BY <3>1, <4>1, OneGapLinks
    <3> QED
      BY <2>2, <2>3, <3>2, <3>3, InnerAdjacent
  <2> QED
    BY <1>6, <2>3 DEF Linked
<1>9. \A f \in Chain(t)' : Genuine(t, f)'
  BY <1>3, <1>6, GenuineKept DEF SenderInv
<1>10. Partial(t)' /\ Fresh(t)'
  BY <1>1, <1>3, <1>6, PartialKept, FreshKept DEF SenderInv
<1>11. SenderInv(t)'
  BY <1>1, <1>7, <1>8, <1>9, <1>10 DEF SenderInv
<1> QED
  BY <1>4, <1>11

LEMMA RestartSenderKeeps ==
  ASSUME TypeInv, \A u \in Senders : SenderInv(u), NEW t \in Senders, RestartSender(t)
  PROVE  \A u \in Senders : SenderInv(u)'
<1>1. /\ faults' > 0
      /\ sending' = [sending EXCEPT ![t] = Idle] /\ wire' = [wire EXCEPT ![t] = <<>>]
      /\ DOMAIN sending = Senders /\ DOMAIN wire = Senders
      /\ UNCHANGED <<sizes, rx, incomplete, kc_recv_fifo, halted, delivered>>
  <2>1. faults \in Nat /\ faults' = faults + 1
    BY TransportAssumption DEF RestartSender, Fault, TypeInv, TypeOK
  <2> QED
    BY <2>1 DEF RestartSender, receiver, TypeInv, TypeOK
<1>2. /\ Done' = Done
      /\ \A u \in Senders : /\ SizesKept(u) /\ Accepted(u)' = Accepted(u)
                            /\ Received(u)' = Received(u)
  BY <1>1 DEF Done, SizesKept, Accepted, Received
<1>3. faults' # 0
  BY <1>1
<1>4. ASSUME NEW u \in Senders, u # t
      PROVE  SenderInv(u)'
  <2>1. wire'[u] = wire[u] /\ sending'[u] = sending[u] /\ sizes'[u] = sizes[u]
    BY <1>1, <1>4
  <2>2. /\ OnWire(u)' = OnWire(u) /\ Upcoming(u)' = Upcoming(u)
        /\ Sorted(wire'[u], key[u]) /\ (~halted' => Sorted(rx', key[u]))
    BY <1>1, <2>1 DEF OnWire, Upcoming, FrameAt, PieceAt, IsLast, SenderInv, InOrder
  <2> QED
    BY <1>1, <1>2, <1>3, <2>1, <2>2, Untouched
<1>5. OnWire(t)' = {} /\ Upcoming(t)' = {} /\ Sorted(wire'[t], key[t])
  <2>1. wire'[t] = <<>> /\ ~sending'[t].active
    BY <1>1 DEF Idle
  <2> QED
    BY <2>1, EmptyQueue DEF OnWire, Upcoming
<1>6. Chain(t)' = Accepted(t) \cup Received(t)
  BY <1>2, <1>5 DEF Chain
<1>7. InOrder(t)'
  BY <1>1, <1>2, <1>5 DEF SenderInv, InOrder, AllBefore
<1>8. Chain(t)' \subseteq Chain(t) /\ AllBefore(Chain(t)', Chain(t) \ Chain(t)')
  <2>1. Chain(t) \ Chain(t)' \subseteq OnWire(t) \cup Upcoming(t)
    BY <1>6 DEF Chain
  <2> QED
    BY <1>6, <2>1, ChainOrder DEF Chain, AllBefore
<1>9. SenderInv(t)'
  BY <1>1, <1>2, <1>7, <1>8, Cut
<1> QED
  BY <1>4, <1>9

\* The receiver restarts, or throws: what it had accepted and received is gone.
LEMMA ReceiverCut ==
  ASSUME \A u \in Senders : SenderInv(u),
         \A u \in Senders : Accepted(u)' = {} /\ Received(u)' = {},
         halted' \/ (faults' > 0 /\ rx' = <<>>),
         Done' \subseteq Done,
         \A k \in DOMAIN incomplete' : k \in DOMAIN incomplete /\ incomplete'[k] = incomplete[k],
         UNCHANGED <<sizes, sending, wire>>
  PROVE  \A u \in Senders : SenderInv(u)'
<1> SUFFICES ASSUME NEW t \in Senders
             PROVE  SenderInv(t)'
  OBVIOUS
<1>1. SizesKept(t) /\ OnWire(t)' = OnWire(t) /\ Upcoming(t)' = Upcoming(t)
  BY DEF SizesKept, OnWire, Upcoming, FrameAt, PieceAt, IsLast
<1>2. Chain(t)' = OnWire(t) \cup Upcoming(t)
  BY <1>1 DEF Chain
<1>3. InOrder(t)'
  <2>1. ~halted' => Sorted(rx', key[t])
    BY EmptyQueue
  <2> QED
    BY <1>1, <2>1 DEF SenderInv, InOrder, AllBefore
<1>4. Chain(t)' \subseteq Chain(t) /\ AllBefore(Chain(t) \ Chain(t)', Chain(t)')
  <2>1. Chain(t) \ Chain(t)' \subseteq Accepted(t) \cup Received(t)
    BY <1>2 DEF Chain
  <2> QED
    BY <1>2, <2>1, ChainOrder DEF Chain, AllBefore
<1> QED
  BY <1>1, <1>3, <1>4, Cut

LEMMA RestartReceiverKeeps ==
  ASSUME TypeInv, \A u \in Senders : SenderInv(u), RestartReceiver
  PROVE  \A u \in Senders : SenderInv(u)'
<1>1. /\ faults' > 0 /\ rx' = <<>> /\ kc_recv_fifo' = <<>> /\ DOMAIN incomplete' = {}
      /\ UNCHANGED <<sizes, sending, wire, delivered>>
  <2>1. faults \in Nat /\ faults' = faults + 1
    BY TransportAssumption DEF RestartReceiver, Fault, TypeInv, TypeOK
  <2> QED
    BY <2>1 DEF RestartReceiver, sender
<1>2. \A u \in Senders : Accepted(u)' = {} /\ Received(u)' = {}
  BY <1>1, EmptyQueue DEF Accepted, Received
<1>3. Done' \subseteq Done
  <2>1. DOMAIN kc_recv_fifo' = {}
    BY <1>1
  <2> QED
    BY <1>1, <2>1 DEF Done
<1> QED
  BY <1>1, <1>2, <1>3, ReceiverCut

-----------------------------------------------------------------------------
(* The receiver *)

LEMMA HeadOrder ==
  ASSUME TypeInv, NEW t \in Senders, SenderInv(t), ~halted, rx # <<>>, Head(rx).key = key[t]
  PROVE  LET f == Head(rx)
             R == FramesOf(Tail(rx), key[t])
         IN /\ f \in Chain(t) /\ Genuine(t, f) /\ f \in Frames
            /\ Received(t) = R \cup {f} /\ Sorted(Tail(rx), key[t])
            /\ AllBefore({f}, R \cup OnWire(t) \cup Upcoming(t))
<1> DEFINE f == Head(rx)
           R == FramesOf(Tail(rx), key[t])
<1>1. rx \in Seq(Frames) /\ f \in Frames /\ Sorted(rx, key[t])
  BY DEF TypeInv, TypeOK, SenderInv, InOrder
<1>2. /\ FramesOf(rx, key[t]) = R \cup {f} /\ Sorted(Tail(rx), key[t])
      /\ AllBefore({f}, R)
  BY <1>1, FramesOfTail
<1> HIDE DEF f, R
<1>3. Received(t) = R \cup {f}
  BY <1>2 DEF Received
<1>4. f \in Chain(t) /\ Genuine(t, f)
  BY <1>3 DEF Chain, SenderInv
<1>5. AllBefore({f}, R \cup OnWire(t) \cup Upcoming(t))
  BY <1>2, <1>3 DEF SenderInv, InOrder, AllBefore
<1> QED
  BY <1>1, <1>2, <1>3, <1>4, <1>5 DEF f, R

\* The frame read continues the message that is not complete, if it fits or if nothing
\* failed so far.
LEMMA HeadContinues ==
  ASSUME TypeInv, NEW t \in Senders, SenderInv(t), ~halted, rx # <<>>, Head(rx).key = key[t],
         key[t] \in DOMAIN incomplete,
         Fits(Head(rx)) \/ faults = 0
  PROVE  LET f == Head(rx)
             m == incomplete[key[t]]
         IN /\ ~f.first /\ f.counter = NextCounter(m.counter)
            /\ f.data.number = m.payload[Len(m.payload)].number
            /\ f.data.offset = m.payload[Len(m.payload)].offset + 8
<1> DEFINE f == Head(rx)
           m == incomplete[key[t]]
           a == [key |-> key[t], first |-> Len(m.payload) = 1, last |-> FALSE,
                 counter |-> m.counter, data |-> m.payload[Len(m.payload)]]
<1>1. Accepted(t) = {a}
  BY DEF Accepted
<1>2. ~a.last /\ a.counter = m.counter /\ a.data = m.payload[Len(m.payload)]
  OBVIOUS
<1>3. /\ f \in Chain(t) /\ f \in Frames
      /\ Received(t) = FramesOf(Tail(rx), key[t]) \cup {f}
      /\ AllBefore({f}, FramesOf(Tail(rx), key[t]) \cup OnWire(t) \cup Upcoming(t))
  BY HeadOrder
<1>4. Fits(f) => ~f.first /\ f.counter = NextCounter(m.counter)
  BY DEF Fits
<1> HIDE DEF f, m, a
<1>5. a \in Chain(t) /\ Chain(t) \in SUBSET Frames /\ Before(a, f)
  <2>1. f \in Received(t)
    BY <1>3
  <2> QED
    BY <1>1, <2>1, ChainOrder DEF Chain, AllBefore
<1>6. Adjacent(Chain(t), a, f)
  <2> SUFFICES ASSUME NEW c \in Chain(t), Before(a, c), Before(c, f)
               PROVE  FALSE
    BY <1>5 DEF Adjacent
  <2>1. c = a \/ c = f \/ Before(f, c)
    BY <1>1, <1>3 DEF Chain, AllBefore
  <2> QED
    BY <1>3, <1>5, <2>1, BeforeOrders
<1>7. Link(a, f) /\ (faults = 0 => Unbroken(a, f))
  BY <1>3, <1>5, <1>6 DEF SenderInv, Linked, WithoutFault, Complete
<1>8. Continues(a, f)
  BY <1>2, <1>4, <1>7 DEF Link, Unbroken, f, m
<1> QED
  BY <1>2, <1>8 DEF Continues, f, m

LEMMA HeadBegins ==
  ASSUME TypeInv, NEW t \in Senders, SenderInv(t), ~halted, rx # <<>>, Head(rx).key = key[t],
         key[t] \notin DOMAIN incomplete, faults = 0
  PROVE  Head(rx).first
<1> DEFINE f == Head(rx)
<1>1. /\ f \in Chain(t) /\ f \in Frames
      /\ Received(t) = FramesOf(Tail(rx), key[t]) \cup {f}
      /\ AllBefore({f}, FramesOf(Tail(rx), key[t]) \cup OnWire(t) \cup Upcoming(t))
  BY HeadOrder
<1> HIDE DEF f
<1>2. Accepted(t) = {}
  BY DEF Accepted
<1>3. ASSUME NEW g \in Chain(t) PROVE ~Before(g, f)
  <2>1. g \in Frames /\ (g = f \/ Before(f, g))
    BY <1>1, <1>2, ChainOrder DEF Chain, AllBefore
  <2> QED
    BY <1>1, <2>1, BeforeOrders
<1>4. f.first
  BY <1>1, <1>3 DEF SenderInv, WithoutFault
<1> QED
  BY <1>4 DEF f

\* What has been put together is the beginning of one message.
LEMMA ExtendedPieces ==
  ASSUME TypeInv, NEW t \in Senders, SenderInv(t), ~halted, rx # <<>>, Head(rx).key = key[t],
         Fits(Head(rx))
  PROVE  LET f == Head(rx)
             p == Extended(f).payload
             n == f.data.number
         IN /\ Len(p) \in Nat \ {0} /\ p # <<>>
            /\ n \in DOMAIN sizes[t] /\ sizes[t][n] \in Nat
            /\ p = [i \in 1 .. Len(p) |-> PieceAt(t, n, 8 * (i - 1))]
            /\ p[Len(p)] = f.data /\ f.data.offset = 8 * (Len(p) - 1)
            /\ p[1].from = t /\ p[1].number = n
            /\ f.first <=> Len(p) = 1
            /\ Len(p) > 1 => /\ sizes[t][n] > 8 * (Len(p) - 1)
                             /\ key[t] \in DOMAIN incomplete
                             /\ incomplete[key[t]].payload[1].number = n
<1> DEFINE f == Head(rx)
           p == Extended(f).payload
           n == f.data.number
<1>1. f.key = key[t]
  OBVIOUS
<1>2. /\ Genuine(t, f) /\ f \in Frames /\ f.data \in Pieces
  BY HeadOrder DEF Frames
<1>3. f.first <=> key[t] \notin DOMAIN incomplete
  BY DEF Fits
<1>4. /\ n \in DOMAIN sizes[t] /\ f.data = PieceAt(t, n, f.data.offset)
      /\ f.first <=> f.data.offset = 0
  BY <1>2 DEF Genuine
<1>5. sizes[t][n] \in Nat
  BY <1>4, PiecedStarts
<1>6. CASE f.first
  <2>1. p = <<>> \o <<f.data>>
    BY <1>1, <1>3, <1>6 DEF Extended
  <2>2. p = <<f.data>> /\ Len(p) = 1
    <3> HIDE DEF f, p
    <3> QED
      BY <1>2, <2>1, ConcatEmptySeq
  <2> HIDE DEF f, p, n
  <2>3. p[1] = PieceAt(t, n, 0) /\ f.data.offset = 0
    BY <1>4, <1>6, <2>2
  <2>4. p = [i \in 1 .. 1 |-> p[1]]
    BY <2>2
  <2>5. \A i \in 1 .. 1 : p[1] = PieceAt(t, n, 8 * (i - 1))
    BY <2>3
  <2>6. p[1].from = t /\ p[1].number = n
    BY <2>3 DEF PieceAt
  <2>7. p = [i \in 1 .. Len(p) |-> PieceAt(t, n, 8 * (i - 1))]
    BY <2>2, <2>4, <2>5
  <2>8. /\ Len(p) \in Nat \ {0} /\ p # <<>> /\ p[Len(p)] = f.data
        /\ f.data.offset = 8 * (Len(p) - 1) /\ (f.first <=> Len(p) = 1) /\ ~ (Len(p) > 1)
    BY <1>6, <2>2, <2>3
  <2> QED
    BY <1>4, <1>5, <2>6, <2>7, <2>8 DEF f, p, n
<1>7. CASE ~f.first
  <2> DEFINE q == incomplete[key[t]].payload
             number == q[1].number
  <2>1. key[t] \in DOMAIN incomplete /\ q \in Seq(Pieces)
    BY <1>3, <1>7 DEF TypeInv, TypeOK, Messages
  <2>2. p = q \o <<f.data>>
    BY <1>1, <2>1 DEF Extended
  <2>3. /\ q # <<>>
        /\ q = [i \in 1 .. Len(q) |-> PieceAt(t, number, 8 * (i - 1))]
        /\ sizes[t][number] > 8 * Len(q)
    BY <2>1 DEF SenderInv, Partial
  <2>4. /\ n = q[Len(q)].number /\ f.data.offset = q[Len(q)].offset + 8
    BY <2>1, HeadContinues
  <2> HIDE DEF f, p, n, q, number
  <2>5. /\ Len(q) \in Nat \ {0} /\ Len(p) = Len(q) + 1
        /\ p = [i \in 1 .. Len(q) + 1 |-> IF i <= Len(q) THEN q[i] ELSE f.data]
    <3>1. Len(q) \in Nat \ {0}
      BY <2>1, <2>3
    <3>2. p = Append(q, f.data)
      BY <1>2, <2>1, <2>2, AppendIsConcat
    <3>3. /\ Len(Append(q, f.data)) = Len(q) + 1
          /\ Append(q, f.data) = [i \in 1 .. Len(q) + 1 |-> IF i <= Len(q) THEN q[i] ELSE f.data]
      BY <1>2, <2>1
    <3> QED
      BY <3>1, <3>2, <3>3
  <2>6. \A i \in 1 .. Len(q) : q[i] = PieceAt(t, number, 8 * (i - 1))
    BY <2>3
  <2>7. n = number /\ f.data.offset = 8 * Len(q)
    <3>1. q[Len(q)] = PieceAt(t, number, 8 * (Len(q) - 1))
      BY <2>5, <2>6
    <3>2. q[Len(q)].number = number /\ q[Len(q)].offset = 8 * (Len(q) - 1)
      BY <3>1 DEF PieceAt
    <3> QED
      BY <2>4, <2>5, <3>2
  <2>8. f.data = PieceAt(t, n, 8 * Len(q))
    BY <1>4, <2>7 DEF n
  <2>9. \A i \in 1 .. Len(q) + 1 :
          (IF i <= Len(q) THEN q[i] ELSE f.data) = PieceAt(t, n, 8 * (i - 1))
    <3> SUFFICES ASSUME NEW i \in 1 .. Len(q) + 1
                 PROVE  (IF i <= Len(q) THEN q[i] ELSE f.data) = PieceAt(t, n, 8 * (i - 1))
      OBVIOUS
    <3>1. CASE i <= Len(q)
      BY <2>5, <2>6, <2>7, <3>1
    <3>2. CASE i = Len(q) + 1
      <4>1. 8 * (i - 1) = 8 * Len(q) /\ ~ (i <= Len(q))
        BY <2>5, <3>2
      <4> QED
        BY <2>8, <4>1
    <3> QED
      BY <2>5, <3>1, <3>2
  <2>10. p = [i \in 1 .. Len(p) |-> PieceAt(t, n, 8 * (i - 1))]
    BY <2>5, <2>9
  <2>11. /\ p[1] = q[1] /\ p[Len(p)] = f.data /\ Len(p) # 1 /\ Len(p) > 1
         /\ Len(p) - 1 = Len(q) /\ Len(p) \in Nat \ {0}
    BY <2>5
  <2>12. p[1].from = t /\ p[1].number = n
    <3>1. p[1] = PieceAt(t, n, 8 * (1 - 1))
      BY <2>5, <2>9, <2>11
    <3> QED
      BY <3>1 DEF PieceAt
  <2>13. p # <<>>
    BY <2>5
  <2>14. sizes[t][n] > 8 * (Len(p) - 1)
    BY <2>3, <2>7, <2>11
  <2> QED
    BY <1>4, <1>5, <1>7, <2>1, <2>7, <2>10, <2>11, <2>12, <2>13, <2>14 DEF f, p, n, q, number
<1> QED
  BY <1>6, <1>7

\* The message a frame extends is newer than all that are done.
LEMMA ExtendedIsNew ==
  ASSUME KeysApart, TypeInv, NEW t \in Senders, SenderInv(t), ~halted, rx # <<>>,
         Head(rx).key = key[t], Fits(Head(rx)),
         NEW d \in Done, d.payload[1].from = t
  PROVE  d.payload[1].number < Head(rx).data.number
<1> DEFINE f == Head(rx)
           p == Extended(f).payload
<1>1. f \in Chain(t) /\ (f.first <=> key[t] \notin DOMAIN incomplete)
  BY HeadOrder DEF Fits
<1>2. /\ f.first <=> Len(p) = 1
      /\ Len(p) \in Nat \ {0}
      /\ Len(p) > 1 => /\ key[t] \in DOMAIN incomplete
                       /\ incomplete[key[t]].payload[1].number = f.data.number
  BY ExtendedPieces
<1> HIDE DEF f, p
<1>3. Len(p) = 1 \/ Len(p) > 1
  <2>1. \A l \in Nat \ {0} : l = 1 \/ l > 1
    OBVIOUS
  <2> QED
    BY <1>2, <2>1, Zenon
<1>4. CASE f.first
  BY <1>1, <1>4 DEF SenderInv, Fresh, f
<1>5. CASE Len(p) > 1
  <2>1. d.payload[1].number < incomplete[key[t]].payload[1].number
    BY <1>2, <1>5 DEF SenderInv, Fresh
  <2> QED
    BY <1>2, <1>5, <2>1 DEF f
<1> QED
  BY <1>2, <1>3, <1>4, <1>5

\* A message whose last frame has come is whole.
LEMMA ExtendedIsWhole ==
  ASSUME TypeInv, NEW t \in Senders, SenderInv(t), ~halted, rx # <<>>, Head(rx).key = key[t],
         Fits(Head(rx)), Head(rx).last
  PROVE  Carries(Extended(Head(rx)), t, Head(rx).data.number)
<1> DEFINE f == Head(rx)
           p == Extended(f).payload
           n == f.data.number
           L == Len(p)
           s == sizes[t][n]
<1>1. /\ L \in Nat \ {0} /\ s \in Nat
      /\ p = [i \in 1 .. L |-> PieceAt(t, n, 8 * (i - 1))]
      /\ f.data.offset = 8 * (L - 1)
      /\ L > 1 => s > 8 * (L - 1)
  BY ExtendedPieces
<1>2. s - f.data.offset <= 8
  BY HeadOrder DEF Genuine
<1>3. Extended(f).key = key[t] /\ Extended(f).payload = p
  BY DEF Extended
<1> HIDE DEF f, p, n, L, s
<1>4. (IF s = 0 THEN 1 ELSE (s + 7) \div 8) = L
  <2>1. s - 8 * (L - 1) <= 8
    BY <1>1, <1>2
  <2>2. CASE s = 0
    BY <1>1, <2>2
  <2>3. CASE s # 0
    <3>1. s > 8 * (L - 1)
      BY <1>1, <2>3
    <3>2. 8 * L <= s + 7 /\ s + 7 < 8 * L + 8
      BY <1>1, <2>1, <3>1
    <3>3. (s + 7) \div 8 = L
      BY <1>1, <3>2
    <3> QED
      BY <2>3, <3>3
  <2> QED
    BY <2>2, <2>3
<1>5. Pieced(t, n) = [i \in 1 .. L |-> PieceAt(t, n, 8 * (i - 1))]
  BY <1>4 DEF Pieced, s
<1> QED
  BY <1>1, <1>3, <1>5 DEF Carries, f, n

LEMMA ReceiverOf ==
  ASSUME TypeInv, rx # <<>>
  PROVE  \E t \in Senders : Head(rx).key = key[t]
<1>1. Head(rx) \in Frames
  BY DEF TypeInv, TypeOK
<1> QED
  BY <1>1 DEF Frames, Keys

LEMMA ThrowKeeps ==
  ASSUME \A u \in Senders : SenderInv(u), Throw,
         UNCHANGED <<sizes, sending, wire, delivered>>
  PROVE  \A u \in Senders : SenderInv(u)'
<1>1. \A u \in Senders : Accepted(u)' = {} /\ Received(u)' = {}
  BY DEF Throw, Accepted, Received
<1>2. Done' = Done /\ incomplete' = incomplete
  BY DEF Throw, Done
<1> QED
  BY <1>1, <1>2, ReceiverCut DEF Throw

LEMMA AcceptKeeps ==
  ASSUME KeysApart, TypeInv, \A u \in Senders : SenderInv(u), ReceiveInterrupt, Fits(Head(rx)),
         NEW t \in Senders, Head(rx).key = key[t]
  PROVE  \A u \in Senders : SenderInv(u)'
<1>1. rx \in Seq(Frames) /\ Head(rx) \in Frames /\ rx # <<>> /\ ~halted
  BY DEF ReceiveInterrupt, TypeInv, TypeOK
<1> PICK f \in Frames : f = Head(rx)
  BY <1>1
<1> DEFINE m == Extended(f)
           k == key[t]
           R == FramesOf(Tail(rx), k)
           C == Chain(t)
<1>2. /\ rx' = Tail(rx) /\ halted' = halted
      /\ incomplete' = IF f.last THEN Without(k) ELSE With(m)
      /\ kc_recv_fifo' = IF f.last THEN Append(kc_recv_fifo, m) ELSE kc_recv_fifo
      /\ UNCHANGED <<sizes, sending, wire, delivered, faults>>
  BY DEF ReceiveInterrupt, Accept, can_read_frame_from_fifo, sender
<1>3. /\ f \in C /\ Genuine(t, f)
      /\ Received(t) = R \cup {f} /\ Sorted(Tail(rx), k)
      /\ AllBefore({f}, R \cup OnWire(t) \cup Upcoming(t))
  BY <1>1, HeadOrder
<1>4. LET p == Extended(f).payload
          n == f.data.number
      IN /\ Len(p) \in Nat \ {0} /\ p # <<>>
         /\ n \in DOMAIN sizes[t] /\ sizes[t][n] \in Nat
         /\ p = [i \in 1 .. Len(p) |-> PieceAt(t, n, 8 * (i - 1))]
         /\ p[Len(p)] = f.data /\ f.data.offset = 8 * (Len(p) - 1)
         /\ p[1].from = t /\ p[1].number = n
         /\ f.first <=> Len(p) = 1
  BY <1>1, ExtendedPieces
<1>5. m.key = k /\ m.counter = f.counter
  BY DEF Extended
<1>6. \A j : j # k => /\ j \in DOMAIN incomplete' <=> j \in DOMAIN incomplete
                      /\ j \in DOMAIN incomplete => incomplete'[j] = incomplete[j]
  <2>1. CASE f.last
    BY <1>2, <2>1 DEF Without
  <2>2. CASE ~f.last
    <3> HIDE DEF m, k
    <3> QED
      BY <1>2, <1>5, <2>2 DEF With
  <2> QED
    BY <2>1, <2>2
<1>7. /\ f.last => k \notin DOMAIN incomplete'
      /\ ~f.last => k \in DOMAIN incomplete' /\ incomplete'[k] = m
  <2>1. CASE f.last
    BY <1>2, <2>1 DEF Without
  <2>2. CASE ~f.last
    <3> HIDE DEF m, k
    <3> QED
      BY <1>2, <1>5, <2>2 DEF With
  <2> QED
    BY <2>1, <2>2
<1>8. /\ \A d \in Done' : d \in Done \/ (f.last /\ d = m)
      /\ m.payload[1].from = t /\ m.payload[1].number = f.data.number
  <2>1. CASE f.last
    <3> HIDE DEF m
    <3>1. \A i \in DOMAIN Append(kc_recv_fifo, m) :
            \/ Append(kc_recv_fifo, m)[i] = m
            \/ i \in DOMAIN kc_recv_fifo /\ Append(kc_recv_fifo, m)[i] = kc_recv_fifo[i]
      BY AppendEither DEF TypeInv, TypeOK
    <3> QED
      BY <1>2, <1>4, <2>1, <3>1 DEF Done, m
  <2>2. CASE ~f.last
    BY <1>2, <1>4, <2>2 DEF Done
  <2> QED
    BY <2>1, <2>2
<1> HIDE DEF m
<1>9. ASSUME NEW u \in Senders, u # t
      PROVE  SenderInv(u)'
  <2>1. key[u] # k
    BY <1>9 DEF KeysApart
  <2>2. FramesOf(Tail(rx), key[u]) = FramesOf(rx, key[u]) /\ Sorted(Tail(rx), key[u])
    <3>1. Sorted(rx, key[u])
      BY <1>1 DEF SenderInv, InOrder
    <3>2. FramesOf(rx, key[u]) = FramesOf(Tail(rx), key[u]) \cup {} /\ Sorted(Tail(rx), key[u])
      BY <1>1, <2>1, <3>1, FramesOfTail
    <3> QED
      BY <3>2
  <2>3. /\ OnWire(u)' = OnWire(u) /\ Upcoming(u)' = Upcoming(u) /\ Received(u)' = Received(u)
        /\ Sorted(wire'[u], key[u])
    BY <1>2, <2>2 DEF OnWire, Upcoming, FrameAt, PieceAt, IsLast, Received, SenderInv, InOrder
  <2>4. Accepted(u)' = Accepted(u)
    BY <1>2, <1>6, <2>1 DEF Accepted
  <2>5. \A d \in Done' : d \in Done \/ d.payload[1].from # u
    BY <1>8, <1>9
  <2> QED
    BY <1>2, <1>6, <2>1, <2>2, <2>3, <2>4, <2>5, Untouched
<1>10. /\ Received(t)' = R /\ OnWire(t)' = OnWire(t) /\ Upcoming(t)' = Upcoming(t)
       /\ SizesKept(t)
  BY <1>1, <1>2 DEF Received, OnWire, Upcoming, FrameAt, PieceAt, IsLast, SizesKept
<1>11. Accepted(t)' = IF f.last THEN {} ELSE {f}
  <2>1. CASE f.last
    BY <1>2, <1>7, <2>1 DEF Accepted
  <2>2. CASE ~f.last
    <3> DEFINE a == [key |-> k, first |-> Len(m.payload) = 1, last |-> FALSE,
                     counter |-> m.counter, data |-> m.payload[Len(m.payload)]]
    <3>1. Accepted(t)' = {a}
      BY <1>1, <1>2, <1>7, <2>2 DEF Accepted
    <3>2. f.key = k /\ (f.first <=> Len(m.payload) = 1) /\ f.first \in BOOLEAN
          /\ f.last \in BOOLEAN /\ f.data = m.payload[Len(m.payload)]
      BY <1>4 DEF m, Frames
    <3>3. f = [key |-> f.key, first |-> f.first, last |-> f.last, counter |-> f.counter,
               data |-> f.data]
      BY DEF Frames
    <3>4. f.last = FALSE /\ f.first = (Len(m.payload) = 1)
      BY <2>2, <3>2
    <3>5. f = a
      BY <1>5, <3>2, <3>3, <3>4
    <3> QED
      BY <2>2, <3>1, <3>5
  <2> QED
    BY <2>1, <2>2
<1> DEFINE N == IF f.last THEN {} ELSE {f}
<1>12. Chain(t)' = N \cup R \cup OnWire(t) \cup Upcoming(t)
  BY <1>10, <1>11 DEF Chain
<1>13. /\ C \in SUBSET Frames
       /\ AllBefore(Accepted(t), Received(t) \cup OnWire(t) \cup Upcoming(t))
       /\ AllBefore(Accepted(t) \cup Received(t), OnWire(t) \cup Upcoming(t))
       /\ AllBefore(Accepted(t) \cup Received(t) \cup OnWire(t), Upcoming(t))
       /\ C = Accepted(t) \cup Received(t) \cup OnWire(t) \cup Upcoming(t)
  BY ChainOrder DEF Chain
<1>14. Chain(t)' \subseteq C
  BY <1>3, <1>12, <1>13
<1>15. AllBefore(C \ Chain(t)', Chain(t)')
  <2> SUFFICES ASSUME NEW x \in C \ Chain(t)', NEW y \in Chain(t)'
               PROVE  Before(x, y)
    BY DEF AllBefore
  <2>1. x \in Accepted(t) \/ (x = f /\ f.last)
    BY <1>3, <1>12, <1>13
  <2>2. CASE x \in Accepted(t)
    BY <1>3, <1>12, <1>13, <2>2 DEF AllBefore
  <2>3. CASE x = f /\ f.last
    BY <1>3, <1>12, <2>3 DEF AllBefore
  <2> QED
    BY <2>1, <2>2, <2>3
<1>16. InOrder(t)'
  <2>1. AllBefore(N, R)
    BY <1>3 DEF AllBefore
  <2>2. AllBefore(N \cup R, OnWire(t))
    BY <1>3, <1>13 DEF AllBefore
  <2>3. AllBefore(N \cup R \cup OnWire(t), Upcoming(t))
    BY <1>3, <1>13 DEF AllBefore
  <2>4. Sorted(wire'[t], key[t])
    BY <1>2 DEF SenderInv, InOrder
  <2> HIDE DEF N, R
  <2> QED
    BY <1>2, <1>3, <1>10, <1>11, <2>1, <2>2, <2>3, <2>4 DEF InOrder, N
<1>17. \A x \in Chain(t)' : Genuine(t, x)'
  BY <1>10, <1>14, GenuineKept DEF SenderInv
<1>18. Linked(Chain(t)') /\ (Complete(C) => Complete(Chain(t)'))
  <2> DEFINE D == Chain(t)'
  <2>1. C \in SUBSET Frames /\ D \in SUBSET C /\ AllBefore(C \ D, D) /\ Linked(C)
    BY <1>13, <1>14, <1>15 DEF SenderInv
  <2> HIDE DEF C, D
  <2>2. Linked(D) /\ (Complete(C) => Complete(D))
    BY <2>1, PartLinked
  <2> QED
    BY <2>2 DEF D
<1>19. ~halted' /\ faults' = 0 => WithoutFault(t)'
  <2> SUFFICES ASSUME faults = 0
               PROVE  WithoutFault(t)'
    BY <1>2
  <2>1. WithoutFault(t)
    BY <1>1 DEF SenderInv
  <2>2. \A x \in C : x \in Frames
    BY <1>13
  <2>3. ASSUME NEW x \in Chain(t)', \A y \in Chain(t)' : ~Before(y, x), k \notin DOMAIN incomplete'
        PROVE  x.first
    <3>1. f.last /\ N = {}
      BY <1>7, <2>3
    <3>2. Before(f, x) /\ x \in C
      BY <1>3, <1>12, <1>14, <2>3, <3>1 DEF AllBefore
    <3>3. Adjacent(C, f, x)
      <4> SUFFICES ASSUME NEW c \in C, Before(f, c), Before(c, x)
                   PROVE  FALSE
        BY <3>2 DEF Adjacent
      <4>1. c \in Chain(t)' \/ c = f \/ c \in Accepted(t)
        BY <1>3, <1>12, <1>13
      <4>2. c \in Accepted(t) => Before(c, f)
        BY <1>3, <1>13 DEF AllBefore
      <4> QED
        BY <2>2, <2>3, <4>1, <4>2, BeforeOrders
    <3>4. Unbroken(f, x)
      BY <1>3, <2>1, <3>2, <3>3 DEF WithoutFault, Complete
    <3> QED
      BY <3>1, <3>4 DEF Unbroken, Continues
  <2>4. ASSUME ~sending'[t].active, NEW x \in Chain(t)', \A y \in Chain(t)' : ~Before(x, y)
        PROVE  x.last
    <3>1. ASSUME NEW y \in C PROVE ~Before(x, y)
      <4>1. CASE y \in Chain(t)'
        BY <2>4, <4>1
      <4>2. CASE y \notin Chain(t)'
        <5>1. Before(y, x)
          BY <1>15, <2>4, <4>2 DEF AllBefore
        <5> QED
          BY <1>14, <2>2, <2>4, <5>1, BeforeOrders
      <4> QED
        BY <4>1, <4>2
    <3> QED
      BY <1>2, <1>14, <2>1, <2>4, <3>1 DEF WithoutFault
  <2> QED
    BY <1>18, <2>1, <2>3, <2>4 DEF WithoutFault
<1>20. Partial(t)'
  <2> SUFFICES ASSUME ~f.last
               PROVE  Partial(t)'
    BY <1>7 DEF Partial
  <2> DEFINE p == m.payload
             n == f.data.number
  <2>1. incomplete'[k].payload = p
    BY <1>7
  <2>2. /\ p # <<>> /\ n \in DOMAIN sizes'[t] /\ p[1].number = n
        /\ p = [i \in 1 .. Len(p) |-> PieceAt(t, n, 8 * (i - 1))]
    BY <1>2, <1>4 DEF m
  <2>3. \A i \in Nat : PieceAt(t, n, i)' = PieceAt(t, n, i)
    BY <1>2 DEF PieceAt
  <2>4. sizes'[t][n] > 8 * Len(p)
    <3> DEFINE s == sizes[t][n]
               L == Len(p)
    <3>1. ~ (s - f.data.offset <= 8)
      BY <1>3 DEF Genuine
    <3>2. s \in Nat /\ L \in Nat \ {0} /\ f.data.offset = 8 * (L - 1)
      BY <1>4 DEF m
    <3> HIDE DEF s, L
    <3>3. s > 8 * L
      BY <3>1, <3>2
    <3> QED
      BY <1>2, <3>3 DEF s, L
  <2>5. p = [i \in 1 .. Len(p) |-> PieceAt(t, n, 8 * (i - 1))']
    <3>1. \A i \in 1 .. Len(p) : 8 * (i - 1) \in Nat
      BY <1>4 DEF m
    <3> QED
      BY <2>2, <2>3, <3>1
  <2> HIDE DEF p
  <2> QED
    BY <2>1, <2>2, <2>4, <2>5 DEF Partial
<1>21. Fresh(t)'
  <2> SUFFICES ASSUME NEW d \in Done', d.payload[1].from = t
               PROVE  /\ \A x \in Chain(t)' : x.first => d.payload[1].number < x.data.number
                      /\ k \in DOMAIN incomplete' =>
                           d.payload[1].number < incomplete'[k].payload[1].number
    BY DEF Fresh
  <2>1. CASE d \in Done
    <3>1. \A x \in Chain(t)' : x.first => d.payload[1].number < x.data.number
      BY <1>14, <2>1 DEF SenderInv, Fresh
    <3>2. d.payload[1].number < f.data.number
      BY <1>1, <2>1, ExtendedIsNew
    <3> QED
      BY <1>7, <1>8, <3>1, <3>2
  <2>2. CASE f.last /\ d = m
    <3>1. ASSUME NEW x \in Chain(t)', x.first PROVE d.payload[1].number < x.data.number
      <4>1. Before(f, x) /\ Genuine(t, x)
        BY <1>3, <1>12, <1>14, <2>2 DEF AllBefore, SenderInv
      <4> QED
        BY <1>3, <1>8, <2>2, <3>1, <4>1, FrameOrder
    <3> QED
      BY <1>7, <2>2, <3>1
  <2> QED
    BY <1>8, <2>1, <2>2
<1>22. SenderInv(t)'
  BY <1>16, <1>17, <1>18, <1>19, <1>20, <1>21 DEF SenderInv
<1> QED
  BY <1>9, <1>22

-----------------------------------------------------------------------------
(* Messages that are done *)

CompletedInv == (\A m \in Done : Whole(m)) /\ CompletedInOrder

LEMMA CompletedSame ==
  ASSUME CompletedInv, \A t \in Senders : SizesKept(t), UNCHANGED <<delivered, kc_recv_fifo>>
  PROVE  CompletedInv'
<1>1. Done' = Done
  BY DEF Done
<1>2. \A m \in Done' : Whole(m)'
  BY <1>1, WholeKept DEF CompletedInv
<1> QED
  BY <1>2 DEF CompletedInv, CompletedInOrder

LEMMA CompletedAccept ==
  ASSUME KeysApart, TypeInv, CompletedInv, \A u \in Senders : SenderInv(u),
         ReceiveInterrupt, Fits(Head(rx)), NEW t \in Senders, Head(rx).key = key[t]
  PROVE  CompletedInv'
<1>1. /\ rx # <<>> /\ ~halted /\ \A u \in Senders : SizesKept(u)
      /\ sizes' = sizes /\ delivered' = delivered
      /\ kc_recv_fifo' = IF Head(rx).last THEN Append(kc_recv_fifo, Extended(Head(rx)))
                                          ELSE kc_recv_fifo
  BY DEF ReceiveInterrupt, Accept, sender, SizesKept
<1>2. CASE ~Head(rx).last
  BY <1>1, <1>2, CompletedSame
<1>3. CASE Head(rx).last
  <2> PICK m : m = Extended(Head(rx))
    OBVIOUS
  <2> PICK n : n = Head(rx).data.number
    OBVIOUS
  <2>1. kc_recv_fifo' = Append(kc_recv_fifo, m) /\ kc_recv_fifo \in Seq(Messages)
    BY <1>1, <1>3 DEF TypeInv, TypeOK
  <2>2. /\ n \in DOMAIN sizes[t] /\ Carries(m, t, n)
        /\ m.payload[1].from = t /\ m.payload[1].number = n
    BY <1>1, <1>3, ExtendedPieces, ExtendedIsWhole
  <2>3. Whole(m)
    BY <2>2 DEF Whole
  <2>4. \A d \in Done : Precedes(d, m)
    BY <1>1, <2>2, ExtendedIsNew DEF Precedes
  <2>5. /\ DOMAIN kc_recv_fifo' = DOMAIN kc_recv_fifo \cup {Len(kc_recv_fifo) + 1}
        /\ \A i \in DOMAIN kc_recv_fifo' :
             \/ kc_recv_fifo'[i] = m /\ i = Len(kc_recv_fifo) + 1
             \/ i \in DOMAIN kc_recv_fifo /\ kc_recv_fifo'[i] = kc_recv_fifo[i]
        /\ DOMAIN kc_recv_fifo = 1 .. Len(kc_recv_fifo) /\ Len(kc_recv_fifo) \in Nat
    BY <2>1, AppendEither
  <2>6. \A d \in Done' : d \in Done \/ d = m
    BY <1>1, <2>5 DEF Done
  <2>7. \A d \in Done' : Whole(d)'
    BY <1>1, <2>3, <2>6, WholeKept DEF CompletedInv
  <2>8. Increasing(kc_recv_fifo')
    <3> SUFFICES ASSUME NEW i \in DOMAIN kc_recv_fifo', NEW j \in DOMAIN kc_recv_fifo', i < j
                 PROVE  Precedes(kc_recv_fifo'[i], kc_recv_fifo'[j])
      BY DEF Increasing
    <3>1. i \in DOMAIN kc_recv_fifo /\ kc_recv_fifo'[i] = kc_recv_fifo[i] /\ kc_recv_fifo[i] \in Done
      <4>1. i # Len(kc_recv_fifo) + 1
        BY <2>5
      <4> QED
        BY <2>5, <4>1 DEF Done
    <3>2. CASE kc_recv_fifo'[j] = m
      BY <2>4, <3>1, <3>2
    <3>3. CASE j \in DOMAIN kc_recv_fifo /\ kc_recv_fifo'[j] = kc_recv_fifo[j]
      BY <3>1, <3>3 DEF CompletedInv, CompletedInOrder, Increasing
    <3> QED
      BY <2>5, <3>2, <3>3
  <2>9. ASSUME NEW i \in DOMAIN delivered, NEW j \in DOMAIN kc_recv_fifo'
        PROVE  Precedes(delivered[i], kc_recv_fifo'[j])
    <3>1. delivered[i] \in Done
      BY DEF Done
    <3>2. CASE kc_recv_fifo'[j] = m
      BY <2>4, <3>1, <3>2
    <3>3. CASE j \in DOMAIN kc_recv_fifo /\ kc_recv_fifo'[j] = kc_recv_fifo[j]
      BY <3>3 DEF CompletedInv, CompletedInOrder
    <3> QED
      BY <2>5, <3>2, <3>3
  <2>10. CompletedInOrder'
    BY <1>1, <2>8, <2>9 DEF CompletedInv, CompletedInOrder
  <2> QED
    BY <2>7, <2>10 DEF CompletedInv
<1> QED
  BY <1>2, <1>3

\* kc_process_incoming moves the oldest message.
LEMMA DispatchMoves ==
  ASSUME TypeInv, Dispatch
  PROVE  /\ Done' = Done
         /\ CompletedInOrder => CompletedInOrder'
<1> DEFINE n == Len(delivered)
           l == Len(kc_recv_fifo)
<1>1. /\ kc_recv_fifo \in Seq(Messages) /\ kc_recv_fifo # <<>> /\ delivered \in Seq(Messages)
      /\ delivered' = Append(delivered, Head(kc_recv_fifo)) /\ kc_recv_fifo' = Tail(kc_recv_fifo)
  BY DEF Dispatch, TypeInv, TypeOK
<1>2. /\ n \in Nat /\ DOMAIN delivered = 1 .. n /\ DOMAIN delivered' = 1 .. n + 1
      /\ \A i \in 1 .. n : delivered'[i] = delivered[i]
      /\ delivered'[n + 1] = kc_recv_fifo[1]
  BY <1>1
<1>3. /\ l \in Nat \ {0} /\ DOMAIN kc_recv_fifo = 1 .. l
      /\ DOMAIN kc_recv_fifo' = 1 .. l - 1
      /\ \A i \in 1 .. l - 1 : kc_recv_fifo'[i] = kc_recv_fifo[i + 1]
  BY <1>1
<1> HIDE DEF n, l
<1>4. \A m : m \in Done' => m \in Done
  <2>1. \A i \in DOMAIN delivered' :
          \/ i \in DOMAIN delivered /\ delivered'[i] = delivered[i]
          \/ 1 \in DOMAIN kc_recv_fifo /\ delivered'[i] = kc_recv_fifo[1]
    BY <1>2, <1>3
  <2>2. \A i \in DOMAIN kc_recv_fifo' :
          i + 1 \in DOMAIN kc_recv_fifo /\ kc_recv_fifo'[i] = kc_recv_fifo[i + 1]
    BY <1>3
  <2> QED
    BY <2>1, <2>2 DEF Done
<1>5. \A m : m \in Done => m \in Done'
  <2>1. \A i \in DOMAIN delivered : i \in DOMAIN delivered' /\ delivered'[i] = delivered[i]
    BY <1>2
  <2>2. \A i \in DOMAIN kc_recv_fifo :
          \/ n + 1 \in DOMAIN delivered' /\ kc_recv_fifo[i] = delivered'[n + 1]
          \/ i - 1 \in DOMAIN kc_recv_fifo' /\ kc_recv_fifo[i] = kc_recv_fifo'[i - 1]
    BY <1>2, <1>3
  <2> QED
    BY <2>1, <2>2 DEF Done
<1>6. ASSUME CompletedInOrder
      PROVE  CompletedInOrder'
  <2>1. 1 \in DOMAIN kc_recv_fifo
    BY <1>3
  <2>2. Increasing(delivered')
    <3> SUFFICES ASSUME NEW i \in DOMAIN delivered', NEW j \in DOMAIN delivered', i < j
                 PROVE  Precedes(delivered'[i], delivered'[j])
      BY DEF Increasing
    <3>1. i \in DOMAIN delivered /\ delivered'[i] = delivered[i]
      BY <1>2
    <3>2. CASE j \in 1 .. n
      <4>1. j \in DOMAIN delivered /\ delivered'[j] = delivered[j]
        BY <1>2, <3>2
      <4> QED
        BY <1>6, <3>1, <4>1 DEF CompletedInOrder, Increasing
    <3>3. CASE j = n + 1
      BY <1>2, <1>6, <2>1, <3>1, <3>3 DEF CompletedInOrder
    <3> QED
      BY <1>2, <3>2, <3>3
  <2>3. Increasing(kc_recv_fifo')
    <3> SUFFICES ASSUME NEW i \in DOMAIN kc_recv_fifo', NEW j \in DOMAIN kc_recv_fifo', i < j
                 PROVE  Precedes(kc_recv_fifo'[i], kc_recv_fifo'[j])
      BY DEF Increasing
    <3>1. /\ i + 1 \in DOMAIN kc_recv_fifo /\ j + 1 \in DOMAIN kc_recv_fifo /\ i + 1 < j + 1
          /\ kc_recv_fifo'[i] = kc_recv_fifo[i + 1] /\ kc_recv_fifo'[j] = kc_recv_fifo[j + 1]
      BY <1>3
    <3> QED
      BY <1>6, <3>1 DEF CompletedInOrder, Increasing
  <2>4. ASSUME NEW i \in DOMAIN delivered', NEW j \in DOMAIN kc_recv_fifo'
        PROVE  Precedes(delivered'[i], kc_recv_fifo'[j])
    <3>1. /\ j + 1 \in DOMAIN kc_recv_fifo /\ 1 < j + 1
          /\ kc_recv_fifo'[j] = kc_recv_fifo[j + 1]
      BY <1>3
    <3>2. CASE i \in 1 .. n
      <4>1. i \in DOMAIN delivered /\ delivered'[i] = delivered[i]
        BY <1>2, <3>2
      <4> QED
        BY <1>6, <3>1, <4>1 DEF CompletedInOrder
    <3>3. CASE i = n + 1
      BY <1>2, <1>6, <2>1, <3>1, <3>3 DEF CompletedInOrder, Increasing
    <3> QED
      BY <1>2, <3>2, <3>3
  <2> QED
    BY <2>2, <2>3, <2>4 DEF CompletedInOrder
<1>7. Done' = Done
  BY <1>4, <1>5
<1> QED
  BY <1>6, <1>7

LEMMA DispatchKeeps ==
  ASSUME TypeInv, CompletedInv, \A u \in Senders : SenderInv(u), Dispatch
  PROVE  CompletedInv' /\ \A u \in Senders : SenderInv(u)'
<1>1. UNCHANGED <<sizes, sending, wire, rx, incomplete, halted, faults>>
  BY DEF Dispatch, sender
<1>2. Done' = Done /\ CompletedInOrder'
  BY DispatchMoves DEF CompletedInv
<1>3. \A u \in Senders : SizesKept(u)
  BY <1>1 DEF SizesKept
<1>4. CompletedInv'
  BY <1>2, <1>3, WholeKept DEF CompletedInv
<1>5. ASSUME NEW u \in Senders
      PROVE  SenderInv(u)'
  <2>1. /\ Accepted(u)' = Accepted(u) /\ Received(u)' = Received(u)
        /\ OnWire(u)' = OnWire(u) /\ Upcoming(u)' = Upcoming(u)
        /\ Sorted(wire'[u], key[u]) /\ (~halted' => Sorted(rx', key[u]))
    BY <1>1 DEF Accepted, Received, OnWire, Upcoming, FrameAt, PieceAt, IsLast, SenderInv, InOrder
  <2> QED
    BY <1>1, <1>2, <2>1, Untouched
<1> QED
  BY <1>4, <1>5

-----------------------------------------------------------------------------
(* The invariant *)

LEMMA TransportInit == Init => TransportInv
<1> SUFFICES ASSUME Init PROVE TransportInv
  OBVIOUS
<1>1. TypeInv
  BY TypeInit
<1>2. /\ rx = <<>> /\ kc_recv_fifo = <<>> /\ delivered = <<>> /\ halted = FALSE /\ faults = 0
      /\ DOMAIN incomplete = {}
      /\ \A t \in Senders : wire[t] = <<>> /\ ~sending[t].active
  BY DEF Init, Idle
<1>3. DOMAIN <<>> = {} /\ Done = {}
  BY <1>2 DEF Done
<1>4. CompletedInOrder
  BY <1>2, <1>3 DEF CompletedInOrder, Increasing
<1>5. \A t \in Senders : Accepted(t) = {} /\ Received(t) = {} /\ OnWire(t) = {} /\ Upcoming(t) = {}
  BY <1>2, EmptyQueue DEF Accepted, Received, OnWire, Upcoming
<1>6. \A t \in Senders : Chain(t) = {}
  BY <1>5 DEF Chain
<1>7. ASSUME NEW t \in Senders PROVE SenderInv(t)
  <2>1. InOrder(t)
    BY <1>2, <1>5, EmptyQueue DEF InOrder, AllBefore
  <2>2. Linked(Chain(t)) /\ WithoutFault(t)
    BY <1>6 DEF Linked, WithoutFault, Complete
  <2>3. Partial(t) /\ Fresh(t)
    BY <1>2, <1>3 DEF Partial, Fresh
  <2> QED
    BY <1>6, <2>1, <2>2, <2>3 DEF SenderInv
<1> QED
  BY <1>1, <1>2, <1>3, <1>4, <1>7 DEF TransportInv, HaltHasCause

LEMMA FaultsGrow ==
  ASSUME TypeInv, [Next]_vars
  PROVE  faults \in Nat /\ faults' \in Nat /\ faults' >= faults /\ (Trusted' => Trusted)
<1>1. faults \in Nat
  BY TransportAssumption DEF TypeInv, TypeOK
<1>2. faults' = faults \/ faults' = faults + 1
  BY DEF Next, vars, sender, receiver, Begin, TransmitFrame, Arrive, Overrun, RestartSender,
         RestartReceiver, ReceiveInterrupt, Dispatch, Fault
<1> QED
  BY <1>1, <1>2 DEF Trusted

LEMMA ThrowHasCause ==
  ASSUME TypeInv, \A u \in Senders : SenderInv(u), ReceiveInterrupt, ~Fits(Head(rx)), faults = 0
  PROVE  Len(kc_recv_fifo) = FifoSize
<1>1. rx # <<>> /\ ~halted
  BY DEF ReceiveInterrupt
<1> PICK t \in Senders : Head(rx).key = key[t]
  BY <1>1, ReceiverOf
<1> SUFFICES ~ (Len(kc_recv_fifo) < FifoSize)
  <2>1. Len(kc_recv_fifo) \in Nat /\ FifoSize \in Nat /\ Len(kc_recv_fifo) <= FifoSize
    BY TransportAssumption DEF TypeInv, TypeOK
  <2> QED
    BY <2>1
<1>2. CASE key[t] \in DOMAIN incomplete
  <2>1. ~Head(rx).first /\ Head(rx).counter = NextCounter(incomplete[key[t]].counter)
    BY <1>1, <1>2, HeadContinues
  <2> QED
    BY <1>2, <2>1 DEF Fits
<1>3. CASE key[t] \notin DOMAIN incomplete
  <2>1. Head(rx).first
    BY <1>1, <1>3, HeadBegins
  <2> QED
    BY <1>3, <2>1 DEF Fits
<1> QED
  BY <1>2, <1>3

LEMMA HaltStep ==
  ASSUME TransportInv, [Next]_vars
  PROVE  HaltHasCause'
<1>1. faults \in Nat /\ faults' \in Nat /\ faults' >= faults
  BY FaultsGrow DEF TransportInv
<1> SUFFICES ASSUME halted', faults' = 0
             PROVE  Len(kc_recv_fifo') = FifoSize
  BY <1>1 DEF HaltHasCause
<1>2. faults = 0
  BY <1>1
<1>3. CASE ReceiveInterrupt
  <2>1. ~halted
    BY <1>3 DEF ReceiveInterrupt
  <2>2. ~Fits(Head(rx)) /\ kc_recv_fifo' = kc_recv_fifo
    BY <1>3, <2>1 DEF ReceiveInterrupt, Accept, Throw
  <2> QED
    BY <1>2, <1>3, <2>2, ThrowHasCause DEF TransportInv, Trusted
<1>4. CASE ~ReceiveInterrupt
  <2>1. halted /\ kc_recv_fifo' = kc_recv_fifo
    BY <1>4 DEF Next, vars, sender, receiver, Begin, TransmitFrame, Arrive, Overrun,
                RestartSender, RestartReceiver, Dispatch
  <2> QED
    BY <1>2, <2>1 DEF TransportInv, HaltHasCause
<1> QED
  BY <1>3, <1>4

LEMMA TransportStep ==
  ASSUME KeysApart, CounterMod > 1
  PROVE  TransportInv /\ [Next]_vars => TransportInv'
<1> SUFFICES ASSUME TransportInv, [Next]_vars PROVE TransportInv'
  OBVIOUS
<1>1. TypeInv /\ TypeInv'
  BY TypeStep DEF TransportInv
<1>2. HaltHasCause'
  BY HaltStep
<1> SUFFICES ASSUME Trusted'
             PROVE  CompletedInv' /\ \A u \in Senders : SenderInv(u)'
  BY <1>1, <1>2 DEF TransportInv, CompletedInv
<1>3. CompletedInv /\ \A u \in Senders : SenderInv(u)
  BY <1>1, FaultsGrow DEF TransportInv, CompletedInv
<1>4. ASSUME NEW t \in Senders, Begin(t)
      PROVE  CompletedInv' /\ \A u \in Senders : SenderInv(u)'
  <2>1. \A u \in Senders : SizesKept(u)
    <3> SUFFICES ASSUME NEW u \in Senders, NEW n \in DOMAIN sizes[u]
                 PROVE  n \in DOMAIN sizes'[u] /\ sizes'[u][n] = sizes[u][n]
      BY DEF SizesKept
    <3> PICK size \in Sizes : sizes' = [sizes EXCEPT ![t] = Append(sizes[t], size)]
      BY <1>4 DEF Begin
    <3>1. sizes \in [Senders -> Seq(Sizes)]
      BY <1>1 DEF TypeInv
    <3>2. CASE u # t
      BY <3>1, <3>2
    <3>3. CASE u = t
      <4>1. sizes'[u] = Append(sizes[u], size) /\ sizes[u] \in Seq(Sizes)
        BY <3>1, <3>3
      <4>2. n \in DOMAIN Append(sizes[u], size) /\ Append(sizes[u], size)[n] = sizes[u][n]
        BY <4>1
      <4> QED
        BY <4>1, <4>2
    <3> QED
      BY <3>2, <3>3
  <2>2. CompletedInv'
    BY <1>3, <1>4, <2>1, CompletedSame DEF Begin, receiver
  <2> QED
    BY <1>1, <1>3, <1>4, <2>2, BeginKeeps DEF CompletedInv
<1>5. ASSUME NEW t \in Senders,
             TransmitFrame(t) \/ Arrive(t) \/ Overrun(t) \/ RestartSender(t)
      PROVE  CompletedInv' /\ \A u \in Senders : SenderInv(u)'
  <2>1. UNCHANGED <<sizes, delivered, kc_recv_fifo>>
    BY <1>5 DEF TransmitFrame, Arrive, Overrun, RestartSender, sender, receiver
  <2>2. CompletedInv'
    BY <1>3, <2>1, CompletedSame DEF SizesKept
  <2>3. \A u \in Senders : SenderInv(u)'
    BY <1>1, <1>3, <1>5, TransmitKeeps, ArriveKeeps, OverrunKeeps, RestartSenderKeeps
  <2> QED
    BY <2>2, <2>3
<1>6. ASSUME ReceiveInterrupt
      PROVE  CompletedInv' /\ \A u \in Senders : SenderInv(u)'
  <2>1. rx # <<>> /\ UNCHANGED <<sizes, sending, wire, delivered>>
    BY <1>6 DEF ReceiveInterrupt, sender
  <2> PICK t \in Senders : Head(rx).key = key[t]
    BY <1>1, <2>1, ReceiverOf
  <2>2. CASE Fits(Head(rx))
    BY <1>1, <1>3, <1>6, <2>2, AcceptKeeps, CompletedAccept
  <2>3. CASE ~Fits(Head(rx))
    <3>1. Throw
      BY <1>6, <2>3 DEF ReceiveInterrupt
    <3>2. CompletedInv'
      BY <1>3, <2>1, <3>1, CompletedSame DEF Throw, SizesKept
    <3> QED
      BY <1>3, <2>1, <3>1, <3>2, ThrowKeeps
  <2> QED
    BY <2>2, <2>3
<1>7. ASSUME RestartReceiver
      PROVE  CompletedInv' /\ \A u \in Senders : SenderInv(u)'
  <2>1. kc_recv_fifo' = <<>> /\ UNCHANGED <<sizes, delivered>> /\ DOMAIN <<>> = {}
    BY <1>7 DEF RestartReceiver, sender
  <2>2. Done' \subseteq Done
    BY <2>1 DEF Done
  <2>3. CompletedInOrder'
    BY <1>3, <2>1 DEF CompletedInv, CompletedInOrder, Increasing
  <2>4. \A m \in Done' : Whole(m)'
    BY <1>3, <2>1, <2>2, WholeKept DEF CompletedInv, SizesKept
  <2>5. CompletedInv'
    BY <2>3, <2>4 DEF CompletedInv
  <2> QED
    BY <1>1, <1>3, <1>7, <2>5, RestartReceiverKeeps
<1>8. CASE UNCHANGED vars
  <2>1. UNCHANGED <<sizes, sending, wire, rx, incomplete, kc_recv_fifo, halted, delivered, faults>>
    BY <1>8 DEF vars, sender, receiver
  <2>2. CompletedInv'
    BY <1>3, <2>1, CompletedSame DEF SizesKept
  <2>3. Done' = Done
    BY <2>1 DEF Done
  <2>4. ASSUME NEW u \in Senders
        PROVE  SenderInv(u)'
    <3>1. /\ Accepted(u)' = Accepted(u) /\ Received(u)' = Received(u)
          /\ OnWire(u)' = OnWire(u) /\ Upcoming(u)' = Upcoming(u)
          /\ Sorted(wire'[u], key[u]) /\ (~halted' => Sorted(rx', key[u]))
      BY <1>3, <2>1 DEF Accepted, Received, OnWire, Upcoming, FrameAt, PieceAt, IsLast,
                        SenderInv, InOrder
    <3> QED
      BY <1>3, <2>1, <2>3, <3>1, Untouched
  <2> QED
    BY <2>2, <2>4
<1> QED
  BY <1>1, <1>3, <1>4, <1>5, <1>6, <1>7, <1>8, DispatchKeeps DEF Next

\* No frame is lost, however often the nodes restart; or there is one fault at most.
FewLosses == "loss" \notin FaultKinds \/ MaxFaults <= 1

LEMMA TransportSafe ==
  ASSUME KeysApart, CounterMod > 1
  PROVE  Spec => []TransportInv
BY TransportInit, TransportStep, PTL DEF Spec

\* can_recv_callback: when no two senders share a key, whatever interleaving of their
\* frames, restarts of the nodes or loss of one frame, a message that is dispatched is one
\* somebody sent, with all its pieces in order.
THEOREM MessagesIntact ==
  ASSUME KeysApart, CounterMod > 1, FewLosses
  PROVE  Spec => []DeliveredIntact
<1>1. TransportInv => DeliveredIntact
  <2> SUFFICES ASSUME TransportInv PROVE DeliveredIntact
    OBVIOUS
  <2>1. Trusted
    BY TransportAssumption DEF FewLosses, Trusted, TransportInv, TypeInv, TypeOK
  <2>2. \A i \in DOMAIN delivered : delivered[i] \in Done
    BY DEF Done
  <2> QED
    BY <2>1, <2>2 DEF TransportInv, DeliveredIntact, Whole
<1> QED
  BY <1>1, TransportSafe, PTL

\* kc_recv_fifo and can_recv_callback: under the same conditions the messages of one
\* sender are dispatched in the order in which it sent them, and none twice.
THEOREM MessagesInOrder ==
  ASSUME KeysApart, CounterMod > 1, FewLosses
  PROVE  Spec => []DeliveredInOrder
<1>1. TransportInv => DeliveredInOrder
  <2> SUFFICES ASSUME TransportInv PROVE DeliveredInOrder
    OBVIOUS
  <2>1. Trusted
    BY TransportAssumption DEF FewLosses, Trusted, TransportInv, TypeInv, TypeOK
  <2> QED
    BY <2>1 DEF TransportInv, CompletedInOrder, Increasing, Precedes, DeliveredInOrder
<1> QED
  BY <1>1, TransportSafe, PTL

\* error_throw in can_recv_callback: as long as no frame is lost and no node restarts, the
\* receiver is only stopped by a receive FIFO that is full, however many senders
\* interleave their frames and whatever the sizes of their messages.
THEOREM HaltsForCause ==
  ASSUME KeysApart, CounterMod > 1
  PROVE  Spec => []HaltHasCause
<1>1. TransportInv => HaltHasCause
  BY DEF TransportInv
<1> QED
  BY <1>1, TransportSafe, PTL

=============================================================================
