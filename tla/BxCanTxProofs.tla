---------------------------- MODULE BxCanTxProofs ----------------------------
(***************************************************************************)
(* Transmission, for any number of mailboxes and queue slots: every        *)
(* variable keeps its type; only a late put leaves a queued frame without  *)
(* an interrupt to come; and frames are sent in the order in which one     *)
(* task handed them over, the driver being one queue.                      *)
(***************************************************************************)
EXTENDS BxCanTx, TLAPS, WellFoundedInduction, FiniteSetTheorems, SequenceTheorems

-----------------------------------------------------------------------------
(* Mailboxes *)

\* When no mailbox is empty some request is pending.
LEMMA TakenMeansRequested ==
  ASSUME EmptyBoxes = {}
  PROVE  requests # <<>>
<1>1. 0 \in Boxes
  BY BxCanAssumption DEF Boxes
<1>2. 0 \in Range(requests)
  BY <1>1 DEF EmptyBoxes, Empty
<1>3. Range(<<>>) = {}
  BY DEF Range
<1> QED
  BY <1>2, <1>3

\* A non-empty set of mailboxes has a smallest one.
LEMMA SmallestBox ==
  ASSUME NEW S, S \subseteq Boxes, S # {}
  PROVE  Min(S) \in S
<1>1. S \subseteq Nat
  BY BxCanAssumption DEF Boxes
<1> DEFINE less == {p \in Nat \X Nat : p[1] < p[2]}
<1>2. IsWellFoundedOn(less, Nat)
  BY NatLessThanWellFounded DEF OpToRel
<1> HIDE DEF less
<1>3. PICK x \in S : \A y \in S : <<y, x>> \notin less
  BY <1>1, <1>2, WFMin
<1>4. ASSUME NEW y \in S
      PROVE  x <= y
  <2>1. x \in Nat /\ y \in Nat
    BY <1>1
  <2>2. ~ y < x
    BY <1>3, <2>1 DEF less
  <2> QED
    BY <2>1, <2>2
<1> QED
  BY <1>4 DEF Min

\* The code names a mailbox, an empty one if there is any.
LEMMA CodeIsMailbox ==
  ASSUME requests \in Seq(Boxes)
  PROVE  /\ Code \in Boxes
         /\ EmptyBoxes # {} => Code \in EmptyBoxes
<1>1. CASE EmptyBoxes # {}
  BY <1>1, SmallestBox DEF Code, EmptyBoxes
<1>2. CASE EmptyBoxes = {}
  <2>1. requests # <<>>
    BY <1>2, TakenMeansRequested
  <2>2. Last(requests) \in Boxes
    BY <2>1 DEF Last
  <2> QED
    BY <1>2, <2>2 DEF Code
<1> QED
  BY <1>1, <1>2

-----------------------------------------------------------------------------
(* Types *)

\* A requested mailbox holds a frame, and so does one about to be requested.
TypeInv ==
  /\ TypeOK
  /\ \A t \in Tasks : pc[t] \in {"code", "load", "put"} => frame[t] \in Frames
  /\ \A m \in Range(requests) : registers[m] \in Frames
  /\ \A t \in Tasks : pc[t] = "request" => registers[mailbox_id[t]] \in Frames

LEMMA NextFrameTyped ==
  ASSUME TypeOK, NEW t \in Tasks, NextFrame(t)[2] <= MaxFrames
  PROVE  NextFrame(t) \in Frames
<1> DEFINE mine == {i \in DOMAIN handed : handed[i][1] = t}
<1>1. handed \in Seq(Frames) /\ DOMAIN handed = 1 .. Len(handed) /\ Len(handed) \in Nat
  BY DEF TypeOK
<1>2. IsFiniteSet(1 .. Len(handed))
  BY <1>1, FS_Interval
<1>3. IsFiniteSet(mine)
  <2>1. mine \in SUBSET (1 .. Len(handed))
    BY <1>1
  <2> QED
    BY <1>2, <2>1, FS_Subset
<1>4. Cardinality(mine) \in Nat
  BY <1>3, FS_CardinalityType
<1> HIDE DEF mine
<1>5. NextFrame(t) = <<t, Cardinality(mine) + 1>>
  BY DEF NextFrame, mine
<1> QED
  BY <1>4, <1>5, BxCanAssumption DEF Frames

\* What enters and leaves the list of requests.
LEMMA RangeFacts ==
  ASSUME NEW s \in Seq(Boxes)
  PROVE  /\ \A m \in Boxes : Append(s, m) \in Seq(Boxes) /\ Range(Append(s, m)) = Range(s) \cup {m}
         /\ s # <<>> => /\ Tail(s) \in Seq(Boxes) /\ Head(s) \in Range(s)
                        /\ Range(Tail(s)) \subseteq Range(s)
         /\ Range(s) \subseteq Boxes
<1>1. Range(s) \subseteq Boxes
  BY DEF Range
<1>2. ASSUME NEW m \in Boxes
      PROVE  Append(s, m) \in Seq(Boxes) /\ Range(Append(s, m)) = Range(s) \cup {m}
  <2> DEFINE r == Append(s, m)
  <2>1. r \in Seq(Boxes) /\ DOMAIN r = 1 .. Len(s) + 1 /\ DOMAIN s = 1 .. Len(s)
        /\ Len(s) \in Nat
    OBVIOUS
  <2>2. r[Len(s) + 1] = m /\ \A i \in 1 .. Len(s) : r[i] = s[i]
    OBVIOUS
  <2> HIDE DEF r
  <2>3. Range(r) \subseteq Range(s) \cup {m}
    <3>1. \A i \in DOMAIN r : r[i] \in Range(s) \cup {m}
      BY <2>1, <2>2 DEF Range
    <3> QED
      BY <3>1 DEF Range
  <2>4. Range(s) \cup {m} \subseteq Range(r)
    <3>1. \A i \in DOMAIN s : s[i] \in Range(r)
      BY <2>1, <2>2 DEF Range
    <3>2. m \in Range(r)
      BY <2>1, <2>2 DEF Range
    <3> QED
      BY <3>1, <3>2 DEF Range
  <2> QED
    BY <2>1, <2>3, <2>4 DEF r
<1>3. ASSUME s # <<>>
      PROVE  /\ Tail(s) \in Seq(Boxes) /\ Head(s) \in Range(s)
             /\ Range(Tail(s)) \subseteq Range(s)
  <2> DEFINE r == Tail(s)
  <2>1. Len(s) \in Nat \ {0} /\ r \in Seq(Boxes) /\ DOMAIN r = 1 .. Len(s) - 1
        /\ DOMAIN s = 1 .. Len(s) /\ Head(s) = s[1]
    BY <1>3
  <2>2. \A i \in 1 .. Len(s) - 1 : r[i] = s[i + 1]
    BY <1>3
  <2> HIDE DEF r
  <2>3. \A i \in DOMAIN r : r[i] \in Range(s)
    BY <2>1, <2>2 DEF Range
  <2>4. s[1] \in Range(s)
    BY <2>1 DEF Range
  <2> QED
    BY <2>1, <2>3, <2>4 DEF Range, r
<1> QED
  BY <1>1, <1>2, <1>3

LEMMA TypeInit == Init => TypeInv
<1> SUFFICES ASSUME Init PROVE TypeInv
  OBVIOUS
<1>1. 0 \in Boxes /\ 0 <= QueueSize
  BY BxCanAssumption DEF Boxes
<1>2. Range(<<>>) = {}
  BY DEF Range
<1> QED
  BY <1>1, <1>2 DEF Init, TypeInv, TypeOK, Labels, NoFrame

LEMMA TypeTask ==
  ASSUME TypeInv, NEW t \in Tasks, Task(t)
  PROVE  TypeInv'
<1> USE DEF Labels
<1>1. TypeOK
  BY DEF TypeInv
<1>2. CASE can_transmit_frame(t)
  <2>1. NextFrame(t) \in Frames
    BY <1>1, <1>2, NextFrameTyped DEF can_transmit_frame, HandOver
  <2>2. /\ frame' = [frame EXCEPT ![t] = NextFrame(t)]
        /\ handed' = Append(handed, NextFrame(t))
        /\ \E l \in {"code", "put"} : pc' = [pc EXCEPT ![t] = l]
        /\ UNCHANGED <<mailbox_id, requests, registers, rqcp, bxcan_tx_queue, sent>>
    BY <1>2 DEF can_transmit_frame, HandOver, Goto, hardware
  <2>3. handed' \in Seq(Frames) /\ frame' \in [Tasks -> Frames \cup {NoFrame}]
    BY <1>1, <2>1, <2>2 DEF TypeOK
  <2>4. pc' \in [Tasks -> Labels]
    BY <1>1, <2>2 DEF TypeOK
  <2>5. TypeOK'
    BY <1>1, <2>2, <2>3, <2>4 DEF TypeOK
  <2>6. \A u \in Tasks : pc'[u] \in {"code", "load", "put"} => frame'[u] \in Frames
    BY <1>1, <2>1, <2>2 DEF TypeInv, TypeOK
  <2>7. \A u \in Tasks : pc'[u] = "request" => pc[u] = "request"
    BY <1>1, <2>2 DEF TypeOK
  <2> QED
    BY <2>2, <2>5, <2>6, <2>7 DEF TypeInv
<1>3. CASE ReadCode(t)
  <2>1. Code \in Boxes
    BY <1>1, CodeIsMailbox DEF TypeOK
  <2> QED
    BY <1>3, <2>1 DEF ReadCode, Goto, TypeInv, TypeOK, hardware
<1>4. CASE LoadMailbox(t)
  <2> DEFINE m == mailbox_id[t]
  <2>1. m \in Boxes /\ frame[t] \in Frames
    BY <1>4 DEF LoadMailbox, TypeInv, TypeOK
  <2>2. /\ registers' = IF Empty(m) THEN [registers EXCEPT ![m] = frame[t]] ELSE registers
        /\ pc' = [pc EXCEPT ![t] = "request"]
        /\ UNCHANGED <<frame, mailbox_id, requests, rqcp, bxcan_tx_queue, handed, sent>>
    BY <1>4 DEF LoadMailbox, WriteRegisters, Goto
  <2>3. TypeOK'
    BY <1>1, <2>1, <2>2 DEF TypeOK
  <2>4. \A b \in Boxes : registers[b] \in Frames => registers'[b] \in Frames
    BY <1>1, <2>1, <2>2 DEF TypeOK
  <2>5. registers'[m] \in Frames
    BY <1>1, <2>1, <2>2 DEF TypeOK, TypeInv, Empty
  <2>6. \A b \in Range(requests') : registers'[b] \in Frames
    BY <1>1, <2>2, <2>4, RangeFacts DEF TypeOK, TypeInv
  <2>7. \A u \in Tasks : pc'[u] = "request" => registers'[mailbox_id'[u]] \in Frames
    BY <1>1, <2>1, <2>2, <2>4, <2>5 DEF TypeOK, TypeInv
  <2>8. \A u \in Tasks : pc'[u] \in {"code", "load", "put"} => frame'[u] \in Frames
    BY <1>1, <2>2 DEF TypeOK, TypeInv
  <2> QED
    BY <2>3, <2>6, <2>7, <2>8 DEF TypeInv
<1>5. CASE SetRequest(t)
  <2> DEFINE m == mailbox_id[t]
  <2>1. m \in Boxes /\ registers[m] \in Frames
    BY <1>5 DEF SetRequest, TypeInv, TypeOK
  <2>2. /\ requests' = IF Empty(m) THEN Append(requests, m) ELSE requests
        /\ rqcp' = IF Empty(m) THEN rqcp \ {m} ELSE rqcp
        /\ pc' = [pc EXCEPT ![t] = "flush"]
        /\ UNCHANGED <<frame, mailbox_id, registers, bxcan_tx_queue, handed, sent>>
    BY <1>5 DEF SetRequest, RequestTransmission, Goto
  <2>3. requests' \in Seq(Boxes) /\ \A b \in Range(requests') : registers[b] \in Frames
    BY <1>1, <2>1, <2>2, RangeFacts DEF TypeOK, TypeInv
  <2>4. TypeOK'
    BY <1>1, <2>2, <2>3 DEF TypeOK
  <2> QED
    BY <1>1, <2>2, <2>3, <2>4 DEF TypeInv, TypeOK
<1>6. CASE QueuePut(t)
  <2>1. frame[t] \in Frames
    BY <1>6 DEF QueuePut, TypeInv
  <2>2. /\ bxcan_tx_queue' = Append(bxcan_tx_queue, frame[t]) /\ Len(bxcan_tx_queue) < QueueSize
        /\ pc' = [pc EXCEPT ![t] = "flush"]
        /\ UNCHANGED <<frame, mailbox_id, requests, registers, rqcp, handed, sent>>
    BY <1>6 DEF QueuePut, Goto, hardware
  <2>3. bxcan_tx_queue' \in Seq(Frames) /\ Len(bxcan_tx_queue') <= QueueSize
    BY <1>1, <2>1, <2>2, BxCanAssumption DEF TypeOK
  <2>4. TypeOK'
    BY <1>1, <2>2, <2>3 DEF TypeOK
  <2> QED
    BY <1>1, <2>2, <2>4 DEF TypeInv, TypeOK
<1>7. CASE can_flush_tx_buffer(t)
  BY <1>7 DEF can_flush_tx_buffer, Goto, TypeInv, TypeOK, hardware
<1> QED
  BY <1>2, <1>3, <1>4, <1>5, <1>6, <1>7 DEF Task

LEMMA TypeBus ==
  ASSUME TypeInv, BusSend
  PROVE  TypeInv'
<1>1. requests \in Seq(Boxes) /\ requests # <<>> /\ sent \in Seq(Frames)
  BY DEF TypeInv, TypeOK, BusSend
<1>2. Head(requests) \in Boxes /\ registers[Head(requests)] \in Frames
  BY <1>1, RangeFacts DEF TypeInv
<1>3. requests' \in Seq(Boxes) /\ Range(requests') \subseteq Range(requests)
  BY <1>1, RangeFacts DEF BusSend
<1>4. sent' \in Seq(Frames) /\ rqcp' \subseteq Boxes
  BY <1>1, <1>2 DEF BusSend, TypeInv, TypeOK
<1> QED
  BY <1>3, <1>4 DEF BusSend, TypeInv, TypeOK, tasks

LEMMA TypeInterrupt ==
  ASSUME TypeInv, TransmitInterrupt
  PROVE  TypeInv'
<1>1. requests \in Seq(Boxes) /\ bxcan_tx_queue \in Seq(Frames)
  BY DEF TypeInv, TypeOK
<1>2. CASE bxcan_tx_queue # <<>> /\ EmptyBoxes # {}
  <2>1. Code \in EmptyBoxes /\ Code \in Boxes
    BY <1>1, <1>2, CodeIsMailbox
  <2>2. Empty(Code)
    BY <2>1 DEF EmptyBoxes
  <2>3. /\ registers' = [registers EXCEPT ![Code] = Head(bxcan_tx_queue)]
        /\ requests' = Append(requests, Code)
        /\ bxcan_tx_queue' = Tail(bxcan_tx_queue)
        /\ rqcp' = {}
        /\ UNCHANGED <<pc, frame, mailbox_id, handed, sent>>
    BY <1>2, <2>2 DEF TransmitInterrupt, WriteRegisters, tasks
  <2>4. Head(bxcan_tx_queue) \in Frames /\ bxcan_tx_queue' \in Seq(Frames)
        /\ Len(bxcan_tx_queue') <= QueueSize
    BY <1>1, <1>2, <2>3, BxCanAssumption DEF TypeInv, TypeOK
  <2>5. requests' \in Seq(Boxes) /\ Range(requests') = Range(requests) \cup {Code}
    BY <1>1, <2>1, <2>3, RangeFacts
  <2>6. \A b \in Boxes : registers[b] \in Frames \/ b = Code => registers'[b] \in Frames
    BY <2>1, <2>3, <2>4 DEF TypeInv, TypeOK
  <2>7. \A b \in Range(requests') : registers'[b] \in Frames
    BY <1>1, <2>1, <2>5, <2>6, RangeFacts DEF TypeInv
  <2>8. \A t \in Tasks : pc'[t] = "request" => registers'[mailbox_id'[t]] \in Frames
    BY <2>3, <2>6 DEF TypeInv, TypeOK
  <2>9. TypeOK'
    BY <2>1, <2>3, <2>4, <2>5 DEF TypeInv, TypeOK
  <2> QED
    BY <2>3, <2>7, <2>8, <2>9 DEF TypeInv
<1>3. CASE ~ (bxcan_tx_queue # <<>> /\ EmptyBoxes # {})
  BY <1>3 DEF TransmitInterrupt, TypeInv, TypeOK, tasks
<1> QED
  BY <1>2, <1>3

LEMMA TypeStep == TypeInv /\ [Next]_vars => TypeInv'
<1>1. TypeInv /\ UNCHANGED vars => TypeInv'
  BY DEF TypeInv, TypeOK, vars, tasks, hardware
<1> QED
  BY <1>1, TypeBus, TypeInterrupt, TypeTask DEF Next

\* bxcan.c: what the tasks, the interrupt and the peripheral do to the mailboxes and the
\* queue keeps every variable in its type, for any number of tasks; in particular a
\* mailbox is only requested with a frame in it.
THEOREM MailboxesTyped == Spec => []TypeOK
<1>1. TypeInv => TypeOK
  BY DEF TypeInv
<1> QED
  BY <1>1, TypeInit, TypeStep, PTL DEF Spec

-----------------------------------------------------------------------------
(* No lost wakeup, but for a late put *)

\* A task takes a frame out of the hands of all interrupts only by a put.
LEMMA TaskStrands ==
  ASSUME TypeInv, ~Stranded, NEW t \in Tasks, Task(t), ~QueuePut(t)
  PROVE  ~Stranded'
<1>1. CASE can_transmit_frame(t) \/ ReadCode(t) \/ LoadMailbox(t) \/ can_flush_tx_buffer(t)
  <2>1. UNCHANGED <<requests, rqcp, bxcan_tx_queue>>
    BY <1>1 DEF can_transmit_frame, HandOver, ReadCode, LoadMailbox, can_flush_tx_buffer,
                hardware
  <2> QED
    BY <2>1 DEF Stranded
<1>2. CASE SetRequest(t)
  <2> DEFINE m == mailbox_id[t]
  <2>1. m \in Boxes /\ requests \in Seq(Boxes)
    BY DEF TypeInv, TypeOK
  <2>2. UNCHANGED bxcan_tx_queue
    BY <1>2 DEF SetRequest
  <2>3. requests' = Append(requests, m) \/ UNCHANGED <<requests, rqcp>>
    BY <1>2 DEF SetRequest, RequestTransmission
  <2>4. Append(requests, m) # <<>>
    BY <2>1
  <2> QED
    BY <2>2, <2>3, <2>4 DEF Stranded
<1> QED
  BY <1>1, <1>2 DEF Task

\* The interrupt leaves a frame in the queue only behind a request: it moves one into an
\* empty mailbox, or there is none.
LEMMA InterruptStrandsNothing ==
  ASSUME TypeInv, TransmitInterrupt
  PROVE  ~Stranded'
<1>1. requests \in Seq(Boxes)
  BY DEF TypeInv, TypeOK
<1>2. CASE bxcan_tx_queue # <<>> /\ EmptyBoxes # {}
  <2>1. Code \in Boxes
    BY <1>1, CodeIsMailbox
  <2>2. requests' = Append(requests, Code)
    BY <1>2 DEF TransmitInterrupt
  <2>3. requests' # <<>>
    BY <1>1, <2>1, <2>2
  <2> QED
    BY <2>3 DEF Stranded
<1>3. CASE ~ (bxcan_tx_queue # <<>> /\ EmptyBoxes # {})
  <2>1. UNCHANGED <<requests, bxcan_tx_queue>>
    BY <1>3 DEF TransmitInterrupt
  <2>2. bxcan_tx_queue # <<>> => requests # <<>>
    BY <1>3, TakenMeansRequested
  <2> QED
    BY <2>1, <2>2 DEF Stranded
<1> QED
  BY <1>2, <1>3

\* can_transmit_frame, can_flush_tx_buffer and USB_HP_CAN_TX_IRQHandler, for any number of
\* tasks, mailboxes and queue slots, however long a task is held up between its look at
\* the mailboxes and its put: only that put can leave a queued frame without an interrupt
\* to come.
THEOREM NoLostWakeup == Spec => OnlyLatePutStrands
<1> DEFINE Late == ~Stranded /\ Stranded' => \E t \in Tasks : QueuePut(t)
<1>1. TypeInv /\ [Next]_vars => [Late]_vars
  <2> SUFFICES ASSUME TypeInv, Next, ~Stranded, ~ \E t \in Tasks : QueuePut(t)
               PROVE  ~Stranded'
    OBVIOUS
  <2>1. CASE BusSend
    BY <2>1 DEF BusSend, Stranded
  <2>2. CASE TransmitInterrupt
    BY <2>2, InterruptStrandsNothing
  <2>3. CASE \E t \in Tasks : Task(t)
    BY <2>3, TaskStrands
  <2> QED
    BY <2>1, <2>2, <2>3 DEF Next
<1> QED
  BY <1>1, TypeInit, TypeStep, PTL DEF Spec, OnlyLatePutStrands

-----------------------------------------------------------------------------
(* The order *)

\* The first element of a sequence moves behind another one.
LEMMA QueueMoves ==
  ASSUME NEW S, NEW r \in Seq(S), NEW q \in Seq(S), q # <<>>
  PROVE  r \o q = Append(r, Head(q)) \o Tail(q)
<1> DEFINE h == Head(q)
           v == Tail(q)
<1>1. h \in S /\ v \in Seq(S) /\ <<h>> \in Seq(S)
  OBVIOUS
<1>2. q = <<h>> \o v
  <2>1. Len(<<h>>) = 1 /\ <<h>>[1] = q[1] /\ Len(v) = Len(q) - 1 /\ Len(q) \in Nat
        /\ \A i \in 1 .. Len(q) - 1 : v[i] = q[i + 1]
    OBVIOUS
  <2> HIDE DEF h, v
  <2> DEFINE c == <<h>> \o v
  <2>2. /\ c \in Seq(S) /\ Len(c) = Len(q)
        /\ \A i \in 1 .. Len(q) : c[i] = IF i <= 1 THEN <<h>>[i] ELSE v[i - 1]
    BY <1>1, <2>1
  <2> HIDE DEF c
  <2>3. \A i \in 1 .. Len(q) : c[i] = q[i]
    BY <2>1, <2>2
  <2>4. c = q
    BY <2>2, <2>3, SeqEqual
  <2> QED
    BY <2>4 DEF c
<1>3. Append(r, h) = r \o <<h>>
  BY <1>1, AppendIsConcat
<1> HIDE DEF h, v
<1>4. r \o (<<h>> \o v) = (r \o <<h>>) \o v
  BY <1>1, ConcatAssociative
<1>5. r \o q = Append(r, h) \o v
  BY <1>2, <1>3, <1>4
<1> QED
  BY <1>5 DEF h, v

LEMMA Regroup ==
  ASSUME NEW S, NEW a \in Seq(S), NEW b \in Seq(S), NEW c \in Seq(S), NEW d \in Seq(S),
         NEW q \in Seq(S)
  PROVE  a \o b = c \o d => a \o (b \o q) = c \o (d \o q)
<1>1. a \o (b \o q) = (a \o b) \o q
  BY ConcatAssociative, SMT
<1>2. c \o (d \o q) = (c \o d) \o q
  BY ConcatAssociative, SMT
<1> QED
  BY <1>1, <1>2, Zenon

\* The oldest of the frames underway is sent.
LEMMA HeadMoves ==
  ASSUME NEW S, NEW s \in Seq(S), NEW r \in Seq(S), NEW q \in Seq(S), r # <<>>
  PROVE  s \o (r \o q) = Append(s, Head(r)) \o (Tail(r) \o q)
<1>1. Append(s, Head(r)) \in Seq(S) /\ Tail(r) \in Seq(S)
  OBVIOUS
<1>2. s \o r = Append(s, Head(r)) \o Tail(r)
  BY QueueMoves
<1> QED
  BY <1>1, <1>2, Regroup

\* One task uses the peripheral.  Between its look at the mailboxes and its request the
\* one it chose stays empty, because the queue, and so the interrupt, has nothing to put
\* into it.
OneTask == \A t, u \in Tasks : t = u

Requested == [i \in DOMAIN requests |-> registers[requests[i]]]
Held == IF InHand = {} THEN <<>> ELSE <<Last(handed)>>

OrderInv ==
  /\ TypeInv
  /\ \A i, j \in DOMAIN requests : requests[i] = requests[j] => i = j
  /\ \A t \in InHand : handed # <<>> /\ frame[t] = Last(handed) /\ bxcan_tx_queue = <<>>
  /\ \A t \in Tasks :
       /\ pc[t] = "idle" => bxcan_tx_queue = <<>>
       /\ pc[t] = "code" => EmptyBoxes # {}
       /\ pc[t] = "load" => Empty(mailbox_id[t])
       /\ pc[t] = "request" => Empty(mailbox_id[t]) /\ registers[mailbox_id[t]] = frame[t]
  /\ SentInOrder

LEMMA RequestedTyped ==
  ASSUME TypeInv
  PROVE  /\ Requested \in Seq(Frames) /\ Len(Requested) = Len(requests)
         /\ bxcan_tx_queue \in Seq(Frames) /\ sent \in Seq(Frames) /\ handed \in Seq(Frames)
         /\ requests \in Seq(Boxes)
         /\ Underway = Requested \o bxcan_tx_queue
<1>1. requests \in Seq(Boxes) /\ DOMAIN requests = 1 .. Len(requests)
      /\ bxcan_tx_queue \in Seq(Frames) /\ sent \in Seq(Frames) /\ handed \in Seq(Frames)
      /\ Len(requests) \in Nat
  BY DEF TypeInv, TypeOK
<1>2. \A i \in DOMAIN requests : registers[requests[i]] \in Frames
  BY DEF TypeInv, Range
<1> QED
  BY <1>1, <1>2 DEF Requested, Underway

\* Writing a mailbox that is not requested changes none of the frames underway.
LEMMA RequestedKept ==
  ASSUME TypeInv, NEW m \in Boxes, Empty(m), NEW f,
         registers' = [registers EXCEPT ![m] = f]
  PROVE  /\ registers'[m] = f
         /\ \A i \in DOMAIN requests : registers'[requests[i]] = registers[requests[i]]
         /\ Requested = [i \in DOMAIN requests |-> registers'[requests[i]]]
<1>1. \A i \in DOMAIN requests : requests[i] \in Boxes /\ requests[i] # m
  BY RangeFacts DEF Empty, Range, TypeInv, TypeOK
<1>2. registers'[m] = f
  BY DEF TypeInv, TypeOK
<1>3. \A i \in DOMAIN requests : registers'[requests[i]] = registers[requests[i]]
  BY <1>1 DEF TypeInv, TypeOK
<1> QED
  BY <1>2, <1>3 DEF Requested

\* A requested frame is the last one underway in the mailboxes, and mailboxes stay
\* distinct.
LEMMA RequestAppended ==
  ASSUME OrderInv, NEW m \in Boxes, Empty(m),
         requests' = Append(requests, m), registers'[m] \in Frames,
         \A i \in DOMAIN requests : registers'[requests[i]] = registers[requests[i]]
  PROVE  /\ Requested' = Append(Requested, registers'[m])
         /\ \A i, j \in DOMAIN requests' : requests'[i] = requests'[j] => i = j
<1>1. requests \in Seq(Boxes) /\ Requested \in Seq(Frames) /\ Len(Requested) = Len(requests)
  BY RequestedTyped DEF OrderInv
<1>2. /\ DOMAIN requests' = 1 .. Len(requests) + 1 /\ Len(requests) \in Nat
      /\ DOMAIN requests = 1 .. Len(requests)
      /\ \A i \in 1 .. Len(requests) : requests'[i] = requests[i]
      /\ requests'[Len(requests) + 1] = m
  BY <1>1
<1>3. \A i \in DOMAIN requests : requests[i] # m
  BY DEF Empty, Range
<1>4. \A i, j \in DOMAIN requests' : requests'[i] = requests'[j] => i = j
  BY <1>2, <1>3 DEF OrderInv
<1>5. Requested' = [i \in 1 .. Len(requests) + 1 |-> registers'[requests'[i]]]
  BY <1>2 DEF Requested
<1> DEFINE a == Append(Requested, registers'[m])
<1>6. a = [i \in 1 .. Len(requests) + 1 |-> IF i <= Len(requests) THEN Requested[i]
                                           ELSE registers'[m]]
  BY <1>1, <1>2
<1>7. \A i \in 1 .. Len(requests) : Requested[i] = registers'[requests'[i]]
  BY <1>2 DEF Requested
<1> HIDE DEF a
<1>8. Requested' = a
  <2>1. \A i \in 1 .. Len(requests) + 1 :
          registers'[requests'[i]] = IF i <= Len(requests) THEN Requested[i] ELSE registers'[m]
    BY <1>2, <1>7
  <2> QED
    BY <1>5, <1>6, <2>1
<1> QED
  BY <1>4, <1>8 DEF a

LEMMA OrderInit == Init => OrderInv
<1> SUFFICES ASSUME Init PROVE OrderInv
  OBVIOUS
<1>1. TypeInv
  BY TypeInit
<1>2. requests = <<>> /\ bxcan_tx_queue = <<>> /\ sent = <<>> /\ handed = <<>>
      /\ \A t \in Tasks : pc[t] = "idle"
  BY DEF Init
<1>3. InHand = {}
  BY <1>2 DEF InHand
<1>4. Requested = <<>>
  <2>1. Requested \in Seq(Frames) /\ Len(Requested) = Len(requests)
    BY <1>1, RequestedTyped
  <2> QED
    BY <1>2, <2>1
<1>5. Underway = <<>> \o <<>>
  BY <1>1, <1>2, <1>4, RequestedTyped
<1>6. SentInOrder
  BY <1>2, <1>3, <1>5 DEF SentInOrder
<1> QED
  BY <1>1, <1>2, <1>3, <1>6 DEF OrderInv

LEMMA OrderTask ==
  ASSUME OneTask, OrderInv, TypeInv', NEW t \in Tasks, Task(t)
  PROVE  OrderInv'
<1>1. Tasks = {t} /\ TypeOK /\ TypeInv
  BY DEF OneTask, OrderInv, TypeInv
<1>2. /\ Requested \in Seq(Frames) /\ bxcan_tx_queue \in Seq(Frames) /\ sent \in Seq(Frames)
      /\ handed \in Seq(Frames) /\ requests \in Seq(Boxes)
      /\ Underway = Requested \o bxcan_tx_queue /\ Underway \in Seq(Frames)
      /\ Underway' = Requested' \o bxcan_tx_queue'
  <2>1. Underway = Requested \o bxcan_tx_queue /\ Underway' = Requested' \o bxcan_tx_queue'
    BY DEF Underway, Requested
  <2> QED
    BY <1>1, <2>1, RequestedTyped
<1> DEFINE Busy == {"code", "load", "request", "put"}
<1>3. /\ InHand = IF pc[t] \in Busy THEN {t} ELSE {}
      /\ InHand' = IF pc'[t] \in Busy THEN {t} ELSE {}
  BY <1>1 DEF InHand
<1>4. /\ pc[t] \in Busy => Held = <<Last(handed)>>
      /\ pc[t] \notin Busy => Held = <<>>
      /\ pc'[t] \in Busy => Held' = <<Last(handed')>>
      /\ pc'[t] \notin Busy => Held' = <<>>
  <2>1. {t} # {}
    OBVIOUS
  <2> QED
    BY <1>3, <2>1 DEF Held
<1>5. /\ handed = sent \o Underway \o Held
      /\ pc[t] \in Busy => handed # <<>> /\ frame[t] = Last(handed) /\ bxcan_tx_queue = <<>>
      /\ pc[t] = "idle" => bxcan_tx_queue = <<>>
      /\ pc[t] = "code" => EmptyBoxes # {}
      /\ pc[t] = "load" => Empty(mailbox_id[t])
      /\ pc[t] = "request" => Empty(mailbox_id[t]) /\ registers[mailbox_id[t]] = frame[t]
      /\ \A i, j \in DOMAIN requests : requests[i] = requests[j] => i = j
  BY <1>3 DEF OrderInv, SentInOrder, Held
<1>6. SUFFICES
      /\ handed' = sent' \o Underway' \o Held'
      /\ pc'[t] \in Busy => handed' # <<>> /\ frame'[t] = Last(handed') /\ bxcan_tx_queue' = <<>>
      /\ pc'[t] = "idle" => bxcan_tx_queue' = <<>>
      /\ pc'[t] = "code" => EmptyBoxes' # {}
      /\ pc'[t] = "load" => Empty(mailbox_id[t])'
      /\ pc'[t] = "request" => Empty(mailbox_id[t])' /\ registers'[mailbox_id'[t]] = frame'[t]
      /\ \A i, j \in DOMAIN requests' : requests'[i] = requests'[j] => i = j
  BY <1>1, <1>3, <1>6 DEF OrderInv, SentInOrder, Held
<1>7. \A l \in Labels : Goto(t, l) => pc'[t] = l
  BY <1>1 DEF Goto, TypeOK
<1> USE DEF Labels
<1>8. CASE can_transmit_frame(t)
  <2> DEFINE f == NextFrame(t)
  <2>1. f \in Frames
    BY <1>1, <1>8, NextFrameTyped DEF can_transmit_frame, HandOver
  <2> HIDE DEF f
  <2>2. /\ pc[t] = "idle" /\ frame'[t] = f /\ handed' = Append(handed, f)
        /\ UNCHANGED <<mailbox_id, requests, registers, rqcp, bxcan_tx_queue, sent>>
    BY <1>1, <1>8 DEF can_transmit_frame, HandOver, hardware, TypeOK, f
  <2>3. pc'[t] = IF EmptyBoxes # {} THEN "code" ELSE "put"
    BY <1>7, <1>8 DEF can_transmit_frame
  <2>4. Requested' = Requested /\ EmptyBoxes' = EmptyBoxes
    BY <2>2 DEF Requested, EmptyBoxes, Empty
  <2>5. Underway' = Underway
    BY <1>2, <2>2, <2>4
  <2>6. Last(handed') = f /\ handed' # <<>>
    <3>1. Len(handed') = Len(handed) + 1 /\ handed'[Len(handed) + 1] = f /\ handed' # <<>>
      BY <1>2, <2>1, <2>2, AppendProperties
    <3> QED
      BY <3>1 DEF Last
  <2>7. Held = <<>> /\ Held' = <<f>>
    BY <1>4, <2>2, <2>3, <2>6
  <2>8. handed = sent \o Underway
    BY <1>2, <1>5, <2>7
  <2>9. handed' = sent' \o Underway' \o Held'
    BY <1>2, <2>1, <2>2, <2>5, <2>7, <2>8, AppendIsConcat
  <2>10. bxcan_tx_queue' = <<>>
    BY <1>5, <2>2
  <2> QED
    BY <1>5, <2>2, <2>3, <2>4, <2>6, <2>9, <2>10
<1>9. CASE ReadCode(t)
  <2>1. /\ pc[t] = "code" /\ pc'[t] = "load" /\ mailbox_id'[t] = Code
        /\ UNCHANGED <<frame, requests, registers, rqcp, bxcan_tx_queue, handed, sent>>
    BY <1>1, <1>7, <1>9 DEF ReadCode, hardware, TypeOK
  <2>2. Code \in EmptyBoxes
    BY <1>2, <1>5, <2>1, CodeIsMailbox
  <2>3. Requested' = Requested /\ Held' = Held
    BY <1>4, <2>1 DEF Requested
  <2> QED
    BY <1>2, <1>5, <2>1, <2>2, <2>3 DEF EmptyBoxes, Empty
<1>10. CASE LoadMailbox(t)
  <2> DEFINE m == mailbox_id[t]
  <2>1. /\ pc[t] = "load" /\ pc'[t] = "request"
        /\ WriteRegisters(m, frame[t])
        /\ UNCHANGED <<frame, mailbox_id, requests, rqcp, bxcan_tx_queue, handed, sent>>
    BY <1>7, <1>10 DEF LoadMailbox
  <2>2. m \in Boxes /\ Empty(m)
    BY <1>1, <1>5, <2>1 DEF TypeOK
  <2>3. registers' = [registers EXCEPT ![m] = frame[t]]
    BY <2>1, <2>2 DEF WriteRegisters
  <2>4. registers'[m] = frame[t] /\ Requested' = Requested
    BY <1>1, <2>1, <2>2, <2>3, RequestedKept DEF Requested
  <2>5. Held' = Held
    BY <1>4, <2>1
  <2> QED
    BY <1>2, <1>5, <2>1, <2>2, <2>4, <2>5 DEF Empty
<1>11. CASE SetRequest(t)
  <2> DEFINE m == mailbox_id[t]
  <2>1. /\ pc[t] = "request" /\ pc'[t] = "flush"
        /\ RequestTransmission(m)
        /\ UNCHANGED <<frame, mailbox_id, registers, bxcan_tx_queue, handed, sent>>
    BY <1>7, <1>11 DEF SetRequest
  <2>2. m \in Boxes /\ Empty(m) /\ registers'[m] = frame[t] /\ registers'[m] \in Frames
    BY <1>1, <1>5, <2>1 DEF TypeOK, TypeInv
  <2>3. requests' = Append(requests, m)
    BY <2>1, <2>2 DEF RequestTransmission
  <2>4. /\ Requested' = Append(Requested, frame[t])
        /\ \A i, j \in DOMAIN requests' : requests'[i] = requests'[j] => i = j
    BY <2>1, <2>2, <2>3, RequestAppended
  <2>5. Held = <<frame[t]>> /\ Held' = <<>> /\ bxcan_tx_queue = <<>>
    BY <1>4, <1>5, <2>1
  <2>6. Underway = Requested /\ Underway' = Append(Underway, frame[t])
    BY <1>2, <2>1, <2>2, <2>4, <2>5
  <2>7. sent \o Append(Underway, frame[t]) = (sent \o Underway) \o <<frame[t]>>
    <3>1. Append(Underway, frame[t]) = Underway \o <<frame[t]>> /\ <<frame[t]>> \in Seq(Frames)
      BY <1>2, <2>2, AppendIsConcat
    <3> QED
      BY <1>2, <3>1, ConcatAssociative
  <2>8. handed' = sent' \o Underway' \o Held'
    <3>1. sent' \o Underway' \in Seq(Frames)
      <4>1. sent' \in Seq(Frames)
        BY <1>2, <2>1
      <4>2. Underway' \in Seq(Frames)
        BY <1>2, <2>2, <2>6, AppendProperties
      <4> QED
        BY <4>1, <4>2, ConcatProperties
    <3>2. (sent' \o Underway') \o <<>> = sent' \o Underway'
      BY <3>1, ConcatEmptySeq
    <3> QED
      BY <1>5, <2>1, <2>5, <2>6, <2>7, <3>2
  <2> QED
    BY <2>1, <2>4, <2>8
<1>12. CASE QueuePut(t)
  <2>1. /\ pc[t] = "put" /\ pc'[t] = "flush"
        /\ bxcan_tx_queue' = Append(bxcan_tx_queue, frame[t])
        /\ UNCHANGED <<frame, mailbox_id, requests, registers, rqcp, handed, sent>>
    BY <1>7, <1>12 DEF QueuePut, hardware
  <2>2. Held = <<frame[t]>> /\ Held' = <<>> /\ bxcan_tx_queue = <<>> /\ frame[t] \in Frames
    BY <1>1, <1>4, <1>5, <2>1 DEF TypeInv
  <2>3. Requested' = Requested /\ bxcan_tx_queue' = <<frame[t]>>
    BY <2>1, <2>2 DEF Requested
  <2>4. Underway' = Underway \o <<frame[t]>> /\ <<frame[t]>> \in Seq(Frames)
    <3>1. Underway = Requested
      BY <1>2, <2>2
    <3> QED
      BY <1>2, <2>2, <2>3, <3>1
  <2>5. sent \o (Underway \o <<frame[t]>>) = (sent \o Underway) \o <<frame[t]>>
    BY <1>2, <2>4, ConcatAssociative
  <2>6. (sent' \o Underway') \o <<>> = sent' \o Underway'
    <3>1. sent' \o Underway' \in Seq(Frames)
      <4>1. sent' \in Seq(Frames)
        BY <1>2, <2>1
      <4>2. Underway' \in Seq(Frames)
        BY <1>2, <2>4, ConcatProperties
      <4> QED
        BY <4>1, <4>2, ConcatProperties
    <3> QED
      BY <3>1, ConcatEmptySeq
  <2> QED
    BY <1>5, <2>1, <2>2, <2>4, <2>5, <2>6
<1>13. CASE can_flush_tx_buffer(t)
  <2>1. /\ pc[t] = "flush" /\ pc'[t] = "idle" /\ bxcan_tx_queue = <<>>
        /\ UNCHANGED <<frame, mailbox_id, requests, registers, rqcp, bxcan_tx_queue, handed, sent>>
    BY <1>7, <1>13 DEF can_flush_tx_buffer, hardware
  <2>2. Requested' = Requested /\ Held' = Held
    BY <1>4, <2>1 DEF Requested
  <2> QED
    BY <1>2, <1>5, <2>1, <2>2
<1> QED
  BY <1>8, <1>9, <1>10, <1>11, <1>12, <1>13 DEF Task

LEMMA OrderBus ==
  ASSUME OrderInv, TypeInv', BusSend
  PROVE  OrderInv'
<1>1. /\ TypeInv /\ requests # <<>>
      /\ sent' = Append(sent, registers[Head(requests)]) /\ requests' = Tail(requests)
      /\ UNCHANGED <<pc, frame, mailbox_id, registers, bxcan_tx_queue, handed>>
  BY DEF OrderInv, BusSend, tasks
<1>2. /\ Requested \in Seq(Frames) /\ bxcan_tx_queue \in Seq(Frames) /\ sent \in Seq(Frames)
      /\ requests \in Seq(Boxes) /\ Len(Requested) = Len(requests)
      /\ Underway = Requested \o bxcan_tx_queue
      /\ Underway' = Requested' \o bxcan_tx_queue'
  <2>1. Underway' = Requested' \o bxcan_tx_queue'
    BY DEF Underway, Requested
  <2> QED
    BY <1>1, <2>1, RequestedTyped
<1>3. /\ Len(requests) \in Nat \ {0} /\ DOMAIN requests = 1 .. Len(requests)
      /\ DOMAIN requests' = 1 .. Len(requests) - 1 /\ Len(requests') = Len(requests) - 1
      /\ \A i \in 1 .. Len(requests) - 1 : requests'[i] = requests[i + 1]
      /\ Head(requests) = requests[1]
  BY <1>1, <1>2
<1>4. Head(Requested) = registers[Head(requests)] /\ Requested' = Tail(Requested)
  <2>1. \A i \in 1 .. Len(requests) : Requested[i] = registers[requests[i]]
    BY <1>3 DEF Requested
  <2>2. Requested # <<>> /\ Head(Requested) = Requested[1]
    BY <1>2, <1>3
  <2> DEFINE r == Tail(Requested)
  <2>3. r = [i \in 1 .. Len(requests) - 1 |-> Requested[i + 1]]
    <3>1. /\ r \in Seq(Frames) /\ Len(r) = Len(requests) - 1
          /\ \A i \in 1 .. Len(requests) - 1 : r[i] = Requested[i + 1]
      BY <1>2, <1>3, <2>2, HeadTailProperties
    <3> HIDE DEF r
    <3> QED
      BY <1>3, <3>1
  <2> HIDE DEF r
  <2>4. Requested' = [i \in 1 .. Len(requests) - 1 |-> registers[requests'[i]]]
    BY <1>1, <1>3 DEF Requested
  <2>5. \A i \in 1 .. Len(requests) - 1 : Requested[i + 1] = registers[requests'[i]]
    BY <1>3, <2>1
  <2>6. Requested' = r
    BY <2>3, <2>4, <2>5
  <2> QED
    BY <1>3, <2>1, <2>2, <2>6 DEF r
<1>5. Held' = Held /\ Held \in Seq(Frames)
  <2>1. InHand' = InHand
    BY <1>1 DEF InHand
  <2>2. InHand # {} => Last(handed) \in Frames
    BY DEF OrderInv, TypeInv, TypeOK, InHand, Last
  <2> QED
    BY <1>1, <2>1, <2>2 DEF Held
<1>6. handed' = sent' \o Underway' \o Held'
  <2>1. Requested \in Seq(Frames) /\ bxcan_tx_queue \in Seq(Frames) /\ sent \in Seq(Frames)
        /\ Requested # <<>>
    BY <1>2, <1>3
  <2>2. sent \o (Requested \o bxcan_tx_queue)
          = Append(sent, Head(Requested)) \o (Tail(Requested) \o bxcan_tx_queue)
    <3>1. \A s, r, q \in Seq(Frames) :
            r # <<>> => s \o (r \o q) = Append(s, Head(r)) \o (Tail(r) \o q)
      BY HeadMoves
    <3> QED
      BY <2>1, <3>1
  <2>3. handed = sent \o Underway \o Held
    BY DEF OrderInv, SentInOrder, Held
  <2> QED
    BY <1>1, <1>2, <1>4, <1>5, <2>2, <2>3
<1>7. SentInOrder'
  BY <1>6 DEF SentInOrder, Held
<1>8. \A i, j \in DOMAIN requests' : requests'[i] = requests'[j] => i = j
  BY <1>3 DEF OrderInv
<1>9. Range(requests') \subseteq Range(requests)
  BY <1>1, <1>2, RangeFacts
<1>10. EmptyBoxes \subseteq EmptyBoxes' /\ \A m : Empty(m) => Empty(m)'
  BY <1>9 DEF EmptyBoxes, Empty
<1>11. \A t \in Tasks :
         /\ pc'[t] = "idle" => bxcan_tx_queue' = <<>>
         /\ pc'[t] = "code" => EmptyBoxes' # {}
         /\ pc'[t] = "load" => mailbox_id'[t] \notin Range(requests')
         /\ pc'[t] = "request" => /\ mailbox_id'[t] \notin Range(requests')
                                  /\ registers'[mailbox_id'[t]] = frame'[t]
  BY <1>1, <1>9, <1>10 DEF OrderInv, Empty
<1>12. \A t \in InHand' : handed' # <<>> /\ frame'[t] = Last(handed') /\ bxcan_tx_queue' = <<>>
  BY <1>1 DEF OrderInv, InHand
<1> QED
  BY <1>7, <1>8, <1>11, <1>12 DEF OrderInv, Empty

LEMMA OrderInterrupt ==
  ASSUME OrderInv, TypeInv', TransmitInterrupt
  PROVE  OrderInv'
<1>1. TypeInv /\ UNCHANGED <<pc, frame, mailbox_id, handed, sent>>
  BY DEF OrderInv, TransmitInterrupt, tasks
<1>2. CASE ~ (bxcan_tx_queue # <<>> /\ EmptyBoxes # {})
  <2>1. UNCHANGED <<requests, registers, bxcan_tx_queue>>
    BY <1>2 DEF TransmitInterrupt
  <2> QED
    BY <1>1, <2>1 DEF OrderInv, InHand, EmptyBoxes, Empty, SentInOrder, Underway
<1>3. CASE bxcan_tx_queue # <<>> /\ EmptyBoxes # {}
  <2> DEFINE f == Head(bxcan_tx_queue)
  <2>1. /\ Requested \in Seq(Frames) /\ bxcan_tx_queue \in Seq(Frames) /\ requests \in Seq(Boxes)
        /\ Underway = Requested \o bxcan_tx_queue
        /\ Underway' = Requested' \o bxcan_tx_queue'
    <3>1. Underway' = Requested' \o bxcan_tx_queue'
      BY DEF Underway, Requested
    <3> QED
      BY <1>1, <3>1, RequestedTyped
  <2>2. Code \in Boxes /\ Empty(Code)
    BY <1>3, <2>1, CodeIsMailbox DEF EmptyBoxes
  <2>3. /\ registers' = [registers EXCEPT ![Code] = f]
        /\ requests' = Append(requests, Code)
        /\ bxcan_tx_queue' = Tail(bxcan_tx_queue)
    BY <1>3, <2>2 DEF TransmitInterrupt, WriteRegisters
  <2>4. f \in Frames
    BY <1>3, <2>1
  <2> HIDE DEF f
  <2>5. /\ registers'[Code] = f
        /\ \A i \in DOMAIN requests : registers'[requests[i]] = registers[requests[i]]
    BY <1>1, <2>2, <2>3, RequestedKept
  <2>6. /\ Requested' = Append(Requested, f)
        /\ \A i, j \in DOMAIN requests' : requests'[i] = requests'[j] => i = j
    BY <2>2, <2>3, <2>4, <2>5, RequestAppended
  <2>7. Underway' = Underway
    <3>1. Requested \o bxcan_tx_queue = Append(Requested, f) \o Tail(bxcan_tx_queue)
      BY <1>3, <2>1, QueueMoves DEF f
    <3> QED
      BY <2>1, <2>3, <2>6, <3>1
  <2>8. InHand' = InHand /\ InHand = {}
    BY <1>1, <1>3 DEF OrderInv, InHand
  <2>9. SentInOrder'
    BY <1>1, <2>7, <2>8 DEF OrderInv, SentInOrder
  <2>10. \A t \in Tasks : pc'[t] \notin {"idle", "code", "load", "request"}
    BY <1>1, <1>3, <2>8 DEF OrderInv, InHand
  <2> QED
    BY <2>6, <2>8, <2>9, <2>10 DEF OrderInv
<1> QED
  BY <1>2, <1>3

LEMMA OrderStep ==
  ASSUME OneTask
  PROVE  OrderInv /\ [Next]_vars => OrderInv'
<1> SUFFICES ASSUME OrderInv, [Next]_vars PROVE OrderInv'
  OBVIOUS
<1>1. TypeInv'
  BY TypeStep DEF OrderInv
<1>2. CASE UNCHANGED vars
  BY <1>1, <1>2 DEF OrderInv, InHand, EmptyBoxes, Empty, SentInOrder, Underway, vars, tasks, hardware
<1> QED
  BY <1>1, <1>2, OrderTask, OrderBus, OrderInterrupt DEF Next

\* can_transmit_frame and USB_HP_CAN_TX_IRQHandler: when one task uses the peripheral,
\* every frame is sent once and in the order in which it was handed over, whichever of
\* the two ways into the mailboxes it takes, for any number of mailboxes and queue slots.
THEOREM FramesInOrder ==
  ASSUME OneTask
  PROVE  Spec => []SentInOrder
<1>1. OrderInv => SentInOrder
  BY DEF OrderInv
<1> QED
  BY <1>1, OrderInit, OrderStep, PTL DEF Spec

-----------------------------------------------------------------------------
(* The driver is a queue *)

\* The places of the frames of t in a list.
Of(list, t) == {i \in DOMAIN list : list[i][1] = t}

\* A task numbers its frames, so that none is handed over twice.
Numbered ==
  \A i \in DOMAIN handed : handed[i][2] <= Cardinality(Of(handed, handed[i][1]))

LEMMA OfFinite ==
  ASSUME TypeOK, NEW t
  PROVE  IsFiniteSet(Of(handed, t)) /\ Cardinality(Of(handed, t)) \in Nat
<1>1. handed \in Seq(Frames) /\ DOMAIN handed = 1 .. Len(handed) /\ Len(handed) \in Nat
  BY DEF TypeOK
<1>2. IsFiniteSet(1 .. Len(handed))
  BY <1>1, FS_Interval
<1>3. Of(handed, t) \in SUBSET (1 .. Len(handed))
  BY <1>1 DEF Of
<1> QED
  BY <1>2, <1>3, FS_Subset, FS_CardinalityType

\* The next frame of a task is none of those before it.
LEMMA NextIsFresh ==
  ASSUME TypeOK, Numbered, NEW t \in Tasks
  PROVE  \A i \in DOMAIN handed : handed[i] # NextFrame(t)
<1> SUFFICES ASSUME NEW i \in DOMAIN handed, handed[i] = NextFrame(t) PROVE FALSE
  OBVIOUS
<1>1. NextFrame(t) = <<t, Cardinality(Of(handed, t)) + 1>>
  BY DEF NextFrame, Of
<1>2. handed[i][1] = t /\ handed[i][2] = Cardinality(Of(handed, t)) + 1
  BY <1>1
<1> QED
  BY <1>2, OfFinite DEF Numbered

\* Handing over keeps the numbers.
LEMMA NumberedHandOver ==
  ASSUME TypeOK, Numbered, NEW t \in Tasks, NextFrame(t)[2] <= MaxFrames,
         handed' = Append(handed, NextFrame(t))
  PROVE  Numbered'
<1> DEFINE f == NextFrame(t)
           n == Len(handed)
<1>1. handed \in Seq(Frames) /\ DOMAIN handed = 1 .. n /\ n \in Nat /\ f \in Frames
  BY NextFrameTyped DEF TypeOK
<1>2. f[1] = t /\ f[2] = Cardinality(Of(handed, t)) + 1
  BY DEF NextFrame, Of
<1> HIDE DEF f
<1>3. /\ DOMAIN handed' = 1 .. n + 1
      /\ \A i \in 1 .. n : handed'[i] = handed[i]
      /\ handed'[n + 1] = f
  BY <1>1 DEF f
<1> HIDE DEF n
<1>4. Of(handed', t) = Of(handed, t) \cup {n + 1}
  BY <1>1, <1>2, <1>3 DEF Of
<1>5. Cardinality(Of(handed', t)) = Cardinality(Of(handed, t)) + 1
  <2>1. n + 1 \notin Of(handed, t)
    BY <1>1 DEF Of
  <2> QED
    BY <1>4, <2>1, OfFinite, FS_AddElement
<1>6. \A u : u # t => Of(handed', u) = Of(handed, u)
  BY <1>1, <1>2, <1>3 DEF Of
<1>7. ASSUME NEW i \in 1 .. n
      PROVE  handed'[i][2] <= Cardinality(Of(handed', handed'[i][1]))
  <2>1. handed'[i] = handed[i] /\ handed[i] \in Frames
    BY <1>1, <1>3
  <2>2. handed[i][2] <= Cardinality(Of(handed, handed[i][1])) /\ handed[i][2] \in Nat
    <3>1. i \in DOMAIN handed
      BY <1>1
    <3>2. handed[i][2] <= Cardinality(Of(handed, handed[i][1]))
      BY <3>1 DEF Numbered
    <3> QED
      BY <2>1, <3>2, BxCanAssumption DEF Frames
  <2>3. CASE handed[i][1] = t
    BY <1>5, <2>1, <2>2, <2>3, OfFinite
  <2>4. CASE handed[i][1] # t
    BY <1>6, <2>1, <2>2, <2>4
  <2> QED
    BY <2>3, <2>4
<1>8. handed'[n + 1][2] <= Cardinality(Of(handed', handed'[n + 1][1]))
  BY <1>2, <1>3, <1>5, OfFinite
<1> QED
  BY <1>1, <1>3, <1>7, <1>8 DEF Numbered

\* Mailboxes are requested once each, so there are no more requests than mailboxes.
LEMMA RequestsFit ==
  ASSUME OrderInv
  PROVE  Len(requests) <= Mailboxes
<1> DEFINE n == Len(requests)
<1>1. requests \in [1 .. n -> Boxes] /\ n \in Nat
  BY DEF OrderInv, TypeInv, TypeOK
<1>2. IsFiniteSet(1 .. n) /\ Cardinality(1 .. n) = n
  <2>1. /\ IsFiniteSet(1 .. n)
        /\ Cardinality(1 .. n) = IF 1 > n THEN 0 ELSE n - 1 + 1
    BY <1>1, FS_Interval
  <2> QED
    BY <1>1, <2>1
<1>3. IsFiniteSet(Boxes) /\ Cardinality(Boxes) = Mailboxes
  <2>1. Mailboxes - 1 \in Int /\ Mailboxes >= 1 /\ Mailboxes \in Nat
    BY BxCanAssumption
  <2>2. /\ IsFiniteSet(Boxes)
        /\ Cardinality(Boxes) = IF 0 > Mailboxes - 1 THEN 0 ELSE Mailboxes - 1 - 0 + 1
    BY <2>1, FS_Interval DEF Boxes
  <2> QED
    BY <2>1, <2>2
<1>4. \A i, j \in 1 .. n : i # j => requests[i] # requests[j]
  BY <1>1 DEF OrderInv
<1>5. ~ Cardinality(Boxes) < Cardinality(1 .. n)
  BY <1>1, <1>2, <1>3, <1>4, FS_PigeonHole
<1> QED
  BY <1>1, <1>2, <1>3, <1>5, BxCanAssumption

\* Who hands over has room: nothing is queued, so all that is underway is in mailboxes.
LEMMA HandedOverIsPut ==
  ASSUME OneTask, OrderInv, Numbered, NEW t \in Tasks, HandOver(t)
  PROVE  Driver!Put(NextFrame(t)) /\ NextFrame(t) \in Frames
<1>1. TypeInv /\ TypeOK /\ pc[t] = "idle" /\ NextFrame(t)[2] <= MaxFrames
  BY DEF OrderInv, TypeInv, HandOver
<1>2. InHand = {} /\ bxcan_tx_queue = <<>>
  BY <1>1 DEF OneTask, InHand, OrderInv
<1>3. handed = sent \o Requested /\ Requested \in Seq(Frames) /\ sent \in Seq(Frames)
      /\ Len(Requested) = Len(requests) /\ requests \in Seq(Boxes)
  <2>1. /\ Requested \in Seq(Frames) /\ sent \in Seq(Frames) /\ Underway = Requested \o <<>>
        /\ Len(Requested) = Len(requests) /\ requests \in Seq(Boxes)
    BY <1>1, <1>2, RequestedTyped
  <2>2. handed = sent \o Underway \o <<>>
    BY <1>2 DEF OrderInv, SentInOrder
  <2> QED
    BY <2>1, <2>2
<1>4. Len(handed) - Len(sent) < Mailboxes + 1
  BY <1>3, RequestsFit, BxCanAssumption
<1>5. \A i \in DOMAIN handed : handed[i] # NextFrame(t)
  BY <1>1, NextIsFresh
<1>6. handed' = Append(handed, NextFrame(t)) /\ UNCHANGED sent
  BY DEF HandOver
<1> QED
  BY <1>1, <1>4, <1>5, <1>6, NextFrameTyped DEF Driver!Put, Driver!Length

\* The bus takes the oldest frame that was handed over and not sent.
LEMMA SentIsTaken ==
  ASSUME OrderInv, BusSend
  PROVE  Driver!Get
<1>1. /\ TypeInv /\ requests # <<>> /\ UNCHANGED handed
      /\ sent' = Append(sent, registers[Head(requests)])
  BY DEF OrderInv, BusSend
<1>2. /\ Requested \in Seq(Frames) /\ Len(Requested) = Len(requests)
      /\ bxcan_tx_queue \in Seq(Frames) /\ sent \in Seq(Frames) /\ handed \in Seq(Frames)
      /\ requests \in Seq(Boxes) /\ Underway = Requested \o bxcan_tx_queue
  BY <1>1, RequestedTyped
<1>3. Held \in Seq(Frames)
  BY <1>2 DEF OrderInv, InHand, Held, Last
<1>4. Requested[1] = registers[Head(requests)] /\ Len(Requested) \in Nat \ {0}
  BY <1>1, <1>2 DEF Requested
<1>5. handed = sent \o (Requested \o bxcan_tx_queue) \o Held
  BY <1>2 DEF OrderInv, SentInOrder, Held
<1>6. Len(handed) > Len(sent) /\ handed[Len(sent) + 1] = Requested[1]
  <2> DEFINE u == Requested \o bxcan_tx_queue
             v == sent \o u
  <2>1. u \in Seq(Frames) /\ Len(u) \in Nat \ {0} /\ u[1] = Requested[1]
    <3>1. u \in Seq(Frames) /\ Len(u) = Len(Requested) + Len(bxcan_tx_queue)
      BY <1>2, ConcatProperties
    <3>2. u[1] = Requested[1]
      BY <1>2, <1>4, ConcatProperties
    <3>3. Len(bxcan_tx_queue) \in Nat
      BY <1>2
    <3> QED
      BY <1>4, <3>1, <3>2, <3>3
  <2> HIDE DEF u
  <2>2. v \in Seq(Frames) /\ Len(v) = Len(sent) + Len(u) /\ v[Len(sent) + 1] = u[1]
    BY <1>2, <2>1, ConcatProperties
  <2> HIDE DEF v
  <2>3. handed = v \o Held
    BY <1>5 DEF u, v
  <2>4. Len(sent) \in Nat /\ Len(Held) \in Nat /\ Len(sent) + 1 \in 1 .. Len(v)
    BY <1>2, <1>3, <2>1, <2>2
  <2>5. Len(handed) = Len(v) + Len(Held) /\ handed[Len(sent) + 1] = v[Len(sent) + 1]
    <3>1. Len(v \o Held) = Len(v) + Len(Held)
      BY <1>3, <2>2, ConcatProperties
    <3>2. \A i \in 1 .. Len(v) : (v \o Held)[i] = v[i]
      BY <1>3, <2>2, <2>4, ConcatProperties
    <3> QED
      BY <2>3, <2>4, <3>1, <3>2
  <2> QED
    BY <2>1, <2>2, <2>4, <2>5
<1>7. Len(handed) - Len(sent) > 0
  BY <1>2, <1>6
<1> QED
  BY <1>1, <1>4, <1>6, <1>7 DEF Driver!Get, Driver!Length

LEMMA DriverStep ==
  ASSUME OneTask, OrderInv, Numbered, [Next]_vars
  PROVE  Numbered' /\ [Driver!Next]_<<handed, sent>>
<1>1. TypeOK
  BY DEF OrderInv, TypeInv
<1>2. UNCHANGED handed => Numbered'
  BY DEF Numbered, Of
<1>3. CASE BusSend
  BY <1>2, <1>3, SentIsTaken DEF BusSend, Driver!Next
<1>4. CASE TransmitInterrupt
  BY <1>2, <1>4 DEF TransmitInterrupt
<1>5. ASSUME NEW t \in Tasks, can_transmit_frame(t)
      PROVE  Numbered' /\ Driver!Next
  <2>1. HandOver(t)
    BY <1>5 DEF can_transmit_frame
  <2>2. NextFrame(t)[2] <= MaxFrames /\ handed' = Append(handed, NextFrame(t))
    BY <2>1 DEF HandOver
  <2>3. Numbered'
    BY <1>1, <2>2, NumberedHandOver
  <2>4. Driver!Put(NextFrame(t)) /\ NextFrame(t) \in Frames
    BY <2>1, HandedOverIsPut
  <2> QED
    BY <2>3, <2>4 DEF Driver!Next
<1>6. ASSUME NEW t \in Tasks, Task(t), ~ can_transmit_frame(t)
      PROVE  UNCHANGED <<handed, sent>>
  BY <1>6 DEF Task, ReadCode, LoadMailbox, SetRequest, QueuePut, can_flush_tx_buffer
<1>7. CASE UNCHANGED vars
  BY <1>2, <1>7 DEF vars
<1> QED
  BY <1>2, <1>3, <1>4, <1>5, <1>6, <1>7 DEF Next

\* bxcan.h: for one task that flushes after every frame, the mailboxes, the queue behind
\* them and the interrupt between them are one queue, step by step: what is handed over
\* enters, what the bus sends is the oldest, and no more than one frame waits outside the
\* mailboxes, for any number of mailboxes and queue slots.
THEOREM DriverIsQueue ==
  ASSUME OneTask
  PROVE  Spec => TransmitsAsQueue
<1>1. Init => OrderInv /\ Numbered /\ Driver!Init
  BY OrderInit DEF Init, Numbered, Driver!Init
<1>2. OrderInv /\ Numbered /\ [Next]_vars
        => OrderInv' /\ Numbered' /\ [Driver!Next]_<<handed, sent>>
  BY OrderStep, DriverStep
<1> QED
  BY <1>1, <1>2, PTL DEF Spec, TransmitsAsQueue, Driver!Spec

=============================================================================
