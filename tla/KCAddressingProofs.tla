------------------------- MODULE KCAddressingProofs -------------------------
(***************************************************************************)
(* Proofs about KCAddressing for every chain length, bus load and timing:  *)
(* types, and the two invariants that hold whatever is reset or unplugged. *)
(***************************************************************************)
EXTENDS KCAddressing, TLAPS

\* What makes ReadyIsAddressed inductive: an address, once taken, is kept until
\* the next reset, and no node gets on the way to ONLINE without one.
ConfiguredIsAddressed ==
  \A n \in Nodes : pc[n] = "online" \/ filter1[n] # 0 => kc_node_address[n] # 0

AddressedInv == TypeOK /\ ConfiguredIsAddressed /\ ReadyIsAddressed

-----------------------------------------------------------------------------
(* Types *)

\* The seven bits of the sender field hold the remainder.
LEMMA SenderField ==
  ASSUME NEW a \in Addresses
  PROVE  a % AddrMod \in 0 .. AddrMod - 1
BY ConstantsAssumption DEF Addresses

\* kc_event_emit keeps the mailboxes well-formed and within the peripheral.
LEMMA EmitType ==
  ASSUME TypeOK, NEW n \in Nodes, NEW ev \in Events, NEW a \in Addresses,
         kc_event_emit(n, ev, a)
  PROVE  /\ mailboxes' \in [Nodes -> Seq(Frames)]
         /\ \A m \in Nodes : Len(mailboxes'[m]) <= Mailboxes
<1>1. [event |-> ev, sender |-> a % AddrMod] \in Frames
  BY SenderField DEF Frames
<1>2. Append(mailboxes[n], [event |-> ev, sender |-> a % AddrMod]) \in Seq(Frames)
  BY <1>1 DEF TypeOK
<1>3. Len(Append(mailboxes[n], [event |-> ev, sender |-> a % AddrMod])) = Len(mailboxes[n]) + 1
  BY <1>1 DEF TypeOK
<1> QED
  BY <1>2, <1>3, ConstantsAssumption DEF TypeOK, kc_event_emit

\* Taking a frame leaves a receive FIFO of frames, and the frame was one.
LEMMA TakeType ==
  ASSUME TypeOK, NEW n \in Nodes, NEW ev \in Events, Take(n, ev)
  PROVE  /\ kc_recv_fifo' \in [Nodes -> Seq(Frames)]
         /\ \A m \in Nodes : Len(kc_recv_fifo'[m]) <= FifoSize
         /\ Head(kc_recv_fifo[n]) \in Frames
<1>1. kc_recv_fifo[n] \in Seq(Frames) /\ kc_recv_fifo[n] # <<>>
  BY DEF TypeOK, Take
<1>2. /\ Tail(kc_recv_fifo[n]) \in Seq(Frames)
      /\ Len(Tail(kc_recv_fifo[n])) = Len(kc_recv_fifo[n]) - 1
      /\ Head(kc_recv_fifo[n]) \in Frames
  BY <1>1
<1> QED
  BY <1>2, ConstantsAssumption DEF TypeOK, Take

\* kc_address_end releases the pins and goes on at a label.
LEMMA EndType ==
  ASSUME TypeOK, NEW n \in Nodes, kc_address_end(n)
  PROVE  /\ daisy_out' \in [Nodes -> [mode : {"input", "output"}, data : {0, 1}]]
         /\ daisy_in_pull' \in [Nodes -> {"none", "up", "down"}]
         /\ pc' \in [Nodes -> Labels]
<1>1. daisy_out' \in [Nodes -> [mode : {"input", "output"}, data : {0, 1}]]
  BY DEF TypeOK, kc_address_end
<1>2. daisy_in_pull' \in [Nodes -> {"none", "up", "down"}]
  BY DEF TypeOK, kc_address_end
<1>3. pc' \in [Nodes -> Labels]
  BY DEF TypeOK, kc_address_end, Goto, Labels
<1> QED
  BY <1>1, <1>2, <1>3

\* A step of node n's thread keeps every variable in its type.
LEMMA ThreadType ==
  ASSUME TypeOK, NEW n \in Nodes, Thread(n)
  PROVE  TypeOK'
<1> USE ConstantsAssumption DEF TypeOK, Labels, Down, Returns, States, Addresses, Goto,
        env, protocol, pins, bus
<1>1. CASE kc_init(n)
  <2>1. /\ daisy_out' \in [Nodes -> [mode : {"input", "output"}, data : {0, 1}]]
        /\ daisy_in_pull' \in [Nodes -> {"none", "up", "down"}]
    BY <1>1 DEF kc_init
  <2>2. /\ kc_state' \in [Nodes -> States]
        /\ pc' \in [Nodes -> Labels]
        /\ ret' \in [Nodes -> Returns]
    BY <1>1 DEF kc_init
  <2> QED
    BY <1>1, <2>1, <2>2 DEF kc_init
<1>2. CASE IgnoreRequired(n)
  BY <1>2 DEF IgnoreRequired
<1>3. CASE BeginAddressing(n)
  BY <1>3 DEF BeginAddressing, ForgetAddress
<1>4. CASE NodeFollows(n)
  BY <1>4 DEF NodeFollows
<1>5. CASE DriveDaisy(n)
  BY <1>5 DEF DriveDaisy
<1>6. CASE RespondDelay(n)
  BY <1>6 DEF RespondDelay
<1>7. CASE LastNode(n)
  BY <1>7 DEF LastNode
<1>8. CASE Poll(n)
  <2>1. kc_in_connected(n) \in BOOLEAN /\ kc_out_connected(n) \in BOOLEAN
    BY DEF kc_in_connected, kc_out_connected
  <2>2. conn_prev' \in [Nodes -> [checked : BOOLEAN, in : BOOLEAN, out : BOOLEAN]]
    <3>1. [checked |-> TRUE, in |-> kc_in_connected(n), out |-> kc_out_connected(n)]
            \in [checked : BOOLEAN, in : BOOLEAN, out : BOOLEAN]
      BY <2>1
    <3> QED
      BY <1>8, <3>1 DEF Poll
  <2>3. pc' \in [Nodes -> Labels] /\ ret' \in [Nodes -> Returns]
    BY <1>8 DEF Poll
  <2> QED
    BY <1>8, <2>2, <2>3 DEF Poll
<1>9. CASE Retry(n)
  BY <1>9 DEF Retry
<1>10. CASE LoopDone(n)
  BY <1>10 DEF LoopDone
<1>11. CASE kc_request_addressing(n)
  <2>1. kc_event_emit(n, "REQUIRED", kc_node_address[n])
    BY <1>11 DEF kc_request_addressing
  <2>2. /\ mailboxes' \in [Nodes -> Seq(Frames)]
        /\ \A m \in Nodes : Len(mailboxes'[m]) <= Mailboxes
    BY <2>1, EmitType DEF Events
  <2> QED
    BY <1>11, <2>2 DEF kc_request_addressing
<1>12. CASE StartAddressing(n)
  <2>1. kc_event_emit(n, "START", kc_node_address[n])
    BY <1>12 DEF StartAddressing
  <2>2. /\ mailboxes' \in [Nodes -> Seq(Frames)]
        /\ \A m \in Nodes : Len(mailboxes'[m]) <= Mailboxes
    BY <2>1, EmitType DEF Events
  <2>3. kc_node_address' \in [Nodes -> Addresses]
    BY <1>12 DEF StartAddressing
  <2> QED
    BY <1>12, <2>2, <2>3 DEF StartAddressing
<1>13. CASE AddressNext(n)
  <2>1. kc_event_emit(n, "NEXT", kc_node_address[n])
    BY <1>13 DEF AddressNext
  <2>2. /\ mailboxes' \in [Nodes -> Seq(Frames)]
        /\ \A m \in Nodes : Len(mailboxes'[m]) <= Mailboxes
    BY <2>1, EmitType DEF Events
  <2> QED
    BY <1>13, <2>2 DEF AddressNext
<1>14. CASE FinishAddressing(n)
  <2>1. kc_event_emit(n, "FINISHED", kc_node_address[n])
    BY <1>14 DEF FinishAddressing
  <2>2. /\ mailboxes' \in [Nodes -> Seq(Frames)]
        /\ \A m \in Nodes : Len(mailboxes'[m]) <= Mailboxes
    BY <2>1, EmitType DEF Events
  <2>3. /\ daisy_out' \in [Nodes -> [mode : {"input", "output"}, data : {0, 1}]]
        /\ daisy_in_pull' \in [Nodes -> {"none", "up", "down"}]
        /\ pc' \in [Nodes -> Labels]
    BY <1>14, EndType DEF FinishAddressing
  <2> QED
    BY <1>14, <2>2, <2>3 DEF FinishAddressing
<1>15. CASE GoOnline(n)
  <2>1. kc_event_emit(n, "ONLINE", kc_node_address[n])
    BY <1>15 DEF GoOnline, ConfigureFilter1, can_configure_filter_bank
  <2>2. /\ mailboxes' \in [Nodes -> Seq(Frames)]
        /\ \A m \in Nodes : Len(mailboxes'[m]) <= Mailboxes
    BY <2>1, EmitType DEF Events
  <2> QED
    BY <1>15, <2>2 DEF GoOnline, ConfigureFilter1, can_configure_filter_bank
<1>16. CASE OnStart(n)
  <2>1. /\ kc_recv_fifo' \in [Nodes -> Seq(Frames)]
        /\ \A m \in Nodes : Len(kc_recv_fifo'[m]) <= FifoSize
        /\ Head(kc_recv_fifo[n]) \in Frames
    BY <1>16, TakeType DEF OnStart, Events
  <2> QED
    BY <1>16, <2>1 DEF OnStart
<1>17. CASE OnSuccess(n)
  <2>1. /\ kc_recv_fifo' \in [Nodes -> Seq(Frames)]
        /\ \A m \in Nodes : Len(kc_recv_fifo'[m]) <= FifoSize
        /\ Head(kc_recv_fifo[n]) \in Frames
    BY <1>17, TakeType DEF OnSuccess, Events
  <2>2. /\ waiting' \in [Nodes -> BOOLEAN]
        /\ daisy_out' \in [Nodes -> [mode : {"input", "output"}, data : {0, 1}]]
    BY <1>17 DEF OnSuccess, StopWaiting
  <2> QED
    BY <1>17, <2>1, <2>2 DEF OnSuccess
<1>18. CASE OnNext(n)
  <2> DEFINE address == NextAddress(Head(kc_recv_fifo[n]))
  <2>1. /\ kc_recv_fifo' \in [Nodes -> Seq(Frames)]
        /\ \A m \in Nodes : Len(kc_recv_fifo'[m]) <= FifoSize
        /\ Head(kc_recv_fifo[n]) \in Frames
    BY <1>18, TakeType DEF OnNext, TakeAddress, Events
  <2>2. address \in Addresses
    BY <2>1 DEF Frames, NextAddress
  <2>3. kc_event_emit(n, "SUCCESS", address)
    BY <1>18 DEF OnNext
  <2>4. /\ mailboxes' \in [Nodes -> Seq(Frames)]
        /\ \A m \in Nodes : Len(mailboxes'[m]) <= Mailboxes
    BY <2>2, <2>3, EmitType DEF Events
  <2> QED
    BY <1>18, <2>1, <2>2, <2>4 DEF OnNext, TakeAddress
<1>19. CASE OnOtherNext(n)
  <2>1. /\ kc_recv_fifo' \in [Nodes -> Seq(Frames)]
        /\ \A m \in Nodes : Len(kc_recv_fifo'[m]) <= FifoSize
        /\ Head(kc_recv_fifo[n]) \in Frames
    BY <1>19, TakeType DEF OnOtherNext, Events
  <2> QED
    BY <1>19, <2>1 DEF OnOtherNext
<1>20. CASE OnFinished(n)
  <2>1. /\ kc_recv_fifo' \in [Nodes -> Seq(Frames)]
        /\ \A m \in Nodes : Len(kc_recv_fifo'[m]) <= FifoSize
        /\ Head(kc_recv_fifo[n]) \in Frames
    BY <1>20, TakeType DEF OnFinished, Events
  <2>2. kc_bus_size' \in [Nodes -> Addresses]
    BY <1>20, <2>1 DEF OnFinished, Frames
  <2>3. /\ daisy_out' \in [Nodes -> [mode : {"input", "output"}, data : {0, 1}]]
        /\ daisy_in_pull' \in [Nodes -> {"none", "up", "down"}]
        /\ pc' \in [Nodes -> Labels]
    BY <1>20, EndType DEF OnFinished
  <2> QED
    BY <1>20, <2>1, <2>2, <2>3 DEF OnFinished
<1>21. CASE OnRequired(n)
  <2>1. /\ kc_recv_fifo' \in [Nodes -> Seq(Frames)]
        /\ \A m \in Nodes : Len(kc_recv_fifo'[m]) <= FifoSize
        /\ Head(kc_recv_fifo[n]) \in Frames
    BY <1>21, TakeType DEF OnRequired, Events
  <2> QED
    BY <1>21, <2>1 DEF OnRequired
<1>22. CASE OnOnline(n)
  <2>1. /\ kc_recv_fifo' \in [Nodes -> Seq(Frames)]
        /\ \A m \in Nodes : Len(kc_recv_fifo'[m]) <= FifoSize
        /\ Head(kc_recv_fifo[n]) \in Frames
    BY <1>22, TakeType DEF OnOnline, Events
  <2> QED
    BY <1>22, <2>1 DEF OnOnline
<1>23. CASE OnNextCrowded(n)
  <2>1. /\ kc_recv_fifo' \in [Nodes -> Seq(Frames)]
        /\ \A m \in Nodes : Len(kc_recv_fifo'[m]) <= FifoSize
        /\ Head(kc_recv_fifo[n]) \in Frames
    BY <1>23, TakeType DEF OnNextCrowded, TakeAddress, Events
  <2>2. NextAddress(Head(kc_recv_fifo[n])) \in Addresses
    BY <2>1 DEF Frames, NextAddress
  <2> QED
    BY <1>23, <2>1, <2>2 DEF OnNextCrowded, TakeAddress
<1>24. CASE AnswerLate(n)
  <2>1. /\ mailboxes' \in [Nodes -> Seq(Frames)]
        /\ \A m \in Nodes : Len(mailboxes'[m]) <= Mailboxes
    BY <1>24, EmitType DEF AnswerLate, Events
  <2> QED
    BY <1>24, <2>1 DEF AnswerLate
<1> QED
  BY <1>1, <1>2, <1>3, <1>4, <1>5, <1>6, <1>7, <1>8, <1>9, <1>10, <1>11,
     <1>12, <1>13, <1>14, <1>15, <1>16, <1>17, <1>18, <1>19, <1>20, <1>21, <1>22, <1>23, <1>24
     DEF Thread, AddressingStep, IncomingStep

\* Delivery appends a frame to the FIFOs that have room and halts the others.
LEMMA DeliverType ==
  ASSUME TypeOK, NEW n \in Nodes, BusDeliver(n)
  PROVE  TypeOK'
<1>1. mailboxes[n] \in Seq(Frames) /\ mailboxes[n] # <<>>
  BY DEF TypeOK, BusDeliver
<1>2. /\ Head(mailboxes[n]) \in Frames
      /\ Tail(mailboxes[n]) \in Seq(Frames)
      /\ Len(Tail(mailboxes[n])) = Len(mailboxes[n]) - 1
  BY <1>1
<1>3. /\ mailboxes' \in [Nodes -> Seq(Frames)]
      /\ \A m \in Nodes : Len(mailboxes'[m]) <= Mailboxes
  BY <1>2, ConstantsAssumption DEF TypeOK, BusDeliver
<1>4. ASSUME NEW m \in Nodes
      PROVE  kc_recv_fifo'[m] \in Seq(Frames) /\ Len(kc_recv_fifo'[m]) <= FifoSize
  <2>1. kc_recv_fifo[m] \in Seq(Frames) /\ Len(kc_recv_fifo[m]) <= FifoSize
    BY DEF TypeOK
  <2>2. /\ Append(kc_recv_fifo[m], Head(mailboxes[n])) \in Seq(Frames)
        /\ Len(Append(kc_recv_fifo[m], Head(mailboxes[n]))) = Len(kc_recv_fifo[m]) + 1
    BY <1>2, <2>1
  <2>3. \/ kc_recv_fifo'[m] = kc_recv_fifo[m]
        \/ /\ kc_recv_fifo'[m] = Append(kc_recv_fifo[m], Head(mailboxes[n]))
           /\ Len(kc_recv_fifo[m]) # FifoSize
    BY DEF BusDeliver
  <2> QED
    BY <2>1, <2>2, <2>3, ConstantsAssumption
<1>5. pc' \in [Nodes -> Labels]
  BY DEF TypeOK, BusDeliver, Labels, Down
<1>6. kc_recv_fifo' \in [Nodes -> Seq(Frames)]
  BY <1>4 DEF BusDeliver
<1> QED
  BY <1>3, <1>4, <1>5, <1>6 DEF TypeOK, BusDeliver, env, protocol, pins

\* A reset or a change of the supply leaves values a C program starts from.
LEMMA EnvironmentType ==
  ASSUME TypeOK, NEW n \in Nodes, Environment(n)
  PROVE  TypeOK'
<1> USE ConstantsAssumption
<1>1. faults' \in 0 .. MaxFaults /\ powered' \subseteq Nodes
  BY DEF TypeOK, Environment, PowerOn, PowerOff, Reset, Fault
<1>2. PICK label \in Down : Restart(n, label)
  BY DEF Environment, PowerOn, PowerOff, Reset, Down
<1>3. /\ <<>> \in Seq(Frames)
      /\ Len(<<>>) = 0
  OBVIOUS
<1> QED
  BY <1>1, <1>2, <1>3 DEF TypeOK, Restart, Goto, Labels, Returns, States, Addresses

\* The start of every supplied node: zeroed RAM, empty queues.
LEMMA InitType == Init => TypeOK
<1>1. /\ <<>> \in Seq(Frames)
      /\ Len(<<>>) = 0
  OBVIOUS
<1> QED
  BY <1>1, ConstantsAssumption
  DEF Init, TypeOK, Labels, Down, Returns, States, Addresses

\* Every variable keeps its type on a chain of any length (the code: the C types
\* of knabbercan.c and the three transmit mailboxes).
THEOREM TypeInvariant == Spec => []TypeOK
<1>1. Init => TypeOK
  BY InitType
<1>2. TypeOK /\ [Next]_vars => TypeOK'
  <2> SUFFICES ASSUME TypeOK, [Next]_vars PROVE TypeOK'
    OBVIOUS
  <2>1. CASE UNCHANGED vars
    BY <2>1 DEF TypeOK, vars, env, protocol, pins, bus
  <2>2. CASE Next
    BY <2>2, ThreadType, DeliverType, EnvironmentType DEF Next
  <2> QED
    BY <2>1, <2>2
<1> QED
  BY <1>1, <1>2, PTL DEF Spec

-----------------------------------------------------------------------------
(* READY means addressed *)

\* A step of a thread keeps an address once taken, and only GoOnline makes READY.
LEMMA ThreadAddressed ==
  ASSUME AddressedInv, NEW n \in Nodes, Thread(n)
  PROVE  ConfiguredIsAddressed' /\ ReadyIsAddressed'
<1> USE ConstantsAssumption
    DEF AddressedInv, ConfiguredIsAddressed, ReadyIsAddressed, TypeOK, Goto, States,
        env, protocol, pins, bus
<1>1. CASE kc_init(n)
  BY <1>1 DEF kc_init
<1>2. CASE kc_request_addressing(n)
  BY <1>2 DEF kc_request_addressing
<1>3. CASE IgnoreRequired(n)
  BY <1>3 DEF IgnoreRequired, Returns
<1>4. CASE BeginAddressing(n)
  BY <1>4 DEF BeginAddressing, ForgetAddress, Returns
<1>5. CASE StartAddressing(n)
  BY <1>5 DEF StartAddressing
<1>6. CASE NodeFollows(n)
  BY <1>6 DEF NodeFollows
<1>7. CASE DriveDaisy(n)
  BY <1>7 DEF DriveDaisy
<1>8. CASE AddressNext(n)
  BY <1>8 DEF AddressNext
<1>9. CASE RespondDelay(n)
  BY <1>9 DEF RespondDelay, Returns
<1>10. CASE LastNode(n)
  BY <1>10 DEF LastNode
<1>11. CASE FinishAddressing(n)
  BY <1>11 DEF FinishAddressing, kc_address_end
<1>12. CASE GoOnline(n)
  BY <1>12 DEF GoOnline, ConfigureFilter1, can_configure_filter_bank, Returns
<1>13. CASE Poll(n)
  BY <1>13 DEF Poll
<1>14. CASE Retry(n)
  BY <1>14 DEF Retry
<1>15. CASE LoopDone(n)
  BY <1>15 DEF LoopDone
<1>16. CASE OnStart(n)
  BY <1>16 DEF OnStart
<1>17. CASE OnSuccess(n)
  BY <1>17 DEF OnSuccess, StopWaiting
<1>18. CASE OnOtherNext(n)
  BY <1>18 DEF OnOtherNext
<1>19. CASE OnFinished(n)
  BY <1>19 DEF OnFinished, kc_address_end
<1>20. CASE OnRequired(n)
  BY <1>20 DEF OnRequired
<1>21. CASE OnOnline(n)
  BY <1>21 DEF OnOnline
<1>22. CASE OnNext(n)
  <2>1. Head(kc_recv_fifo[n]) \in Frames
    BY <1>22, TakeType DEF OnNext, TakeAddress, Events
  <2>2. NextAddress(Head(kc_recv_fifo[n])) # 0
    BY <2>1 DEF Frames, NextAddress
  <2> QED
    BY <1>22, <2>2 DEF OnNext, TakeAddress
<1>23. CASE OnNextCrowded(n)
  <2>1. Head(kc_recv_fifo[n]) \in Frames
    BY <1>23, TakeType DEF OnNextCrowded, TakeAddress, Events
  <2>2. NextAddress(Head(kc_recv_fifo[n])) # 0
    BY <2>1 DEF Frames, NextAddress
  <2> QED
    BY <1>23, <2>2 DEF OnNextCrowded, TakeAddress
<1>24. CASE AnswerLate(n)
  BY <1>24 DEF AnswerLate
<1> QED
  BY <1>1, <1>2, <1>3, <1>4, <1>5, <1>6, <1>7, <1>8, <1>9, <1>10, <1>11,
     <1>12, <1>13, <1>14, <1>15, <1>16, <1>17, <1>18, <1>19, <1>20, <1>21, <1>22, <1>23, <1>24
     DEF Thread, AddressingStep, IncomingStep

\* A node reports READY only with an address and a configured filter bank, whatever
\* the timing, the load of the bus, and the resets and power cuts before
\* (the code: kc_address_end, the only place that sets KC_STATE_READY).
THEOREM ReadyAddressed == Spec => []ReadyIsAddressed
<1>1. Init => AddressedInv
  BY InitType DEF Init, AddressedInv, ConfiguredIsAddressed, ReadyIsAddressed
<1>2. AddressedInv /\ TypeOK' /\ [Next]_vars => AddressedInv'
  <2> SUFFICES ASSUME AddressedInv, TypeOK', [Next]_vars
               PROVE  ConfiguredIsAddressed' /\ ReadyIsAddressed'
    BY DEF AddressedInv
  <2>1. CASE UNCHANGED vars
    BY <2>1 DEF AddressedInv, ConfiguredIsAddressed, ReadyIsAddressed, vars, protocol
  <2>2. ASSUME NEW n \in Nodes, Thread(n)
        PROVE  ConfiguredIsAddressed' /\ ReadyIsAddressed'
    BY <2>2, ThreadAddressed
  <2>3. ASSUME NEW n \in Nodes, BusDeliver(n)
        PROVE  ConfiguredIsAddressed' /\ ReadyIsAddressed'
    BY <2>3 DEF AddressedInv, ConfiguredIsAddressed, ReadyIsAddressed, BusDeliver, protocol
  <2>4. ASSUME NEW n \in Nodes, Environment(n)
        PROVE  ConfiguredIsAddressed' /\ ReadyIsAddressed'
    <3>1. PICK label \in Down : Restart(n, label)
      BY <2>4 DEF Environment, PowerOn, PowerOff, Reset, Down
    <3> QED
      BY <3>1 DEF AddressedInv, ConfiguredIsAddressed, ReadyIsAddressed, TypeOK,
                  Restart, Goto, Down, States
  <2> QED
    BY <2>1, <2>2, <2>3, <2>4 DEF Next
<1>3. AddressedInv => ReadyIsAddressed
  BY DEF AddressedInv
<1> QED
  BY <1>1, <1>2, <1>3, TypeInvariant, PTL DEF Spec

-----------------------------------------------------------------------------
(* DAISY is low only while the node waits *)

\* A step of a thread drives DAISY low only on the way to NEXT, and stops waiting
\* only when it lets the line go.
LEMMA ThreadDaisy ==
  ASSUME TypeOK, DaisyLowWhileWaiting, NEW n \in Nodes, Thread(n)
  PROVE  DaisyLowWhileWaiting'
<1> USE DEF DaisyLowWhileWaiting, Running, TypeOK, Goto, Down, Returns, Labels,
            env, protocol, pins, bus
<1>1. CASE kc_init(n)
  BY <1>1 DEF kc_init
<1>2. CASE kc_request_addressing(n)
  BY <1>2 DEF kc_request_addressing
<1>3. CASE IgnoreRequired(n)
  BY <1>3 DEF IgnoreRequired
<1>4. CASE BeginAddressing(n)
  BY <1>4 DEF BeginAddressing, ForgetAddress
<1>5. CASE StartAddressing(n)
  BY <1>5 DEF StartAddressing
<1>6. CASE NodeFollows(n)
  BY <1>6 DEF NodeFollows
<1>7. CASE DriveDaisy(n)
  BY <1>7 DEF DriveDaisy
<1>8. CASE AddressNext(n)
  BY <1>8 DEF AddressNext
<1>9. CASE RespondDelay(n)
  BY <1>9 DEF RespondDelay
<1>10. CASE LastNode(n)
  BY <1>10 DEF LastNode
<1>11. CASE FinishAddressing(n)
  BY <1>11 DEF FinishAddressing, kc_address_end
<1>12. CASE GoOnline(n)
  BY <1>12 DEF GoOnline, ConfigureFilter1, can_configure_filter_bank
<1>13. CASE Poll(n)
  BY <1>13 DEF Poll
<1>14. CASE Retry(n)
  BY <1>14 DEF Retry
<1>15. CASE LoopDone(n)
  BY <1>15 DEF LoopDone
<1>16. CASE OnStart(n)
  BY <1>16 DEF OnStart, Take
<1>17. CASE OnSuccess(n)
  BY <1>17 DEF OnSuccess, StopWaiting, Take
<1>18. CASE OnOtherNext(n)
  BY <1>18 DEF OnOtherNext, Take
<1>19. CASE OnFinished(n)
  BY <1>19 DEF OnFinished, kc_address_end, Take
<1>20. CASE OnRequired(n)
  BY <1>20 DEF OnRequired, Take
<1>21. CASE OnOnline(n)
  BY <1>21 DEF OnOnline, Take
<1>22. CASE OnNext(n)
  BY <1>22 DEF OnNext, TakeAddress, Take
<1>23. CASE OnNextCrowded(n)
  BY <1>23 DEF OnNextCrowded, TakeAddress, Take
<1>24. CASE AnswerLate(n)
  BY <1>24 DEF AnswerLate
<1> QED
  BY <1>1, <1>2, <1>3, <1>4, <1>5, <1>6, <1>7, <1>8, <1>9, <1>10, <1>11,
     <1>12, <1>13, <1>14, <1>15, <1>16, <1>17, <1>18, <1>19, <1>20, <1>21, <1>22, <1>23, <1>24
     DEF Thread, AddressingStep, IncomingStep

\* A node holds DAISY low only while it offers an address to its successor: no
\* reset, lost frame or unplugged neighbour leaves the line low at a node that
\* does something else (the code: kc_address_next, kc_address_end, the SUCCESS case).
THEOREM DaisyReleased == Spec => []DaisyLowWhileWaiting
<1>1. Init => DaisyLowWhileWaiting
  BY DEF Init, DaisyLowWhileWaiting, Running
<1>2. TypeOK /\ DaisyLowWhileWaiting /\ [Next]_vars => DaisyLowWhileWaiting'
  <2> SUFFICES ASSUME TypeOK, DaisyLowWhileWaiting, [Next]_vars
               PROVE  DaisyLowWhileWaiting'
    OBVIOUS
  <2>1. CASE UNCHANGED vars
    BY <2>1 DEF DaisyLowWhileWaiting, Running, vars, protocol, pins
  <2>2. ASSUME NEW n \in Nodes, Thread(n) PROVE DaisyLowWhileWaiting'
    BY <2>2, ThreadDaisy
  <2>3. ASSUME NEW n \in Nodes, BusDeliver(n) PROVE DaisyLowWhileWaiting'
    BY <2>3 DEF DaisyLowWhileWaiting, Running, Down, BusDeliver, protocol, pins
  <2>4. ASSUME NEW n \in Nodes, Environment(n) PROVE DaisyLowWhileWaiting'
    <3>1. PICK label \in Down : Restart(n, label)
      BY <2>4 DEF Environment, PowerOn, PowerOff, Reset, Down
    <3> QED
      BY <3>1 DEF DaisyLowWhileWaiting, Running, TypeOK, Restart, Goto, Down
  <2> QED
    BY <2>1, <2>2, <2>3, <2>4 DEF Next
<1> QED
  BY <1>1, <1>2, TypeInvariant, PTL DEF Spec

=============================================================================
