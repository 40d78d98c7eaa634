---------------------------- MODULE KCAddressing ----------------------------
(***************************************************************************)
(* The decentralised addressing procedure of knabberCAN                    *)
(* (src/src/knabberkiste/knabbercan.c) on a chain of nodes 1..N, node n's  *)
(* OUT port cabled to node n+1's IN port.                                  *)
(*                                                                         *)
(* Every node runs one thread (kc_init, then kc_process_incoming again and *)
(* again) and its receive interrupt.  pc[n] is where that thread stands:   *)
(* a label ends wherever the code sends a frame, spins in a delay loop or  *)
(* reads a pin another node drives, so everything the bus and the          *)
(* neighbours can see is interleaved and the rest of a handler is one      *)
(* step.  All calls between the handlers are tail calls, so one return     *)
(* label, ret[n], stands for the C stack.                                  *)
(***************************************************************************)
EXTENDS Naturals, Sequences, FiniteSets

CONSTANTS
  N,            \* number of nodes on the chain
  AddrMod,      \* 2^7: the width of the address fields of a CAN identifier
  Mailboxes,    \* transmit mailboxes of the CAN peripheral (3)
  FifoSize,     \* KC_RECV_FIFO_SIZE (128)
  QueueBound,   \* bound of the model: frames waiting in one receive FIFO
  MaxFaults,    \* bound of the model: power and reset events
  FaultKinds,   \* which of them: "on", "off", "reset"
  CalmFaults,   \* TRUE iff they strike only a chain that has settled
  MinPowered,   \* bound of the model: the nodes that keep their supply
  InitPowered,  \* which sets of nodes may be supplied when the model starts
  ReadyWait,    \* TRUE iff the delays before NEXT are long enough
  RespondWait   \* TRUE iff the delay after NEXT is long enough

Nodes == 1 .. N

ASSUME ConstantsAssumption ==
  /\ N \in Nat \ {0}
  /\ AddrMod \in Nat \ {0, 1}
  /\ Mailboxes \in Nat \ {0}
  /\ FifoSize \in Nat \ {0}
  /\ QueueBound \in Nat \ {0}
  /\ MaxFaults \in Nat
  /\ FaultKinds \subseteq {"on", "off", "reset"}
  /\ CalmFaults \in BOOLEAN
  /\ MinPowered \in Nat
  /\ InitPowered \subseteq SUBSET Nodes
  /\ ReadyWait \in BOOLEAN
  /\ RespondWait \in BOOLEAN

VARIABLES
  powered,            \* nodes whose 3.3 V is up: what a neighbour's CONN pin sees
  faults,             \* power and reset events so far (bounded by MaxFaults)
  pc, ret,            \* thread position and the label its handler returns to
  kc_state, kc_node_address, kc_bus_size, already_addressed,
  waiting,            \* waiting_for_next_node_to_be_addressed
  filter1,            \* address matched by CAN filter bank 1, 0 before it is set up
  conn_prev,          \* the three statics of kc_check_if_addressing_required
  daisy_in_pull,      \* pull resistor of KC_DAISY_IN_PIN
  daisy_out,          \* mode and output_data of KC_DAISY_OUT_PIN
  mailboxes,          \* frames accepted by the peripheral, not yet on the bus
  kc_recv_fifo        \* frames received, not yet processed

protocol == <<kc_state, kc_node_address, kc_bus_size, already_addressed, waiting, filter1>>
pins == <<daisy_in_pull, daisy_out>>
bus == <<mailboxes, kc_recv_fifo>>
env == <<powered, faults>>
vars == <<env, pc, ret, protocol, conn_prev, pins, bus>>

-----------------------------------------------------------------------------
(* Values *)

Events == {"START", "SUCCESS", "NEXT", "FINISHED", "REQUIRED", "ONLINE"}
States == {"UNINITIALIZED", "INITIALIZING", "ADDRESSING", "READY"}
\* kc_node_address is a byte, the sender field of a frame has seven bits
Addresses == 0 .. AddrMod
Frames == [event : Events, sender : 0 .. AddrMod - 1]

\* "off": no supply; "reset": supplied, not yet in kc_init; "halted": stuck in
\* the receive interrupt after error_throw.  The others are in the thread.
Down == {"off", "reset", "halted"}
Labels == Down \cup {"request", "required", "start", "success", "next", "ready",
                     "emit_next", "respond", "finish", "online", "idle", "retry", "loop"}
Returns == {"idle", "retry", "loop"}

-----------------------------------------------------------------------------
(* What the pins read *)

Running == {n \in Nodes : pc[n] \notin Down}

\* Nodes whose CAN peripheral is on the bus: it outlives the halt of the CPU.
Active == {n \in Nodes : pc[n] \notin {"off", "reset"}}

kc_in_connected(n) == n > 1 /\ n - 1 \in powered
kc_out_connected(n) == n < N /\ n + 1 \in powered

\* The node before drives the line, else the node's own pull resistor decides.
DaisyIn(n) ==
  IF n > 1 /\ daisy_out[n - 1].mode = "output"
    THEN daisy_out[n - 1].data
    ELSE IF daisy_in_pull[n] = "up" THEN 1 ELSE 0

-----------------------------------------------------------------------------
(* Sending *)

EmitIntoFullMailbox(n, ev, address) ==
  mailboxes' = [mailboxes EXCEPT ![n] =
                  Append(@, [event |-> ev, sender |-> address % AddrMod])]

\* kc_event_emit: the frame is handed to a mailbox; with every mailbox taken it
\* waits in the transmit queue and can_flush_tx_buffer spins until it has moved.
kc_event_emit(n, ev, address) ==
  /\ Len(mailboxes[n]) < Mailboxes
  /\ mailboxes' = [mailboxes EXCEPT ![n] =
                     Append(@, [event |-> ev, sender |-> address % AddrMod])]

Goto(n, label) == pc' = [pc EXCEPT ![n] = label]

(***************************************************************************)
(* The timing of the procedure.  A node spins in two delay loops before it *)
(* sends NEXT (in kc_out_connected and in kc_address_next) and in one more *)
(* afterwards.  They are long enough when, at their end, no mailbox holds  *)
(* a frame that another node acknowledges, every other running node has    *)
(* processed the NEXT frames it received (unless it spins itself, in S),   *)
(* and a node earlier on the chain that was already on its way to send     *)
(* NEXT, so began its own delays earlier, has sent it.  ReadyWait assumes  *)
(* this of the delays before NEXT, RespondWait of the one after it;        *)
(* without the assumption a delay promises nothing.                        *)
(***************************************************************************)
Delivered == \/ Cardinality(Active) <= 1
             \/ \A m \in Nodes : mailboxes[m] = <<>>
NextProcessed(m) ==
  /\ pc[m] # "success"
  /\ \A i \in DOMAIN kc_recv_fifo[m] : kc_recv_fifo[m][i].event # "NEXT"
LongEnough(n, S) ==
  /\ Delivered
  /\ \A m \in Running \ {n} : pc[m] \in S \/ NextProcessed(m)
  /\ \A m \in Nodes : m < n => pc[m] \notin {"next", "ready", "emit_next"}

-----------------------------------------------------------------------------
(* Initialisation and addressing requests *)

\* kc_init up to kc_request_addressing
kc_init(n) ==
  /\ pc[n] = "reset"
  /\ kc_state' = [kc_state EXCEPT ![n] = "INITIALIZING"]
  /\ daisy_in_pull' = [daisy_in_pull EXCEPT ![n] = "down"]
  /\ daisy_out' = [daisy_out EXCEPT ![n].mode = "input"]
  /\ Goto(n, "request")
  /\ ret' = [ret EXCEPT ![n] = "idle"]
  /\ UNCHANGED <<env, kc_node_address, kc_bus_size, already_addressed, waiting,
                 filter1, conn_prev, bus>>

\* kc_request_addressing: tell the bus, then run the handler on the own request
kc_request_addressing(n) ==
  /\ pc[n] = "request"
  /\ kc_event_emit(n, "REQUIRED", kc_node_address[n])
  /\ Goto(n, "required")
  /\ UNCHANGED <<env, ret, protocol, conn_prev, pins, kc_recv_fifo>>

\* kc_internal_event_handler, case KC_EVENT_ADDRESSING_REQUIRED
IgnoreRequired(n) ==
  /\ pc[n] = "required"
  /\ kc_state[n] = "ADDRESSING"
  /\ Goto(n, ret[n])
  /\ UNCHANGED <<env, ret, protocol, conn_prev, pins, bus>>

KeepAddressed(n) == UNCHANGED already_addressed
ForgetAddress(n) == already_addressed' = [already_addressed EXCEPT ![n] = FALSE]

BeginAddressing(n) ==
  /\ pc[n] = "required"
  /\ kc_state[n] # "ADDRESSING"
  /\ ForgetAddress(n)
  /\ kc_state' = [kc_state EXCEPT ![n] = "ADDRESSING"]
  /\ daisy_in_pull' = [daisy_in_pull EXCEPT ![n] = "up"]
  /\ Goto(n, IF kc_in_connected(n) THEN ret[n] ELSE "start")
  /\ UNCHANGED <<env, ret, kc_node_address, kc_bus_size, waiting, filter1,
                 conn_prev, daisy_out, bus>>

\* The first node announces the procedure under its old address, then takes 1.
StartAddressing(n) ==
  /\ pc[n] = "start"
  /\ kc_event_emit(n, "START", kc_node_address[n])
  /\ kc_node_address' = [kc_node_address EXCEPT ![n] = 1]
  /\ Goto(n, "next")
  /\ UNCHANGED <<env, ret, kc_state, kc_bus_size, already_addressed, waiting,
                 filter1, conn_prev, pins, kc_recv_fifo>>

-----------------------------------------------------------------------------
(* kc_address_next and kc_address_end *)

\* A node follows: after the delay DAISY_OUT is driven low.
NodeFollows(n) ==
  /\ pc[n] = "next"
  /\ kc_out_connected(n)
  /\ Goto(n, "ready")
  /\ UNCHANGED <<env, ret, protocol, conn_prev, pins, bus>>

DriveDaisy(n) ==
  /\ pc[n] = "ready"
  /\ ReadyWait => LongEnough(n, {})
  /\ daisy_out' = [daisy_out EXCEPT ![n] = [mode |-> "output", data |-> 0]]
  /\ Goto(n, "emit_next")
  /\ UNCHANGED <<env, ret, protocol, conn_prev, daisy_in_pull, bus>>

AddressNext(n) ==
  /\ pc[n] = "emit_next"
  /\ kc_event_emit(n, "NEXT", kc_node_address[n])
  /\ waiting' = [waiting EXCEPT ![n] = TRUE]
  /\ Goto(n, "respond")
  /\ UNCHANGED <<env, ret, kc_state, kc_node_address, kc_bus_size,
                 already_addressed, filter1, conn_prev, pins, kc_recv_fifo>>

RespondDelay(n) ==
  /\ pc[n] = "respond"
  /\ RespondWait => LongEnough(n, {"ready", "respond"})
  /\ Goto(n, ret[n])
  /\ UNCHANGED <<env, ret, protocol, conn_prev, pins, bus>>

LastNode(n) ==
  /\ pc[n] = "next"
  /\ ~kc_out_connected(n)
  /\ Goto(n, "finish")
  /\ UNCHANGED <<env, ret, protocol, conn_prev, pins, bus>>

EndWithoutAddressCheck(n) ==
  /\ daisy_out' = [daisy_out EXCEPT ![n].mode = "input"]
  /\ daisy_in_pull' = [daisy_in_pull EXCEPT ![n] = "down"]
  /\ Goto(n, "online")

\* kc_address_end up to its branch on the node's own address
kc_address_end(n) ==
  /\ daisy_out' = [daisy_out EXCEPT ![n].mode = "input"]
  /\ daisy_in_pull' = [daisy_in_pull EXCEPT ![n] = "down"]
  /\ Goto(n, IF kc_node_address[n] # 0 THEN "online" ELSE "request")

FinishAddressing(n) ==
  /\ pc[n] = "finish"
  /\ kc_event_emit(n, "FINISHED", kc_node_address[n])
  /\ kc_bus_size' = [kc_bus_size EXCEPT ![n] = kc_node_address[n]]
  /\ kc_address_end(n)
  /\ UNCHANGED <<env, ret, kc_state, kc_node_address, already_addressed,
                 waiting, filter1, conn_prev, kc_recv_fifo>>

\* From now on bank 1 accepts the frames sent to address.
can_configure_filter_bank(n, address) == filter1' = [filter1 EXCEPT ![n] = address]

FilterBusSize(n) == can_configure_filter_bank(n, kc_bus_size[n])
ConfigureFilter1(n) == can_configure_filter_bank(n, kc_node_address[n])

\* kc_address_end, node addressed: ONLINE, filter bank 1, READY
GoOnline(n) ==
  /\ pc[n] = "online"
  /\ kc_event_emit(n, "ONLINE", kc_node_address[n])
  /\ ConfigureFilter1(n)
  /\ kc_state' = [kc_state EXCEPT ![n] = "READY"]
  /\ Goto(n, ret[n])
  /\ UNCHANGED <<env, ret, kc_node_address, kc_bus_size, already_addressed,
                 waiting, conn_prev, pins, kc_recv_fifo>>

-----------------------------------------------------------------------------
(* kc_process_incoming *)

InChanged(n) ==
  /\ conn_prev[n].checked
  /\ kc_state[n] = "READY"
  /\ conn_prev[n].in # kc_in_connected(n)

ConnChanged(n) ==
  /\ conn_prev[n].checked
  /\ kc_state[n] = "READY"
  /\ \/ conn_prev[n].in # kc_in_connected(n)
     \/ conn_prev[n].out # kc_out_connected(n)

\* kc_check_if_addressing_required
Poll(n) ==
  /\ pc[n] = "idle"
  /\ conn_prev' = [conn_prev EXCEPT ![n] =
                     [checked |-> TRUE, in |-> kc_in_connected(n), out |-> kc_out_connected(n)]]
  /\ Goto(n, IF ConnChanged(n) THEN "request" ELSE "retry")
  /\ ret' = [ret EXCEPT ![n] = "retry"]
  /\ UNCHANGED <<env, protocol, pins, bus>>

\* "Didn't react, retrying...": the FIFO is looked at here, NEXT goes out later.
Retry(n) ==
  /\ pc[n] = "retry"
  /\ Goto(n, IF waiting[n] /\ kc_recv_fifo[n] = <<>> THEN "next" ELSE "loop")
  /\ ret' = [ret EXCEPT ![n] = "loop"]
  /\ UNCHANGED <<env, protocol, conn_prev, pins, bus>>

LoopDone(n) ==
  /\ pc[n] = "loop"
  /\ kc_recv_fifo[n] = <<>>
  /\ Goto(n, "idle")
  /\ UNCHANGED <<env, ret, protocol, conn_prev, pins, bus>>

\* fifo_get of the frame the loop dispatches on
Take(n, ev) ==
  /\ pc[n] = "loop"
  /\ kc_recv_fifo[n] # <<>>
  /\ Head(kc_recv_fifo[n]).event = ev
  /\ kc_recv_fifo' = [kc_recv_fifo EXCEPT ![n] = Tail(@)]

OnStart(n) ==
  /\ Take(n, "START")
  /\ kc_state' = [kc_state EXCEPT ![n] = "ADDRESSING"]
  /\ daisy_in_pull' = [daisy_in_pull EXCEPT ![n] = "up"]
  /\ UNCHANGED <<env, pc, ret, kc_node_address, kc_bus_size, already_addressed,
                 waiting, filter1, conn_prev, daisy_out, mailboxes>>

RaiseDaisyOnly(n) ==
  /\ daisy_out' = [daisy_out EXCEPT ![n].data = 1]
  /\ UNCHANGED waiting

StopWaitingOnly(n) ==
  /\ waiting' = [waiting EXCEPT ![n] = FALSE]
  /\ UNCHANGED daisy_out

StopWaiting(n) ==
  /\ waiting' = [waiting EXCEPT ![n] = FALSE]
  /\ daisy_out' = [daisy_out EXCEPT ![n].data = 1]

OnSuccess(n) ==
  /\ Take(n, "SUCCESS")
  /\ StopWaiting(n)
  /\ UNCHANGED <<env, pc, ret, kc_state, kc_node_address, kc_bus_size,
                 already_addressed, filter1, conn_prev, daisy_in_pull, mailboxes>>

NotYetAddressed(n) == ~already_addressed[n]
SendersAddress(frame) == frame.sender

\* The node being addressed: DAISY_IN is low and it has no address of this round.
IsAddressed(n) == DaisyIn(n) = 0 /\ ~already_addressed[n]

NextAddress(frame) == frame.sender + 1

TakeAddress(n) ==
  /\ Take(n, "NEXT")
  /\ IsAddressed(n)
  /\ kc_node_address' = [kc_node_address EXCEPT ![n] = NextAddress(Head(kc_recv_fifo[n]))]
  /\ already_addressed' = [already_addressed EXCEPT ![n] = TRUE]

\* A mailbox is free for SUCCESS ...
OnNext(n) ==
  /\ TakeAddress(n)
  /\ kc_event_emit(n, "SUCCESS", NextAddress(Head(kc_recv_fifo[n])))
  /\ Goto(n, "next")
  /\ UNCHANGED <<env, ret, kc_state, kc_bus_size, waiting, filter1, conn_prev, pins>>

\* ... or it goes out when one is, the address long taken.
OnNextCrowded(n) ==
  /\ TakeAddress(n)
  /\ Len(mailboxes[n]) = Mailboxes
  /\ Goto(n, "success")
  /\ UNCHANGED <<env, ret, kc_state, kc_bus_size, waiting, filter1, conn_prev, pins, mailboxes>>

AnswerLate(n) ==
  /\ pc[n] = "success"
  /\ kc_event_emit(n, "SUCCESS", kc_node_address[n])
  /\ Goto(n, "next")
  /\ UNCHANGED <<env, ret, protocol, conn_prev, pins, kc_recv_fifo>>

OnOtherNext(n) ==
  /\ Take(n, "NEXT")
  /\ ~IsAddressed(n)
  /\ UNCHANGED <<env, pc, ret, protocol, conn_prev, pins, mailboxes>>

OnFinished(n) ==
  /\ Take(n, "FINISHED")
  /\ kc_bus_size' = [kc_bus_size EXCEPT ![n] = Head(kc_recv_fifo[n]).sender]
  /\ kc_address_end(n)
  /\ UNCHANGED <<env, ret, kc_state, kc_node_address, already_addressed,
                 waiting, filter1, conn_prev, mailboxes>>

OnRequired(n) ==
  /\ Take(n, "REQUIRED")
  /\ Goto(n, "required")
  /\ UNCHANGED <<env, ret, protocol, conn_prev, pins, mailboxes>>

\* ONLINE has no callback unless the application defines one.
OnOnline(n) ==
  /\ Take(n, "ONLINE")
  /\ UNCHANGED <<env, pc, ret, protocol, conn_prev, pins, mailboxes>>

-----------------------------------------------------------------------------
(* The bus and the supply *)

(***************************************************************************)
(* The oldest mailbox of n wins the bus and every other running node's     *)
(* receive interrupt puts the frame into its FIFO; a frame that no other   *)
(* peripheral acknowledges stays in its mailbox.  A node whose FIFO is     *)
(* full throws in the interrupt and never leaves it, but its peripheral    *)
(* goes on: it acknowledges, and sends what is in the mailboxes.  The      *)
(* identifiers' arbitration is left open: any node with a pending frame    *)
(* may be next.                                                            *)
(***************************************************************************)
BusDeliver(n) ==
  LET others == Running \ {n}
      overrun == {m \in others : Len(kc_recv_fifo[m]) = FifoSize}
  IN
  /\ n \in Active
  /\ mailboxes[n] # <<>>
  /\ Active # {n}
  /\ \A m \in others : Len(kc_recv_fifo[m]) < QueueBound \/ m \in overrun
  /\ mailboxes' = [mailboxes EXCEPT ![n] = Tail(@)]
  /\ kc_recv_fifo' = [m \in Nodes |->
        IF m \in others \ overrun
          THEN Append(kc_recv_fifo[m], Head(mailboxes[n]))
          ELSE kc_recv_fifo[m]]
  /\ pc' = [m \in Nodes |-> IF m \in overrun THEN "halted" ELSE pc[m]]
  /\ UNCHANGED <<env, ret, protocol, conn_prev, pins>>

\* Everything a reset leaves behind: zeroed RAM, floating pins, empty mailboxes.
Restart(n, label) ==
  /\ Goto(n, label)
  /\ ret' = [ret EXCEPT ![n] = "idle"]
  /\ kc_state' = [kc_state EXCEPT ![n] = "UNINITIALIZED"]
  /\ kc_node_address' = [kc_node_address EXCEPT ![n] = 0]
  /\ kc_bus_size' = [kc_bus_size EXCEPT ![n] = 0]
  /\ already_addressed' = [already_addressed EXCEPT ![n] = FALSE]
  /\ waiting' = [waiting EXCEPT ![n] = FALSE]
  /\ filter1' = [filter1 EXCEPT ![n] = 0]
  /\ conn_prev' = [conn_prev EXCEPT ![n] = [checked |-> FALSE, in |-> FALSE, out |-> FALSE]]
  /\ daisy_in_pull' = [daisy_in_pull EXCEPT ![n] = "none"]
  /\ daisy_out' = [daisy_out EXCEPT ![n] = [mode |-> "input", data |-> 0]]
  /\ mailboxes' = [mailboxes EXCEPT ![n] = <<>>]
  /\ kc_recv_fifo' = [kc_recv_fifo EXCEPT ![n] = <<>>]

\* The supplied nodes have settled: each is ready and between two polls, nothing
\* is in flight and no node is about to notice a change of its neighbours.
Settled ==
  \A n \in powered : /\ pc[n] \in Returns /\ kc_state[n] = "READY"
                     /\ mailboxes[n] = <<>> /\ kc_recv_fifo[n] = <<>>
                     /\ ~ConnChanged(n)

Fault(kind) ==
  /\ kind \in FaultKinds
  /\ faults < MaxFaults
  /\ faults' = faults + 1
  /\ CalmFaults => Settled

PowerOn(n) ==
  /\ pc[n] = "off"
  /\ powered' = powered \cup {n}
  /\ Restart(n, "reset")
  /\ Fault("on")

PowerOff(n) ==
  /\ pc[n] # "off"
  /\ Cardinality(powered) > MinPowered
  /\ powered' = powered \ {n}
  /\ Restart(n, "off")
  /\ Fault("off")

\* NVIC_SystemReset by command, the watchdog or a debugger; the supply stays up.
Reset(n) ==
  /\ pc[n] \notin {"off", "reset"}
  /\ Restart(n, "reset")
  /\ Fault("reset")
  /\ UNCHANGED powered

-----------------------------------------------------------------------------

Init ==
  /\ powered \in InitPowered
  /\ faults = 0
  /\ pc = [n \in Nodes |-> IF n \in powered THEN "reset" ELSE "off"]
  /\ ret = [n \in Nodes |-> "idle"]
  /\ kc_state = [n \in Nodes |-> "UNINITIALIZED"]
  /\ kc_node_address = [n \in Nodes |-> 0]
  /\ kc_bus_size = [n \in Nodes |-> 0]
  /\ already_addressed = [n \in Nodes |-> FALSE]
  /\ waiting = [n \in Nodes |-> FALSE]
  /\ filter1 = [n \in Nodes |-> 0]
  /\ conn_prev = [n \in Nodes |-> [checked |-> FALSE, in |-> FALSE, out |-> FALSE]]
  /\ daisy_in_pull = [n \in Nodes |-> "none"]
  /\ daisy_out = [n \in Nodes |-> [mode |-> "input", data |-> 0]]
  /\ mailboxes = [n \in Nodes |-> <<>>]
  /\ kc_recv_fifo = [n \in Nodes |-> <<>>]

AddressingStep(n) ==
  \/ kc_init(n) \/ kc_request_addressing(n)
  \/ IgnoreRequired(n) \/ BeginAddressing(n) \/ StartAddressing(n)
  \/ NodeFollows(n) \/ DriveDaisy(n) \/ AddressNext(n) \/ RespondDelay(n) \/ LastNode(n)
  \/ FinishAddressing(n) \/ GoOnline(n)

IncomingStep(n) ==
  \/ Poll(n) \/ Retry(n) \/ LoopDone(n)
  \/ OnStart(n) \/ OnSuccess(n)
  \/ OnNext(n) \/ OnNextCrowded(n) \/ AnswerLate(n) \/ OnOtherNext(n)
  \/ OnFinished(n) \/ OnRequired(n) \/ OnOnline(n)

Thread(n) == AddressingStep(n) \/ IncomingStep(n)
Environment(n) == PowerOn(n) \/ PowerOff(n) \/ Reset(n)

Next == \E n \in Nodes : Thread(n) \/ BusDeliver(n) \/ Environment(n)

Spec == Init /\ [][Next]_vars

\* A node keeps executing its thread, and a pending frame that some node can
\* acknowledge is eventually sent.  Nothing forces a supply to come up.
Fairness == \A n \in Nodes : WF_vars(Thread(n)) /\ WF_vars(BusDeliver(n))
FairSpec == Spec /\ Fairness

-----------------------------------------------------------------------------
(* Properties *)

\* Every variable holds a value of its C type (or of the pin, FIFO or register
\* it stands for); mailboxes never hold more frames than the peripheral has.
TypeOK ==
  /\ powered \subseteq Nodes
  /\ faults \in 0 .. MaxFaults
  /\ pc \in [Nodes -> Labels]
  /\ ret \in [Nodes -> Returns]
  /\ kc_state \in [Nodes -> States]
  /\ kc_node_address \in [Nodes -> Addresses]
  /\ kc_bus_size \in [Nodes -> Addresses]
  /\ already_addressed \in [Nodes -> BOOLEAN]
  /\ waiting \in [Nodes -> BOOLEAN]
  /\ filter1 \in [Nodes -> Addresses]
  /\ conn_prev \in [Nodes -> [checked : BOOLEAN, in : BOOLEAN, out : BOOLEAN]]
  /\ daisy_in_pull \in [Nodes -> {"none", "up", "down"}]
  /\ daisy_out \in [Nodes -> [mode : {"input", "output"}, data : {0, 1}]]
  /\ mailboxes \in [Nodes -> Seq(Frames)]
  /\ \A n \in Nodes : Len(mailboxes[n]) <= Mailboxes
  /\ kc_recv_fifo \in [Nodes -> Seq(Frames)]
  /\ \A n \in Nodes : Len(kc_recv_fifo[n]) <= FifoSize

\* docs/knabbercan.md, Addressing procedure: once the supplied part of the chain
\* has settled, node addresses count up from its first OUT port to its last IN
\* port and every node knows the bus size.
AddressesFollowChain ==
  \A j, k \in Nodes : powered = j .. k /\ Settled =>
    \A n \in powered : kc_node_address[n] = n - j + 1 /\ kc_bus_size[n] = k - j + 1

\* The address a node takes from a NEXT frame is its place on the chain.
AddressedInPlace ==
  \A n \in Nodes : already_addressed[n] => kc_node_address[n] = n

\* A node reports KC_STATE_READY only with an address and with filter bank 1 set
\* up, whatever happened before.
ReadyIsAddressed ==
  \A n \in Nodes : kc_state[n] = "READY" => kc_node_address[n] # 0 /\ filter1[n] # 0

\* ... and it takes the frames sent to the address it holds now.
ReadyHearsItself ==
  \A n \in Nodes : kc_state[n] = "READY" => filter1[n] = kc_node_address[n]

\* Addresses are unique among the nodes that are ready: once two nodes have
\* finished the procedure they can be told apart.
ReadyAddressesDistinct ==
  \A m, n \in Nodes :
    kc_state[m] = "READY" /\ kc_state[n] = "READY" /\ m # n
      => kc_node_address[m] # kc_node_address[n]

\* A node holds its successor's DAISY line low only while it offers it an address:
\* about to send NEXT, or waiting for SUCCESS.  A line left low would make the
\* successor take the next NEXT of any node for its own.
DaisyLowWhileWaiting ==
  \A n \in Running : daisy_out[n] = [mode |-> "output", data |-> 0]
                      => waiting[n] \/ pc[n] = "emit_next"

\* A node that is ready has stopped waiting for its successor, so a poll no longer
\* repeats NEXT.
ReadyStopsWaiting ==
  \A n \in Nodes : pc[n] = "idle" /\ kc_state[n] = "READY" => ~waiting[n]

\* The procedure ends: the supplied chain settles for good, with its addresses in
\* the order of the chain.
EventuallySettled == <>[]Settled

\* The same at any speed, for as long as no node is reset, loses its supply or
\* overruns its receive FIFO; a node without another one spins in its flush for ever.
Undisturbed == faults = 0 /\ Cardinality(powered) > 1 /\ \A n \in Nodes : pc[n] # "halted"
SettlesUndisturbed == <>[]Settled \/ <>~Undisturbed

\* A chain that has once settled recovers from the fault that follows: a node
\* reset, unplugged or added makes the procedure run again, to its end.
FaultsHeal == faults = 1 ~> Settled

=============================================================================
