------------------------------ MODULE KCCommands ------------------------------
(***************************************************************************)
(* What kc_process_incoming of src/src/knabberkiste/knabbercan.c does with *)
(* the messages it takes: it calls the function the application or kc_init *)
(* defined for the event or command, answers a command with a response     *)
(* frame, frees the payloads and sets the indicator LEDs.                  *)
(*                                                                         *)
(* A message is whole here: KCTransport puts it together, and every one    *)
(* that was received owns a block of the heap.  Addresses are given by     *)
(* KCAddressing, which keeps them distinct.  A callback of the application *)
(* returns or throws; a throw ends the poll, if the application has a try  *)
(* around it, or the task.                                                 *)
(***************************************************************************)
EXTENDS Naturals, Sequences, FiniteSets

CONSTANTS
  Nodes,        \* positions on the chain, from 1
  Programs,     \* which nodes send and which define callbacks of their own
  AppIds,       \* transaction identifiers the application may define
  Payloads,     \* of SET_INDICATORS_ACTIVE: a byte, "on" or "off", or "none"
  Mailboxes,    \* frames handed over but not yet on the bus
  FifoSize,
  HeapBlocks,   \* payload blocks the heap of a node holds
  MaxMessages   \* bound of the model: messages the applications send

BuiltIn == {"RESET", "SET_INDICATORS_ACTIVE", "READ_FWR_NAME"}
Ids == BuiltIn \cup AppIds
Broadcast == 0

ASSUME KCCommandsAssumption ==
  /\ Payloads \subseteq {"on", "off", "none"}
  /\ Programs \subseteq [senders : SUBSET Nodes, definers : SUBSET Nodes]
  /\ Nodes \subseteq Nat \ {Broadcast}
  /\ Mailboxes \in Nat \ {0} /\ FifoSize \in Nat \ {0}
  /\ HeapBlocks \in Nat /\ MaxMessages \in Nat

VARIABLES
  program,             \* what the applications do, fixed from the start
  kc_node_address,     \* 0 until the procedure has given the node its position
  callbacks,           \* per node, type and identifier: whose function is defined
  mailboxes, kc_recv_fifo,
  pc,                  \* "idle", "loop", "dispatch", "answer"; "deleted", "halted"
  frame, response,     \* of the poll under way
  allocated,           \* payload blocks in use
  indicators_active, leds,   \* leds: whether the traffic decides which are lit
  asker,               \* who sent message 1, 2, ...
  thrown,              \* per node: callbacks that threw since its start
  restarted            \* nodes that a RESET command has restarted

tables == <<kc_node_address, callbacks>>
bus == <<mailboxes, kc_recv_fifo>>
poll == <<pc, frame, response, allocated>>
lights == <<indicators_active, leds>>
history == <<program, asker, thrown, restarted>>
vars == <<tables, bus, poll, lights, history>>

-----------------------------------------------------------------------------
(* Values *)

\* The content of a payload matters to one command.
PayloadsOf(id) == IF id = "SET_INDICATORS_ACTIVE" THEN Payloads ELSE {"any"}

\* number: of the message, or of the command a response answers
Message(type, id, from, to, payload, number) ==
  [type |-> type, id |-> id, from |-> from, to |-> to, payload |-> payload, number |-> number]
NoFrame == Message("none", "none", Broadcast, Broadcast, "any", 0)

Up(n) == pc[n] # "halted"
Goto(n, label) == pc' = [pc EXCEPT ![n] = label]
Free(n, blocks) == allocated' = [allocated EXCEPT ![n] = @ - blocks]
Defined(n, type, id) == callbacks[n][type][id] # "none"

\* The commands kc_init defines; its events are those of KCAddressing.
AtStart == [event |-> [id \in AppIds |-> "none"],
            command |-> [id \in Ids |-> IF id \in BuiltIn THEN "library" ELSE "none"]]

-----------------------------------------------------------------------------
(* The application *)

DefineAnyway(n, type, id) == callbacks' = [callbacks EXCEPT ![n][type][id] = "application"]

\* kc_command_define, kc_event_define
Define(n, type, id) ==
  /\ ~Defined(n, type, id)
  /\ callbacks' = [callbacks EXCEPT ![n][type][id] = "application"]

DefineCallback(n) ==
  /\ n \in program.definers /\ pc[n] = "idle"
  /\ \E type \in {"event", "command"} : \E id \in DOMAIN callbacks[n][type] : Define(n, type, id)
  /\ UNCHANGED <<kc_node_address, bus, poll, lights, history>>

\* A second definition throws; without a try around it the task is deleted.
DefineTwice(n) ==
  /\ n \in program.definers /\ pc[n] = "idle"
  /\ Goto(n, "deleted")
  /\ UNCHANGED <<tables, bus, frame, response, allocated, lights, history>>

\* kc_frame_transmit returns when the last frame has a mailbox.
kc_frame_transmit(n, message) ==
  /\ Len(mailboxes[n]) < Mailboxes
  /\ mailboxes' = [mailboxes EXCEPT ![n] = Append(@, message)]

\* The application sends an event or a command.
Send(n) ==
  /\ n \in program.senders /\ pc[n] = "idle"
  /\ Len(asker) < MaxMessages
  /\ \E type \in {"event", "command"}, to \in {Broadcast} \cup (Nodes \ {n}) :
       \E id \in IF type = "command" THEN Ids ELSE AppIds : \E payload \in PayloadsOf(id) :
       /\ type = "command" \/ to = Broadcast
       /\ kc_frame_transmit(n, Message(type, id, kc_node_address[n], to, payload, Len(asker) + 1))
  /\ asker' = Append(asker, n)
  /\ UNCHANGED <<tables, kc_recv_fifo, poll, lights, program, thrown, restarted>>

-----------------------------------------------------------------------------
(* The bus and the receive interrupt *)

Accepts(n, message) == message.to \in {Broadcast, kc_node_address[n]}

\* A node without room in its FIFO or its heap throws in the interrupt and stays there.
Overrun(n) == Len(kc_recv_fifo[n]) >= FifoSize \/ allocated[n] >= HeapBlocks

Deliver(n) ==
  /\ mailboxes[n] # <<>>
  /\ LET message == Head(mailboxes[n])
         takers == {m \in Nodes \ {n} : Up(m) /\ Accepts(m, message)}
         well == {m \in takers : ~Overrun(m)}
     IN /\ kc_recv_fifo' = [m \in Nodes |-> IF m \in well THEN Append(kc_recv_fifo[m], message)
                                            ELSE kc_recv_fifo[m]]
        /\ allocated' = [m \in Nodes |-> allocated[m] + (IF m \in well THEN 1 ELSE 0)]
        /\ pc' = [m \in Nodes |-> IF m \in takers \ well THEN "halted" ELSE pc[m]]
  /\ mailboxes' = [mailboxes EXCEPT ![n] = Tail(@)]
  /\ UNCHANGED <<tables, frame, response, lights, history>>

-----------------------------------------------------------------------------
(* kc_process_incoming *)

Poll(n) ==
  /\ pc[n] = "idle"
  /\ Goto(n, "loop")
  /\ UNCHANGED <<tables, bus, frame, response, allocated, lights, history>>

Take(n) ==
  /\ pc[n] = "loop" /\ kc_recv_fifo[n] # <<>>
  /\ frame' = [frame EXCEPT ![n] = Head(kc_recv_fifo[n])]
  /\ kc_recv_fifo' = [kc_recv_fifo EXCEPT ![n] = Tail(@)]
  /\ Goto(n, "dispatch")
  /\ UNCHANGED <<tables, mailboxes, response, allocated, lights, history>>

Dispatch(n, type) == pc[n] = "dispatch" /\ frame[n].type = type
Owner(n) == callbacks[n][frame[n].type][frame[n].id]
Library(n, id) == Dispatch(n, "command") /\ frame[n].id = id /\ Owner(n) = "library"

\* The end of a turn of the loop.
ForgetPayload(n) == frame' = [frame EXCEPT ![n] = NoFrame] /\ UNCHANGED allocated
ClearPayload(n) == frame' = [frame EXCEPT ![n] = NoFrame] /\ Free(n, 1)

\* A response, an error, or nothing defined for the identifier.
Ignore(n) ==
  /\ pc[n] = "dispatch"
  /\ frame[n].type \in {"event", "command"} => ~Defined(n, frame[n].type, frame[n].id)
  /\ ClearPayload(n)
  /\ Goto(n, "loop")
  /\ UNCHANGED <<tables, bus, response, lights, history>>

OnEvent(n) ==
  /\ Dispatch(n, "event") /\ Defined(n, "event", frame[n].id)
  /\ ClearPayload(n)
  /\ Goto(n, "loop")
  /\ UNCHANGED <<tables, bus, response, lights, history>>

\* The function of the application, or an allocation inside it, throws: the payload is
\* not freed, and with a try around the poll the application goes on after it.
CallbackThrows(n) ==
  /\ pc[n] = "dispatch"
  /\ frame[n].type \in {"event", "command"} /\ Defined(n, frame[n].type, frame[n].id)
  /\ \/ Owner(n) = "application"
     \/ frame[n].id = "READ_FWR_NAME" /\ allocated[n] >= HeapBlocks
  /\ frame' = [frame EXCEPT ![n] = NoFrame]
  /\ thrown' = [thrown EXCEPT ![n] = @ + 1]
  /\ pc' \in {[pc EXCEPT ![n] = after] : after \in {"idle", "deleted"}}
  /\ UNCHANGED <<tables, bus, response, allocated, lights, program, asker, restarted>>

\* NVIC_SystemReset: RAM, the mailboxes and the address are gone.
Reset(n) ==
  /\ Library(n, "RESET")
  /\ kc_node_address' = [kc_node_address EXCEPT ![n] = 0]
  /\ callbacks' = [callbacks EXCEPT ![n] = AtStart]
  /\ mailboxes' = [mailboxes EXCEPT ![n] = <<>>]
  /\ kc_recv_fifo' = [kc_recv_fifo EXCEPT ![n] = <<>>]
  /\ frame' = [frame EXCEPT ![n] = NoFrame]
  /\ allocated' = [allocated EXCEPT ![n] = 0]
  /\ indicators_active' = [indicators_active EXCEPT ![n] = TRUE]
  /\ leds' = [leds EXCEPT ![n] = FALSE]
  /\ thrown' = [thrown EXCEPT ![n] = 0]
  /\ restarted' = restarted \cup {n}
  /\ Goto(n, "idle")
  /\ UNCHANGED <<response, program, asker>>

\* Without a payload the byte read is what lies behind the block.
SetIndicatorsActive(n) ==
  /\ Library(n, "SET_INDICATORS_ACTIVE")
  /\ \E on \in CASE frame[n].payload = "on" -> {TRUE} [] frame[n].payload = "off" -> {FALSE}
                 [] OTHER -> BOOLEAN :
       indicators_active' = [indicators_active EXCEPT ![n] = on]
  /\ Goto(n, "answer")
  /\ UNCHANGED <<tables, bus, frame, response, allocated, leds, history>>

Compute(n, blocks) ==
  /\ allocated[n] + blocks <= HeapBlocks
  /\ response' = [response EXCEPT ![n] = blocks]
  /\ allocated' = [allocated EXCEPT ![n] = @ + blocks]
  /\ Goto(n, "answer")
  /\ UNCHANGED <<tables, bus, frame, lights, history>>

ReadFwrName(n) ==
  /\ Library(n, "READ_FWR_NAME")
  /\ Compute(n, 1)

\* A command of the application returns a response with a payload or without.
RunCommand(n) ==
  /\ Dispatch(n, "command") /\ Owner(n) = "application"
  /\ \E blocks \in {0, 1} : Compute(n, blocks)

ToReceiver(n) == frame[n].to
ToSender(n) == frame[n].from

\* The response frame is sent whatever the function returned.
Answer(n) ==
  /\ pc[n] = "answer"
  /\ kc_frame_transmit(n, Message("response", frame[n].id, kc_node_address[n], ToSender(n),
                                  "any", frame[n].number))
  /\ frame' = [frame EXCEPT ![n] = NoFrame]
  /\ response' = [response EXCEPT ![n] = 0]
  /\ Free(n, 1 + response[n])
  /\ Goto(n, "loop")
  /\ UNCHANGED <<tables, kc_recv_fifo, lights, history>>

\* The LEDs show the traffic of the tick, or stay dark.
LightAnyway(n) == leds' = [leds EXCEPT ![n] = TRUE]
Light(n) == leds' = [leds EXCEPT ![n] = indicators_active[n]]

EndPoll(n) ==
  /\ pc[n] = "loop" /\ kc_recv_fifo[n] = <<>>
  /\ Light(n)
  /\ Goto(n, "idle")
  /\ UNCHANGED <<tables, bus, frame, response, allocated, indicators_active, history>>

-----------------------------------------------------------------------------

\* The procedure ends again for a node that was reset: address and filter bank are set.
Addressed(n) ==
  /\ pc[n] = "idle" /\ kc_node_address[n] = 0
  /\ kc_node_address' = [kc_node_address EXCEPT ![n] = n]
  /\ UNCHANGED <<callbacks, bus, poll, lights, history>>

\* kc_init and the procedure are over.
Init ==
  /\ program \in Programs
  /\ kc_node_address = [n \in Nodes |-> n]
  /\ callbacks = [n \in Nodes |-> AtStart]
  /\ mailboxes = [n \in Nodes |-> <<>>] /\ kc_recv_fifo = [n \in Nodes |-> <<>>]
  /\ pc = [n \in Nodes |-> "idle"]
  /\ frame = [n \in Nodes |-> NoFrame] /\ response = [n \in Nodes |-> 0]
  /\ allocated = [n \in Nodes |-> 0]
  /\ indicators_active = [n \in Nodes |-> TRUE]
  /\ leds = [n \in Nodes |-> FALSE]
  /\ asker = <<>>
  /\ thrown = [n \in Nodes |-> 0]
  /\ restarted = {}

Work(n) ==
  \/ Poll(n) \/ Take(n) \/ EndPoll(n)
  \/ Ignore(n) \/ OnEvent(n) \/ CallbackThrows(n)
  \/ Reset(n) \/ SetIndicatorsActive(n) \/ ReadFwrName(n) \/ RunCommand(n) \/ Answer(n)

Next == \E n \in Nodes :
  Work(n) \/ Deliver(n) \/ DefineCallback(n) \/ DefineTwice(n) \/ Send(n) \/ Addressed(n)

Spec == Init /\ [][Next]_vars

\* knabbercan.h:221: the application calls kc_process_incoming regularly; the bus
\* delivers what is in a mailbox, since every node has supply.
FairSpec == Spec /\ \A n \in Nodes : WF_vars(Work(n)) /\ WF_vars(Deliver(n))

-----------------------------------------------------------------------------
(* Properties *)

\* Payload blocks are those of the messages received and not yet processed, of the
\* response under way, and one for every callback that threw: nothing else leaks and
\* nothing is freed twice.
PayloadsOwned ==
  \A n \in Nodes : Up(n) =>
    allocated[n] = Len(kc_recv_fifo[n]) + (IF frame[n] = NoFrame THEN 0 ELSE 1)
                   + response[n] + thrown[n]

\* The functions that are defined stay, those of kc_init against the application:
\* RESET always restarts the node.  Only that restart undoes definitions.
DefinitionsStay ==
  [][\A n \in Nodes, type \in {"event", "command"} : \A id \in DOMAIN callbacks[n][type] :
       \/ callbacks[n][type][id] \in {"none", callbacks'[n][type][id]}
       \/ kc_node_address'[n] = 0 /\ callbacks'[n] = AtStart]_vars

\* A node stopped, restarted, or left a poll by a throw.
Failed(n) == pc[n] \in {"halted", "deleted"} \/ n \in restarted \/ thrown[n] > 0

\* docs/knabbercan.md:158 and 161, "No response.": it tells nothing of the others.
NoResponse == {"RESET", "SET_INDICATORS_ACTIVE"}

Holds(n, type, k) ==
  \E i \in DOMAIN kc_recv_fifo[n] :
    LET m == kc_recv_fifo[n][i] IN
    /\ m.type = type /\ m.number = k /\ m.id \notin NoResponse
    /\ type = "command" => Defined(n, type, m.id)

\* A command that was received, is defined and has a response in the documentation is
\* answered, and the answer reaches the node that asked, addressed or not, unless one of
\* them failed.
CommandAnswered ==
  \A k \in 1 .. MaxMessages, n \in Nodes :
    Holds(n, "command", k)
      ~> \/ Failed(n)
         \/ k \in DOMAIN asker /\ (Failed(asker[k]) \/ Holds(asker[k], "response", k))

\* With the indicators inactive the LEDs are dark between polls, but after a callback
\* that threw, which also skips the update of the LEDs.
DarkWhenInactive ==
  \A n \in Nodes : pc[n] = "idle" /\ ~indicators_active[n] /\ thrown[n] = 0 => ~leds[n]

=============================================================================
