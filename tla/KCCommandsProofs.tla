---------------------------- MODULE KCCommandsProofs ----------------------------
(***************************************************************************)
(* Dispatch of commands and events, for any number of nodes, any programs  *)
(* and any sizes: payloads, definitions and indicators.                    *)
(***************************************************************************)
EXTENDS KCCommands, TLAPS

Received == [type : {"event", "command", "response"}, id : Ids, from : Nat, to : Nat,
             payload : Payloads \cup {"any"}, number : Nat]

Places == {"idle", "loop", "dispatch", "answer", "deleted", "halted"}

\* What the proofs need of the types.
Typed ==
  /\ kc_node_address \in [Nodes -> Nat]
  /\ mailboxes \in [Nodes -> Seq(Received)] /\ kc_recv_fifo \in [Nodes -> Seq(Received)]
  /\ asker \in Seq(Nodes)
  /\ pc \in [Nodes -> Places]
  /\ frame \in [Nodes -> Received \cup {NoFrame}]
  /\ response \in [Nodes -> {0, 1}]
  /\ allocated \in [Nodes -> Nat] /\ thrown \in [Nodes -> Nat]
  /\ indicators_active \in [Nodes -> BOOLEAN] /\ leds \in [Nodes -> BOOLEAN]

\* A poll holds a message exactly while it works on one.
HoldsOne(n) ==
  /\ pc[n] \in {"idle", "loop", "deleted"} => frame[n] = NoFrame
  /\ pc[n] \in {"dispatch", "answer"} => frame[n] # NoFrame
  /\ Up(n) /\ pc[n] # "answer" => response[n] = 0
HoldsWhileWorking == \A n \in Nodes : HoldsOne(n)

\* PayloadsOwned for one node
Held(n) == IF frame[n] = NoFrame THEN 0 ELSE 1
Owed(n) == Len(kc_recv_fifo[n]) + Held(n) + response[n] + thrown[n]

PayloadInv == Typed /\ HoldsWhileWorking /\ PayloadsOwned

LEMMA NoFrameIsNotReceived == NoFrame \notin Received
BY DEF NoFrame, Message, Received

LEMMA MessageReceived ==
  ASSUME NEW type \in {"event", "command", "response"}, NEW id \in Ids,
         NEW from \in Nat, NEW to \in Nat, NEW payload \in Payloads \cup {"any"},
         NEW number \in Nat
  PROVE  Message(type, id, from, to, payload, number) \in Received
BY DEF Message, Received

LEMMA PayloadInit == Init => PayloadInv
BY KCCommandsAssumption
DEF Init, PayloadInv, Typed, Places, HoldsWhileWorking, HoldsOne, PayloadsOwned, Up

LEMMA SendKeeps ==
  ASSUME PayloadInv, NEW n \in Nodes, Send(n)
  PROVE  PayloadInv'
<1>1. PICK type \in {"event", "command"}, to \in {Broadcast} \cup (Nodes \ {n}) :
        \E id \in IF type = "command" THEN Ids ELSE AppIds : \E payload \in PayloadsOf(id) :
          kc_frame_transmit(n, Message(type, id, kc_node_address[n], to, payload, Len(asker) + 1))
  BY DEF Send
<1>2. PICK id \in Ids : \E payload \in PayloadsOf(id) :
          kc_frame_transmit(n, Message(type, id, kc_node_address[n], to, payload, Len(asker) + 1))
  BY <1>1 DEF Ids
<1>3. PICK payload \in PayloadsOf(id) :
          kc_frame_transmit(n, Message(type, id, kc_node_address[n], to, payload, Len(asker) + 1))
  BY <1>2
<1>4. Message(type, id, kc_node_address[n], to, payload, Len(asker) + 1) \in Received
  <2>1. payload \in Payloads \cup {"any"}
    BY DEF PayloadsOf
  <2>2. to \in Nat /\ kc_node_address[n] \in Nat /\ Len(asker) + 1 \in Nat
    BY KCCommandsAssumption DEF Broadcast, PayloadInv, Typed
  <2> QED
    BY <2>1, <2>2, MessageReceived
<1>5. mailboxes' \in [Nodes -> Seq(Received)]
  BY <1>3, <1>4 DEF kc_frame_transmit, PayloadInv, Typed
<1>6. asker' \in Seq(Nodes)
  BY DEF Send, PayloadInv, Typed
<1> QED
  BY <1>5, <1>6
  DEF Send, PayloadInv, Typed, HoldsWhileWorking, HoldsOne, PayloadsOwned, Up, tables, poll, lights

LEMMA DeliverKeeps ==
  ASSUME PayloadInv, NEW n \in Nodes, Deliver(n)
  PROVE  PayloadInv'
<1> DEFINE message == Head(mailboxes[n])
           takers == {m \in Nodes \ {n} : Up(m) /\ Accepts(m, message)}
           well == {m \in takers : ~Overrun(m)}
<1>1. message \in Received /\ mailboxes' \in [Nodes -> Seq(Received)]
  BY DEF Deliver, PayloadInv, Typed
<1>2. \A m \in Nodes :
        /\ kc_recv_fifo'[m] = IF m \in well THEN Append(kc_recv_fifo[m], message)
                              ELSE kc_recv_fifo[m]
        /\ allocated'[m] = allocated[m] + (IF m \in well THEN 1 ELSE 0)
        /\ pc'[m] = IF m \in takers \ well THEN "halted" ELSE pc[m]
  BY DEF Deliver
<1>3. \A m \in Nodes :
        /\ kc_recv_fifo'[m] \in Seq(Received) /\ allocated'[m] \in Nat
        /\ pc'[m] \in {pc[m], "halted"}
        /\ \/ /\ kc_recv_fifo'[m] = kc_recv_fifo[m] /\ allocated'[m] = allocated[m]
           \/ /\ Len(kc_recv_fifo'[m]) = Len(kc_recv_fifo[m]) + 1
              /\ allocated'[m] = allocated[m] + 1
  <2> HIDE DEF message, takers, well
  <2> TAKE m \in Nodes
  <2>1. kc_recv_fifo[m] \in Seq(Received) /\ allocated[m] \in Nat
    BY DEF PayloadInv, Typed
  <2>2. CASE m \in well
    <3>1. /\ kc_recv_fifo'[m] = Append(kc_recv_fifo[m], message)
          /\ allocated'[m] = allocated[m] + 1 /\ pc'[m] = pc[m]
      BY <1>2, <2>1, <2>2
    <3> QED
      BY <1>1, <2>1, <3>1
  <2>3. CASE m \notin well
    <3>1. /\ kc_recv_fifo'[m] = kc_recv_fifo[m]
          /\ allocated'[m] = allocated[m] /\ pc'[m] \in {pc[m], "halted"}
      BY <1>2, <2>1, <2>3
    <3> QED
      BY <2>1, <3>1
  <2> QED
    BY <2>2, <2>3
<1>4. UNCHANGED <<tables, frame, response, indicators_active, leds, asker, thrown>>
  BY DEF Deliver, lights, history
<1>5. /\ DOMAIN kc_recv_fifo' = Nodes /\ DOMAIN allocated' = Nodes /\ DOMAIN pc' = Nodes
      /\ kc_recv_fifo' = [m \in Nodes |-> kc_recv_fifo'[m]]
      /\ allocated' = [m \in Nodes |-> allocated'[m]]
      /\ pc' = [m \in Nodes |-> pc'[m]]
  BY DEF Deliver
<1> HIDE DEF message, takers, well
<1>6. Typed'
  <2>1. kc_recv_fifo' \in [Nodes -> Seq(Received)]
    BY <1>3, <1>5
  <2>2. allocated' \in [Nodes -> Nat]
    BY <1>3, <1>5
  <2>3. pc' \in [Nodes -> Places]
    BY <1>3, <1>5 DEF PayloadInv, Typed, Places
  <2> QED
    BY <1>1, <1>4, <2>1, <2>2, <2>3 DEF PayloadInv, Typed, tables
<1>7. HoldsWhileWorking'
  BY <1>3, <1>4 DEF PayloadInv, HoldsWhileWorking, HoldsOne, Up
<1>8. PayloadsOwned'
  <2> SUFFICES ASSUME NEW m \in Nodes, Up(m)'
               PROVE  allocated'[m] = Len(kc_recv_fifo'[m])
                        + (IF frame[m] = NoFrame THEN 0 ELSE 1) + response[m] + thrown[m]
    BY <1>4, Zenon DEF PayloadsOwned
  <2> DEFINE held == IF frame[m] = NoFrame THEN 0 ELSE 1
  <2>1. Up(m)
    BY <1>3 DEF Up
  <2>2. /\ Len(kc_recv_fifo[m]) \in Nat /\ allocated[m] \in Nat
        /\ response[m] \in Nat /\ thrown[m] \in Nat /\ held \in Nat
    BY DEF PayloadInv, Typed
  <2>3. allocated[m] = Len(kc_recv_fifo[m]) + held + response[m] + thrown[m]
    BY <2>1, Zenon DEF PayloadInv, PayloadsOwned
  <2> HIDE DEF held
  <2>4. \/ Len(kc_recv_fifo'[m]) = Len(kc_recv_fifo[m]) /\ allocated'[m] = allocated[m]
        \/ /\ Len(kc_recv_fifo'[m]) = Len(kc_recv_fifo[m]) + 1
           /\ allocated'[m] = allocated[m] + 1
    BY <1>3, Zenon
  <2> DEFINE waiting == Len(kc_recv_fifo[m])
  <2> HIDE DEF waiting
  <2>5. allocated'[m] = Len(kc_recv_fifo'[m]) + held + response[m] + thrown[m]
    <3>1. CASE Len(kc_recv_fifo'[m]) = waiting /\ allocated'[m] = allocated[m]
      BY <2>3, <3>1, Zenon DEF waiting
    <3>2. CASE Len(kc_recv_fifo'[m]) = waiting + 1 /\ allocated'[m] = allocated[m] + 1
      <4>1. waiting \in Nat /\ allocated[m] = waiting + held + response[m] + thrown[m]
        BY <2>2, <2>3, Zenon DEF waiting
      <4>2. allocated[m] + 1 = waiting + 1 + held + response[m] + thrown[m]
        BY <2>2, <4>1
      <4> QED
        BY <3>2, <4>2, Zenon
    <3> QED
      BY <2>4, <3>1, <3>2, Zenon DEF waiting
  <2> QED
    BY <2>5 DEF held
<1> QED
  BY <1>6, <1>7, <1>8 DEF PayloadInv

\* A step that concerns one node.
LEMMA LocalStep ==
  ASSUME PayloadInv, NEW n \in Nodes, Typed', HoldsOne(n)',
         Up(n)' => allocated'[n] = Owed(n)',
         \A m \in Nodes \ {n} :
           UNCHANGED <<pc[m], kc_recv_fifo[m], frame[m], response[m], allocated[m], thrown[m]>>
  PROVE  PayloadInv'
<1>1. HoldsWhileWorking'
  BY DEF PayloadInv, HoldsWhileWorking, HoldsOne, Up
<1>2. PayloadsOwned'
  BY DEF PayloadInv, PayloadsOwned, Up, Owed, Held
<1> QED
  BY <1>1, <1>2 DEF PayloadInv

LEMMA OwedNow ==
  ASSUME PayloadInv, NEW n \in Nodes, Up(n)
  PROVE  /\ allocated[n] = Owed(n) /\ HoldsOne(n)
         /\ Len(kc_recv_fifo[n]) \in Nat /\ allocated[n] \in Nat
         /\ response[n] \in {0, 1} /\ thrown[n] \in Nat /\ Held(n) \in {0, 1}
BY DEF PayloadInv, Typed, PayloadsOwned, HoldsWhileWorking, Owed, Held

\* Steps that leave messages, payloads and the frame alone.
LEMMA QuietStep ==
  ASSUME PayloadInv, NEW n \in Nodes, Typed', HoldsOne(n)', Up(n),
         UNCHANGED <<kc_recv_fifo, frame, response, allocated, thrown>>,
         \A m \in Nodes \ {n} : pc'[m] = pc[m]
  PROVE  PayloadInv'
<1>1. Up(n)' => allocated'[n] = Owed(n)'
  BY OwedNow DEF Owed, Held
<1> QED
  BY <1>1, LocalStep

LEMMA QuietKeeps ==
  ASSUME PayloadInv, NEW n \in Nodes,
         \/ Poll(n) \/ EndPoll(n) \/ DefineCallback(n) \/ DefineTwice(n)
         \/ Addressed(n) \/ SetIndicatorsActive(n)
  PROVE  PayloadInv'
<1>1. Up(n) /\ UNCHANGED <<kc_recv_fifo, frame, response, allocated, thrown>>
  BY DEF Poll, EndPoll, DefineCallback, DefineTwice, Addressed, SetIndicatorsActive, Library,
         Dispatch, Up, bus, poll, history
<1>2. \A m \in Nodes \ {n} : pc'[m] = pc[m]
  BY DEF Poll, EndPoll, DefineCallback, DefineTwice, Addressed, SetIndicatorsActive, Goto, poll,
         PayloadInv, Typed
<1>3. Typed' /\ HoldsOne(n)'
  <2>1. CASE Poll(n)
    BY <2>1 DEF Poll, Goto, PayloadInv, Typed, HoldsWhileWorking, HoldsOne, Places, Up,
                tables, bus, lights, history
  <2>2. CASE EndPoll(n)
    BY <2>2 DEF EndPoll, Light, Goto, PayloadInv, Typed, HoldsWhileWorking, HoldsOne, Places, Up,
                tables, bus, history
  <2>3. CASE DefineCallback(n)
    BY <2>3 DEF DefineCallback, PayloadInv, Typed, HoldsWhileWorking, HoldsOne, Places, Up,
                bus, poll, lights, history
  <2>4. CASE DefineTwice(n)
    BY <2>4 DEF DefineTwice, Goto, PayloadInv, Typed, HoldsWhileWorking, HoldsOne, Places, Up,
                tables, bus, lights, history
  <2>5. CASE Addressed(n)
    BY <2>5, KCCommandsAssumption
    DEF Addressed, PayloadInv, Typed, HoldsWhileWorking, HoldsOne, Places, Up,
        bus, poll, lights, history
  <2>6. CASE SetIndicatorsActive(n)
    <3>1. indicators_active' \in [Nodes -> BOOLEAN]
      BY <2>6 DEF SetIndicatorsActive, PayloadInv, Typed
    <3> QED
      BY <2>6, <3>1
      DEF SetIndicatorsActive, Library, Dispatch, Goto, PayloadInv, Typed, HoldsWhileWorking,
          HoldsOne, Places, Up, tables, bus, history
  <2> QED
    BY <2>1, <2>2, <2>3, <2>4, <2>5, <2>6
<1> QED
  BY <1>1, <1>2, <1>3, QuietStep

LEMMA TakeKeeps ==
  ASSUME PayloadInv, NEW n \in Nodes, Take(n)
  PROVE  PayloadInv'
<1>1. /\ kc_recv_fifo[n] \in Seq(Received) /\ kc_recv_fifo[n] # <<>>
      /\ frame'[n] = Head(kc_recv_fifo[n]) /\ kc_recv_fifo'[n] = Tail(kc_recv_fifo[n])
      /\ pc[n] = "loop" /\ pc'[n] = "dispatch"
  BY DEF Take, Goto, PayloadInv, Typed
<1>2. /\ Head(kc_recv_fifo[n]) \in Received /\ Tail(kc_recv_fifo[n]) \in Seq(Received)
      /\ Len(Tail(kc_recv_fifo[n])) = Len(kc_recv_fifo[n]) - 1
  BY <1>1
<1>3. frame'[n] # NoFrame /\ frame[n] = NoFrame /\ response[n] = 0
  BY <1>1, <1>2, NoFrameIsNotReceived DEF PayloadInv, HoldsWhileWorking, HoldsOne, Up
<1>4. Typed'
  BY <1>2 DEF Take, Goto, Places, PayloadInv, Typed, tables, lights, history
<1>5. HoldsOne(n)'
  BY <1>1, <1>3 DEF Take, HoldsOne
<1>6. allocated'[n] = Owed(n)'
  <2>1. Owed(n) = Len(kc_recv_fifo[n]) + 0 + 0 + thrown[n] /\ allocated[n] = Owed(n)
    BY <1>1, <1>3, OwedNow DEF Owed, Held, Up
  <2>2. Owed(n)' = Len(kc_recv_fifo[n]) - 1 + 1 + 0 + thrown[n]
    BY <1>1, <1>2, <1>3 DEF Take, history, Owed, Held
  <2>3. Len(kc_recv_fifo[n]) \in Nat /\ thrown[n] \in Nat /\ allocated'[n] = allocated[n]
    BY <1>1, OwedNow DEF Take, Up
  <2> QED
    BY <2>1, <2>2, <2>3
<1>7. \A m \in Nodes \ {n} :
        UNCHANGED <<pc[m], kc_recv_fifo[m], frame[m], response[m], allocated[m], thrown[m]>>
  BY DEF Take, Goto, PayloadInv, Typed, history
<1> QED
  BY <1>4, <1>5, <1>6, <1>7, LocalStep

LEMMA FreeBoth ==
  ASSUME NEW before, NEW after, NEW waiting \in Nat, NEW r \in Nat, NEW t \in Nat,
         before = waiting + 1 + r + t, after = before - (1 + r)
  PROVE  after = waiting + 0 + 0 + t /\ after \in Nat
OBVIOUS

\* The end of a turn frees the payload of the message.
LEMMA EndTurn ==
  ASSUME PayloadInv, NEW n \in Nodes, pc[n] \in {"dispatch", "answer"},
         frame' = [frame EXCEPT ![n] = NoFrame],
         response' = [response EXCEPT ![n] = 0],
         Free(n, 1 + response[n]),
         Goto(n, "loop"),
         mailboxes' \in [Nodes -> Seq(Received)],
         UNCHANGED <<tables, kc_recv_fifo, lights, history>>
  PROVE  PayloadInv'
<1>1. frame[n] # NoFrame /\ frame'[n] = NoFrame /\ response'[n] = 0 /\ pc'[n] = "loop"
      /\ allocated'[n] = allocated[n] - (1 + response[n])
  BY DEF PayloadInv, Typed, HoldsWhileWorking, HoldsOne, Goto, Free
<1>2. /\ allocated[n] = Len(kc_recv_fifo[n]) + 1 + response[n] + thrown[n]
      /\ Len(kc_recv_fifo[n]) \in Nat /\ response[n] \in {0, 1} /\ thrown[n] \in Nat
  BY <1>1, OwedNow DEF Owed, Held, Up
<1>3. allocated'[n] = Len(kc_recv_fifo[n]) + 0 + 0 + thrown[n] /\ allocated'[n] \in Nat
  <2>1. response[n] \in Nat
    BY <1>2
  <2> QED
    BY <1>1, <1>2, <2>1, FreeBoth
<1>4. allocated'[n] = Owed(n)'
  BY <1>1, <1>3 DEF Owed, Held, history
<1>5. Typed'
  BY <1>3 DEF PayloadInv, Typed, Places, Goto, Free, tables, lights, history
<1>6. HoldsOne(n)'
  BY <1>1 DEF HoldsOne
<1>7. \A m \in Nodes \ {n} :
        UNCHANGED <<pc[m], kc_recv_fifo[m], frame[m], response[m], allocated[m], thrown[m]>>
  BY DEF Goto, Free, PayloadInv, Typed, history
<1> QED
  BY <1>4, <1>5, <1>6, <1>7, LocalStep

LEMMA IgnoreKeeps ==
  ASSUME PayloadInv, NEW n \in Nodes, Ignore(n) \/ OnEvent(n)
  PROVE  PayloadInv'
<1>1. pc[n] = "dispatch" /\ response[n] = 0
  BY DEF Ignore, OnEvent, Dispatch, PayloadInv, HoldsWhileWorking, HoldsOne, Up
<1>2. response' = [response EXCEPT ![n] = 0] /\ Free(n, 1 + response[n])
  BY <1>1 DEF Ignore, OnEvent, ClearPayload, Free, PayloadInv, Typed
<1> QED
  BY <1>1, <1>2, EndTurn DEF Ignore, OnEvent, ClearPayload, PayloadInv, Typed, bus

LEMMA AnswerKeeps ==
  ASSUME PayloadInv, NEW n \in Nodes, Answer(n)
  PROVE  PayloadInv'
<1>1. pc[n] = "answer" /\ frame[n] \in Received
  BY DEF Answer, PayloadInv, Typed, HoldsWhileWorking, HoldsOne
<1>2. Message("response", frame[n].id, kc_node_address[n], ToSender(n), "any", frame[n].number)
        \in Received
  BY <1>1, MessageReceived DEF ToSender, Received, PayloadInv, Typed
<1>3. mailboxes' \in [Nodes -> Seq(Received)]
  BY <1>2 DEF Answer, kc_frame_transmit, PayloadInv, Typed
<1> QED
  BY <1>1, <1>3, EndTurn DEF Answer

\* A throw leaves the payload behind, and is counted for it.
LEMMA ThrowKeeps ==
  ASSUME PayloadInv, NEW n \in Nodes, CallbackThrows(n)
  PROVE  PayloadInv'
<1>1. /\ pc[n] = "dispatch" /\ frame[n] # NoFrame /\ response[n] = 0
      /\ pc'[n] \in {"idle", "deleted"} /\ frame'[n] = NoFrame
      /\ thrown'[n] = thrown[n] + 1
      /\ UNCHANGED <<kc_recv_fifo, response, allocated>>
  BY DEF CallbackThrows, PayloadInv, Typed, HoldsWhileWorking, HoldsOne, Up, bus
<1>2. /\ allocated[n] = Len(kc_recv_fifo[n]) + 1 + 0 + thrown[n]
      /\ Len(kc_recv_fifo[n]) \in Nat /\ thrown[n] \in Nat
  BY <1>1, OwedNow DEF Owed, Held, Up
<1>3. allocated[n] = Len(kc_recv_fifo[n]) + 0 + 0 + (thrown[n] + 1)
  BY <1>2
<1>4. allocated'[n] = Owed(n)'
  BY <1>1, <1>3 DEF Owed, Held
<1>5. Typed'
  <2>1. pc' \in [Nodes -> Places]
    BY DEF CallbackThrows, PayloadInv, Typed, Places
  <2> QED
    BY <2>1 DEF CallbackThrows, PayloadInv, Typed, tables, bus, lights
<1>6. HoldsOne(n)'
  BY <1>1 DEF HoldsOne
<1>7. \A m \in Nodes \ {n} :
        UNCHANGED <<pc[m], kc_recv_fifo[m], frame[m], response[m], allocated[m], thrown[m]>>
  BY <1>1 DEF CallbackThrows, PayloadInv, Typed
<1> QED
  BY <1>4, <1>5, <1>6, <1>7, LocalStep

LEMMA ComputeKeeps ==
  ASSUME PayloadInv, NEW n \in Nodes, NEW blocks \in {0, 1}, pc[n] = "dispatch",
         Compute(n, blocks)
  PROVE  PayloadInv'
<1>1. /\ frame[n] # NoFrame /\ response[n] = 0 /\ pc'[n] = "answer"
      /\ response'[n] = blocks /\ allocated'[n] = allocated[n] + blocks
      /\ UNCHANGED <<kc_recv_fifo, frame, thrown>>
  BY DEF Compute, Goto, PayloadInv, Typed, HoldsWhileWorking, HoldsOne, Up, bus, history
<1>2. /\ allocated[n] = Len(kc_recv_fifo[n]) + 1 + 0 + thrown[n]
      /\ Len(kc_recv_fifo[n]) \in Nat /\ thrown[n] \in Nat
  BY <1>1, OwedNow DEF Owed, Held, Up
<1>3. allocated'[n] = Len(kc_recv_fifo[n]) + 1 + blocks + thrown[n] /\ allocated'[n] \in Nat
  BY <1>1, <1>2
<1>4. allocated'[n] = Owed(n)'
  BY <1>1, <1>3 DEF Owed, Held
<1>5. Typed'
  BY <1>3 DEF Compute, Goto, PayloadInv, Typed, Places, tables, bus, lights, history
<1>6. HoldsOne(n)'
  BY <1>1 DEF HoldsOne
<1>7. \A m \in Nodes \ {n} :
        UNCHANGED <<pc[m], kc_recv_fifo[m], frame[m], response[m], allocated[m], thrown[m]>>
  BY <1>1 DEF Compute, Goto, PayloadInv, Typed
<1> QED
  BY <1>4, <1>5, <1>6, <1>7, LocalStep

LEMMA ResetKeeps ==
  ASSUME PayloadInv, NEW n \in Nodes, Reset(n)
  PROVE  PayloadInv'
<1>1. /\ response[n] = 0 /\ pc'[n] = "idle" /\ frame'[n] = NoFrame /\ response' = response
      /\ kc_recv_fifo'[n] = <<>> /\ allocated'[n] = 0 /\ thrown'[n] = 0
  BY DEF Reset, Library, Dispatch, Goto, PayloadInv, Typed, HoldsWhileWorking, HoldsOne, Up
<1>2. allocated'[n] = Owed(n)'
  BY <1>1 DEF Owed, Held
<1>3. Typed'
  BY DEF Reset, Goto, PayloadInv, Typed, Places
<1>4. HoldsOne(n)'
  BY <1>1 DEF HoldsOne
<1>5. \A m \in Nodes \ {n} :
        UNCHANGED <<pc[m], kc_recv_fifo[m], frame[m], response[m], allocated[m], thrown[m]>>
  BY DEF Reset, Goto, PayloadInv, Typed
<1> QED
  BY <1>2, <1>3, <1>4, <1>5, LocalStep

LEMMA PayloadStep == PayloadInv /\ [Next]_vars => PayloadInv'
<1> SUFFICES ASSUME PayloadInv, [Next]_vars PROVE PayloadInv'
  OBVIOUS
<1>1. CASE UNCHANGED vars
  BY <1>1 DEF PayloadInv, Typed, HoldsWhileWorking, HoldsOne, PayloadsOwned, Up, vars,
              tables, bus, poll, lights, history
<1>2. ASSUME NEW n \in Nodes, ReadFwrName(n) \/ RunCommand(n) PROVE PayloadInv'
  BY <1>2, ComputeKeeps DEF ReadFwrName, RunCommand, Library, Dispatch
<1> QED
  BY <1>1, <1>2, QuietKeeps, TakeKeeps, IgnoreKeeps, ThrowKeeps, ResetKeeps, AnswerKeeps,
     SendKeeps, DeliverKeeps
  DEF Next, Work

\* knabbercan.c: what a node allocates for messages and responses it frees, but for the
\* payload of a message whose callback threw; nothing is freed twice.
THEOREM PayloadsAreOwned == Spec => []PayloadsOwned
<1>1. PayloadInv => PayloadsOwned
  BY DEF PayloadInv
<1> QED
  BY <1>1, PayloadInit, PayloadStep, PTL DEF Spec

-----------------------------------------------------------------------------
(* The indicators *)

LEMMA DarkStep == PayloadInv /\ DarkWhenInactive /\ [Next]_vars => DarkWhenInactive'
<1> SUFFICES ASSUME PayloadInv, DarkWhenInactive, [Next]_vars,
                    NEW m \in Nodes, pc'[m] = "idle", ~indicators_active'[m], thrown'[m] = 0
             PROVE  ~leds'[m]
  BY DEF DarkWhenInactive
<1> USE DEF PayloadInv, Typed, DarkWhenInactive, Goto
<1>1. CASE UNCHANGED vars
  BY <1>1 DEF vars, tables, bus, poll, lights, history
<1>2. ASSUME NEW n \in Nodes, EndPoll(n) PROVE ~leds'[m]
  BY <1>2 DEF EndPoll, Light, history
<1>3. ASSUME NEW n \in Nodes, Reset(n) PROVE ~leds'[m]
  BY <1>3 DEF Reset
<1>4. ASSUME NEW n \in Nodes, CallbackThrows(n) PROVE ~leds'[m]
  BY <1>4 DEF CallbackThrows, lights
<1>5. ASSUME NEW n \in Nodes, Deliver(n) PROVE ~leds'[m]
  <2>1. pc'[m] = pc[m]
    BY <1>5 DEF Deliver
  <2> QED
    BY <1>5, <2>1 DEF Deliver, lights, history
<1>6. ASSUME NEW n \in Nodes, SetIndicatorsActive(n) PROVE ~leds'[m]
  BY <1>6 DEF SetIndicatorsActive, history
<1>7. ASSUME NEW n \in Nodes, Answer(n) \/ Take(n) \/ Ignore(n) \/ OnEvent(n) PROVE ~leds'[m]
  BY <1>7 DEF Answer, Take, Ignore, OnEvent, lights, history
<1>8. ASSUME NEW n \in Nodes, ReadFwrName(n) \/ RunCommand(n) PROVE ~leds'[m]
  BY <1>8 DEF ReadFwrName, RunCommand, Compute, lights, history
<1>9. ASSUME NEW n \in Nodes, Poll(n) \/ DefineTwice(n) \/ DefineCallback(n) \/ Addressed(n)
      PROVE ~leds'[m]
  BY <1>9 DEF Poll, DefineTwice, DefineCallback, Addressed, poll, lights, history
<1>10. ASSUME NEW n \in Nodes, Send(n) PROVE ~leds'[m]
  BY <1>10 DEF Send, poll, lights
<1> QED
  BY <1>1, <1>2, <1>3, <1>4, <1>5, <1>6, <1>7, <1>8, <1>9, <1>10 DEF Next, Work

\* knabbercan.c, end of kc_process_incoming: a node told to keep its indicators inactive
\* keeps both LEDs dark between polls, unless a callback threw out of a poll.
THEOREM InactiveIsDark == Spec => []DarkWhenInactive
<1>1. Init => DarkWhenInactive
  BY DEF Init, DarkWhenInactive
<1> QED
  BY <1>1, DarkStep, PayloadInit, PayloadStep, PTL DEF Spec

-----------------------------------------------------------------------------
(* The callback tables *)

Tables ==
  /\ DOMAIN callbacks = Nodes
  /\ \A n \in Nodes : DOMAIN callbacks[n] = {"event", "command"}

\* Two actions change the tables.
LEMMA TableStep ==
  ASSUME Tables, [Next]_vars
  PROVE  \/ UNCHANGED callbacks
         \/ \E n \in Nodes : Reset(n)
         \/ \E n \in Nodes : \E type \in {"event", "command"} :
              \E id \in DOMAIN callbacks[n][type] : Define(n, type, id)
<1>1. CASE UNCHANGED vars
  BY <1>1 DEF vars, tables
<1>2. ASSUME NEW n \in Nodes,
             \/ Poll(n) \/ Take(n) \/ EndPoll(n) \/ Ignore(n) \/ OnEvent(n)
             \/ CallbackThrows(n) \/ SetIndicatorsActive(n) \/ Answer(n) \/ Deliver(n)
             \/ DefineTwice(n) \/ Send(n) \/ Addressed(n)
      PROVE  UNCHANGED callbacks
  BY <1>2 DEF Poll, Take, EndPoll, Ignore, OnEvent, CallbackThrows, SetIndicatorsActive,
     Answer, Deliver, DefineTwice, Send, Addressed, tables
<1>3. ASSUME NEW n \in Nodes, ReadFwrName(n) \/ RunCommand(n) PROVE UNCHANGED callbacks
  BY <1>3 DEF ReadFwrName, RunCommand, Compute, tables
<1> QED
  BY <1>1, <1>2, <1>3 DEF Next, Work, DefineCallback

LEMMA TablesInvariant == Spec => []Tables
<1>1. DOMAIN AtStart = {"event", "command"}
  BY DEF AtStart
<1>2. Init => Tables
  BY <1>1 DEF Init, Tables
<1>3. Tables /\ [Next]_vars => Tables'
  <2> SUFFICES ASSUME Tables, [Next]_vars PROVE Tables'
    OBVIOUS
  <2>1. ASSUME NEW n \in Nodes, Reset(n) PROVE Tables'
    BY <1>1, <2>1 DEF Reset, Tables
  <2>2. ASSUME NEW n \in Nodes, NEW type \in {"event", "command"},
               NEW id \in DOMAIN callbacks[n][type], Define(n, type, id)
        PROVE  Tables'
    BY <2>2 DEF Define, Tables
  <2> QED
    BY <2>1, <2>2, TableStep DEF Tables
<1> QED
  BY <1>2, <1>3, PTL DEF Spec

\* knabbercan.c, kc_command_define and kc_event_define: nothing but a restart takes the
\* function of an identifier away or replaces it, so RESET always resets.
THEOREM DefinitionsAreKept == Spec => DefinitionsStay
<1> DEFINE Stay ==
      \A n \in Nodes, type \in {"event", "command"} : \A id \in DOMAIN callbacks[n][type] :
        \/ callbacks[n][type][id] \in {"none", callbacks'[n][type][id]}
        \/ kc_node_address'[n] = 0 /\ callbacks'[n] = AtStart
<1>1. PayloadInv /\ Tables /\ [Next]_vars => [Stay]_vars
  <2> SUFFICES ASSUME PayloadInv, Tables, [Next]_vars,
                      NEW m \in Nodes, NEW t \in {"event", "command"},
                      NEW i \in DOMAIN callbacks[m][t]
               PROVE  \/ callbacks[m][t][i] \in {"none", callbacks'[m][t][i]}
                      \/ kc_node_address'[m] = 0 /\ callbacks'[m] = AtStart
    OBVIOUS
  <2>1. ASSUME NEW n \in Nodes, Reset(n)
        PROVE  \/ callbacks'[m] = callbacks[m]
               \/ kc_node_address'[m] = 0 /\ callbacks'[m] = AtStart
    BY <2>1 DEF Reset, Tables, PayloadInv, Typed
  <2>2. ASSUME NEW n \in Nodes, NEW type \in {"event", "command"},
               NEW id \in DOMAIN callbacks[n][type], Define(n, type, id)
        PROVE  callbacks[m][t][i] \in {"none", callbacks'[m][t][i]}
    <3>1. CASE m = n /\ t = type /\ i = id
      BY <2>2, <3>1 DEF Define, Defined
    <3>2. CASE ~(m = n /\ t = type /\ i = id)
      <4>1. callbacks'[m][t][i] = callbacks[m][t][i]
        BY <2>2, <3>2 DEF Define, Tables
      <4> QED
        BY <4>1
    <3> QED
      BY <3>1, <3>2
  <2> QED
    BY <2>1, <2>2, TableStep
<1> QED
  BY <1>1, TablesInvariant, PayloadInit, PayloadStep, PTL DEF Spec, DefinitionsStay

=============================================================================
