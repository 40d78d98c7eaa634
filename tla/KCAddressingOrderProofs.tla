------------------------ MODULE KCAddressingOrderProofs ------------------------
(***************************************************************************)
(* The order of the addresses, for a chain of any length whose delays are  *)
(* long enough: while no node fails, each takes the number of its place,   *)
(* and what READY promises holds.                                          *)
(*                                                                         *)
(* The invariant follows the procedure along the chain j .. k of the       *)
(* supplied nodes. A node offers an address when it drives DAISY and sends *)
(* NEXT. When its successor makes an offer of its own, nothing is left of  *)
(* the earlier one: no NEXT on the bus or in the FIFO of a node without an *)
(* address, and nobody about to repeat one.                                *)
(***************************************************************************)
EXTENDS KCAddressingProofs, FiniteSetTheorems

-----------------------------------------------------------------------------
(* Frames in a queue *)

Content(s) == {s[i] : i \in DOMAIN s}
None(s, A) == \A f \in Content(s) : f \notin A
\* At most one frame of A; every frame of A before every one of B; a frame of A
\* before the first one of B.
Once(s, A) == \A g, h \in DOMAIN s : s[g] \in A /\ s[h] \in A => g = h
Precede(s, A, B) == \A g, h \in DOMAIN s : s[g] \in A /\ s[h] \in B => g < h
ComesFirst(s, A, B) ==
  \E i \in DOMAIN s : s[i] \in A /\ \A h \in DOMAIN s : h <= i => s[h] \notin B

\* Frames by what they do to a procedure.
Openings == {f \in Frames : f.event \in {"REQUIRED", "START"}}
Nexts == {f \in Frames : f.event = "NEXT"}
Successes == {f \in Frames : f.event = "SUCCESS"}
Finishes == {f \in Frames : f.event = "FINISHED"}
Answers == Nexts \cup Successes \cup Finishes

-----------------------------------------------------------------------------
(* The invariant *)

\* Place of node m, counted from the first supplied node j.
Place(j, m) == m - j + 1
NextFrom(j, m) == [event |-> "NEXT", sender |-> Place(j, m)]
Addressed(n) == kc_node_address[n] # 0
Driven(n) == daisy_out[n].mode = "output"
Finished(n) == pc[n] = "online" \/ kc_state[n] = "READY"
Offering(n) == pc[n] \in {"next", "ready", "emit_next"}
\* A node that has sent NEXT waits for the answer, or is halted.
Waits(n) == pc[n] \in {"respond", "halted"}
\* A node behind n makes offers, or has made them.
Passed(n) == \E m \in Nodes : m > n /\ (Driven(m) \/ (m > n + 1 /\ Addressed(m)))

\* What a node is before kc_init.
Blank(n) ==
  /\ kc_state[n] = "UNINITIALIZED" /\ kc_node_address[n] = 0 /\ kc_bus_size[n] = 0
  /\ ~already_addressed[n] /\ ~waiting[n] /\ ~Driven(n) /\ ~conn_prev[n].checked
  /\ filter1[n] = 0 /\ mailboxes[n] = <<>> /\ kc_recv_fifo[n] = <<>>

Supplied(j, k) ==
  /\ powered = j .. k
  /\ \A n \in Nodes : /\ n \notin j .. k <=> pc[n] = "off"
                      /\ pc[n] \in {"off", "reset"} => Blank(n)

\* A running node: where its thread stands, and what it has done.
Local(j, k, n) ==
  /\ pc[n] = "request" => kc_state[n] = "INITIALIZING"
  /\ pc[n] # "success" /\ (pc[n] = "request" => mailboxes[n] = <<>>)
  /\ ~Addressed(n) => Len(mailboxes[n]) <= 1
  /\ pc[n] \notin {"request", "required"} => kc_state[n] \in {"ADDRESSING", "READY"}
  /\ kc_state[n] = "INITIALIZING" => ~Addressed(n) /\ ret[n] = "idle"
  /\ kc_state[n] # "UNINITIALIZED"
  /\ pc[n] = "start" => n = j /\ ~Addressed(n) /\ kc_state[n] = "ADDRESSING"
  /\ n = j /\ kc_state[n] # "INITIALIZING" => pc[n] = "start" \/ Addressed(n)
  /\ Offering(n) \/ pc[n] \in {"respond", "finish"} => Addressed(n) /\ kc_state[n] = "ADDRESSING"
  /\ pc[n] \in {"ready", "emit_next", "respond"} => n < k
  /\ pc[n] = "finish" => n = k
  /\ pc[n] = "emit_next" => Driven(n)
  /\ pc[n] = "required" => kc_state[n] # "READY"
  /\ kc_state[n] = "ADDRESSING" /\ pc[n] # "online" => daisy_in_pull[n] = "up"
  /\ conn_prev[n].checked => /\ conn_prev[n].in = kc_in_connected(n)
                             /\ conn_prev[n].out = kc_out_connected(n)

\* Addresses are taken one after the other, and each is a place.
Places(j, k, n) ==
  /\ Addressed(n) => kc_node_address[n] = Place(j, n)
  /\ \A m \in j .. k : Addressed(n) /\ m < n => Addressed(m)
  /\ already_addressed[n] <=> Addressed(n) /\ n # j
  /\ Driven(n) => Addressed(n) /\ n < k
  /\ waiting[n] => Addressed(n) /\ n < k /\ ~Finished(n)
  /\ Finished(n) => Addressed(n) /\ Addressed(k) /\ kc_bus_size[n] = Place(j, k)
  /\ kc_state[n] = "READY" => filter1[n] = kc_node_address[n]

\* Who sends what.
Sent(j, k, m) ==
  \A f \in Content(mailboxes[m]) :
    /\ f \in Nexts => Addressed(m) /\ m < k /\ f = NextFrom(j, m)
    /\ f \in Successes => Addressed(m)
    /\ f \in Finishes => m = k /\ Addressed(k) /\ f.sender = Place(j, k)

Received(j, k, n) ==
  \A f \in Content(kc_recv_fifo[n]) :
    /\ f \in Nexts => \E m \in j .. k : m < k /\ Addressed(m) /\ f = NextFrom(j, m)
    /\ f \in Finishes => n # k /\ Addressed(k) /\ f.sender = Place(j, k)

\* An offer on the bus, or before a node without an address, is the last one made.
OfferSent(k, m) ==
  m \in Active /\ ~None(mailboxes[m], Nexts) =>
    ~Passed(m) /\ (~Addressed(k) => Driven(m))

OfferReceived(j, m, n) ==
  n \in Running /\ ~Addressed(n) /\ NextFrom(j, m) \in Content(kc_recv_fifo[n]) =>
    ~Passed(m) /\ Driven(m)

\* A node whose successor has gone on makes no more offers: SUCCESS is there.
OfferEnds(n) ==
  n \in Running /\ Passed(n) =>
    ~Offering(n) /\ (waiting[n] => ComesFirst(kc_recv_fifo[n], Successes, Finishes))

\* SUCCESS is in front of FINISHED, wherever both are.
SuccessComes(n, m) ==
  n \in Running /\ (waiting[n] \/ Offering(n)) /\ m = n + 1 /\ Addressed(m) =>
    \/ ComesFirst(kc_recv_fifo[n], Successes, Finishes)
    \/ /\ None(kc_recv_fifo[n], Finishes)
       /\ ComesFirst(mailboxes[m], Successes, Finishes)

\* A node that is not alone makes one offer at a time: it waits until its successor
\* has looked at NEXT, and repeats it only if that took no address.
OneOffer(j, m, n) ==
  j \in Active /\ m \in Active /\ j < m /\ n = m + 1 =>
    /\ Once(mailboxes[m], Nexts)
    /\ ~None(mailboxes[m], Nexts) => Waits(m) /\ ~Addressed(n)
    /\ n \in Running /\ ~Addressed(n) /\ NextFrom(j, m) \in Content(kc_recv_fifo[n]) =>
         Waits(m) /\ None(mailboxes[m], Nexts)
    /\ Offering(m) => ~Addressed(n)
    /\ waiting[m] /\ Addressed(n) /\ ~Waits(m) => ~None(kc_recv_fifo[m], Successes)

\* The first node, which never counts as addressed by NEXT, sees none in the end.
FirstUndisturbed(j, k) ==
  j \in Running =>
    /\ Precede(kc_recv_fifo[j], Nexts, Finishes)
    /\ Finished(j) => None(kc_recv_fifo[j], Nexts)
    /\ j = k => kc_recv_fifo[j] = <<>>

\* Nothing that opens a procedure is sent or received after what follows it.
OpensFirst(j, m, n) ==
  m \in Active =>
    /\ Precede(mailboxes[m], Openings, Answers)
    /\ n \in Running /\ ~Addressed(n) /\ NextFrom(j, m) \in Content(kc_recv_fifo[n])
         => None(mailboxes[m], Openings)
    /\ n = m + 1 /\ Addressed(n) => None(mailboxes[m], Openings)

OpensFirstAtLast(j, k, n) ==
  /\ k \in Active /\ n \in Running /\ n # k /\ (Finished(n) \/ ~None(kc_recv_fifo[n], Finishes))
       => None(mailboxes[k], Openings)
  /\ n \in Running /\ n = k =>
       /\ Precede(kc_recv_fifo[k], Openings, {NextFrom(j, k - 1)})
       /\ Addressed(k) => None(kc_recv_fifo[k], Openings)
  /\ n \in Running =>
       /\ Precede(kc_recv_fifo[n], Openings, Finishes)
       /\ Finished(n) => None(kc_recv_fifo[n], Openings)

\* Each part, for the nodes of the chain.
ChainInv(j, k) ==
  /\ Supplied(j, k)
  /\ \A n \in j .. k :
       /\ n \in Running => Local(j, k, n)
       /\ Places(j, k, n)
       /\ Sent(j, k, n)
       /\ Received(j, k, n)
       /\ OfferSent(k, n)
       /\ OfferEnds(n)
       /\ OpensFirstAtLast(j, k, n)
  /\ \A m, n \in j .. k :
       /\ OfferReceived(j, m, n)
       /\ SuccessComes(m, n)
       /\ OneOffer(j, m, n)
       /\ OpensFirst(j, m, n)
  /\ FirstUndisturbed(j, k)

OrderInv == TypeOK /\ \E j, k \in Nodes : j <= k /\ ChainInv(j, k)

-----------------------------------------------------------------------------
(* Lemmas about queues *)

\* The frames of a queue that gets one more.
LEMMA ContentAppend ==
  ASSUME NEW s \in Seq(Frames), NEW f \in Frames
  PROVE  Append(s, f) \in Seq(Frames) /\ Content(Append(s, f)) = Content(s) \cup {f}
<1> DEFINE r == Append(s, f)
<1>1. /\ r \in Seq(Frames) /\ DOMAIN r = 1 .. Len(s) + 1 /\ DOMAIN s = 1 .. Len(s) /\ Len(s) \in Nat
      /\ \A i \in 1 .. Len(s) : r[i] = s[i]
      /\ r[Len(s) + 1] = f
  OBVIOUS
<1> HIDE DEF r
<1>2. \A i \in 1 .. Len(s) + 1 : i \in 1 .. Len(s) \/ i = Len(s) + 1
  BY <1>1
<1>3. \A i \in 1 .. Len(s) : i \in 1 .. Len(s) + 1
  BY <1>1
<1>4. Len(s) + 1 \in 1 .. Len(s) + 1
  BY <1>1
<1>5. Content(r) = Content(s) \cup {f}
  BY <1>1, <1>2, <1>3, <1>4, Zenon DEF Content
<1> QED
  BY <1>1, <1>5 DEF r

\* The frames of a queue that loses the one in front.
LEMMA ContentTail ==
  ASSUME NEW s \in Seq(Frames), s # <<>>
  PROVE  /\ Head(s) \in Frames /\ Tail(s) \in Seq(Frames)
         /\ Content(s) = Content(Tail(s)) \cup {Head(s)}
<1> DEFINE r == Tail(s)
<1>1. /\ r \in Seq(Frames) /\ DOMAIN r = 1 .. Len(s) - 1 /\ DOMAIN s = 1 .. Len(s)
      /\ Len(s) \in Nat \ {0} /\ Head(s) = s[1] /\ s[1] \in Frames
      /\ \A i \in 1 .. Len(s) - 1 : r[i] = s[i + 1]
  OBVIOUS
<1> HIDE DEF r
<1>2. \A i \in 1 .. Len(s) : i = 1 \/ (i - 1 \in 1 .. Len(s) - 1 /\ (i - 1) + 1 = i)
  BY <1>1
<1>3. \A i \in 1 .. Len(s) - 1 : i + 1 \in 1 .. Len(s)
  BY <1>1
<1>4. 1 \in 1 .. Len(s)
  BY <1>1
<1>5. Content(r) \cup {Head(s)} \subseteq Content(s)
  BY <1>1, <1>3, <1>4, Zenon DEF Content
<1>6. ASSUME NEW f \in Content(s) PROVE f \in Content(r) \cup {Head(s)}
  <2>1. PICK i \in 1 .. Len(s) : f = s[i]
    BY <1>1 DEF Content
  <2>2. CASE i = 1
    BY <1>1, <2>1, <2>2
  <2>3. CASE i # 1
    <3>1. i - 1 \in DOMAIN r /\ r[i - 1] = s[i]
      BY <1>1, <1>2, <2>3
    <3> QED
      BY <3>1, <2>1, Zenon DEF Content
  <2> QED
    BY <2>2, <2>3
<1> QED
  BY <1>1, <1>5, <1>6 DEF r

\* A queue without frames is the empty one.
LEMMA ContentEmpty ==
  ASSUME NEW s \in Seq(Frames)
  PROVE  Content(s) \subseteq Frames /\ (s = <<>> <=> Content(s) = {})
<1>1. DOMAIN s = 1 .. Len(s) /\ Len(s) \in Nat /\ (\A i \in 1 .. Len(s) : s[i] \in Frames)
  OBVIOUS
<1>2. s = <<>> <=> Len(s) = 0
  OBVIOUS
<1>3. Len(s) # 0 => 1 \in 1 .. Len(s)
  BY <1>1
<1>4. Len(s) = 0 => 1 .. Len(s) = {}
  BY <1>1
<1>5. Content(s) \subseteq Frames
  BY <1>1 DEF Content
<1>6. Content(s) # {} <=> DOMAIN s # {}
  BY DEF Content
<1> QED
  BY <1>1, <1>2, <1>3, <1>4, <1>5, <1>6

\* A frame put behind the others.
LEMMA OrderAppend ==
  ASSUME NEW s \in Seq(Frames), NEW f \in Frames, NEW A, NEW B
  PROVE  /\ Precede(s, A, B) /\ (f \in A => None(s, B) /\ f \notin B) => Precede(Append(s, f), A, B)
         /\ Once(s, A) /\ (f \in A => None(s, A)) => Once(Append(s, f), A)
         /\ ComesFirst(s, A, B) => ComesFirst(Append(s, f), A, B)
         /\ f \in A /\ f \notin B /\ None(s, B) => ComesFirst(Append(s, f), A, B)
<1> DEFINE r == Append(s, f)
           n == Len(s) + 1
<1>1. /\ DOMAIN r = 1 .. n /\ DOMAIN s = 1 .. Len(s) /\ Len(s) \in Nat
      /\ \A i \in 1 .. Len(s) : r[i] = s[i] /\ i \in 1 .. n
      /\ r[n] = f
  OBVIOUS
<1>2. \A i \in 1 .. n : (i \in 1 .. Len(s) /\ i < n) \/ i = n
  BY <1>1
<1>3. n \in 1 .. n /\ n \notin 1 .. Len(s) /\ (\A i \in 1 .. n : ~(n < i))
  BY <1>1
<1>9. \A h, i \in 1 .. n : i \in 1 .. Len(s) /\ h <= i => h \in 1 .. Len(s)
  BY <1>1
<1> HIDE DEF r, n
<1>4. \A i \in 1 .. Len(s) : s[i] \in Content(s)
  BY <1>1 DEF Content
<1>5. ASSUME Precede(s, A, B), f \in A => None(s, B) /\ f \notin B PROVE Precede(r, A, B)
  <2> SUFFICES ASSUME NEW g \in 1 .. n, NEW h \in 1 .. n, r[g] \in A, r[h] \in B PROVE g < h
    BY <1>1 DEF Precede
  <2>1. CASE g \in 1 .. Len(s) /\ h \in 1 .. Len(s)
    BY <1>1, <1>5, <2>1 DEF Precede
  <2>2. CASE g \in 1 .. Len(s) /\ h = n
    BY <1>1, <1>2, <1>3, <2>2
  <2>3. CASE g = n
    BY <1>1, <1>2, <1>4, <1>5, <2>3 DEF None
  <2> QED
    BY <1>2, <2>1, <2>2, <2>3
<1>6. ASSUME Once(s, A), f \in A => None(s, A) PROVE Once(r, A)
  <2> SUFFICES ASSUME NEW g \in 1 .. n, NEW h \in 1 .. n, r[g] \in A, r[h] \in A PROVE g = h
    BY <1>1 DEF Once
  <2> QED
    BY <1>1, <1>2, <1>4, <1>6 DEF Once, None
<1>7. ASSUME ComesFirst(s, A, B) PROVE ComesFirst(r, A, B)
  <2>1. PICK i \in 1 .. Len(s) : s[i] \in A /\ \A h \in 1 .. Len(s) : h <= i => s[h] \notin B
    BY <1>1, <1>7 DEF ComesFirst
  <2>2. \A h \in 1 .. n : h <= i => r[h] \notin B
    BY <1>1, <1>9, <2>1
  <2> QED
    BY <1>1, <2>1, <2>2 DEF ComesFirst
<1>8. ASSUME f \in A, f \notin B, None(s, B) PROVE ComesFirst(r, A, B)
  <2>1. \A h \in 1 .. n : r[h] \notin B
    BY <1>1, <1>2, <1>4, <1>8 DEF None
  <2> QED
    BY <1>1, <1>3, <1>8, <2>1 DEF ComesFirst
<1> QED
  BY <1>5, <1>6, <1>7, <1>8 DEF r

\* The frame in front taken away.
LEMMA OrderTail ==
  ASSUME NEW s \in Seq(Frames), s # <<>>, NEW A, NEW B
  PROVE  /\ Precede(s, A, B) => /\ Precede(Tail(s), A, B)
                                /\ Head(s) \in B => None(Tail(s), A)
         /\ Once(s, A) => Once(Tail(s), A) /\ (Head(s) \in A => None(Tail(s), A))
         /\ ComesFirst(s, A, B) => Head(s) \notin B /\ (Head(s) \notin A => ComesFirst(Tail(s), A, B))
<1> DEFINE r == Tail(s)
           n == Len(s) - 1
<1>1. /\ DOMAIN r = 1 .. n /\ DOMAIN s = 1 .. Len(s) /\ n \in Nat /\ Len(s) = n + 1
      /\ Head(s) = s[1]
      /\ \A i \in 1 .. n : r[i] = s[i + 1]
  OBVIOUS
<1>2. /\ 1 \in 1 .. Len(s)
      /\ \A i \in 1 .. n : i + 1 \in 1 .. Len(s) /\ ~(i + 1 < 1) /\ i + 1 # 1
      /\ \A i \in 1 .. Len(s) : 1 <= i /\ (i # 1 => i - 1 \in 1 .. n /\ (i - 1) + 1 = i)
      /\ \A g, h \in 1 .. n : g + 1 < h + 1 => g < h
      /\ \A g, h \in 1 .. n : g + 1 = h + 1 => g = h
  BY <1>1
<1>9. \A i \in 1 .. Len(s), h \in 1 .. n : i # 1 /\ h <= i - 1 => h + 1 <= i
  BY <1>1
<1> HIDE DEF r, n
<1>3. ASSUME Precede(s, A, B) PROVE Precede(r, A, B)
  <2> SUFFICES ASSUME NEW g \in 1 .. n, NEW h \in 1 .. n, r[g] \in A, r[h] \in B PROVE g < h
    BY <1>1 DEF Precede
  <2>1. g + 1 < h + 1
    BY <1>1, <1>2, <1>3 DEF Precede
  <2> QED
    BY <1>2, <2>1
<1>4. ASSUME Precede(s, A, B), Head(s) \in B, NEW f \in Content(r) PROVE f \notin A
  <2>1. PICK i \in 1 .. n : f = r[i]
    BY <1>1 DEF Content
  <2>2. f \in A => i + 1 < 1
    BY <1>1, <1>2, <1>4, <2>1 DEF Precede
  <2> QED
    BY <1>2, <2>2
<1>5. ASSUME Once(s, A) PROVE Once(r, A)
  <2> SUFFICES ASSUME NEW g \in 1 .. n, NEW h \in 1 .. n, r[g] \in A, r[h] \in A PROVE g = h
    BY <1>1 DEF Once
  <2>1. g + 1 = h + 1
    BY <1>1, <1>2, <1>5 DEF Once
  <2> QED
    BY <1>2, <2>1
<1>6. ASSUME Once(s, A), Head(s) \in A, NEW f \in Content(r) PROVE f \notin A
  <2>1. PICK i \in 1 .. n : f = r[i]
    BY <1>1 DEF Content
  <2>2. f \in A => i + 1 = 1
    BY <1>1, <1>2, <1>6, <2>1 DEF Once
  <2> QED
    BY <1>2, <2>2
<1>7. ASSUME ComesFirst(s, A, B)
      PROVE  Head(s) \notin B /\ (Head(s) \notin A => ComesFirst(r, A, B))
  <2>1. PICK i \in 1 .. Len(s) : s[i] \in A /\ \A h \in 1 .. Len(s) : h <= i => s[h] \notin B
    BY <1>1, <1>7 DEF ComesFirst
  <2>2. Head(s) \notin B
    BY <1>1, <1>2, <2>1
  <2>3. ASSUME Head(s) \notin A PROVE ComesFirst(r, A, B)
    <3>1. i # 1
      BY <1>1, <2>1, <2>3
    <3>2. i - 1 \in 1 .. n /\ r[i - 1] \in A
      BY <1>1, <1>2, <2>1, <3>1
    <3>3. \A h \in 1 .. n : h <= i - 1 => r[h] \notin B
      BY <1>1, <1>2, <1>9, <2>1, <3>1
    <3> QED
      BY <1>1, <3>2, <3>3 DEF ComesFirst
  <2> QED
    BY <2>2, <2>3
<1> QED
  BY <1>3, <1>4, <1>5, <1>6, <1>7 DEF r, None

\* Nothing is out of order in an empty queue, and what comes first is there.
LEMMA OrderEmpty ==
  ASSUME NEW s \in Seq(Frames), NEW A, NEW B
  PROVE  /\ s = <<>> => Precede(s, A, B) /\ Once(s, A) /\ None(s, A) /\ ~ComesFirst(s, A, B)
         /\ ComesFirst(s, A, B) => ~None(s, A)
         /\ None(s, A) => Once(s, A)
<1>1. DOMAIN s = 1 .. Len(s) /\ (s = <<>> => DOMAIN s = {})
  OBVIOUS
<1>2. \A i \in DOMAIN s : s[i] \in Content(s)
  BY DEF Content
<1>3. ComesFirst(s, A, B) => ~None(s, A)
  BY <1>2 DEF ComesFirst, None
<1>4. s = <<>> => Precede(s, A, B) /\ Once(s, A) /\ None(s, A) /\ ~ComesFirst(s, A, B)
  BY <1>1 DEF Precede, Once, None, ComesFirst, Content
<1>5. None(s, A) => Once(s, A)
  BY <1>2 DEF None, Once
<1> QED
  BY <1>3, <1>4, <1>5

-----------------------------------------------------------------------------
(* What a step of a thread can reach *)

\* The delays are long enough, seven bits hold every address, and beside its
\* REQUIRED a node has a mailbox for SUCCESS.
Timely == ReadyWait /\ RespondWait /\ N < AddrMod /\ Mailboxes > 1

ChainStep(j, k) ==
  /\ Timely /\ TypeOK /\ TypeOK'
  /\ j \in Nodes /\ k \in Nodes /\ j <= k /\ ChainInv(j, k)

\* Nothing of another node changes.
Same(m) ==
  /\ pc'[m] = pc[m] /\ ret'[m] = ret[m] /\ kc_state'[m] = kc_state[m]
  /\ kc_node_address'[m] = kc_node_address[m] /\ kc_bus_size'[m] = kc_bus_size[m]
  /\ already_addressed'[m] = already_addressed[m] /\ waiting'[m] = waiting[m]
  /\ filter1'[m] = filter1[m] /\ conn_prev'[m] = conn_prev[m]
  /\ daisy_in_pull'[m] = daisy_in_pull[m] /\ daisy_out'[m] = daisy_out[m]
  /\ mailboxes'[m] = mailboxes[m] /\ kc_recv_fifo'[m] = kc_recv_fifo[m]

\* A thread changes nothing of another node.
LEMMA OthersSame ==
  ASSUME TypeOK, NEW n \in Nodes, Thread(n), NEW m \in Nodes, m # n
  PROVE  Same(m) /\ powered' = powered
<1> USE DEF TypeOK, Same, Goto, Take, kc_event_emit, env, protocol, pins, bus
<1>1. CASE kc_init(n)
  BY <1>1 DEF kc_init
<1>2. CASE kc_request_addressing(n)
  BY <1>2 DEF kc_request_addressing
<1>3. CASE IgnoreRequired(n)
  BY <1>3 DEF IgnoreRequired
<1>4. CASE BeginAddressing(n)
  BY <1>4 DEF BeginAddressing, ForgetAddress
<1>5. CASE StartAddressing(n)
  BY <1>5 DEF StartAddressing
<1>6. CASE NodeFollows(n)
  BY <1>6 DEF NodeFollows
<1>7. CASE DriveDaisy(n)
  BY <1>7 DEF DriveDaisy
<1>8. CASE AddressNext(n)
  BY <1>8 DEF AddressNext
<1>9. CASE RespondDelay(n)
  BY <1>9 DEF RespondDelay
<1>10. CASE LastNode(n)
  BY <1>10 DEF LastNode
<1>11. CASE FinishAddressing(n)
  BY <1>11 DEF FinishAddressing, kc_address_end
<1>12. CASE GoOnline(n)
  BY <1>12 DEF GoOnline, ConfigureFilter1, can_configure_filter_bank
<1>13. CASE Poll(n)
  BY <1>13 DEF Poll
<1>14. CASE Retry(n)
  BY <1>14 DEF Retry
<1>15. CASE LoopDone(n)
  BY <1>15 DEF LoopDone
<1>16. CASE OnStart(n)
  BY <1>16 DEF OnStart
<1>17. CASE OnSuccess(n)
  BY <1>17 DEF OnSuccess, StopWaiting
<1>18. CASE OnOtherNext(n)
  BY <1>18 DEF OnOtherNext
<1>19. CASE OnFinished(n)
  BY <1>19 DEF OnFinished, kc_address_end
<1>20. CASE OnRequired(n)
  BY <1>20 DEF OnRequired
<1>21. CASE OnOnline(n)
  BY <1>21 DEF OnOnline
<1>22. CASE OnNext(n)
  BY <1>22 DEF OnNext, TakeAddress
<1>23. CASE OnNextCrowded(n)
  BY <1>23 DEF OnNextCrowded, TakeAddress
<1>24. CASE AnswerLate(n)
  BY <1>24 DEF AnswerLate
<1> QED
  BY <1>1, <1>2, <1>3, <1>4, <1>5, <1>6, <1>7, <1>8, <1>9, <1>10, <1>11,
     <1>12, <1>13, <1>14, <1>15, <1>16, <1>17, <1>18, <1>19, <1>20, <1>21, <1>22, <1>23, <1>24
     DEF Thread, AddressingStep, IncomingStep

\* What the rest of the proof looks at of a node.
SameView(m) ==
  /\ (m \in Running)' = (m \in Running) /\ (m \in Active)' = (m \in Active)
  /\ Addressed(m)' = Addressed(m) /\ Driven(m)' = Driven(m)
  /\ Finished(m)' = Finished(m) /\ Offering(m)' = Offering(m)
  /\ waiting'[m] = waiting[m] /\ Waits(m)' = Waits(m)

\* What the invariant says of a node it is Same for stays.
LEMMA SameSameView ==
  ASSUME NEW m \in Nodes, Same(m)
  PROVE  SameView(m)
BY DEF Same, SameView, Running, Active, Waits, Addressed, Driven, Finished, Offering

\* The parts of the invariant, one by one.
LEMMA Parts ==
  ASSUME NEW j, NEW k, ChainStep(j, k)
  PROVE  /\ Supplied(j, k)
         /\ \A n \in j .. k :
              /\ n \in Nodes
              /\ n \in Running => Local(j, k, n)
              /\ Places(j, k, n) /\ Sent(j, k, n) /\ Received(j, k, n)
              /\ OfferSent(k, n) /\ OfferEnds(n) /\ OpensFirstAtLast(j, k, n)
         /\ \A m, n \in j .. k : /\ OfferReceived(j, m, n) /\ SuccessComes(m, n)
                                 /\ OneOffer(j, m, n) /\ OpensFirst(j, m, n)
         /\ FirstUndisturbed(j, k)
BY ConstantsAssumption DEF ChainStep, ChainInv, Nodes

\* The queues of a node hold frames.
LEMMA Queues ==
  ASSUME TypeOK, NEW n \in Nodes
  PROVE  /\ mailboxes[n] \in Seq(Frames) /\ Content(mailboxes[n]) \subseteq Frames
         /\ kc_recv_fifo[n] \in Seq(Frames) /\ Content(kc_recv_fifo[n]) \subseteq Frames
BY ContentEmpty DEF TypeOK

\* What the frame in front of a node's FIFO says of the chain.
LEMMA HeadFrame ==
  ASSUME NEW j, NEW k, ChainStep(j, k), NEW n \in j .. k, n \in Running, kc_recv_fifo[n] # <<>>
  PROVE  LET h == Head(kc_recv_fifo[n]) IN
         /\ h \in Frames /\ h \in Content(kc_recv_fifo[n])
         /\ h \in Openings => ~Finished(n) /\ (n = k => ~Addressed(k))
         /\ h \in Finishes => /\ n # k /\ Addressed(k) /\ Addressed(n) /\ h.sender = Place(j, k)
                              /\ ~waiting[n]
<1> DEFINE h == Head(kc_recv_fifo[n])
           fifo == kc_recv_fifo[n]
<1>1. n \in Nodes /\ j \in Nodes /\ k \in Nodes /\ j \in Nat /\ k \in Nat /\ n \in Nat
  BY ConstantsAssumption DEF ChainStep, Nodes
<1>2. TypeOK
  BY DEF ChainStep
<1>3. h \in Frames /\ h \in Content(fifo) /\ fifo \in Seq(Frames)
  BY <1>1, <1>2, Queues, ContentTail
<1> HIDE DEF h
<1>4. h \in Openings => ~Finished(n) /\ (n = k => ~Addressed(k))
  BY <1>3, Parts DEF OpensFirstAtLast, None
<1>5. ASSUME h \in Finishes
      PROVE  /\ n # k /\ Addressed(k) /\ Addressed(n) /\ h.sender = Place(j, k)
             /\ ~waiting[n]
  <2>1. n # k /\ Addressed(k) /\ h.sender = Place(j, k)
    BY <1>3, <1>5, Parts DEF Received
  <2>2. n < k /\ n + 1 \in j .. k /\ k \in j .. k
    BY <1>1, <2>1 DEF ChainStep
  <2>3. Addressed(n) /\ Addressed(n + 1)
    BY <1>1, <2>1, <2>2, Parts DEF Places
  <2>4. ~waiting[n]
    <3>1. SuccessComes(n, n + 1)
      BY <2>2, Parts
    <3>2. ~ComesFirst(fifo, Successes, Finishes)
      BY <1>3, <1>5, OrderTail DEF h
    <3>3. ~None(fifo, Finishes)
      BY <1>3, <1>5 DEF None
    <3> QED
      BY <2>3, <3>1, <3>2, <3>3 DEF SuccessComes
  <2> QED
    BY <2>1, <2>3, <2>4
<1> QED
  BY <1>3, <1>4, <1>5 DEF h

\* A NEXT frame that a node takes for itself is that of the node before it.
LEMMA NextForMe ==
  ASSUME NEW j, NEW k, ChainStep(j, k), NEW n \in j .. k, pc[n] = "loop",
         kc_recv_fifo[n] # <<>>, Head(kc_recv_fifo[n]) \in Nexts, IsAddressed(n)
  PROVE  /\ j < n /\ n - 1 \in j .. k /\ ~Addressed(n) /\ Addressed(n - 1)
         /\ Head(kc_recv_fifo[n]) = NextFrom(j, n - 1)
         /\ Driven(n - 1) /\ ~Passed(n - 1)
<1> DEFINE h == Head(kc_recv_fifo[n])
<1>1. n \in Nodes /\ j \in Nodes /\ k \in Nodes /\ j \in Nat /\ k \in Nat /\ n \in Nat /\ j <= n /\ n <= k
  BY ConstantsAssumption DEF ChainStep, Nodes
<1>2. n \in Running
  BY <1>1 DEF Running, Down
<1>3. h \in Content(kc_recv_fifo[n])
  BY <1>2, HeadFrame
<1> HIDE DEF h
<1>4. PICK m \in j .. k : m < k /\ Addressed(m) /\ h = NextFrom(j, m)
  BY <1>3, Parts DEF Received, h
<1>5. Local(j, k, n) /\ Places(j, k, n)
  BY <1>2, Parts
<1>6. ~Finished(n) => kc_state[n] = "ADDRESSING" /\ daisy_in_pull[n] = "up"
  BY <1>5 DEF Local, Finished
<1>7. n # j
  <2> SUFFICES ASSUME n = j PROVE FALSE
    OBVIOUS
  <2>1. ~Finished(j)
    BY <1>2, <1>3, Parts DEF FirstUndisturbed, None, h
  <2>2. j > 1 => j - 1 \in Nodes /\ j - 1 \notin j .. k
    BY <1>1, ConstantsAssumption DEF Nodes
  <2>3. j > 1 => j - 1 \in Nodes /\ pc[j - 1] = "off"
    BY <2>2, Parts DEF Supplied
  <2>4. j > 1 => daisy_out[j - 1].mode # "output"
    BY <2>3, Parts DEF Supplied, Blank, Driven
  <2> QED
    BY <1>6, <2>1, <2>4 DEF IsAddressed, DaisyIn
<1>8. ~Addressed(n) /\ ~Finished(n)
  BY <1>5, <1>7 DEF Places, IsAddressed
<1>9. Driven(n - 1)
  BY <1>6, <1>8 DEF IsAddressed, DaisyIn, Driven
<1>10. n - 1 \in j .. k /\ n - 1 \in Nodes /\ n - 1 \in Nat /\ m \in Nat /\ m \in Nodes
  BY <1>1, <1>7, <1>4, ConstantsAssumption DEF Nodes
<1>11. Addressed(n - 1)
  BY <1>9, <1>10, Parts DEF Places
<1>12. ~Passed(m) /\ Driven(m)
  BY <1>2, <1>3, <1>4, <1>8, Parts DEF OfferReceived
<1>13. ~(n - 1 > m)
  BY <1>9, <1>10, <1>12 DEF Passed
<1>14. ~(n < m) /\ n # m
  BY <1>4, <1>8, Parts DEF Places
<1>15. m = n - 1
  BY <1>1, <1>10, <1>13, <1>14
<1> QED
  BY <1>1, <1>4, <1>7, <1>8, <1>9, <1>10, <1>11, <1>12, <1>15 DEF h

-----------------------------------------------------------------------------
(* The node that moves *)

\* What its step leaves of Places.
Moved(j, k, n) ==
  /\ Addressed(n) => kc_node_address'[n] = kc_node_address[n]
  /\ Addressed(n)' /\ ~Addressed(n) =>
       /\ kc_node_address'[n] = Place(j, n)
       /\ n # j => n - 1 \in j .. k /\ Addressed(n - 1)
  /\ already_addressed'[n] <=> Addressed(n)' /\ n # j
  /\ Driven(n)' => Addressed(n) /\ n < k
  /\ waiting'[n] => Addressed(n)' /\ n < k /\ ~Finished(n)'
  /\ Finished(n)' => Addressed(n)' /\ (n = k \/ Addressed(k)) /\ kc_bus_size'[n] = Place(j, k)
  /\ kc_state'[n] = "READY" => filter1'[n] = kc_node_address'[n]

\* Who takes a step of its thread: a supplied node, which runs afterwards.
LEMMA Mover ==
  ASSUME NEW j, NEW k, ChainStep(j, k), NEW n \in Nodes, Thread(n)
  PROVE  /\ n \in j .. k
         /\ n \in Running' /\ (pc[n] # "reset" => n \in Running)
         /\ pc[n] = "reset" => kc_init(n) /\ Blank(n)
<1>1. pc[n] \notin {"off", "halted"} /\ (pc[n] = "reset" => kc_init(n))
  BY DEF ChainStep, TypeOK, Thread, AddressingStep, IncomingStep, kc_init, kc_request_addressing,
         IgnoreRequired,
         BeginAddressing, StartAddressing, NodeFollows, DriveDaisy, AddressNext, RespondDelay,
         LastNode, FinishAddressing, GoOnline, Poll, Retry, LoopDone, Take, OnStart, OnSuccess,
         OnOtherNext, OnFinished, OnRequired, OnOnline, OnNext,
         OnNextCrowded, AnswerLate, TakeAddress
<1>2. pc'[n] \notin Down
  <2>1. ret[n] \in Returns /\ pc \in [Nodes -> Labels]
    BY DEF ChainStep, TypeOK
  <2> QED
    BY <2>1
    DEF Thread, AddressingStep, IncomingStep, kc_init, kc_request_addressing, IgnoreRequired,
         BeginAddressing, StartAddressing, NodeFollows, DriveDaisy, AddressNext, RespondDelay,
         LastNode, FinishAddressing, kc_address_end, GoOnline, Poll, Retry, LoopDone, Take,
         OnStart, OnSuccess, OnOtherNext, OnFinished, OnRequired, OnOnline, OnNext,
         OnNextCrowded, AnswerLate, TakeAddress, Goto, Down, Returns
<1> QED
  BY <1>1, <1>2, Parts DEF Supplied, Running, Down

\* What kc_event_emit hands to a mailbox.
LEMMA Emitted ==
  ASSUME TypeOK, NEW n \in Nodes, NEW ev \in Events, NEW a \in Addresses, kc_event_emit(n, ev, a)
  PROVE  \E f \in Frames : /\ f.event = ev /\ f.sender = a % AddrMod
                           /\ mailboxes'[n] = Append(mailboxes[n], f)
<1> DEFINE f == [event |-> ev, sender |-> a % AddrMod]
<1>1. f \in Frames /\ f.event = ev /\ f.sender = a % AddrMod
  BY SenderField DEF Frames
<1>2. mailboxes'[n] = Append(mailboxes[n], f)
  BY DEF TypeOK, kc_event_emit
<1> HIDE DEF f
<1> QED
  BY <1>1, <1>2

\* The node that takes an address has sent REQUIRED at most: SUCCESS finds a mailbox.
LEMMA RoomForAnswer ==
  ASSUME NEW j, NEW k, ChainStep(j, k), NEW n \in Nodes, Thread(n)
  PROVE  ~OnNextCrowded(n) /\ ~AnswerLate(n)
<1>1. n \in j .. k /\ (pc[n] # "reset" => Local(j, k, n))
  BY Mover, Parts
<1>2. ~AnswerLate(n)
  BY <1>1 DEF AnswerLate, Local
<1>3. ASSUME OnNextCrowded(n) PROVE FALSE
  <2>1. pc[n] = "loop" /\ kc_recv_fifo[n] # <<>> /\ Head(kc_recv_fifo[n]).event = "NEXT" /\ IsAddressed(n)
    BY <1>3 DEF OnNextCrowded, TakeAddress, Take
  <2>2. Head(kc_recv_fifo[n]) \in Nexts
    BY <1>1, <2>1, Mover, HeadFrame DEF Nexts
  <2>3. ~Addressed(n)
    BY <1>1, <2>1, <2>2, NextForMe
  <2>4. Len(mailboxes[n]) <= 1
    BY <1>1, <2>1, <2>3 DEF Local
  <2>5. Len(mailboxes[n]) = Mailboxes /\ Mailboxes > 1 /\ Mailboxes \in Nat
    BY <1>3, ConstantsAssumption DEF OnNextCrowded, ChainStep, Timely
  <2> QED
    BY <2>4, <2>5
<1> QED
  BY <1>2, <1>3

\* Each handler leaves its node in a place the invariant knows.
LEMMA LocalStep ==
  ASSUME NEW j, NEW k, ChainStep(j, k), NEW n \in Nodes, Thread(n)
  PROVE  Local(j, k, n)' /\ Moved(j, k, n)
<1> DEFINE Goal == Local(j, k, n)' /\ Moved(j, k, n)
<1>a. /\ n \in j .. k /\ j \in Nodes /\ k \in Nodes /\ j \in Nat /\ k \in Nat /\ n \in Nat
      /\ j <= n /\ n <= k /\ j >= 1 /\ k <= N /\ N \in Nat
  BY Mover, ConstantsAssumption DEF ChainStep, Nodes
<1>b. Places(j, k, n) /\ (pc[n] # "reset" => Local(j, k, n))
  BY <1>a, Mover, Parts
<1>c. TypeOK /\ ret[n] \in Returns /\ kc_state[n] \in States
  BY DEF ChainStep, TypeOK
<1>d. /\ kc_in_connected(n) = (n # j)
      /\ kc_out_connected(n) = (n < k)
  BY <1>a, Parts DEF Supplied, kc_in_connected, kc_out_connected
<1>e. /\ powered' = powered
      /\ kc_in_connected(n)' = (n # j)
      /\ kc_out_connected(n)' = (n < k)
  <2>1. powered' = powered
    BY DEF Thread, AddressingStep, IncomingStep, kc_init, kc_request_addressing, IgnoreRequired,
         BeginAddressing, StartAddressing, NodeFollows, DriveDaisy, AddressNext, RespondDelay,
         LastNode, FinishAddressing, GoOnline, Poll, Retry, LoopDone,
         OnStart, OnSuccess, OnOtherNext, OnFinished, OnRequired, OnOnline, OnNext,
         OnNextCrowded, AnswerLate, TakeAddress, env
  <2> QED
    BY <1>d, <2>1 DEF kc_in_connected, kc_out_connected
<1>f. pc[n] = "loop" /\ kc_recv_fifo[n] # <<>> /\ Head(kc_recv_fifo[n]) \in Nexts /\ IsAddressed(n) =>
        /\ j < n /\ n - 1 \in j .. k /\ ~Addressed(n) /\ Addressed(n - 1)
        /\ Head(kc_recv_fifo[n]) = NextFrom(j, n - 1)
  BY <1>a, NextForMe
<1>g. ~OnNextCrowded(n) /\ ~AnswerLate(n)
  BY RoomForAnswer
<1>h. kc_event_emit(n, "REQUIRED", kc_node_address[n]) =>
        \E f \in Frames : mailboxes'[n] = Append(mailboxes[n], f)
  <2>1. kc_node_address[n] \in Addresses /\ "REQUIRED" \in Events
    BY <1>c DEF TypeOK, Events
  <2> QED
    BY <1>c, <2>1, Emitted
<1> USE <1>a, <1>b, <1>c, <1>d, <1>e
    DEF Local, Moved, Places, Addressed, Driven, Finished, Offering, Goto, TypeOK, Returns,
        env, protocol, pins, bus
<1>1. CASE kc_init(n)
  <2>1. Blank(n)
    BY <1>1, Parts DEF Supplied, kc_init
  <2> QED
    BY <1>1, <2>1 DEF kc_init, Blank
<1>2. CASE kc_request_addressing(n)
  <2>1. \E f \in Frames : mailboxes'[n] = Append(mailboxes[n], f)
    BY <1>2, <1>h DEF kc_request_addressing
  <2>2. mailboxes[n] = <<>>
    BY <1>2 DEF kc_request_addressing
  <2>3. Len(mailboxes'[n]) = 1
    BY <2>1, <2>2
  <2> QED
    BY <1>2, <2>3 DEF kc_request_addressing
<1>3. CASE IgnoreRequired(n)
  BY <1>3 DEF IgnoreRequired
<1>4. CASE BeginAddressing(n)
  BY <1>4 DEF BeginAddressing, ForgetAddress, States
<1>5. CASE StartAddressing(n)
  BY <1>5 DEF StartAddressing, Place
<1>6. CASE NodeFollows(n)
  BY <1>6 DEF NodeFollows
<1>7. CASE DriveDaisy(n)
  BY <1>7 DEF DriveDaisy
<1>8. CASE AddressNext(n)
  BY <1>8 DEF AddressNext
<1>9. CASE RespondDelay(n)
  BY <1>9 DEF RespondDelay
<1>10. CASE LastNode(n)
  <2>1. ~(n < k)
    BY <1>10, <1>d DEF LastNode
  <2>2. pc[n] = "next" /\ pc' = [pc EXCEPT ![n] = "finish"]
    BY <1>10 DEF LastNode
  <2>3. n = k
    BY <2>1, <1>a
  <2> QED
    BY <1>10, <2>2, <2>3 DEF LastNode
<1>11. CASE FinishAddressing(n)
  BY <1>11 DEF FinishAddressing, kc_address_end
<1>12. CASE GoOnline(n)
  BY <1>12 DEF GoOnline, ConfigureFilter1, can_configure_filter_bank
<1>13. CASE Poll(n)
  <2>1. ~ConnChanged(n)
    BY <1>13 DEF Poll, ConnChanged
  <2> QED
    BY <1>13, <2>1 DEF Poll
<1>14. CASE Retry(n)
  BY <1>14 DEF Retry
<1>15. CASE LoopDone(n)
  BY <1>15 DEF LoopDone
<1>16. CASE OnStart(n)
  <2>1. ~Finished(n)
    BY <1>16, Mover, HeadFrame DEF OnStart, Take, Openings
  <2> QED
    BY <1>16, <2>1 DEF OnStart, Take
<1>17. CASE OnSuccess(n)
  BY <1>17 DEF OnSuccess, StopWaiting, Take
<1>18. CASE OnOtherNext(n)
  BY <1>18 DEF OnOtherNext, Take
<1>19. CASE OnFinished(n)
  <2>1. LET h == Head(kc_recv_fifo[n]) IN
        Addressed(k) /\ Addressed(n) /\ h.sender = Place(j, k) /\ ~waiting[n]
    BY <1>19, Mover, HeadFrame DEF OnFinished, Take, Finishes
  <2> QED
    BY <1>19, <2>1 DEF OnFinished, Take, kc_address_end
<1>20. CASE OnRequired(n)
  <2>1. ~Finished(n)
    BY <1>20, Mover, HeadFrame DEF OnRequired, Take, Openings
  <2> QED
    BY <1>20, <2>1 DEF OnRequired, Take
<1>21. CASE OnOnline(n)
  BY <1>21 DEF OnOnline, Take
<1>22. CASE OnNext(n)
  <2>1. Head(kc_recv_fifo[n]) \in Nexts /\ kc_recv_fifo[n] # <<>> /\ pc[n] = "loop" /\ IsAddressed(n)
    BY <1>22, Mover, HeadFrame DEF OnNext, TakeAddress, Take, Nexts
  <2>2. /\ j < n /\ n - 1 \in j .. k /\ ~Addressed(n) /\ Addressed(n - 1)
        /\ Head(kc_recv_fifo[n]) = NextFrom(j, n - 1)
    BY <2>1, <1>f
  <2>3. NextAddress(Head(kc_recv_fifo[n])) = Place(j, n) /\ Place(j, n) # 0
    BY <2>2 DEF NextFrom, Place, NextAddress
  <2>4. /\ kc_node_address' = [kc_node_address EXCEPT ![n] = Place(j, n)]
        /\ already_addressed' = [already_addressed EXCEPT ![n] = TRUE]
        /\ pc' = [pc EXCEPT ![n] = "next"]
        /\ UNCHANGED <<ret, kc_state, kc_bus_size, waiting, filter1, conn_prev, pins>>
    BY <1>22, <2>3 DEF OnNext, TakeAddress
  <2> QED
    BY <2>1, <2>2, <2>3, <2>4
<1> QED
  BY <1>g, <1>1, <1>2, <1>3, <1>4, <1>5, <1>6, <1>7, <1>8, <1>9, <1>10, <1>11,
     <1>12, <1>13, <1>14, <1>15, <1>16, <1>17, <1>18, <1>19, <1>20, <1>21, <1>22
     DEF Thread, AddressingStep, IncomingStep

\* A step of a thread keeps the parts about places on the chain.
LEMMA ThreadPlaces ==
  ASSUME NEW j, NEW k, ChainStep(j, k), NEW n \in Nodes, Thread(n)
  PROVE  /\ Supplied(j, k)'
         /\ \A m \in j .. k : (m \in Running' => Local(j, k, m)') /\ Places(j, k, m)'
<1>1. /\ n \in j .. k /\ j \in Nodes /\ k \in Nodes /\ j \in Nat /\ k \in Nat /\ n \in Nat
      /\ k \in j .. k /\ TypeOK
  BY Mover, ConstantsAssumption DEF ChainStep, Nodes
<1>2. Local(j, k, n)' /\ Moved(j, k, n)
  BY LocalStep
<1>3. \A m \in Nodes : m # n => Same(m) /\ powered' = powered
  BY <1>1, OthersSame
<1>4. powered' = powered
  BY DEF Thread, AddressingStep, IncomingStep, kc_init, kc_request_addressing, IgnoreRequired,
         BeginAddressing, StartAddressing, NodeFollows, DriveDaisy, AddressNext, RespondDelay,
         LastNode, FinishAddressing, GoOnline, Poll, Retry, LoopDone,
         OnStart, OnSuccess, OnOtherNext, OnFinished, OnRequired, OnOnline, OnNext,
         OnNextCrowded, AnswerLate, TakeAddress, env
<1>5. \A m \in Nodes : m # n => SameView(m)
  BY <1>3, SameSameView
<1>6. \A m \in j .. k : Addressed(m) => Addressed(m)'
  BY <1>2, <1>5, Parts DEF Moved, Addressed, SameView
<1>7. Supplied(j, k)'
  <2>1. pc'[n] \notin Down
    BY <1>1, Mover DEF Running
  <2>2. ASSUME NEW m \in Nodes, m # n
        PROVE  (m \notin j .. k <=> pc'[m] = "off") /\ (pc'[m] \in {"off", "reset"} => Blank(m)')
    BY <1>3, <2>2, Parts DEF Supplied, Same, Blank, Driven
  <2> QED
    BY <1>1, <1>4, <2>1, <2>2, Parts DEF Supplied, Down
<1>8. ASSUME NEW m \in j .. k, m \in Running' PROVE Local(j, k, m)'
  <2>1. CASE m = n
    BY <1>2, <2>1
  <2>2. CASE m # n
    <3>1. m \in Nodes /\ Same(m) /\ m \in Running
      BY <1>3, <1>5, <1>8, <2>2, Parts DEF SameView
    <3>2. Local(j, k, m)
      BY <3>1, Parts
    <3> QED
      BY <1>4, <3>1, <3>2 DEF Local, Same, Offering, Addressed, Driven, kc_in_connected, kc_out_connected
  <2> QED
    BY <2>1, <2>2
<1>9. ASSUME NEW m \in j .. k PROVE Places(j, k, m)'
  <2>1. CASE m = n
    <3>1. ASSUME Addressed(n)', NEW i \in j .. k, i < n PROVE Addressed(i)'
      <4>1. Addressed(n) => Addressed(i)
        BY <1>1, <3>1, Parts DEF Places
      <4>2. ~Addressed(n) => n - 1 \in j .. k /\ Addressed(n - 1)
        BY <1>1, <1>2, <3>1 DEF Moved
      <4>3. ~Addressed(n) => i = n - 1 \/ i < n - 1
        BY <1>1, <3>1
      <4>4. ~Addressed(n) => Addressed(i)
        BY <4>2, <4>3, Parts DEF Places
      <4> QED
        BY <1>6, <4>1, <4>4
    <3>2. /\ Addressed(n)' => kc_node_address'[n] = Place(j, n)
          /\ Finished(n)' => Addressed(k)'
      BY <1>1, <1>2, <1>6, Parts DEF Moved, Places, Addressed
    <3>3. Driven(n)' => Addressed(n)'
      BY <1>1, <1>2, <1>6 DEF Moved
    <3> QED
      BY <1>2, <2>1, <3>1, <3>2, <3>3 DEF Moved, Places, Place
  <2>2. CASE m # n
    <3>1. m \in Nodes /\ Same(m) /\ SameView(m) /\ Places(j, k, m)
      BY <1>3, <1>5, <2>2, Parts
    <3>2. \A i \in j .. k : Addressed(m)' /\ i < m => Addressed(i)'
      BY <1>6, <3>1 DEF Places, SameView
    <3> QED
      BY <1>1, <1>6, <3>1, <3>2 DEF Places, Same, SameView, Addressed, Place
  <2> QED
    BY <2>1, <2>2
<1> QED
  BY <1>7, <1>8, <1>9

-----------------------------------------------------------------------------
(* Steps that make no offer *)

\* The parts of the invariant that are about frames and offers.
Offers(j, k) ==
  /\ \A n \in j .. k : /\ Sent(j, k, n) /\ Received(j, k, n)
                       /\ OfferSent(k, n) /\ OfferEnds(n) /\ OpensFirstAtLast(j, k, n)
  /\ \A m, n \in j .. k : /\ OfferReceived(j, m, n) /\ SuccessComes(m, n)
                          /\ OneOffer(j, m, n) /\ OpensFirst(j, m, n)
  /\ FirstUndisturbed(j, k)

\* Node n goes on, sends a frame that is neither NEXT nor SUCCESS, takes a frame,
\* or ends the procedure for itself.
Settles(j, k, n) ==
  /\ n \in Running /\ n \in Running'
  /\ Addressed(n)' = Addressed(n)
  /\ Driven(n)' => Driven(n)
  /\ Driven(n) /\ ~Driven(n)' => Addressed(k)
  /\ waiting'[n] => waiting[n]
  /\ Offering(n)' => Offering(n)
  /\ pc[n] # "respond"
  /\ \/ mailboxes'[n] = mailboxes[n]
     \/ \E f \in Frames : /\ mailboxes'[n] = Append(mailboxes[n], f)
                          /\ f \notin Nexts /\ f \notin Successes
                          /\ f \in Openings => ~Addressed(n)
                          /\ f \in Finishes => n = k /\ Addressed(k) /\ f.sender = Place(j, k)
  /\ \/ kc_recv_fifo'[n] = kc_recv_fifo[n]
     \/ /\ kc_recv_fifo[n] # <<>> /\ kc_recv_fifo'[n] = Tail(kc_recv_fifo[n])
        /\ Head(kc_recv_fifo[n]) \in Successes => ~waiting'[n] /\ ~Offering(n)'
  /\ Finished(n)' /\ ~Finished(n) =>
       \/ n = k /\ Addressed(k)
       \/ /\ kc_recv_fifo[n] # <<>> /\ kc_recv_fifo'[n] = Tail(kc_recv_fifo[n])
          /\ Head(kc_recv_fifo[n]) \in Finishes

\* What a NEXT frame in a FIFO says of its sender.
LEMMA NextSender ==
  ASSUME NEW j, NEW k, ChainStep(j, k), NEW m \in j .. k, NEW n \in j .. k,
         NextFrom(j, m) \in Content(kc_recv_fifo[n])
  PROVE  Addressed(m) /\ m < k
<1>1. j \in Nat /\ k \in Nat /\ m \in Nat /\ n \in Nat /\ n \in Nodes /\ TypeOK
  BY ConstantsAssumption, Parts DEF ChainStep, Nodes
<1>2. NextFrom(j, m) \in Nexts
  BY <1>1, Queues DEF Nexts, NextFrom
<1>3. PICK i \in j .. k : i < k /\ Addressed(i) /\ NextFrom(j, m) = NextFrom(j, i)
  BY <1>2, Parts DEF Received
<1>4. Place(j, m) = Place(j, i)
  BY <1>3 DEF NextFrom
<1>5. m = i
  BY <1>1, <1>4 DEF Place
<1> QED
  BY <1>3, <1>5

\* A chain whose last node is addressed is addressed as a whole.
LEMMA LastIsAddressed ==
  ASSUME NEW j, NEW k, ChainStep(j, k), NEW n \in j .. k
  PROVE  /\ Addressed(k) => Addressed(n)
         /\ Finished(n) \/ ~None(kc_recv_fifo[n], Finishes) => Addressed(k)
         /\ \A m \in j .. k : m < n /\ Addressed(n) => Addressed(m)
<1>1. j \in Nat /\ k \in Nat /\ n \in Nat /\ k \in j .. k /\ (n < k \/ n = k)
  BY ConstantsAssumption, Parts DEF ChainStep, Nodes
<1>2. Addressed(k) => Addressed(n)
  BY <1>1, Parts DEF Places
<1>3. Finished(n) \/ ~None(kc_recv_fifo[n], Finishes) => Addressed(k)
  BY Parts DEF Places, Received, None
<1> QED
  BY <1>2, <1>3, Parts DEF Places

\* A step that settles disturbs no offer.
LEMMA SettlesKeeps ==
  ASSUME NEW j, NEW k, ChainStep(j, k), NEW n \in j .. k, Settles(j, k, n),
         \A m \in Nodes : m # n => Same(m)
  PROVE  Offers(j, k)'
<1>1. /\ j \in Nat /\ k \in Nat /\ n \in Nat /\ k \in j .. k /\ n \in Nodes /\ j \in j .. k
      /\ TypeOK /\ TypeOK' /\ j <= n /\ n <= k
      /\ \A m \in j .. k : m \in Nodes /\ m \in Nat
  BY ConstantsAssumption, Parts DEF ChainStep, Nodes
<1>2. \A m \in Nodes : m # n => Same(m) /\ SameView(m)
  BY SameSameView
<1>3. \A m \in Nodes : /\ Addressed(m)' = Addressed(m)
                       /\ Driven(m)' => Driven(m)
                       /\ (m \in Running)' = (m \in Running)
                       /\ (m \in Active)' = (m \in Active) /\ (Waits(m) => Waits(m)')
                       /\ waiting'[m] => waiting[m]
                       /\ Offering(m)' => Offering(m)
  BY <1>2 DEF Settles, SameView, Running, Active, Waits, Down
<1>4. \A m \in Nodes : Passed(m)' => Passed(m)
  BY <1>3 DEF Passed
<1>5. \A m \in j .. k : ~Addressed(k) /\ Driven(m) => Driven(m)'
  BY <1>1, <1>2 DEF Settles, SameView
<1>6. \A m \in j .. k : /\ mailboxes[m] \in Seq(Frames) /\ Content(mailboxes[m]) \subseteq Frames
                        /\ kc_recv_fifo[m] \in Seq(Frames) /\ Content(kc_recv_fifo[m]) \subseteq Frames
  BY <1>1, Queues
\* the queues of n
<1>7. \A f \in Content(mailboxes'[n]) :
        \/ f \in Content(mailboxes[n])
        \/ /\ f \notin Nexts /\ f \notin Successes
           /\ f \in Openings => ~Addressed(n)
           /\ f \in Finishes => n = k /\ Addressed(k) /\ f.sender = Place(j, k)
  <2>1. CASE mailboxes'[n] = mailboxes[n]
    BY <2>1
  <2>2. CASE mailboxes'[n] # mailboxes[n]
    <3>1. PICK f \in Frames : /\ mailboxes'[n] = Append(mailboxes[n], f)
                              /\ f \notin Nexts /\ f \notin Successes
                              /\ f \in Openings => ~Addressed(n)
                              /\ f \in Finishes => n = k /\ Addressed(k) /\ f.sender = Place(j, k)
      BY <2>2 DEF Settles
    <3>2. Content(mailboxes'[n]) = Content(mailboxes[n]) \cup {f}
      BY <1>6, <3>1, ContentAppend
    <3> QED
      BY <3>1, <3>2
  <2> QED
    BY <2>1, <2>2
<1>8. \A m \in j .. k : Content(kc_recv_fifo'[m]) \subseteq Content(kc_recv_fifo[m])
  <2>1. Content(kc_recv_fifo'[n]) \subseteq Content(kc_recv_fifo[n])
    BY <1>6, ContentTail DEF Settles
  <2> QED
    BY <1>1, <1>2, <2>1 DEF Same
<1>9. \A m \in j .. k : m # n => mailboxes'[m] = mailboxes[m] /\ kc_recv_fifo'[m] = kc_recv_fifo[m]
  BY <1>1, <1>2 DEF Same
<1>10. \A m \in j .. k, f \in Nexts \cup Successes :
         f \in Content(mailboxes'[m]) => f \in Content(mailboxes[m])
  BY <1>7, <1>9
<1>11. \A m \in j .. k : ~None(mailboxes'[m], Nexts) => ~None(mailboxes[m], Nexts)
  BY <1>10 DEF None
<1>12. ASSUME NEW m \in j .. k, ComesFirst(mailboxes[m], Successes, Finishes)
       PROVE  ComesFirst(mailboxes'[m], Successes, Finishes)
  BY <1>6, <1>9, <1>12, OrderAppend DEF Settles
<1>13. ASSUME NEW m \in j .. k, ComesFirst(kc_recv_fifo[m], Successes, Finishes), waiting'[m] \/ Offering(m)'
       PROVE  ComesFirst(kc_recv_fifo'[m], Successes, Finishes)
  BY <1>6, <1>9, <1>13, OrderTail DEF Settles
<1>14. ASSUME NEW m \in j .. k, NEW A, NEW B, Precede(kc_recv_fifo[m], A, B)
       PROVE  Precede(kc_recv_fifo'[m], A, B)
  BY <1>6, <1>9, <1>14, OrderTail DEF Settles
<1>15. ASSUME NEW m \in j .. k, NEW A, None(kc_recv_fifo[m], A) PROVE None(kc_recv_fifo'[m], A)
  BY <1>8, <1>15 DEF None
<1>20. ASSUME NEW m \in j .. k PROVE Sent(j, k, m)' /\ Received(j, k, m)'
  <2>1. Sent(j, k, m)'
    BY <1>1, <1>3, <1>7, <1>9, <1>20, Parts DEF Sent, NextFrom, Place
  <2>2. Received(j, k, m)'
    BY <1>1, <1>3, <1>8, <1>20, Parts DEF Received, NextFrom, Place
  <2> QED
    BY <2>1, <2>2
<1>21. ASSUME NEW m \in j .. k PROVE OfferSent(k, m)'
  BY <1>1, <1>3, <1>4, <1>5, <1>11, Parts DEF OfferSent
<1>22. ASSUME NEW m \in j .. k PROVE OfferEnds(m)'
  BY <1>1, <1>3, <1>4, <1>13, Parts DEF OfferEnds
<1>23. ASSUME NEW m \in j .. k, NEW i \in j .. k PROVE OfferReceived(j, m, i)'
  <2>1. ~Addressed(i) => ~Addressed(k)
    BY LastIsAddressed
  <2>2. NextFrom(j, m)' = NextFrom(j, m)
    BY DEF NextFrom, Place
  <2> QED
    BY <1>1, <1>3, <1>4, <1>5, <1>8, <2>1, <2>2, Parts DEF OfferReceived
<1>24. ASSUME NEW m \in j .. k, NEW i \in j .. k PROVE SuccessComes(m, i)'
  BY <1>1, <1>3, <1>12, <1>13, <1>15, Parts DEF SuccessComes
<1>25. ASSUME NEW m \in j .. k, NEW i \in j .. k PROVE OneOffer(j, m, i)'
  <2> SUFFICES ASSUME j \in Active', m \in Active', j < m, i = m + 1
               PROVE  /\ Once(mailboxes'[m], Nexts)
                      /\ ~None(mailboxes'[m], Nexts) => Waits(m)' /\ ~Addressed(i)'
                      /\ i \in Running' /\ ~Addressed(i)' /\ NextFrom(j, m) \in Content(kc_recv_fifo'[i]) =>
                           Waits(m)' /\ None(mailboxes'[m], Nexts)
                      /\ Offering(m)' => ~Addressed(i)'
                      /\ waiting'[m] /\ Addressed(i)' /\ ~Waits(m)'
                           => ~None(kc_recv_fifo'[m], Successes)
    BY DEF OneOffer, NextFrom, Place
  <2>1. OneOffer(j, m, i) /\ j \in Active /\ m \in Active
    BY <1>1, <1>3, Parts
  <2>2. Once(mailboxes'[m], Nexts)
    BY <1>6, <1>9, <2>1, OrderAppend DEF OneOffer, Settles
  <2>3. Waits(m) => Waits(m)'
    BY <1>1, <1>3
  <2>4. /\ ~None(mailboxes'[m], Nexts) => Waits(m)' /\ ~Addressed(i)'
        /\ Offering(m)' => ~Addressed(i)'
    BY <1>1, <1>3, <1>11, <2>1, <2>3 DEF OneOffer
  <2>5. i \in Running' /\ ~Addressed(i)' /\ NextFrom(j, m) \in Content(kc_recv_fifo'[i]) =>
          Waits(m)' /\ None(mailboxes'[m], Nexts)
    BY <1>1, <1>3, <1>8, <1>11, <2>1, <2>3 DEF OneOffer
  <2>6. ASSUME waiting'[m], Addressed(i)', ~Waits(m)' PROVE ~None(kc_recv_fifo'[m], Successes)
    <3>1. ~None(kc_recv_fifo[m], Successes)
      BY <1>1, <1>3, <2>1, <2>3, <2>6 DEF OneOffer
    <3>2. CASE m # n
      BY <1>9, <3>1, <3>2
    <3>3. CASE m = n
      BY <1>6, <2>6, <3>1, <3>3, ContentTail DEF Settles, None
    <3> QED
      BY <3>2, <3>3
  <2> QED
    BY <2>2, <2>4, <2>5, <2>6
<1>26. FirstUndisturbed(j, k)'
  <2> SUFFICES ASSUME j \in Running' PROVE
         /\ Precede(kc_recv_fifo'[j], Nexts, Finishes)
         /\ Finished(j)' => None(kc_recv_fifo'[j], Nexts)
         /\ j = k => kc_recv_fifo'[j] = <<>>
    BY DEF FirstUndisturbed
  <2>1. FirstUndisturbed(j, k) /\ j \in Running
    BY <1>1, <1>3, Parts
  <2>2. j = k => kc_recv_fifo'[j] = <<>>
    BY <1>1, <1>9, <2>1 DEF FirstUndisturbed, Settles
  <2>3. ASSUME Finished(j)', ~Finished(j) PROVE None(kc_recv_fifo'[j], Nexts)
    <3>1. j = n
      BY <1>1, <1>2, <2>3 DEF SameView
    <3>2. CASE j = k
      BY <1>1, <2>2, <3>2, OrderEmpty DEF TypeOK
    <3>3. CASE j # k
      BY <1>6, <2>1, <2>3, <3>1, <3>3, OrderTail DEF FirstUndisturbed, Settles
    <3> QED
      BY <3>2, <3>3
  <2> QED
    BY <1>1, <1>14, <1>15, <2>1, <2>2, <2>3 DEF FirstUndisturbed
<1>27. ASSUME NEW m \in j .. k, NEW i \in j .. k PROVE OpensFirst(j, m, i)'
  <2> SUFFICES ASSUME m \in Active'
               PROVE  /\ Precede(mailboxes'[m], Openings, Answers)
                      /\ i \in Running' /\ ~Addressed(i)' /\ NextFrom(j, m) \in Content(kc_recv_fifo'[i])
                           => None(mailboxes'[m], Openings)
                      /\ i = m + 1 /\ Addressed(i)' => None(mailboxes'[m], Openings)
    BY DEF OpensFirst, NextFrom, Place
  <2>1. OpensFirst(j, m, i) /\ m \in Active
    BY <1>1, <1>3, Parts
  <2>2. Addressed(m) /\ None(mailboxes[m], Openings) => None(mailboxes'[m], Openings)
    BY <1>7, <1>9 DEF None
  <2>3. Precede(mailboxes'[m], Openings, Answers)
    <3>1. CASE m = n /\ ~Addressed(n)
      <4>1. None(mailboxes[n], Answers)
        BY <3>1, Parts DEF Sent, None, Answers
      <4>2. \A f \in Frames : f \in Openings => f \notin Answers
        BY DEF Openings, Answers, Nexts, Successes, Finishes
      <4> QED
        BY <1>6, <2>1, <3>1, <4>1, <4>2, OrderAppend DEF OpensFirst, Settles
    <3>2. CASE m = n /\ Addressed(n)
      BY <1>6, <2>1, <3>2, OrderAppend DEF OpensFirst, Settles
    <3> QED
      BY <1>9, <2>1, <3>1, <3>2 DEF OpensFirst
  <2>4. NextFrom(j, m) \in Content(kc_recv_fifo'[i]) => Addressed(m)
    BY <1>8, NextSender
  <2>5. i = m + 1 /\ Addressed(i)' => Addressed(m)
    <3>1. i = m + 1 => m < i
      BY <1>1
    <3> QED
      BY <1>1, <1>3, <3>1, LastIsAddressed
  <2> QED
    BY <1>1, <1>3, <1>8, <2>1, <2>2, <2>3, <2>4, <2>5 DEF OpensFirst
<1>28. ASSUME NEW i \in j .. k PROVE OpensFirstAtLast(j, k, i)'
  <2>1. OpensFirstAtLast(j, k, i) /\ OpensFirstAtLast(j, k, n) /\ OpensFirstAtLast(j, k, k)
    BY <1>1, Parts
  <2>2. k \in Active' /\ i \in Running' /\ i # k /\ (Finished(i)' \/ ~None(kc_recv_fifo'[i], Finishes))
          => None(mailboxes'[k], Openings)
    <3> SUFFICES ASSUME k \in Active', i \in Running', i # k,
                        Finished(i)' \/ ~None(kc_recv_fifo'[i], Finishes)
                 PROVE  None(mailboxes'[k], Openings)
      OBVIOUS
    <3>1. Finished(i) \/ ~None(kc_recv_fifo[i], Finishes)
      <4>1. CASE i # n
        BY <1>1, <1>2, <1>9, <4>1 DEF SameView
      <4>2. CASE i = n
        BY <1>6, <1>15, <4>2, ContentTail DEF Settles, None
      <4> QED
        BY <4>1, <4>2
    <3>2. None(mailboxes[k], Openings) /\ Addressed(k)
      BY <1>1, <1>3, <2>1, <3>1, LastIsAddressed DEF OpensFirstAtLast
    <3> QED
      BY <1>7, <1>9, <1>1, <3>2 DEF None
  <2>3. ASSUME i \in Running', i = k
        PROVE  /\ Precede(kc_recv_fifo'[k], Openings, {NextFrom(j, k - 1)})
               /\ Addressed(k)' => None(kc_recv_fifo'[k], Openings)
    BY <1>1, <1>3, <1>14, <1>15, <2>1, <2>3 DEF OpensFirstAtLast
  <2>4. ASSUME i \in Running'
        PROVE  Precede(kc_recv_fifo'[i], Openings, Finishes)
    BY <1>1, <1>3, <1>14, <2>1, <2>4 DEF OpensFirstAtLast
  <2>5. ASSUME i \in Running', Finished(i)' PROVE None(kc_recv_fifo'[i], Openings)
    <3>1. i \in Running
      BY <1>1, <1>3, <2>5
    <3>2. CASE Finished(i)
      BY <1>15, <2>1, <3>1, <3>2 DEF OpensFirstAtLast
    <3>3. CASE ~Finished(i)
      <4>1. i = n
        BY <1>1, <1>2, <2>5, <3>3 DEF SameView
      <4>2. CASE n = k /\ Addressed(k)
        BY <1>15, <2>1, <3>1, <4>1, <4>2 DEF OpensFirstAtLast
      <4>3. CASE ~(n = k /\ Addressed(k))
        BY <1>6, <2>1, <2>5, <3>1, <3>3, <4>1, <4>3, OrderTail DEF OpensFirstAtLast, Settles
      <4> QED
        BY <4>2, <4>3
    <3> QED
      BY <3>2, <3>3
  <2> QED
    BY <2>2, <2>3, <2>4, <2>5 DEF OpensFirstAtLast, NextFrom, Place
<1> QED
  BY <1>20, <1>21, <1>22, <1>23, <1>24, <1>25, <1>26, <1>27, <1>28 DEF Offers

\* A place fits the seven bits of a frame.
LEMMA PlaceFits ==
  ASSUME NEW j, NEW k, ChainStep(j, k), NEW n \in j .. k
  PROVE  /\ Place(j, n) \in Addresses /\ Place(j, n) % AddrMod = Place(j, n)
         /\ NextFrom(j, n) \in Frames /\ NextFrom(j, n) \in Nexts
<1>1. Place(j, n) \in 1 .. N
  BY ConstantsAssumption DEF ChainStep, Nodes, Place
<1>2. Place(j, n) \in 0 .. AddrMod - 1
  BY <1>1, ConstantsAssumption DEF ChainStep, Timely
<1>3. \A a \in Nat, b \in Nat \ {0} : a < b => a % b = a
  OBVIOUS
<1>4. Place(j, n) % AddrMod = Place(j, n)
  BY <1>2, <1>3, ConstantsAssumption
<1> QED
  BY <1>2, <1>4, ConstantsAssumption DEF Addresses, NextFrom, Frames, Events, Nexts

\* kc_event_emit puts one frame behind the others.
\* Every handler settles but kc_init, the retry, and those that begin, make or
\* accept an offer.
LEMMA SettlingStep ==
  ASSUME NEW j, NEW k, ChainStep(j, k), NEW n \in Nodes, Thread(n),
         ~kc_init(n), ~StartAddressing(n), ~DriveDaisy(n), ~AddressNext(n),
         ~RespondDelay(n), ~Retry(n), ~OnNext(n)
  PROVE  Settles(j, k, n)
<1>a. n \in j .. k /\ TypeOK /\ n \in Running /\ n \in Running' /\ ret[n] \in Returns
      /\ kc_node_address[n] \in Addresses /\ k \in j .. k
  <2>1. n \in j .. k /\ n \in Running /\ n \in Running'
    BY Mover
  <2>2. TypeOK /\ k \in j .. k
    BY ConstantsAssumption DEF ChainStep, Nodes
  <2> QED
    BY <2>1, <2>2 DEF TypeOK
<1>b. Local(j, k, n) /\ Places(j, k, n) /\ Places(j, k, k)
  BY <1>a, Parts
<1>c. kc_recv_fifo[n] # <<>> =>
        LET h == Head(kc_recv_fifo[n]) IN
        /\ h \in Frames
        /\ h \in Finishes => Addressed(k) /\ Addressed(n) /\ ~waiting[n]
  BY <1>a, HeadFrame
<1>d. ASSUME NEW ev, NEW f \in Frames, f.event = ev
      PROVE  /\ ev \notin {"REQUIRED", "START"} => f \notin Openings
             /\ ev # "NEXT" => f \notin Nexts
             /\ ev # "SUCCESS" => f \notin Successes
             /\ ev # "FINISHED" => f \notin Finishes
  BY <1>d DEF Openings, Nexts, Successes, Finishes
<1>e. ASSUME NEW ev, Take(n, ev)
      PROVE  /\ pc[n] = "loop" /\ kc_recv_fifo[n] # <<>>
             /\ kc_recv_fifo'[n] = Tail(kc_recv_fifo[n])
             /\ Head(kc_recv_fifo[n]) \in Frames /\ Head(kc_recv_fifo[n]).event = ev
  BY <1>a, <1>c, <1>e DEF Take, TypeOK
<1>f. ASSUME NEW ev \in Events, kc_event_emit(n, ev, kc_node_address[n])
      PROVE  \E f \in Frames : /\ f.event = ev /\ f.sender = kc_node_address[n] % AddrMod
                               /\ mailboxes'[n] = Append(mailboxes[n], f)
  BY <1>a, <1>f, Emitted
<1> USE <1>a, <1>b
    DEF Settles, Addressed, Driven, Finished, Offering, Goto, TypeOK, Returns,
        env, protocol, pins, bus
<1>1. CASE kc_request_addressing(n)
  <2>1. PICK f \in Frames : f.event = "REQUIRED" /\ mailboxes'[n] = Append(mailboxes[n], f)
    BY <1>1, <1>f DEF kc_request_addressing, Events
  <2>2. /\ f \notin Nexts /\ f \notin Successes /\ f \notin Finishes /\ ~Addressed(n)
    BY <1>1, <1>d, <2>1 DEF kc_request_addressing, Local
  <2> QED
    BY <1>1, <2>1, <2>2 DEF kc_request_addressing
<1>2. CASE IgnoreRequired(n)
  BY <1>2 DEF IgnoreRequired
<1>3. CASE BeginAddressing(n)
  BY <1>3 DEF BeginAddressing, ForgetAddress
<1>4. CASE NodeFollows(n)
  BY <1>4 DEF NodeFollows
<1>5. CASE LastNode(n)
  BY <1>5 DEF LastNode
<1>6. CASE FinishAddressing(n)
  <2>1. n = k /\ Addressed(k) /\ kc_node_address[n] = Place(j, k)
    BY <1>6 DEF FinishAddressing, Local, Places
  <2>2. PICK f \in Frames : /\ f.event = "FINISHED" /\ f.sender = kc_node_address[n] % AddrMod
                            /\ mailboxes'[n] = Append(mailboxes[n], f)
    BY <1>6, <1>f DEF FinishAddressing, Events
  <2>3. f \notin Nexts /\ f \notin Successes /\ f \notin Openings /\ f.sender = Place(j, k)
    BY <1>d, <2>1, <2>2, PlaceFits
  <2> QED
    BY <1>6, <2>1, <2>2, <2>3 DEF FinishAddressing, kc_address_end
<1>7. CASE GoOnline(n)
  <2>1. PICK f \in Frames : f.event = "ONLINE" /\ mailboxes'[n] = Append(mailboxes[n], f)
    BY <1>7, <1>f DEF GoOnline, Events
  <2>2. f \notin Nexts /\ f \notin Successes /\ f \notin Openings /\ f \notin Finishes
    BY <1>d, <2>1
  <2> QED
    BY <1>7, <2>1, <2>2 DEF GoOnline, ConfigureFilter1, can_configure_filter_bank
<1>8. CASE Poll(n)
  BY <1>8 DEF Poll
<1>9. CASE LoopDone(n)
  BY <1>9 DEF LoopDone
<1>10. CASE OnStart(n)
  <2>1. Head(kc_recv_fifo[n]) \notin Successes /\ ~Finished(n)
    BY <1>10, <1>d, <1>e, HeadFrame DEF OnStart, Openings
  <2> QED
    BY <1>10, <1>e, <2>1 DEF OnStart
<1>11. CASE OnSuccess(n)
  BY <1>11, <1>e DEF OnSuccess, StopWaiting
<1>12. CASE OnOtherNext(n)
  <2>1. Head(kc_recv_fifo[n]) \notin Successes
    BY <1>12, <1>d, <1>e DEF OnOtherNext
  <2> QED
    BY <1>12, <1>e, <2>1 DEF OnOtherNext
<1>13. CASE OnFinished(n)
  <2>1. Head(kc_recv_fifo[n]) \notin Successes /\ Head(kc_recv_fifo[n]) \in Finishes
    BY <1>13, <1>d, <1>e DEF OnFinished, Finishes
  <2>2. Addressed(k)
    BY <1>13, <1>c, <1>e, <2>1 DEF OnFinished
  <2> QED
    BY <1>13, <1>e, <2>1, <2>2 DEF OnFinished, kc_address_end
<1>14. CASE OnRequired(n)
  <2>1. Head(kc_recv_fifo[n]) \notin Successes
    BY <1>14, <1>d, <1>e DEF OnRequired
  <2> QED
    BY <1>14, <1>e, <2>1 DEF OnRequired
<1>15. CASE OnOnline(n)
  <2>1. Head(kc_recv_fifo[n]) \notin Successes
    BY <1>15, <1>d, <1>e DEF OnOnline
  <2> QED
    BY <1>15, <1>e, <2>1 DEF OnOnline
<1> QED
  BY RoomForAnswer, <1>1, <1>2, <1>3, <1>4, <1>5, <1>6, <1>7, <1>8, <1>9, <1>10, <1>11,
     <1>12, <1>13, <1>14, <1>15
     DEF Thread, AddressingStep, IncomingStep

-----------------------------------------------------------------------------
(* Steps without the bus: kc_init, Retry and the delays *)

\* Two peripherals are on the bus, so a delay that is long enough sees the bus empty.
LEMMA BusEmpty ==
  ASSUME TypeOK, Delivered, NEW m \in Active, NEW n \in Active, m # n
  PROVE  \A i \in Nodes : mailboxes[i] = <<>>
<1>1. Nodes = 1 .. N /\ IsFiniteSet(Nodes)
  BY ConstantsAssumption, FS_Interval DEF Nodes
<1>2. Active \subseteq Nodes
  BY DEF Active
<1>3. IsFiniteSet(Active) /\ {m, n} \subseteq Active
  BY <1>1, <1>2, FS_Subset
<1>4. IsFiniteSet({m}) /\ Cardinality({m}) = 1 /\ IsFiniteSet({m} \cup {n}) /\ Cardinality({m} \cup {n}) = 2
  <2>1. IsFiniteSet({m}) /\ Cardinality({m}) = 1
    BY FS_Singleton
  <2> QED
    BY <2>1, FS_AddElement
<1>5. Cardinality({m} \cup {n}) <= Cardinality(Active)
  BY <1>3, FS_Subset
<1>6. Cardinality(Active) \in Nat
  BY <1>3, FS_CardinalityType
<1>7. ~(Cardinality(Active) <= 1)
  BY <1>4, <1>5, <1>6
<1> QED
  BY <1>7 DEF Delivered

\* Parts that look at the bus and at who is addressed or has finished only.
LEMMA IdleBus ==
  ASSUME NEW j, NEW k, ChainStep(j, k), UNCHANGED bus,
         \A m \in Nodes : /\ Addressed(m)' = Addressed(m) /\ Finished(m)' = Finished(m)
                          /\ m \in Running' => m \in Running \/ (Blank(m) /\ ~Finished(m))
                          /\ m \in Active' => m \in Active \/ (Blank(m) /\ ~Finished(m))
  PROVE  /\ FirstUndisturbed(j, k)'
         /\ \A m \in j .. k : Sent(j, k, m)' /\ Received(j, k, m)' /\ OpensFirstAtLast(j, k, m)'
         /\ \A m, i \in j .. k : OpensFirst(j, m, i)'
<1>1. /\ k \in j .. k /\ j \in j .. k /\ TypeOK /\ \A m \in j .. k : m \in Nodes
  BY ConstantsAssumption, Parts DEF ChainStep, Nodes
<1>2. mailboxes' = mailboxes /\ kc_recv_fifo' = kc_recv_fifo
  BY DEF bus
<1> DEFINE Fresh(m) ==
             /\ ~Addressed(m) /\ ~Finished(m)
             /\ \A A : None(mailboxes[m], A) /\ None(kc_recv_fifo[m], A)
             /\ \A A, B : Precede(mailboxes[m], A, B) /\ Precede(kc_recv_fifo[m], A, B)
             /\ kc_recv_fifo[m] = <<>> /\ Content(kc_recv_fifo[m]) = {}
<1>3. ASSUME NEW m \in j .. k
      PROVE  (m \in Running' => m \in Running \/ Fresh(m)) /\ (m \in Active' => m \in Active \/ Fresh(m))
  <2> SUFFICES ASSUME Blank(m), ~Finished(m) PROVE Fresh(m)
    BY <1>1
  <2>1. /\ mailboxes[m] = <<>> /\ kc_recv_fifo[m] = <<>> /\ ~Addressed(m) /\ ~Finished(m)
        /\ mailboxes[m] \in Seq(Frames) /\ kc_recv_fifo[m] \in Seq(Frames)
    BY <1>1, <1>3, Queues DEF Blank, Addressed
  <2> QED
    BY <2>1, OrderEmpty, ContentEmpty
<1>4. ASSUME NEW m \in j .. k PROVE Sent(j, k, m)' /\ Received(j, k, m)'
  BY <1>1, <1>2, Parts DEF Sent, Received, NextFrom, Place
<1>5. ASSUME NEW m \in j .. k, NEW i \in j .. k PROVE OpensFirst(j, m, i)'
  BY <1>1, <1>2, <1>3, Parts DEF OpensFirst, NextFrom, Place
<1>6. ASSUME NEW i \in j .. k PROVE OpensFirstAtLast(j, k, i)'
  <2>1. OpensFirstAtLast(j, k, i)
    BY Parts
  <2> QED
    BY <1>1, <1>2, <1>3, <2>1 DEF OpensFirstAtLast, NextFrom, Place
<1>7. FirstUndisturbed(j, k)'
  BY <1>1, <1>2, <1>3, Parts DEF FirstUndisturbed
<1> QED
  BY <1>4, <1>5, <1>6, <1>7

\* kc_init: the node that starts to run has nothing in its queues.
LEMMA BootKeeps ==
  ASSUME NEW j, NEW k, ChainStep(j, k), NEW n \in Nodes, kc_init(n)
  PROVE  Offers(j, k)'
<1>1. /\ n \in j .. k /\ k \in j .. k /\ j \in j .. k /\ TypeOK /\ Blank(n)
      /\ \A m \in j .. k : m \in Nodes /\ m \in Nat
  <2>1. Thread(n) /\ pc[n] = "reset"
    BY DEF Thread, AddressingStep, kc_init
  <2>2. n \in j .. k /\ Blank(n)
    BY <2>1, Mover
  <2> QED
    BY <2>2, ConstantsAssumption, Parts DEF ChainStep, Nodes
<1>2. /\ mailboxes' = mailboxes /\ kc_recv_fifo' = kc_recv_fifo /\ UNCHANGED bus
      /\ kc_node_address' = kc_node_address /\ waiting' = waiting
      /\ pc' = [pc EXCEPT ![n] = "request"] /\ pc[n] = "reset"
      /\ \A m \in Nodes : m # n => Same(m)
  BY <1>1, OthersSame DEF kc_init, Goto, bus, protocol, Thread, AddressingStep
<1>3. \A m \in Nodes : /\ Addressed(m)' = Addressed(m) /\ Driven(m)' = Driven(m)
                       /\ Finished(m)' = Finished(m) /\ Offering(m)' = Offering(m)
                       /\ Waits(m)' = Waits(m)
                       /\ m # n => (m \in Running)' = (m \in Running) /\ (m \in Active)' = (m \in Active)
  <2>1. /\ Addressed(n)' = Addressed(n) /\ Driven(n)' = Driven(n)
        /\ Finished(n)' = Finished(n) /\ Offering(n)' = Offering(n)
        /\ Waits(n)' = Waits(n)
    BY <1>1, <1>2 DEF kc_init, Blank, Addressed, Driven, Finished, Offering, Waits, TypeOK
  <2> QED
    BY <1>2, <2>1, SameSameView DEF SameView
<1>4. \A m \in Nodes : Passed(m)' = Passed(m)
  BY <1>3 DEF Passed
<1>5. /\ ~Addressed(n) /\ ~Finished(n) /\ ~Offering(n) /\ ~waiting[n]
      /\ kc_recv_fifo[n] = <<>> /\ Content(kc_recv_fifo[n]) = {}
      /\ \A A : None(mailboxes[n], A) /\ Once(mailboxes[n], A)
  BY <1>1, <1>2, Queues, OrderEmpty, ContentEmpty DEF Blank, Addressed, Finished, Offering
<1>6. ASSUME NEW m \in j .. k, NEW i \in j .. k PROVE OneOffer(j, m, i)'
  <2> SUFFICES ASSUME j \in Active', m \in Active', j < m, i = m + 1
               PROVE  /\ Once(mailboxes[m], Nexts)
                      /\ ~None(mailboxes[m], Nexts) => Waits(m)' /\ ~Addressed(i)'
                      /\ i \in Running' /\ ~Addressed(i)' /\ NextFrom(j, m) \in Content(kc_recv_fifo[i]) =>
                           Waits(m)' /\ None(mailboxes[m], Nexts)
                      /\ Offering(m)' => ~Addressed(i)'
                      /\ waiting[m] /\ Addressed(i)' /\ ~Waits(m)'
                           => ~None(kc_recv_fifo[m], Successes)
    BY <1>2 DEF OneOffer, NextFrom, Place
  <2>1. CASE ~Addressed(m)
    <3>1. None(mailboxes[m], Nexts) /\ ~waiting[m]
      BY <2>1, Parts DEF Sent, Places, None
    <3>2. ~Offering(m)
      <4>1. CASE m = n
        BY <1>5, <4>1
      <4>2. CASE m # n
        BY <1>1, <1>3, <2>1, <4>2, Parts DEF Local, Offering, Running, Down
      <4> QED
        BY <4>1, <4>2
    <3>3. NextFrom(j, m) \notin Content(kc_recv_fifo[i])
      BY <2>1, NextSender, <1>6
    <3>4. Once(mailboxes[m], Nexts)
      BY <1>1, <3>1, Queues, OrderEmpty
    <3> QED
      BY <1>1, <1>3, <3>1, <3>2, <3>3, <3>4
  <2>2. CASE Addressed(m)
    <3>1. j # n /\ m # n
      BY <1>5, <1>1, <2>2, LastIsAddressed
    <3>2. OneOffer(j, m, i) /\ j \in Active /\ m \in Active
      BY <1>1, <1>3, <3>1, Parts
    <3>3. i = n => NextFrom(j, m) \notin Content(kc_recv_fifo[i])
      BY <1>5
    <3> QED
      BY <1>1, <1>3, <3>2, <3>3 DEF OneOffer
  <2> QED
    BY <2>1, <2>2
<1>7. ASSUME NEW m \in j .. k PROVE OfferSent(k, m)' /\ OfferEnds(m)'
  <2>1. CASE m = n
    BY <1>2, <1>3, <1>1, <1>5, <2>1 DEF OfferSent, OfferEnds
  <2>2. CASE m # n
    BY <1>1, <1>2, <1>3, <1>4, <2>2, Parts DEF OfferSent, OfferEnds
  <2> QED
    BY <2>1, <2>2
<1>8. ASSUME NEW m \in j .. k, NEW i \in j .. k PROVE OfferReceived(j, m, i)' /\ SuccessComes(m, i)'
  <2>1. OfferReceived(j, m, i)'
    <3>1. CASE i = n
      BY <1>2, <1>5, <3>1 DEF OfferReceived
    <3>2. CASE i # n
      BY <1>1, <1>2, <1>3, <1>4, <3>2, Parts DEF OfferReceived, NextFrom, Place
    <3> QED
      BY <3>1, <3>2
  <2>2. SuccessComes(m, i)'
    <3>1. CASE m = n
      BY <1>1, <1>2, <1>3, <1>5, <3>1 DEF SuccessComes
    <3>2. CASE m # n
      BY <1>1, <1>2, <1>3, <3>2, Parts DEF SuccessComes
    <3> QED
      BY <3>1, <3>2
  <2> QED
    BY <2>1, <2>2
<1>9. \A m \in Nodes : /\ m \in Running' => m \in Running \/ (Blank(m) /\ ~Finished(m))
                       /\ m \in Active' => m \in Active \/ (Blank(m) /\ ~Finished(m))
  BY <1>1, <1>3, <1>5
<1> QED
  BY <1>2, <1>3, <1>6, <1>7, <1>8, <1>9, IdleBus DEF Offers

\* What the steps that only move the thread, or only drive DAISY, leave alone.
LEMMA QuietStep ==
  ASSUME NEW j, NEW k, ChainStep(j, k), NEW n \in Nodes,
         Retry(n) \/ DriveDaisy(n) \/ RespondDelay(n)
  PROVE  /\ n \in j .. k /\ n \in Running /\ n \in Active /\ ~Waits(n)' /\ Local(j, k, n)
         /\ mailboxes' = mailboxes /\ kc_recv_fifo' = kc_recv_fifo /\ waiting' = waiting
         /\ \A m \in Nodes : /\ Addressed(m)' = Addressed(m) /\ (m \in Running)' = (m \in Running)
                             /\ (m \in Active)' = (m \in Active)
                             /\ m # n => SameView(m)
         /\ FirstUndisturbed(j, k)'
         /\ \A m \in j .. k : Sent(j, k, m)' /\ Received(j, k, m)' /\ OpensFirstAtLast(j, k, m)'
         /\ \A m, i \in j .. k : OpensFirst(j, m, i)'
<1>1. Thread(n) /\ pc[n] # "reset"
  BY DEF Thread, AddressingStep, IncomingStep, Retry, DriveDaisy, RespondDelay
<1>2. n \in j .. k /\ n \in Running /\ n \in Running' /\ TypeOK
  BY <1>1, Mover DEF ChainStep
<1>3. Local(j, k, n)
  BY <1>2, Parts
<1>4. /\ mailboxes' = mailboxes /\ kc_recv_fifo' = kc_recv_fifo /\ waiting' = waiting
      /\ kc_node_address' = kc_node_address /\ kc_state' = kc_state
      /\ UNCHANGED bus
  BY DEF Retry, DriveDaisy, RespondDelay, bus, protocol
<1>5. pc[n] # "online" /\ pc'[n] # "online"
  BY <1>2 DEF Retry, DriveDaisy, RespondDelay, Goto, TypeOK, Returns
<1>6. \A m \in Nodes : m # n => SameView(m)
  BY <1>1, <1>2, OthersSame, SameSameView
<1>7. n \in Active /\ n \in Active' /\ ~Waits(n)'
  BY <1>2 DEF Running, Active, Waits, Down, Retry, DriveDaisy, RespondDelay, Goto, TypeOK, Returns
<1>8. \A m \in Nodes : /\ Addressed(m)' = Addressed(m) /\ Finished(m)' = Finished(m)
                       /\ (m \in Running)' = (m \in Running) /\ (m \in Active)' = (m \in Active)
  BY <1>2, <1>4, <1>5, <1>6, <1>7 DEF SameView, Addressed, Finished
<1> HIDE DEF bus
<1> QED
  BY <1>2, <1>3, <1>4, <1>6, <1>7, <1>8, IdleBus

\* A node whose FIFO is empty has not been answered: it may repeat NEXT.
LEMMA RetryKeeps ==
  ASSUME NEW j, NEW k, ChainStep(j, k), NEW n \in Nodes, Retry(n)
  PROVE  Offers(j, k)'
<1>1. /\ n \in j .. k /\ TypeOK /\ \A m \in j .. k : m \in Nodes
  BY QuietStep, Parts DEF ChainStep
<1>2. /\ n \in Running /\ n \in Active /\ ~Waits(n)' /\ mailboxes' = mailboxes
      /\ kc_recv_fifo' = kc_recv_fifo /\ waiting' = waiting
      /\ \A m \in Nodes : /\ Addressed(m)' = Addressed(m) /\ (m \in Running)' = (m \in Running)
                          /\ (m \in Active)' = (m \in Active)
                          /\ m # n => SameView(m)
  BY QuietStep
<1>3. /\ ~Waits(n) /\ daisy_out' = daisy_out
      /\ Offering(n)' => waiting[n] /\ kc_recv_fifo[n] = <<>>
  BY <1>1 DEF Retry, Goto, TypeOK, pins, Offering, Waits
<1>4. \A m \in Nodes : Driven(m)' = Driven(m) /\ Passed(m)' = Passed(m)
  BY <1>2, <1>3 DEF Driven, Passed
<1>5. \A A, B : kc_recv_fifo[n] = <<>> => None(kc_recv_fifo[n], A) /\ ~ComesFirst(kc_recv_fifo[n], A, B)
  BY <1>1, Queues, OrderEmpty
<1>6. ASSUME NEW m \in j .. k PROVE OfferSent(k, m)' /\ OfferEnds(m)'
  <2>1. OfferSent(k, m)'
    BY <1>1, <1>2, <1>4, Parts DEF OfferSent, ChainStep
  <2>2. OfferEnds(m)'
    <3>1. CASE m = n
      BY <1>1, <1>2, <1>3, <1>4, <1>5, <3>1, Parts DEF OfferEnds
    <3>2. CASE m # n
      BY <1>1, <1>2, <1>4, <3>2, Parts DEF OfferEnds, SameView
    <3> QED
      BY <3>1, <3>2
  <2> QED
    BY <2>1, <2>2
<1>7. ASSUME NEW m \in j .. k, NEW i \in j .. k
      PROVE  OfferReceived(j, m, i)' /\ SuccessComes(m, i)' /\ OneOffer(j, m, i)'
  <2>1. OfferReceived(j, m, i)'
    BY <1>1, <1>2, <1>4, Parts DEF OfferReceived, NextFrom, Place
  <2>2. SuccessComes(m, i)'
    BY <1>1, <1>2, <1>3, Parts DEF SuccessComes, SameView
  <2>3. OneOffer(j, m, i)'
    <3>1. OneOffer(j, m, i) /\ j \in Nodes
      BY Parts DEF ChainStep
    <3>2. CASE m = n
      BY <1>1, <1>2, <1>3, <1>5, <3>1, <3>2 DEF OneOffer, NextFrom, Place
    <3>3. CASE m # n
      BY <1>1, <1>2, <3>1, <3>3 DEF OneOffer, NextFrom, Place, SameView
    <3> QED
      BY <3>2, <3>3
  <2> QED
    BY <2>1, <2>2, <2>3
<1> QED
  BY <1>6, <1>7, QuietStep DEF Offers

\* After its delay a node has been answered, or its successor has thrown NEXT away.
LEMMA RespondDelayKeeps ==
  ASSUME NEW j, NEW k, ChainStep(j, k), NEW n \in Nodes, RespondDelay(n)
  PROVE  Offers(j, k)'
<1>1. /\ n \in j .. k /\ TypeOK /\ \A m \in j .. k : m \in Nodes
  BY QuietStep, Parts DEF ChainStep
<1>2. /\ n \in Running /\ n \in Active /\ ~Waits(n)' /\ mailboxes' = mailboxes
      /\ kc_recv_fifo' = kc_recv_fifo /\ waiting' = waiting
      /\ \A m \in Nodes : /\ Addressed(m)' = Addressed(m) /\ (m \in Running)' = (m \in Running)
                          /\ (m \in Active)' = (m \in Active)
                          /\ m # n => SameView(m)
  BY QuietStep
<1>3. /\ ~Offering(n) /\ ~Offering(n)' /\ daisy_out' = daisy_out
      /\ LongEnough(n, {"ready", "respond"})
  BY <1>1 DEF RespondDelay, Goto, TypeOK, Returns, pins, Offering, ChainStep, Timely
<1>4. \A m \in Nodes : Driven(m)' = Driven(m) /\ Passed(m)' = Passed(m)
  BY <1>2, <1>3 DEF Driven, Passed
<1>5. ASSUME NEW i \in Running, i # n, i \in j .. k, ~Addressed(i), NEW m
      PROVE  NextFrom(j, m) \notin Content(kc_recv_fifo[i])
  <2>1. pc[i] \notin {"ready", "respond"}
    BY <1>5, Parts DEF Local, Offering
  <2>2. NextProcessed(i)
    BY <1>3, <1>5, <2>1 DEF LongEnough
  <2> QED
    BY <2>2 DEF NextProcessed, Content, NextFrom
<1>6. ASSUME NEW i \in Active, i # n PROVE \A m \in Nodes : mailboxes[m] = <<>>
  BY <1>1, <1>2, <1>3, <1>6, BusEmpty DEF LongEnough
<1>7. ASSUME NEW m \in j .. k PROVE OfferSent(k, m)' /\ OfferEnds(m)'
  <2>1. OfferSent(k, m)'
    BY <1>1, <1>2, <1>4, Parts DEF OfferSent, ChainStep
  <2>2. OfferEnds(m)'
    BY <1>1, <1>2, <1>3, <1>4, Parts DEF OfferEnds, SameView
  <2> QED
    BY <2>1, <2>2
<1>8. ASSUME NEW m \in j .. k, NEW i \in j .. k
      PROVE  OfferReceived(j, m, i)' /\ SuccessComes(m, i)' /\ OneOffer(j, m, i)'
  <2>1. OfferReceived(j, m, i)'
    BY <1>1, <1>2, <1>4, Parts DEF OfferReceived, NextFrom, Place
  <2>2. SuccessComes(m, i)'
    BY <1>1, <1>2, <1>3, Parts DEF SuccessComes, SameView
  <2>3. OneOffer(j, m, i)'
    <3>1. OneOffer(j, m, i) /\ j \in Nodes
      BY Parts DEF ChainStep
    <3>2. CASE m = n
      <4> SUFFICES ASSUME j \in Active, j < n, i = n + 1
                   PROVE  /\ Once(mailboxes[n], Nexts) /\ None(mailboxes[n], Nexts)
                          /\ i \in Running /\ ~Addressed(i) => NextFrom(j, n) \notin Content(kc_recv_fifo[i])
                          /\ waiting[n] /\ Addressed(i) => ~None(kc_recv_fifo[n], Successes)
        BY <1>1, <1>2, <1>3, <3>1, <3>2 DEF OneOffer, NextFrom, Place
      <4>1. j # n /\ i # n
        BY <1>1, ConstantsAssumption DEF Nodes, ChainStep
      <4>2. \A x \in Nodes : mailboxes[x] = <<>>
        BY <1>6, <4>1
      <4>3. /\ Once(mailboxes[n], Nexts) /\ None(mailboxes[n], Nexts)
            /\ ~ComesFirst(mailboxes[i], Successes, Finishes)
        BY <1>1, <4>2, Queues, OrderEmpty
      <4>4. waiting[n] /\ Addressed(i) => ComesFirst(kc_recv_fifo[n], Successes, Finishes)
        BY <1>1, <1>2, <4>3, Parts DEF SuccessComes
      <4>5. waiting[n] /\ Addressed(i) => ~None(kc_recv_fifo[n], Successes)
        BY <1>1, <4>4, Queues, OrderEmpty
      <4> QED
        BY <1>5, <4>1, <4>3, <4>5
    <3>3. CASE m # n
      BY <1>1, <1>2, <3>1, <3>3 DEF OneOffer, NextFrom, Place, SameView
    <3> QED
      BY <3>2, <3>3
  <2> QED
    BY <2>1, <2>2, <2>3
<1> QED
  BY <1>7, <1>8, QuietStep DEF Offers

\* At the end of the delays before NEXT no earlier offer is left.
LEMMA DriveDaisyKeeps ==
  ASSUME NEW j, NEW k, ChainStep(j, k), NEW n \in Nodes, DriveDaisy(n)
  PROVE  Offers(j, k)'
<1>1. /\ n \in j .. k /\ TypeOK /\ \A m \in j .. k : m \in Nodes /\ m \in Nat
  BY QuietStep, Parts, ConstantsAssumption DEF ChainStep, Nodes
<1>2. /\ n \in Running /\ n \in Active /\ ~Waits(n)' /\ mailboxes' = mailboxes
      /\ kc_recv_fifo' = kc_recv_fifo /\ waiting' = waiting
      /\ \A m \in Nodes : /\ Addressed(m)' = Addressed(m) /\ (m \in Running)' = (m \in Running)
                          /\ (m \in Active)' = (m \in Active)
                          /\ m # n => SameView(m)
  BY QuietStep
<1>3. /\ Offering(n) /\ Offering(n)' /\ ~Waits(n) /\ Driven(n)'
      /\ LongEnough(n, {}) /\ \A m \in Nodes : m # n => Driven(m)' = Driven(m)
  BY <1>1, <1>2 DEF DriveDaisy, Goto, TypeOK, Offering, Waits, Driven, ChainStep, Timely, SameView
<1>4. Addressed(n) /\ ~Passed(n)
  BY <1>1, <1>2, <1>3, Parts DEF Local, OfferEnds
<1>5. \A m \in Nodes : Passed(m)' => Passed(m) \/ m < n
  BY <1>2, <1>3 DEF Passed
<1>6. ASSUME NEW i \in Running, i # n, NEW m
      PROVE  NextFrom(j, m) \notin Content(kc_recv_fifo[i])
  <2>1. NextProcessed(i)
    BY <1>3, <1>6 DEF LongEnough
  <2> QED
    BY <2>1 DEF NextProcessed, Content, NextFrom
<1>7. ASSUME NEW i \in Active, i # n PROVE \A m \in Nodes : mailboxes[m] = <<>>
  BY <1>1, <1>2, <1>3, <1>7, BusEmpty DEF LongEnough
<1>8. ASSUME NEW m \in j .. k PROVE OfferSent(k, m)' /\ OfferEnds(m)'
  <2>1. OfferSent(k, m)'
    <3>1. CASE m = n
      BY <1>1, <1>3, <1>4, <1>5, <3>1 DEF OfferSent
    <3>2. CASE m # n
      <4>1. m \in Active => None(mailboxes[m], Nexts)
        BY <1>1, <1>7, <3>2, Queues, OrderEmpty
      <4> QED
        BY <1>1, <1>2, <4>1 DEF OfferSent
    <3> QED
      BY <3>1, <3>2
  <2>2. OfferEnds(m)'
    <3> SUFFICES ASSUME m \in Running, Passed(m)', m # n, ~Passed(m), m < n
                 PROVE  ~Offering(m) /\ (waiting[m] => ComesFirst(kc_recv_fifo[m], Successes, Finishes))
      BY <1>1, <1>2, <1>4, <1>5, Parts DEF OfferEnds, SameView
    <3>1. ~Offering(m)
      BY <1>1, <1>3 DEF LongEnough, Offering
    <3>2. n = m + 1
      BY <1>1, <1>4 DEF Passed
    <3>3. ~ComesFirst(mailboxes[n], Successes, Finishes)
      <4>1. m \in Active
        BY DEF Running, Active, Down
      <4> QED
        BY <1>1, <1>7, <4>1, Queues, OrderEmpty
    <3> QED
      BY <1>1, <1>4, <3>1, <3>2, <3>3, Parts DEF SuccessComes
  <2> QED
    BY <2>1, <2>2
<1>9. ASSUME NEW m \in j .. k, NEW i \in j .. k
      PROVE  OfferReceived(j, m, i)' /\ SuccessComes(m, i)' /\ OneOffer(j, m, i)'
  <2>1. OfferReceived(j, m, i)'
    BY <1>1, <1>2, <1>4, <1>6 DEF OfferReceived, NextFrom, Place
  <2>2. SuccessComes(m, i)'
    BY <1>1, <1>2, <1>3, Parts DEF SuccessComes, SameView
  <2>3. OneOffer(j, m, i)'
    <3>1. OneOffer(j, m, i) /\ j \in Nodes
      BY Parts DEF ChainStep
    <3> QED
      BY <1>1, <1>2, <1>3, <3>1 DEF OneOffer, NextFrom, Place, SameView
  <2> QED
    BY <2>1, <2>2, <2>3
<1> QED
  BY <1>8, <1>9, QuietStep DEF Offers

-----------------------------------------------------------------------------
(* Steps that begin, make or accept an offer *)

\* A frame is of one kind.
LEMMA FrameKinds ==
  ASSUME NEW f \in Frames
  PROVE  /\ f.event \notin {"REQUIRED", "START"} => f \notin Openings
         /\ f.event # "NEXT" => f \notin Nexts
         /\ f.event # "SUCCESS" => f \notin Successes
         /\ f.event # "FINISHED" => f \notin Finishes
         /\ f.event = "SUCCESS" => f \in Successes
         /\ f.event \in {"REQUIRED", "START"} => f \notin Answers
         /\ f \in Openings => f \notin Answers
BY DEF Openings, Nexts, Successes, Finishes, Answers

\* The first node takes its address: nobody has one, so nothing of a procedure is under way.
LEMMA StartKeeps ==
  ASSUME NEW j, NEW k, ChainStep(j, k), NEW n \in Nodes, StartAddressing(n)
  PROVE  Offers(j, k)'
<1>0. Thread(n) /\ pc[n] = "start"
  BY DEF Thread, AddressingStep, StartAddressing
<1>1. /\ n \in j .. k /\ k \in j .. k /\ j \in j .. k /\ TypeOK /\ n \in Running /\ n \in Running'
      /\ j \in Nat /\ \A m \in j .. k : m \in Nodes /\ m \in Nat
  BY <1>0, Mover, ConstantsAssumption DEF ChainStep, Nodes
<1>2. n = j /\ ~Addressed(j) /\ kc_state[j] = "ADDRESSING"
  BY <1>0, <1>1, Parts DEF Local
<1>3. \A m \in j .. k : ~Addressed(m)
  <2>1. \A m \in j .. k : m = j \/ j < m
    BY <1>1
  <2> QED
    BY <1>1, <1>2, <2>1, Parts DEF Places
<1>4. \A m \in Nodes : m # n => Same(m) /\ SameView(m)
  BY <1>0, <1>1, OthersSame, SameSameView
<1>5. PICK f \in Frames : f.event = "START" /\ mailboxes'[n] = Append(mailboxes[n], f)
  <2>1. kc_node_address[n] \in Addresses /\ kc_event_emit(n, "START", kc_node_address[n])
    BY <1>1 DEF StartAddressing, TypeOK
  <2> QED
    BY <1>1, <2>1, Emitted DEF Events
<1>6. /\ kc_recv_fifo' = kc_recv_fifo /\ waiting' = waiting /\ daisy_out' = daisy_out
      /\ kc_node_address' = [kc_node_address EXCEPT ![j] = 1]
      /\ pc'[j] = "next" /\ kc_state' = kc_state
  BY <1>1, <1>2 DEF StartAddressing, Goto, TypeOK, pins
<1>7. ASSUME NEW m \in j .. k
      PROVE  /\ Addressed(m)' <=> m = j
             /\ ~Driven(m)' /\ ~waiting'[m] /\ ~Finished(m)'
             /\ (m \in Running)' = (m \in Running) /\ (m \in Active)' = (m \in Active)
             /\ m # j => ~Offering(m)'
  <2>1. Addressed(m)' <=> m = j
    BY <1>1, <1>3, <1>6 DEF Addressed, TypeOK
  <2>2. ~Driven(m)' /\ ~waiting'[m]
    BY <1>1, <1>3, <1>6, Parts DEF Places, Driven
  <2>3. ~Finished(m)'
    BY <1>1, <1>2, <1>3, <1>4, <1>6, Parts DEF Places, Finished, SameView
  <2>4. (m \in Running)' = (m \in Running) /\ (m \in Active)' = (m \in Active)
    BY <1>1, <1>2, <1>4 DEF SameView, Running, Active, Down
  <2>5. m # j => ~Offering(m)'
    <3>1. m # j => Offering(m)' = Offering(m)
      BY <1>1, <1>2, <1>4 DEF SameView
    <3>2. Offering(m) => m \in Running
      BY <1>1 DEF Offering, Running, Down
    <3> QED
      BY <1>3, <3>1, <3>2, Parts DEF Local
  <2> QED
    BY <2>1, <2>2, <2>3, <2>4, <2>5
<1>8. \A m \in j .. k : ~Passed(m)'
  <2>1. \A i \in Nodes : i \notin j .. k => ~Driven(i)' /\ ~Addressed(i)'
    BY <1>1, <1>4, Parts DEF Supplied, Blank, Addressed, SameView
  <2>2. \A m \in j .. k : ~(j > m)
    BY <1>1
  <2> QED
    BY <1>7, <2>1, <2>2 DEF Passed
<1>9. ASSUME NEW m \in j .. k
      PROVE  /\ None(mailboxes[m], Answers) /\ None(mailboxes'[m], Answers)
             /\ None(kc_recv_fifo[m], Nexts) /\ None(kc_recv_fifo[m], Finishes)
  <2>1. None(mailboxes[m], Answers)
    BY <1>1, <1>3, Parts DEF Sent, None, Answers
  <2>2. None(kc_recv_fifo[m], Nexts) /\ None(kc_recv_fifo[m], Finishes)
    BY <1>1, <1>3, Parts DEF Received, None
  <2>3. Content(mailboxes'[n]) = Content(mailboxes[n]) \cup {f}
    BY <1>1, <1>5, Queues, ContentAppend
  <2>4. None(mailboxes'[m], Answers)
    BY <1>1, <1>4, <1>5, <2>1, <2>3, FrameKinds DEF None, Same
  <2> QED
    BY <2>1, <2>2, <2>4
<1>10. ASSUME NEW m \in j .. k
       PROVE  None(mailboxes'[m], Nexts) /\ None(mailboxes'[m], Successes) /\ None(mailboxes'[m], Finishes)
  BY <1>9 DEF None, Answers
<1>20. ASSUME NEW m \in j .. k
       PROVE  /\ Sent(j, k, m)' /\ Received(j, k, m)' /\ OfferSent(k, m)' /\ OfferEnds(m)'
              /\ OpensFirstAtLast(j, k, m)'
  <2>1. Sent(j, k, m)' /\ Received(j, k, m)'
    BY <1>6, <1>9, <1>10 DEF Sent, Received, None
  <2>2. OfferSent(k, m)' /\ OfferEnds(m)'
    BY <1>8, <1>10 DEF OfferSent, OfferEnds
  <2>3. k = j /\ j \in Running => None(kc_recv_fifo[k], Openings)
    BY <1>1, Queues, OrderEmpty, Parts DEF FirstUndisturbed
  <2>4. OpensFirstAtLast(j, k, m)'
    BY <1>1, <1>2, <1>6, <1>7, <1>9, <2>3, Parts DEF OpensFirstAtLast, NextFrom, Place
  <2> QED
    BY <2>1, <2>2, <2>4
<1>21. ASSUME NEW m \in j .. k, NEW i \in j .. k
       PROVE  OfferReceived(j, m, i)' /\ SuccessComes(m, i)' /\ OneOffer(j, m, i)' /\ OpensFirst(j, m, i)'
  <2>0. i = m + 1 => i # j
    BY <1>1
  <2>1. NextFrom(j, m)' = NextFrom(j, m) /\ NextFrom(j, m) \in Nexts
    BY PlaceFits DEF NextFrom, Place
  <2>2. NextFrom(j, m) \notin Content(kc_recv_fifo[i])
    BY <1>9, <2>1 DEF None
  <2>3. OfferReceived(j, m, i)' /\ SuccessComes(m, i)'
    BY <1>6, <1>7, <2>0, <2>1, <2>2 DEF OfferReceived, SuccessComes
  <2>4. Once(mailboxes'[m], Nexts)
    <3>1. mailboxes'[m] \in Seq(Frames)
      BY <1>1 DEF ChainStep, TypeOK
    <3> QED
      BY <1>10, <3>1, OrderEmpty
  <2>5. OneOffer(j, m, i)'
    BY <1>6, <1>7, <1>10, <2>0, <2>1, <2>2, <2>4 DEF OneOffer
  <2>6. m \in Active => Precede(mailboxes'[m], Openings, Answers)
    <3>1. m \in Active => Precede(mailboxes[m], Openings, Answers)
      BY Parts DEF OpensFirst
    <3>2. CASE m = n
      BY <1>1, <1>5, <1>9, <3>1, <3>2, Queues, OrderAppend, FrameKinds
    <3>3. CASE m # n
      BY <1>1, <1>4, <3>1, <3>3 DEF Same
    <3> QED
      BY <3>2, <3>3
  <2>7. OpensFirst(j, m, i)'
    BY <1>6, <1>7, <2>0, <2>1, <2>2, <2>6 DEF OpensFirst
  <2> QED
    BY <2>3, <2>5, <2>7
<1>22. FirstUndisturbed(j, k)'
  BY <1>1, <1>6, <1>7, Parts DEF FirstUndisturbed
<1> QED
  BY <1>20, <1>21, <1>22 DEF Offers

\* The node that drives DAISY sends NEXT, for the first time or after the last was
\* taken by nobody.
LEMMA AddressNextKeeps ==
  ASSUME NEW j, NEW k, ChainStep(j, k), NEW n \in Nodes, AddressNext(n)
  PROVE  Offers(j, k)'
<1>0. Thread(n) /\ pc[n] = "emit_next"
  BY DEF Thread, AddressingStep, AddressNext
<1>1. /\ n \in j .. k /\ k \in j .. k /\ j \in j .. k /\ TypeOK /\ n \in Running /\ n \in Running'
      /\ j \in Nat /\ \A m \in j .. k : m \in Nodes /\ m \in Nat
  BY <1>0, Mover, ConstantsAssumption DEF ChainStep, Nodes
<1>2. Addressed(n) /\ n < k /\ n # k /\ Driven(n) /\ Offering(n) /\ ~Passed(n)
  BY <1>0, <1>1, Parts DEF Local, OfferEnds, Offering
<1>3. \A m \in Nodes : m # n => Same(m) /\ SameView(m)
  BY <1>0, <1>1, OthersSame, SameSameView
<1>4. /\ kc_recv_fifo' = kc_recv_fifo /\ daisy_out' = daisy_out
      /\ kc_node_address' = kc_node_address /\ kc_state' = kc_state
      /\ pc'[n] = "respond" /\ ~Waits(n) /\ Waits(n)' /\ n \in Active /\ n \in Active'
  BY <1>1 DEF AddressNext, Goto, TypeOK, pins, Waits, Running, Active, Down
<1>5. \A m \in Nodes : /\ Addressed(m)' = Addressed(m) /\ Driven(m)' = Driven(m)
                       /\ (m \in Running)' = (m \in Running) /\ (m \in Active)' = (m \in Active)
                       /\ Finished(m)' = Finished(m)
  <2>1. \A m \in Nodes : Addressed(m)' = Addressed(m) /\ Driven(m)' = Driven(m)
    BY <1>4 DEF Addressed, Driven
  <2>2. Finished(n)' = Finished(n) /\ (n \in Running)' = (n \in Running)
        /\ (n \in Active)' = (n \in Active)
    BY <1>0, <1>1, <1>4 DEF Finished
  <2> QED
    BY <1>3, <2>1, <2>2 DEF SameView
<1>6. \A m \in Nodes : Passed(m)' = Passed(m)
  BY <1>5 DEF Passed
<1>7. ~Offering(n)'
  BY <1>4 DEF Offering
\* the frame
<1>8. PICK f \in Frames : f.event = "NEXT" /\ f = NextFrom(j, n) /\ mailboxes'[n] = Append(mailboxes[n], f)
  <2>1. kc_node_address[n] \in Addresses /\ kc_event_emit(n, "NEXT", kc_node_address[n])
    BY <1>1 DEF AddressNext, TypeOK
  <2>2. PICK g \in Frames : /\ g.event = "NEXT" /\ g.sender = kc_node_address[n] % AddrMod
                            /\ mailboxes'[n] = Append(mailboxes[n], g)
    BY <1>1, <2>1, Emitted DEF Events
  <2>3. g.sender = Place(j, n)
    BY <1>1, <1>2, <2>2, PlaceFits, Parts DEF Places
  <2>4. g = NextFrom(j, n)
    BY <2>2, <2>3 DEF Frames, NextFrom
  <2> QED
    BY <2>2, <2>4
<1>9. f \notin Openings /\ f \notin Successes /\ f \notin Finishes
  BY <1>8, FrameKinds
<1>10. Content(mailboxes'[n]) = Content(mailboxes[n]) \cup {f}
  BY <1>1, <1>8, Queues, ContentAppend
<1>11. \A m \in Nodes : m # n => mailboxes'[m] = mailboxes[m]
  BY <1>3 DEF Same
<1>20. ASSUME NEW m \in j .. k
       PROVE  /\ Sent(j, k, m)' /\ Received(j, k, m)' /\ OfferSent(k, m)' /\ OfferEnds(m)'
              /\ OpensFirstAtLast(j, k, m)'
  <2>1. Sent(j, k, m)'
    <3>1. Sent(j, k, m) /\ NextFrom(j, m)' = NextFrom(j, m) /\ Place(j, k)' = Place(j, k)
      BY Parts DEF NextFrom, Place
    <3>2. CASE m = n
      BY <1>1, <1>2, <1>5, <1>8, <1>9, <1>10, <3>1, <3>2 DEF Sent
    <3>3. CASE m # n
      BY <1>1, <1>5, <1>11, <3>1, <3>3 DEF Sent
    <3> QED
      BY <3>2, <3>3
  <2>2. Received(j, k, m)'
    BY <1>1, <1>4, <1>5, Parts DEF Received, NextFrom, Place
  <2>3. OfferSent(k, m)'
    <3>1. CASE m = n
      BY <1>1, <1>2, <1>5, <1>6, <3>1 DEF OfferSent
    <3>2. CASE m # n
      BY <1>1, <1>5, <1>6, <1>11, <3>2, Parts DEF OfferSent
    <3> QED
      BY <3>1, <3>2
  <2>4. OfferEnds(m)'
    <3>1. CASE m = n
      BY <1>1, <1>2, <1>6, <3>1 DEF OfferEnds
    <3>2. CASE m # n
      BY <1>1, <1>3, <1>4, <1>5, <1>6, <3>2, Parts DEF OfferEnds, SameView
    <3> QED
      BY <3>1, <3>2
  <2>5. OpensFirstAtLast(j, k, m)'
    BY <1>1, <1>2, <1>4, <1>5, <1>11, Parts DEF OpensFirstAtLast, NextFrom, Place
  <2> QED
    BY <2>1, <2>2, <2>3, <2>4, <2>5
<1>21. ASSUME NEW m \in j .. k, NEW i \in j .. k
       PROVE  OfferReceived(j, m, i)' /\ SuccessComes(m, i)' /\ OneOffer(j, m, i)' /\ OpensFirst(j, m, i)'
  <2>0. i = m + 1 => i # m
    BY <1>1
  <2>1. OfferReceived(j, m, i)'
    BY <1>1, <1>4, <1>5, <1>6, Parts DEF OfferReceived, NextFrom, Place
  <2>2. SuccessComes(m, i)'
    <3>1. SuccessComes(m, i)
      BY Parts
    <3>2. ComesFirst(mailboxes[i], Successes, Finishes) => ComesFirst(mailboxes'[i], Successes, Finishes)
      BY <1>1, <1>8, <1>11, Queues, OrderAppend
    <3>3. waiting'[m] \/ Offering(m)' => waiting[m] \/ Offering(m)
      BY <1>1, <1>2, <1>3 DEF SameView
    <3> QED
      BY <1>1, <1>4, <1>5, <3>1, <3>2, <3>3 DEF SuccessComes
  <2>3. OneOffer(j, m, i)'
    <3>1. OneOffer(j, m, i)
      BY Parts
    <3>2. CASE m = n
      <4> SUFFICES ASSUME j \in Active, j < n, i = n + 1
                   PROVE  /\ Once(mailboxes'[n], Nexts) /\ ~Addressed(i)
                          /\ i \in Running => NextFrom(j, n) \notin Content(kc_recv_fifo[i])
        BY <1>1, <1>4, <1>5, <1>7, <3>2 DEF OneOffer, NextFrom, Place
      <4>1. ~Addressed(i) /\ None(mailboxes[n], Nexts) /\ Once(mailboxes[n], Nexts)
        BY <1>0, <1>1, <1>2, <1>4, <3>1, <3>2 DEF OneOffer
      <4>2. Once(mailboxes'[n], Nexts)
        BY <1>1, <1>8, <4>1, Queues, OrderAppend
      <4> QED
        BY <1>0, <1>1, <1>4, <3>1, <3>2, <4>1, <4>2 DEF OneOffer
    <3>3. CASE m # n
      BY <1>1, <1>3, <1>4, <1>5, <1>11, <3>1, <3>3 DEF OneOffer, NextFrom, Place, SameView
    <3> QED
      BY <3>2, <3>3
  <2>4. OpensFirst(j, m, i)'
    <3>1. OpensFirst(j, m, i)
      BY Parts
    <3>2. Precede(mailboxes[m], Openings, Answers) => Precede(mailboxes'[m], Openings, Answers)
      BY <1>1, <1>8, <1>9, <1>11, Queues, OrderAppend
    <3>3. None(mailboxes[m], Openings) => None(mailboxes'[m], Openings)
      BY <1>1, <1>9, <1>10, <1>11 DEF None
    <3> QED
      BY <1>1, <1>4, <1>5, <3>1, <3>2, <3>3 DEF OpensFirst, NextFrom, Place
  <2> QED
    BY <2>1, <2>2, <2>3, <2>4
<1>22. FirstUndisturbed(j, k)'
  BY <1>1, <1>4, <1>5, Parts DEF FirstUndisturbed
<1> QED
  BY <1>20, <1>21, <1>22 DEF Offers

\* A node takes the address its predecessor offers: nobody behind it has one.
LEMMA OnNextKeeps ==
  ASSUME NEW j, NEW k, ChainStep(j, k), NEW n \in Nodes, OnNext(n)
  PROVE  Offers(j, k)'
<1> DEFINE p == n - 1
<1>0. Thread(n) /\ pc[n] = "loop" /\ kc_recv_fifo[n] # <<>> /\ IsAddressed(n)
  BY DEF Thread, IncomingStep, OnNext, TakeAddress, Take
<1>1. /\ n \in j .. k /\ k \in j .. k /\ j \in j .. k /\ TypeOK /\ n \in Running /\ n \in Running'
      /\ j \in Nat /\ \A m \in j .. k : m \in Nodes /\ m \in Nat
  BY <1>0, Mover, ConstantsAssumption DEF ChainStep, Nodes
<1>2. Head(kc_recv_fifo[n]) \in Nexts
  BY <1>0, <1>1, HeadFrame DEF OnNext, TakeAddress, Take, Nexts
<1>3. /\ j < n /\ p \in j .. k /\ ~Addressed(n) /\ Addressed(p)
      /\ Head(kc_recv_fifo[n]) = NextFrom(j, p)
      /\ Driven(p) /\ ~Passed(p)
  BY <1>0, <1>1, <1>2, NextForMe
<1>4. p \in Nat /\ p < n /\ n = p + 1 /\ p # n /\ n # j
  BY <1>1, <1>3
<1> HIDE DEF p
<1>5. \A m \in Nodes : m # n => Same(m) /\ SameView(m)
  BY <1>0, <1>1, OthersSame, SameSameView
<1>6. /\ waiting' = waiting /\ daisy_out' = daisy_out /\ kc_state' = kc_state
      /\ pc'[n] = "next"
      /\ kc_recv_fifo'[n] = Tail(kc_recv_fifo[n])
      /\ \A m \in Nodes : m # n => kc_recv_fifo'[m] = kc_recv_fifo[m] /\ mailboxes'[m] = mailboxes[m]
  BY <1>1, <1>5 DEF OnNext, TakeAddress, Take, Goto, TypeOK, pins, Same
<1>7. PICK f \in Frames : f.event = "SUCCESS" /\ mailboxes'[n] = Append(mailboxes[n], f)
  <2>1. LET a == NextAddress(Head(kc_recv_fifo[n])) IN
        kc_node_address' = [kc_node_address EXCEPT ![n] = a] /\ kc_event_emit(n, "SUCCESS", a)
    BY DEF OnNext, TakeAddress
  <2>2. NextAddress(Head(kc_recv_fifo[n])) \in Addresses
    <3>1. Head(kc_recv_fifo[n]).sender \in 0 .. AddrMod - 1
      BY <1>0, <1>1, HeadFrame DEF Frames
    <3> QED
      BY <3>1, ConstantsAssumption DEF NextAddress, Addresses
  <2> QED
    BY <1>1, <2>1, <2>2, Emitted DEF Events
<1>8. Addressed(n)' /\ kc_node_address'[n] # 0
  <2>1. Head(kc_recv_fifo[n]).sender = Place(j, p) /\ Place(j, p) \in Nat
    BY <1>1, <1>3, <1>4 DEF NextFrom, Place
  <2>2. kc_node_address' = [kc_node_address EXCEPT ![n] = Place(j, p) + 1]
    BY <2>1 DEF OnNext, TakeAddress, NextAddress
  <2>3. Place(j, p) + 1 # 0
    BY <2>1
  <2> QED
    BY <1>1, <2>2, <2>3 DEF Addressed, TypeOK
<1>9. f \in Successes /\ f \notin Openings /\ f \notin Nexts /\ f \notin Finishes
  BY <1>7, FrameKinds
<1>10. Content(mailboxes'[n]) = Content(mailboxes[n]) \cup {f}
  BY <1>1, <1>7, Queues, ContentAppend
<1>11. \A m \in j .. k : Content(kc_recv_fifo'[m]) \subseteq Content(kc_recv_fifo[m])
  <2>1. Content(kc_recv_fifo'[n]) \subseteq Content(kc_recv_fifo[n])
    BY <1>0, <1>1, <1>6, Queues, ContentTail
  <2> QED
    BY <1>1, <1>6, <2>1
\* who is addressed
<1>12. \A m \in Nodes : /\ Addressed(m)' <=> Addressed(m) \/ m = n
                        /\ Driven(m)' = Driven(m) /\ (m \in Running)' = (m \in Running)
                        /\ (m \in Active)' = (m \in Active)
                        /\ waiting'[m] = waiting[m]
  <2>1. \A m \in Nodes : Driven(m)' = Driven(m)
    BY <1>6 DEF Driven
  <2> QED
    BY <1>1, <1>5, <1>6, <1>8, <2>1 DEF SameView, Running, Active, Down
<1>13. ~Addressed(k) /\ \A m \in j .. k : n < m => ~Addressed(m)
  BY <1>1, <1>3, LastIsAddressed
<1>14. ~Finished(n) /\ ~Finished(n)' /\ ~waiting[n]
  <2>1. ~Finished(n) /\ ~waiting[n]
    BY <1>1, <1>3, Parts DEF Places
  <2> QED
    BY <1>6, <2>1 DEF Finished
<1>15. \A m \in Nodes : Finished(m)' = Finished(m)
  <2>1. Finished(n)' = Finished(n)
    BY <1>14 DEF Finished
  <2> QED
    BY <1>5, <2>1 DEF SameView
<1>16. \A m \in j .. k : Passed(m)' => Passed(m)
  <2> SUFFICES ASSUME NEW m \in j .. k, NEW i \in Nodes, i > m,
                      Driven(i)' \/ (i > m + 1 /\ Addressed(i)')
               PROVE  Passed(m)
    BY DEF Passed
  <2>1. CASE Driven(i) \/ (i > m + 1 /\ Addressed(i))
    BY <2>1 DEF Passed
  <2>2. CASE ~(Driven(i) \/ (i > m + 1 /\ Addressed(i)))
    <3>1. n > m + 1
      BY <1>12, <2>2
    <3>2. p > m /\ p \in Nodes
      BY <1>1, <1>3, <1>4, <3>1
    <3> QED
      BY <1>3, <3>2 DEF Passed
  <2> QED
    BY <2>1, <2>2
<1>17. ~Passed(n)
  <2> SUFFICES ASSUME NEW i \in Nodes, i > n, Driven(i) \/ (i > n + 1 /\ Addressed(i)) PROVE FALSE
    BY DEF Passed
  <2>1. i > p /\ (i > n + 1 => i > p + 1)
    BY <1>4, ConstantsAssumption DEF Nodes
  <2> QED
    BY <1>3, <2>1 DEF Passed
<1>18. /\ None(mailboxes[n], Nexts) /\ None(mailboxes'[n], Nexts) /\ None(mailboxes[n], Finishes)
       /\ Once(mailboxes'[n], Nexts)
  <2>1. None(mailboxes[n], Nexts) /\ None(mailboxes[n], Finishes)
    BY <1>1, <1>3, <1>13, Parts DEF Sent, None
  <2>2. None(mailboxes'[n], Nexts)
    BY <1>9, <1>10, <2>1 DEF None
  <2>3. mailboxes'[n] \in Seq(Frames)
    BY <1>1 DEF ChainStep, TypeOK
  <2> QED
    BY <2>1, <2>2, <2>3, OrderEmpty
<1>19. \A m \in j .. k : NextFrom(j, m)' = NextFrom(j, m) /\ Place(j, m)' = Place(j, m)
  BY DEF NextFrom, Place
<1>20. ASSUME NEW m \in j .. k PROVE Sent(j, k, m)' /\ Received(j, k, m)'
  <2>1. Sent(j, k, m) /\ Received(j, k, m)
    BY Parts
  <2>2. Sent(j, k, m)'
    <3>1. CASE m = n
      BY <1>1, <1>8, <1>9, <1>10, <1>12, <1>19, <2>1, <3>1 DEF Sent
    <3>2. CASE m # n
      BY <1>1, <1>6, <1>12, <1>19, <2>1, <3>2 DEF Sent
    <3> QED
      BY <3>1, <3>2
  <2>3. Received(j, k, m)'
    BY <1>1, <1>11, <1>12, <1>19, <2>1 DEF Received
  <2> QED
    BY <2>2, <2>3
<1>21. ASSUME NEW m \in j .. k PROVE OfferSent(k, m)' /\ OfferEnds(m)'
  <2>1. OfferSent(k, m)'
    BY <1>1, <1>6, <1>12, <1>13, <1>16, <1>18, Parts DEF OfferSent
  <2>2. OfferEnds(m)'
    <3>1. CASE m = n
      BY <1>1, <1>16, <1>17, <3>1 DEF OfferEnds
    <3>2. CASE m # n
      BY <1>1, <1>5, <1>6, <1>12, <1>16, <3>2, Parts DEF OfferEnds, SameView
    <3> QED
      BY <3>1, <3>2
  <2> QED
    BY <2>1, <2>2
<1>22. ASSUME NEW m \in j .. k, NEW i \in j .. k
       PROVE  OfferReceived(j, m, i)' /\ SuccessComes(m, i)' /\ OneOffer(j, m, i)' /\ OpensFirst(j, m, i)'
  <2>0. /\ n \in Active
        /\ i = m + 1 => i # m /\ (m = n => ~Addressed(i) /\ i # n) /\ (i = n => m = p)
        /\ i = n /\ i # m + 1 => m # p
    BY <1>1, <1>4, <1>13 DEF Running, Active, Down
  <2>1. OfferReceived(j, m, i)'
    <3>1. OfferReceived(j, m, i)
      BY Parts
    <3> QED
      BY <1>1, <1>11, <1>12, <1>16, <1>19, <3>1 DEF OfferReceived
  <2>2. SuccessComes(m, i)'
    <3>1. SuccessComes(m, i)
      BY Parts
    <3>2. CASE m = n
      BY <1>1, <1>12, <2>0, <3>2 DEF SuccessComes
    <3>3. CASE m # n /\ i # n
      BY <1>1, <1>5, <1>6, <1>12, <3>1, <3>3 DEF SuccessComes, SameView
    <3>4. CASE m # n /\ i = n
      <4>1. None(kc_recv_fifo'[m], Finishes)
        BY <1>1, <1>6, <1>13, <3>4, LastIsAddressed
      <4>2. ComesFirst(mailboxes'[n], Successes, Finishes)
        BY <1>1, <1>7, <1>9, <1>18, Queues, OrderAppend
      <4> QED
        BY <3>4, <4>1, <4>2 DEF SuccessComes
    <3> QED
      BY <3>2, <3>3, <3>4
  <2>3. OneOffer(j, m, i)'
    <3>1. OneOffer(j, m, i)
      BY Parts
    <3>2. CASE m = n
      <4>1. NextFrom(j, n) \notin Content(kc_recv_fifo'[i])
        BY <1>1, <1>3, <1>11, NextSender
      <4> QED
        BY <1>1, <1>12, <1>18, <1>19, <2>0, <3>2, <4>1 DEF OneOffer
    <3>3. CASE m # n /\ i # n
      BY <1>1, <1>5, <1>6, <1>12, <1>19, <3>1, <3>3 DEF OneOffer, SameView
    <3>4. CASE m # n /\ i = n
      <4> SUFFICES ASSUME j \in Active, m \in Active, j < m, i = m + 1
                   PROVE  /\ Once(mailboxes[m], Nexts) /\ None(mailboxes[m], Nexts)
                          /\ Waits(m)
        BY <1>1, <1>5, <1>6, <1>12, <3>4 DEF OneOffer, SameView, Offering, Waits
      <4>1. NextFrom(j, m) \in Content(kc_recv_fifo[n])
        BY <1>0, <1>1, <1>3, <2>0, <3>4, HeadFrame
      <4> QED
        BY <1>1, <1>3, <3>1, <3>4, <4>1 DEF OneOffer
    <3> QED
      BY <3>2, <3>3, <3>4
  <2>4. OpensFirst(j, m, i)'
    <3>1. OpensFirst(j, m, i)
      BY Parts
    <3>2. CASE m = n
      <4>1. NextFrom(j, n) \notin Content(kc_recv_fifo'[i])
        BY <1>1, <1>3, <1>11, NextSender
      <4>2. Precede(mailboxes[n], Openings, Answers) => Precede(mailboxes'[n], Openings, Answers)
        BY <1>1, <1>7, <1>9, Queues, OrderAppend
      <4> QED
        BY <1>1, <1>12, <1>19, <2>0, <3>1, <3>2, <4>1, <4>2 DEF OpensFirst
    <3>3. CASE m # n /\ i # n
      BY <1>1, <1>6, <1>12, <1>19, <3>1, <3>3 DEF OpensFirst
    <3>4. CASE m # n /\ i = n
      <4>1. m = p => NextFrom(j, m) \in Content(kc_recv_fifo[n])
        BY <1>0, <1>1, <1>3, HeadFrame
      <4> QED
        BY <1>1, <1>3, <1>6, <1>12, <2>0, <3>1, <3>4, <4>1 DEF OpensFirst
    <3> QED
      BY <3>2, <3>3, <3>4
  <2> QED
    BY <2>1, <2>2, <2>3, <2>4
<1>23. ASSUME NEW i \in j .. k PROVE OpensFirstAtLast(j, k, i)'
  <2>1. OpensFirstAtLast(j, k, i) /\ ~Finished(i) /\ None(kc_recv_fifo[i], Finishes)
    BY <1>13, Parts, LastIsAddressed
  <2>2. ~Finished(i)' /\ None(kc_recv_fifo'[i], Finishes)
    BY <1>1, <1>11, <1>15, <2>1 DEF None
  <2>3. ASSUME NEW A, NEW B, Precede(kc_recv_fifo[i], A, B) PROVE Precede(kc_recv_fifo'[i], A, B)
    BY <1>0, <1>1, <1>6, <2>3, Queues, OrderTail
  <2>4. ASSUME i = k, k = n, Precede(kc_recv_fifo[n], Openings, {NextFrom(j, k - 1)})
        PROVE  None(kc_recv_fifo'[n], Openings)
    <3>1. Head(kc_recv_fifo[n]) \in {NextFrom(j, k - 1)}
      BY <1>3, <2>4 DEF p
    <3> QED
      BY <1>0, <1>1, <1>6, <2>4, <3>1, Queues, OrderTail
  <2>5. NextFrom(j, k - 1)' = NextFrom(j, k - 1)
    BY DEF NextFrom, Place
  <2> QED
    BY <1>1, <1>12, <1>13, <2>1, <2>2, <2>3, <2>4, <2>5 DEF OpensFirstAtLast
<1>24. FirstUndisturbed(j, k)'
  BY <1>1, <1>4, <1>6, <1>12, <1>15, Parts DEF FirstUndisturbed
<1> QED
  BY <1>20, <1>21, <1>22, <1>23, <1>24 DEF Offers

-----------------------------------------------------------------------------
(* The bus *)

\* The receivers append the frame; one that overruns halts instead.
LEMMA BusStep ==
  ASSUME NEW j, NEW k, ChainStep(j, k), NEW n \in Nodes, BusDeliver(n)
  PROVE  /\ n \in j .. k /\ n \in Active /\ mailboxes[n] # <<>> /\ Head(mailboxes[n]) \in Frames
         /\ mailboxes'[n] = Tail(mailboxes[n])
         /\ \A m \in Nodes :
              /\ m # n => mailboxes'[m] = mailboxes[m]
              /\ \/ kc_recv_fifo'[m] = kc_recv_fifo[m]
                 \/ /\ m # n /\ m \in Running
                    /\ kc_recv_fifo'[m] = Append(kc_recv_fifo[m], Head(mailboxes[n]))
              /\ pc'[m] = pc[m] \/ (pc'[m] = "halted" /\ m \in Running)
              /\ m \in Running' => /\ m \in Running /\ pc'[m] = pc[m]
                                   /\ m # n => kc_recv_fifo'[m] = Append(kc_recv_fifo[m], Head(mailboxes[n]))
         /\ UNCHANGED <<powered, ret, protocol, conn_prev, pins>>
<1>1. n \in Active /\ mailboxes[n] # <<>> /\ TypeOK
  BY DEF BusDeliver, ChainStep
<1>2. n \in j .. k
  BY <1>1, Parts DEF Supplied, Active
<1>3. Head(mailboxes[n]) \in Frames
  BY <1>1, Queues, ContentTail
<1>4. UNCHANGED <<powered, ret, protocol, conn_prev, pins>>
  BY DEF BusDeliver, env
<1> DEFINE others == Running \ {n}
           overrun == {m \in others : Len(kc_recv_fifo[m]) = FifoSize}
<1>5. /\ mailboxes' = [mailboxes EXCEPT ![n] = Tail(@)]
      /\ kc_recv_fifo' = [m \in Nodes |->
            IF m \in others \ overrun
              THEN Append(kc_recv_fifo[m], Head(mailboxes[n]))
              ELSE kc_recv_fifo[m]]
      /\ pc' = [m \in Nodes |-> IF m \in overrun THEN "halted" ELSE pc[m]]
  BY DEF BusDeliver
<1>6. overrun \subseteq others /\ others \subseteq Running /\ n \notin others
      /\ \A m \in Running : m # n => m \in others
  OBVIOUS
<1> HIDE DEF others, overrun
<1>7. mailboxes'[n] = Tail(mailboxes[n]) /\ \A m \in Nodes : m # n => mailboxes'[m] = mailboxes[m]
  BY <1>1, <1>5 DEF TypeOK
<1>8. ASSUME NEW m \in Nodes
      PROVE  /\ \/ kc_recv_fifo'[m] = kc_recv_fifo[m]
                \/ /\ m # n /\ m \in Running
                   /\ kc_recv_fifo'[m] = Append(kc_recv_fifo[m], Head(mailboxes[n]))
             /\ pc'[m] = pc[m] \/ (pc'[m] = "halted" /\ m \in Running)
  BY <1>5, <1>6
<1>9. ASSUME NEW m \in Nodes, m \in Running'
      PROVE  /\ m \in Running /\ pc'[m] = pc[m]
             /\ m # n => kc_recv_fifo'[m] = Append(kc_recv_fifo[m], Head(mailboxes[n]))
  <2>1. pc'[m] \notin Down
    BY <1>9 DEF Running
  <2>2. m \notin overrun /\ pc'[m] = pc[m]
    BY <1>5, <2>1 DEF Down
  <2>3. m \in Running
    BY <2>1, <2>2 DEF Running
  <2> QED
    BY <1>5, <1>6, <2>2, <2>3
<1> QED
  BY <1>1, <1>2, <1>3, <1>4, <1>7, <1>8, <1>9

\* The bus changes no place on the chain.
LEMMA BusPlaces ==
  ASSUME NEW j, NEW k, ChainStep(j, k), NEW n \in Nodes, BusDeliver(n)
  PROVE  /\ Supplied(j, k)'
         /\ \A m \in j .. k : (m \in Running' => Local(j, k, m)') /\ Places(j, k, m)'
<1>1. /\ n \in Active /\ UNCHANGED <<powered, ret, protocol, conn_prev, pins>>
      /\ \A m \in Nodes :
           /\ m # n => mailboxes'[m] = mailboxes[m]
           /\ kc_recv_fifo'[m] = kc_recv_fifo[m] \/ m \in Running
           /\ pc'[m] = pc[m] \/ (pc'[m] = "halted" /\ m \in Running)
           /\ m \in Running' => m \in Running /\ pc'[m] = pc[m]
  BY BusStep
<1>2. \A m \in j .. k : m \in Nodes
  BY Parts
<1>3. /\ powered' = powered /\ ret' = ret /\ conn_prev' = conn_prev
      /\ daisy_in_pull' = daisy_in_pull /\ daisy_out' = daisy_out
      /\ kc_state' = kc_state /\ kc_node_address' = kc_node_address /\ kc_bus_size' = kc_bus_size
      /\ already_addressed' = already_addressed /\ waiting' = waiting /\ filter1' = filter1
  BY <1>1 DEF protocol, pins
<1>4. ASSUME NEW m \in Nodes
      PROVE  (m \notin j .. k <=> pc'[m] = "off") /\ (pc'[m] \in {"off", "reset"} => Blank(m)')
  <2>1. m \in Running => pc[m] \notin {"off", "reset"}
    BY DEF Running, Down
  <2>2. /\ (pc'[m] = "off") = (pc[m] = "off")
        /\ pc'[m] \in {"off", "reset"} => pc[m] \in {"off", "reset"} /\ m \notin Running /\ m # n
    BY <1>1, <2>1 DEF Active
  <2>3. pc'[m] \in {"off", "reset"} => mailboxes'[m] = mailboxes[m] /\ kc_recv_fifo'[m] = kc_recv_fifo[m]
    BY <1>1, <2>2
  <2> QED
    BY <1>3, <2>2, <2>3, Parts DEF Supplied, Blank, Driven
<1>5. Supplied(j, k)'
  BY <1>3, <1>4, Parts DEF Supplied
<1>6. ASSUME NEW m \in j .. k, m \in Running' PROVE Local(j, k, m)'
  <2>1. Local(j, k, m) /\ pc'[m] = pc[m]
    BY <1>1, <1>2, <1>6, Parts
  <2>2. /\ mailboxes[m] = <<>> => mailboxes'[m] = <<>>
        /\ Len(mailboxes[m]) <= 1 => Len(mailboxes'[m]) <= 1
    <3>1. mailboxes[m] \in Seq(Frames)
      BY <1>2 DEF ChainStep, TypeOK
    <3>2. mailboxes'[m] = mailboxes[m] \/ (mailboxes[m] # <<>> /\ mailboxes'[m] = Tail(mailboxes[m]))
      <4>1. mailboxes[n] # <<>> /\ mailboxes'[n] = Tail(mailboxes[n])
        BY DEF BusDeliver, ChainStep, TypeOK
      <4> QED
        BY <1>1, <1>2, <4>1
    <3>3. CASE mailboxes'[m] = mailboxes[m]
      BY <3>3
    <3>4. CASE mailboxes[m] # <<>> /\ mailboxes'[m] = Tail(mailboxes[m])
      <4>1. Len(mailboxes[m]) \in Nat /\ Len(Tail(mailboxes[m])) = Len(mailboxes[m]) - 1
        BY <3>1, <3>4
      <4>2. Len(mailboxes'[m]) = Len(mailboxes[m]) - 1
        BY <3>4, <4>1
      <4> QED
        BY <3>4, <4>1, <4>2
    <3> QED
      BY <3>2, <3>3, <3>4
  <2> QED
    BY <1>3, <2>1, <2>2 DEF Local, Addressed, Driven, Offering, kc_in_connected, kc_out_connected
<1>7. ASSUME NEW m \in j .. k PROVE Places(j, k, m)'
  <2>1. Places(j, k, m) /\ (Finished(m)' => Finished(m))
    BY <1>1, <1>2, <1>3, Parts DEF Finished
  <2> QED
    BY <1>3, <2>1 DEF Places, Addressed, Driven, Place
<1> QED
  BY <1>5, <1>6, <1>7

\* A frame that moves from a mailbox into the FIFOs.
LEMMA BusKeeps ==
  ASSUME NEW j, NEW k, ChainStep(j, k), NEW n \in Nodes, BusDeliver(n)
  PROVE  Offers(j, k)'
<1> DEFINE f == Head(mailboxes[n])
<1>1. /\ n \in j .. k /\ k \in j .. k /\ j \in j .. k /\ TypeOK
      /\ j \in Nat /\ k \in Nat /\ \A m \in j .. k : m \in Nodes /\ m \in Nat /\ j <= m /\ m <= k
  BY BusStep, ConstantsAssumption DEF ChainStep, Nodes
<1>2. /\ n \in Active /\ mailboxes[n] # <<>> /\ f \in Frames
      /\ mailboxes'[n] = Tail(mailboxes[n])
      /\ \A m \in Nodes :
           /\ m # n => mailboxes'[m] = mailboxes[m]
           /\ \/ kc_recv_fifo'[m] = kc_recv_fifo[m]
              \/ /\ m # n /\ m \in Running
                 /\ kc_recv_fifo'[m] = Append(kc_recv_fifo[m], f)
           /\ pc'[m] = pc[m] \/ (pc'[m] = "halted" /\ m \in Running)
           /\ m \in Running' => /\ m \in Running /\ pc'[m] = pc[m]
                                /\ m # n => kc_recv_fifo'[m] = Append(kc_recv_fifo[m], f)
      /\ UNCHANGED <<powered, ret, protocol, conn_prev, pins>>
  BY BusStep
<1>3. \A m \in j .. k : /\ mailboxes[m] \in Seq(Frames) /\ Content(mailboxes[m]) \subseteq Frames
                        /\ kc_recv_fifo[m] \in Seq(Frames) /\ Content(kc_recv_fifo[m]) \subseteq Frames
  BY <1>1, Queues
<1>4. f \in Content(mailboxes[n])
  BY <1>1, <1>2, <1>3, ContentTail
<1> HIDE DEF f
<1>5. /\ \A m \in Nodes : /\ Addressed(m)' = Addressed(m) /\ Driven(m)' = Driven(m)
                          /\ waiting'[m] = waiting[m]
                          /\ Finished(m)' => Finished(m)
                          /\ Offering(m)' => Offering(m)
                          /\ m \in Running' => m \in Running /\ pc'[m] = pc[m]
                          /\ (m \in Active' => m \in Active) /\ (Waits(m) => Waits(m)')
                          /\ m \in Running => m \in Active
  BY <1>2 DEF protocol, pins, Addressed, Driven, Finished, Offering, Running, Active, Waits, Down
<1>6. \A m \in Nodes : Passed(m)' = Passed(m)
  BY <1>5 DEF Passed
<1>7. \A m \in j .. k : NextFrom(j, m)' = NextFrom(j, m) /\ Place(j, m)' = Place(j, m)
  BY DEF NextFrom, Place
\* the queues
<1>8. \A m \in j .. k : Content(mailboxes'[m]) \subseteq Content(mailboxes[m])
  <2>1. Content(mailboxes'[n]) \subseteq Content(mailboxes[n])
    BY <1>1, <1>2, <1>3, ContentTail
  <2> QED
    BY <1>1, <1>2, <2>1
<1>9. \A m \in j .. k : \/ Content(kc_recv_fifo'[m]) = Content(kc_recv_fifo[m])
                        \/ m # n /\ Content(kc_recv_fifo'[m]) = Content(kc_recv_fifo[m]) \cup {f}
  BY <1>1, <1>2, <1>3, ContentAppend
<1>10. ASSUME NEW m \in j .. k, NEW A, None(mailboxes[m], A) PROVE None(mailboxes'[m], A)
  BY <1>8, <1>10 DEF None
<1>11. ASSUME NEW m \in j .. k, NEW A, None(kc_recv_fifo[m], A), m # n => f \notin A
       PROVE  None(kc_recv_fifo'[m], A)
  BY <1>9, <1>11 DEF None
<1>12. ASSUME NEW m \in j .. k, NEW A, NEW B, Precede(mailboxes[m], A, B)
       PROVE  Precede(mailboxes'[m], A, B)
  <2>1. CASE m = n
    <3>1. Precede(Tail(mailboxes[m]), A, B)
      BY <1>2, <1>3, <1>12, <2>1, OrderTail
    <3> QED
      BY <1>2, <2>1, <3>1
  <2>2. CASE m # n
    BY <1>1, <1>2, <1>12, <2>2
  <2> QED
    BY <2>1, <2>2
<1>13. ASSUME NEW m \in j .. k, NEW A, NEW B, Precede(kc_recv_fifo[m], A, B),
              m # n /\ f \in A => None(kc_recv_fifo[m], B) /\ f \notin B
       PROVE  Precede(kc_recv_fifo'[m], A, B)
  BY <1>1, <1>2, <1>3, <1>13, OrderAppend
<1>14. ASSUME NEW m \in j .. k, NEW A, NEW B, ComesFirst(kc_recv_fifo[m], A, B)
       PROVE  ComesFirst(kc_recv_fifo'[m], A, B)
  BY <1>1, <1>2, <1>3, <1>14, OrderAppend
<1>15. ASSUME NEW A, NEW B, Precede(mailboxes[n], A, B), f \in B
       PROVE  None(mailboxes'[n], A)
  BY <1>1, <1>2, <1>3, <1>15, OrderTail DEF f
\* the frame
<1>16. /\ f \in Nexts => Addressed(n) /\ n < k /\ f = NextFrom(j, n) /\ ~None(mailboxes[n], Nexts)
       /\ f \in Finishes => n = k /\ Addressed(k) /\ f.sender = Place(j, k)
  BY <1>1, <1>4, Parts DEF Sent, None
<1>17. \A m \in j .. k : f = NextFrom(j, m) => f \in Nexts /\ m = n
  <2> SUFFICES ASSUME NEW m \in j .. k, f = NextFrom(j, m) PROVE f \in Nexts /\ m = n
    OBVIOUS
  <2>1. f \in Nexts
    BY PlaceFits
  <2>2. Place(j, m) = Place(j, n)
    BY <1>16, <2>1 DEF NextFrom
  <2> QED
    BY <1>1, <2>1, <2>2 DEF Place
<1>18. f \in Openings => /\ n < k => n + 1 \in j .. k /\ ~Addressed(n + 1) /\ ~Addressed(k)
                         /\ f \notin Answers /\ f \notin Nexts /\ f \notin Finishes
  <2> SUFFICES ASSUME f \in Openings
               PROVE  /\ n < k => n + 1 \in j .. k /\ ~Addressed(n + 1) /\ ~Addressed(k)
                      /\ f \notin Answers /\ f \notin Nexts /\ f \notin Finishes
    OBVIOUS
  <2>1. ASSUME n < k PROVE n + 1 \in j .. k /\ ~Addressed(n + 1) /\ ~Addressed(k)
    <3>1. n + 1 \in j .. k
      BY <1>1, <2>1
    <3>2. ~None(mailboxes[n], Openings)
      BY <1>4 DEF None
    <3>3. ~Addressed(n + 1)
      BY <1>1, <1>2, <3>1, <3>2, Parts DEF OpensFirst
    <3> QED
      BY <3>1, <3>3, LastIsAddressed
  <2>2. f \notin Answers
    BY <1>2, FrameKinds
  <2> QED
    BY <2>1, <2>2 DEF Answers
<1>20. ASSUME NEW m \in j .. k
       PROVE  Sent(j, k, m)' /\ Received(j, k, m)' /\ OfferSent(k, m)' /\ OfferEnds(m)'
  <2>1. Sent(j, k, m)'
    BY <1>1, <1>5, <1>7, <1>8, Parts DEF Sent
  <2>2. Received(j, k, m)'
    BY <1>1, <1>5, <1>7, <1>9, <1>16, Parts DEF Received
  <2>3. OfferSent(k, m)'
    BY <1>1, <1>5, <1>6, <1>10, Parts DEF OfferSent
  <2>4. OfferEnds(m)'
    BY <1>1, <1>5, <1>6, <1>14, Parts DEF OfferEnds
  <2> QED
    BY <2>1, <2>2, <2>3, <2>4
<1>21. ASSUME NEW m \in j .. k, NEW i \in j .. k PROVE OfferReceived(j, m, i)'
  <2> SUFFICES ASSUME i \in Running', ~Addressed(i), NextFrom(j, m) \in Content(kc_recv_fifo'[i])
               PROVE  ~Passed(m) /\ Driven(m)
    BY <1>1, <1>5, <1>6, <1>7 DEF OfferReceived
  <2>1. CASE NextFrom(j, m) \in Content(kc_recv_fifo[i])
    BY <1>1, <1>5, <2>1, Parts DEF OfferReceived
  <2>2. CASE NextFrom(j, m) \notin Content(kc_recv_fifo[i])
    <3>1. m = n /\ f \in Nexts
      BY <1>9, <1>17, <2>2
    <3>2. ~Addressed(k)
      BY LastIsAddressed
    <3> QED
      BY <1>1, <1>2, <1>16, <3>1, <3>2, Parts DEF OfferSent
  <2> QED
    BY <2>1, <2>2
<1>22. ASSUME NEW m \in j .. k, NEW i \in j .. k PROVE SuccessComes(m, i)'
  <2> SUFFICES ASSUME m \in Running', waiting[m] \/ Offering(m), i = m + 1, Addressed(i),
                      ~ComesFirst(kc_recv_fifo'[m], Successes, Finishes)
               PROVE  /\ None(kc_recv_fifo'[m], Finishes)
                      /\ ComesFirst(mailboxes'[i], Successes, Finishes)
    BY <1>1, <1>5 DEF SuccessComes
  <2>1. /\ ~ComesFirst(kc_recv_fifo[m], Successes, Finishes) /\ m \in Running
        /\ None(kc_recv_fifo[m], Finishes) /\ ComesFirst(mailboxes[i], Successes, Finishes)
    BY <1>1, <1>5, <1>14, Parts DEF SuccessComes
  <2>2. CASE n = i
    <3>1. m # n
      BY <1>1, <2>2
    <3>2. kc_recv_fifo'[m] = Append(kc_recv_fifo[m], f)
      BY <1>1, <1>2, <3>1
    <3>3. f \notin Finishes /\ (f \notin Successes => ComesFirst(mailboxes'[n], Successes, Finishes))
      BY <1>1, <1>2, <1>3, <2>1, <2>2, OrderTail DEF f
    <3>4. f \notin Successes
      BY <1>2, <1>3, <2>1, <3>2, <3>3, OrderAppend
    <3> QED
      BY <1>11, <2>1, <2>2, <3>3, <3>4
  <2>3. CASE n # i
    <3>1. mailboxes'[i] = mailboxes[i]
      BY <1>1, <1>2, <2>3
    <3>2. m # n => f \notin Finishes
      <4> SUFFICES ASSUME m # n, f \in Finishes PROVE FALSE
        OBVIOUS
      <4>1. n = k /\ Addressed(k)
        BY <1>16
      <4>2. k > m /\ k > m + 1 /\ k \in Nodes
        BY <1>1, <2>3, <4>1
      <4>3. Passed(m)
        BY <4>1, <4>2 DEF Passed
      <4> QED
        BY <2>1, <4>3, Parts DEF OfferEnds
    <3> QED
      BY <1>11, <2>1, <3>1, <3>2
  <2> QED
    BY <2>2, <2>3
<1>23. ASSUME NEW m \in j .. k, NEW i \in j .. k PROVE OneOffer(j, m, i)'
  <2> SUFFICES ASSUME j \in Active', m \in Active', j < m, i = m + 1
               PROVE  /\ Once(mailboxes'[m], Nexts)
                      /\ ~None(mailboxes'[m], Nexts) => Waits(m)' /\ ~Addressed(i)
                      /\ i \in Running' /\ ~Addressed(i) /\ NextFrom(j, m) \in Content(kc_recv_fifo'[i]) =>
                           Waits(m)' /\ None(mailboxes'[m], Nexts)
                      /\ Offering(m)' => ~Addressed(i)
                      /\ waiting[m] /\ Addressed(i) /\ ~Waits(m)'
                           => ~None(kc_recv_fifo'[m], Successes)
    BY <1>1, <1>5, <1>7 DEF OneOffer
  <2>1. OneOffer(j, m, i) /\ j \in Active /\ m \in Active /\ (i \in Running' => i \in Running)
    BY <1>1, <1>5, Parts
  <2>2. Once(mailboxes'[m], Nexts)
    <3>1. Once(mailboxes[m], Nexts)
      BY <2>1 DEF OneOffer
    <3>2. CASE m = n
      <4>1. Once(Tail(mailboxes[m]), Nexts)
        BY <1>2, <1>3, <3>1, <3>2, OrderTail
      <4> QED
        BY <1>2, <3>2, <4>1
    <3>3. CASE m # n
      BY <1>1, <1>2, <3>1, <3>3
    <3> QED
      BY <3>2, <3>3
  <2>3. /\ ~None(mailboxes'[m], Nexts) => Waits(m)' /\ ~Addressed(i)
        /\ Offering(m)' => ~Addressed(i)
    BY <1>1, <1>5, <1>10, <2>1 DEF OneOffer
  <2>4. ASSUME i \in Running', ~Addressed(i), NextFrom(j, m) \in Content(kc_recv_fifo'[i])
        PROVE  Waits(m)' /\ None(mailboxes'[m], Nexts)
    <3>1. CASE NextFrom(j, m) \in Content(kc_recv_fifo[i])
      BY <1>1, <1>5, <1>10, <2>1, <2>4, <3>1 DEF OneOffer
    <3>2. CASE NextFrom(j, m) \notin Content(kc_recv_fifo[i])
      <4>1. m = n /\ f \in Nexts
        BY <1>9, <1>17, <2>4, <3>2
      <4>2. None(mailboxes'[n], Nexts)
        <5>1. Once(mailboxes[n], Nexts) /\ Head(mailboxes[n]) \in Nexts
          BY <2>1, <4>1 DEF OneOffer, f
        <5>2. None(Tail(mailboxes[n]), Nexts)
          BY <1>1, <1>2, <1>3, <5>1, OrderTail
        <5> QED
          BY <1>2, <5>2
      <4> QED
        BY <1>1, <1>5, <1>16, <2>1, <4>1, <4>2 DEF OneOffer
    <3> QED
      BY <3>1, <3>2
  <2>5. ASSUME waiting[m], Addressed(i), ~Waits(m)' PROVE ~None(kc_recv_fifo'[m], Successes)
    BY <1>1, <1>5, <1>9, <2>1, <2>5 DEF OneOffer, None
  <2> QED
    BY <2>2, <2>3, <2>4, <2>5
<1>24. ASSUME NEW m \in j .. k, NEW i \in j .. k PROVE OpensFirst(j, m, i)'
  <2> SUFFICES ASSUME m \in Active'
               PROVE  /\ Precede(mailboxes'[m], Openings, Answers)
                      /\ i \in Running' /\ ~Addressed(i) /\ NextFrom(j, m) \in Content(kc_recv_fifo'[i])
                           => None(mailboxes'[m], Openings)
                      /\ i = m + 1 /\ Addressed(i) => None(mailboxes'[m], Openings)
    BY <1>1, <1>5, <1>7 DEF OpensFirst
  <2>1. OpensFirst(j, m, i) /\ m \in Active /\ (i \in Running' => i \in Running)
    BY <1>1, <1>5, Parts
  <2>2. /\ Precede(mailboxes[m], Openings, Answers)
        /\ Precede(mailboxes'[m], Openings, Answers)
    BY <1>12, <2>1 DEF OpensFirst
  <2>3. ASSUME i \in Running', ~Addressed(i), NextFrom(j, m) \in Content(kc_recv_fifo'[i])
        PROVE  None(mailboxes'[m], Openings)
    <3>1. CASE NextFrom(j, m) \in Content(kc_recv_fifo[i])
      BY <1>10, <2>1, <2>3, <3>1 DEF OpensFirst
    <3>2. CASE NextFrom(j, m) \notin Content(kc_recv_fifo[i])
      <4>1. m = n /\ f \in Answers
        BY <1>9, <1>17, <2>3, <3>2 DEF Answers
      <4> QED
        BY <1>15, <2>2, <4>1
    <3> QED
      BY <3>1, <3>2
  <2> QED
    BY <1>10, <2>1, <2>2, <2>3 DEF OpensFirst
\* Nobody sends what opens a procedure any more.
<1>25. ASSUME NEW i \in j .. k, i # n, i \in Running, Addressed(k),
              i = k \/ Finished(i) \/ ~None(kc_recv_fifo[i], Finishes)
       PROVE  f \notin Openings
  <2>1. CASE n < k
    BY <1>18, <1>25, <2>1
  <2>2. CASE ~(n < k)
    <3>1. n = k
      BY <1>1, <2>2
    <3>2. None(mailboxes[k], Openings)
      BY <1>2, <1>25, <3>1, Parts DEF OpensFirstAtLast
    <3> QED
      BY <1>4, <3>1, <3>2 DEF None
  <2> QED
    BY <2>1, <2>2
<1>26. ASSUME NEW i \in j .. k PROVE OpensFirstAtLast(j, k, i)'
  <2>1. OpensFirstAtLast(j, k, i) /\ (i \in Running' => i \in Running)
        /\ (Finished(i) \/ ~None(kc_recv_fifo[i], Finishes) => Addressed(k))
    BY <1>1, <1>5, Parts, LastIsAddressed
  <2>2. ASSUME k \in Active', i \in Running', i # k, Finished(i)' \/ ~None(kc_recv_fifo'[i], Finishes)
        PROVE  None(mailboxes'[k], Openings)
    <3>1. CASE Finished(i) \/ ~None(kc_recv_fifo[i], Finishes)
      BY <1>1, <1>5, <1>10, <2>1, <2>2, <3>1 DEF OpensFirstAtLast
    <3>2. CASE ~(Finished(i) \/ ~None(kc_recv_fifo[i], Finishes))
      <4>1. f \in Finishes
        BY <1>1, <1>5, <1>11, <2>2, <3>2
      <4>2. n = k /\ f \in Answers
        BY <1>16, <4>1 DEF Answers
      <4>3. Precede(mailboxes[n], Openings, Answers)
        BY <1>1, <1>2, Parts DEF OpensFirst
      <4> QED
        BY <1>15, <4>2, <4>3
    <3> QED
      BY <3>1, <3>2
  <2>3. ASSUME i \in Running', i = k
        PROVE  /\ Precede(kc_recv_fifo'[k], Openings, {NextFrom(j, k - 1)})
               /\ Addressed(k) => None(kc_recv_fifo'[k], Openings)
    <3>1. /\ Precede(kc_recv_fifo[k], Openings, {NextFrom(j, k - 1)})
          /\ Addressed(k) => None(kc_recv_fifo[k], Openings)
      BY <2>1, <2>3 DEF OpensFirstAtLast
    <3>2. Addressed(k) => None(kc_recv_fifo'[k], Openings)
      BY <1>1, <1>11, <1>25, <2>1, <2>3, <3>1
    <3>3. ASSUME k # n, f \in Openings
          PROVE  None(kc_recv_fifo[k], {NextFrom(j, k - 1)}) /\ f \notin {NextFrom(j, k - 1)}
      <4>1. n < k /\ k - 1 \in j .. k /\ (n < k - 1 \/ (n = k - 1 /\ k = n + 1))
        BY <1>1, <3>3
      <4>2. ~Addressed(n + 1) /\ n + 1 \in j .. k /\ ~Addressed(k)
        BY <1>18, <3>3, <4>1
      <4>3. NextFrom(j, k - 1) \notin Content(kc_recv_fifo[k])
        <5> SUFFICES ASSUME NextFrom(j, k - 1) \in Content(kc_recv_fifo[k]) PROVE FALSE
          OBVIOUS
        <5>1. CASE n < k - 1
          <6>1. Addressed(k - 1)
            BY <1>1, <4>1, NextSender
          <6>2. n + 1 = k - 1 \/ n + 1 < k - 1
            BY <1>1, <5>1
          <6>3. Addressed(n + 1)
            BY <4>1, <4>2, <6>1, <6>2, LastIsAddressed
          <6> QED
            BY <4>2, <6>3
        <5>2. CASE n = k - 1
          <6>1. OpensFirst(j, n, k)
            BY <1>1, Parts
          <6>2. None(mailboxes[n], Openings)
            BY <1>1, <1>2, <2>1, <2>3, <4>2, <5>2, <6>1 DEF OpensFirst
          <6> QED
            BY <1>4, <3>3, <6>2 DEF None
        <5> QED
          BY <4>1, <5>1, <5>2
      <4>4. f # NextFrom(j, k - 1)
        BY <3>3, <4>1, <1>17, <1>18
      <4> QED
        BY <4>3, <4>4 DEF None
    <3> QED
      BY <1>1, <1>13, <3>1, <3>2, <3>3
  <2>4. ASSUME i \in Running'
        PROVE  /\ Precede(kc_recv_fifo'[i], Openings, Finishes)
               /\ Finished(i)' => None(kc_recv_fifo'[i], Openings)
    <3>1. /\ Precede(kc_recv_fifo[i], Openings, Finishes)
          /\ Finished(i) => None(kc_recv_fifo[i], Openings)
      BY <2>1, <2>4 DEF OpensFirstAtLast
    <3>2. Finished(i)' => None(kc_recv_fifo'[i], Openings)
      BY <1>1, <1>5, <1>11, <1>25, <2>1, <2>4, <3>1
    <3>3. i # n /\ f \in Openings => None(kc_recv_fifo[i], Finishes) /\ f \notin Finishes
      BY <1>18, <1>25, <2>1, <2>4
    <3> QED
      BY <1>13, <3>1, <3>2, <3>3
  <2>5. NextFrom(j, k - 1)' = NextFrom(j, k - 1)
    BY DEF NextFrom, Place
  <2> QED
    BY <1>1, <1>5, <2>2, <2>3, <2>4, <2>5 DEF OpensFirstAtLast
<1>27. FirstUndisturbed(j, k)'
  <2> SUFFICES ASSUME j \in Running'
               PROVE  /\ Precede(kc_recv_fifo'[j], Nexts, Finishes)
                      /\ Finished(j)' => None(kc_recv_fifo'[j], Nexts)
                      /\ j = k => kc_recv_fifo'[j] = <<>>
    BY DEF FirstUndisturbed
  <2>1. FirstUndisturbed(j, k) /\ j \in Running
        /\ (Finished(j) \/ ~None(kc_recv_fifo[j], Finishes) => Addressed(k))
    BY <1>1, <1>5, Parts, LastIsAddressed
  <2>2. j # n /\ f \in Nexts => ~Addressed(k) /\ f \notin Finishes
    <3> SUFFICES ASSUME j # n, f \in Nexts PROVE ~Addressed(k) /\ f \notin Finishes
      OBVIOUS
    <3>1. n < k /\ ~None(mailboxes[n], Nexts)
      BY <1>16
    <3>2. j < n /\ n + 1 \in j .. k
      BY <1>1, <3>1
    <3>3. ~Addressed(n + 1)
      BY <1>1, <1>2, <1>5, <2>1, <3>1, <3>2, Parts DEF OneOffer
    <3> QED
      BY <1>16, <3>2, <3>3, LastIsAddressed
  <2>3. j = k => kc_recv_fifo'[j] = <<>>
    <3>1. j = k => n = j
      BY <1>1
    <3> QED
      BY <1>1, <1>2, <2>1, <3>1 DEF FirstUndisturbed
  <2>4. Precede(kc_recv_fifo'[j], Nexts, Finishes)
    BY <1>1, <1>13, <2>1, <2>2 DEF FirstUndisturbed
  <2>5. Finished(j)' => None(kc_recv_fifo'[j], Nexts)
    BY <1>1, <1>5, <1>11, <2>1, <2>2 DEF FirstUndisturbed
  <2> QED
    BY <2>3, <2>4, <2>5
<1> QED
  BY <1>20, <1>21, <1>22, <1>23, <1>24, <1>26, <1>27 DEF Offers

-----------------------------------------------------------------------------
(* The theorems *)

\* The supply reaches one part of the chain, and no node in it is left out.
Contiguous == \A P \in InitPowered : \E j, k \in Nodes : j <= k /\ P = j .. k

\* A step of a thread keeps the parts about frames and offers.
LEMMA ThreadOffers ==
  ASSUME NEW j, NEW k, ChainStep(j, k), NEW n \in Nodes, Thread(n)
  PROVE  Offers(j, k)'
<1>1. n \in j .. k
  BY Mover
<1>2. \A m \in Nodes : m # n => Same(m)
  BY OthersSame DEF ChainStep
<1>3. CASE kc_init(n)
  BY <1>3, BootKeeps
<1>4. CASE StartAddressing(n)
  BY <1>4, StartKeeps
<1>5. CASE DriveDaisy(n)
  BY <1>5, DriveDaisyKeeps
<1>6. CASE AddressNext(n)
  BY <1>6, AddressNextKeeps
<1>7. CASE RespondDelay(n)
  BY <1>7, RespondDelayKeeps
<1>8. CASE Retry(n)
  BY <1>8, RetryKeeps
<1>9. CASE OnNext(n)
  BY <1>9, OnNextKeeps
<1>10. CASE /\ ~kc_init(n) /\ ~StartAddressing(n) /\ ~DriveDaisy(n) /\ ~AddressNext(n)
            /\ ~RespondDelay(n) /\ ~Retry(n) /\ ~OnNext(n)
  <2>1. Settles(j, k, n)
    BY <1>10, SettlingStep
  <2> QED
    BY <1>1, <1>2, <2>1, SettlesKeeps
<1> QED
  BY <1>3, <1>4, <1>5, <1>6, <1>7, <1>8, <1>9, <1>10

\* A step of a thread or of the bus keeps the invariant.
LEMMA ChainKept ==
  ASSUME NEW j, NEW k, ChainStep(j, k), NEW n \in Nodes, Thread(n) \/ BusDeliver(n)
  PROVE  ChainInv(j, k)'
<1>1. Supplied(j, k)' /\ \A m \in j .. k : (m \in Running' => Local(j, k, m)') /\ Places(j, k, m)'
  BY ThreadPlaces, BusPlaces
<1>2. Offers(j, k)'
  BY ThreadOffers, BusKeeps
<1> QED
  BY <1>1, <1>2 DEF ChainInv, Offers

\* Nothing happens.
LEMMA ChainStutter ==
  ASSUME NEW j, NEW k, ChainInv(j, k), UNCHANGED vars
  PROVE  ChainInv(j, k)'
<1>1. /\ powered' = powered /\ faults' = faults /\ pc' = pc /\ ret' = ret
      /\ kc_state' = kc_state /\ kc_node_address' = kc_node_address /\ kc_bus_size' = kc_bus_size
      /\ already_addressed' = already_addressed /\ waiting' = waiting /\ filter1' = filter1
      /\ conn_prev' = conn_prev /\ daisy_in_pull' = daisy_in_pull /\ daisy_out' = daisy_out
      /\ mailboxes' = mailboxes /\ kc_recv_fifo' = kc_recv_fifo
  BY DEF vars, env, protocol, pins, bus
<1>2. /\ Running' = Running /\ Active' = Active
      /\ \A n : /\ Addressed(n)' = Addressed(n) /\ Driven(n)' = Driven(n) /\ Finished(n)' = Finished(n)
                /\ Waits(n)' = Waits(n)
                /\ Offering(n)' = Offering(n) /\ Blank(n)' = Blank(n)
                /\ kc_in_connected(n)' = kc_in_connected(n) /\ kc_out_connected(n)' = kc_out_connected(n)
      /\ \A n : Place(j, n)' = Place(j, n) /\ NextFrom(j, n)' = NextFrom(j, n)
  BY <1>1 DEF Running, Active, Waits, Addressed, Driven, Finished, Offering, Blank, Place, NextFrom,
              kc_in_connected, kc_out_connected
<1>3. \A n : Passed(n)' = Passed(n)
  BY <1>2 DEF Passed
<1>4. Supplied(j, k)'
  BY <1>1, <1>2 DEF ChainInv, Supplied
<1>5. ASSUME NEW n \in j .. k
      PROVE  /\ (n \in Running' => Local(j, k, n)') /\ Places(j, k, n)' /\ Sent(j, k, n)'
             /\ Received(j, k, n)' /\ OfferSent(k, n)' /\ OfferEnds(n)' /\ OpensFirstAtLast(j, k, n)'
  <2>1. /\ (n \in Running => Local(j, k, n)) /\ Places(j, k, n) /\ Sent(j, k, n)
        /\ Received(j, k, n) /\ OfferSent(k, n) /\ OfferEnds(n) /\ OpensFirstAtLast(j, k, n)
    BY DEF ChainInv
  <2>2. (n \in Running' => Local(j, k, n)') /\ Places(j, k, n)'
    BY <1>1, <1>2, <2>1 DEF Local, Places
  <2>3. Sent(j, k, n)' /\ Received(j, k, n)'
    BY <1>1, <1>2, <2>1 DEF Sent, Received
  <2>4. OfferSent(k, n)' /\ OfferEnds(n)' /\ OpensFirstAtLast(j, k, n)'
    BY <1>1, <1>2, <1>3, <2>1 DEF OfferSent, OfferEnds, OpensFirstAtLast
  <2> QED
    BY <2>2, <2>3, <2>4
<1>6. ASSUME NEW m \in j .. k, NEW n \in j .. k
      PROVE  OfferReceived(j, m, n)' /\ SuccessComes(m, n)' /\ OneOffer(j, m, n)' /\ OpensFirst(j, m, n)'
  <2>1. OfferReceived(j, m, n) /\ SuccessComes(m, n) /\ OneOffer(j, m, n) /\ OpensFirst(j, m, n)
    BY DEF ChainInv
  <2> QED
    BY <1>1, <1>2, <1>3, <2>1 DEF OfferReceived, SuccessComes, OneOffer, OpensFirst
<1>7. FirstUndisturbed(j, k)'
  BY <1>1, <1>2 DEF ChainInv, FirstUndisturbed
<1> QED
  BY <1>4, <1>5, <1>6, <1>7 DEF ChainInv

\* A chain before kc_init.
LEMMA ChainStart ==
  ASSUME Init, TypeOK, NEW j \in Nodes, NEW k \in Nodes, j <= k, powered = j .. k
  PROVE  ChainInv(j, k)
<1>1. ASSUME NEW n \in Nodes
      PROVE  /\ Blank(n) /\ n \notin Running /\ n \notin Active /\ ~Addressed(n) /\ ~Driven(n) /\ ~Finished(n)
             /\ ~waiting[n] /\ ~already_addressed[n] /\ kc_state[n] # "READY"
             /\ mailboxes[n] = <<>> /\ kc_recv_fifo[n] = <<>>
  BY DEF Init, Blank, Running, Active, Down, Addressed, Driven, Finished
<1>2. \A n \in Nodes : Content(mailboxes[n]) = {} /\ Content(kc_recv_fifo[n]) = {}
  BY <1>1, Queues, ContentEmpty
<1>3. \A n \in j .. k : n \in Nodes
  BY ConstantsAssumption DEF Nodes
<1>4. Supplied(j, k)
  BY <1>1, <1>3 DEF Supplied, Init
<1>5. \A n \in j .. k : /\ Places(j, k, n) /\ Sent(j, k, n) /\ Received(j, k, n)
                        /\ OfferSent(k, n) /\ OfferEnds(n) /\ OpensFirstAtLast(j, k, n)
  BY <1>1, <1>2, <1>3 DEF Places, Sent, Received, OfferSent, OfferEnds, OpensFirstAtLast
<1>6. \A m, n \in j .. k : /\ OfferReceived(j, m, n) /\ SuccessComes(m, n)
                           /\ OneOffer(j, m, n) /\ OpensFirst(j, m, n)
  BY <1>1, <1>3 DEF OfferReceived, SuccessComes, OneOffer, OpensFirst
<1> QED
  BY <1>1, <1>3, <1>4, <1>5, <1>6 DEF ChainInv, FirstUndisturbed

\* The chain is in order until the first node is reset or loses or gets its supply.
InOrder == faults = 0 => OrderInv
FromFirst == faults = 0 => 1 \in powered

\* From the first kc_init to the first fault, whatever the handlers and the bus do, the
\* offers of the procedure follow one another along the chain (kc_address_next, the NEXT
\* and SUCCESS cases of kc_internal_event_handler, the retry of kc_process_incoming).
THEOREM OrderInvariant ==
  ASSUME Timely, Contiguous
  PROVE  Spec => []InOrder
<1>1. Init => InOrder
  <2> SUFFICES ASSUME Init PROVE OrderInv
    BY DEF InOrder
  <2>1. TypeOK
    BY InitType
  <2>2. PICK j, k \in Nodes : j <= k /\ powered = j .. k
    BY DEF Init, Contiguous
  <2> QED
    BY <2>1, <2>2, ChainStart DEF OrderInv
<1>2. InOrder /\ TypeOK /\ TypeOK' /\ [Next]_vars => InOrder'
  <2> SUFFICES ASSUME InOrder, TypeOK, TypeOK', [Next]_vars, faults' = 0 PROVE OrderInv'
    BY DEF InOrder
  <2>1. UNCHANGED vars \/ \E n \in Nodes : Thread(n) \/ BusDeliver(n)
    <3>1. faults \in Nat
      BY ConstantsAssumption DEF TypeOK
    <3>2. ASSUME NEW n \in Nodes, Environment(n) PROVE faults' = faults + 1
      BY <3>2 DEF Environment, PowerOn, PowerOff, Reset, Fault
    <3> QED
      BY <3>1, <3>2 DEF Next
  <2>2. faults' = faults
    BY <2>1 DEF vars, env, BusDeliver, Thread, AddressingStep, IncomingStep, kc_init,
         kc_request_addressing, IgnoreRequired, BeginAddressing, StartAddressing, NodeFollows,
         DriveDaisy, AddressNext, RespondDelay, LastNode, FinishAddressing, GoOnline, Poll, Retry,
         LoopDone, OnStart, OnSuccess, OnOtherNext, OnFinished, OnRequired, OnOnline, OnNext,
         OnNextCrowded, AnswerLate, TakeAddress
  <2>3. PICK j, k \in Nodes : j <= k /\ ChainInv(j, k)
    BY <2>2 DEF InOrder, OrderInv
  <2>4. ChainInv(j, k)'
    <3>1. ChainStep(j, k)
      BY <2>3 DEF ChainStep
    <3> QED
      BY <2>1, <2>3, <3>1, ChainKept, ChainStutter
  <2> QED
    BY <2>3, <2>4 DEF OrderInv, Nodes
<1> QED
  BY <1>1, <1>2, TypeInvariant, PTL DEF Spec

\* What the invariant says of a node that is ready.
LEMMA ReadyNode ==
  ASSUME OrderInv
  PROVE  \E j, k \in Nodes :
           /\ powered = j .. k /\ j <= k
           /\ \A n \in Nodes : kc_state[n] = "READY" =>
                /\ n \in j .. k /\ ~waiting[n]
                /\ kc_node_address[n] = Place(j, n) /\ filter1[n] = kc_node_address[n]
                /\ kc_bus_size[n] = Place(j, k)
           /\ \A n \in Nodes : already_addressed[n] => kc_node_address[n] = Place(j, n)
<1>1. PICK j, k \in Nodes : j <= k /\ ChainInv(j, k)
  BY DEF OrderInv
<1>2. powered = j .. k
  BY <1>1 DEF ChainInv, Supplied
<1>3. \A n \in Nodes : n \notin j .. k => kc_state[n] # "READY" /\ ~already_addressed[n]
  BY <1>1 DEF ChainInv, Supplied, Blank
<1>4. \A n \in j .. k : Places(j, k, n)
  BY <1>1 DEF ChainInv
<1>5. ASSUME NEW n \in Nodes, kc_state[n] = "READY"
      PROVE  /\ n \in j .. k /\ ~waiting[n]
             /\ kc_node_address[n] = Place(j, n) /\ filter1[n] = kc_node_address[n]
             /\ kc_bus_size[n] = Place(j, k)
  BY <1>3, <1>4, <1>5 DEF Places, Finished
<1>6. \A n \in Nodes : already_addressed[n] => kc_node_address[n] = Place(j, n)
  BY <1>3, <1>4 DEF Places
<1> QED
  BY <1>1, <1>2, <1>5, <1>6

\* While the delays of kc_address_next are long enough and no node has been reset,
\* unplugged or added, a node in KC_STATE_READY takes the frames sent to the address
\* it holds: filter bank 1 is never left at an earlier address (kc_address_end).
THEOREM ReadyHears ==
  ASSUME Timely, Contiguous
  PROVE  Spec => [](faults = 0 => ReadyHearsItself)
<1>1. InOrder => (faults = 0 => ReadyHearsItself)
  BY ReadyNode DEF InOrder, ReadyHearsItself
<1> QED
  BY <1>1, OrderInvariant, PTL

\* ... no two nodes in KC_STATE_READY have the same address, on a chain of any length
\* that the seven bits of the sender field can number (NEXT in
\* kc_internal_event_handler): a NEXT frame gives one node an address, once.
THEOREM ReadyDistinct ==
  ASSUME Timely, Contiguous
  PROVE  Spec => [](faults = 0 => ReadyAddressesDistinct)
<1>1. InOrder => (faults = 0 => ReadyAddressesDistinct)
  <2> SUFFICES ASSUME OrderInv PROVE ReadyAddressesDistinct
    BY DEF InOrder
  <2>1. PICK j \in Nodes : \A n \in Nodes : kc_state[n] = "READY" => kc_node_address[n] = Place(j, n)
    BY ReadyNode
  <2>2. \A m, n \in Nodes : Place(j, m) = Place(j, n) => m = n
    BY ConstantsAssumption DEF Nodes, Place
  <2> QED
    BY <2>1, <2>2 DEF ReadyAddressesDistinct
<1> QED
  BY <1>1, OrderInvariant, PTL

\* ... a chain that has settled has its addresses in the order of its nodes, from the
\* first OUT port to the last IN port, and every node knows their number
\* (docs/knabbercan.md; kc_address_next, kc_address_end and the FINISHED case).
THEOREM AddressesInOrder ==
  ASSUME Timely, Contiguous
  PROVE  Spec => [](faults = 0 => AddressesFollowChain)
<1>1. InOrder => (faults = 0 => AddressesFollowChain)
  <2> SUFFICES ASSUME OrderInv, NEW a \in Nodes, NEW b \in Nodes, powered = a .. b, Settled,
                      NEW n \in powered
               PROVE  kc_node_address[n] = n - a + 1 /\ kc_bus_size[n] = b - a + 1
    BY DEF InOrder, AddressesFollowChain
  <2>1. PICK j, k \in Nodes :
           /\ powered = j .. k /\ j <= k
           /\ \A m \in Nodes : kc_state[m] = "READY" =>
                kc_node_address[m] = Place(j, m) /\ kc_bus_size[m] = Place(j, k)
    BY ReadyNode
  <2>2. j = a /\ k = b /\ n \in Nodes
    <3>1. a \in Nat /\ b \in Nat /\ j \in Nat /\ k \in Nat /\ N \in Nat
      BY ConstantsAssumption DEF Nodes
    <3>2. j \in a .. b /\ k \in a .. b
      BY <2>1, <3>1
    <3>3. a \in j .. k /\ b \in j .. k
      BY <2>1, <3>1, <3>2
    <3> QED
      BY <2>1, <3>1, <3>2, <3>3 DEF Nodes
  <2>3. kc_state[n] = "READY"
    BY DEF Settled
  <2> QED
    BY <2>1, <2>2, <2>3 DEF Place
<1> QED
  BY <1>1, OrderInvariant, PTL

\* ... a node that is ready has been answered by its successor: a poll of
\* kc_process_incoming does not repeat NEXT in a chain that has its addresses.
THEOREM ReadyWaitsNoMore ==
  ASSUME Timely, Contiguous
  PROVE  Spec => [](faults = 0 => ReadyStopsWaiting)
<1>1. InOrder => (faults = 0 => ReadyStopsWaiting)
  BY ReadyNode DEF InOrder, ReadyStopsWaiting
<1> QED
  BY <1>1, OrderInvariant, PTL

\* ... and on a chain that is supplied from node 1 on, the address a node takes from a
\* NEXT frame is its place. Without the delays it is not (run addr_late_poll).
THEOREM AddressIsPlace ==
  ASSUME Timely, Contiguous, \A P \in InitPowered : 1 \in P
  PROVE  Spec => [](faults = 0 => AddressedInPlace)
<1>1. Init => FromFirst
  BY DEF Init, FromFirst
<1>2. FromFirst /\ TypeOK /\ [Next]_vars => FromFirst'
  <2> SUFFICES ASSUME FromFirst, TypeOK, [Next]_vars, faults' = 0 PROVE 1 \in powered'
    BY DEF FromFirst
  <2>1. faults \in Nat
    BY ConstantsAssumption DEF TypeOK
  <2>2. ASSUME NEW n \in Nodes, Environment(n) PROVE faults' = faults + 1
    BY <2>2 DEF Environment, PowerOn, PowerOff, Reset, Fault
  <2>3. powered' = powered /\ faults' = faults
    BY <2>1, <2>2
    DEF Next, vars, env, BusDeliver, Thread, AddressingStep, IncomingStep, kc_init,
         kc_request_addressing, IgnoreRequired, BeginAddressing, StartAddressing, NodeFollows,
         DriveDaisy, AddressNext, RespondDelay, LastNode, FinishAddressing, GoOnline, Poll, Retry,
         LoopDone, OnStart, OnSuccess, OnOtherNext, OnFinished, OnRequired, OnOnline, OnNext,
         OnNextCrowded, AnswerLate, TakeAddress
  <2> QED
    BY <2>3 DEF FromFirst
<1>3. InOrder /\ FromFirst => (faults = 0 => AddressedInPlace)
  <2> SUFFICES ASSUME OrderInv, 1 \in powered PROVE AddressedInPlace
    BY DEF InOrder, FromFirst
  <2>1. PICK j, k \in Nodes :
           /\ powered = j .. k
           /\ \A n \in Nodes : already_addressed[n] => kc_node_address[n] = Place(j, n)
    BY ReadyNode
  <2>2. j = 1
    BY <2>1, ConstantsAssumption DEF Nodes
  <2>3. \A n \in Nodes : Place(1, n) = n
    BY ConstantsAssumption DEF Nodes, Place
  <2> QED
    BY <2>1, <2>2, <2>3 DEF AddressedInPlace
<1> QED
  BY <1>1, <1>2, <1>3, OrderInvariant, TypeInvariant, PTL DEF Spec

=============================================================================
