------------------------------- MODULE Display -------------------------------
(***************************************************************************)
(* The driver of the ST7066U display, src/src/knabberkiste/drivers/        *)
(* st7066u.c: every call becomes bytes that are put on the data pins and   *)
(* clocked in with E.  The driver keeps no state and takes no lock; its    *)
(* delays let other tasks run.  The controller on the other side takes a   *)
(* byte when E falls, as data or as an instruction, which its highest set  *)
(* bit tells.                                                              *)
(***************************************************************************)
EXTENDS Integers, Sequences

CONSTANTS
  Writers,     \* the tasks that use the display
  Calls,       \* the calls they make: [op, arg]
  MaxCalls     \* bound of the model: calls in all

VARIABLES
  rs, db,      \* the pins RS and DB0 .. DB7
  queue,       \* per writer: the bytes its call still has to send
  stage,       \* per writer: what it has done for the first of them
  asked,       \* the calls made so far, and by whom
  taken        \* what the controller has taken

vars == <<rs, db, queue, stage, asked, taken>>

COMMAND == 0
DATA == 1
CommandByte(b) == <<COMMAND, b>>

\* What the functions can be asked for: directions and flags are 0 or 1, an address is one
\* the controller has, "string" stands for the bytes of a chunk or a string with a first
\* character.
Askable ==
  [op : {"init", "clear", "home"}, arg : {0}]
    \cup [op : {"entry"}, arg : (0 .. 1) \X (0 .. 1)]
    \cup [op : {"control"}, arg : (0 .. 1) \X (0 .. 1) \X (0 .. 1)]
    \cup [op : {"cursor", "display"}, arg : 0 .. 1]
    \cup [op : {"cgram"}, arg : 0 .. 63]
    \cup [op : {"ddram"}, arg : 0 .. 127]
    \cup [op : {"string"}, arg : Seq(0 .. 255)]

\* What each function sends; arg is a direction, a triple of flags, an address or a
\* string.  The precedence of ?: makes st7066u_set_entry_mode send 1 whatever it is
\* asked.
ShiftUnscaled(base, direction) == CommandByte(base + direction)
Shift(base, direction) == CommandByte(base + 4 * direction)

Sent(call) ==
  CASE call.op = "init" -> [i \in 1 .. 3 |-> CommandByte(<<48, 48, 56>>[i])]
    [] call.op = "clear" -> <<CommandByte(1)>>
    [] call.op = "home" -> <<CommandByte(2)>>
    [] call.op = "entry" -> <<CommandByte(1)>>
    [] call.op = "control" -> <<CommandByte(8 + 4 * call.arg[1] + 2 * call.arg[2] + call.arg[3])>>
    [] call.op = "cursor" -> <<Shift(16, call.arg)>>
    [] call.op = "display" -> <<Shift(24, call.arg)>>
    [] call.op = "cgram" -> <<CommandByte(64 + (call.arg % 64))>>
    [] call.op = "ddram" -> <<CommandByte(128 + (call.arg % 128))>>
    [] call.op = "string" -> [i \in DOMAIN call.arg |-> <<DATA, call.arg[i]>>]

\* What the call asks for, in the terms of the controller.
Meant(call) ==
  CASE call.op = "init" -> [i \in 1 .. 3 |-> [op |-> "function", arg |-> <<16, 16, 24>>[i]]]
    [] call.op = "string" -> [i \in DOMAIN call.arg |-> [op |-> "data", arg |-> call.arg[i]]]
    [] OTHER -> <<call>>

Bit(b, weight) == (b \div weight) % 2
Instruction(b) ==
  CASE b >= 128 -> [op |-> "ddram", arg |-> b - 128]
    [] b \in 64 .. 127 -> [op |-> "cgram", arg |-> b - 64]
    [] b \in 32 .. 63 -> [op |-> "function", arg |-> b - 32]
    [] b \in 16 .. 31 -> [op |-> IF Bit(b, 8) = 1 THEN "display" ELSE "cursor", arg |-> Bit(b, 4)]
    [] b \in 8 .. 15 -> [op |-> "control", arg |-> <<Bit(b, 4), Bit(b, 2), Bit(b, 1)>>]
    [] b \in 4 .. 7 -> [op |-> "entry", arg |-> <<Bit(b, 2), Bit(b, 1)>>]
    [] b \in 2 .. 3 -> [op |-> "home", arg |-> 0]
    [] OTHER -> [op |-> "clear", arg |-> 0]
Decode(line, b) == IF line = DATA THEN [op |-> "data", arg |-> b] ELSE Instruction(b)

-----------------------------------------------------------------------------

Call(w, call) ==
  /\ queue[w] = <<>>
  /\ Len(asked) < MaxCalls
  /\ asked' = Append(asked, [by |-> w, call |-> call])
  /\ queue' = [queue EXCEPT ![w] = Sent(call)]
  /\ UNCHANGED <<rs, db, stage, taken>>

Stage(w, from, to) ==
  /\ queue[w] # <<>> /\ stage[w] = from
  /\ stage' = [stage EXCEPT ![w] = to]
  /\ UNCHANGED asked

\* st7066u_write_byte or st7066u_write_command sets RW and RS ...
SetLines(w) ==
  /\ Stage(w, "idle", "lines")
  /\ rs' = Head(queue[w])[1]
  /\ UNCHANGED <<db, queue, taken>>

\* ... st7066u_send_byte the data pins and E ...
SendByte(w) ==
  /\ Stage(w, "lines", "high")
  /\ db' = Head(queue[w])[2]
  /\ UNCHANGED <<rs, queue, taken>>

\* ... and after the first delay E falls.
Clock(w) ==
  /\ Stage(w, "high", "idle")
  /\ taken' = Append(taken, Decode(rs, db))
  /\ queue' = [queue EXCEPT ![w] = Tail(@)]
  /\ UNCHANGED <<rs, db>>

Write(w) == SetLines(w) \/ SendByte(w) \/ Clock(w)

Init ==
  /\ rs = COMMAND /\ db = 0
  /\ queue = [w \in Writers |-> <<>>]
  /\ stage = [w \in Writers |-> "idle"]
  /\ asked = <<>> /\ taken = <<>>

=============================================================================
