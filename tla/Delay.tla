-------------------------------- MODULE Delay --------------------------------
(***************************************************************************)
(* delay of src/src/knabberkiste/hal/delay.c, in builds without FreeRTOS:  *)
(* the SysTick interrupt counts ticks, delay computes the last tick to     *)
(* wait for.  Time is counted in quarters of a tick, so that a delay can   *)
(* begin between two ticks and ask for a fraction of one.                  *)
(***************************************************************************)
EXTENDS Naturals

CONSTANTS
  Requests,   \* arguments of delay, in quarters of a tick
  MaxTicks    \* bound of the model: ticks counted

VARIABLES
  tick_cnt,
  phase,      \* quarters of a tick since SysTick fired last
  request,    \* the argument of the call under way, 0 outside delay
  endTick,
  waited      \* quarters of a tick since the call began

vars == <<tick_cnt, phase, request, endTick, waited>>

Waiting == request > 0

\* The float product is cut off to whole ticks.
DiffTicksRoundedDown(q) == (q \div 4) - (IF q >= 4 THEN 1 ELSE 0)
DiffTicks(q) == q \div 4

delay(q) ==
  /\ ~Waiting
  /\ tick_cnt + DiffTicks(q) <= MaxTicks
  /\ request' = q
  /\ endTick' = tick_cnt + DiffTicks(q)
  /\ waited' = 0
  /\ UNCHANGED <<tick_cnt, phase>>

\* The loop finds tick_cnt at endTick.
Return ==
  /\ Waiting
  /\ tick_cnt >= endTick
  /\ request' = 0
  /\ UNCHANGED <<tick_cnt, phase, endTick, waited>>

\* A quarter of a tick passes; the SysTick interrupt counts when a tick is full.  With
\* interrupts masked the loop turns for ever, which changes nothing.
SysTick ==
  /\ Waiting
  /\ tick_cnt < endTick
  /\ phase' = (phase + 1) % 4
  /\ tick_cnt' = IF phase = 3 THEN tick_cnt + 1 ELSE tick_cnt
  /\ waited' = waited + 1
  /\ UNCHANGED <<request, endTick>>

Init ==
  /\ tick_cnt = 0 /\ phase \in 0 .. 3
  /\ request = 0 /\ endTick = 0 /\ waited = 0

=============================================================================
