------------------------------ MODULE Utilities ------------------------------
(***************************************************************************)
(* Programs on top of the utilities: the contexts of Errors call the       *)
(* growing buffer, the watchdog, the delay and the display.  A call that   *)
(* throws is one step with the throw of the context that makes it; a call  *)
(* runs on the processor the contexts share.  A program uses one of the    *)
(* libraries at a time, they have no state in common.                      *)
(***************************************************************************)
EXTENDS Errors, SequencesExt

CONSTANTS
  Libraries,      \* "errors" alone, "varbuf", "watchdog", "delay", "display"
  Names, Addresses, Null, Chunks, Word, ShrinkMoves, MaxLength,   \* see Varbuf
  Timeouts, MaxElapsed,                                           \* see Watchdog
  Requests, MaxTicks,                                             \* see Delay
  Calls, MaxCalls                                                 \* see Display

\* An index and a number of elements add up to less than the range of size_t.
ASSUME UtilitiesAssumption ==
  /\ Null \notin Addresses
  /\ \A chunk \in Chunks : chunk \in Seq({chunk[i] : i \in DOMAIN chunk})
  /\ Word \in Nat /\ MaxLength \in Nat /\ 2 * MaxLength < Word
  /\ Timeouts \subseteq Nat /\ Requests \subseteq Nat

VARIABLES
  library,
  buf, heap, popped, wild,
  PR, RLR, enabled, timeout, elapsed, expired,
  tick_cnt, phase, request, endTick, waited,
  rs, db, queue, stage, asked, taken

varbuf == <<buf, heap, popped, wild>>
watchdog == <<PR, RLR, enabled, timeout, elapsed, expired>>
delays == <<tick_cnt, phase, request, endTick, waited>>
display == <<rs, db, queue, stage, asked, taken>>
libraries == <<varbuf, watchdog, delays, display>>
allVars == <<vars, library, libraries>>

Varbuf == INSTANCE Varbuf
Watchdog == INSTANCE Watchdog
Delay == INSTANCE Delay
Display == INSTANCE Display WITH Writers <- Tasks

ASSUME CallsAssumption == Calls \subseteq Display!Askable

\* Programs with tasks; delay.c is not for FreeRTOS, the others need no second task.
WithTasks == {"errors", "display"}
\* Bound of the model: the tries of a program that uses a library.
TriesOf(l) == CASE l = "errors" -> MaxTries [] l = "display" -> 0 [] OTHER -> 1

\* A context that is free to call the library l.
Calling(c, l) ==
  /\ library = l
  /\ InUserCode(c)
  /\ ~Delay!Waiting
  /\ c \in Tasks => queue[c] = <<>>

Throwing(c) == (At(c, "catch") => Has("throw in catch")) /\ Throw(c)

\* What else holds when the error library or the scheduler takes a step.
Alongside ==
  /\ ~Delay!Waiting
  /\ tries' <= TriesOf(library)
  /\ scheduler' # scheduler => library \in WithTasks
  /\ UNCHANGED <<library, libraries>>

ErrorStep == Next /\ Alongside
LibraryStep(c) == Library(c) /\ Alongside

\* Memory outside the blocks was used, or the watchdog has reset the MCU.
Becomes(state) ==
  /\ mcu' = state
  /\ UNCHANGED <<habits, scheduler, cpu, irq_enabled, manager, globals, blocks, status, tries, raced>>

VarbufStep(c) ==
  /\ Calling(c, "varbuf")
  /\ \/ Varbuf!Returns /\ UNCHANGED vars
     \/ Varbuf!Runaway /\ Becomes("corrupted")
     \/ Varbuf!Throws /\ Throwing(c)
  /\ UNCHANGED <<library, watchdog, delays, display>>

WatchdogStep(c) ==
  /\ Calling(c, "watchdog")
  /\ \/ Watchdog!iwdg_reset /\ UNCHANGED vars
     \/ \E t \in Timeouts : \/ Watchdog!iwdg_init(t) /\ UNCHANGED vars
                            \/ Watchdog!InitThrows(t) /\ Throwing(c)
  /\ UNCHANGED <<library, varbuf, delays, display>>

DelayStep(c) ==
  /\ \E q \in Requests : Calling(c, "delay") /\ Delay!delay(q)
  /\ UNCHANGED <<vars, library, varbuf, watchdog, display>>

DisplayStep(c) ==
  /\ c \in Tasks
  /\ \/ \E call \in Calls : Calling(c, "display") /\ Display!Call(c, call)
     \/ InUserCode(c) /\ Display!Write(c)
  /\ UNCHANGED <<vars, library, varbuf, watchdog, delays>>

\* Time passes whoever runs: the watchdog counts, a delay is served by its interrupt.
WatchdogTick ==
  /\ mcu # "reset"
  /\ Watchdog!Tick
  /\ IF expired' THEN Becomes("reset") ELSE UNCHANGED vars
  /\ UNCHANGED <<library, varbuf, delays, display>>

DelayTick ==
  /\ irq_enabled
  /\ Delay!SysTick
  /\ UNCHANGED <<vars, library, varbuf, watchdog, display>>

DelayReturn ==
  /\ Delay!Return
  /\ UNCHANGED <<vars, library, varbuf, watchdog, display>>

UtilitiesInit ==
  /\ Init
  /\ library \in Libraries
  /\ library # "errors" => habits = {}
  /\ Varbuf!Init /\ Watchdog!Init /\ Delay!Init /\ Display!Init
  /\ library # "delay" => phase = 0

UtilitiesNext ==
  \/ ErrorStep \/ WatchdogTick \/ DelayTick \/ DelayReturn
  \/ \E c \in Contexts :
       VarbufStep(c) \/ WatchdogStep(c) \/ DelayStep(c) \/ DisplayStep(c)

UtilitiesSpec ==
  /\ UtilitiesInit /\ [][UtilitiesNext]_allVars
  /\ WF_allVars(DelayTick) /\ WF_allVars(DelayReturn)
  /\ WF_allVars(LibraryStep(Main)) /\ \A t \in Tasks : SF_allVars(LibraryStep(t))

-----------------------------------------------------------------------------
(* Properties *)

\* Interrupts that a try has disabled are enabled again, if its body threw, no error is
\* lost to the test of another context's loop, no catch body both nests tries and throws
\* out of them, and nobody waits for ticks in the catch body.
InterruptsComeBack ==
  /\ ~irq_enabled
  /\ ~Has("finish") /\ ~({"try in catch", "throw in catch"} \subseteq habits)
  ~> irq_enabled \/ mcu # "up" \/ raced \/ Delay!Waiting

\* varbuf.c: every block of the heap belongs to exactly one buffer and no buffer points
\* to a block that was freed, whichever allocations fail or move blocks.
HeapOwned ==
  /\ \A b \in Names : buf[b] # Null => buf[b] \in DOMAIN heap
  /\ \A a \in DOMAIN heap : \E b \in Names : buf[b] = a
  /\ \A b, d \in Names : b # d /\ buf[b] = buf[d] => buf[b] = Null

\* varbuf.h: the buffers are lists; a call that throws changes none of them.
Lists == INSTANCE Buffers WITH contents <- [b \in Names |-> Varbuf!Elements(b)]
VarbufImplementsLists == Lists!Spec

\* Only varbuf_pop_end of a block without elements leaves the block: the range check
\* stops every other index.
OnlyEmptyRunsWild == wild => \E b \in Names : buf[b] # Null /\ heap[buf[b]] = <<>>

\* wdg.h: the watchdog resets the MCU after the timeout it was initialised with last,
\* neither before nor more than one step of the prescaler later; a timeout that is
\* refused leaves the one before in force.
WatchdogHonoursTimeout ==
  /\ expired => elapsed >= timeout
  /\ enabled /\ ~expired => elapsed < timeout + 7

\* delay.h: a delay is short by less than two ticks, the one it begins in and the
\* fraction that is cut off, and never a tick too long.
DelayShortByLessThanTwoTicks ==
  Delay!Waiting =>
    /\ tick_cnt >= endTick => waited + 8 > request
    /\ waited <= request

\* A delay returns, unless it is called in a catch body, where SysTick is masked.
DelayReturns == Delay!Waiting ~> ~Delay!Waiting \/ At(Main, "catch")

\* st7066u.h: what the controller takes is what the calls ask for, in their order, when
\* a single task writes.  Left out is st7066u_set_entry_mode, which sends another command.
DisplayTakesWhatIsMeant ==
  /\ \A i, j \in DOMAIN asked : asked[i].by = asked[j].by
  /\ \A i \in DOMAIN asked : asked[i].call.op # "entry"
  => IsPrefix(taken, FlattenSeq([i \in DOMAIN asked |-> Display!Meant(asked[i].call)]))

=============================================================================
