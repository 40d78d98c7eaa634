-------------------------------- MODULE Errors --------------------------------
(***************************************************************************)
(* The try/catch library of include/knabberkiste/util/error.h and          *)
(* src/knabberkiste/util/error.c on one processor.  error_try saves the    *)
(* manager state of its context on the stack and arms a jmp_buf,           *)
(* error_throw jumps to the armed one, error_catch is a for loop over      *)
(* globals that the end of error_try has set with interrupts disabled.     *)
(*                                                                         *)
(* Contexts are main (before the scheduler starts, or a build without      *)
(* FreeRTOS) and the tasks, which preempt each other wherever interrupts   *)
(* are enabled, between a throw and its catch too.  A jmp_buf is known by  *)
(* the number of the try that set it, an error by the try whose body threw *)
(* it.  habits says what this program does that not every program does,    *)
(* raced that the scheduler has met the one window in which the library is *)
(* not thread-safe; properties name what they need to be absent.           *)
(***************************************************************************)
EXTENDS Naturals, Sequences, FiniteSets

CONSTANTS
  Tasks, Main, Idle,  \* contexts; Idle never uses the library
  Programs,           \* the sets of habits a program may have
  MaxTries            \* bound of the model: try blocks entered

Habits == {"finish",            \* a try body ends without an error
           "try in catch", "throw in catch",
           "interrupt throws",
           "dirty heap"}        \* malloc returns memory that holds ones

ASSUME ErrorsAssumption ==
  /\ Main \notin Tasks /\ Idle \notin Tasks \cup {Main}
  /\ Programs \subseteq SUBSET Habits
  /\ MaxTries \in Nat

VARIABLES
  habits,
  mcu,                   \* "up", "blocked" in while(1), "undefined" after a wild jump,
                         \* "corrupted" or "reset" where there is memory or a watchdog
  scheduler, cpu,        \* whether the scheduler runs; the context executing
  irq_enabled,           \* PRIMASK is clear
  manager,               \* manager states, of the contexts that have one
  em_ptr_global, previous_global,
  blocks,                \* per context: its open try blocks, innermost last
  status,                \* per context: "running", "thrown" (in longjmp), "deleted"
  tries,                 \* try blocks entered so far
  raced                  \* history: a context has thrown under a try while another
                         \* stood at the test of its catch loop

globals == <<em_ptr_global, previous_global>>
processor == <<mcu, scheduler, cpu, irq_enabled>>
vars == <<habits, processor, manager, globals, blocks, status, tries, raced>>

Contexts == Tasks \cup {Main}
Bufs == 0 .. MaxTries              \* 0: never set by setjmp
Fresh(ones) == [try_active |-> ones, try_buf |-> 0, current_error |-> 0, error_occurred |-> FALSE]

\* at: "body", "closing" (in __close_try), "testing" (the condition of the catch
\* loop) or "catch"; previous: __previous_error_manager_state; error: error_variable.
States == [try_active : BOOLEAN, try_buf : Bufs, current_error : Bufs, error_occurred : BOOLEAN]
Blocks == [buf : Bufs, previous : States, at : {"body", "closing", "testing", "catch"},
           error : Bufs]

Has(habit) == habit \in habits
Runs(c) == mcu = "up" /\ cpu = c /\ c \in Contexts /\ status[c] = "running"
Open(c) == Len(blocks[c])
Innermost(c) == blocks[c][Open(c)]
At(c, place) == Open(c) > 0 /\ Innermost(c).at = place
\* The application's own code is executing, not the library's.
InUserCode(c) == Runs(c) /\ (Open(c) > 0 => Innermost(c).at \in {"body", "catch"})

Close(c) == SubSeq(blocks[c], 1, Open(c) - 1)
Move(c, place) == [blocks EXCEPT ![c] = Append(Close(c), [Innermost(c) EXCEPT !.at = place])]

-----------------------------------------------------------------------------
(* error_try *)

error_try(c) ==
  /\ InUserCode(c)
  /\ At(c, "catch") => Has("try in catch")
  /\ tries < MaxTries
  /\ tries' = tries + 1
  /\ \E ones \in BOOLEAN :
       LET state == IF c \in DOMAIN manager THEN manager[c] ELSE Fresh(ones)
           armed == [state EXCEPT !.try_active = TRUE, !.try_buf = tries + 1]
       IN /\ ones => Has("dirty heap")
          /\ manager' = [d \in DOMAIN manager \cup {c} |-> IF d = c THEN armed ELSE manager[d]]
          /\ blocks' = [blocks EXCEPT ![c] =
               Append(@, [buf |-> tries + 1, previous |-> state, at |-> "body", error |-> 0])]
  /\ irq_enabled' = TRUE
  /\ UNCHANGED <<habits, mcu, scheduler, cpu, globals, status, raced>>

\* The body ends without an error; interrupts stay as they are.
FinishBody(c) ==
  /\ Has("finish")
  /\ Runs(c) /\ At(c, "body")
  /\ blocks' = Move(c, "closing")
  /\ UNCHANGED <<habits, processor, manager, globals, status, tries, raced>>

-----------------------------------------------------------------------------
(* _error_throw *)

TryActive(c) == c \in DOMAIN manager /\ manager[c].try_active
Origin(c) == IF At(c, "body") \/ At(c, "catch") THEN Innermost(c).buf ELSE 0

\* Other contexts that can take over the processor.
Ready == {Idle} \cup {t \in Tasks : status[t] # "deleted"}

Jump(c, state) ==
  /\ TryActive(c)
  /\ manager' = [manager EXCEPT ![c] = state]
  /\ status' = [status EXCEPT ![c] = "thrown"]
  /\ raced' = (raced \/ \E d \in Contexts \ {c} : At(d, "testing"))
  /\ UNCHANGED processor

JumpUnmarked(c) == Jump(c, [manager[c] EXCEPT !.current_error = Origin(c)])
JumpWithOldError(c) == Jump(c, [manager[c] EXCEPT !.error_occurred = TRUE])
JumpToCatch(c) ==
  Jump(c, [manager[c] EXCEPT !.error_occurred = TRUE, !.current_error = Origin(c)])

DeleteTask(c) ==
  /\ ~TryActive(c)
  /\ c \in Tasks
  /\ status' = [status EXCEPT ![c] = "deleted"]
  /\ irq_enabled' = TRUE
  /\ cpu' \in Ready \ {c}
  /\ UNCHANGED <<mcu, scheduler, manager, raced>>

BlockMcu(c) ==
  /\ ~TryActive(c)
  /\ c = Main
  /\ mcu' = "blocked"
  /\ UNCHANGED <<scheduler, cpu, irq_enabled, manager, status, raced>>

\* The throw of context c, also from inside the libraries.
Throw(c) ==
  /\ JumpToCatch(c) \/ DeleteTask(c) \/ BlockMcu(c)
  /\ UNCHANGED <<habits, globals, blocks, tries>>

error_throw(c) ==
  /\ InUserCode(c)
  /\ At(c, "catch") => Has("throw in catch")
  /\ Throw(c)

\* An interrupt takes the state of main for its own: it jumps into the interrupted
\* code without returning from the interrupt, or stays in while(1).
InterruptThrow ==
  /\ Has("interrupt throws")
  /\ mcu = "up" /\ irq_enabled
  /\ mcu' = IF TryActive(Main) THEN "undefined" ELSE "blocked"
  /\ UNCHANGED <<habits, scheduler, cpu, irq_enabled, manager, globals, blocks, status, tries, raced>>

\* longjmp returns a second time from setjmp, if the block that called it is open.
Land(c) ==
  LET depth == {i \in DOMAIN blocks[c] : blocks[c][i].buf = manager[c].try_buf} IN
  /\ mcu = "up" /\ cpu = c /\ c \in Contexts /\ status[c] = "thrown"
  /\ status' = [status EXCEPT ![c] = "running"]
  /\ IF depth = {}
       THEN mcu' = "undefined" /\ UNCHANGED <<irq_enabled, blocks>>
       ELSE /\ irq_enabled' = TRUE
            /\ \E i \in depth : blocks' = [blocks EXCEPT ![c] =
                 Append(SubSeq(@, 1, i - 1), [@[i] EXCEPT !.at = "closing"])]
            /\ UNCHANGED mcu
  /\ UNCHANGED <<habits, scheduler, cpu, manager, globals, tries, raced>>

-----------------------------------------------------------------------------
(* error_catch *)

\* __close_try, and the initialiser of the loop.
CloseMasked(mask, c) ==
  /\ Runs(c) /\ At(c, "closing")
  /\ irq_enabled' = mask
  /\ em_ptr_global' = c
  /\ previous_global' = Innermost(c).previous
  /\ blocks' = [blocks EXCEPT ![c] = Append(Close(c),
       [Innermost(c) EXCEPT !.at = "testing", !.error = manager[c].current_error])]
  /\ UNCHANGED <<habits, mcu, scheduler, cpu, manager, status, tries, raced>>

CloseWithoutMask(c) == CloseMasked(irq_enabled, c)
close_try(c) == CloseMasked(FALSE, c)

\* The condition of the loop: the catch body once more, or the end of the block.  After
\* the third expression it is read with interrupts enabled.
TestCatch(c) ==
  /\ Runs(c) /\ At(c, "testing")
  /\ blocks' = IF manager[em_ptr_global].error_occurred THEN Move(c, "catch")
               ELSE [blocks EXCEPT ![c] = Close(c)]
  /\ UNCHANGED <<habits, processor, manager, globals, status, tries, raced>>

\* The third expression of the loop; mutations forget the previous state or the mask.
Finish(c, state, mask) ==
  /\ Runs(c) /\ At(c, "catch")
  /\ manager' = [manager EXCEPT ![em_ptr_global] = state]
  /\ irq_enabled' = mask
  /\ blocks' = Move(c, "testing")
  /\ UNCHANGED <<habits, mcu, scheduler, cpu, globals, status, tries, raced>>

FinishWithoutRestore(c) == Finish(c, [manager[em_ptr_global] EXCEPT !.error_occurred = FALSE], TRUE)
FinishMasked(c) == Finish(c, previous_global, irq_enabled)
FinishCatch(c) == Finish(c, previous_global, TRUE)

-----------------------------------------------------------------------------
(* The scheduler *)

\* vTaskStartScheduler never returns; the first task starts with interrupts enabled.
StartScheduler ==
  /\ ~scheduler /\ InUserCode(Main) /\ ~At(Main, "catch")
  /\ scheduler' = TRUE
  /\ irq_enabled' = TRUE
  /\ cpu' \in Ready
  /\ UNCHANGED <<habits, mcu, manager, globals, blocks, status, tries, raced>>

\* A task switch needs an interrupt.
Preempt ==
  /\ mcu = "up" /\ scheduler /\ irq_enabled
  /\ cpu' \in Ready \ {cpu}
  /\ UNCHANGED <<habits, mcu, scheduler, irq_enabled, manager, globals, blocks, status, tries, raced>>

-----------------------------------------------------------------------------

Init ==
  /\ habits \in Programs
  /\ mcu = "up" /\ scheduler = FALSE /\ cpu = Main /\ irq_enabled = TRUE
  /\ manager = [c \in {Main} |-> Fresh(FALSE)]
  /\ em_ptr_global = Main /\ previous_global = Fresh(FALSE)
  /\ blocks = [c \in Contexts |-> <<>>]
  /\ status = [c \in Contexts |-> "running"]
  /\ tries = 0 /\ raced = FALSE

Library(c) == Land(c) \/ close_try(c) \/ TestCatch(c) \/ FinishCatch(c)
Application(c) == error_try(c) \/ FinishBody(c) \/ error_throw(c)

Next == \/ StartScheduler \/ Preempt \/ InterruptThrow
        \/ \E c \in Contexts : Library(c) \/ Application(c)

Spec == Init /\ [][Next]_vars

\* Main, which nobody preempts, and a task that gets the processor again and again go on
\* to the end of their catch bodies; nobody has to throw, no task has to be scheduled.
Fairness == WF_vars(Library(Main)) /\ \A t \in Tasks : SF_vars(Library(t))
FairSpec == Spec /\ Fairness

-----------------------------------------------------------------------------
(* Properties *)

\* Every variable has its type, and the library only follows pointers to states that exist.
TypeOK ==
  /\ habits \in Programs
  /\ mcu \in {"up", "blocked", "undefined", "corrupted", "reset"}
  /\ scheduler \in BOOLEAN /\ irq_enabled \in BOOLEAN
  /\ cpu \in Contexts \cup {Idle}
  /\ Main \in DOMAIN manager /\ DOMAIN manager \subseteq Contexts
  /\ \A c \in DOMAIN manager : manager[c] \in States
  /\ em_ptr_global \in DOMAIN manager /\ previous_global \in States
  /\ blocks \in [Contexts -> Seq(Blocks)]
  /\ status \in [Contexts -> {"running", "thrown", "deleted"}]
  /\ tries \in 0 .. MaxTries
  /\ raced \in BOOLEAN

\* error.h:4, "Thread-safe": no handler runs on the globals of another context.
ThreadSafe == \A c \in Contexts : Runs(c) /\ At(c, "catch") => em_ptr_global = c

\* The program enters no try from a catch body, and no context has thrown under a try
\* while another one stood between the __enable_irq after its catch body and the test of
\* its loop.  There the library is not thread-safe: that test would read the error of
\* the other context.
Orderly == ~Has("try in catch") /\ ~raced

\* While a catch body runs, the globals it was entered through are its own and
\* interrupts are disabled, whatever other tasks throw and catch before, as long as they
\* are Orderly: the loop's third expression gives the context back the state its
\* error_try saved.
HandlerOwnsGlobals ==
  \A c \in Contexts : Orderly /\ Runs(c) /\ At(c, "catch") =>
    ~irq_enabled /\ em_ptr_global = c /\ previous_global = Innermost(c).previous

\* A catch body handles an error of the try it belongs to, not one of another task, of
\* an outer try or of code outside, also when it was preempted between throw and catch;
\* and a task is deleted only by an error outside its tries.
CaughtByInnermost ==
  Orderly => \A c \in Contexts :
    /\ At(c, "catch") => Innermost(c).error = Innermost(c).buf
    /\ status[c] = "deleted" => Open(c) = 0

\* error.h:113: try_active tells whether the code is wrapped in a try block.  A throw
\* relies on it: the jump buffer is that of a block that is still open.
TryActiveMeansWrapped ==
  \A c \in DOMAIN manager : InUserCode(c) /\ ~At(c, "catch") =>
    /\ manager[c].try_active <=> Open(c) > 0
    /\ manager[c].try_active => manager[c].try_buf = Innermost(c).buf

\* That holds of a program whose tries all end with an error and whose heap is clean,
\* so no throw of it jumps into a frame that is gone.
JumpsAreArmed ==
  Orderly /\ ~Has("finish") /\ ~Has("dirty heap") =>
    TryActiveMeansWrapped /\ (mcu = "undefined" => Has("interrupt throws"))

\* A throw under a try ends in a catch body, however often tasks take turns between the
\* two, unless the machine stops, the context is never scheduled again, or the contexts
\* are not Orderly: the test of another context's loop may then consume the error.
ErrorReachesHandler ==
  \A c \in Contexts :
    status[c] = "thrown" ~> At(c, "catch") \/ mcu # "up" \/ ~Orderly \/ [](cpu # c)

=============================================================================
