------------------------------ MODULE MCUtilities ------------------------------
(* Values of the constants of Utilities.                                   *)
EXTENDS Utilities

\* A program with more habits does all that one with fewer does.  So these are the largest
\* sets of habits that a property is about but for wild jumps, which end everything, and
\* none for the programs with libraries.
AllPrograms == {Habits \ {"try in catch"}, {"throw in catch"}, {"try in catch"}, {}}
Habitless == {{}}

AllLibraries == {"errors", "varbuf", "watchdog", "delay", "display"}
ErrorsOnly == {"errors"}

SmallChunks == {<<>>, <<1>>, <<2, 1>>}      \* an empty CAN frame, one element, two

\* Refused, the shortest accepted, in between, the longest; too long.
SomeTimeouts == {0, 6, 7, 20, 26208, 26209}

\* A fraction of a tick, a whole one, and more.
SomeDelays == {2, 4, 7, 13}

SomeCalls == {[op |-> "init", arg |-> 0], [op |-> "clear", arg |-> 0], [op |-> "home", arg |-> 0],
              [op |-> "entry", arg |-> <<1, 0>>], [op |-> "control", arg |-> <<1, 0, 1>>],
              [op |-> "cursor", arg |-> 1], [op |-> "display", arg |-> 0],
              [op |-> "cgram", arg |-> 5], [op |-> "ddram", arg |-> 64],
              [op |-> "string", arg |-> <<65, 66>>]}

=============================================================================
