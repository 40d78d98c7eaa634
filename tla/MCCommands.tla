------------------------------ MODULE MCCommands ------------------------------
(* Values of the constants of KCCommands.                                  *)
EXTENDS KCCommands

TwoNodes == {1, 2}

\* Questions that cross between nodes without callbacks of their own, and a node that
\* asks another one that has some.
Crossing == [senders |-> {1, 2}, definers |-> {}]
OneAsks == [senders |-> {1}, definers |-> {2}]
TwoPrograms == {Crossing, OneAsks}

=============================================================================
