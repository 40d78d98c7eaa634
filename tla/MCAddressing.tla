---------------------------- MODULE MCAddressing ----------------------------
(* Values of the constants of KCAddressing that several runs share.        *)
EXTENDS KCAddressing

WholeChain == {1 .. N}                           \* every node is supplied
EndsMissing == {1 .. N, 2 .. N, 1 .. (N - 1)}    \* or the first or the last is not
LastMissing == {1 .. N, 1 .. (N - 1)}
NoFaults == {}
AnyFault == {"on", "off", "reset"}
ResetOnly == {"reset"}

=============================================================================
