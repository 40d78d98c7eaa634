------------------------------ MODULE MCTransport ------------------------------
(* Values of the constants of KCTransport.                                 *)
EXTENDS KCTransport

TwoSenders == {"a", "b"}
OwnKey == [t \in Senders |-> t]

Extremes == {0, 40}           \* one frame, and five: a counter of two bits wraps

AnyFault == {"loss", "sender", "receiver"}

=============================================================================
