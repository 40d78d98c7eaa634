-------------------------------- MODULE MCFifo --------------------------------
(* Values of the constants of Fifo.                                        *)
EXTENDS Fifo

TwoThreads == {"main", "other"}

Calls(putters, getters, flush) ==
  [put |-> putters, get |-> getters, section |-> {}, flushes |-> flush]

Receive == Calls({ISR}, {"main"}, FALSE)        \* kc_recv_fifo
Transmit == Calls({"main"}, {ISR}, TRUE)        \* bxcan_tx_queue
OneContext == Calls({"main"}, {"main"}, FALSE)
Sections == [Calls({}, {}, FALSE) EXCEPT !.section = Threads]

AllUses == {Receive, Transmit, OneContext, Sections}
ReceiveAsCoded == {Receive}

=============================================================================
