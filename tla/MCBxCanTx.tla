------------------------------- MODULE MCBxCanTx -------------------------------
(* Values of the constants of BxCanTx.                                     *)
EXTENDS BxCanTx

OneTask == {"main"}

=============================================================================
