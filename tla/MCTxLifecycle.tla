--------------------------- MODULE MCTxLifecycle ---------------------------
(* Instances of TxLifecycle for TLC.                                       *)
EXTENDS TxLifecycle
=============================================================================
