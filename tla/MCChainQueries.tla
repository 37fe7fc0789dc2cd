--------------------------- MODULE MCChainQueries ---------------------------
(* Instances of ChainQueries for TLC, and what the interface document says *)
(* of tx-query where the code does otherwise.                              *)
EXTENDS ChainQueries

(* Connector.md:187, on "ifTxOnchain", whether the transaction is in a      *)
(* block: what is said to be on chain was found.  getTransaction answers    *)
(* null for a transaction that a node does not know, and null is taken for  *)
(* a transaction (rpc.go:127, chain_service.go:417).                       *)
OnchainIsFound ==
    op = "tx-query" /\ phase = "answered" /\ answer.found => answer.full
=============================================================================
