--------------------------- MODULE MCChainGateway ---------------------------
(* Instances of ChainGateway for TLC.                                      *)
EXTENDS ChainGateway, TLC

(* Requests and payees are interchangeable.                                *)
Symmetry == Permutations(Request) \cup Permutations(Address)
=============================================================================
