--------------------------- MODULE MCConversions ----------------------------
(* Instances of TxDecoding and SolanaEncoding for TLC, side by side: a     *)
(* behaviour is one or the other.                                          *)
EXTENDS TxDecoding, SolanaEncoding

CONSTANTS w1, w2, c1, c2

(* Accounts that stay, are closed, live in between only, or change hands.  *)
MCLifetimes ==
    {[before |-> w1, after |-> w1], [before |-> w2, after |-> None],
     [before |-> None, after |-> None], [before |-> w1, after |-> w2]}

MCEntries ==
    {None, [ours |-> TRUE, decimals |-> 0], [ours |-> TRUE, decimals |-> 1],
     [ours |-> FALSE, decimals |-> 1]}

(* Nothing tells the codes apart.                                          *)
Codes == Permutations({c1, c2})

Strings(base, n) == UNION {[1 .. k -> 0 .. base - 1] : k \in 1 .. n}
MCBytes  == Strings(Byte, 3)
MCTexts  == Strings(Radix + 1, 4) \cup Strings(Radix, 6)   \* one that is not in the alphabet
MCKeys   == {<<0, 1>>, <<0, 0>>, <<3, 2>>, <<7, 7, 3, 2>>, <<5>>}
MCHalves == {0, 1, 2, 3, 30, 31, 2 * 8^8 - 2, 2 * 8^8 - 1, 2 * 8^8, 2 * 8^8 + 1}

MCInit == \/ Init /\ job = [kind |-> "none"] /\ result = <<>>
          \/ /\ EncodingInit
             /\ failed = FALSE /\ tokens = [c \in Code |-> None] /\ program = "spl-token"
             /\ account = [a \in Account |-> CHOOSE l \in Lifetimes : TRUE]
             /\ instructions = <<>> /\ events = <<>> /\ change = [a \in Account |-> 0]

MCNext == \/ job.kind = "none" /\ Next /\ UNCHANGED encVars
          \/ job.kind # "none" /\ EncodingNext /\ UNCHANGED vars

MCSpec == MCInit /\ [][MCNext]_<<vars, encVars>>
=============================================================================
