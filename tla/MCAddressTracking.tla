------------------------- MODULE MCAddressTracking -------------------------
(* Instances of AddressTracking for TLC, and what the documents say of     *)
(* address subscriptions where the code does otherwise.                    *)
EXTENDS AddressTracking

(* README.md, on the gap backfill: an account without a checkpoint is      *)
(* followed from the latest slot on.  Nothing that lands after an account  *)
(* was started is skipped by its checkpoint while it stays tracked.        *)
NothingIsSkipped ==
    \A a \in sub.tracked :
        first[a] > 0 => \A s \in first[a] + 1 .. sub.at[a] :
                            a \in touched[s] => s \in reported
=============================================================================
