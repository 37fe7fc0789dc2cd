------------------------- MODULE PublisherContract -------------------------
(***************************************************************************)
(* What the subscription service relies on when it calls PublishTx or      *)
(* PublishRollback (pkg/callback/publisher.go): a call that returns no     *)
(* error has left its message with the consumer's side, or with a broker   *)
(* that had no queue for it and dropped it -- the return that says so may  *)
(* lose against the confirmation that follows it.  A call that returns an  *)
(* error may have left it too, and may do so later still.  This is the     *)
(* choice between a delivery, publishLate and publishFail in TxLifecycle,  *)
(* which counts a dropped message as delivered.                            *)
(***************************************************************************)
CONSTANT Message

VARIABLES
    asked,      \* the messages somebody has asked to publish
    taken,      \* those a queue, or the consumer's endpoint, has accepted
    dropped,    \* those the broker had no queue for
    answer      \* what the call returned: "none" yet, "ok" or "err"

vars == <<asked, taken, dropped, answer>>

Init == /\ asked = {} /\ taken = {} /\ dropped = {}
        /\ answer = [m \in Message |-> "none"]

Ask(m) == asked' = asked \cup {m} /\ UNCHANGED <<taken, dropped, answer>>

(* A message is accepted once: an answered call has nothing left to do.    *)
Pending(m) == m \in asked /\ answer[m] # "ok"

Take(m) == /\ Pending(m)
           /\ taken' = taken \cup {m}
           /\ UNCHANGED <<asked, dropped, answer>>

Drop(m) == /\ Pending(m)
           /\ dropped' = dropped \cup {m}
           /\ UNCHANGED <<asked, taken, answer>>

(* Success is the broker's confirmation or a status below 400: accepted,   *)
(* or dropped for want of a queue.                                         *)
Answer(m, a) == /\ Pending(m)
                /\ a = "ok" => m \in taken \cup dropped
                /\ answer' = [answer EXCEPT ![m] = a]
                /\ UNCHANGED <<asked, taken, dropped>>

Next == \E m \in Message : \/ Ask(m) \/ Take(m) \/ Drop(m)
                           \/ \E a \in {"ok", "err"} : Answer(m, a)

Spec == Init /\ [][Next]_vars
=============================================================================
