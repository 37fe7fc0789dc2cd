--------------------------- MODULE CallbackOutbox ---------------------------
(***************************************************************************)
(* What the subscription service promises the consumer, in terms of what   *)
(* survives a crash only: the messages that were delivered, the queue      *)
(* table and the table of published states.  A message is delivered or     *)
(* queued before the state it announces is recorded, leaves the queue only *)
(* after a delivery, and a rollback never overtakes into a consumer that   *)
(* has no callback to roll back.                                           *)
(***************************************************************************)
CONSTANT Tx

Task    == {"tx", "rollback"} \X Tx
TxState == {"none", "CONFIRMED", "FINALIZED", "DROPPED", "REVERTED"}

VARIABLES
    delivered,  \* tasks delivered at least once
    queue,      \* tasks in the queue table
    missed,     \* tasks whose last save in the queue table failed
    recorded    \* the recorded state of each transaction

vars == <<delivered, queue, missed, recorded>>

TypeOK == /\ delivered \subseteq Task /\ queue \subseteq Task
          /\ missed \subseteq Task /\ recorded \in [Tx -> TxState]

Covered == delivered \cup queue \cup missed

(* The consumer may hear of task now.                                      *)
Due(task) == task[1] = "rollback" => <<"tx", task[2]>> \in Covered

(* The message that announces a state.                                     *)
Announcement(tx, state) ==
    {task \in Task : /\ task[2] = tx
                     /\ \/ state = "CONFIRMED" /\ task[1] = "tx"
                        \/ state = "REVERTED" /\ task[1] = "rollback"}

Init == /\ delivered = {} /\ queue = {} /\ missed = {}
        /\ recorded = [tx \in Tx |-> "none"]

Deliver(task) == /\ Due(task)
                 /\ delivered' = delivered \cup {task}
                 /\ UNCHANGED <<queue, missed, recorded>>

Enqueue(task) == /\ Due(task)
                 /\ queue' = queue \cup {task}
                 /\ missed' = missed \ {task}
                 /\ UNCHANGED <<delivered, recorded>>

Miss(task) == /\ Due(task)
              /\ missed' = missed \cup {task}
              /\ UNCHANGED <<delivered, queue, recorded>>

Dequeue(task) == /\ task \in delivered
                 /\ queue' = queue \ {task}
                 /\ UNCHANGED <<delivered, missed, recorded>>

Record(tx, state) == /\ Announcement(tx, state) \subseteq Covered
                     /\ recorded' = [recorded EXCEPT ![tx] = state]
                     /\ UNCHANGED <<delivered, queue, missed>>

Next == \/ \E task \in Task : Deliver(task) \/ Enqueue(task) \/ Miss(task)
                              \/ Dequeue(task)
        \/ \E tx \in Tx, state \in TxState : Record(tx, state)

Spec == Init /\ [][Next]_vars

=============================================================================
