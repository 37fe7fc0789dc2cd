---------------------------- MODULE TxLifecycle ----------------------------
(***************************************************************************)
(* The life of a watched transaction in the subscription service           *)
(* (pkg/service/subscription_service.go): the subscriptions and the        *)
(* published state kept in memory and in MySQL, the poll loop, the         *)
(* signature watchers, the address backfills that report the same          *)
(* transaction, the API calls that subscribe and cancel, the callbacks to  *)
(* the consumer with their retry queue, and a crash at any point.          *)
(*                                                                         *)
(* Every goroutine is a process with a program counter.  One action is     *)
(* what the code does between two points where another goroutine can be    *)
(* scheduled with an effect: a lock section, an RPC, one store statement   *)
(* or one publish.                                                         *)
(***************************************************************************)
EXTENDS Integers, FiniteSets

CONSTANTS
    Tx,         \* transaction codes
    Poller,     \* the poll goroutine
    MaxGen,     \* bound: signature watchers of one transaction alive at once
    EndBlock,   \* endBlockNumber of every subscription
    MaxHead,    \* bound: the largest slot
    Env,        \* the environment events that can happen
    MaxFaults   \* bound: faults in one behaviour, all kinds together

EnvEvents ==
    {"cancel",      \* the user cancels a subscription
     "backfill",    \* a subscribed address reports the transaction
     "withhold",    \* the node has nothing of a transaction it reported
     "nullResult",  \* where it has nothing, it may answer null
     "fork",        \* the endpoint no longer knows a transaction it reported
     "crash",       \* the process dies and is started again
     "publishFail", \* a publish fails, and nothing is delivered
     "publishLate", \* a publish is reported as failed, but was delivered
     "storeFail",   \* a statement on MySQL fails
     "rpcFail"}     \* a call to the RPC endpoint fails in mid handler

(* A worker <<tx, g>> with g > 0 is the g-th signature watcher of tx,      *)
(* <<tx, 0>> is a backfill of a subscribed address that reports tx.        *)
Gen     == 1 .. MaxGen
Watcher == Tx \X Gen
Worker  == Tx \X (0 .. MaxGen)
Proc    == {Poller} \cup Worker

ASSUME ConstantAssumption ==
    /\ Tx # {}
    /\ Poller \notin Worker
    /\ MaxGen \in Nat \ {0}
    /\ EndBlock \in Nat
    /\ MaxHead \in Nat
    /\ Env \subseteq EnvEvents
    /\ MaxFaults \in Nat

ChainStatus == {"none", "processed", "confirmed", "finalized"}
SubStatus   == {"none", "ACTIVE", "COMPLETED", "CANCELLED", "EXPIRED"}
TxState     == {"none", "CONFIRMED", "FINALIZED", "DROPPED", "REVERTED"}
Answer      == {"nil", "zero", "tx"} \* nothing, null decoded, or the data
Kind        == {"tx", "rollback"}
Task        == Kind \X Tx          \* a callback task, callbackTaskID

ProcPoint == {"idle", "watch", "query", "loop", "decide", "detail", "read",
              "publish", "queueMem", "queueStore", "clearMem", "clearStore",
              "writeMem", "writeStore", "statusStore", "statusMem"}

VARIABLES
    chain,      \* what the RPC endpoint says of each transaction
    head,       \* the latest slot
    forgotten,  \* history: transactions it no longer knew after it had
    subMem,     \* s.txSubs
    pubMem,     \* s.publishedState, "none" for ""
    pendMem,    \* s.pendingCallbacks
    entry,      \* s.txWatchers: the watcher of each transaction, 0 if none
    cancelled,  \* the watchers whose context is cancelled
    subStore,   \* table of transaction subscriptions: the status column
    pubStore,   \* table of published states
    pendStore,  \* table of pending callbacks
    registering,\* transactions saved by a subscribe call still running
    cancelling, \* transactions updated by a cancel call still running
    pc,         \* where each process is
    job,        \* the transaction it is working on
    goal,       \* the state it wants to publish for it
    data,       \* what it holds of the transaction
    phase,      \* the poller's loop: "subs", "tracked" or "retry"
    todo,       \* transactions left in the poller's snapshot
    due,        \* tasks left in the poller's snapshot
    second,     \* the state the poller publishes next, if any
    pollHead,   \* the latest slot the poller read
    sent,       \* tasks delivered to the consumer at least once
    blank,      \* transactions whose callback was published without its data
    unsaved,    \* tasks whose last save in the queue table failed
    awaited,    \* history: requests not called back yet, see RegisterMem
    withheld,   \* history: transactions the node withheld at some time
    faults      \* faults so far

envVars   == <<chain, head, forgotten>>
memVars   == <<subMem, pubMem, pendMem, entry, cancelled>>
storeVars == <<subStore, pubStore, pendStore>>
apiVars   == <<registering, cancelling>>
pollVars  == <<phase, todo, due, second, pollHead>>
obsVars   == <<sent, blank, unsaved, awaited, withheld>>
vars == <<envVars, memVars, storeVars, apiVars, pollVars, obsVars,
          pc, job, goal, data, faults>>

TypeOK ==
    /\ chain \in [Tx -> ChainStatus] /\ head \in 0 .. MaxHead /\ forgotten \subseteq Tx
    /\ subMem \subseteq Tx /\ pubMem \in [Tx -> TxState]
    /\ pendMem \subseteq Task
    /\ entry \in [Tx -> 0 .. MaxGen] /\ cancelled \subseteq Watcher
    /\ subStore \in [Tx -> SubStatus] /\ pubStore \in [Tx -> TxState]
    /\ pendStore \subseteq Task
    /\ registering \subseteq Tx /\ cancelling \subseteq Tx
    /\ pc \in [Proc -> ProcPoint] /\ job \in [Proc -> Tx]
    /\ goal \in [Proc -> TxState] /\ data \in [Proc -> Answer]
    /\ phase \in {"subs", "tracked", "retry"}
    /\ todo \subseteq Tx /\ due \subseteq Task
    /\ second \in {"none", "FINALIZED"} /\ pollHead \in 0 .. MaxHead
    /\ sent \subseteq Task /\ blank \subseteq Tx /\ unsaved \subseteq Task
    /\ awaited \subseteq Tx /\ withheld \subseteq Tx
    /\ faults \in 0 .. MaxFaults

-----------------------------------------------------------------------------
(* The rules of the state machine.                                         *)

txStateRank(state) ==
    IF state = "CONFIRMED" THEN 1 ELSE IF state = "FINALIZED" THEN 2 ELSE 0

isTerminalTxState(state) == state \in {"FINALIZED", "DROPPED", "REVERTED"}

shouldTransition(current, target) ==
    /\ target # "none" /\ current # target
    /\ \/ target = "DROPPED" /\ current = "none"
       \/ target = "REVERTED" /\ current \notin {"none", "DROPPED", "REVERTED"}
       \/ /\ target \notin {"DROPPED", "REVERTED"}
          /\ txStateRank(target) > txStateRank(current)

(* With a mistake: a transaction in a block counts as confirmed.           *)
SeenStateEarly(status) ==
    IF status = "finalized" THEN "FINALIZED"
    ELSE IF status \in {"processed", "confirmed"} THEN "CONFIRMED" ELSE "none"

(* The state a poll aims at, "none" when it leaves the transaction alone.  *)
SeenState(status) ==
    IF status = "finalized" THEN "FINALIZED"
    ELSE IF status = "confirmed" THEN "CONFIRMED" ELSE "none"

SubscriptionTarget(status) ==
    IF status = "none" /\ pollHead > EndBlock
    THEN "DROPPED" ELSE SeenState(status)

(* With a mistake: finality is left to the subscriptions.                  *)
TrackedTargetNoFinality(status) ==
    IF status = "none" THEN "REVERTED" ELSE "none"

(* advanceTrackedTxState, for a transaction whose snapshot is CONFIRMED.   *)
TrackedTarget(status) ==
    IF status = "none" THEN "REVERTED"
    ELSE IF status = "finalized" THEN "FINALIZED" ELSE "none"

TaskOf(p) == <<IF goal[p] = "REVERTED" THEN "rollback" ELSE "tx", job[p]>>

Visible(tx) == chain[tx] \in {"confirmed", "finalized"}

(* Fault(e) spends one fault of kind e.                                    *)
Fault(e) == e \in Env /\ faults < MaxFaults /\ faults' = faults + 1

(* What QueryTransaction may return to p without an error.  A node that    *)
(* has nothing says so, with one of the codes and texts Call takes for not *)
(* found, or answers null, which decodes into an empty transaction.  Even  *)
(* of a transaction whose status it reports it may have nothing.           *)
QueryTransaction(p, answer) ==
    /\ answer \in Answer /\ (answer = "zero" => "nullResult" \in Env)
    /\ IF Visible(job[p]) <=> answer = "tx"
       THEN UNCHANGED <<withheld, faults>>
       ELSE /\ answer # "tx" /\ Fault("withhold")
            /\ withheld' = withheld \cup {job[p]}

-----------------------------------------------------------------------------
(* Moving a process.                                                       *)

Goto(p, point) == pc' = [pc EXCEPT ![p] = point] /\ UNCHANGED <<goal, data>>

Aim(p, point, state, answer) ==
    /\ pc' = [pc EXCEPT ![p] = point]
    /\ goal' = [goal EXCEPT ![p] = state]
    /\ data' = [data EXCEPT ![p] = answer]

(* Back to the loop of the poller, or the end of a worker's goroutine.     *)
Leave(p) == Aim(p, IF p = Poller THEN "loop" ELSE "idle", "none", "nil")

(* The status a subscription gets once the poller's transition returned,   *)
(* "none" when it stays subscribed.                                        *)
EndStatus(p) ==
    IF goal[p] = "DROPPED" THEN "EXPIRED"
    ELSE IF goal[p] = "REVERTED" \/ (goal[p] = "FINALIZED" /\ phase = "subs")
         THEN "COMPLETED" ELSE "none"

(* What follows the return of transitionTxState, which never fails.        *)
Return(p) ==
    IF p = Poller /\ second # "none"
    THEN Aim(p, "read", second, data[p]) /\ second' = "none"
    ELSE /\ UNCHANGED second
         /\ IF p = Poller /\ EndStatus(p) # "none"
            THEN Goto(p, "statusStore") ELSE Leave(p)

(* A retried task has no state to write.                                   *)
AfterCallback(p) ==
    IF p = Poller /\ phase = "retry" THEN Leave(p) ELSE Goto(p, "writeMem")

-----------------------------------------------------------------------------
(* transitionTxState, run by the poller, the watchers and the backfills.   *)

(* With a mistake: only a rollback is published.                           *)
TransitionReadSilent(p) ==
    /\ pc[p] = "read"
    /\ IF shouldTransition(pubMem[job[p]], goal[p])
       THEN /\ Goto(p, IF goal[p] = "REVERTED" THEN "publish" ELSE "writeMem")
            /\ UNCHANGED second
       ELSE Return(p)
    /\ UNCHANGED <<envVars, memVars, storeVars, apiVars, obsVars, job, phase,
                   todo, due, pollHead, faults>>

TransitionRead(p) ==
    /\ pc[p] = "read"
    /\ IF shouldTransition(pubMem[job[p]], goal[p])
       THEN /\ Goto(p, IF goal[p] \in {"CONFIRMED", "REVERTED"}
                       THEN "publish" ELSE "writeMem")
            /\ UNCHANGED second
       ELSE Return(p)
    /\ UNCHANGED <<envVars, memVars, storeVars, apiVars, obsVars, job, phase,
                   todo, due, pollHead, faults>>

Deliver(p) ==
    /\ sent' = sent \cup {TaskOf(p)}
    /\ awaited' = IF goal[p] = "REVERTED" THEN awaited ELSE awaited \ {job[p]}

(* With a mistake: a failed publish is taken for a delivery.               *)
PublishIgnoresError(p) ==
    /\ pc[p] = "publish"
    /\ \/ Deliver(p) /\ Goto(p, "clearMem") /\ UNCHANGED faults
       \/ Fault("publishFail") /\ Goto(p, "clearMem") /\ UNCHANGED <<sent, awaited>>
    /\ UNCHANGED <<envVars, memVars, storeVars, apiVars, pollVars, job, blank,
                   unsaved, withheld>>

Publish(p) ==
    /\ pc[p] = "publish"
    /\ blank' = IF goal[p] = "CONFIRMED" /\ data[p] # "tx"
                THEN blank \cup {job[p]} ELSE blank
    /\ \/ Deliver(p) /\ Goto(p, "clearMem") /\ UNCHANGED faults
       \/ Fault("publishLate") /\ Deliver(p) /\ Goto(p, "queueMem")
       \/ Fault("publishFail") /\ Goto(p, "queueMem") /\ UNCHANGED <<sent, awaited>>
    /\ UNCHANGED <<envVars, memVars, storeVars, apiVars, pollVars, job, unsaved,
                   withheld>>

(* With a mistake: the queue is kept in memory only.                       *)
QueueMemOnly(p) ==
    /\ pc[p] = "queueMem"
    /\ pendMem' = pendMem \cup {TaskOf(p)}
    /\ AfterCallback(p)
    /\ UNCHANGED <<envVars, subMem, pubMem, entry, cancelled, storeVars,
                   apiVars, pollVars, obsVars, job, faults>>

(* enqueuePendingCallback and, for a retried task, failPendingCallback.    *)
QueueMem(p) ==
    /\ pc[p] = "queueMem"
    /\ pendMem' = pendMem \cup {TaskOf(p)}
    /\ Goto(p, "queueStore")
    /\ UNCHANGED <<envVars, subMem, pubMem, entry, cancelled, storeVars,
                   apiVars, pollVars, obsVars, job, faults>>

QueueStore(p) ==
    /\ pc[p] = "queueStore"
    /\ \/ /\ pendStore' = pendStore \cup {TaskOf(p)}
          /\ unsaved' = unsaved \ {TaskOf(p)}
          /\ UNCHANGED faults
       \/ /\ Fault("storeFail")
          /\ unsaved' = unsaved \cup {TaskOf(p)}
          /\ UNCHANGED pendStore
    /\ AfterCallback(p)
    /\ UNCHANGED <<envVars, memVars, subStore, pubStore, apiVars, pollVars,
                   sent, blank, awaited, withheld, job>>

(* With a mistake: the entry is deleted from the table only.               *)
ClearMemForgotten(p) ==
    /\ pc[p] = "clearMem"
    /\ IF TaskOf(p) \in pendMem THEN Goto(p, "clearStore") ELSE AfterCallback(p)
    /\ UNCHANGED <<envVars, memVars, storeVars, apiVars, pollVars, obsVars, job,
                   faults>>

(* clearPendingCallback                                                    *)
ClearMem(p) ==
    /\ pc[p] = "clearMem"
    /\ pendMem' = pendMem \ {TaskOf(p)}
    /\ IF TaskOf(p) \in pendMem THEN Goto(p, "clearStore") ELSE AfterCallback(p)
    /\ UNCHANGED <<envVars, subMem, pubMem, entry, cancelled, storeVars,
                   apiVars, pollVars, obsVars, job, faults>>

ClearStore(p) ==
    /\ pc[p] = "clearStore"
    /\ \/ pendStore' = pendStore \ {TaskOf(p)} /\ UNCHANGED faults
       \/ Fault("storeFail") /\ UNCHANGED pendStore
    /\ AfterCallback(p)
    /\ UNCHANGED <<envVars, memVars, subStore, pubStore, apiVars, pollVars,
                   obsVars, job>>

WriteMem(p) ==
    /\ pc[p] = "writeMem"
    /\ pubMem' = [pubMem EXCEPT ![job[p]] = goal[p]]
    /\ awaited' = IF goal[p] = "DROPPED" THEN awaited \ {job[p]} ELSE awaited
    /\ Goto(p, "writeStore")
    /\ UNCHANGED <<envVars, subMem, pendMem, entry, cancelled, storeVars,
                   apiVars, pollVars, sent, blank, unsaved, withheld, job, faults>>

WriteStore(p) ==
    /\ pc[p] = "writeStore"
    /\ \/ pubStore' = [pubStore EXCEPT ![job[p]] = goal[p]] /\ UNCHANGED faults
       \/ Fault("storeFail") /\ UNCHANGED pubStore
    /\ Return(p)
    /\ UNCHANGED <<envVars, memVars, subStore, pendStore, apiVars, obsVars,
                   job, phase, todo, due, pollHead>>

-----------------------------------------------------------------------------
(* Subscriptions: updateTxSubscriptionStatus and the API calls.            *)

(* With a mistake: the watcher is not cancelled.                           *)
DropWithoutCancel(tx) ==
    /\ subMem' = subMem \ {tx}
    /\ entry' = [entry EXCEPT ![tx] = 0]
    /\ UNCHANGED cancelled

(* With a mistake: a watcher that is not there is cancelled too.           *)
DropUnguarded(tx) ==
    /\ subMem' = subMem \ {tx}
    /\ entry' = [entry EXCEPT ![tx] = 0]
    /\ cancelled' = cancelled \cup {<<tx, entry[tx]>>}

(* The lock section of updateTxSubscriptionStatus.                         *)
DropSubscription(tx) ==
    /\ subMem' = subMem \ {tx}
    /\ entry' = [entry EXCEPT ![tx] = 0]
    /\ cancelled' = IF entry[tx] = 0 THEN cancelled
                    ELSE cancelled \cup {<<tx, entry[tx]>>}

(* An UPDATE changes no row where there is none.                           *)
UpdateStatus(tx, status) ==
    subStore' = [subStore EXCEPT ![tx] = IF @ = "none" THEN @ ELSE status]

StatusStore ==
    /\ pc[Poller] = "statusStore"
    /\ \/ /\ UpdateStatus(job[Poller], EndStatus(Poller))
          /\ Goto(Poller, "statusMem")
          /\ UNCHANGED faults
       \/ Fault("storeFail") /\ Leave(Poller) /\ UNCHANGED subStore
    /\ UNCHANGED <<envVars, memVars, pubStore, pendStore, apiVars, pollVars,
                   obsVars, job>>

StatusMem ==
    /\ pc[Poller] = "statusMem"
    /\ DropSubscription(job[Poller])
    /\ Leave(Poller)
    /\ UNCHANGED <<envVars, pubMem, pendMem, storeVars, apiVars, pollVars,
                   obsVars, job, faults>>

(* RegisterTxSubscription; a failed save returns with nothing changed.     *)
RegisterStore(tx) ==
    /\ tx \notin registering
    /\ registering' = registering \cup {tx}
    /\ subStore' = [subStore EXCEPT ![tx] = "ACTIVE"]
    /\ UNCHANGED <<envVars, memVars, pubStore, pendStore, cancelling, pollVars,
                   obsVars, pc, job, goal, data, faults>>

startTxWatcherLocked(tx) ==
    IF entry[tx] # 0
    THEN UNCHANGED <<entry, cancelled, pc>>
    ELSE \E g \in Gen :
           /\ pc[<<tx, g>>] = "idle"
           /\ entry' = [entry EXCEPT ![tx] = g]
           /\ cancelled' = cancelled \ {<<tx, g>>}
           /\ pc' = [pc EXCEPT ![<<tx, g>>] = "watch"]

(* Published, or announced or queued by a process that has yet to record.  *)
AlreadyPublished(tx) ==
    \/ pubMem[tx] # "none"
    \/ \E p \in Proc :
          job[p] = tx /\ pc[p] \in {"queueStore", "clearMem", "clearStore", "writeMem"}

(* The request is accepted.  It is awaited until a callback is delivered,  *)
(* or the end of its window recorded, if it found tx not yet published:    *)
(* one that comes later is never answered, nobody publishes tx again.      *)
RegisterMem(tx) ==
    /\ tx \in registering
    /\ registering' = registering \ {tx}
    /\ subMem' = subMem \cup {tx}
    /\ startTxWatcherLocked(tx)
    /\ awaited' = IF AlreadyPublished(tx) THEN awaited ELSE awaited \cup {tx}
    /\ UNCHANGED <<envVars, pubMem, pendMem, storeVars, cancelling, pollVars,
                   sent, blank, unsaved, withheld, job, goal, data, faults>>

CancelStore(tx) ==
    /\ "cancel" \in Env /\ tx \notin cancelling
    /\ cancelling' = cancelling \cup {tx}
    /\ UpdateStatus(tx, "CANCELLED")
    /\ UNCHANGED <<envVars, memVars, pubStore, pendStore, registering,
                   pollVars, obsVars, pc, job, goal, data, faults>>

CancelMem(tx) ==
    /\ tx \in cancelling
    /\ cancelling' = cancelling \ {tx}
    /\ DropSubscription(tx)
    /\ UNCHANGED <<envVars, pubMem, pendMem, storeVars, registering, pollVars,
                   obsVars, pc, job, goal, data, faults>>

-----------------------------------------------------------------------------
(* The poll loop.  A failed call that leaves everything as it was          *)
(* (GetLatestBlock, for one) is a stuttering step.                         *)

PollStart ==
    /\ pc[Poller] = "idle"
    /\ pollHead' = head
    /\ phase' = "subs" /\ todo' = subMem
    /\ Goto(Poller, "loop")
    /\ UNCHANGED <<envVars, memVars, storeVars, apiVars, obsVars, job, due,
                   second, faults>>

(* advanceTxSubscriptionState up to the answer of GetSignatureStatus       *)
SubscriptionStatus(tx) ==
    /\ pc[Poller] = "loop" /\ phase = "subs" /\ tx \in todo
    /\ todo' = todo \ {tx}
    /\ job' = [job EXCEPT ![Poller] = tx]
    /\ \/ /\ LET target == SubscriptionTarget(chain[tx]) IN
             IF target = "none" THEN UNCHANGED <<pc, goal, data>>
             ELSE Aim(Poller, IF target = "DROPPED" THEN "read" ELSE "decide",
                      target, "nil")
          /\ UNCHANGED faults
       \/ Fault("rpcFail") /\ UNCHANGED <<pc, goal, data>>
    /\ UNCHANGED <<envVars, memVars, storeVars, apiVars, obsVars, phase, due,
                   second, pollHead>>

(* With a mistake: a final transaction is not announced first.             *)
DecideFinalOnly ==
    /\ pc[Poller] = "decide"
    /\ LET target  == goal[Poller]
           current == pubMem[job[Poller]]
       IN IF txStateRank(target) > txStateRank(current)
          THEN /\ second' = "none"
               /\ Aim(Poller, "detail", target, "nil")
          ELSE /\ UNCHANGED second
               /\ IF target = "FINALIZED" THEN Goto(Poller, "statusStore")
                                          ELSE Leave(Poller)
    /\ UNCHANGED <<envVars, memVars, storeVars, apiVars, obsVars, job, phase,
                   todo, due, pollHead, faults>>

(* With a mistake: a transaction already published as final stays          *)
(* subscribed.                                                             *)
DecideNeverEnds ==
    /\ pc[Poller] = "decide"
    /\ LET target  == goal[Poller]
           current == pubMem[job[Poller]]
           both    == current = "none" /\ target = "FINALIZED"
       IN IF txStateRank(target) > txStateRank(current)
          THEN /\ second' = IF both THEN target ELSE "none"
               /\ Aim(Poller, "detail", IF both THEN "CONFIRMED" ELSE target, "nil")
          ELSE /\ UNCHANGED second
               /\ Leave(Poller)
    /\ UNCHANGED <<envVars, memVars, storeVars, apiVars, obsVars, job, phase,
                   todo, due, pollHead, faults>>

(* The second memory read of advanceTxSubscriptionState.                   *)
SubscriptionDecide ==
    /\ pc[Poller] = "decide"
    /\ LET target  == goal[Poller]
           current == pubMem[job[Poller]]
           both    == current = "none" /\ target = "FINALIZED"
       IN IF txStateRank(target) > txStateRank(current)
          THEN /\ second' = IF both THEN target ELSE "none"
               /\ Aim(Poller, "detail", IF both THEN "CONFIRMED" ELSE target, "nil")
          ELSE /\ UNCHANGED second
               /\ IF target = "FINALIZED" THEN Goto(Poller, "statusStore")
                                          ELSE Leave(Poller)
    /\ UNCHANGED <<envVars, memVars, storeVars, apiVars, obsVars, job, phase,
                   todo, due, pollHead, faults>>

(* QueryTransaction: the answer may be empty, and the state is published   *)
(* all the same.                                                           *)
SubscriptionDetail ==
    /\ pc[Poller] = "detail"
    /\ \/ /\ \E answer \in Answer : /\ QueryTransaction(Poller, answer)
                                    /\ Aim(Poller, "read", goal[Poller], answer)
          /\ UNCHANGED second
       \/ /\ Fault("rpcFail") /\ Leave(Poller) /\ second' = "none"
          /\ UNCHANGED withheld
    /\ UNCHANGED <<envVars, memVars, storeVars, apiVars, sent, blank, unsaved,
                   awaited, job, phase, todo, due, pollHead>>

(* pollTrackedTransactions takes its snapshot.                             *)
TrackedStart ==
    /\ pc[Poller] = "loop" /\ phase = "subs" /\ todo = {}
    /\ phase' = "tracked"
    /\ todo' = {tx \in Tx : pubMem[tx] # "none" /\ ~isTerminalTxState(pubMem[tx])}
    /\ UNCHANGED <<envVars, memVars, storeVars, apiVars, obsVars, pc, job, goal,
                   data, due, second, pollHead, faults>>

(* advanceTrackedTxState, whose snapshot entry is CONFIRMED.               *)
TrackedStatus(tx) ==
    /\ pc[Poller] = "loop" /\ phase = "tracked" /\ tx \in todo
    /\ todo' = todo \ {tx}
    /\ job' = [job EXCEPT ![Poller] = tx]
    /\ \/ /\ LET target == TrackedTarget(chain[tx]) IN
             IF target = "none" THEN UNCHANGED <<pc, goal, data>>
                            ELSE Aim(Poller, "read", target, "nil")
          /\ UNCHANGED faults
       \/ Fault("rpcFail") /\ UNCHANGED <<pc, goal, data>>
    /\ UNCHANGED <<envVars, memVars, storeVars, apiVars, obsVars, phase, due,
                   second, pollHead>>

(* retryPendingCallbacks: the tasks whose NextRetryAt has passed.          *)
RetryStart(tasks) ==
    /\ pc[Poller] = "loop" /\ phase = "tracked" /\ todo = {}
    /\ phase' = "retry"
    /\ due' = tasks
    /\ UNCHANGED <<envVars, memVars, storeVars, apiVars, obsVars, pc, job, goal,
                   data, todo, second, pollHead, faults>>

RetryTake(task) ==
    /\ pc[Poller] = "loop" /\ phase = "retry" /\ task \in due
    /\ due' = due \ {task}
    /\ job' = [job EXCEPT ![Poller] = task[2]]
    /\ Aim(Poller, "publish",
           IF task[1] = "tx" THEN "CONFIRMED" ELSE "REVERTED", "tx")
    /\ UNCHANGED <<envVars, memVars, storeVars, apiVars, obsVars, phase, todo,
                   second, pollHead, faults>>

PollEnd ==
    /\ pc[Poller] = "loop" /\ phase = "retry" /\ due = {}
    /\ Goto(Poller, "idle")
    /\ UNCHANGED <<envVars, memVars, storeVars, apiVars, pollVars, obsVars, job,
                   faults>>

-----------------------------------------------------------------------------
(* The signature watchers (runTxWatcher) and the backfills.                *)

WatchNotified(w) ==
    /\ w \in Watcher /\ pc[w] = "watch" /\ Visible(job[w])
    /\ Goto(w, "query")
    /\ UNCHANGED <<envVars, memVars, storeVars, apiVars, pollVars, obsVars, job,
                   faults>>

WatchCancelled(w) ==
    /\ pc[w] = "watch" /\ w \in cancelled
    /\ Leave(w)
    /\ UNCHANGED <<envVars, memVars, storeVars, apiVars, pollVars, obsVars, job,
                   faults>>

(* A backfill found tx in the signatures of an address.                    *)
BackfillStart(tx) ==
    /\ "backfill" \in Env /\ pc[<<tx, 0>>] = "idle" /\ Visible(tx)
    /\ Goto(<<tx, 0>>, "query")
    /\ UNCHANGED <<envVars, memVars, storeVars, apiVars, pollVars, obsVars, job,
                   faults>>

(* The watcher waits and starts over, the backfill goes without it.        *)
GiveUp(w) == IF w \in Watcher /\ w \notin cancelled
             THEN Goto(w, "watch") ELSE Leave(w)

WorkerQuery(w) ==
    /\ pc[w] = "query"
    /\ \/ \E answer \in Answer :
             /\ QueryTransaction(w, answer)
             /\ IF answer = "nil" THEN GiveUp(w)
                                 ELSE Aim(w, "read", "CONFIRMED", answer)
       \/ Fault("rpcFail") /\ GiveUp(w) /\ UNCHANGED withheld
    /\ UNCHANGED <<envVars, memVars, storeVars, apiVars, pollVars, sent, blank,
                   unsaved, awaited, job>>

-----------------------------------------------------------------------------
(* The chain as the RPC endpoint shows it, and the process as a whole.     *)

Later(status) ==
    IF status = "none" THEN {"processed", "confirmed", "finalized"}
    ELSE IF status = "processed" THEN {"confirmed", "finalized"}
    ELSE {"finalized"} \ {status}

ChainAdvance(tx) ==
    /\ \E status \in Later(chain[tx]) : chain' = [chain EXCEPT ![tx] = status]
    /\ UNCHANGED <<head, forgotten, memVars, storeVars, apiVars, pollVars, obsVars,
                   pc, job, goal, data, faults>>

ChainForget(tx) ==
    /\ Fault("fork") /\ chain[tx] \in {"processed", "confirmed"}
    /\ chain' = [chain EXCEPT ![tx] = "none"]
    /\ forgotten' = forgotten \cup {tx}
    /\ UNCHANGED <<head, memVars, storeVars, apiVars, pollVars, obsVars, pc, job,
                   goal, data>>

SlotAdvance ==
    /\ head < MaxHead
    /\ head' = head + 1
    /\ UNCHANGED <<chain, forgotten, memVars, storeVars, apiVars, pollVars, obsVars,
                   pc, job, goal, data, faults>>

(* With a mistake: the published states are not restored.                  *)
CrashForgets ==
    LET active == {tx \in Tx : subStore[tx] = "ACTIVE"} IN
    /\ Fault("crash")
    /\ subMem' = active
    /\ pubMem' = [tx \in Tx |-> "none"]
    /\ pendMem' = pendStore
    /\ entry' = [tx \in Tx |-> IF tx \in active THEN 1 ELSE 0]
    /\ cancelled' = {}
    /\ registering' = {} /\ cancelling' = {}
    /\ pc' = [p \in Proc |->
                IF \E tx \in active : p = <<tx, 1>> THEN "watch" ELSE "idle"]
    /\ goal' = [p \in Proc |-> "none"] /\ data' = [p \in Proc |-> "nil"]
    /\ phase' = "subs" /\ todo' = {} /\ due' = {}
    /\ second' = "none" /\ pollHead' = 0
    /\ UNCHANGED <<envVars, storeVars, job, obsVars>>

(* The process dies at any point and starts again: restore reads the       *)
(* tables (Load), resumeWatchers starts a watcher per subscription.        *)
Crash ==
    LET active == {tx \in Tx : subStore[tx] = "ACTIVE"} IN
    /\ Fault("crash")
    /\ subMem' = active
    /\ pubMem' = [tx \in Tx |->
                    IF isTerminalTxState(pubStore[tx]) THEN "none" ELSE pubStore[tx]]
    /\ pendMem' = pendStore
    /\ entry' = [tx \in Tx |-> IF tx \in active THEN 1 ELSE 0]
    /\ cancelled' = {}
    /\ registering' = {} /\ cancelling' = {}
    /\ pc' = [p \in Proc |->
                IF \E tx \in active : p = <<tx, 1>> THEN "watch" ELSE "idle"]
    /\ goal' = [p \in Proc |-> "none"] /\ data' = [p \in Proc |-> "nil"]
    /\ phase' = "subs" /\ todo' = {} /\ due' = {}
    /\ second' = "none" /\ pollHead' = 0
    /\ UNCHANGED <<envVars, storeVars, job, obsVars>>

-----------------------------------------------------------------------------

Init ==
    /\ chain = [tx \in Tx |-> "none"] /\ head = 0 /\ forgotten = {}
    /\ subMem = {} /\ pubMem = [tx \in Tx |-> "none"] /\ pendMem = {}
    /\ entry = [tx \in Tx |-> 0] /\ cancelled = {}
    /\ subStore = [tx \in Tx |-> "none"] /\ pubStore = [tx \in Tx |-> "none"]
    /\ pendStore = {}
    /\ registering = {} /\ cancelling = {}
    /\ pc = [p \in Proc |-> "idle"]
    /\ job = [p \in Proc |-> IF p = Poller THEN CHOOSE tx \in Tx : TRUE ELSE p[1]]
    /\ goal = [p \in Proc |-> "none"] /\ data = [p \in Proc |-> "nil"]
    /\ phase = "subs" /\ todo = {} /\ due = {}
    /\ second = "none" /\ pollHead = 0
    /\ sent = {} /\ blank = {} /\ unsaved = {}
    /\ awaited = {} /\ withheld = {}
    /\ faults = 0

(* transitionTxState and the callback functions it calls.                  *)
Transition(p) ==
    \/ TransitionRead(p) \/ Publish(p)
    \/ QueueMem(p) \/ QueueStore(p) \/ ClearMem(p) \/ ClearStore(p)
    \/ WriteMem(p) \/ WriteStore(p)

poll ==
    \/ PollStart \/ SubscriptionDecide \/ SubscriptionDetail
    \/ TrackedStart \/ PollEnd \/ StatusStore \/ StatusMem
    \/ \E tx \in Tx : SubscriptionStatus(tx) \/ TrackedStatus(tx)
    \/ \E tasks \in SUBSET pendMem : RetryStart(tasks)
    \/ \E task \in Task : RetryTake(task)

runWorker(w) == WatchNotified(w) \/ WatchCancelled(w) \/ WorkerQuery(w)

API(tx) == RegisterStore(tx) \/ RegisterMem(tx) \/ CancelStore(tx) \/ CancelMem(tx)

Environment ==
    \/ SlotAdvance \/ Crash
    \/ \E tx \in Tx : ChainAdvance(tx) \/ ChainForget(tx) \/ BackfillStart(tx)

Next ==
    \/ poll
    \/ \E p \in Proc : Transition(p)
    \/ \E w \in Worker : runWorker(w)
    \/ \E tx \in Tx : API(tx)
    \/ Environment

Spec == Init /\ [][Next]_vars

(* The ticker, the watchers and the handlers keep running; a poll that is  *)
(* due to retry the whole queue comes again and again, since NextRetryAt   *)
(* is one poll interval away.  Faults are bounded, hence they stop.        *)
Fairness ==
    /\ WF_vars(poll \/ Transition(Poller))
    /\ SF_vars(RetryStart(pendMem))
    /\ \A w \in Worker : WF_vars(runWorker(w) \/ Transition(w))
    /\ \A tx \in Tx : WF_vars(RegisterMem(tx)) /\ WF_vars(CancelMem(tx))

LiveSpec == Spec /\ Fairness

-----------------------------------------------------------------------------
(* Safety.                                                                 *)

(* A callback that was delivered, or that a restart will find in the queue *)
(* table.  A failed save is the one excuse: its error is only logged.      *)
Covered == sent \cup pendStore \cup unsaved

(* The outbox order of transitionTxState: no state is recorded, in memory  *)
(* or in MySQL, before the message that announces it has been delivered or *)
(* queued, whoever else publishes, clears or retries the same task, and    *)
(* wherever a crash falls.  A state recorded too early is a callback lost  *)
(* for good: nothing publishes it again.                                   *)
AnnouncedBeforeRecorded ==
    \A tx \in Tx :
        /\ "CONFIRMED" \in {pubMem[tx], pubStore[tx]} => <<"tx", tx>> \in Covered
        /\ "REVERTED" \in {pubMem[tx], pubStore[tx]} => <<"rollback", tx>> \in Covered

(* The consumer is never asked to roll back a transaction it has not been  *)
(* told of, and will not be: the stale snapshots of pollTracked            *)
(* Transactions and the retries taken from the queue included.             *)
RollbackOnlyAfterCallback ==
    \A tx \in Tx :
        <<"rollback", tx>> \in sent \cup pendMem \cup pendStore
            => <<"tx", tx>> \in Covered

(* A subscription request accepted before its transaction was published is *)
(* called back (Connector.md:492): once anything is recorded of the        *)
(* transaction, which nobody then announces again, a callback has been     *)
(* delivered since the request, or waits in the queue table (or its save   *)
(* failed).  A callback delivered before the request, or by a process that *)
(* died before recording it, does not count.  The promise does not extend  *)
(* to a window that ends without the transaction, nor, against what        *)
(* Connector.md:494 says, to a request that finds the transaction already  *)
(* published: that one gets no callback (subscription_service.go:224, 518).*)
RequestIsCalledBack ==
    \A tx \in awaited :
        pubMem[tx] # "none" => <<"tx", tx>> \in pendStore \cup unsaved

(* A confirmed transaction is published without its data, which            *)
(* Connector.md:450 keeps for dropped and reverted ones, only if the node  *)
(* failed the connector: it forgot a transaction it had reported, or       *)
(* withheld one it still reports.  Whoever publishes has seen the          *)
(* transaction confirmed before it asks for the data; the poller then      *)
(* publishes whatever it got (subscription_service.go:225), the watchers   *)
(* and the backfills unless it was a plain not found.                      *)
CallbackCarriesTx == blank \subseteq forgotten \cup withheld

(* A transaction has a registered watcher exactly while it is subscribed,  *)
(* that watcher's context is live, and no other live watcher of it runs:   *)
(* txSubs and txWatchers change under one lock, in every order of          *)
(* subscribing, cancelling, completing and restarting.                     *)
OneLiveWatcher ==
    \A tx \in Tx :
        /\ tx \in subMem <=> entry[tx] # 0
        /\ <<tx, entry[tx]>> \notin cancelled
        /\ \A g \in Gen : pc[<<tx, g>>] # "idle" /\ <<tx, g>> \notin cancelled
                           => entry[tx] = g

-----------------------------------------------------------------------------
(* What survives a crash behaves as the outbox the consumer relies on.     *)

Outbox == INSTANCE CallbackOutbox
            WITH delivered <- sent, queue <- pendStore, missed <- unsaved,
                 recorded <- pubStore

(* The service implements the outbox: every step of every goroutine, and   *)
(* every crash, is a step of it or leaves delivered messages and tables    *)
(* alone.                                                                  *)
ImplementsOutbox == Outbox!Spec

-----------------------------------------------------------------------------
(* Liveness.                                                               *)

(* A queued callback leaves the queue: it is retried until a publish       *)
(* succeeds (retryPendingCallbacks), across restarts.                      *)
QueueDrains ==
    \A task \in Task : task \in pendMem ~> task \notin pendMem

(* A state written back by a goroutine that had read an older one is put   *)
(* right by the polls: what the chain has finalized does not stay          *)
(* CONFIRMED in memory.                                                    *)
FinalityIsReached ==
    \A tx \in Tx :
        pubMem[tx] = "CONFIRMED" /\ chain[tx] = "finalized"
            ~> pubMem[tx] # "CONFIRMED"

(* A transaction recorded as CONFIRMED that vanishes from the chain and    *)
(* stays away is rolled back at the consumer, across restarts.             *)
VanishedIsRolledBack ==
    \A tx \in Tx :
        pubStore[tx] = "CONFIRMED" /\ chain[tx] = "none"
            ~> <<"rollback", tx>> \in sent \/ chain[tx] # "none"

(* A subscription ends once its transaction is final, or once its window   *)
(* has passed without the transaction: no subscription is polled forever.  *)
SubscriptionEnds ==
    \A tx \in Tx :
        tx \in subMem /\ (chain[tx] = "finalized" \/ head > EndBlock)
            ~> tx \notin subMem \/ chain[tx] \in {"processed", "confirmed"}

(* A request accepted before its transaction was published gets a callback *)
(* of its own once the transaction is final, across crashes and failed     *)
(* publishes.                                                              *)
SubscribedIsCalledBack ==
    \A tx \in Tx :
        tx \in awaited /\ chain[tx] = "finalized" ~> tx \notin awaited

=============================================================================
