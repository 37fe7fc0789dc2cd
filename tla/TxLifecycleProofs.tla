-------------------------- MODULE TxLifecycleProofs --------------------------
(***************************************************************************)
(* Theorems about TxLifecycle, for every set of transactions, every bound  *)
(* and every choice of environment events: its types, its safety, and that *)
(* it implements CallbackOutbox.                                           *)
(***************************************************************************)
EXTENDS TxLifecycle, TLAPS

(* The processes: the poller is none of the workers.                       *)
LEMMA ProcFacts ==
    /\ Poller \in Proc
    /\ Worker \subseteq Proc /\ Watcher \subseteq Worker
    /\ Poller \notin Worker
    /\ \A p \in Proc : p = Poller \/ p \in Worker
    /\ \A tx \in Tx : <<tx, 0>> \in Worker /\ <<tx, 0>> \notin Watcher
    /\ \A tx \in Tx, g \in Gen : <<tx, g>> \in Watcher
    /\ \A w \in Worker : w[1] \in Tx
  BY ConstantAssumption DEF Proc, Worker, Watcher, Gen

-----------------------------------------------------------------------------
(* Type correctness.  A transition that ends with an update of the         *)
(* subscription's status must know the status: that is the part of the     *)
(* poller's control state the type invariant rests on.                     *)

PollerControl ==
    /\ pc[Poller] \in {"idle", "loop"} => goal[Poller] = "none"
    /\ pc[Poller] \in {"decide", "detail"} => phase = "subs"
    /\ pc[Poller] = "statusStore" => EndStatus(Poller) # "none"

TypeInv == TypeOK /\ PollerControl

(* The initial states satisfy the type invariant.                          *)
LEMMA TypeInit == Init => TypeInv
<1> SUFFICES ASSUME Init PROVE TypeInv
  OBVIOUS
<1>1. job \in [Proc -> Tx]
  <2>1. (CHOOSE tx \in Tx : TRUE) \in Tx
    BY ConstantAssumption
  <2> QED
    BY <2>1, ProcFacts DEF Init
<1>2. TypeOK
  BY <1>1, ConstantAssumption, ProcFacts
     DEF Init, TypeOK, ChainStatus, SubStatus, TxState, Answer, ProcPoint, Task, Kind
<1>3. PollerControl
  BY ProcFacts DEF Init, PollerControl
<1> QED
  BY <1>2, <1>3 DEF TypeInv

(* The task a process can publish is a task.                               *)
LEMMA TaskOfType == ASSUME TypeOK, NEW p \in Proc PROVE TaskOf(p) \in Task
  BY DEF TypeOK, TaskOf, Task, Kind

(* The return of transitionTxState keeps the types of what it assigns.     *)
LEMMA ReturnType ==
    ASSUME TypeOK, NEW p \in Proc, Return(p)
    PROVE  /\ pc' \in [Proc -> ProcPoint] /\ goal' \in [Proc -> TxState]
           /\ data' \in [Proc -> Answer] /\ second' \in {"none", "FINALIZED"}
  BY DEF Return, Goto, Aim, Leave, TypeOK, ProcPoint, TxState, Answer

(* transitionTxState keeps the types.                                      *)
LEMMA TransitionType ==
    ASSUME TypeInv, NEW p \in Proc, Transition(p) PROVE TypeInv'
<1> USE DEF TypeInv, Goto, Aim, Leave, envVars, memVars, storeVars, apiVars,
            pollVars, obsVars
<1>0. TypeOK /\ PollerControl /\ TaskOf(p) \in Task /\ p \in Proc
  BY TaskOfType
<1>1. CASE TransitionRead(p)
  <2>1. TypeOK'
    BY <1>0, <1>1, ProcFacts, ConstantAssumption
       DEF TransitionRead, Return, TypeOK, TxState, Answer, ProcPoint, Task, Kind
  <2>2. PollerControl'
    BY <1>0, <1>1, ProcFacts
       DEF TransitionRead, Return, TypeOK, PollerControl, EndStatus
  <2> QED BY <2>1, <2>2
<1>2. CASE Publish(p)
  <2>1. TypeOK'
    BY <1>0, <1>2, ProcFacts, ConstantAssumption
       DEF Publish, Deliver, TaskOf, Fault, TypeOK, TxState, Answer, ProcPoint, Task, Kind
  <2>2. PollerControl'
    BY <1>0, <1>2, ProcFacts
       DEF Publish, Deliver, TaskOf, Fault, TypeOK, PollerControl, EndStatus
  <2> QED BY <2>1, <2>2
<1>3. CASE QueueMem(p)
  <2>1. TypeOK'
    BY <1>0, <1>3, ProcFacts, ConstantAssumption
       DEF QueueMem, TypeOK, TxState, Answer, ProcPoint, Task, Kind
  <2>2. PollerControl'
    BY <1>0, <1>3, ProcFacts
       DEF QueueMem, TypeOK, PollerControl, EndStatus
  <2> QED BY <2>1, <2>2
<1>4. CASE QueueStore(p)
  <2>1. TypeOK'
    BY <1>0, <1>4, ProcFacts, ConstantAssumption
       DEF QueueStore, AfterCallback, Fault, TypeOK, TxState, Answer, ProcPoint, Task, Kind
  <2>2. PollerControl'
    BY <1>0, <1>4, ProcFacts
       DEF QueueStore, AfterCallback, Fault, TypeOK, PollerControl, EndStatus
  <2> QED BY <2>1, <2>2
<1>5. CASE ClearMem(p)
  <2>1. TypeOK'
    BY <1>0, <1>5, ProcFacts, ConstantAssumption
       DEF ClearMem, AfterCallback, TypeOK, TxState, Answer, ProcPoint, Task, Kind
  <2>2. PollerControl'
    BY <1>0, <1>5, ProcFacts
       DEF ClearMem, AfterCallback, TypeOK, PollerControl, EndStatus
  <2> QED BY <2>1, <2>2
<1>6. CASE ClearStore(p)
  <2>1. TypeOK'
    BY <1>0, <1>6, ProcFacts, ConstantAssumption, SMTT(30)
       DEF ClearStore, AfterCallback, Fault, TypeOK, TxState, Answer, ProcPoint, Task, Kind
  <2>2. PollerControl'
    BY <1>0, <1>6, ProcFacts
       DEF ClearStore, AfterCallback, Fault, TypeOK, PollerControl, EndStatus
  <2> QED BY <2>1, <2>2
<1>7. CASE WriteMem(p)
  <2>1. TypeOK'
    BY <1>0, <1>7, ProcFacts, ConstantAssumption
       DEF WriteMem, TypeOK, TxState, Answer, ProcPoint, Task, Kind
  <2>2. PollerControl'
    BY <1>0, <1>7, ProcFacts
       DEF WriteMem, TypeOK, PollerControl, EndStatus
  <2> QED BY <2>1, <2>2
<1>8. CASE WriteStore(p)
  <2>1. TypeOK'
    <3>1. pubStore' \in [Tx -> TxState] /\ faults' \in 0 .. MaxFaults
      BY <1>0, <1>8, ConstantAssumption DEF WriteStore, Fault, TypeOK
    <3>2. Return(p)
      BY <1>8 DEF WriteStore
    <3> QED
      BY <3>1, <3>2, <1>0, <1>8, ReturnType DEF WriteStore, TypeOK
  <2>2. PollerControl'
    BY <1>0, <1>8, ProcFacts
       DEF WriteStore, Return, Fault, TypeOK, PollerControl, EndStatus
  <2> QED BY <2>1, <2>2
<1> QED
  BY <1>1, <1>2, <1>3, <1>4, <1>5, <1>6, <1>7, <1>8 DEF Transition


(* The poll loop keeps the types.                                          *)
LEMMA PollType == ASSUME TypeInv, poll PROVE TypeInv'
<1> USE DEF TypeInv, Goto, Aim, Leave, envVars, memVars, storeVars, apiVars,
            pollVars, obsVars
<1>0. TypeOK /\ PollerControl
  OBVIOUS
<1>1. CASE PollStart
  <2>1. TypeOK'
    BY <1>0, <1>1, ProcFacts, ConstantAssumption
       DEF PollStart, TypeOK, SubStatus, TxState, Answer, ProcPoint, Task, Kind
  <2>2. PollerControl'
    BY <1>0, <1>1, ProcFacts
       DEF PollStart, TypeOK, PollerControl, EndStatus
  <2> QED BY <2>1, <2>2
<1>2. CASE SubscriptionDecide
  <2>1. TypeOK'
    BY <1>0, <1>2, ProcFacts, ConstantAssumption
       DEF SubscriptionDecide, txStateRank, TypeOK, SubStatus, TxState, Answer, ProcPoint, Task, Kind
  <2>2. PollerControl'
    BY <1>0, <1>2, ProcFacts
       DEF SubscriptionDecide, txStateRank, TypeOK, PollerControl, EndStatus
  <2> QED BY <2>1, <2>2
<1>3. CASE SubscriptionDetail
  <2>1. TypeOK'
    BY <1>0, <1>3, ProcFacts, ConstantAssumption
       DEF SubscriptionDetail, QueryTransaction, Fault, TypeOK, SubStatus, TxState, Answer, ProcPoint, Task, Kind
  <2>2. PollerControl'
    BY <1>0, <1>3, ProcFacts
       DEF SubscriptionDetail, QueryTransaction, Fault, TypeOK, PollerControl, EndStatus
  <2> QED BY <2>1, <2>2
<1>4. CASE TrackedStart
  <2>1. TypeOK'
    BY <1>0, <1>4, ProcFacts, ConstantAssumption
       DEF TrackedStart, TypeOK, SubStatus, TxState, Answer, ProcPoint, Task, Kind
  <2>2. PollerControl'
    BY <1>0, <1>4, ProcFacts
       DEF TrackedStart, TypeOK, PollerControl, EndStatus
  <2> QED BY <2>1, <2>2
<1>5. CASE PollEnd
  <2>1. TypeOK'
    BY <1>0, <1>5, ProcFacts, ConstantAssumption
       DEF PollEnd, TypeOK, SubStatus, TxState, Answer, ProcPoint, Task, Kind
  <2>2. PollerControl'
    BY <1>0, <1>5, ProcFacts
       DEF PollEnd, TypeOK, PollerControl, EndStatus
  <2> QED BY <2>1, <2>2
<1>6. CASE StatusStore
  <2>1. TypeOK'
    BY <1>0, <1>6, ProcFacts, ConstantAssumption
       DEF StatusStore, UpdateStatus, EndStatus, Fault, TypeOK, SubStatus, TxState, Answer, ProcPoint, Task, Kind
  <2>2. PollerControl'
    BY <1>0, <1>6, ProcFacts
       DEF StatusStore, UpdateStatus, EndStatus, Fault, TypeOK, PollerControl
  <2> QED BY <2>1, <2>2
<1>7. CASE StatusMem
  <2>1. TypeOK'
    BY <1>0, <1>7, ProcFacts, ConstantAssumption
       DEF StatusMem, DropSubscription, Watcher, Gen, TypeOK, SubStatus, TxState, Answer, ProcPoint, Task, Kind
  <2>2. PollerControl'
    BY <1>0, <1>7, ProcFacts
       DEF StatusMem, DropSubscription, Watcher, Gen, TypeOK, PollerControl, EndStatus
  <2> QED BY <2>1, <2>2
<1>8. ASSUME NEW tx \in Tx, SubscriptionStatus(tx) PROVE TypeInv'
  <2>1. TypeOK'
    <3>1. SubscriptionTarget(chain[tx]) \in TxState
      BY DEF SubscriptionTarget, SeenState, TxState
    <3>2. /\ pc' \in [Proc -> ProcPoint] /\ goal' \in [Proc -> TxState]
          /\ data' \in [Proc -> Answer]
      BY <1>0, <1>8, <3>1, ProcFacts DEF SubscriptionStatus, TypeOK, Answer, ProcPoint
    <3>3. faults' = faults \/ (faults < MaxFaults /\ faults' = faults + 1)
      BY <1>8 DEF SubscriptionStatus, Fault
    <3>4. faults' \in 0 .. MaxFaults
      BY <1>0, <3>3, ConstantAssumption DEF TypeOK
    <3>5. job' \in [Proc -> Tx] /\ todo' \subseteq Tx
      BY <1>0, <1>8 DEF SubscriptionStatus, TypeOK
    <3> QED
      BY <1>0, <1>8, <3>2, <3>4, <3>5 DEF SubscriptionStatus, TypeOK
  <2>2. PollerControl'
    BY <1>0, <1>8, ProcFacts
       DEF SubscriptionStatus, SubscriptionTarget, SeenState, Fault, TypeOK, PollerControl, EndStatus
  <2> QED BY <2>1, <2>2
<1>9. ASSUME NEW tx \in Tx, TrackedStatus(tx) PROVE TypeInv'
  <2>1. TypeOK'
    <3>1. /\ pc' \in [Proc -> ProcPoint] /\ goal' \in [Proc -> TxState]
          /\ data' \in [Proc -> Answer]
      BY <1>0, <1>9, ProcFacts
         DEF TrackedStatus, TrackedTarget, TypeOK, TxState, Answer, ProcPoint
    <3>2. faults' \in 0 .. MaxFaults
      BY <1>0, <1>9, ConstantAssumption DEF TrackedStatus, Fault, TypeOK
    <3> QED
      BY <1>0, <1>9, <3>1, <3>2, ProcFacts DEF TrackedStatus, TypeOK
  <2>2. PollerControl'
    BY <1>0, <1>9, ProcFacts
       DEF TrackedStatus, TrackedTarget, Fault, TypeOK, PollerControl, EndStatus
  <2> QED BY <2>1, <2>2
<1>10. ASSUME NEW tasks \in SUBSET pendMem, RetryStart(tasks) PROVE TypeInv'
  <2>1. TypeOK'
    BY <1>0, <1>10, ProcFacts, ConstantAssumption
       DEF RetryStart, TypeOK, SubStatus, TxState, Answer, ProcPoint, Task, Kind
  <2>2. PollerControl'
    BY <1>0, <1>10, ProcFacts
       DEF RetryStart, TypeOK, PollerControl, EndStatus
  <2> QED BY <2>1, <2>2
<1>11. ASSUME NEW task \in Task, RetryTake(task) PROVE TypeInv'
  <2>1. TypeOK'
    BY <1>0, <1>11, ProcFacts, ConstantAssumption
       DEF RetryTake, TypeOK, SubStatus, TxState, Answer, ProcPoint, Task, Kind
  <2>2. PollerControl'
    BY <1>0, <1>11, ProcFacts
       DEF RetryTake, TypeOK, PollerControl, EndStatus
  <2> QED BY <2>1, <2>2
<1> QED
  BY <1>1, <1>2, <1>3, <1>4, <1>5, <1>6, <1>7, <1>8, <1>9, <1>10, <1>11 DEF poll

(* The watchers and the backfills keep the types.                          *)
LEMMA WorkerType == ASSUME TypeInv, NEW w \in Worker, runWorker(w) PROVE TypeInv'
<1> USE DEF TypeInv, Goto, Aim, Leave, envVars, memVars, storeVars, apiVars,
            pollVars, obsVars
<1>0. TypeOK /\ PollerControl
  OBVIOUS
<1>1. CASE WatchNotified(w)
  <2>1. TypeOK'
    BY <1>0, <1>1, ProcFacts, ConstantAssumption
       DEF WatchNotified, TypeOK, SubStatus, TxState, Answer, ProcPoint, Task, Kind
  <2>2. PollerControl'
    BY <1>0, <1>1, ProcFacts
       DEF WatchNotified, TypeOK, PollerControl, EndStatus
  <2> QED BY <2>1, <2>2
<1>2. CASE WatchCancelled(w)
  <2>1. TypeOK'
    BY <1>0, <1>2, ProcFacts, ConstantAssumption
       DEF WatchCancelled, TypeOK, SubStatus, TxState, Answer, ProcPoint, Task, Kind
  <2>2. PollerControl'
    BY <1>0, <1>2, ProcFacts
       DEF WatchCancelled, TypeOK, PollerControl, EndStatus
  <2> QED BY <2>1, <2>2
<1>3. CASE WorkerQuery(w)
  <2>1. TypeOK'
    BY <1>0, <1>3, ProcFacts, ConstantAssumption
       DEF WorkerQuery, GiveUp, QueryTransaction, Fault, TypeOK, SubStatus, TxState, Answer, ProcPoint, Task, Kind
  <2>2. PollerControl'
    BY <1>0, <1>3, ProcFacts
       DEF WorkerQuery, GiveUp, QueryTransaction, Fault, TypeOK, PollerControl, EndStatus
  <2> QED BY <2>1, <2>2
<1> QED
  BY <1>1, <1>2, <1>3 DEF runWorker

(* The API calls keep the types.                                           *)
LEMMA APIType == ASSUME TypeInv, NEW tx \in Tx, API(tx) PROVE TypeInv'
<1> USE DEF TypeInv, Goto, Aim, Leave, envVars, memVars, storeVars, apiVars,
            pollVars, obsVars
<1>0. TypeOK /\ PollerControl
  OBVIOUS
<1>1. CASE RegisterStore(tx)
  <2>1. TypeOK'
    BY <1>0, <1>1, ProcFacts, ConstantAssumption
       DEF RegisterStore, TypeOK, SubStatus, TxState, Answer, ProcPoint, Task, Kind
  <2>2. PollerControl'
    BY <1>0, <1>1, ProcFacts
       DEF RegisterStore, TypeOK, PollerControl, EndStatus
  <2> QED BY <2>1, <2>2
<1>2. CASE RegisterMem(tx)
  <2>1. TypeOK'
    <3>1. CASE entry[tx] # 0
      BY <1>0, <1>2, <3>1 DEF RegisterMem, startTxWatcherLocked, TypeOK
    <3>2. CASE entry[tx] = 0
      <4>1. PICK g \in Gen :
              /\ entry' = [entry EXCEPT ![tx] = g]
              /\ cancelled' = cancelled \ {<<tx, g>>}
              /\ pc' = [pc EXCEPT ![<<tx, g>>] = "watch"]
        BY <1>2, <3>2 DEF RegisterMem, startTxWatcherLocked
      <4>2. pc' \in [Proc -> ProcPoint]
        BY <1>0, <4>1 DEF TypeOK, ProcPoint
      <4>3. entry' \in [Tx -> 0 .. MaxGen] /\ cancelled' \subseteq Watcher
        BY <1>0, <4>1, ConstantAssumption DEF TypeOK, Gen
      <4> QED
        BY <1>0, <1>2, <4>2, <4>3 DEF RegisterMem, TypeOK
    <3> QED
      BY <3>1, <3>2
  <2>2. PollerControl'
    BY <1>0, <1>2, ProcFacts
       DEF RegisterMem, startTxWatcherLocked, Watcher, Gen, TypeOK, PollerControl, EndStatus
  <2> QED BY <2>1, <2>2
<1>3. CASE CancelStore(tx)
  <2>1. TypeOK'
    BY <1>0, <1>3, ProcFacts, ConstantAssumption
       DEF CancelStore, UpdateStatus, TypeOK, SubStatus, TxState, Answer, ProcPoint, Task, Kind
  <2>2. PollerControl'
    BY <1>0, <1>3, ProcFacts
       DEF CancelStore, UpdateStatus, TypeOK, PollerControl, EndStatus
  <2> QED BY <2>1, <2>2
<1>4. CASE CancelMem(tx)
  <2>1. TypeOK'
    BY <1>0, <1>4, ProcFacts, ConstantAssumption
       DEF CancelMem, DropSubscription, Watcher, Gen, TypeOK, SubStatus, TxState, Answer, ProcPoint, Task, Kind
  <2>2. PollerControl'
    BY <1>0, <1>4, ProcFacts
       DEF CancelMem, DropSubscription, Watcher, Gen, TypeOK, PollerControl, EndStatus
  <2> QED BY <2>1, <2>2
<1> QED
  BY <1>1, <1>2, <1>3, <1>4 DEF API

(* The chain, a backfill that starts, and a crash keep the types.          *)
LEMMA EnvironmentType == ASSUME TypeInv, Environment PROVE TypeInv'
<1> USE DEF TypeInv, Goto, Aim, Leave, envVars, memVars, storeVars, apiVars,
            pollVars, obsVars
<1>0. TypeOK /\ PollerControl
  OBVIOUS
<1>1. CASE SlotAdvance
  <2>1. TypeOK'
    BY <1>0, <1>1, ProcFacts, ConstantAssumption
       DEF SlotAdvance, TypeOK, SubStatus, TxState, Answer, ProcPoint, Task, Kind
  <2>2. PollerControl'
    BY <1>0, <1>1, ProcFacts
       DEF SlotAdvance, TypeOK, PollerControl, EndStatus
  <2> QED BY <2>1, <2>2
<1>2. CASE Crash
  <2>1. TypeOK'
    BY <1>0, <1>2, ProcFacts, ConstantAssumption
       DEF Crash, Fault, Watcher, Gen, TypeOK, SubStatus, TxState, Answer, ProcPoint, Task, Kind
  <2>2. PollerControl'
    BY <1>0, <1>2, ProcFacts
       DEF Crash, Fault, Watcher, Gen, TypeOK, PollerControl, EndStatus
  <2> QED BY <2>1, <2>2
<1>3. ASSUME NEW tx \in Tx, ChainAdvance(tx) PROVE TypeInv'
  <2>1. TypeOK'
    BY <1>0, <1>3, ProcFacts, ConstantAssumption
       DEF ChainAdvance, Later, ChainStatus, TypeOK, SubStatus, TxState, Answer, ProcPoint, Task, Kind
  <2>2. PollerControl'
    BY <1>0, <1>3, ProcFacts
       DEF ChainAdvance, Later, ChainStatus, TypeOK, PollerControl, EndStatus
  <2> QED BY <2>1, <2>2
<1>4. ASSUME NEW tx \in Tx, ChainForget(tx) PROVE TypeInv'
  <2>1. TypeOK'
    BY <1>0, <1>4, ProcFacts, ConstantAssumption
       DEF ChainForget, Fault, ChainStatus, TypeOK, SubStatus, TxState, Answer, ProcPoint, Task, Kind
  <2>2. PollerControl'
    BY <1>0, <1>4, ProcFacts
       DEF ChainForget, Fault, ChainStatus, TypeOK, PollerControl, EndStatus
  <2> QED BY <2>1, <2>2
<1>5. ASSUME NEW tx \in Tx, BackfillStart(tx) PROVE TypeInv'
  <2>1. TypeOK'
    BY <1>0, <1>5, ProcFacts, ConstantAssumption
       DEF BackfillStart, TypeOK, SubStatus, TxState, Answer, ProcPoint, Task, Kind
  <2>2. PollerControl'
    BY <1>0, <1>5, ProcFacts
       DEF BackfillStart, TypeOK, PollerControl, EndStatus
  <2> QED BY <2>1, <2>2
<1> QED
  BY <1>1, <1>2, <1>3, <1>4, <1>5 DEF Environment

(* A step that changes nothing keeps everything that only the variables    *)
(* determine.                                                              *)
LEMMA TypeStutter == TypeInv /\ UNCHANGED vars => TypeInv'
  BY DEF vars, envVars, memVars, storeVars, apiVars, pollVars, obsVars,
         TypeInv, TypeOK, PollerControl, EndStatus

(* The type invariant is inductive.                                        *)
THEOREM TypeInvariance == Spec => []TypeInv
<1>1. TypeInv /\ [Next]_vars => TypeInv'
  BY ProcFacts, PollType, TransitionType, WorkerType, APIType, EnvironmentType,
     TypeStutter DEF Next
<1> QED
  BY TypeInit, <1>1, PTL DEF Spec

(* Every state has the types its declarations say: no goroutine publishes  *)
(* a state, a task or a status that does not exist.                        *)
THEOREM TypeCorrect == Spec => []TypeOK
  BY TypeInvariance, PTL DEF TypeInv

-----------------------------------------------------------------------------
(* The outbox order.  A process that clears a queue entry has delivered    *)
(* the message, one that writes a state has announced it, and whoever      *)
(* holds a rollback -- as a goal, in a snapshot or in a queue -- comes     *)
(* after a callback.                                                       *)

ClearAfterDelivery ==
    \A p \in Proc : pc[p] \in {"clearMem", "clearStore"} => TaskOf(p) \in sent

WriteAfterAnnouncement ==
    \A p \in Proc :
        pc[p] \in {"writeMem", "writeStore"} /\ goal[p] \in {"CONFIRMED", "REVERTED"}
            => TaskOf(p) \in Covered

RollbackGoal ==
    \A p \in Proc : goal[p] = "REVERTED" => <<"tx", job[p]>> \in Covered

TrackedSnapshot ==
    phase = "tracked" => \A tx \in todo : <<"tx", tx>> \in Covered

RollbackTask ==
    \A tx \in Tx :
        <<"rollback", tx>> \in sent \cup pendMem \cup pendStore \cup due \cup unsaved
            => <<"tx", tx>> \in Covered

DeliveryInv ==
    /\ ClearAfterDelivery /\ WriteAfterAnnouncement /\ AnnouncedBeforeRecorded
    /\ RollbackGoal /\ TrackedSnapshot /\ RollbackTask

(* Nothing is delivered, queued or recorded in the initial states.         *)
LEMMA DeliveryInit == Init => DeliveryInv
  BY ProcFacts
     DEF Init, DeliveryInv, ClearAfterDelivery, WriteAfterAnnouncement,
         AnnouncedBeforeRecorded, RollbackGoal, TrackedSnapshot, RollbackTask

(* What is covered stays covered: an entry leaves the queue only once its  *)
(* message was delivered.                                                  *)
LEMMA CoveredGrows ==
    ASSUME TypeInv, DeliveryInv, NEW p \in Proc, Transition(p)
    PROVE  Covered \subseteq Covered' /\ sent \subseteq sent'
<1> USE DEF Covered, envVars, memVars, storeVars, apiVars, pollVars, obsVars
<1>1. CASE TransitionRead(p)
  BY <1>1 DEF TransitionRead
<1>2. CASE Publish(p)
  BY <1>2 DEF Publish, Deliver
<1>3. CASE QueueMem(p)
  BY <1>3 DEF QueueMem
<1>4. CASE QueueStore(p)
  BY <1>4 DEF QueueStore
<1>5. CASE ClearMem(p)
  BY <1>5 DEF ClearMem
<1>6. CASE ClearStore(p)
  <2>1. TaskOf(p) \in sent
    BY <1>6 DEF ClearStore, DeliveryInv, ClearAfterDelivery
  <2> QED
    BY <1>6, <2>1 DEF ClearStore
<1>7. CASE WriteMem(p)
  BY <1>7 DEF WriteMem
<1>8. CASE WriteStore(p)
  BY <1>8 DEF WriteStore
<1> QED
  BY <1>1, <1>2, <1>3, <1>4, <1>5, <1>6, <1>7, <1>8 DEF Transition

(* A process that handles a rollback comes after a callback, and the       *)
(* states that are announced are announced by the task of that name.       *)
LEMMA TaskOfFacts ==
    ASSUME TypeOK, DeliveryInv, NEW p \in Proc
    PROVE  /\ TaskOf(p) \in Task /\ job[p] \in Tx
           /\ goal[p] = "CONFIRMED" => TaskOf(p) = <<"tx", job[p]>>
           /\ goal[p] = "REVERTED" => TaskOf(p) = <<"rollback", job[p]>>
           /\ \A tx \in Tx : TaskOf(p) = <<"rollback", tx>> => <<"tx", tx>> \in Covered
  BY DEF TypeOK, TaskOf, Task, Kind, DeliveryInv, RollbackGoal

(* transitionTxState keeps the outbox order.                               *)
LEMMA TransitionDelivery ==
    ASSUME TypeInv, DeliveryInv, NEW p \in Proc, Transition(p) PROVE DeliveryInv'
<1> USE DEF Goto, Aim, Leave, envVars, memVars, storeVars, apiVars, pollVars,
            obsVars
<1>0. /\ TypeOK /\ DeliveryInv
      /\ Covered \subseteq Covered' /\ sent \subseteq sent'
  BY CoveredGrows DEF TypeInv
<1>a. /\ TaskOf(p) \in Task /\ job[p] \in Tx
      /\ goal[p] = "CONFIRMED" => TaskOf(p) = <<"tx", job[p]>>
      /\ goal[p] = "REVERTED" => TaskOf(p) = <<"rollback", job[p]>>
      /\ \A tx \in Tx : TaskOf(p) = <<"rollback", tx>> => <<"tx", tx>> \in Covered
  BY <1>0, TaskOfFacts
<1>b. sent \subseteq Covered /\ pendStore \subseteq Covered /\ unsaved \subseteq Covered
  BY DEF Covered
<1>c. Covered' = sent' \cup pendStore' \cup unsaved'
  BY DEF Covered
<1>1. CASE TransitionRead(p)
  <2>1. ClearAfterDelivery'
    BY <1>0, <1>1
       DEF TransitionRead, Return, TypeOK, DeliveryInv, ClearAfterDelivery, TaskOf
  <2>2. WriteAfterAnnouncement'
    BY <1>0, <1>1
       DEF TransitionRead, Return, TypeOK, DeliveryInv, WriteAfterAnnouncement, TaskOf
  <2>3. RollbackGoal'
    BY <1>0, <1>1
       DEF TransitionRead, Return, TypeOK, DeliveryInv, RollbackGoal
  <2>4. AnnouncedBeforeRecorded'
    BY <1>0, <1>1
       DEF TransitionRead, Return, TypeOK, DeliveryInv, AnnouncedBeforeRecorded
  <2>5. TrackedSnapshot'
    BY <1>0, <1>1
       DEF TransitionRead, Return, TypeOK, DeliveryInv, TrackedSnapshot
  <2>6. RollbackTask'
    BY <1>0, <1>1
       DEF TransitionRead, Return, TypeOK, DeliveryInv, RollbackTask
  <2> QED BY <2>1, <2>2, <2>3, <2>4, <2>5, <2>6 DEF DeliveryInv
<1>2. CASE Publish(p)
  <2>1. ClearAfterDelivery'
    BY <1>0, <1>2
       DEF Publish, Deliver, TypeOK, DeliveryInv, ClearAfterDelivery, TaskOf
  <2>2. WriteAfterAnnouncement'
    BY <1>0, <1>2
       DEF Publish, Deliver, TypeOK, DeliveryInv, WriteAfterAnnouncement, TaskOf
  <2>3. RollbackGoal'
    BY <1>0, <1>2
       DEF Publish, Deliver, TypeOK, DeliveryInv, RollbackGoal
  <2>4. AnnouncedBeforeRecorded'
    BY <1>0, <1>2
       DEF Publish, Deliver, TypeOK, DeliveryInv, AnnouncedBeforeRecorded
  <2>5. TrackedSnapshot'
    BY <1>0, <1>2
       DEF Publish, Deliver, TypeOK, DeliveryInv, TrackedSnapshot
  <2>6. RollbackTask'
    BY <1>0, <1>a, <1>2
       DEF Publish, Deliver, TypeOK, DeliveryInv, RollbackTask
  <2> QED BY <2>1, <2>2, <2>3, <2>4, <2>5, <2>6 DEF DeliveryInv
<1>3. CASE QueueMem(p)
  <2>1. ClearAfterDelivery'
    BY <1>0, <1>3
       DEF QueueMem, TypeOK, DeliveryInv, ClearAfterDelivery, TaskOf
  <2>2. WriteAfterAnnouncement'
    BY <1>0, <1>3
       DEF QueueMem, TypeOK, DeliveryInv, WriteAfterAnnouncement, TaskOf
  <2>3. RollbackGoal'
    BY <1>0, <1>3
       DEF QueueMem, TypeOK, DeliveryInv, RollbackGoal
  <2>4. AnnouncedBeforeRecorded'
    BY <1>0, <1>3
       DEF QueueMem, TypeOK, DeliveryInv, AnnouncedBeforeRecorded
  <2>5. TrackedSnapshot'
    BY <1>0, <1>3
       DEF QueueMem, TypeOK, DeliveryInv, TrackedSnapshot
  <2>6. RollbackTask'
    BY <1>0, <1>a, <1>3
       DEF QueueMem, TypeOK, DeliveryInv, RollbackTask
  <2> QED BY <2>1, <2>2, <2>3, <2>4, <2>5, <2>6 DEF DeliveryInv
<1>4. CASE QueueStore(p)
  <2>1. ClearAfterDelivery'
    BY <1>0, <1>4
       DEF QueueStore, AfterCallback, TypeOK, DeliveryInv, ClearAfterDelivery, TaskOf
  <2>2. WriteAfterAnnouncement'
    BY <1>0, <1>c, <1>4
       DEF QueueStore, AfterCallback, TypeOK, DeliveryInv, WriteAfterAnnouncement, TaskOf
  <2>3. RollbackGoal'
    BY <1>0, <1>4
       DEF QueueStore, AfterCallback, TypeOK, DeliveryInv, RollbackGoal
  <2>4. AnnouncedBeforeRecorded'
    BY <1>0, <1>4
       DEF QueueStore, AfterCallback, TypeOK, DeliveryInv, AnnouncedBeforeRecorded
  <2>5. TrackedSnapshot'
    BY <1>0, <1>4
       DEF QueueStore, AfterCallback, TypeOK, DeliveryInv, TrackedSnapshot
  <2>6. RollbackTask'
    BY <1>0, <1>a, <1>4
       DEF QueueStore, AfterCallback, TypeOK, DeliveryInv, RollbackTask
  <2> QED BY <2>1, <2>2, <2>3, <2>4, <2>5, <2>6 DEF DeliveryInv
<1>5. CASE ClearMem(p)
  <2>1. ClearAfterDelivery'
    BY <1>0, <1>5
       DEF ClearMem, AfterCallback, TypeOK, DeliveryInv, ClearAfterDelivery, TaskOf
  <2>2. WriteAfterAnnouncement'
    BY <1>0, <1>b, <1>c, <1>5
       DEF ClearMem, AfterCallback, TypeOK, DeliveryInv, WriteAfterAnnouncement, TaskOf, ClearAfterDelivery
  <2>3. RollbackGoal'
    BY <1>0, <1>5
       DEF ClearMem, AfterCallback, TypeOK, DeliveryInv, RollbackGoal
  <2>4. AnnouncedBeforeRecorded'
    BY <1>0, <1>5
       DEF ClearMem, AfterCallback, TypeOK, DeliveryInv, AnnouncedBeforeRecorded
  <2>5. TrackedSnapshot'
    BY <1>0, <1>5
       DEF ClearMem, AfterCallback, TypeOK, DeliveryInv, TrackedSnapshot
  <2>6. RollbackTask'
    BY <1>0, <1>5
       DEF ClearMem, AfterCallback, TypeOK, DeliveryInv, RollbackTask
  <2> QED BY <2>1, <2>2, <2>3, <2>4, <2>5, <2>6 DEF DeliveryInv
<1>6. CASE ClearStore(p)
  <2>1. ClearAfterDelivery'
    BY <1>0, <1>6
       DEF ClearStore, AfterCallback, TypeOK, DeliveryInv, ClearAfterDelivery, TaskOf
  <2>2. WriteAfterAnnouncement'
    BY <1>0, <1>b, <1>c, <1>6
       DEF ClearStore, AfterCallback, TypeOK, DeliveryInv, WriteAfterAnnouncement, TaskOf, ClearAfterDelivery
  <2>3. RollbackGoal'
    BY <1>0, <1>6
       DEF ClearStore, AfterCallback, TypeOK, DeliveryInv, RollbackGoal
  <2>4. AnnouncedBeforeRecorded'
    BY <1>0, <1>6
       DEF ClearStore, AfterCallback, TypeOK, DeliveryInv, AnnouncedBeforeRecorded
  <2>5. TrackedSnapshot'
    BY <1>0, <1>6
       DEF ClearStore, AfterCallback, TypeOK, DeliveryInv, TrackedSnapshot
  <2>6. RollbackTask'
    BY <1>0, <1>6
       DEF ClearStore, AfterCallback, TypeOK, DeliveryInv, RollbackTask
  <2> QED BY <2>1, <2>2, <2>3, <2>4, <2>5, <2>6 DEF DeliveryInv
<1>7. CASE WriteMem(p)
  <2>1. ClearAfterDelivery'
    BY <1>0, <1>7
       DEF WriteMem, TypeOK, DeliveryInv, ClearAfterDelivery, TaskOf
  <2>2. WriteAfterAnnouncement'
    BY <1>0, <1>7
       DEF WriteMem, TypeOK, DeliveryInv, WriteAfterAnnouncement, TaskOf
  <2>3. RollbackGoal'
    BY <1>0, <1>7
       DEF WriteMem, TypeOK, DeliveryInv, RollbackGoal
  <2>4. AnnouncedBeforeRecorded'
    BY <1>0, <1>a, <1>7
       DEF WriteMem, TypeOK, DeliveryInv, AnnouncedBeforeRecorded, WriteAfterAnnouncement
  <2>5. TrackedSnapshot'
    BY <1>0, <1>7
       DEF WriteMem, TypeOK, DeliveryInv, TrackedSnapshot
  <2>6. RollbackTask'
    BY <1>0, <1>7
       DEF WriteMem, TypeOK, DeliveryInv, RollbackTask
  <2> QED BY <2>1, <2>2, <2>3, <2>4, <2>5, <2>6 DEF DeliveryInv
<1>8. CASE WriteStore(p)
  <2>1. ClearAfterDelivery'
    BY <1>0, <1>8
       DEF WriteStore, Return, TypeOK, DeliveryInv, ClearAfterDelivery, TaskOf
  <2>2. WriteAfterAnnouncement'
    BY <1>0, <1>8
       DEF WriteStore, Return, TypeOK, DeliveryInv, WriteAfterAnnouncement, TaskOf
  <2>3. RollbackGoal'
    BY <1>0, <1>8
       DEF WriteStore, Return, TypeOK, DeliveryInv, RollbackGoal
  <2>4. AnnouncedBeforeRecorded'
    <3>1. goal[p] \in {"CONFIRMED", "REVERTED"} => TaskOf(p) \in Covered'
      BY <1>0, <1>8 DEF WriteStore, DeliveryInv, WriteAfterAnnouncement
    <3>2. /\ pubMem' = pubMem
          /\ pubStore' \in {pubStore, [pubStore EXCEPT ![job[p]] = goal[p]]}
      BY <1>8 DEF WriteStore
    <3> QED
      BY <1>0, <1>a, <3>1, <3>2, ZenonT(30) DEF TypeOK, DeliveryInv, AnnouncedBeforeRecorded
  <2>5. TrackedSnapshot'
    BY <1>0, <1>8
       DEF WriteStore, Return, TypeOK, DeliveryInv, TrackedSnapshot
  <2>6. RollbackTask'
    BY <1>0, <1>8
       DEF WriteStore, Return, TypeOK, DeliveryInv, RollbackTask
  <2> QED BY <2>1, <2>2, <2>3, <2>4, <2>5, <2>6 DEF DeliveryInv
<1> QED
  BY <1>1, <1>2, <1>3, <1>4, <1>5, <1>6, <1>7, <1>8 DEF Transition

(* The poll loop keeps the outbox order.                                   *)
LEMMA PollDelivery == ASSUME TypeInv, DeliveryInv, poll PROVE DeliveryInv'
<1> USE DEF Goto, Aim, Leave, envVars, memVars, storeVars, apiVars, pollVars,
            obsVars
<1>0. TypeOK /\ PollerControl /\ DeliveryInv
  BY DEF TypeInv
<1>1. CASE PollStart
  <2>1. Covered' = Covered /\ sent' = sent
    BY <1>1 DEF PollStart, Covered
  <2> QED
    BY <1>0, <1>1, <2>1, ProcFacts
       DEF PollStart, TypeOK, PollerControl, TaskOf, DeliveryInv,
           ClearAfterDelivery, WriteAfterAnnouncement, AnnouncedBeforeRecorded,
           RollbackGoal, TrackedSnapshot, RollbackTask
<1>2. CASE SubscriptionDecide
  <2>1. Covered' = Covered /\ sent' = sent
    BY <1>2 DEF SubscriptionDecide, Covered
  <2> QED
    BY <1>0, <1>2, <2>1, ProcFacts
       DEF SubscriptionDecide, txStateRank, TypeOK, PollerControl, TaskOf, DeliveryInv,
           ClearAfterDelivery, WriteAfterAnnouncement, AnnouncedBeforeRecorded,
           RollbackGoal, TrackedSnapshot, RollbackTask
<1>3. CASE SubscriptionDetail
  <2>1. Covered' = Covered /\ sent' = sent
    BY <1>3 DEF SubscriptionDetail, Covered
  <2> QED
    BY <1>0, <1>3, <2>1, ProcFacts
       DEF SubscriptionDetail, TypeOK, PollerControl, TaskOf, DeliveryInv,
           ClearAfterDelivery, WriteAfterAnnouncement, AnnouncedBeforeRecorded,
           RollbackGoal, TrackedSnapshot, RollbackTask
<1>4. CASE TrackedStart
  <2>1. Covered' = Covered /\ sent' = sent
    BY <1>4 DEF TrackedStart, Covered
  <2> QED
    BY <1>0, <1>4, <2>1, ProcFacts
       DEF TrackedStart, isTerminalTxState, TxState, TypeOK, PollerControl, TaskOf, DeliveryInv,
           ClearAfterDelivery, WriteAfterAnnouncement, AnnouncedBeforeRecorded,
           RollbackGoal, TrackedSnapshot, RollbackTask
<1>5. CASE PollEnd
  <2>1. Covered' = Covered /\ sent' = sent
    BY <1>5 DEF PollEnd, Covered
  <2> QED
    BY <1>0, <1>5, <2>1, ProcFacts
       DEF PollEnd, TypeOK, PollerControl, TaskOf, DeliveryInv,
           ClearAfterDelivery, WriteAfterAnnouncement, AnnouncedBeforeRecorded,
           RollbackGoal, TrackedSnapshot, RollbackTask
<1>6. CASE StatusStore
  <2>1. Covered' = Covered /\ sent' = sent
    BY <1>6 DEF StatusStore, Covered
  <2> QED
    BY <1>0, <1>6, <2>1, ProcFacts
       DEF StatusStore, TypeOK, PollerControl, TaskOf, DeliveryInv,
           ClearAfterDelivery, WriteAfterAnnouncement, AnnouncedBeforeRecorded,
           RollbackGoal, TrackedSnapshot, RollbackTask
<1>7. CASE StatusMem
  <2>1. Covered' = Covered /\ sent' = sent
    BY <1>7 DEF StatusMem, Covered
  <2> QED
    BY <1>0, <1>7, <2>1, ProcFacts
       DEF StatusMem, DropSubscription, TypeOK, PollerControl, TaskOf, DeliveryInv,
           ClearAfterDelivery, WriteAfterAnnouncement, AnnouncedBeforeRecorded,
           RollbackGoal, TrackedSnapshot, RollbackTask
<1>8. ASSUME NEW tx \in Tx, SubscriptionStatus(tx) PROVE DeliveryInv'
  <2>1. Covered' = Covered /\ sent' = sent
    BY <1>8 DEF SubscriptionStatus, Covered
  <2> QED
    BY <1>0, <1>8, <2>1, ProcFacts
       DEF SubscriptionStatus, SubscriptionTarget, SeenState, TypeOK, PollerControl, TaskOf, DeliveryInv,
           ClearAfterDelivery, WriteAfterAnnouncement, AnnouncedBeforeRecorded,
           RollbackGoal, TrackedSnapshot, RollbackTask
<1>9. ASSUME NEW tx \in Tx, TrackedStatus(tx) PROVE DeliveryInv'
  <2>1. Covered' = Covered /\ sent' = sent
    BY <1>9 DEF TrackedStatus, Covered
  <2> QED
    BY <1>0, <1>9, <2>1, ProcFacts
       DEF TrackedStatus, TrackedTarget, TypeOK, PollerControl, TaskOf, DeliveryInv,
           ClearAfterDelivery, WriteAfterAnnouncement, AnnouncedBeforeRecorded,
           RollbackGoal, TrackedSnapshot, RollbackTask
<1>10. ASSUME NEW tasks \in SUBSET pendMem, RetryStart(tasks) PROVE DeliveryInv'
  <2>1. Covered' = Covered /\ sent' = sent
    BY <1>10 DEF RetryStart, Covered
  <2> QED
    BY <1>0, <1>10, <2>1, ProcFacts
       DEF RetryStart, TypeOK, PollerControl, TaskOf, DeliveryInv,
           ClearAfterDelivery, WriteAfterAnnouncement, AnnouncedBeforeRecorded,
           RollbackGoal, TrackedSnapshot, RollbackTask
<1>11. ASSUME NEW task \in Task, RetryTake(task) PROVE DeliveryInv'
  <2>1. Covered' = Covered /\ sent' = sent
    BY <1>11 DEF RetryTake, Covered
  <2> QED
    BY <1>0, <1>11, <2>1, ProcFacts
       DEF RetryTake, Task, Kind, TypeOK, PollerControl, TaskOf, DeliveryInv,
           ClearAfterDelivery, WriteAfterAnnouncement, AnnouncedBeforeRecorded,
           RollbackGoal, TrackedSnapshot, RollbackTask
<1> QED
  BY <1>1, <1>2, <1>3, <1>4, <1>5, <1>6, <1>7, <1>8, <1>9, <1>10, <1>11 DEF poll

(* The watchers and the backfills keep the outbox order.                   *)
LEMMA WorkerDelivery ==
    ASSUME TypeInv, DeliveryInv, NEW w \in Worker, runWorker(w) PROVE DeliveryInv'
<1> USE DEF Goto, Aim, Leave, envVars, memVars, storeVars, apiVars, pollVars,
            obsVars
<1>0. TypeOK /\ PollerControl /\ DeliveryInv
  BY DEF TypeInv
<1>1. CASE WatchNotified(w)
  <2>1. Covered' = Covered /\ sent' = sent
    BY <1>1 DEF WatchNotified, Covered
  <2> QED
    BY <1>0, <1>1, <2>1, ProcFacts
       DEF WatchNotified, TypeOK, PollerControl, TaskOf, DeliveryInv,
           ClearAfterDelivery, WriteAfterAnnouncement, AnnouncedBeforeRecorded,
           RollbackGoal, TrackedSnapshot, RollbackTask
<1>2. CASE WatchCancelled(w)
  <2>1. Covered' = Covered /\ sent' = sent
    BY <1>2 DEF WatchCancelled, Covered
  <2> QED
    BY <1>0, <1>2, <2>1, ProcFacts
       DEF WatchCancelled, TypeOK, PollerControl, TaskOf, DeliveryInv,
           ClearAfterDelivery, WriteAfterAnnouncement, AnnouncedBeforeRecorded,
           RollbackGoal, TrackedSnapshot, RollbackTask
<1>3. CASE WorkerQuery(w)
  <2>1. Covered' = Covered /\ sent' = sent
    BY <1>3 DEF WorkerQuery, Covered
  <2> QED
    BY <1>0, <1>3, <2>1, ProcFacts
       DEF WorkerQuery, GiveUp, TypeOK, PollerControl, TaskOf, DeliveryInv,
           ClearAfterDelivery, WriteAfterAnnouncement, AnnouncedBeforeRecorded,
           RollbackGoal, TrackedSnapshot, RollbackTask
<1> QED
  BY <1>1, <1>2, <1>3 DEF runWorker

(* The API calls keep the outbox order.                                    *)
LEMMA APIDelivery ==
    ASSUME TypeInv, DeliveryInv, NEW tx \in Tx, API(tx) PROVE DeliveryInv'
<1> USE DEF Goto, Aim, Leave, envVars, memVars, storeVars, apiVars, pollVars,
            obsVars
<1>0. TypeOK /\ PollerControl /\ DeliveryInv
  BY DEF TypeInv
<1>1. CASE RegisterStore(tx)
  <2>1. Covered' = Covered /\ sent' = sent
    BY <1>1 DEF RegisterStore, Covered
  <2> QED
    BY <1>0, <1>1, <2>1, ProcFacts
       DEF RegisterStore, TypeOK, PollerControl, TaskOf, DeliveryInv,
           ClearAfterDelivery, WriteAfterAnnouncement, AnnouncedBeforeRecorded,
           RollbackGoal, TrackedSnapshot, RollbackTask
<1>2. CASE RegisterMem(tx)
  <2>1. Covered' = Covered /\ sent' = sent
    BY <1>2 DEF RegisterMem, Covered
  <2> QED
    BY <1>0, <1>2, <2>1, ProcFacts
       DEF RegisterMem, startTxWatcherLocked, TypeOK, PollerControl, TaskOf, DeliveryInv,
           ClearAfterDelivery, WriteAfterAnnouncement, AnnouncedBeforeRecorded,
           RollbackGoal, TrackedSnapshot, RollbackTask
<1>3. CASE CancelStore(tx)
  <2>1. Covered' = Covered /\ sent' = sent
    BY <1>3 DEF CancelStore, Covered
  <2> QED
    BY <1>0, <1>3, <2>1, ProcFacts
       DEF CancelStore, TypeOK, PollerControl, TaskOf, DeliveryInv,
           ClearAfterDelivery, WriteAfterAnnouncement, AnnouncedBeforeRecorded,
           RollbackGoal, TrackedSnapshot, RollbackTask
<1>4. CASE CancelMem(tx)
  <2>1. Covered' = Covered /\ sent' = sent
    BY <1>4 DEF CancelMem, Covered
  <2> QED
    BY <1>0, <1>4, <2>1, ProcFacts
       DEF CancelMem, TypeOK, PollerControl, TaskOf, DeliveryInv,
           ClearAfterDelivery, WriteAfterAnnouncement, AnnouncedBeforeRecorded,
           RollbackGoal, TrackedSnapshot, RollbackTask
<1> QED
  BY <1>1, <1>2, <1>3, <1>4 DEF API

(* The chain, a backfill that starts, and a crash keep the outbox order:   *)
(* what the restart reads from the tables has been announced.              *)
LEMMA EnvironmentDelivery ==
    ASSUME TypeInv, DeliveryInv, Environment PROVE DeliveryInv'
<1> USE DEF Goto, Aim, Leave, envVars, memVars, storeVars, apiVars, pollVars,
            obsVars
<1>0. TypeOK /\ PollerControl /\ DeliveryInv
  BY DEF TypeInv
<1>1. CASE SlotAdvance
  <2>1. Covered' = Covered /\ sent' = sent
    BY <1>1 DEF SlotAdvance, Covered
  <2> QED
    BY <1>0, <1>1, <2>1, ProcFacts
       DEF SlotAdvance, TypeOK, PollerControl, TaskOf, DeliveryInv,
           ClearAfterDelivery, WriteAfterAnnouncement, AnnouncedBeforeRecorded,
           RollbackGoal, TrackedSnapshot, RollbackTask
<1>2. CASE Crash
  <2>1. Covered' = Covered /\ sent' = sent
    BY <1>2 DEF Crash, Covered
  <2> QED
    BY <1>0, <1>2, <2>1, ProcFacts
       DEF Crash, TypeOK, PollerControl, TaskOf, DeliveryInv,
           ClearAfterDelivery, WriteAfterAnnouncement, AnnouncedBeforeRecorded,
           RollbackGoal, TrackedSnapshot, RollbackTask
<1>3. ASSUME NEW tx \in Tx, ChainAdvance(tx) PROVE DeliveryInv'
  <2>1. Covered' = Covered /\ sent' = sent
    BY <1>3 DEF ChainAdvance, Covered
  <2> QED
    BY <1>0, <1>3, <2>1, ProcFacts
       DEF ChainAdvance, TypeOK, PollerControl, TaskOf, DeliveryInv,
           ClearAfterDelivery, WriteAfterAnnouncement, AnnouncedBeforeRecorded,
           RollbackGoal, TrackedSnapshot, RollbackTask
<1>4. ASSUME NEW tx \in Tx, ChainForget(tx) PROVE DeliveryInv'
  <2>1. Covered' = Covered /\ sent' = sent
    BY <1>4 DEF ChainForget, Covered
  <2> QED
    BY <1>0, <1>4, <2>1, ProcFacts
       DEF ChainForget, TypeOK, PollerControl, TaskOf, DeliveryInv,
           ClearAfterDelivery, WriteAfterAnnouncement, AnnouncedBeforeRecorded,
           RollbackGoal, TrackedSnapshot, RollbackTask
<1>5. ASSUME NEW tx \in Tx, BackfillStart(tx) PROVE DeliveryInv'
  <2>1. Covered' = Covered /\ sent' = sent
    BY <1>5 DEF BackfillStart, Covered
  <2> QED
    BY <1>0, <1>5, <2>1, ProcFacts
       DEF BackfillStart, TypeOK, PollerControl, TaskOf, DeliveryInv,
           ClearAfterDelivery, WriteAfterAnnouncement, AnnouncedBeforeRecorded,
           RollbackGoal, TrackedSnapshot, RollbackTask
<1> QED
  BY <1>1, <1>2, <1>3, <1>4, <1>5 DEF Environment

(* A step that changes nothing keeps the outbox order.                     *)
LEMMA DeliveryStutter == DeliveryInv /\ UNCHANGED vars => DeliveryInv'
  BY DEF vars, envVars, memVars, storeVars, apiVars, pollVars, obsVars,
         Covered, TaskOf, DeliveryInv, ClearAfterDelivery,
         WriteAfterAnnouncement, AnnouncedBeforeRecorded, RollbackGoal,
         TrackedSnapshot, RollbackTask

(* The outbox order holds in every reachable state.                        *)
THEOREM DeliveryInvariance == Spec => []DeliveryInv
<1>1. TypeInv /\ DeliveryInv /\ [Next]_vars => DeliveryInv'
  BY ProcFacts, PollDelivery, TransitionDelivery, WorkerDelivery, APIDelivery,
     EnvironmentDelivery, DeliveryStutter DEF Next
<1> QED
  BY DeliveryInit, <1>1, TypeInvariance, PTL DEF Spec

(* No state is recorded before the message that announces it is delivered  *)
(* or queued, for any number of transactions, watchers, polls and faults.  *)
THEOREM OutboxOrder == Spec => []AnnouncedBeforeRecorded
<1>1. DeliveryInv => AnnouncedBeforeRecorded
  BY DEF DeliveryInv
<1> QED
  BY <1>1, DeliveryInvariance, PTL

(* No rollback is delivered or queued before a callback of its transaction *)
(* is.                                                                     *)
THEOREM RollbackOrder == Spec => []RollbackOnlyAfterCallback
<1>1. DeliveryInv => RollbackOnlyAfterCallback
  BY DEF DeliveryInv, RollbackTask, RollbackOnlyAfterCallback
<1> QED
  BY <1>1, DeliveryInvariance, PTL

-----------------------------------------------------------------------------
(* OneLiveWatcher is inductive given the types: a step that starts a       *)
(* watcher finds no other, a step that unregisters one cancels it, and     *)
(* every other step moves goroutines that run already.                     *)

LEMMA WatcherInit == Init => OneLiveWatcher
  BY ProcFacts, ConstantAssumption DEF Init, OneLiveWatcher, Watcher, Gen

(* What every step but a registration does: no watcher's goroutine starts. *)
NoWatcherStarts == \A w \in Watcher : pc[w] = "idle" => pc'[w] = "idle"

(* Steps that start no watcher and leave the registry alone.               *)
LEMMA WatcherFrame ==
    ASSUME OneLiveWatcher, NoWatcherStarts, UNCHANGED <<subMem, entry, cancelled>>
    PROVE  OneLiveWatcher'
  BY ProcFacts DEF OneLiveWatcher, NoWatcherStarts

(* The lock section that unregisters a watcher cancels it.                 *)
LEMMA DropWatcher ==
    ASSUME TypeOK, OneLiveWatcher, NoWatcherStarts, NEW tx \in Tx,
           DropSubscription(tx)
    PROVE  OneLiveWatcher'
  BY ProcFacts, ConstantAssumption
     DEF OneLiveWatcher, NoWatcherStarts, DropSubscription, TypeOK, Watcher, Gen

(* Whoever runs transitionTxState runs already.                            *)
LEMMA TransitionWatcher ==
    ASSUME TypeOK, OneLiveWatcher, NEW p \in Proc, Transition(p)
    PROVE  OneLiveWatcher'
<1>1. NoWatcherStarts
  BY ProcFacts DEF NoWatcherStarts, Transition, TransitionRead, Publish, QueueMem,
     QueueStore, ClearMem, ClearStore, WriteMem, WriteStore, Goto, Aim, Leave,
     Return, AfterCallback, TypeOK
<1>2. UNCHANGED <<subMem, entry, cancelled>>
  BY DEF Transition, TransitionRead, Publish, QueueMem, QueueStore, ClearMem,
     ClearStore, WriteMem, WriteStore, memVars
<1> QED
  BY <1>1, <1>2, WatcherFrame

(* The poll loop moves the poller, and unregisters in StatusMem.           *)
LEMMA PollWatcher ==
    ASSUME TypeOK, OneLiveWatcher, poll PROVE OneLiveWatcher'
<1>1. NoWatcherStarts
  BY ProcFacts DEF NoWatcherStarts, poll, PollStart, SubscriptionDecide,
     SubscriptionDetail, TrackedStart, PollEnd, StatusStore, StatusMem,
     SubscriptionStatus, TrackedStatus, RetryStart, RetryTake, Goto, Aim, Leave,
     TypeOK
<1>2. CASE StatusMem
  BY <1>1, <1>2, DropWatcher, ProcFacts DEF StatusMem, TypeOK
<1>3. CASE ~StatusMem
  <2>1. UNCHANGED <<subMem, entry, cancelled>>
    BY <1>3 DEF poll, PollStart, SubscriptionDecide, SubscriptionDetail,
       TrackedStart, PollEnd, StatusStore, SubscriptionStatus, TrackedStatus,
       RetryStart, RetryTake, memVars
  <2> QED
    BY <1>1, <2>1, WatcherFrame
<1> QED
  BY <1>2, <1>3

(* Watchers and backfills move only while they run.                        *)
LEMMA WorkerWatcher ==
    ASSUME TypeOK, OneLiveWatcher, NEW w \in Worker, runWorker(w)
    PROVE  OneLiveWatcher'
<1>1. NoWatcherStarts
  BY ProcFacts DEF NoWatcherStarts, runWorker, WatchNotified, WatchCancelled,
     WorkerQuery, GiveUp, Goto, Aim, Leave, TypeOK
<1>2. UNCHANGED <<subMem, entry, cancelled>>
  BY DEF runWorker, WatchNotified, WatchCancelled, WorkerQuery, memVars
<1> QED
  BY <1>1, <1>2, WatcherFrame

(* A registration starts a watcher only where none is registered.          *)
LEMMA RegisterWatcher ==
    ASSUME TypeOK, OneLiveWatcher, NEW tx \in Tx, RegisterMem(tx)
    PROVE  OneLiveWatcher'
<1>1. CASE entry[tx] # 0
  BY <1>1 DEF RegisterMem, startTxWatcherLocked, OneLiveWatcher
<1>2. CASE entry[tx] = 0
  <2>1. PICK g \in Gen : /\ pc[<<tx, g>>] = "idle"
                         /\ entry' = [entry EXCEPT ![tx] = g]
                         /\ cancelled' = cancelled \ {<<tx, g>>}
                         /\ pc' = [pc EXCEPT ![<<tx, g>>] = "watch"]
    BY <1>2 DEF RegisterMem, startTxWatcherLocked
  <2>2. subMem' = subMem \cup {tx}
    BY DEF RegisterMem
  <2>3. g # 0
    BY ConstantAssumption DEF Gen
  <2> QED
    BY <1>2, <2>1, <2>2, <2>3, ProcFacts DEF OneLiveWatcher, TypeOK
<1> QED
  BY <1>1, <1>2

(* The API calls.                                                          *)
LEMMA APIWatcher ==
    ASSUME TypeOK, OneLiveWatcher, NEW tx \in Tx, API(tx) PROVE OneLiveWatcher'
<1>1. CASE RegisterMem(tx)
  BY <1>1, RegisterWatcher
<1>2. CASE CancelMem(tx)
  <2>1. NoWatcherStarts
    BY <1>2 DEF CancelMem, NoWatcherStarts
  <2> QED
    BY <1>2, <2>1, DropWatcher DEF CancelMem
<1>3. CASE RegisterStore(tx) \/ CancelStore(tx)
  <2>1. NoWatcherStarts /\ UNCHANGED <<subMem, entry, cancelled>>
    BY <1>3 DEF RegisterStore, CancelStore, NoWatcherStarts, memVars
  <2> QED
    BY <2>1, WatcherFrame
<1> QED
  BY <1>1, <1>2, <1>3 DEF API

(* A restart begins with the first watcher of each active subscription.    *)
LEMMA CrashWatcher ==
    ASSUME TypeOK, OneLiveWatcher, Crash PROVE OneLiveWatcher'
<1> DEFINE active == {tx \in Tx : subStore[tx] = "ACTIVE"}
<1>1. /\ subMem' = active /\ cancelled' = {}
      /\ entry' = [tx \in Tx |-> IF tx \in active THEN 1 ELSE 0]
      /\ pc' = [p \in Proc |->
                  IF \E tx \in active : p = <<tx, 1>> THEN "watch" ELSE "idle"]
  BY DEF Crash
<1>2. ASSUME NEW tx \in Tx, NEW g \in Gen, pc'[<<tx, g>>] # "idle"
      PROVE  tx \in active /\ g = 1
  BY <1>1, <1>2, ProcFacts
<1> HIDE DEF active
<1> QED
  BY <1>1, <1>2, ConstantAssumption DEF OneLiveWatcher

(* The environment starts no watcher, except by a restart.                 *)
LEMMA EnvironmentWatcher ==
    ASSUME TypeOK, OneLiveWatcher, Environment PROVE OneLiveWatcher'
<1>1. CASE Crash
  BY <1>1, CrashWatcher
<1>2. CASE ~Crash
  <2>1. NoWatcherStarts
    <3>1. ASSUME NEW tx \in Tx, BackfillStart(tx) PROVE NoWatcherStarts
      BY <3>1, ProcFacts DEF NoWatcherStarts, BackfillStart, Goto, TypeOK
    <3>2. CASE UNCHANGED pc
      BY <3>2 DEF NoWatcherStarts
    <3> QED
      BY <1>2, <3>1, <3>2 DEF Environment, SlotAdvance, ChainAdvance, ChainForget
  <2>2. UNCHANGED <<subMem, entry, cancelled>>
    BY <1>2 DEF Environment, SlotAdvance, ChainAdvance, ChainForget, BackfillStart,
       memVars
  <2> QED
    BY <2>1, <2>2, WatcherFrame
<1> QED
  BY <1>1, <1>2

(* A subscribed transaction has exactly one live watcher, the registered   *)
(* one, in every order of subscribing, cancelling, completing and          *)
(* restarting.                                                             *)
THEOREM SingleWatcher == Spec => []OneLiveWatcher
<1>1. OneLiveWatcher /\ UNCHANGED vars => OneLiveWatcher'
  BY DEF vars, memVars, OneLiveWatcher
<1>2. TypeInv /\ OneLiveWatcher /\ [Next]_vars => OneLiveWatcher'
  BY <1>1, PollWatcher, TransitionWatcher, WorkerWatcher, APIWatcher,
     EnvironmentWatcher DEF Next, TypeInv
<1> QED
  BY WatcherInit, <1>2, TypeInvariance, PTL DEF Spec

-----------------------------------------------------------------------------
(* TxLifecycle implements CallbackOutbox, its callbacks carry what the     *)
(* chain knows, and nothing is final before it is announced.               *)

(* The two specifications mean the same by a task and by what is covered.  *)
LEMMA SameTerms ==
    /\ Outbox!Task = Task /\ Outbox!TxState = TxState
    /\ Outbox!Covered = Covered
  BY DEF Outbox!Task, Outbox!TxState, Outbox!Covered, Task, Kind, TxState, Covered

(* The initial states map to initial states of the outbox.                 *)
LEMMA OutboxInit == Init => Outbox!Init
  BY DEF Init, Outbox!Init

(* A process handles only tasks the outbox lets it handle: a rollback is   *)
(* due once a callback is covered.                                         *)
LEMMA TaskIsDue ==
    ASSUME TypeOK, DeliveryInv, NEW p \in Proc
    PROVE  TaskOf(p) \in Outbox!Task /\ Outbox!Due(TaskOf(p))
  BY SameTerms, TaskOfFacts DEF Outbox!Due, TaskOf

(* A publish delivers its task or nothing.                                 *)
LEMMA PublishDelivers ==
    ASSUME TypeOK, DeliveryInv, NEW p \in Proc, Publish(p)
    PROVE  Outbox!Next \/ UNCHANGED Outbox!vars
<1>1. sent' \in {sent, sent \cup {TaskOf(p)}}
  BY DEF Publish, Deliver
<1>2. UNCHANGED <<pendStore, unsaved, pubStore>>
  BY DEF Publish, storeVars
<1>3. CASE sent' = sent \cup {TaskOf(p)}
  BY <1>2, <1>3, TaskIsDue DEF Outbox!Next, Outbox!Deliver
<1>4. CASE sent' = sent
  BY <1>2, <1>4 DEF Outbox!vars
<1> QED
  BY <1>1, <1>3, <1>4

(* A save of the queue entry enqueues the task, or misses it.              *)
LEMMA QueueStoreEnqueues ==
    ASSUME TypeOK, DeliveryInv, NEW p \in Proc, QueueStore(p)
    PROVE  Outbox!Next
<1>1. sent' = sent /\ pubStore' = pubStore
  BY DEF QueueStore
<1>2. CASE pendStore' = pendStore \cup {TaskOf(p)} /\ unsaved' = unsaved \ {TaskOf(p)}
  BY <1>1, <1>2, TaskIsDue DEF Outbox!Next, Outbox!Enqueue
<1>3. CASE unsaved' = unsaved \cup {TaskOf(p)} /\ pendStore' = pendStore
  BY <1>1, <1>3, TaskIsDue DEF Outbox!Next, Outbox!Miss
<1> QED
  BY <1>2, <1>3 DEF QueueStore

(* A cleared entry leaves the queue after its delivery.                    *)
LEMMA ClearStoreDequeues ==
    ASSUME TypeOK, DeliveryInv, NEW p \in Proc, ClearStore(p)
    PROVE  Outbox!Next \/ UNCHANGED Outbox!vars
<1>1. UNCHANGED <<sent, unsaved, pubStore>>
  BY DEF ClearStore, obsVars
<1>2. TaskOf(p) \in sent
  BY DEF ClearStore, DeliveryInv, ClearAfterDelivery
<1>3. CASE pendStore' = pendStore \ {TaskOf(p)}
  BY <1>1, <1>2, <1>3, TaskIsDue DEF Outbox!Next, Outbox!Dequeue
<1>4. CASE pendStore' = pendStore
  BY <1>1, <1>4 DEF Outbox!vars
<1> QED
  BY <1>3, <1>4 DEF ClearStore

(* A state is recorded after its announcement.                             *)
LEMMA WriteStoreRecords ==
    ASSUME TypeOK, DeliveryInv, NEW p \in Proc, WriteStore(p)
    PROVE  Outbox!Next \/ UNCHANGED Outbox!vars
<1>1. UNCHANGED <<sent, unsaved, pendStore>>
  BY DEF WriteStore, obsVars
<1>2. CASE pubStore' = [pubStore EXCEPT ![job[p]] = goal[p]]
  <2>1. goal[p] \in {"CONFIRMED", "REVERTED"} => TaskOf(p) \in Covered
    BY DEF WriteStore, DeliveryInv, WriteAfterAnnouncement
  <2>2. \A task \in Outbox!Announcement(job[p], goal[p]) :
            goal[p] \in {"CONFIRMED", "REVERTED"} /\ task = TaskOf(p)
    BY SameTerms DEF Outbox!Announcement, TaskOf, Task, Kind
  <2>3. Outbox!Record(job[p], goal[p])
    BY <1>1, <1>2, <2>1, <2>2, SameTerms DEF Outbox!Record
  <2> QED
    BY <2>3, SameTerms DEF Outbox!Next, TypeOK
<1>3. CASE pubStore' = pubStore
  BY <1>1, <1>3 DEF Outbox!vars
<1> QED
  BY <1>2, <1>3 DEF WriteStore

(* Every other step leaves the outbox alone.                               *)
LEMMA OtherSteps ==
    ASSUME [Next]_vars,
           ~ \E p \in Proc : \/ Publish(p) \/ QueueStore(p)
                             \/ ClearStore(p) \/ WriteStore(p)
    PROVE  UNCHANGED Outbox!vars
<1> USE DEF Outbox!vars, storeVars, obsVars
<1>1. ASSUME NEW p \in Proc, Transition(p) PROVE UNCHANGED Outbox!vars
  BY <1>1 DEF Transition, TransitionRead, QueueMem, ClearMem, WriteMem
<1>2. ASSUME poll PROVE UNCHANGED Outbox!vars
  BY <1>2 DEF poll, PollStart, SubscriptionDecide, SubscriptionDetail, TrackedStart,
     PollEnd, StatusStore, StatusMem, SubscriptionStatus, TrackedStatus, RetryStart,
     RetryTake
<1>3. ASSUME NEW w \in Worker, runWorker(w) PROVE UNCHANGED Outbox!vars
  BY <1>3 DEF runWorker, WatchNotified, WatchCancelled, WorkerQuery
<1>4. ASSUME NEW tx \in Tx, API(tx) PROVE UNCHANGED Outbox!vars
  BY <1>4 DEF API, RegisterStore, RegisterMem, CancelStore, CancelMem
<1>5. ASSUME Environment PROVE UNCHANGED Outbox!vars
  BY <1>5 DEF Environment, SlotAdvance, Crash, ChainAdvance, ChainForget,
     BackfillStart
<1>6. ASSUME UNCHANGED vars PROVE UNCHANGED Outbox!vars
  BY <1>6 DEF vars
<1> QED
  BY <1>1, <1>2, <1>3, <1>4, <1>5, <1>6 DEF Next

(* The service implements the outbox: what survives a crash changes only   *)
(* as the outbox allows, whatever the goroutines do and wherever the       *)
(* process dies.                                                           *)
THEOREM Refinement == Spec => ImplementsOutbox
<1>1. ASSUME TypeInv, DeliveryInv, [Next]_vars
      PROVE  [Outbox!Next]_(Outbox!vars)
  BY <1>1, OtherSteps, PublishDelivers, QueueStoreEnqueues, ClearStoreDequeues,
     WriteStoreRecords DEF TypeInv
<1> QED
  BY <1>1, OutboxInit, TypeInvariance, DeliveryInvariance, PTL
     DEF Spec, ImplementsOutbox, Outbox!Spec

-----------------------------------------------------------------------------
(* The callback of a confirmed transaction.  Whoever is about to ask for   *)
(* a transaction has seen it, a worker never leaves its transaction, and   *)
(* an answer without data comes from a node that has forgotten what it had *)
(* reported or withholds what it reports.                                  *)

Seen(tx) == Visible(tx) \/ tx \in forgotten

OwnJob == \A w \in Worker : job[w] = w[1]

SeenBeforeQuery ==
    /\ \A w \in Worker : pc[w] = "query" => Seen(job[w])
    /\ pc[Poller] \in {"decide", "detail"} => Seen(job[Poller])

EmptyAnswer ==
    \A p \in Proc :
        goal[p] = "CONFIRMED" /\ data[p] # "tx" /\ pc[p] \in {"read", "publish"}
            => job[p] \in forgotten \cup withheld

CarryInv == OwnJob /\ SeenBeforeQuery /\ EmptyAnswer /\ CallbackCarriesTx

(* Nobody has seen or published anything in the initial states.            *)
LEMMA CarryInit == Init => CarryInv
  BY ProcFacts
     DEF Init, CarryInv, OwnJob, SeenBeforeQuery, EmptyAnswer,
         CallbackCarriesTx

(* transitionTxState keeps what is known of the data.                      *)
LEMMA TransitionCarry ==
    ASSUME TypeInv, CarryInv, NEW p \in Proc, Transition(p) PROVE CarryInv'
<1> USE DEF Goto, Aim, Leave, envVars, memVars, storeVars, apiVars, pollVars,
            obsVars
<1>0. TypeOK /\ PollerControl /\ CarryInv
  BY DEF TypeInv
<1>1. CASE TransitionRead(p)
  BY <1>0, <1>1, ProcFacts
     DEF TransitionRead, Return, TypeOK, PollerControl, CarryInv, OwnJob,
         Seen, Visible, SeenBeforeQuery, EmptyAnswer, CallbackCarriesTx
<1>2. CASE Publish(p)
  BY <1>0, <1>2, ProcFacts
     DEF Publish, Deliver, TypeOK, PollerControl, CarryInv, OwnJob, Seen,
         Visible, SeenBeforeQuery, EmptyAnswer, CallbackCarriesTx
<1>3. CASE QueueMem(p)
  BY <1>0, <1>3, ProcFacts
     DEF QueueMem, TypeOK, PollerControl, CarryInv, OwnJob, Seen, Visible,
         SeenBeforeQuery, EmptyAnswer, CallbackCarriesTx
<1>4. CASE QueueStore(p)
  BY <1>0, <1>4, ProcFacts
     DEF QueueStore, AfterCallback, TypeOK, PollerControl, CarryInv, OwnJob,
         Seen, Visible, SeenBeforeQuery, EmptyAnswer, CallbackCarriesTx
<1>5. CASE ClearMem(p)
  BY <1>0, <1>5, ProcFacts
     DEF ClearMem, AfterCallback, TypeOK, PollerControl, CarryInv, OwnJob,
         Seen, Visible, SeenBeforeQuery, EmptyAnswer, CallbackCarriesTx
<1>6. CASE ClearStore(p)
  BY <1>0, <1>6, ProcFacts
     DEF ClearStore, AfterCallback, TypeOK, PollerControl, CarryInv, OwnJob,
         Seen, Visible, SeenBeforeQuery, EmptyAnswer, CallbackCarriesTx
<1>7. CASE WriteMem(p)
  BY <1>0, <1>7, ProcFacts
     DEF WriteMem, TypeOK, PollerControl, CarryInv, OwnJob, Seen, Visible,
         SeenBeforeQuery, EmptyAnswer, CallbackCarriesTx
<1>8. CASE WriteStore(p)
  BY <1>0, <1>8, ProcFacts
     DEF WriteStore, Return, TypeOK, PollerControl, CarryInv, OwnJob, Seen,
         Visible, SeenBeforeQuery, EmptyAnswer, CallbackCarriesTx
<1> QED
  BY <1>1, <1>2, <1>3, <1>4, <1>5, <1>6, <1>7, <1>8 DEF Transition

(* The poll loop keeps what is known of the data.                          *)
LEMMA PollCarry ==
    ASSUME TypeInv, CarryInv, poll PROVE CarryInv'
<1> USE DEF Goto, Aim, Leave, envVars, memVars, storeVars, apiVars, pollVars,
            obsVars
<1>0. TypeOK /\ PollerControl /\ CarryInv
  BY DEF TypeInv
<1>1. CASE PollStart
  BY <1>0, <1>1, ProcFacts
     DEF PollStart, TypeOK, PollerControl, CarryInv, OwnJob, Seen, Visible,
         SeenBeforeQuery, EmptyAnswer, CallbackCarriesTx
<1>2. CASE SubscriptionDecide
  BY <1>0, <1>2, ProcFacts
     DEF SubscriptionDecide, txStateRank, TypeOK, PollerControl, CarryInv,
         OwnJob, Seen, Visible, SeenBeforeQuery, EmptyAnswer,
         CallbackCarriesTx
<1>3. CASE SubscriptionDetail
  BY <1>0, <1>3, ProcFacts
     DEF SubscriptionDetail, QueryTransaction, Answer, TypeOK,
         PollerControl, CarryInv, OwnJob, Seen, Visible, SeenBeforeQuery,
         EmptyAnswer, CallbackCarriesTx
<1>4. CASE TrackedStart
  BY <1>0, <1>4, ProcFacts
     DEF TrackedStart, TypeOK, PollerControl, CarryInv, OwnJob, Seen,
         Visible, SeenBeforeQuery, EmptyAnswer, CallbackCarriesTx
<1>5. CASE PollEnd
  BY <1>0, <1>5, ProcFacts
     DEF PollEnd, TypeOK, PollerControl, CarryInv, OwnJob, Seen, Visible,
         SeenBeforeQuery, EmptyAnswer, CallbackCarriesTx
<1>6. CASE StatusStore
  BY <1>0, <1>6, ProcFacts
     DEF StatusStore, TypeOK, PollerControl, CarryInv, OwnJob, Seen,
         Visible, SeenBeforeQuery, EmptyAnswer, CallbackCarriesTx
<1>7. CASE StatusMem
  BY <1>0, <1>7, ProcFacts
     DEF StatusMem, DropSubscription, TypeOK, PollerControl, CarryInv,
         OwnJob, Seen, Visible, SeenBeforeQuery, EmptyAnswer,
         CallbackCarriesTx
<1>8. ASSUME NEW tx \in Tx, SubscriptionStatus(tx) PROVE CarryInv'
  BY <1>0, <1>8, ProcFacts
     DEF SubscriptionStatus, SubscriptionTarget, SeenState, ChainStatus,
         TypeOK, PollerControl, CarryInv, OwnJob, Seen, Visible,
         SeenBeforeQuery, EmptyAnswer, CallbackCarriesTx
<1>9. ASSUME NEW tx \in Tx, TrackedStatus(tx) PROVE CarryInv'
  BY <1>0, <1>9, ProcFacts
     DEF TrackedStatus, TrackedTarget, TypeOK, PollerControl, CarryInv,
         OwnJob, Seen, Visible, SeenBeforeQuery, EmptyAnswer,
         CallbackCarriesTx
<1>10. ASSUME NEW tasks \in SUBSET pendMem, RetryStart(tasks) PROVE CarryInv'
  BY <1>0, <1>10, ProcFacts
     DEF RetryStart, TypeOK, PollerControl, CarryInv, OwnJob, Seen, Visible,
         SeenBeforeQuery, EmptyAnswer, CallbackCarriesTx
<1>11. ASSUME NEW task \in Task, RetryTake(task) PROVE CarryInv'
  BY <1>0, <1>11, ProcFacts
     DEF RetryTake, Task, Kind, TypeOK, PollerControl, CarryInv, OwnJob,
         Seen, Visible, SeenBeforeQuery, EmptyAnswer, CallbackCarriesTx
<1> QED
  BY <1>1, <1>2, <1>3, <1>4, <1>5, <1>6, <1>7, <1>8, <1>9, <1>10, <1>11 DEF poll

(* The watchers and the backfills keep what is known of the data.          *)
LEMMA WorkerCarry ==
    ASSUME TypeInv, CarryInv, NEW w \in Worker, runWorker(w) PROVE CarryInv'
<1> USE DEF Goto, Aim, Leave, envVars, memVars, storeVars, apiVars, pollVars,
            obsVars
<1>0. TypeOK /\ PollerControl /\ CarryInv
  BY DEF TypeInv
<1>1. CASE WatchNotified(w)
  BY <1>0, <1>1, ProcFacts
     DEF WatchNotified, TypeOK, PollerControl, CarryInv, OwnJob, Seen,
         Visible, SeenBeforeQuery, EmptyAnswer, CallbackCarriesTx
<1>2. CASE WatchCancelled(w)
  BY <1>0, <1>2, ProcFacts
     DEF WatchCancelled, TypeOK, PollerControl, CarryInv, OwnJob, Seen,
         Visible, SeenBeforeQuery, EmptyAnswer, CallbackCarriesTx
<1>3. CASE WorkerQuery(w)
  BY <1>0, <1>3, ProcFacts
     DEF WorkerQuery, GiveUp, QueryTransaction, TypeOK, PollerControl,
         CarryInv, OwnJob, Seen, Visible, SeenBeforeQuery, EmptyAnswer,
         CallbackCarriesTx
<1> QED
  BY <1>1, <1>2, <1>3 DEF runWorker

(* The API calls keep what is known of the data.                           *)
LEMMA APICarry ==
    ASSUME TypeInv, CarryInv, NEW tx \in Tx, API(tx) PROVE CarryInv'
<1> USE DEF Goto, Aim, Leave, envVars, memVars, storeVars, apiVars, pollVars,
            obsVars
<1>0. TypeOK /\ PollerControl /\ CarryInv
  BY DEF TypeInv
<1>1. CASE RegisterStore(tx)
  BY <1>0, <1>1, ProcFacts
     DEF RegisterStore, TypeOK, PollerControl, CarryInv, OwnJob, Seen,
         Visible, SeenBeforeQuery, EmptyAnswer, CallbackCarriesTx
<1>2. CASE RegisterMem(tx)
  BY <1>0, <1>2, ProcFacts, ZenonT(30)
     DEF RegisterMem, startTxWatcherLocked, TypeOK, PollerControl, CarryInv,
         OwnJob, Seen, Visible, SeenBeforeQuery, EmptyAnswer,
         CallbackCarriesTx
<1>3. CASE CancelStore(tx)
  BY <1>0, <1>3, ProcFacts
     DEF CancelStore, TypeOK, PollerControl, CarryInv, OwnJob, Seen,
         Visible, SeenBeforeQuery, EmptyAnswer, CallbackCarriesTx
<1>4. CASE CancelMem(tx)
  BY <1>0, <1>4, ProcFacts
     DEF CancelMem, TypeOK, PollerControl, CarryInv, OwnJob, Seen, Visible,
         SeenBeforeQuery, EmptyAnswer, CallbackCarriesTx
<1> QED
  BY <1>1, <1>2, <1>3, <1>4 DEF API

(* The chain, a backfill that starts, and a crash keep what is known of    *)
(* the data.                                                               *)
LEMMA EnvironmentCarry ==
    ASSUME TypeInv, CarryInv, Environment PROVE CarryInv'
<1> USE DEF Goto, Aim, Leave, envVars, memVars, storeVars, apiVars, pollVars,
            obsVars
<1>0. TypeOK /\ PollerControl /\ CarryInv
  BY DEF TypeInv
<1>1. CASE SlotAdvance
  BY <1>0, <1>1, ProcFacts
     DEF SlotAdvance, TypeOK, PollerControl, CarryInv, OwnJob, Seen,
         Visible, SeenBeforeQuery, EmptyAnswer, CallbackCarriesTx
<1>2. CASE Crash
  BY <1>0, <1>2, ProcFacts
     DEF Crash, TypeOK, PollerControl, CarryInv, OwnJob, Seen, Visible,
         SeenBeforeQuery, EmptyAnswer, CallbackCarriesTx
<1>3. ASSUME NEW tx \in Tx, ChainAdvance(tx) PROVE CarryInv'
  BY <1>0, <1>3, ProcFacts
     DEF ChainAdvance, Later, TypeOK, PollerControl, CarryInv, OwnJob, Seen,
         Visible, SeenBeforeQuery, EmptyAnswer, CallbackCarriesTx
<1>4. ASSUME NEW tx \in Tx, ChainForget(tx) PROVE CarryInv'
  BY <1>0, <1>4, ProcFacts
     DEF ChainForget, TypeOK, PollerControl, CarryInv, OwnJob, Seen,
         Visible, SeenBeforeQuery, EmptyAnswer, CallbackCarriesTx
<1>5. ASSUME NEW tx \in Tx, BackfillStart(tx) PROVE CarryInv'
  BY <1>0, <1>5, ProcFacts
     DEF BackfillStart, TypeOK, PollerControl, CarryInv, OwnJob, Seen,
         Visible, SeenBeforeQuery, EmptyAnswer, CallbackCarriesTx
<1> QED
  BY <1>1, <1>2, <1>3, <1>4, <1>5 DEF Environment

(* A step that changes nothing keeps them.                                 *)
LEMMA CarryStutter == CarryInv /\ UNCHANGED vars => CarryInv'
  BY DEF vars, envVars, memVars, storeVars, apiVars, pollVars, obsVars, CarryInv,
         OwnJob, Seen, Visible, SeenBeforeQuery, EmptyAnswer, CallbackCarriesTx

(* A callback of a confirmed transaction comes without the transaction     *)
(* only where the node has forgotten what it had reported, or withheld     *)
(* what it still reported, for any number of goroutines and in every order *)
(* of their steps.                                                         *)
THEOREM CallbackData == Spec => []CallbackCarriesTx
<1>1. TypeInv /\ CarryInv /\ [Next]_vars => CarryInv'
  BY ProcFacts, PollCarry, TransitionCarry, WorkerCarry, APICarry,
     EnvironmentCarry, CarryStutter DEF Next
<1>2. Spec => []CarryInv
  BY CarryInit, <1>1, TypeInvariance, PTL DEF Spec
<1>3. CarryInv => CallbackCarriesTx
  BY DEF CarryInv
<1> QED
  BY <1>2, <1>3, PTL

-----------------------------------------------------------------------------
(* What is published stays published.  Short of a restart, a transaction   *)
(* that has a state never loses it; whoever is about to record a final     *)
(* state or a rollback has found one, and the poller that finds a final    *)
(* transaction without one publishes it as CONFIRMED first, keeping        *)
(* FINALIZED as its second state until that is done.                       *)

SecondState ==
    second # "none" =>
        /\ phase = "subs" /\ goal[Poller] = "CONFIRMED"
        /\ pc[Poller] \in {"detail", "read", "publish", "queueMem", "queueStore",
                           "clearMem", "clearStore", "writeMem", "writeStore"}

GoalControl ==
    /\ \A p \in Proc : pc[p] \in {"publish", "queueMem", "queueStore", "clearMem",
                                  "clearStore", "writeMem", "writeStore"}
                       => goal[p] # "none"
    /\ phase = "retry" => pc[Poller] \in {"idle", "loop", "publish", "queueMem",
                                         "queueStore", "clearMem", "clearStore"}

PastFirst ==
    \A p \in Proc :
        /\ goal[p] = "FINALIZED" /\ pc[p] # "decide" => pubMem[job[p]] # "none"
        /\ goal[p] = "REVERTED" /\ (p = Poller => phase # "retry")
               => pubMem[job[p]] # "none"
        /\ pc[p] = "writeStore" => pubMem[job[p]] # "none"

Published ==
    /\ phase = "tracked" => \A tx \in todo : pubMem[tx] # "none"
    /\ \A tx \in Tx : pubStore[tx] = "CONFIRMED" => pubMem[tx] # "none"

PublishedInv == SecondState /\ GoalControl /\ PastFirst /\ Published

(* Nothing is published in the initial states.                             *)
LEMMA PublishedInit == Init => PublishedInv
  BY ProcFacts
     DEF Init, PublishedInv, SecondState, GoalControl, PastFirst, Published

(* transitionTxState keeps what is published.                              *)
LEMMA TransitionPublished ==
    ASSUME TypeInv, PublishedInv, NEW p \in Proc, Transition(p) PROVE PublishedInv'
<1> USE DEF Goto, Aim, Leave, envVars, memVars, storeVars, apiVars, pollVars,
            obsVars
<1>0. TypeOK /\ PollerControl /\ PublishedInv
  BY DEF TypeInv
<1>1. CASE TransitionRead(p)
  BY <1>0, <1>1, ProcFacts
     DEF TransitionRead, Return, shouldTransition, txStateRank, TypeOK,
         PollerControl, PublishedInv, SecondState, GoalControl, PastFirst,
         Published
<1>2. CASE Publish(p)
  BY <1>0, <1>2, ProcFacts
     DEF Publish, Deliver, TaskOf, Fault, TypeOK, PollerControl,
         PublishedInv, SecondState, GoalControl, PastFirst, Published
<1>3. CASE QueueMem(p)
  BY <1>0, <1>3, ProcFacts
     DEF QueueMem, TypeOK, PollerControl, PublishedInv, SecondState,
         GoalControl, PastFirst, Published
<1>4. CASE QueueStore(p)
  BY <1>0, <1>4, ProcFacts
     DEF QueueStore, AfterCallback, TaskOf, TypeOK, PollerControl,
         PublishedInv, SecondState, GoalControl, PastFirst, Published
<1>5. CASE ClearMem(p)
  BY <1>0, <1>5, ProcFacts
     DEF ClearMem, AfterCallback, TaskOf, TypeOK, PollerControl,
         PublishedInv, SecondState, GoalControl, PastFirst, Published
<1>6. CASE ClearStore(p)
  BY <1>0, <1>6, ProcFacts
     DEF ClearStore, AfterCallback, TaskOf, TypeOK, PollerControl,
         PublishedInv, SecondState, GoalControl, PastFirst, Published
<1>7. CASE WriteMem(p)
  BY <1>0, <1>7, ProcFacts
     DEF WriteMem, TypeOK, PollerControl, PublishedInv, SecondState,
         GoalControl, PastFirst, Published
<1>8. CASE WriteStore(p)
  BY <1>0, <1>8, ProcFacts
     DEF WriteStore, Return, TypeOK, PollerControl, PublishedInv,
         SecondState, GoalControl, PastFirst, Published
<1> QED
  BY <1>1, <1>2, <1>3, <1>4, <1>5, <1>6, <1>7, <1>8 DEF Transition

(* The poll loop keeps what is published.                                  *)
LEMMA PollPublished ==
    ASSUME TypeInv, PublishedInv, poll PROVE PublishedInv'
<1> USE DEF Goto, Aim, Leave, envVars, memVars, storeVars, apiVars, pollVars,
            obsVars
<1>0. TypeOK /\ PollerControl /\ PublishedInv
  BY DEF TypeInv
<1>1. CASE PollStart
  BY <1>0, <1>1, ProcFacts
     DEF PollStart, TypeOK, PollerControl, PublishedInv, SecondState,
         GoalControl, PastFirst, Published
<1>2. CASE SubscriptionDecide
  BY <1>0, <1>2, ProcFacts
     DEF SubscriptionDecide, txStateRank, TypeOK, PollerControl,
         PublishedInv, SecondState, GoalControl, PastFirst, Published
<1>3. CASE SubscriptionDetail
  BY <1>0, <1>3, ProcFacts
     DEF SubscriptionDetail, QueryTransaction, TypeOK, PollerControl,
         PublishedInv, SecondState, GoalControl, PastFirst, Published
<1>4. CASE TrackedStart
  BY <1>0, <1>4, ProcFacts
     DEF TrackedStart, TypeOK, PollerControl, PublishedInv, SecondState,
         GoalControl, PastFirst, Published
<1>5. CASE PollEnd
  BY <1>0, <1>5, ProcFacts
     DEF PollEnd, TypeOK, PollerControl, PublishedInv, SecondState,
         GoalControl, PastFirst, Published
<1>6. CASE StatusStore
  BY <1>0, <1>6, ProcFacts
     DEF StatusStore, UpdateStatus, TypeOK, PollerControl, PublishedInv,
         SecondState, GoalControl, PastFirst, Published
<1>7. CASE StatusMem
  BY <1>0, <1>7, ProcFacts
     DEF StatusMem, DropSubscription, TypeOK, PollerControl, PublishedInv,
         SecondState, GoalControl, PastFirst, Published
<1>8. ASSUME NEW tx \in Tx, SubscriptionStatus(tx) PROVE PublishedInv'
  BY <1>0, <1>8, ProcFacts
     DEF SubscriptionStatus, SubscriptionTarget, SeenState, TypeOK,
         PollerControl, PublishedInv, SecondState, GoalControl, PastFirst,
         Published
<1>9. ASSUME NEW tx \in Tx, TrackedStatus(tx) PROVE PublishedInv'
  BY <1>0, <1>9, ProcFacts
     DEF TrackedStatus, TrackedTarget, TypeOK, PollerControl, PublishedInv,
         SecondState, GoalControl, PastFirst, Published
<1>10. ASSUME NEW tasks \in SUBSET pendMem, RetryStart(tasks) PROVE PublishedInv'
  BY <1>0, <1>10, ProcFacts
     DEF RetryStart, TypeOK, PollerControl, PublishedInv, SecondState,
         GoalControl, PastFirst, Published
<1>11. ASSUME NEW task \in Task, RetryTake(task) PROVE PublishedInv'
  BY <1>0, <1>11, ProcFacts
     DEF RetryTake, Task, Kind, TypeOK, PollerControl, PublishedInv,
         SecondState, GoalControl, PastFirst, Published
<1> QED
  BY <1>1, <1>2, <1>3, <1>4, <1>5, <1>6, <1>7, <1>8, <1>9, <1>10, <1>11 DEF poll

(* The watchers and the backfills keep what is published.                  *)
LEMMA WorkerPublished ==
    ASSUME TypeInv, PublishedInv, NEW w \in Worker, runWorker(w) PROVE PublishedInv'
<1> USE DEF Goto, Aim, Leave, envVars, memVars, storeVars, apiVars, pollVars,
            obsVars
<1>0. TypeOK /\ PollerControl /\ PublishedInv
  BY DEF TypeInv
<1>1. CASE WatchNotified(w)
  BY <1>0, <1>1, ProcFacts
     DEF WatchNotified, TypeOK, PollerControl, PublishedInv, SecondState,
         GoalControl, PastFirst, Published
<1>2. CASE WatchCancelled(w)
  BY <1>0, <1>2, ProcFacts
     DEF WatchCancelled, TypeOK, PollerControl, PublishedInv, SecondState,
         GoalControl, PastFirst, Published
<1>3. CASE WorkerQuery(w)
  BY <1>0, <1>3, ProcFacts
     DEF WorkerQuery, GiveUp, QueryTransaction, TypeOK, PollerControl,
         PublishedInv, SecondState, GoalControl, PastFirst, Published
<1> QED
  BY <1>1, <1>2, <1>3 DEF runWorker

(* The API calls keep what is published.                                   *)
LEMMA APIPublished ==
    ASSUME TypeInv, PublishedInv, NEW tx \in Tx, API(tx) PROVE PublishedInv'
<1> USE DEF Goto, Aim, Leave, envVars, memVars, storeVars, apiVars, pollVars,
            obsVars
<1>0. TypeOK /\ PollerControl /\ PublishedInv
  BY DEF TypeInv
<1>1. CASE RegisterStore(tx)
  BY <1>0, <1>1, ProcFacts
     DEF RegisterStore, TypeOK, PollerControl, PublishedInv, SecondState,
         GoalControl, PastFirst, Published
<1>2. CASE RegisterMem(tx)
  <2>1. /\ \A p \in Proc : pc'[p] = pc[p] \/ (pc[p] = "idle" /\ pc'[p] = "watch")
        /\ pc'[Poller] = pc[Poller]
    <3>1. CASE entry[tx] # 0
      BY <1>2, <3>1 DEF RegisterMem, startTxWatcherLocked
    <3>2. CASE entry[tx] = 0
      <4>1. PICK w \in Worker : pc[w] = "idle" /\ pc' = [pc EXCEPT ![w] = "watch"]
        BY <1>2, <3>2, ProcFacts DEF RegisterMem, startTxWatcherLocked
      <4> QED
        BY <1>0, <4>1, ProcFacts DEF TypeOK
    <3> QED
      BY <3>1, <3>2
  <2>2. UNCHANGED <<pubMem, pubStore, phase, todo, second, job, goal>>
    BY <1>2 DEF RegisterMem
  <2>3. SecondState' /\ GoalControl'
    BY <1>0, <2>1, <2>2, ProcFacts DEF PublishedInv, SecondState, GoalControl
  <2>4. PastFirst'
    BY <1>0, <2>1, <2>2 DEF PublishedInv, PastFirst
  <2>5. Published'
    BY <1>0, <2>2 DEF PublishedInv, Published
  <2> QED
    BY <2>3, <2>4, <2>5 DEF PublishedInv
<1>3. CASE CancelStore(tx)
  BY <1>0, <1>3, ProcFacts
     DEF CancelStore, UpdateStatus, TypeOK, PollerControl, PublishedInv,
         SecondState, GoalControl, PastFirst, Published
<1>4. CASE CancelMem(tx)
  BY <1>0, <1>4, ProcFacts
     DEF CancelMem, DropSubscription, TypeOK, PollerControl, PublishedInv,
         SecondState, GoalControl, PastFirst, Published
<1> QED
  BY <1>1, <1>2, <1>3, <1>4 DEF API

(* The chain, a backfill that starts, and a crash keep what is published.  *)
LEMMA EnvironmentPublished ==
    ASSUME TypeInv, PublishedInv, Environment PROVE PublishedInv'
<1> USE DEF Goto, Aim, Leave, envVars, memVars, storeVars, apiVars, pollVars,
            obsVars
<1>0. TypeOK /\ PollerControl /\ PublishedInv
  BY DEF TypeInv
<1>1. CASE SlotAdvance
  BY <1>0, <1>1, ProcFacts
     DEF SlotAdvance, TypeOK, PollerControl, PublishedInv, SecondState,
         GoalControl, PastFirst, Published
<1>2. CASE Crash
  BY <1>0, <1>2, ProcFacts
     DEF Crash, isTerminalTxState, TxState, TypeOK, PollerControl,
         PublishedInv, SecondState, GoalControl, PastFirst, Published
<1>3. ASSUME NEW tx \in Tx, ChainAdvance(tx) PROVE PublishedInv'
  BY <1>0, <1>3, ProcFacts
     DEF ChainAdvance, TypeOK, PollerControl, PublishedInv, SecondState,
         GoalControl, PastFirst, Published
<1>4. ASSUME NEW tx \in Tx, ChainForget(tx) PROVE PublishedInv'
  BY <1>0, <1>4, ProcFacts
     DEF ChainForget, TypeOK, PollerControl, PublishedInv, SecondState,
         GoalControl, PastFirst, Published
<1>5. ASSUME NEW tx \in Tx, BackfillStart(tx) PROVE PublishedInv'
  BY <1>0, <1>5, ProcFacts
     DEF BackfillStart, TypeOK, PollerControl, PublishedInv, SecondState,
         GoalControl, PastFirst, Published
<1> QED
  BY <1>1, <1>2, <1>3, <1>4, <1>5 DEF Environment

(* A step that changes nothing keeps what is published.                    *)
LEMMA PublishedStutter == PublishedInv /\ UNCHANGED vars => PublishedInv'
  BY DEF vars, envVars, memVars, storeVars, apiVars, pollVars, obsVars,
         PublishedInv, SecondState, GoalControl, PastFirst, Published

(* What is published stays published, in every behaviour.                  *)
LEMMA PublishedInvariance == Spec => []PublishedInv
<1>1. TypeInv /\ PublishedInv /\ [Next]_vars => PublishedInv'
  BY ProcFacts, PollPublished, TransitionPublished, WorkerPublished, APIPublished,
     EnvironmentPublished, PublishedStutter DEF Next
<1> QED
  BY PublishedInit, <1>1, TypeInvariance, PTL DEF Spec

-----------------------------------------------------------------------------
(* Every request is kept.  A process that clears the callback of an        *)
(* awaited transaction from the queue would have delivered it, and then    *)
(* the transaction is awaited no more; so what one of them queued stays    *)
(* queued until it is delivered.                                           *)

NoneCleared ==
    \A p \in Proc : pc[p] \in {"clearMem", "clearStore"} /\ goal[p] # "REVERTED"
                       => job[p] \notin awaited

QueuedBeforeWrite ==
    \A p \in Proc : pc[p] = "writeMem" /\ goal[p] = "CONFIRMED" /\ job[p] \in awaited
                       => <<"tx", job[p]>> \in pendStore \cup unsaved

PledgeInv == NoneCleared /\ QueuedBeforeWrite /\ RequestIsCalledBack

(* Nothing is awaited in the initial states.                               *)
LEMMA PledgeInit == Init => PledgeInv
  BY ProcFacts DEF Init, PledgeInv, NoneCleared, QueuedBeforeWrite, RequestIsCalledBack

(* transitionTxState keeps every request.                                  *)
LEMMA TransitionPledge ==
    ASSUME TypeInv, PublishedInv, PledgeInv, NEW p \in Proc, Transition(p) PROVE PledgeInv'
<1> USE DEF Goto, Aim, Leave, envVars, memVars, storeVars, apiVars, pollVars,
            obsVars
<1>0. TypeOK /\ PollerControl /\ PublishedInv /\ PledgeInv
  BY DEF TypeInv
<1>1. CASE TransitionRead(p)
  BY <1>0, <1>1, ProcFacts
     DEF TransitionRead, Return, shouldTransition, txStateRank, TypeOK,
         PollerControl, PublishedInv, GoalControl, PastFirst, Published,
         PledgeInv, NoneCleared, QueuedBeforeWrite, RequestIsCalledBack
<1>2. CASE Publish(p)
  BY <1>0, <1>2, ProcFacts
     DEF Publish, Deliver, TaskOf, Fault, TypeOK, PollerControl,
         PublishedInv, GoalControl, PastFirst, Published, PledgeInv,
         NoneCleared, QueuedBeforeWrite, RequestIsCalledBack
<1>3. CASE QueueMem(p)
  BY <1>0, <1>3, ProcFacts
     DEF QueueMem, TypeOK, PollerControl, PublishedInv, GoalControl,
         PastFirst, Published, PledgeInv, NoneCleared, QueuedBeforeWrite,
         RequestIsCalledBack
<1>4. CASE QueueStore(p)
  BY <1>0, <1>4, ProcFacts
     DEF QueueStore, AfterCallback, TaskOf, TypeOK, PollerControl,
         PublishedInv, GoalControl, PastFirst, Published, PledgeInv,
         NoneCleared, QueuedBeforeWrite, RequestIsCalledBack
<1>5. CASE ClearMem(p)
  BY <1>0, <1>5, ProcFacts
     DEF ClearMem, AfterCallback, TaskOf, TypeOK, PollerControl,
         PublishedInv, GoalControl, PastFirst, Published, PledgeInv,
         NoneCleared, QueuedBeforeWrite, RequestIsCalledBack
<1>6. CASE ClearStore(p)
  BY <1>0, <1>6, ProcFacts
     DEF ClearStore, AfterCallback, TaskOf, TypeOK, PollerControl,
         PublishedInv, GoalControl, PastFirst, Published, PledgeInv,
         NoneCleared, QueuedBeforeWrite, RequestIsCalledBack
<1>7. CASE WriteMem(p)
  <2>1. NoneCleared' /\ QueuedBeforeWrite'
    BY <1>0, <1>7, ProcFacts
       DEF WriteMem, TypeOK, PledgeInv, NoneCleared, QueuedBeforeWrite
  <2>2. goal[p] \in {"CONFIRMED", "FINALIZED", "DROPPED", "REVERTED"}
    BY <1>0, <1>7 DEF WriteMem, TypeOK, TxState, PublishedInv, GoalControl
  <2>3. goal[p] \in {"FINALIZED", "REVERTED"} => pubMem[job[p]] # "none"
    BY <1>0, <1>7 DEF WriteMem, PublishedInv, GoalControl, PastFirst
  <2>4. job[p] \in awaited' => <<"tx", job[p]>> \in pendStore \cup unsaved
    BY <1>0, <1>7, <2>2, <2>3
       DEF WriteMem, TypeOK, PledgeInv, QueuedBeforeWrite, RequestIsCalledBack
  <2>5. /\ awaited' \subseteq awaited /\ UNCHANGED <<pendStore, unsaved>>
        /\ pubMem' = [pubMem EXCEPT ![job[p]] = goal[p]]
    BY <1>7 DEF WriteMem
  <2>6. ASSUME NEW tx \in awaited', pubMem'[tx] # "none"
        PROVE  <<"tx", tx>> \in pendStore \cup unsaved
    <3>1. CASE tx = job[p]
      BY <2>4, <2>6, <3>1
    <3>2. CASE tx # job[p]
      BY <1>0, <2>5, <2>6, <3>2 DEF TypeOK, PledgeInv, RequestIsCalledBack
    <3> QED
      BY <3>1, <3>2
  <2> QED
    BY <2>1, <2>5, <2>6 DEF PledgeInv, RequestIsCalledBack
<1>8. CASE WriteStore(p)
  BY <1>0, <1>8, ProcFacts
     DEF WriteStore, Return, TypeOK, PollerControl, PublishedInv,
         GoalControl, PastFirst, Published, PledgeInv, NoneCleared,
         QueuedBeforeWrite, RequestIsCalledBack
<1> QED
  BY <1>1, <1>2, <1>3, <1>4, <1>5, <1>6, <1>7, <1>8 DEF Transition

(* The poll loop keeps every request.                                      *)
LEMMA PollPledge ==
    ASSUME TypeInv, PublishedInv, PledgeInv, poll PROVE PledgeInv'
<1> USE DEF Goto, Aim, Leave, envVars, memVars, storeVars, apiVars, pollVars,
            obsVars
<1>0. TypeOK /\ PollerControl /\ PublishedInv /\ PledgeInv
  BY DEF TypeInv
<1>1. CASE PollStart
  BY <1>0, <1>1, ProcFacts
     DEF PollStart, TypeOK, PollerControl, PublishedInv, GoalControl,
         PastFirst, Published, PledgeInv, NoneCleared, QueuedBeforeWrite,
         RequestIsCalledBack
<1>2. CASE SubscriptionDecide
  BY <1>0, <1>2, ProcFacts
     DEF SubscriptionDecide, txStateRank, TypeOK, PollerControl,
         PublishedInv, GoalControl, PastFirst, Published, PledgeInv,
         NoneCleared, QueuedBeforeWrite, RequestIsCalledBack
<1>3. CASE SubscriptionDetail
  BY <1>0, <1>3, ProcFacts
     DEF SubscriptionDetail, QueryTransaction, TypeOK, PollerControl,
         PublishedInv, GoalControl, PastFirst, Published, PledgeInv,
         NoneCleared, QueuedBeforeWrite, RequestIsCalledBack
<1>4. CASE TrackedStart
  BY <1>0, <1>4, ProcFacts
     DEF TrackedStart, TypeOK, PollerControl, PublishedInv, GoalControl,
         PastFirst, Published, PledgeInv, NoneCleared, QueuedBeforeWrite,
         RequestIsCalledBack
<1>5. CASE PollEnd
  BY <1>0, <1>5, ProcFacts
     DEF PollEnd, TypeOK, PollerControl, PublishedInv, GoalControl,
         PastFirst, Published, PledgeInv, NoneCleared, QueuedBeforeWrite,
         RequestIsCalledBack
<1>6. CASE StatusStore
  BY <1>0, <1>6, ProcFacts
     DEF StatusStore, UpdateStatus, TypeOK, PollerControl, PublishedInv,
         GoalControl, PastFirst, Published, PledgeInv, NoneCleared,
         QueuedBeforeWrite, RequestIsCalledBack
<1>7. CASE StatusMem
  BY <1>0, <1>7, ProcFacts
     DEF StatusMem, DropSubscription, TypeOK, PollerControl, PublishedInv,
         GoalControl, PastFirst, Published, PledgeInv, NoneCleared,
         QueuedBeforeWrite, RequestIsCalledBack
<1>8. ASSUME NEW tx \in Tx, SubscriptionStatus(tx) PROVE PledgeInv'
  BY <1>0, <1>8, ProcFacts
     DEF SubscriptionStatus, SubscriptionTarget, SeenState, TypeOK,
         PollerControl, PublishedInv, GoalControl, PastFirst, Published,
         PledgeInv, NoneCleared, QueuedBeforeWrite, RequestIsCalledBack
<1>9. ASSUME NEW tx \in Tx, TrackedStatus(tx) PROVE PledgeInv'
  BY <1>0, <1>9, ProcFacts
     DEF TrackedStatus, TrackedTarget, TypeOK, PollerControl, PublishedInv,
         GoalControl, PastFirst, Published, PledgeInv, NoneCleared,
         QueuedBeforeWrite, RequestIsCalledBack
<1>10. ASSUME NEW tasks \in SUBSET pendMem, RetryStart(tasks) PROVE PledgeInv'
  BY <1>0, <1>10, ProcFacts
     DEF RetryStart, TypeOK, PollerControl, PublishedInv, GoalControl,
         PastFirst, Published, PledgeInv, NoneCleared, QueuedBeforeWrite,
         RequestIsCalledBack
<1>11. ASSUME NEW task \in Task, RetryTake(task) PROVE PledgeInv'
  BY <1>0, <1>11, ProcFacts
     DEF RetryTake, Task, Kind, TypeOK, PollerControl, PublishedInv,
         GoalControl, PastFirst, Published, PledgeInv, NoneCleared,
         QueuedBeforeWrite, RequestIsCalledBack
<1> QED
  BY <1>1, <1>2, <1>3, <1>4, <1>5, <1>6, <1>7, <1>8, <1>9, <1>10, <1>11 DEF poll

(* The watchers and the backfills keep every request.                      *)
LEMMA WorkerPledge ==
    ASSUME TypeInv, PublishedInv, PledgeInv, NEW w \in Worker, runWorker(w) PROVE PledgeInv'
<1> USE DEF Goto, Aim, Leave, envVars, memVars, storeVars, apiVars, pollVars,
            obsVars
<1>0. TypeOK /\ PollerControl /\ PublishedInv /\ PledgeInv
  BY DEF TypeInv
<1>1. CASE WatchNotified(w)
  BY <1>0, <1>1, ProcFacts
     DEF WatchNotified, TypeOK, PollerControl, PublishedInv, GoalControl,
         PastFirst, Published, PledgeInv, NoneCleared, QueuedBeforeWrite,
         RequestIsCalledBack
<1>2. CASE WatchCancelled(w)
  BY <1>0, <1>2, ProcFacts
     DEF WatchCancelled, TypeOK, PollerControl, PublishedInv, GoalControl,
         PastFirst, Published, PledgeInv, NoneCleared, QueuedBeforeWrite,
         RequestIsCalledBack
<1>3. CASE WorkerQuery(w)
  BY <1>0, <1>3, ProcFacts
     DEF WorkerQuery, GiveUp, QueryTransaction, TypeOK, PollerControl,
         PublishedInv, GoalControl, PastFirst, Published, PledgeInv,
         NoneCleared, QueuedBeforeWrite, RequestIsCalledBack
<1> QED
  BY <1>1, <1>2, <1>3 DEF runWorker

(* The API calls keep every request.                                       *)
LEMMA APIPledge ==
    ASSUME TypeInv, PublishedInv, PledgeInv, NEW tx \in Tx, API(tx) PROVE PledgeInv'
<1> USE DEF Goto, Aim, Leave, envVars, memVars, storeVars, apiVars, pollVars,
            obsVars
<1>0. TypeOK /\ PollerControl /\ PublishedInv /\ PledgeInv
  BY DEF TypeInv
<1>1. CASE RegisterStore(tx)
  BY <1>0, <1>1, ProcFacts
     DEF RegisterStore, TypeOK, PollerControl, PublishedInv, GoalControl,
         PastFirst, Published, PledgeInv, NoneCleared, QueuedBeforeWrite,
         RequestIsCalledBack
<1>2. CASE RegisterMem(tx)
  <2>1. /\ pubMem' = pubMem /\ pubStore' = pubStore /\ pendStore' = pendStore
        /\ unsaved' = unsaved /\ job' = job /\ goal' = goal /\ data' = data
        /\ awaited' = IF AlreadyPublished(tx) THEN awaited ELSE awaited \cup {tx}
    BY <1>2 DEF RegisterMem
  <2>2. \A p \in Proc : pc'[p] = pc[p] \/ pc'[p] = "watch"
    BY <1>0, <1>2 DEF RegisterMem, startTxWatcherLocked, TypeOK
  <2>3. ASSUME NEW p \in Proc, job[p] \in awaited',
               pc'[p] \in {"clearMem", "clearStore", "writeMem"}
        PROVE  pc[p] = pc'[p] /\ job[p] \in awaited
    BY <2>1, <2>2, <2>3 DEF AlreadyPublished
  <2>4. NoneCleared'
    BY <1>0, <2>1, <2>3 DEF PledgeInv, NoneCleared
  <2>5. QueuedBeforeWrite'
    BY <1>0, <2>1, <2>3 DEF PledgeInv, QueuedBeforeWrite
  <2>6. RequestIsCalledBack'
    BY <1>0, <2>1 DEF PledgeInv, RequestIsCalledBack, AlreadyPublished
  <2> QED
    BY <2>4, <2>5, <2>6 DEF PledgeInv
<1>3. CASE CancelStore(tx)
  BY <1>0, <1>3, ProcFacts
     DEF CancelStore, UpdateStatus, TypeOK, PollerControl, PublishedInv,
         GoalControl, PastFirst, Published, PledgeInv, NoneCleared,
         QueuedBeforeWrite, RequestIsCalledBack
<1>4. CASE CancelMem(tx)
  BY <1>0, <1>4, ProcFacts
     DEF CancelMem, DropSubscription, TypeOK, PollerControl, PublishedInv,
         GoalControl, PastFirst, Published, PledgeInv, NoneCleared,
         QueuedBeforeWrite, RequestIsCalledBack
<1> QED
  BY <1>1, <1>2, <1>3, <1>4 DEF API

(* The chain, a backfill that starts, and a crash keep every request.      *)
LEMMA EnvironmentPledge ==
    ASSUME TypeInv, PublishedInv, PledgeInv, Environment PROVE PledgeInv'
<1> USE DEF Goto, Aim, Leave, envVars, memVars, storeVars, apiVars, pollVars,
            obsVars
<1>0. TypeOK /\ PollerControl /\ PublishedInv /\ PledgeInv
  BY DEF TypeInv
<1>1. CASE SlotAdvance
  BY <1>0, <1>1, ProcFacts
     DEF SlotAdvance, TypeOK, PollerControl, PublishedInv, GoalControl,
         PastFirst, Published, PledgeInv, NoneCleared, QueuedBeforeWrite,
         RequestIsCalledBack
<1>2. CASE Crash
  BY <1>0, <1>2, ProcFacts
     DEF Crash, isTerminalTxState, TxState, TypeOK, PollerControl,
         PublishedInv, GoalControl, PastFirst, Published, PledgeInv,
         NoneCleared, QueuedBeforeWrite, RequestIsCalledBack
<1>3. ASSUME NEW tx \in Tx, ChainAdvance(tx) PROVE PledgeInv'
  BY <1>0, <1>3, ProcFacts
     DEF ChainAdvance, TypeOK, PollerControl, PublishedInv, GoalControl,
         PastFirst, Published, PledgeInv, NoneCleared, QueuedBeforeWrite,
         RequestIsCalledBack
<1>4. ASSUME NEW tx \in Tx, ChainForget(tx) PROVE PledgeInv'
  BY <1>0, <1>4, ProcFacts
     DEF ChainForget, TypeOK, PollerControl, PublishedInv, GoalControl,
         PastFirst, Published, PledgeInv, NoneCleared, QueuedBeforeWrite,
         RequestIsCalledBack
<1>5. ASSUME NEW tx \in Tx, BackfillStart(tx) PROVE PledgeInv'
  BY <1>0, <1>5, ProcFacts
     DEF BackfillStart, TypeOK, PollerControl, PublishedInv, GoalControl,
         PastFirst, Published, PledgeInv, NoneCleared, QueuedBeforeWrite,
         RequestIsCalledBack
<1> QED
  BY <1>1, <1>2, <1>3, <1>4, <1>5 DEF Environment

(* A step that changes nothing keeps every request.                        *)
LEMMA PledgeStutter == PledgeInv /\ UNCHANGED vars => PledgeInv'
  BY DEF vars, envVars, memVars, storeVars, apiVars, pollVars, obsVars, PledgeInv,
         NoneCleared, QueuedBeforeWrite, RequestIsCalledBack

(* A subscription request that finds its transaction unpublished is never  *)
(* passed over: nothing is recorded of the transaction before a callback   *)
(* is delivered after the request or put in the queue, for any number of   *)
(* goroutines, polls, requests and faults.                                 *)
THEOREM RequestsAnswered == Spec => []RequestIsCalledBack
<1>1. TypeInv /\ PublishedInv /\ PledgeInv /\ [Next]_vars => PledgeInv'
  BY ProcFacts, PollPledge, TransitionPledge, WorkerPledge, APIPledge,
     EnvironmentPledge, PledgeStutter DEF Next
<1>2. Spec => []PledgeInv
  BY PledgeInit, <1>1, TypeInvariance, PublishedInvariance, PTL DEF Spec
<1>3. PledgeInv => RequestIsCalledBack
  BY DEF PledgeInv
<1> QED
  BY <1>2, <1>3, PTL

=============================================================================
