-------------------------- MODULE AddressTracking --------------------------
(***************************************************************************)
(* The subscription of one address (pkg/service/subscription_service.go):  *)
(* the accounts derived from the token list, a checkpoint per account, the *)
(* backfills that report the transactions between a checkpoint and the     *)
(* latest slot, and everyone who runs one -- the poll loop and a watcher   *)
(* per account -- each from a copy of the subscription it took under the   *)
(* lock and writes back whole.                                             *)
(*                                                                         *)
(* A slot holds at most one transaction of interest, which touches a set   *)
(* of accounts, so that a slot names its transaction.                      *)
(***************************************************************************)
EXTENDS Integers, FiniteSets, FiniteSetsExt

CONSTANTS
    Account,    \* the address itself and its token accounts
    Owner,      \* the address itself
    Poller,     \* the poll goroutine
    Main,       \* the goroutine of a watcher that starts the others
    MaxGen,     \* bound: watchers of the address alive at once
    MaxSlot,    \* bound: the latest slot
    MaxBusy,    \* bound: backfills running at once
    Env,        \* the environment events that can happen
    MaxEvents   \* bound: such events in one behaviour, all kinds together

EnvEvents == {"again",      \* the user subscribes while subscribed already
              "cancel",     \* the user cancels the subscription
              "token",      \* a token is added or deleted
              "crash",      \* the process dies and is started again
              "wsFail",     \* a websocket connection breaks
              "rpcFail",    \* a call to the RPC endpoint fails
              "notFound",     \* getTransaction does not find a listed signature
              "storeFail"}  \* a statement on MySQL fails

Gen    == 1 .. MaxGen
Worker == Gen \X (Account \cup {Main})
Proc   == {Poller} \cup Worker

ASSUME ConstantAssumption ==
    /\ Owner \in Account /\ Main \notin Account /\ Poller \notin Worker
    /\ IsFiniteSet(Account)
    /\ MaxGen \in Nat \ {0} /\ MaxSlot \in Nat \ {0} /\ MaxBusy \in Nat \ {0}
    /\ Env \subseteq EnvEvents /\ MaxEvents \in Nat

Slot == 1 .. MaxSlot

(* A checkpoint: the last slot observed, 0 where it has just been created, *)
(* -1 where the map has no entry.                                          *)
Checkpoint   == -1 .. MaxSlot
Subscription == [tracked: SUBSET Account, at: [Account -> Checkpoint]]
Absent       == [tracked |-> {}, at |-> [a \in Account |-> -1]]

Point == {"idle", "start", "dial", "listen", "poll", "refresh", "read",
          "latest", "fetch", "report", "save", "saveMem"}

VARIABLES
    head,       \* the latest slot
    touched,    \* the accounts touched by the transaction of each slot
    tokens,     \* the accounts derived from the token list
    sub,        \* s.addressSubs of the address
    row,        \* its row: the subscription and its status
    entry,      \* s.addressWatchers: the watcher, 0 if none
    cancelled,  \* the watchers whose context is cancelled
    registering,\* what a subscribe call is about to save
    cancelling, \* a cancel call has updated the row only
    pc,         \* where each process is
    snap,       \* the copy of the subscription it works on
    scope,      \* the accounts left to fetch
    latest,     \* the latest slot it read
    found,      \* the transactions it is about to report
    seen,       \* the last slot its websocket told it of
    wanted,     \* the accounts whose watchers Main starts
    reported,   \* the transactions passed to transitionTxState
    missed,     \* the listed transactions that were not found when queried
    base,       \* the highest slot an account was ever started from
    first,      \* the slot it was started from first, since it is tracked
    ended,      \* the last subscribe or cancel call to end was a cancel
    events      \* such events so far

chainVars == <<head, touched, tokens>>
apiVars   == <<registering, cancelling>>
workVars  == <<snap, scope, latest, found>>
logVars   == <<reported, missed>>
watchVars == <<entry, cancelled, seen, wanted>>
vars == <<chainVars, sub, row, apiVars, pc, workVars, watchVars,
          logVars, base, first, ended, events>>

TypeOK ==
    /\ head \in Slot /\ touched \in [Slot -> SUBSET Account]
    /\ tokens \subseteq Account
    /\ sub \in Subscription
    /\ row \in [status: {"none", "ACTIVE", "CANCELLED"}, saved: Subscription]
    /\ entry \in 0 .. MaxGen /\ cancelled \subseteq Gen
    /\ registering \in Subscription /\ cancelling \in BOOLEAN
    /\ pc \in [Proc -> Point]
    /\ snap \in [Proc -> Subscription] /\ scope \in [Proc -> SUBSET Account]
    /\ latest \in [Proc -> 0 .. MaxSlot] /\ found \in [Proc -> SUBSET Slot]
    /\ seen \in [Worker -> 0 .. MaxSlot] /\ wanted \in [Gen -> SUBSET Account]
    /\ reported \subseteq Slot /\ missed \subseteq Slot
    /\ base \in [Account -> 0 .. MaxSlot] /\ first \in [Account -> 0 .. MaxSlot]
    /\ ended \in BOOLEAN /\ events \in 0 .. MaxEvents

Present == sub.tracked # {}

Event(e) == e \in Env /\ events < MaxEvents /\ events' = events + 1

Goto(p, point) == pc' = [pc EXCEPT ![p] = point]

-----------------------------------------------------------------------------
(* Targets and watchers.                                                   *)

deriveTrackedAccounts == {Owner} \cup tokens

(* New accounts get an empty checkpoint, the others' are deleted.          *)
reconcileAddressTargetsLocked(s) ==
    [tracked |-> deriveTrackedAccounts,
     at |-> [a \in Account |->
               IF a \notin deriveTrackedAccounts THEN -1
               ELSE IF s.at[a] = -1 THEN 0 ELSE s.at[a]]]

Store(s) == row' = [status |-> "ACTIVE", saved |-> s]

Idle(g) == \A x \in Account \cup {Main} : pc[<<g, x>>] = "idle"

(* Memory takes s: what starts an account off is remembered.               *)
Keep(s) ==
    /\ sub' = s
    /\ first' = [a \in Account |->
                   IF s.at[a] <= 0 /\ a \notin s.tracked THEN 0
                   ELSE IF first[a] = 0 THEN (IF s.at[a] > 0 THEN s.at[a] ELSE 0)
                   ELSE first[a]]

StartWatcher(g) ==
    /\ Idle(g)
    /\ entry' = g
    /\ Goto(<<g, Main>>, "start")

(* RegisterAddressSubscription: memory first, the row after the lock.      *)
RegisterMem ==
    /\ registering = Absent
    /\ IF Present THEN Event("again") ELSE UNCHANGED events
    /\ LET s == reconcileAddressTargetsLocked(sub)
       IN Keep(s) /\ registering' = s
    /\ \/ entry # 0 /\ UNCHANGED <<entry, cancelled, pc>>
       \/ entry = 0 /\ \E g \in Gen : StartWatcher(g) /\ cancelled' = cancelled \ {g}
    /\ ended' = FALSE
    /\ UNCHANGED <<chainVars, row, cancelling, workVars, seen, wanted, logVars,
                   base>>

RegisterStore ==
    /\ registering # Absent
    /\ registering' = Absent
    /\ \/ Store(registering) /\ UNCHANGED events
       \/ Event("storeFail") /\ UNCHANGED row
    /\ UNCHANGED <<chainVars, sub, cancelling, pc, workVars, watchVars, logVars,
                   base, first, ended>>

(* updateAddressSubscriptionStatus: the row first, memory under the lock.  *)
CancelStore ==
    /\ Event("cancel") /\ ~cancelling
    /\ cancelling' = TRUE
    /\ row' = [row EXCEPT !.status = IF @ = "none" THEN @ ELSE "CANCELLED"]
    /\ UNCHANGED <<chainVars, sub, registering, pc, workVars, watchVars, logVars,
                   base, first, ended>>

(* With a mistake: a watcher that is not there is cancelled too.           *)
CancelUnguarded ==
    /\ cancelling
    /\ cancelling' = FALSE
    /\ cancelled' = cancelled \cup {entry}
    /\ entry' = 0
    /\ sub' = Absent
    /\ first' = [a \in Account |-> 0]
    /\ ended' = TRUE
    /\ UNCHANGED <<chainVars, row, registering, pc, workVars, seen, wanted,
                   logVars, base, events>>

CancelMem ==
    /\ cancelling
    /\ cancelling' = FALSE
    /\ cancelled' = IF entry = 0 THEN cancelled ELSE cancelled \cup {entry}
    /\ entry' = 0
    /\ sub' = Absent
    /\ first' = [a \in Account |-> 0]
    /\ ended' = TRUE
    /\ UNCHANGED <<chainVars, row, registering, pc, workVars, seen, wanted,
                   logVars, base, events>>

(* Where a process goes once its backfill returned: Main starts the        *)
(* account watchers, whatever the outcome, and they reconnect on an error. *)
End(p, ok) ==
    /\ pc' = [q \in Proc |->
             IF q = p THEN (IF p = Poller \/ p[2] = Main THEN "idle"
                            ELSE IF ok THEN "listen" ELSE "dial")
             ELSE IF p # Poller /\ q # Poller
                     THEN IF p[2] = Main /\ q[1] = p[1] /\ q[2] \in wanted[p[1]]
                          THEN "dial" ELSE pc[q]
             ELSE pc[q]]
    /\ snap' = [snap EXCEPT ![p] = Absent] /\ scope' = [scope EXCEPT ![p] = {}]
    /\ latest' = [latest EXCEPT ![p] = 0] /\ found' = [found EXCEPT ![p] = {}]

-----------------------------------------------------------------------------
(* pollAddressSubscriptions: refresh the targets, then backfill them all.  *)

(* The poller lists the subscriptions first.                               *)
PollStart ==
    /\ pc[Poller] = "idle" /\ Present
    /\ Goto(Poller, "poll")
    /\ UNCHANGED <<chainVars, sub, row, apiVars, workVars, watchVars, logVars, base,
                   first, ended, events>>

(* With a mistake: the old watcher is left running.                        *)
RefreshWithoutCancel ==
    /\ pc[Poller] = "poll" /\ Present
    /\ LET s == reconcileAddressTargetsLocked(sub) IN
       /\ Keep(s)
       /\ snap' = [snap EXCEPT ![Poller] = s]
       /\ IF s.tracked = sub.tracked
          THEN Goto(Poller, "refresh") /\ UNCHANGED entry
          ELSE \E g \in Gen :
                 /\ Idle(g) /\ g # entry
                 /\ entry' = g
                 /\ pc' = [pc EXCEPT ![<<g, Main>>] = "start", ![Poller] = "refresh"]
    /\ UNCHANGED <<chainVars, row, apiVars, cancelled, scope, latest, found, seen,
                   wanted, logVars, base, ended, events>>

(* With a mistake: a subscription that is gone is refreshed all the same.  *)
RefreshUnguarded ==
    /\ pc[Poller] = "poll"
    /\ LET s == reconcileAddressTargetsLocked(sub) IN
       /\ Keep(s)
       /\ snap' = [snap EXCEPT ![Poller] = s]
    /\ Goto(Poller, "refresh")
    /\ UNCHANGED <<chainVars, row, apiVars, entry, cancelled, scope, latest, found,
                   seen, wanted, logVars, base, ended, events>>

RefreshMem ==
    /\ pc[Poller] = "poll" /\ Present
    /\ LET s == reconcileAddressTargetsLocked(sub) IN
       /\ Keep(s)
       /\ snap' = [snap EXCEPT ![Poller] = s]
       /\ IF s.tracked = sub.tracked
          THEN Goto(Poller, "refresh") /\ UNCHANGED <<entry, cancelled>>
          ELSE \E g \in Gen :
                 /\ Idle(g) /\ g # entry
                 /\ cancelled' = (IF entry = 0 THEN cancelled
                                  ELSE cancelled \cup {entry}) \ {g}
                 /\ entry' = g
                 /\ pc' = [pc EXCEPT ![<<g, Main>>] = "start", ![Poller] = "refresh"]
    /\ UNCHANGED <<chainVars, row, apiVars, scope, latest, found, seen, wanted,
                   logVars, base, ended, events>>

RefreshGone ==
    /\ pc[Poller] = "poll" /\ ~Present
    /\ Goto(Poller, "read")
    /\ UNCHANGED <<chainVars, sub, row, apiVars, workVars, watchVars, logVars, base,
                   first, ended, events>>

RefreshStore ==
    /\ pc[Poller] = "refresh"
    /\ \/ Store(snap[Poller]) /\ Goto(Poller, "read") /\ UNCHANGED <<workVars, events>>
       \/ Event("storeFail") /\ End(Poller, FALSE) /\ UNCHANGED row
    /\ UNCHANGED <<chainVars, sub, apiVars, watchVars, logVars, base, first, ended>>

-----------------------------------------------------------------------------
(* The watchers: runAddressWatcher and runTrackedAccountWatcher.           *)

MainStart(g) ==
    /\ pc[<<g, Main>>] = "start"
    /\ wanted' = [wanted EXCEPT ![g] = sub.tracked]
    /\ Goto(<<g, Main>>, IF Present THEN "read" ELSE "idle")
    /\ UNCHANGED <<chainVars, sub, row, apiVars, workVars, entry, cancelled, seen,
                   logVars, base, first, ended, events>>

(* Connected and subscribed; what lands from now on is notified.           *)
Dial(g, a) ==
    /\ pc[<<g, a>>] = "dial" /\ g \notin cancelled
    /\ seen' = [seen EXCEPT ![<<g, a>>] = head]
    /\ Goto(<<g, a>>, "read")
    /\ UNCHANGED <<chainVars, sub, row, apiVars, workVars, entry, cancelled, wanted,
                   logVars, base, first, ended, events>>

Notified(g, a) ==
    /\ pc[<<g, a>>] = "listen"
    /\ \E s \in seen[<<g, a>>] + 1 .. head :
         a \in touched[s] /\ seen' = [seen EXCEPT ![<<g, a>>] = s]
    /\ Goto(<<g, a>>, "read")
    /\ UNCHANGED <<chainVars, sub, row, apiVars, workVars, entry, cancelled, wanted,
                   logVars, base, first, ended, events>>

Disconnected(g, a) ==
    /\ pc[<<g, a>>] = "listen" /\ Event("wsFail")
    /\ Goto(<<g, a>>, "dial")
    /\ UNCHANGED <<chainVars, sub, row, apiVars, workVars, watchVars, logVars,
                   base, first, ended>>

WatchCancelled(g, a) ==
    /\ pc[<<g, a>>] \in {"dial", "listen"} /\ g \in cancelled
    /\ Goto(<<g, a>>, "idle")
    /\ UNCHANGED <<chainVars, sub, row, apiVars, workVars, watchVars, logVars,
                   base, first, ended, events>>

-----------------------------------------------------------------------------
(* backfillAddressAccounts                                                 *)

Busy == {p \in Proc : pc[p] \in {"latest", "fetch", "report", "save", "saveMem"}}

(* The accounts it is asked for: its own, or all of them.                  *)
Targets(p, s) == IF p = Poller \/ p[2] = Main THEN s.tracked ELSE {p[2]}

BackfillRead(p) ==
    /\ pc[p] = "read" /\ Cardinality(Busy) < MaxBusy
    /\ \/ /\ Present /\ Goto(p, "latest")
          /\ snap' = [snap EXCEPT ![p] = sub]
          /\ scope' = [scope EXCEPT ![p] = Targets(p, sub)]
          /\ UNCHANGED <<latest, found>>
       \/ ~Present /\ End(p, TRUE)
    /\ UNCHANGED <<chainVars, sub, row, apiVars, watchVars, logVars, base, first,
                   ended, events>>

(* An account with no checkpoint gets an empty one, an empty one starts at *)
(* the latest slot; either way nothing is reported this time.              *)
BackfillLatest(p) ==
    /\ pc[p] = "latest"
    /\ LET old    == snap[p].at
           unset  == {a \in scope[p] : old[a] <= 0}
           new    == [a \in Account |->
                        IF a \notin unset THEN old[a]
                        ELSE IF old[a] = -1 THEN 0 ELSE head]
       IN \/ /\ latest' = [latest EXCEPT ![p] = head]
             /\ snap' = [snap EXCEPT ![p].at = new]
             /\ base' = [a \in Account |->
                           IF a \in unset /\ new[a] > 0 THEN head ELSE base[a]]
             /\ Goto(p, IF unset = {} THEN "fetch" ELSE "save")
             /\ UNCHANGED <<scope, found, events>>
          \/ Event("rpcFail") /\ End(p, FALSE) /\ UNCHANGED base
    /\ UNCHANGED <<chainVars, sub, row, apiVars, watchVars, logVars, first, ended>>

(* With a mistake: the first slot after the checkpoint is left out.        *)
SignaturesOffByOne(a, after) == {s \in after + 2 .. head : a \in touched[s]}

(* The signatures of an account after its checkpoint, which moves to the   *)
(* newest of them, or to the latest slot where there is none.              *)
Signatures(a, after) == {s \in after + 1 .. head : a \in touched[s]}

BackfillFetch(p, a) ==
    /\ pc[p] = "fetch" /\ a \in scope[p]
    /\ LET after == snap[p].at[a]
           new   == IF latest[p] <= after THEN {} ELSE Signatures(a, after)
       IN \/ /\ found' = [found EXCEPT ![p] = @ \cup new]
             /\ snap' = [snap EXCEPT ![p].at[a] =
                           IF new # {} THEN Max(new)
                           ELSE IF latest[p] > after THEN latest[p] ELSE after]
             /\ scope' = [scope EXCEPT ![p] = @ \ {a}]
             /\ Goto(p, IF scope[p] = {a} THEN "report" ELSE "fetch")
             /\ UNCHANGED <<latest, events>>
          \/ latest[p] > after /\ Event("rpcFail") /\ End(p, FALSE)
    /\ UNCHANGED <<chainVars, sub, row, apiVars, watchVars, logVars, base, first,
                   ended>>

(* With a mistake: a transaction whose query failed is passed over.        *)
ReportContinues(p) ==
    /\ pc[p] = "report" /\ found[p] # {}
    /\ \/ reported' = reported \cup {Min(found[p])} /\ UNCHANGED events
       \/ Event("rpcFail") /\ UNCHANGED reported
    /\ found' = [found EXCEPT ![p] = @ \ {Min(@)}]
    /\ UNCHANGED <<chainVars, sub, row, apiVars, pc, snap, scope, latest, watchVars,
                   missed, base, first, ended>>

(* QueryTransaction and transitionTxState, in the order of the slots; a     *)
(* transaction that is not found is passed over.                           *)
BackfillReport(p) ==
    /\ pc[p] = "report" /\ found[p] # {}
    /\ \/ /\ \/ reported' = reported \cup {Min(found[p])} /\ UNCHANGED <<missed, events>>
             \/ Event("notFound") /\ missed' = missed \cup {Min(found[p])}
                /\ UNCHANGED reported
          /\ found' = [found EXCEPT ![p] = @ \ {Min(@)}]
          /\ UNCHANGED <<pc, snap, scope, latest>>
       \/ Event("rpcFail") /\ End(p, FALSE) /\ UNCHANGED logVars
    /\ UNCHANGED <<chainVars, sub, row, apiVars, watchVars, base, first, ended>>

(* persistAddressSnapshot                                                  *)
SaveStore(p) ==
    /\ pc[p] = "save" \/ (pc[p] = "report" /\ found[p] = {})
    /\ \/ Store(snap[p]) /\ Goto(p, "saveMem") /\ UNCHANGED <<workVars, events>>
       \/ Event("storeFail") /\ End(p, FALSE) /\ UNCHANGED row
    /\ UNCHANGED <<chainVars, sub, apiVars, watchVars, logVars, base, first, ended>>

SaveMem(p) ==
    /\ pc[p] = "saveMem"
    /\ Keep(snap[p])
    /\ End(p, TRUE)
    /\ UNCHANGED <<chainVars, row, apiVars, watchVars, logVars, base, ended, events>>

-----------------------------------------------------------------------------

(* A new slot, with the accounts its transaction touches.                  *)
SlotAdvance(accounts) ==
    /\ head < MaxSlot
    /\ head' = head + 1
    /\ touched' = [touched EXCEPT ![head + 1] = accounts]
    /\ UNCHANGED <<tokens, sub, row, apiVars, pc, workVars, watchVars, logVars,
                   base, first, ended, events>>

TokenChange(accounts) ==
    /\ Event("token") /\ accounts # tokens
    /\ tokens' = accounts
    /\ UNCHANGED <<head, touched, sub, row, apiVars, pc, workVars, watchVars,
                   logVars, base, first, ended>>

Crash ==
    LET back == IF row.status = "ACTIVE" THEN row.saved ELSE Absent IN
    /\ Event("crash")
    /\ Keep(back)
    /\ entry' = IF back = Absent THEN 0 ELSE 1
    /\ cancelled' = {}
    /\ registering' = Absent /\ cancelling' = FALSE
    /\ pc' = [p \in Proc |-> IF back # Absent /\ p = <<1, Main>> THEN "start"
                                                                 ELSE "idle"]
    /\ snap' = [p \in Proc |-> Absent] /\ scope' = [p \in Proc |-> {}]
    /\ latest' = [p \in Proc |-> 0] /\ found' = [p \in Proc |-> {}]
    /\ seen' = [w \in Worker |-> 0] /\ wanted' = [g \in Gen |-> {}]
    /\ UNCHANGED <<chainVars, row, logVars, base, ended>>

Init ==
    /\ head = 1 /\ touched = [s \in Slot |-> {}] /\ tokens = {}
    /\ sub = Absent /\ row = [status |-> "none", saved |-> Absent]
    /\ entry = 0 /\ cancelled = {}
    /\ registering = Absent /\ cancelling = FALSE
    /\ pc = [p \in Proc |-> "idle"]
    /\ snap = [p \in Proc |-> Absent] /\ scope = [p \in Proc |-> {}]
    /\ latest = [p \in Proc |-> 0] /\ found = [p \in Proc |-> {}]
    /\ seen = [w \in Worker |-> 0] /\ wanted = [g \in Gen |-> {}]
    /\ reported = {} /\ missed = {}
    /\ base = [a \in Account |-> 0] /\ first = [a \in Account |-> 0]
    /\ ended = FALSE /\ events = 0

backfillAddressAccounts(p) ==
    \/ BackfillRead(p) \/ BackfillLatest(p) \/ BackfillReport(p)
    \/ SaveStore(p) \/ SaveMem(p)
    \/ \E a \in Account : BackfillFetch(p, a)

pollAddressSubscriptions == PollStart \/ RefreshMem \/ RefreshGone \/ RefreshStore

Next ==
    \/ RegisterMem \/ RegisterStore \/ CancelStore \/ CancelMem
    \/ pollAddressSubscriptions
    \/ \E g \in Gen : MainStart(g)
    \/ \E g \in Gen, a \in Account : Dial(g, a) \/ Notified(g, a)
                                     \/ Disconnected(g, a) \/ WatchCancelled(g, a)
    \/ \E p \in Proc : backfillAddressAccounts(p)
    \/ \E accounts \in SUBSET Account : SlotAdvance(accounts)
    \/ \E accounts \in SUBSET (Account \ {Owner}) : TokenChange(accounts)
    \/ Crash

Spec == Init /\ [][Next]_vars

(* The ticker polls again and again.                                       *)
LiveSpec ==
    Spec /\ WF_vars(pollAddressSubscriptions \/ backfillAddressAccounts(Poller))

-----------------------------------------------------------------------------

(* No checkpoint passes a transaction that was not reported: not in        *)
(* memory, not in MySQL, not in a copy somebody is about to write back --  *)
(* except what he is about to report before he does.  An account is        *)
(* answerable for what lands after it was started, however often.          *)
CheckpointCoversReported ==
    LET Honest(s, pending) ==
            \A a \in Account : \A slot \in base[a] + 1 .. s.at[a] :
                a \in touched[slot] => slot \in reported \cup missed \cup pending
    IN /\ Honest(sub, {}) /\ Honest(row.saved, {}) /\ Honest(registering, {})
       /\ \A p \in Proc : Honest(snap[p], found[p])

(* At most one watcher is alive, the registered one, and only an address   *)
(* that is subscribed has one: refreshing, cancelling and subscribing      *)
(* again in every order.  A subscribed address may have none: a copy that  *)
(* a backfill writes back after a cancellation makes it active again, but  *)
(* starts no watcher (subscription_service.go:713), and the poll loop's    *)
(* backfills are all that follows it then.                                 *)
OneLiveWatcher ==
    /\ entry # 0 => Present /\ entry \notin cancelled
    /\ \A g \in Gen \ cancelled : ~Idle(g) => entry = g

(* Connector.md:410, on address-subscribe-cancel: once an address is        *)
(* cancelled, and nobody works on a copy of its subscription any more, it   *)
(* stays cancelled in memory and in MySQL until it is subscribed again; a   *)
(* poll that listed it before does not bring it back.  A backfill that had  *)
(* copied it does (subscription_service.go:713).                           *)
CancelIsFinal ==
    [][ended /\ ~Present /\ row.status = "CANCELLED" /\ registering = Absent
         /\ (\A p \in Proc : snap[p] = Absent)
       => ~ended' \/ (sub' = Absent /\ row'.status = "CANCELLED")]_vars

(* Whatever lands on a tracked account is reported, unless the account is  *)
(* started again, later than that, or no longer tracked.                   *)
EveryTransactionReported ==
    \A a \in Account, s \in Slot \ {1} :
        a \in sub.tracked /\ a \in touched[s] /\ s > base[a]
            ~> s \in reported \cup missed \/ s <= base[a] \/ a \notin sub.tracked

=============================================================================
