----------------------- MODULE AddressTrackingProofs -----------------------
(***************************************************************************)
(* The invariants of an address subscription for every set of accounts and *)
(* any number of watchers, slots and backfills: its types, that at most    *)
(* one of its watchers is alive, and that no checkpoint passes a           *)
(* transaction that was not reported, though everybody works on copies.    *)
(***************************************************************************)
EXTENDS AddressTracking, WellFoundedInduction, TLAPS

(* The smallest of a set of numbers, and the largest of a bounded one.     *)
LEMMA LeastExists ==
    ASSUME NEW S, S \subseteq Nat, S # {}
    PROVE  \E x \in S : \A y \in S : x <= y
<1>1. PICK x \in S : \A y \in S : ~ (<<y, x>> \in OpToRel(<, Nat))
  BY NatLessThanWellFounded, WFMin
<1>2. \A y \in S : ~ (y < x)
  BY <1>1 DEF OpToRel
<1> QED
  BY <1>2

LEMMA MinFacts ==
    ASSUME NEW S, S \subseteq Nat, S # {}
    PROVE  Min(S) \in S
  BY LeastExists DEF Min

LEMMA MaxFacts ==
    ASSUME NEW S, NEW n \in Nat, S \subseteq 0 .. n, S # {}
    PROVE  Max(S) \in S /\ \A x \in S : x <= Max(S)
<1> DEFINE T == {n - x : x \in S}
<1>1. PICK t \in T : \A u \in T : t <= u
  <2>1. \A x \in S : n - x \in Nat
    OBVIOUS
  <2>2. T \subseteq Nat /\ T # {}
    BY <2>1
  <2> HIDE DEF T
  <2> QED
    BY <2>2, LeastExists
<1>2. PICK x \in S : t = n - x
  OBVIOUS
<1>3. \A y \in S : x >= y
  <2>1. \A y \in S : n - y \in T
    OBVIOUS
  <2> HIDE DEF T
  <2> QED
    BY <1>1, <1>2, <2>1
<1> QED
  BY <1>3 DEF Max

-----------------------------------------------------------------------------
(* Types.                                                                  *)

LEMMA ProcFacts ==
    /\ Poller \in Proc /\ Worker \subseteq Proc /\ Poller \notin Worker
    /\ \A g \in Gen : <<g, Main>> \in Worker
    /\ \A g \in Gen, a \in Account : <<g, a>> \in Worker
    /\ \A p \in Proc : p = Poller \/ (p \in Worker /\ p[1] \in Gen
                                      /\ (p[2] = Main \/ p[2] \in Account))
  BY ConstantAssumption DEF Proc, Worker

(* What a backfill fetches has a checkpoint that was started.              *)
FetchSet(p) == pc[p] = "fetch" => \A a \in scope[p] : snap[p].at[a] > 0

TrackType == TypeOK /\ \A p \in Proc : FetchSet(p)

(* The part of the type invariant that is about the processes' own state.  *)
WorkType ==
    /\ pc \in [Proc -> Point]
    /\ snap \in [Proc -> Subscription] /\ scope \in [Proc -> SUBSET Account]
    /\ latest \in [Proc -> 0 .. MaxSlot] /\ found \in [Proc -> SUBSET Slot]

LEMMA AbsentType == Absent \in Subscription
  BY ConstantAssumption DEF Absent, Subscription, Checkpoint

LEMMA EventType ==
    ASSUME events \in 0 .. MaxEvents, NEW e, Event(e) PROVE events' \in 0 .. MaxEvents
  BY ConstantAssumption DEF Event

LEMMA GotoType ==
    ASSUME pc \in [Proc -> Point], NEW p \in Proc, NEW point \in Point, Goto(p, point)
    PROVE  /\ pc' \in [Proc -> Point] /\ pc'[p] = point
           /\ \A q \in Proc \ {p} : pc'[q] = pc[q]
  BY DEF Goto

LEMMA ReconcileType ==
    ASSUME tokens \subseteq Account, NEW s \in Subscription
    PROVE  /\ reconcileAddressTargetsLocked(s) \in Subscription
           /\ reconcileAddressTargetsLocked(s).tracked # {}
           /\ \A a \in Account :
                \/ reconcileAddressTargetsLocked(s).at[a] \in {-1, 0}
                \/ reconcileAddressTargetsLocked(s).at[a] = s.at[a]
  BY ConstantAssumption
     DEF reconcileAddressTargetsLocked, deriveTrackedAccounts, Subscription, Checkpoint

LEMMA KeepType ==
    ASSUME sub \in Subscription, first \in [Account -> 0 .. MaxSlot],
           NEW s \in Subscription, Keep(s)
    PROVE  sub' \in Subscription /\ sub' = s /\ first' \in [Account -> 0 .. MaxSlot]
<1>1. \A a \in Account : s.at[a] \in -1 .. MaxSlot
  BY DEF Subscription, Checkpoint
<1> QED
  BY <1>1, ConstantAssumption DEF Keep

(* The end of a backfill.                                                  *)
LEMMA EndType ==
    ASSUME WorkType, NEW p \in Proc, NEW ok \in BOOLEAN, End(p, ok)
    PROVE  /\ WorkType'
           /\ snap' = [snap EXCEPT ![p] = Absent] /\ found' = [found EXCEPT ![p] = {}]
           /\ pc'[p] \in {"idle", "listen", "dial"}
           /\ \A q \in Proc : pc'[q] \in {pc[q], "idle", "listen", "dial"}
           /\ \A q \in Proc : pc[q] = "idle" /\ pc'[q] # "idle" =>
                  p # Poller /\ q # Poller /\ q[1] = p[1]
<1>1. /\ snap' \in [Proc -> Subscription] /\ scope' \in [Proc -> SUBSET Account]
      /\ latest' \in [Proc -> 0 .. MaxSlot] /\ found' \in [Proc -> SUBSET Slot]
  BY AbsentType, ConstantAssumption DEF End, WorkType
<1>2. \A q \in Proc : pc'[q] \in {pc[q], "idle", "listen", "dial"}
  BY DEF End
<1>3. pc' \in [Proc -> Point]
  <2>1. DOMAIN pc' = Proc /\ pc' = [q \in Proc |-> pc'[q]]
    BY DEF End
  <2>2. \A q \in Proc : pc'[q] \in Point
    BY <1>2 DEF WorkType, Point
  <2> QED
    BY <2>1, <2>2
<1>4. pc'[p] \in {"idle", "listen", "dial"}
  BY DEF End
<1>5. \A q \in Proc : pc[q] = "idle" /\ pc'[q] # "idle" =>
          (q # p => p # Poller /\ q # Poller /\ q[1] = p[1])
  BY DEF End
<1>6. pc[p] = "idle" /\ pc'[p] # "idle" => p # Poller
  BY DEF End
<1> QED
  BY <1>1, <1>2, <1>3, <1>4, <1>5, <1>6 DEF End, WorkType

LEMMA FetchKept ==
    ASSUME \A p \in Proc : FetchSet(p), UNCHANGED <<snap, scope>>,
           \A p \in Proc : pc'[p] = "fetch" => pc[p] = "fetch"
    PROVE  \A p \in Proc : FetchSet(p)'
  BY DEF FetchSet

LEMMA EndFetch ==
    ASSUME WorkType, \A p \in Proc : FetchSet(p), NEW p \in Proc, NEW ok \in BOOLEAN, End(p, ok)
    PROVE  \A q \in Proc : FetchSet(q)'
<1> SUFFICES ASSUME NEW q \in Proc, pc'[q] = "fetch" PROVE \A a \in scope'[q] : snap'[q].at[a] > 0
  BY DEF FetchSet
<1>1. pc[q] = "fetch" /\ q # p
  BY EndType
<1>2. snap'[q] = snap[q] /\ scope'[q] = scope[q]
  BY <1>1 DEF End, WorkType
<1> QED
  BY <1>1, <1>2 DEF FetchSet

(* A step of the API, the chain or the poll's start.                       *)
LEMMA TrackTypeApi ==
    ASSUME TrackType, RegisterMem \/ RegisterStore \/ CancelStore \/ CancelMem
    PROVE  TrackType'
<1>1. CASE RegisterMem
  <2> DEFINE s == reconcileAddressTargetsLocked(sub)
  <2>1. s \in Subscription
    BY ReconcileType DEF TrackType, TypeOK
  <2>2. sub' \in Subscription /\ first' \in [Account -> 0 .. MaxSlot]
    BY <1>1, <2>1, KeepType DEF RegisterMem, TrackType, TypeOK
  <2>3. registering' \in Subscription
    BY <1>1, <2>1 DEF RegisterMem
  <2>4. events' \in 0 .. MaxEvents
    BY <1>1, EventType DEF RegisterMem, TrackType, TypeOK
  <2>5. /\ entry' \in 0 .. MaxGen /\ cancelled' \subseteq Gen /\ pc' \in [Proc -> Point]
        /\ \A p \in Proc : pc'[p] = "fetch" => pc[p] = "fetch"
    <3>1. CASE UNCHANGED <<entry, cancelled, pc>>
      BY <3>1 DEF TrackType, TypeOK
    <3>2. CASE \E g \in Gen : StartWatcher(g) /\ cancelled' = cancelled \ {g}
      <4>1. PICK g \in Gen : StartWatcher(g) /\ cancelled' = cancelled \ {g}
        BY <3>2
      <4>2. <<g, Main>> \in Proc
        BY ProcFacts
      <4>3. "start" \in Point
        BY DEF Point
      <4> QED
        BY <4>1, <4>2, <4>3, GotoType, ConstantAssumption
           DEF StartWatcher, TrackType, TypeOK, Gen
    <3> QED
      BY <1>1, <3>1, <3>2 DEF RegisterMem
  <2>6. \A p \in Proc : FetchSet(p)'
    BY <1>1, <2>5, FetchKept DEF RegisterMem, TrackType, workVars
  <2> QED
    BY <1>1, <2>2, <2>3, <2>4, <2>5, <2>6
       DEF RegisterMem, TrackType, TypeOK, chainVars, workVars, logVars
<1>2. CASE RegisterStore
  BY <1>2, AbsentType, EventType
     DEF RegisterStore, Store, TrackType, TypeOK, FetchSet, chainVars, workVars, watchVars, logVars
<1>3. CASE CancelStore
  <2>1. row' \in [status: {"none", "ACTIVE", "CANCELLED"}, saved: Subscription]
    BY <1>3 DEF CancelStore, TrackType, TypeOK
  <2>2. cancelling' \in BOOLEAN /\ events' \in 0 .. MaxEvents
    BY <1>3, EventType DEF CancelStore, TrackType, TypeOK
  <2>3. \A p \in Proc : FetchSet(p)'
    BY <1>3, FetchKept DEF CancelStore, TrackType, workVars
  <2>4. UNCHANGED <<chainVars, sub, registering, pc, workVars, watchVars, logVars,
                    base, first, ended>>
    BY <1>3 DEF CancelStore
  <2>5. TypeOK'
    BY <2>1, <2>2, <2>4 DEF TrackType, TypeOK, chainVars, workVars, watchVars, logVars
  <2> QED
    BY <2>3, <2>5 DEF TrackType
<1>4. CASE CancelMem
  <2>1. entry' \in 0 .. MaxGen /\ cancelled' \subseteq Gen
    BY <1>4, ConstantAssumption DEF CancelMem, TrackType, TypeOK, Gen
  <2>2. first' \in [Account -> 0 .. MaxSlot]
    BY <1>4, ConstantAssumption DEF CancelMem
  <2>3. \A p \in Proc : FetchSet(p)'
    BY <1>4, FetchKept DEF CancelMem, TrackType, workVars
  <2>4. UNCHANGED <<chainVars, row, registering, pc, workVars, seen, wanted, logVars,
                    base, events>>
    BY <1>4 DEF CancelMem
  <2>5. sub' = Absent /\ cancelling' = FALSE /\ ended' = TRUE
    BY <1>4 DEF CancelMem
  <2>6. TypeOK'
    BY <2>1, <2>2, <2>4, <2>5, AbsentType DEF TrackType, TypeOK, chainVars, workVars, logVars
  <2> QED
    BY <2>3, <2>6 DEF TrackType
<1> QED
  BY <1>1, <1>2, <1>3, <1>4

LEMMA TrackTypePoll ==
    ASSUME TrackType, pollAddressSubscriptions PROVE TrackType'
<1>0. Poller \in Proc /\ WorkType /\ {"poll", "refresh", "read", "start"} \subseteq Point
  BY ProcFacts DEF TrackType, TypeOK, WorkType, Point
<1>1. CASE PollStart
  BY <1>0, <1>1, GotoType
     DEF PollStart, TrackType, TypeOK, FetchSet, chainVars, apiVars, workVars, watchVars, logVars
<1>2. CASE RefreshMem
  <2> DEFINE s == reconcileAddressTargetsLocked(sub)
  <2>1. s \in Subscription
    BY ReconcileType DEF TrackType, TypeOK
  <2>2. sub' \in Subscription /\ first' \in [Account -> 0 .. MaxSlot]
    BY <1>2, <2>1, KeepType DEF RefreshMem, TrackType, TypeOK
  <2>3. snap' \in [Proc -> Subscription] /\ \A q \in Proc \ {Poller} : snap'[q] = snap[q]
    <3> HIDE DEF s
    <3>1. snap' = [snap EXCEPT ![Poller] = s]
      BY <1>2 DEF RefreshMem, s
    <3> QED
      BY <1>0, <2>1, <3>1 DEF WorkType
  <2>4. /\ entry' \in 0 .. MaxGen /\ cancelled' \subseteq Gen /\ pc' \in [Proc -> Point]
        /\ \A p \in Proc : pc'[p] = "fetch" => pc[p] = "fetch" /\ p # Poller
    <3>1. CASE Goto(Poller, "refresh") /\ UNCHANGED <<entry, cancelled>>
      BY <1>0, <3>1, GotoType DEF TrackType, TypeOK
    <3>2. CASE \E g \in Gen :
                 /\ cancelled' = (IF entry = 0 THEN cancelled
                                  ELSE cancelled \cup {entry}) \ {g}
                 /\ entry' = g
                 /\ pc' = [pc EXCEPT ![<<g, Main>>] = "start", ![Poller] = "refresh"]
      <4>1. PICK g \in Gen :
                 /\ cancelled' = (IF entry = 0 THEN cancelled
                                  ELSE cancelled \cup {entry}) \ {g}
                 /\ entry' = g
                 /\ pc' = [pc EXCEPT ![<<g, Main>>] = "start", ![Poller] = "refresh"]
        BY <3>2
      <4>2. <<g, Main>> \in Proc
        BY ProcFacts
      <4>3. entry' \in 0 .. MaxGen /\ cancelled' \subseteq Gen
        BY <4>1, ConstantAssumption DEF TrackType, TypeOK, Gen
      <4>4. pc' \in [Proc -> Point] /\ \A p \in Proc : pc'[p] \in {pc[p], "start", "refresh"}
        BY <1>0, <4>1, <4>2 DEF WorkType
      <4>5. pc'[Poller] = "refresh"
        BY <1>0, <4>1 DEF WorkType
      <4> QED
        BY <4>3, <4>4, <4>5
    <3> QED
      BY <1>2, <3>1, <3>2 DEF RefreshMem
  <2>5. \A p \in Proc : FetchSet(p)'
    BY <1>2, <2>3, <2>4 DEF RefreshMem, TrackType, FetchSet
  <2> QED
    BY <1>2, <2>2, <2>3, <2>4, <2>5
       DEF RefreshMem, TrackType, TypeOK, chainVars, apiVars, logVars
<1>3. CASE RefreshGone
  BY <1>0, <1>3, GotoType
     DEF RefreshGone, TrackType, TypeOK, FetchSet, chainVars, apiVars, workVars, watchVars, logVars
<1>4. CASE RefreshStore
  <2>1. CASE Store(snap[Poller]) /\ Goto(Poller, "read") /\ UNCHANGED <<workVars, events>>
    <3>1. row' \in [status: {"none", "ACTIVE", "CANCELLED"}, saved: Subscription]
      BY <1>0, <2>1 DEF Store, WorkType
    <3>2. pc' \in [Proc -> Point] /\ \A p \in Proc : pc'[p] = "fetch" => pc[p] = "fetch"
      BY <1>0, <2>1, GotoType DEF WorkType
    <3> QED
      BY <1>4, <2>1, <3>1, <3>2, FetchKept
         DEF RefreshStore, TrackType, TypeOK, chainVars, apiVars, workVars, watchVars, logVars
  <2>2. CASE Event("storeFail") /\ End(Poller, FALSE) /\ UNCHANGED row
    <3>1. WorkType' /\ \A p \in Proc : FetchSet(p)'
      BY <1>0, <2>2, EndType, EndFetch DEF TrackType
    <3> QED
      BY <1>4, <2>2, <3>1, EventType
         DEF RefreshStore, TrackType, TypeOK, WorkType, chainVars, apiVars, watchVars, logVars
  <2> QED
    BY <1>4, <2>1, <2>2 DEF RefreshStore
<1> QED
  BY <1>1, <1>2, <1>3, <1>4 DEF pollAddressSubscriptions

LEMMA TrackTypeWatch ==
    ASSUME TrackType,
           NEW g \in Gen,
           \/ MainStart(g)
           \/ \E a \in Account : Dial(g, a) \/ Notified(g, a) \/ Disconnected(g, a)
                                 \/ WatchCancelled(g, a)
    PROVE  TrackType'
<1>0. {"read", "idle", "dial"} \subseteq Point
  BY DEF Point
<1>1. CASE MainStart(g)
  <2>1. <<g, Main>> \in Proc
    BY ProcFacts
  <2>2. pc' \in [Proc -> Point] /\ \A p \in Proc : pc'[p] = "fetch" => pc[p] = "fetch"
    BY <1>0, <1>1, <2>1, GotoType DEF MainStart, TrackType, TypeOK
  <2>3. wanted' \in [Gen -> SUBSET Account]
    BY <1>1 DEF MainStart, TrackType, TypeOK, Subscription
  <2>4. \A p \in Proc : FetchSet(p)'
    BY <1>1, <2>2, FetchKept DEF MainStart, TrackType, workVars
  <2> QED
    BY <1>1, <2>2, <2>3, <2>4
       DEF MainStart, TrackType, TypeOK, chainVars, apiVars, workVars, logVars
<1>2. ASSUME NEW a \in Account,
             Dial(g, a) \/ Notified(g, a) \/ Disconnected(g, a) \/ WatchCancelled(g, a)
      PROVE  TrackType'
  <2>1. <<g, a>> \in Proc /\ <<g, a>> \in Worker
    BY ProcFacts
  <2>2. pc' \in [Proc -> Point] /\ \A p \in Proc : pc'[p] = "fetch" => pc[p] = "fetch"
    BY <1>0, <1>2, <2>1, GotoType
       DEF Dial, Notified, Disconnected, WatchCancelled, TrackType, TypeOK
  <2>3. \A p \in Proc : FetchSet(p)'
    BY <1>2, <2>2, FetchKept
       DEF Dial, Notified, Disconnected, WatchCancelled, TrackType, workVars
  <2>4. CASE Dial(g, a)
    <3>1. seen' \in [Worker -> 0 .. MaxSlot]
      BY <2>1, <2>4, ConstantAssumption DEF Dial, TrackType, TypeOK, Slot
    <3> QED
      BY <2>2, <2>3, <2>4, <3>1
         DEF Dial, TrackType, TypeOK, chainVars, apiVars, workVars, logVars
  <2>5. CASE Notified(g, a)
    <3>0. PICK s \in seen[<<g, a>>] + 1 .. head : seen' = [seen EXCEPT ![<<g, a>>] = s]
      BY <2>5 DEF Notified
    <3>1. seen[<<g, a>>] \in 0 .. MaxSlot
      BY <2>1 DEF TrackType, TypeOK
    <3>2. s \in 0 .. MaxSlot
      BY <3>0, <3>1, ConstantAssumption DEF TrackType, TypeOK, Slot
    <3>3. seen' \in [Worker -> 0 .. MaxSlot]
      BY <3>0, <3>2 DEF TrackType, TypeOK
    <3> QED
      BY <2>2, <2>3, <2>5, <3>3
         DEF Notified, TrackType, TypeOK, chainVars, apiVars, workVars, logVars
  <2>6. CASE Disconnected(g, a)
    BY <2>2, <2>3, <2>6, EventType
       DEF Disconnected, TrackType, TypeOK, chainVars, apiVars, workVars, watchVars, logVars
  <2>7. CASE WatchCancelled(g, a)
    BY <2>2, <2>3, <2>7
       DEF WatchCancelled, TrackType, TypeOK, chainVars, apiVars, workVars, watchVars, logVars
  <2> QED
    BY <1>2, <2>4, <2>5, <2>6, <2>7
<1> QED
  BY <1>1, <1>2

(* The slots after a checkpoint that has been started.                     *)
LEMMA SignaturesSet ==
    ASSUME head \in Slot, NEW a, NEW after \in Nat
    PROVE  /\ Signatures(a, after) \subseteq Slot /\ Signatures(a, after) \subseteq 0 .. head
           /\ \A s \in Signatures(a, after) : s > after
           /\ Signatures(a, after) # {} =>
                 /\ Max(Signatures(a, after)) \in Signatures(a, after)
                 /\ \A s \in Signatures(a, after) : s <= Max(Signatures(a, after))
<1>1. head \in Nat /\ head <= MaxSlot /\ MaxSlot \in Nat
  BY ConstantAssumption DEF Slot
<1>2. \A s \in Signatures(a, after) : s \in after + 1 .. head
  BY DEF Signatures
<1>3. /\ Signatures(a, after) \subseteq Slot /\ Signatures(a, after) \subseteq 0 .. head
      /\ \A s \in Signatures(a, after) : s > after
  BY <1>1, <1>2 DEF Slot
<1> QED
  BY <1>1, <1>3, MaxFacts

LEMMA TrackTypeBackfill ==
    ASSUME TrackType, NEW p \in Proc, backfillAddressAccounts(p) PROVE TrackType'
<1>0. WorkType /\ {"latest", "fetch", "save", "saveMem", "report"} \subseteq Point
  BY DEF TrackType, TypeOK, WorkType, Point
(* A backfill that ends leaves the types of what it does not touch.         *)
<1>1. ASSUME NEW ok \in BOOLEAN, End(p, ok) PROVE WorkType' /\ \A q \in Proc : FetchSet(q)'
  BY <1>0, <1>1, EndType, EndFetch DEF TrackType
<1>2. CASE BackfillRead(p)
  <2>1. CASE Present /\ Goto(p, "latest") /\ snap' = [snap EXCEPT ![p] = sub]
             /\ scope' = [scope EXCEPT ![p] = Targets(p, sub)] /\ UNCHANGED <<latest, found>>
    <3>1. Targets(p, sub) \subseteq Account
      BY <2>1, ProcFacts DEF Targets, Present, TrackType, TypeOK, Subscription
    <3>2. pc' \in [Proc -> Point] /\ pc'[p] = "latest" /\ \A q \in Proc \ {p} : pc'[q] = pc[q]
      BY <1>0, <2>1, GotoType DEF WorkType
    <3>3. snap' \in [Proc -> Subscription] /\ scope' \in [Proc -> SUBSET Account]
      BY <2>1, <3>1 DEF TrackType, TypeOK
    <3>4. \A q \in Proc : FetchSet(q)'
      BY <2>1, <3>2 DEF FetchSet, TrackType
    <3> QED
      BY <1>2, <2>1, <3>2, <3>3, <3>4
         DEF BackfillRead, TrackType, TypeOK, chainVars, apiVars, watchVars, logVars
  <2>2. CASE ~Present /\ End(p, TRUE)
    BY <1>1, <1>2, <2>2
       DEF BackfillRead, TrackType, TypeOK, WorkType, chainVars, apiVars, watchVars, logVars
  <2> QED
    BY <1>2, <2>1, <2>2 DEF BackfillRead
<1>3. CASE BackfillLatest(p)
  <2> DEFINE old   == snap[p].at
             unset == {a \in scope[p] : old[a] <= 0}
             new   == [a \in Account |->
                         IF a \notin unset THEN old[a] ELSE IF old[a] = -1 THEN 0 ELSE head]
  <2>1. CASE /\ latest' = [latest EXCEPT ![p] = head]
             /\ snap' = [snap EXCEPT ![p].at = new]
             /\ base' = [a \in Account |->
                           IF a \in unset /\ new[a] > 0 THEN head ELSE base[a]]
             /\ Goto(p, IF unset = {} THEN "fetch" ELSE "save")
             /\ UNCHANGED <<scope, found, events>>
    <3>1. old \in [Account -> Checkpoint]
      BY DEF TrackType, TypeOK, Subscription
    <3>2. new \in [Account -> Checkpoint] /\ head \in 0 .. MaxSlot
      BY <3>1, ConstantAssumption DEF TrackType, TypeOK, Checkpoint, Slot
    <3>3. snap' \in [Proc -> Subscription] /\ snap'[p].at = new
          /\ \A q \in Proc \ {p} : snap'[q] = snap[q]
      <4> HIDE DEF new, unset, old
      <4>1. [snap[p] EXCEPT !.at = new] \in Subscription
        BY <3>2 DEF TrackType, TypeOK, Subscription
      <4>2. snap' = [snap EXCEPT ![p] = [snap[p] EXCEPT !.at = new]]
        BY <2>1
      <4>3. [snap[p] EXCEPT !.at = new].at = new
        BY <3>2 DEF TrackType, TypeOK, Subscription
      <4> QED
        BY <4>1, <4>2, <4>3 DEF TrackType, TypeOK
    <3>4. base' \in [Account -> 0 .. MaxSlot] /\ latest' \in [Proc -> 0 .. MaxSlot]
      <4> HIDE DEF new, unset
      <4> QED
        BY <2>1, <3>2 DEF TrackType, TypeOK
    <3>5. pc' \in [Proc -> Point] /\ (pc'[p] = "fetch" => unset = {})
          /\ \A q \in Proc \ {p} : pc'[q] = pc[q]
      <4> HIDE DEF new, unset
      <4> QED
        BY <1>0, <2>1, GotoType DEF WorkType
    <3>6. unset = {} => \A a \in scope[p] : new[a] > 0
      BY <3>1 DEF TrackType, TypeOK, Checkpoint
    <3>7. \A q \in Proc : FetchSet(q)'
      <4> HIDE DEF new, unset
      <4> QED
        BY <2>1, <3>3, <3>5, <3>6 DEF FetchSet, TrackType
    <3> HIDE DEF new, unset
    <3> QED
      BY <1>3, <2>1, <3>3, <3>4, <3>5, <3>7
         DEF BackfillLatest, TrackType, TypeOK, chainVars, apiVars, watchVars, logVars
  <2>2. CASE Event("rpcFail") /\ End(p, FALSE) /\ UNCHANGED base
    BY <1>1, <1>3, <2>2, EventType
       DEF BackfillLatest, TrackType, TypeOK, WorkType, chainVars, apiVars, watchVars, logVars
  <2> QED
    BY <1>3, <2>1, <2>2 DEF BackfillLatest
<1>4. ASSUME NEW a \in Account, BackfillFetch(p, a) PROVE TrackType'
  <2> DEFINE after == snap[p].at[a]
             new   == IF latest[p] <= after THEN {} ELSE Signatures(a, after)
             to    == IF new # {} THEN Max(new) ELSE IF latest[p] > after THEN latest[p] ELSE after
  <2>0. after \in Slot /\ latest[p] \in 0 .. MaxSlot /\ a \in scope[p]
    <3>1. after \in Checkpoint
      BY DEF TrackType, TypeOK, Subscription
    <3>2. after > 0 /\ a \in scope[p]
      BY <1>4 DEF BackfillFetch, FetchSet, TrackType
    <3>3. latest[p] \in 0 .. MaxSlot
      BY DEF TrackType, TypeOK
    <3> HIDE DEF after
    <3> QED
      BY <3>1, <3>2, <3>3, ConstantAssumption DEF Checkpoint, Slot
  <2>1. CASE /\ found' = [found EXCEPT ![p] = @ \cup new]
             /\ snap' = [snap EXCEPT ![p].at[a] = to]
             /\ scope' = [scope EXCEPT ![p] = @ \ {a}]
             /\ Goto(p, IF scope[p] = {a} THEN "report" ELSE "fetch")
             /\ UNCHANGED <<latest, events>>
    <3>1. new \subseteq Slot /\ to \in Slot
      <4>1. after \in Nat /\ head \in Slot
        BY <2>0 DEF TrackType, TypeOK, Slot
      <4>2. Signatures(a, after) \subseteq Slot
            /\ (Signatures(a, after) # {} => Max(Signatures(a, after)) \in Slot)
        BY <4>1, SignaturesSet
      <4>3. latest[p] > after => latest[p] \in Slot
        BY <2>0, ConstantAssumption DEF Slot
      <4> QED
        BY <2>0, <4>2, <4>3
    <3>2. snap' \in [Proc -> Subscription] /\ \A q \in Proc \ {p} : snap'[q] = snap[q]
      <4> HIDE DEF to, new, after
      <4>1. snap[p] \in Subscription
        BY DEF TrackType, TypeOK
      <4>2. [snap[p] EXCEPT !.at = [@ EXCEPT ![a] = to]] \in Subscription
        BY <3>1, <4>1, ConstantAssumption DEF Subscription, Checkpoint, Slot
      <4>3. snap' = [snap EXCEPT ![p] = [snap[p] EXCEPT !.at = [@ EXCEPT ![a] = to]]]
        BY <2>1
      <4> QED
        BY <4>2, <4>3 DEF TrackType, TypeOK
    <3>3. \A b \in Account \ {a} : snap'[p].at[b] = snap[p].at[b]
      <4> HIDE DEF to, new, after
      <4> QED
        BY <2>1 DEF TrackType, TypeOK, Subscription
    <3> HIDE DEF to, new, after
    <3>4. found' \in [Proc -> SUBSET Slot] /\ scope' \in [Proc -> SUBSET Account]
      BY <2>1, <3>1 DEF TrackType, TypeOK
    <3>5. pc' \in [Proc -> Point] /\ \A q \in Proc : pc'[q] = "fetch" => pc[q] = "fetch"
      <4>1. pc[p] = "fetch"
        BY <1>4 DEF BackfillFetch
      <4> QED
        BY <1>0, <2>1, <4>1, GotoType DEF WorkType
    <3>6. \A q \in Proc : FetchSet(q)'
      BY <2>1, <3>2, <3>3, <3>5 DEF FetchSet, TrackType, TypeOK
    <3> QED
      BY <1>4, <2>1, <3>2, <3>4, <3>5, <3>6
         DEF BackfillFetch, TrackType, TypeOK, chainVars, apiVars, watchVars, logVars
  <2>2. CASE Event("rpcFail") /\ End(p, FALSE)
    BY <1>1, <1>4, <2>2, EventType
       DEF BackfillFetch, TrackType, TypeOK, WorkType, chainVars, apiVars, watchVars, logVars
  <2> QED
    BY <1>4, <2>1, <2>2 DEF BackfillFetch
<1>5. CASE BackfillReport(p)
  <2>1. Min(found[p]) \in Slot
    <3>1. found[p] \subseteq Slot /\ found[p] \subseteq Nat /\ found[p] # {}
      BY <1>5 DEF BackfillReport, TrackType, TypeOK, Slot
    <3> QED
      BY <3>1, MinFacts
  <2>2. reported' \subseteq Slot /\ missed' \subseteq Slot /\ events' \in 0 .. MaxEvents
    BY <1>5, <2>1, EventType DEF BackfillReport, TrackType, TypeOK, logVars
  <2>3. WorkType' /\ \A q \in Proc : FetchSet(q)'
    <3>1. CASE \E ok \in BOOLEAN : End(p, ok)
      BY <1>1, <3>1
    <3>2. CASE found' = [found EXCEPT ![p] = @ \ {Min(@)}] /\ UNCHANGED <<pc, snap, scope, latest>>
      BY <1>0, <3>2, FetchKept DEF WorkType, TrackType
    <3> QED
      BY <1>5, <3>1, <3>2 DEF BackfillReport
  <2> QED
    BY <1>5, <2>2, <2>3
       DEF BackfillReport, TrackType, TypeOK, WorkType, chainVars, apiVars, watchVars
<1>6. CASE SaveStore(p)
  <2>1. CASE Store(snap[p]) /\ Goto(p, "saveMem") /\ UNCHANGED <<workVars, events>>
    <3>1. row' \in [status: {"none", "ACTIVE", "CANCELLED"}, saved: Subscription]
      BY <1>0, <2>1 DEF Store, WorkType
    <3>2. pc' \in [Proc -> Point] /\ \A q \in Proc : pc'[q] = "fetch" => pc[q] = "fetch"
      BY <1>0, <2>1, GotoType DEF WorkType
    <3> QED
      BY <1>6, <2>1, <3>1, <3>2, FetchKept
         DEF SaveStore, TrackType, TypeOK, chainVars, apiVars, workVars, watchVars, logVars
  <2>2. CASE Event("storeFail") /\ End(p, FALSE) /\ UNCHANGED row
    BY <1>1, <1>6, <2>2, EventType
       DEF SaveStore, TrackType, TypeOK, WorkType, chainVars, apiVars, watchVars, logVars
  <2> QED
    BY <1>6, <2>1, <2>2 DEF SaveStore
<1>7. CASE SaveMem(p)
  <2>1. snap[p] \in Subscription
    BY <1>0 DEF WorkType
  <2>2. sub' \in Subscription /\ first' \in [Account -> 0 .. MaxSlot]
    BY <1>7, <2>1, KeepType DEF SaveMem, TrackType, TypeOK
  <2>3. WorkType' /\ \A q \in Proc : FetchSet(q)'
    BY <1>1, <1>7 DEF SaveMem
  <2> QED
    BY <1>7, <2>2, <2>3
       DEF SaveMem, TrackType, TypeOK, WorkType, chainVars, apiVars, watchVars, logVars
<1> QED
  BY <1>2, <1>3, <1>4, <1>5, <1>6, <1>7 DEF backfillAddressAccounts

LEMMA TrackTypeWorld ==
    ASSUME TrackType,
           \/ Crash
           \/ \E accounts \in SUBSET Account : SlotAdvance(accounts)
           \/ \E accounts \in SUBSET (Account \ {Owner}) : TokenChange(accounts)
    PROVE  TrackType'
<1>1. CASE Crash
  <2> DEFINE back == IF row.status = "ACTIVE" THEN row.saved ELSE Absent
  <2>1. back \in Subscription
    BY AbsentType DEF TrackType, TypeOK
  <2>2. sub' \in Subscription /\ first' \in [Account -> 0 .. MaxSlot]
    BY <1>1, <2>1, KeepType DEF Crash, TrackType, TypeOK
  <2> HIDE DEF back
  <2>3. entry' \in 0 .. MaxGen /\ cancelled' \subseteq Gen /\ events' \in 0 .. MaxEvents
    BY <1>1, ConstantAssumption, EventType DEF Crash, TrackType, TypeOK
  <2>4. registering' \in Subscription /\ cancelling' \in BOOLEAN
    BY <1>1, AbsentType DEF Crash
  <2>5. pc' \in [Proc -> Point] /\ \A p \in Proc : pc'[p] # "fetch"
    BY <1>1 DEF Crash, Point
  <2>6. /\ snap' \in [Proc -> Subscription] /\ scope' \in [Proc -> SUBSET Account]
        /\ latest' \in [Proc -> 0 .. MaxSlot] /\ found' \in [Proc -> SUBSET Slot]
        /\ seen' \in [Worker -> 0 .. MaxSlot] /\ wanted' \in [Gen -> SUBSET Account]
    BY <1>1, AbsentType, ConstantAssumption DEF Crash
  <2>7. \A p \in Proc : FetchSet(p)'
    BY <2>5 DEF FetchSet
  <2>8. UNCHANGED <<chainVars, row, logVars, base, ended>>
    BY <1>1 DEF Crash
  <2> QED
    BY <2>2, <2>3, <2>4, <2>5, <2>6, <2>7, <2>8 DEF TrackType, TypeOK, chainVars, logVars
<1>2. ASSUME NEW accounts \in SUBSET Account, SlotAdvance(accounts) PROVE TrackType'
  <2>1. head' \in Slot /\ touched' \in [Slot -> SUBSET Account]
    BY <1>2, ConstantAssumption DEF SlotAdvance, TrackType, TypeOK, Slot
  <2>2. \A p \in Proc : FetchSet(p)'
    BY <1>2, FetchKept DEF SlotAdvance, TrackType, workVars
  <2> QED
    BY <1>2, <2>1, <2>2
       DEF SlotAdvance, TrackType, TypeOK, apiVars, workVars, watchVars, logVars
<1>3. ASSUME NEW accounts \in SUBSET (Account \ {Owner}), TokenChange(accounts) PROVE TrackType'
  <2>1. tokens' \subseteq Account /\ events' \in 0 .. MaxEvents
    BY <1>3, EventType DEF TokenChange, TrackType, TypeOK
  <2>2. \A p \in Proc : FetchSet(p)'
    BY <1>3, FetchKept DEF TokenChange, TrackType, workVars
  <2> QED
    BY <1>3, <2>1, <2>2
       DEF TokenChange, TrackType, TypeOK, apiVars, workVars, watchVars, logVars
<1> QED
  BY <1>1, <1>2, <1>3

LEMMA TrackTypeInit == Init => TrackType
<1> SUFFICES ASSUME Init PROVE TrackType
  OBVIOUS
<1>1. 1 \in Slot /\ 0 \in 0 .. MaxSlot /\ 0 \in 0 .. MaxGen /\ 0 \in 0 .. MaxEvents
  BY ConstantAssumption DEF Slot
<1>2. "idle" \in Point
  BY DEF Point
<1>3. TypeOK
  BY <1>1, <1>2, AbsentType DEF Init, TypeOK
<1>4. \A p \in Proc : FetchSet(p)
  BY DEF Init, FetchSet
<1> QED
  BY <1>3, <1>4 DEF TrackType

LEMMA TrackTypeNext == TrackType /\ [Next]_vars => TrackType'
<1> SUFFICES ASSUME TrackType, [Next]_vars PROVE TrackType'
  OBVIOUS
<1>1. CASE Next
  BY <1>1, TrackTypeApi, TrackTypePoll, TrackTypeWatch, TrackTypeBackfill, TrackTypeWorld DEF Next
<1>2. CASE UNCHANGED vars
  <2>1. UNCHANGED TypeOK
    BY <1>2 DEF TypeOK, vars, chainVars, apiVars, workVars, watchVars, logVars
  <2>2. \A p \in Proc : FetchSet(p)'
    BY <1>2, FetchKept DEF TrackType, vars, workVars
  <2> QED
    BY <2>1, <2>2 DEF TrackType
<1> QED
  BY <1>1, <1>2

(* Every variable keeps its type, and a backfill (backfillAddressAccounts) *)
(* fetches nothing for an account whose checkpoint was not started.        *)
THEOREM TypeCorrect == Spec => []TypeOK
<1>1. TrackType => TypeOK
  BY DEF TrackType
<1> QED
  BY <1>1, TrackTypeInit, TrackTypeNext, PTL DEF Spec

-----------------------------------------------------------------------------
(* One watcher.                                                            *)

(* A copy that may be written back is of an address that is subscribed:    *)
(* what a crash brings back and what a backfill saves has a target.        *)
SnapSet(p) ==
    pc[p] \in {"refresh", "latest", "fetch", "report", "save", "saveMem"} =>
        snap[p].tracked # {}

CopySet ==
    /\ row.saved = Absent \/ row.saved.tracked # {}
    /\ registering = Absent \/ registering.tracked # {}
    /\ \A p \in Proc : SnapSet(p)

WatcherInv == TrackType /\ OneLiveWatcher /\ CopySet

(* A watcher is idle until one of its goroutines starts another.           *)
LEMMA IdleKept ==
    ASSUME \A q \in Worker : pc[q] = "idle" /\ pc'[q] # "idle" =>
               \E x \in Account \cup {Main} : pc[<<q[1], x>>] # "idle"
    PROVE  \A g \in Gen : Idle(g) => Idle(g)'
<1> SUFFICES ASSUME NEW g \in Gen, Idle(g), NEW x \in Account \cup {Main}
             PROVE  pc'[<<g, x>>] = "idle"
  BY DEF Idle
<1>1. <<g, x>> \in Worker
  BY DEF Worker
<1> QED
  BY <1>1 DEF Idle

LEMMA WatcherKept ==
    ASSUME OneLiveWatcher, UNCHANGED <<entry, cancelled>>, Present => Present',
           \A g \in Gen : Idle(g) => Idle(g)'
    PROVE  OneLiveWatcher'
  BY DEF OneLiveWatcher

(* A step of a goroutine of a watcher, or of the poller.                   *)
LEMMA StepIdle ==
    ASSUME pc \in [Proc -> Point], NEW p \in Proc, pc[p] # "idle" \/ p = Poller,
           \A q \in Proc : pc[q] = "idle" /\ pc'[q] # "idle" =>
               q = p \/ (p # Poller /\ q # Poller /\ q[1] = p[1])
    PROVE  \A g \in Gen : Idle(g) => Idle(g)'
<1>1. ASSUME NEW q \in Worker, pc[q] = "idle", pc'[q] # "idle"
      PROVE  \E x \in Account \cup {Main} : pc[<<q[1], x>>] # "idle"
  <2>1. q \in Proc /\ q # Poller
    BY ProcFacts
  <2>2. p # Poller /\ p \in Worker /\ q[1] = p[1]
    BY <1>1, <2>1, ProcFacts
  <2>3. p[2] \in Account \cup {Main} /\ p = <<p[1], p[2]>>
    BY <2>2 DEF Worker
  <2> QED
    BY <2>2, <2>3
<1> QED
  BY <1>1, IdleKept

LEMMA StartWatcherIdle ==
    ASSUME pc \in [Proc -> Point], NEW g \in Gen,
           \A q \in Proc : pc[q] = "idle" /\ pc'[q] # "idle" => q = Poller \/ q = <<g, Main>>
    PROVE  \A h \in Gen \ {g} : Idle(h) => Idle(h)'
<1> SUFFICES ASSUME NEW h \in Gen \ {g}, Idle(h), NEW x \in Account \cup {Main}
             PROVE  pc'[<<h, x>>] = "idle"
  BY DEF Idle
<1>1. <<h, x>> \in Proc /\ <<h, x>> # Poller /\ <<h, x>> # <<g, Main>>
  BY ProcFacts
<1> QED
  BY <1>1 DEF Idle

LEMMA WatcherApi ==
    ASSUME WatcherInv, RegisterMem \/ RegisterStore \/ CancelStore \/ CancelMem
    PROVE  OneLiveWatcher' /\ CopySet'
<1>0. pc \in [Proc -> Point] /\ entry \in 0 .. MaxGen /\ OneLiveWatcher /\ CopySet
  BY DEF WatcherInv, TrackType, TypeOK
<1>1. CASE RegisterMem
  <2> DEFINE s == reconcileAddressTargetsLocked(sub)
  <2>1. s.tracked # {}
    BY ReconcileType DEF WatcherInv, TrackType, TypeOK
  <2>2. Present' /\ registering'.tracked # {}
    BY <1>1, <2>1 DEF RegisterMem, Keep, Present
  <2>3. CASE entry # 0 /\ UNCHANGED <<entry, cancelled, pc>>
    <3>1. \A g \in Gen : Idle(g) => Idle(g)'
      BY <2>3 DEF Idle
    <3>2. \A p \in Proc : SnapSet(p)'
      BY <1>0, <1>1, <2>3 DEF SnapSet, CopySet, RegisterMem, workVars
    <3> QED
      BY <1>0, <1>1, <2>2, <2>3, <3>1, <3>2, WatcherKept DEF CopySet, RegisterMem
  <2>4. CASE entry = 0 /\ \E g \in Gen : StartWatcher(g) /\ cancelled' = cancelled \ {g}
    <3>1. PICK g \in Gen : StartWatcher(g) /\ cancelled' = cancelled \ {g}
      BY <2>4
    <3>2. <<g, Main>> \in Proc /\ "start" \in Point
      BY ProcFacts DEF Point
    <3>3. pc'[<<g, Main>>] = "start" /\ \A q \in Proc \ {<<g, Main>>} : pc'[q] = pc[q]
      BY <1>0, <3>1, <3>2, GotoType DEF StartWatcher
    <3>4. \A h \in Gen \ {g} : Idle(h) => Idle(h)'
      BY <1>0, <3>3, StartWatcherIdle
    <3>5. OneLiveWatcher'
      BY <1>0, <2>2, <2>4, <3>1, <3>4 DEF OneLiveWatcher, StartWatcher, Gen
    <3>6. \A p \in Proc : SnapSet(p)'
      BY <1>0, <1>1, <3>3 DEF SnapSet, CopySet, RegisterMem, workVars
    <3> QED
      BY <1>0, <1>1, <2>2, <3>5, <3>6 DEF CopySet, RegisterMem
  <2> QED
    BY <1>1, <2>3, <2>4 DEF RegisterMem
<1>2. CASE RegisterStore
  <2>1. UNCHANGED <<entry, cancelled, pc, sub, snap>>
    BY <1>2 DEF RegisterStore, watchVars, workVars
  <2>2. OneLiveWatcher' /\ \A p \in Proc : SnapSet(p)'
    BY <1>0, <2>1 DEF OneLiveWatcher, CopySet, SnapSet, Idle, Present
  <2>3. registering' = Absent /\ (row' = row \/ row'.saved = registering) /\ registering # Absent
    BY <1>2 DEF RegisterStore, Store
  <2> QED
    BY <1>0, <2>2, <2>3 DEF CopySet
<1>3. CASE CancelStore
  <2>1. UNCHANGED <<entry, cancelled, pc, sub, snap, registering>>
    BY <1>3 DEF CancelStore, watchVars, workVars
  <2>2. OneLiveWatcher' /\ \A p \in Proc : SnapSet(p)'
    BY <1>0, <2>1 DEF OneLiveWatcher, CopySet, SnapSet, Idle, Present
  <2>3. row'.saved = row.saved
    BY <1>3 DEF CancelStore, WatcherInv, TrackType, TypeOK
  <2> QED
    BY <1>0, <2>1, <2>2, <2>3 DEF CopySet
<1>4. CASE CancelMem
  <2>1. /\ UNCHANGED <<pc, snap, row, registering>> /\ entry' = 0
        /\ cancelled' = IF entry = 0 THEN cancelled ELSE cancelled \cup {entry}
    BY <1>4 DEF CancelMem, workVars
  <2>2. OneLiveWatcher'
    BY <1>0, <2>1 DEF OneLiveWatcher, Idle, Gen
  <2> QED
    BY <1>0, <2>1, <2>2 DEF CopySet, SnapSet
<1> QED
  BY <1>1, <1>2, <1>3, <1>4

(* The end of a backfill, for the watchers and the copies.                 *)
LEMMA WatcherEnd ==
    ASSUME WatcherInv, NEW p \in Proc, pc[p] # "idle", NEW ok \in BOOLEAN, End(p, ok)
    PROVE  /\ \A g \in Gen : Idle(g) => Idle(g)'
           /\ \A q \in Proc : SnapSet(q)'
<1>0. WorkType /\ CopySet /\ pc \in [Proc -> Point]
  BY DEF WatcherInv, TrackType, TypeOK, WorkType
<1>1. \A q \in Proc : pc[q] = "idle" /\ pc'[q] # "idle" =>
          p # Poller /\ q # Poller /\ q[1] = p[1]
  BY <1>0, EndType
<1>2. \A g \in Gen : Idle(g) => Idle(g)'
  BY <1>0, <1>1, StepIdle
<1>3. /\ \A q \in Proc \ {p} : snap'[q] = snap[q]
      /\ \A q \in Proc : pc'[q] \in {pc[q], "idle", "listen", "dial"}
      /\ pc'[p] \in {"idle", "listen", "dial"}
  BY <1>0, EndType DEF WorkType
<1>4. \A q \in Proc : SnapSet(q)'
  BY <1>0, <1>3 DEF CopySet, SnapSet
<1> QED
  BY <1>2, <1>4

LEMMA WatcherPoll ==
    ASSUME WatcherInv, pollAddressSubscriptions PROVE OneLiveWatcher' /\ CopySet'
<1>0. /\ Poller \in Proc /\ pc \in [Proc -> Point] /\ snap \in [Proc -> Subscription]
      /\ entry \in 0 .. MaxGen /\ OneLiveWatcher /\ CopySet
      /\ {"poll", "refresh", "read"} \subseteq Point
  BY ProcFacts DEF WatcherInv, TrackType, TypeOK, Point
<1>1. ASSUME NEW point \in {"poll", "read"}, Goto(Poller, point)
      PROVE  /\ \A g \in Gen : Idle(g) => Idle(g)'
             /\ UNCHANGED snap => \A q \in Proc : SnapSet(q)'
  <2>1. pc'[Poller] = point /\ \A q \in Proc \ {Poller} : pc'[q] = pc[q]
    BY <1>0, <1>1, GotoType
  <2>2. \A g \in Gen : Idle(g) => Idle(g)'
    BY <1>0, <2>1, StepIdle
  <2>3. UNCHANGED snap => \A q \in Proc : SnapSet(q)'
    BY <1>0, <2>1 DEF CopySet, SnapSet
  <2> QED
    BY <2>2, <2>3
<1>2. CASE PollStart
  <2>1. Goto(Poller, "poll") /\ UNCHANGED <<entry, cancelled, sub, row, registering, snap>>
    BY <1>2 DEF PollStart, watchVars, workVars, apiVars
  <2>2. OneLiveWatcher'
    BY <1>0, <1>1, <2>1, WatcherKept DEF Present
  <2> QED
    BY <1>0, <1>1, <2>1, <2>2 DEF CopySet
<1>3. CASE RefreshGone
  <2>1. Goto(Poller, "read") /\ UNCHANGED <<entry, cancelled, sub, row, registering, snap>>
    BY <1>3 DEF RefreshGone, watchVars, workVars, apiVars
  <2>2. OneLiveWatcher'
    BY <1>0, <1>1, <2>1, WatcherKept DEF Present
  <2> QED
    BY <1>0, <1>1, <2>1, <2>2 DEF CopySet
<1>4. CASE RefreshMem
  <2> DEFINE s == reconcileAddressTargetsLocked(sub)
  <2>1. s \in Subscription /\ s.tracked # {}
    BY ReconcileType DEF WatcherInv, TrackType, TypeOK
  <2>2. Present'
    BY <1>4, <2>1 DEF RefreshMem, Keep, Present
  <2>3. snap' = [snap EXCEPT ![Poller] = s] /\ UNCHANGED <<row, registering>>
    BY <1>4 DEF RefreshMem, apiVars
  <2> HIDE DEF s
  <2>4. snap'[Poller].tracked # {} /\ \A q \in Proc \ {Poller} : snap'[q] = snap[q]
    BY <1>0, <2>1, <2>3
  <2>5. CASE Goto(Poller, "refresh") /\ UNCHANGED <<entry, cancelled>>
    <3>1. pc'[Poller] = "refresh" /\ \A q \in Proc \ {Poller} : pc'[q] = pc[q]
      BY <1>0, <2>5, GotoType
    <3>2. \A g \in Gen : Idle(g) => Idle(g)'
      BY <1>0, <3>1, StepIdle
    <3>3. OneLiveWatcher'
      BY <1>0, <2>2, <2>5, <3>2, WatcherKept
    <3> QED
      BY <1>0, <2>3, <2>4, <3>1, <3>3 DEF CopySet, SnapSet
  <2>6. CASE \E g \in Gen :
               /\ Idle(g) /\ g # entry
               /\ cancelled' = (IF entry = 0 THEN cancelled
                                ELSE cancelled \cup {entry}) \ {g}
               /\ entry' = g
               /\ pc' = [pc EXCEPT ![<<g, Main>>] = "start", ![Poller] = "refresh"]
    <3>1. PICK g \in Gen :
               /\ Idle(g) /\ g # entry
               /\ cancelled' = (IF entry = 0 THEN cancelled
                                ELSE cancelled \cup {entry}) \ {g}
               /\ entry' = g
               /\ pc' = [pc EXCEPT ![<<g, Main>>] = "start", ![Poller] = "refresh"]
      BY <2>6
    <3>2. <<g, Main>> \in Proc
      BY ProcFacts
    <3>3. \A q \in Proc \ {Poller, <<g, Main>>} : pc'[q] = pc[q]
      BY <1>0, <3>1, <3>2
    <3>4. \A h \in Gen \ {g} : Idle(h) => Idle(h)'
      BY <1>0, <3>3, StartWatcherIdle
    <3>5. OneLiveWatcher'
      BY <1>0, <2>2, <3>1, <3>4 DEF OneLiveWatcher, Gen
    <3>6. \A q \in Proc : pc'[q] \in {pc[q], "start"} \/ q = Poller
      BY <1>0, <3>1, <3>2, <3>3
    <3> QED
      BY <1>0, <2>3, <2>4, <3>5, <3>6 DEF CopySet, SnapSet
  <2> QED
    BY <1>4, <2>5, <2>6 DEF RefreshMem
<1>5. CASE RefreshStore
  <2>1. pc[Poller] = "refresh" /\ UNCHANGED <<entry, cancelled, sub, registering>>
    BY <1>5 DEF RefreshStore, watchVars, apiVars
  <2>2. CASE Store(snap[Poller]) /\ Goto(Poller, "read") /\ UNCHANGED <<workVars, events>>
    <3>1. row'.saved = snap[Poller] /\ snap[Poller].tracked # {} /\ UNCHANGED snap
      BY <1>0, <2>1, <2>2 DEF Store, CopySet, SnapSet, workVars
    <3>2. OneLiveWatcher'
      BY <1>0, <1>1, <2>1, <2>2, WatcherKept DEF Present
    <3> QED
      BY <1>0, <1>1, <2>1, <2>2, <3>1, <3>2 DEF CopySet
  <2>3. CASE Event("storeFail") /\ End(Poller, FALSE) /\ UNCHANGED row
    <3>1. (\A g \in Gen : Idle(g) => Idle(g)') /\ \A q \in Proc : SnapSet(q)'
      BY <1>0, <2>1, <2>3, WatcherEnd
    <3>2. OneLiveWatcher'
      BY <1>0, <2>1, <3>1, WatcherKept DEF Present
    <3> QED
      BY <1>0, <2>1, <2>3, <3>1, <3>2 DEF CopySet
  <2> QED
    BY <1>5, <2>2, <2>3 DEF RefreshStore
<1> QED
  BY <1>2, <1>3, <1>4, <1>5 DEF pollAddressSubscriptions

LEMMA WatcherWatch ==
    ASSUME WatcherInv,
           NEW g \in Gen,
           \/ MainStart(g)
           \/ \E a \in Account : Dial(g, a) \/ Notified(g, a) \/ Disconnected(g, a)
                                 \/ WatchCancelled(g, a)
    PROVE  OneLiveWatcher' /\ CopySet'
<1>0. pc \in [Proc -> Point] /\ OneLiveWatcher /\ CopySet
  BY DEF WatcherInv, TrackType, TypeOK
<1>1. ASSUME NEW p \in Worker, pc[p] # "idle", NEW point \in {"read", "idle", "dial"},
             Goto(p, point), UNCHANGED <<entry, cancelled, sub, row, registering, snap>>
      PROVE  OneLiveWatcher' /\ CopySet'
  <2>0. p \in Proc /\ point \in Point
    BY ProcFacts DEF Point
  <2>1. pc'[p] = point /\ \A q \in Proc \ {p} : pc'[q] = pc[q]
    BY <1>0, <1>1, <2>0, GotoType
  <2>2. \A h \in Gen : Idle(h) => Idle(h)'
    BY <1>0, <1>1, <2>0, <2>1, StepIdle
  <2>3. OneLiveWatcher'
    BY <1>0, <1>1, <2>2, WatcherKept DEF Present
  <2> QED
    BY <1>0, <1>1, <2>1, <2>3 DEF CopySet, SnapSet
<1>2. CASE MainStart(g)
  <2>1. /\ <<g, Main>> \in Worker /\ pc[<<g, Main>>] # "idle"
        /\ Goto(<<g, Main>>, "read") \/ Goto(<<g, Main>>, "idle")
        /\ UNCHANGED <<entry, cancelled, sub, row, registering, snap>>
    BY <1>2, ProcFacts DEF MainStart, apiVars, workVars
  <2> QED
    BY <1>1, <2>1
<1>3. ASSUME NEW a \in Account,
             Dial(g, a) \/ Notified(g, a) \/ Disconnected(g, a) \/ WatchCancelled(g, a)
      PROVE  OneLiveWatcher' /\ CopySet'
  <2>1. <<g, a>> \in Worker /\ pc[<<g, a>>] # "idle"
    BY <1>3, ProcFacts DEF Dial, Notified, Disconnected, WatchCancelled
  <2>2. /\ Goto(<<g, a>>, "read") \/ Goto(<<g, a>>, "idle") \/ Goto(<<g, a>>, "dial")
        /\ UNCHANGED <<entry, cancelled, sub, row, registering, snap>>
    BY <1>3 DEF Dial, Notified, Disconnected, WatchCancelled, apiVars, workVars, watchVars
  <2> QED
    BY <1>1, <2>1, <2>2
<1> QED
  BY <1>2, <1>3

LEMMA WatcherBackfill ==
    ASSUME WatcherInv, NEW p \in Proc, backfillAddressAccounts(p)
    PROVE  OneLiveWatcher' /\ CopySet'
<1>0. pc \in [Proc -> Point] /\ snap \in [Proc -> Subscription] /\ OneLiveWatcher /\ CopySet
  BY DEF WatcherInv, TrackType, TypeOK
<1>1. pc[p] # "idle" /\ UNCHANGED <<entry, cancelled, registering>>
  BY DEF backfillAddressAccounts, BackfillRead, BackfillLatest, BackfillFetch, BackfillReport,
         SaveStore, SaveMem, watchVars, apiVars
<1>2. Present => Present'
  <2>1. CASE SaveMem(p)
    BY <1>0, <2>1 DEF SaveMem, Keep, Present, CopySet, SnapSet
  <2>2. CASE UNCHANGED sub
    BY <2>2 DEF Present
  <2> QED
    BY <2>1, <2>2 DEF backfillAddressAccounts, BackfillRead, BackfillLatest, BackfillFetch,
                      BackfillReport, SaveStore
(* The steps that move on, those that end.                                  *)
<1>3. ASSUME NEW point \in Point, Goto(p, point),
             snap'[p].tracked # {}, \A q \in Proc \ {p} : snap'[q] = snap[q]
      PROVE  (\A g \in Gen : Idle(g) => Idle(g)') /\ \A q \in Proc : SnapSet(q)'
  <2>1. pc'[p] = point /\ \A q \in Proc \ {p} : pc'[q] = pc[q]
    BY <1>0, <1>3, GotoType
  <2>2. \A h \in Gen : Idle(h) => Idle(h)'
    BY <1>0, <1>1, <2>1, StepIdle
  <2> QED
    BY <1>0, <1>3, <2>1, <2>2 DEF CopySet, SnapSet
<1>4. ASSUME NEW ok \in BOOLEAN, End(p, ok)
      PROVE  (\A g \in Gen : Idle(g) => Idle(g)') /\ \A q \in Proc : SnapSet(q)'
  BY <1>1, <1>4, WatcherEnd
<1>5. pc[p] \in {"latest", "fetch", "report", "save", "saveMem"} => snap[p].tracked # {}
  BY <1>0 DEF CopySet, SnapSet
<1>6. {"latest", "fetch", "save", "saveMem", "report"} \subseteq Point
  BY DEF Point
<1>7. /\ \A g \in Gen : Idle(g) => Idle(g)'
      /\ \A q \in Proc : SnapSet(q)'
  <2>1. CASE BackfillRead(p)
    <3>1. CASE Present /\ Goto(p, "latest") /\ snap' = [snap EXCEPT ![p] = sub]
      BY <1>0, <1>3, <1>6, <3>1 DEF Present
    <3> QED
      BY <1>4, <2>1, <3>1 DEF BackfillRead
  <2>2. CASE BackfillLatest(p)
    <3>1. ASSUME NEW new, snap' = [snap EXCEPT ![p].at = new]
          PROVE  snap'[p].tracked = snap[p].tracked /\ \A q \in Proc \ {p} : snap'[q] = snap[q]
      BY <1>0, <3>1 DEF Subscription
    <3>2. \/ \E new : snap' = [snap EXCEPT ![p].at = new]
              /\ (Goto(p, "fetch") \/ Goto(p, "save"))
          \/ End(p, FALSE)
      <4>1. ASSUME NEW new, NEW unset, snap' = [snap EXCEPT ![p].at = new],
                   Goto(p, IF unset = {} THEN "fetch" ELSE "save")
            PROVE  \E n : snap' = [snap EXCEPT ![p].at = n]
                           /\ (Goto(p, "fetch") \/ Goto(p, "save"))
        <5>1. Goto(p, "fetch") \/ Goto(p, "save")
          BY <4>1
        <5> QED
          BY <4>1, <5>1
      <4> QED
        BY <2>2, <4>1 DEF BackfillLatest
    <3> QED
      BY <1>3, <1>4, <1>5, <1>6, <2>2, <3>1, <3>2 DEF BackfillLatest
  <2>3. ASSUME NEW a \in Account, BackfillFetch(p, a)
        PROVE  /\ \A g \in Gen : Idle(g) => Idle(g)'
               /\ \A q \in Proc : SnapSet(q)'
    <3>1. ASSUME NEW to, snap' = [snap EXCEPT ![p].at[a] = to]
          PROVE  snap'[p].tracked = snap[p].tracked /\ \A q \in Proc \ {p} : snap'[q] = snap[q]
      BY <1>0, <3>1 DEF Subscription
    <3>2. \/ \E to : snap' = [snap EXCEPT ![p].at[a] = to]
              /\ (Goto(p, "fetch") \/ Goto(p, "report"))
          \/ End(p, FALSE)
      <4>1. ASSUME NEW to, snap' = [snap EXCEPT ![p].at[a] = to],
                   Goto(p, IF scope[p] = {a} THEN "report" ELSE "fetch")
            PROVE  \E n : snap' = [snap EXCEPT ![p].at[a] = n]
                           /\ (Goto(p, "fetch") \/ Goto(p, "report"))
        <5>1. Goto(p, "fetch") \/ Goto(p, "report")
          BY <4>1
        <5> QED
          BY <4>1, <5>1
      <4> QED
        BY <2>3, <4>1 DEF BackfillFetch
    <3> QED
      BY <1>3, <1>4, <1>5, <1>6, <2>3, <3>1, <3>2 DEF BackfillFetch
  <2>4. CASE BackfillReport(p)
    <3>1. CASE UNCHANGED <<pc, snap>>
      BY <1>0, <3>1 DEF Idle, CopySet, SnapSet
    <3> QED
      BY <1>4, <2>4, <3>1 DEF BackfillReport
  <2>5. CASE SaveStore(p)
    <3>1. CASE Goto(p, "saveMem") /\ UNCHANGED workVars
      BY <1>3, <1>5, <1>6, <2>5, <3>1 DEF SaveStore, workVars
    <3> QED
      BY <1>4, <2>5, <3>1 DEF SaveStore
  <2>6. CASE SaveMem(p)
    BY <1>4, <2>6 DEF SaveMem
  <2> QED
    BY <2>1, <2>2, <2>3, <2>4, <2>5, <2>6 DEF backfillAddressAccounts
<1>8. OneLiveWatcher'
  BY <1>0, <1>1, <1>2, <1>7, WatcherKept
<1>9. row' = row \/ row'.saved.tracked # {}
  <2>1. CASE SaveStore(p)
    <3>1. snap[p].tracked # {} /\ (row' = row \/ Store(snap[p]))
      BY <1>5, <2>1 DEF SaveStore
    <3> QED
      BY <3>1 DEF Store
  <2> QED
    BY <2>1 DEF backfillAddressAccounts, BackfillRead, BackfillLatest, BackfillFetch,
                BackfillReport, SaveMem
<1> QED
  BY <1>0, <1>1, <1>7, <1>8, <1>9 DEF CopySet

LEMMA WatcherWorld ==
    ASSUME WatcherInv,
           \/ Crash
           \/ \E accounts \in SUBSET Account : SlotAdvance(accounts)
           \/ \E accounts \in SUBSET (Account \ {Owner}) : TokenChange(accounts)
    PROVE  OneLiveWatcher' /\ CopySet'
<1>0. OneLiveWatcher /\ CopySet
  BY DEF WatcherInv
<1>1. CASE Crash
  <2> DEFINE back == IF row.status = "ACTIVE" THEN row.saved ELSE Absent
  <2>1. back # Absent => back.tracked # {}
    BY <1>0 DEF CopySet
  <2>2. sub' = back /\ entry' = (IF back = Absent THEN 0 ELSE 1) /\ cancelled' = {}
        /\ pc' = [p \in Proc |-> IF back # Absent /\ p = <<1, Main>> THEN "start" ELSE "idle"]
        /\ registering' = Absent /\ UNCHANGED row
    BY <1>1 DEF Crash, Keep
  <2> HIDE DEF back
  <2>3. ASSUME NEW g \in Gen, ~ (Idle(g)') PROVE entry' = g
    <3>1. PICK x \in Account \cup {Main} : pc'[<<g, x>>] # "idle"
      BY <2>3 DEF Idle
    <3>2. <<g, x>> \in Proc
      BY ProcFacts
    <3>3. back # Absent /\ <<g, x>> = <<1, Main>>
      BY <2>2, <3>1, <3>2
    <3> QED
      BY <2>2, <3>3
  <2>4. OneLiveWatcher'
    BY <2>1, <2>2, <2>3 DEF OneLiveWatcher, Present
  <2>5. \A p \in Proc : SnapSet(p)'
    BY <2>2 DEF SnapSet
  <2> QED
    BY <1>0, <2>2, <2>4, <2>5 DEF CopySet
<1>2. CASE UNCHANGED <<entry, cancelled, pc, sub, snap, row, registering>>
  BY <1>0, <1>2 DEF OneLiveWatcher, CopySet, SnapSet, Idle, Present
<1> QED
  BY <1>1, <1>2 DEF SlotAdvance, TokenChange, watchVars, workVars, apiVars

(* The watchers' invariant, with what every copy holds, is inductive.      *)
THEOREM WatcherInvariance == Spec => []WatcherInv
<1>1. Init => WatcherInv
  <2> SUFFICES ASSUME Init PROVE WatcherInv
    OBVIOUS
  <2>1. \A g \in Gen : Idle(g)
    <3> SUFFICES ASSUME NEW g \in Gen, NEW x \in Account \cup {Main} PROVE pc[<<g, x>>] = "idle"
      BY DEF Idle
    <3>1. <<g, x>> \in Proc
      BY ProcFacts
    <3> QED
      BY <3>1 DEF Init
  <2>2. OneLiveWatcher
    BY <2>1 DEF Init, OneLiveWatcher
  <2>3. CopySet
    BY DEF Init, CopySet, SnapSet
  <2> QED
    BY <2>2, <2>3, TrackTypeInit DEF WatcherInv
<1>2. WatcherInv /\ [Next]_vars => WatcherInv'
  <2> SUFFICES ASSUME WatcherInv, [Next]_vars PROVE OneLiveWatcher' /\ CopySet'
    BY TrackTypeNext DEF WatcherInv
  <2>1. CASE Next
    BY <2>1, WatcherApi, WatcherPoll, WatcherWatch, WatcherBackfill, WatcherWorld DEF Next
  <2>2. CASE UNCHANGED vars
    BY <2>2 DEF WatcherInv, OneLiveWatcher, CopySet, SnapSet, Idle, Present, vars,
                watchVars, workVars, apiVars
  <2> QED
    BY <2>1, <2>2
<1> QED
  BY <1>1, <1>2, PTL DEF Spec

(* However refreshing, cancelling, subscribing again and restarting        *)
(* interleave (RegisterAddressSubscription, refreshAddressTargets and      *)
(* updateAddressSubscriptionStatus), no watcher of the address is alive    *)
(* but the registered one, and that only while the address is subscribed.  *)
(* A subscribed address may have none: one that a stale copy brought back  *)
(* after a cancellation.                                                   *)
THEOREM SingleWatcher == Spec => []OneLiveWatcher
<1>1. WatcherInv => OneLiveWatcher
  BY DEF WatcherInv
<1> QED
  BY <1>1, WatcherInvariance, PTL

-----------------------------------------------------------------------------
(* A cancelled address.                                                    *)

(* A subscription without a target is none at all: nothing is left of it.  *)
SubSet == Present \/ sub = Absent

(* Cancelled, with no copy and no subscribe call about to save one.        *)
Cancelled ==
    /\ ended /\ ~Present /\ row.status = "CANCELLED" /\ registering = Absent
    /\ \A p \in Proc : snap[p] = Absent

StaysCancelled == ~ended' \/ (sub' = Absent /\ row'.status = "CANCELLED")

(* A process that is about to save a copy holds one.                       *)
LEMMA NoCopyNoSave ==
    ASSUME WatcherInv, Cancelled, NEW p \in Proc
    PROVE  pc[p] \notin {"refresh", "latest", "fetch", "report", "save", "saveMem"}
  BY DEF WatcherInv, CopySet, SnapSet, Cancelled, Absent

(* What memory takes has a target.                                         *)
LEMMA KeepSubSet ==
    ASSUME NEW s, s = Absent \/ s.tracked # {}, Keep(s)
    PROVE  SubSet' /\ sub' = s
  BY DEF Keep, SubSet, Present

(* Subscribing, cancelling and polling.                                    *)
LEMMA CancelApi ==
    ASSUME WatcherInv, SubSet,
           \/ RegisterMem \/ RegisterStore \/ CancelStore \/ CancelMem
           \/ pollAddressSubscriptions
    PROVE  SubSet' /\ (Cancelled => StaysCancelled)
<1> USE DEF WatcherInv, TrackType, TypeOK
<1>0. /\ reconcileAddressTargetsLocked(sub).tracked # {}
      /\ row.status \in {"none", "ACTIVE", "CANCELLED"}
      /\ row = [status |-> row.status, saved |-> row.saved]
  BY ReconcileType
<1>1. CASE RegisterMem
  <2>1. Keep(reconcileAddressTargetsLocked(sub)) /\ ~ended'
    BY <1>1 DEF RegisterMem
  <2> QED
    BY <1>0, <2>1, KeepSubSet DEF StaysCancelled
<1>2. CASE RegisterStore
  BY <1>2 DEF RegisterStore, Cancelled, SubSet, Present
<1>3. CASE CancelStore
  BY <1>0, <1>3 DEF CancelStore, Cancelled, StaysCancelled, SubSet, Present
<1>4. CASE CancelMem
  BY <1>4 DEF CancelMem, Cancelled, StaysCancelled, SubSet, Present
<1>5. CASE pollAddressSubscriptions
  <2>1. CASE PollStart \/ RefreshGone
    BY <2>1 DEF PollStart, RefreshGone, Cancelled, StaysCancelled, SubSet, Present
  <2>2. CASE RefreshMem
    BY <1>0, <2>2, KeepSubSet DEF RefreshMem, Cancelled
  <2>3. CASE RefreshStore
    BY <2>3, NoCopyNoSave, ProcFacts DEF RefreshStore, SubSet, Present
  <2> QED
    BY <1>5, <2>1, <2>2, <2>3 DEF pollAddressSubscriptions
<1> QED
  BY <1>1, <1>2, <1>3, <1>4, <1>5

(* The watchers and their backfills.                                       *)
LEMMA CancelBackfill ==
    ASSUME WatcherInv, SubSet, NEW p \in Proc, backfillAddressAccounts(p)
    PROVE  SubSet' /\ (Cancelled => StaysCancelled)
<1>1. CASE SaveMem(p)
  <2>1. snap[p].tracked # {} /\ Keep(snap[p]) /\ ~Cancelled
    BY <1>1, NoCopyNoSave DEF SaveMem, WatcherInv, CopySet, SnapSet
  <2> QED
    BY <2>1, KeepSubSet
<1>2. CASE SaveStore(p)
  BY <1>2, NoCopyNoSave DEF SaveStore, SubSet, Present
<1>3. CASE \/ BackfillRead(p) \/ BackfillLatest(p) \/ BackfillReport(p)
           \/ \E a \in Account : BackfillFetch(p, a)
  <2>1. sub' = sub /\ row' = row
    BY <1>3 DEF BackfillRead, BackfillLatest, BackfillReport, BackfillFetch
  <2> QED
    BY <2>1 DEF SubSet, Present, Cancelled, StaysCancelled
<1> QED
  BY <1>1, <1>2, <1>3 DEF backfillAddressAccounts

(* A restart, which loads what is ACTIVE, and the rest of the world.       *)
LEMMA CancelWorld ==
    ASSUME WatcherInv, SubSet,
           \/ Crash
           \/ \E g \in Gen : MainStart(g)
           \/ \E g \in Gen, a \in Account : Dial(g, a) \/ Notified(g, a)
                                           \/ Disconnected(g, a) \/ WatchCancelled(g, a)
           \/ \E accounts \in SUBSET Account : SlotAdvance(accounts)
           \/ \E accounts \in SUBSET (Account \ {Owner}) : TokenChange(accounts)
           \/ UNCHANGED vars
    PROVE  SubSet' /\ (Cancelled => StaysCancelled)
<1>1. CASE Crash
  <2>1. row.saved = Absent \/ row.saved.tracked # {}
    BY DEF WatcherInv, CopySet
  <2>2. Keep(IF row.status = "ACTIVE" THEN row.saved ELSE Absent) /\ row' = row
    BY <1>1 DEF Crash
  <2>3. SubSet' /\ sub' = (IF row.status = "ACTIVE" THEN row.saved ELSE Absent)
    BY <2>1, <2>2, KeepSubSet
  <2> QED
    BY <2>2, <2>3 DEF Cancelled, StaysCancelled
<1>2. CASE ~Crash
  <2>1. sub' = sub /\ row' = row
    BY <1>2 DEF MainStart, Dial, Notified, Disconnected, WatchCancelled, SlotAdvance,
                TokenChange, vars
  <2> QED
    BY <2>1 DEF SubSet, Present, Cancelled, StaysCancelled
<1> QED
  BY <1>1, <1>2

(* A cancelled address that nobody works on a copy of is not brought back  *)
(* by a poll that listed it, a watcher that ends or a restart; only a      *)
(* subscribe call does, for any number of goroutines.                      *)
THEOREM CancelStays == Spec => CancelIsFinal
<1>1. WatcherInv /\ SubSet /\ [Next]_vars => SubSet' /\ (Cancelled => StaysCancelled)
  BY CancelApi, CancelBackfill, CancelWorld DEF Next
<1>2. Init => SubSet
  BY DEF Init, SubSet
<1>3. (Cancelled => StaysCancelled)
        <=> (ended /\ ~Present /\ row.status = "CANCELLED" /\ registering = Absent
              /\ (\A p \in Proc : snap[p] = Absent)
             => ~ended' \/ (sub' = Absent /\ row'.status = "CANCELLED"))
  BY DEF Cancelled, StaysCancelled
<1> QED
  BY <1>1, <1>2, <1>3, WatcherInvariance, PTL DEF Spec, CancelIsFinal

-----------------------------------------------------------------------------
(* A watcher starts its goroutines when it has ended its own backfill.     *)

MainFirst ==
    \A g \in Gen : pc[<<g, Main>>] # "idle" => \A a \in Account : pc[<<g, a>>] = "idle"

LEMMA MainKept ==
    ASSUME MainFirst, \A q \in Worker : pc[q] = "idle" => pc'[q] = "idle"
    PROVE  MainFirst'
  BY ProcFacts DEF MainFirst

LEMMA MainGoto ==
    ASSUME MainFirst, pc \in [Proc -> Point], NEW p \in Proc, pc[p] # "idle" \/ p = Poller,
           NEW point \in Point, Goto(p, point)
    PROVE  MainFirst'
<1>1. \A q \in Proc \ {p} : pc'[q] = pc[q]
  BY GotoType
<1>2. \A q \in Worker : pc[q] = "idle" => pc'[q] = "idle"
  BY <1>1, ProcFacts
<1> QED
  BY <1>2, MainKept

LEMMA MainEnd ==
    ASSUME MainFirst, WorkType, NEW p \in Proc, pc[p] # "idle", NEW ok \in BOOLEAN, End(p, ok)
    PROVE  MainFirst'
<1>1. CASE p # Poller /\ p[2] = Main
  <2>1. p \in Worker /\ p = <<p[1], Main>> /\ pc'[p] = "idle"
    BY <1>1, ProcFacts DEF End, Worker
  <2>2. ASSUME NEW g \in Gen, g # p[1], NEW x \in Account \cup {Main}
        PROVE  pc'[<<g, x>>] = pc[<<g, x>>]
    <3>1. <<g, x>> \in Proc /\ <<g, x>> # p /\ <<g, x>>[1] # p[1]
      BY <2>1, <2>2, ProcFacts
    <3> QED
      BY <3>1 DEF End
  <2> QED
    BY <2>1, <2>2 DEF MainFirst
<1>2. CASE ~ (p # Poller /\ p[2] = Main)
  <2>1. \A q \in Proc \ {p} : pc'[q] = pc[q]
    BY <1>2 DEF End
  <2>2. \A q \in Worker : pc[q] = "idle" => pc'[q] = "idle"
    BY <2>1, ProcFacts
  <2> QED
    BY <2>2, MainKept
<1> QED
  BY <1>1, <1>2

LEMMA MainStarted ==
    ASSUME MainFirst, NEW g \in Gen, Idle(g),
           \A q \in Proc : q # Poller /\ q # <<g, Main>> => pc'[q] = pc[q]
    PROVE  MainFirst'
<1>1. ASSUME NEW h \in Gen, NEW a \in Account
      PROVE  pc'[<<h, a>>] = pc[<<h, a>>] /\ (h # g => pc'[<<h, Main>>] = pc[<<h, Main>>])
  <2>1. /\ <<h, a>> \in Proc /\ <<h, a>> # Poller /\ <<h, a>> # <<g, Main>>
        /\ <<h, Main>> \in Proc /\ <<h, Main>> # Poller
    BY ProcFacts, ConstantAssumption
  <2> QED
    BY <2>1
<1> QED
  BY <1>1 DEF MainFirst, Idle

LEMMA MainNext ==
    ASSUME TrackType, MainFirst, Next PROVE MainFirst'
<1>0. WorkType /\ pc \in [Proc -> Point] /\ Poller \in Proc
      /\ {"poll", "refresh", "read", "start", "idle", "dial", "latest", "fetch", "save", "saveMem",
          "report"} \subseteq Point
  BY ProcFacts DEF TrackType, TypeOK, WorkType, Point
<1>1. CASE UNCHANGED pc
  BY <1>1, MainKept
<1>2. CASE RegisterMem
  <2>1. CASE \E g \in Gen : StartWatcher(g)
    <3>1. PICK g \in Gen : StartWatcher(g)
      BY <2>1
    <3>2. <<g, Main>> \in Proc
      BY ProcFacts
    <3>3. \A q \in Proc \ {<<g, Main>>} : pc'[q] = pc[q]
      BY <1>0, <3>1, <3>2, GotoType DEF StartWatcher
    <3> QED
      BY <3>1, <3>3, MainStarted DEF StartWatcher
  <2> QED
    BY <1>1, <1>2, <2>1 DEF RegisterMem
<1>3. CASE pollAddressSubscriptions
  <2>1. CASE \E g \in Gen : Idle(g)
                  /\ pc' = [pc EXCEPT ![<<g, Main>>] = "start", ![Poller] = "refresh"]
    <3>1. PICK g \in Gen : Idle(g)
                  /\ pc' = [pc EXCEPT ![<<g, Main>>] = "start", ![Poller] = "refresh"]
      BY <2>1
    <3>2. <<g, Main>> \in Proc
      BY ProcFacts
    <3>3. \A q \in Proc : q # Poller /\ q # <<g, Main>> => pc'[q] = pc[q]
      BY <1>0, <3>1, <3>2
    <3> QED
      BY <3>1, <3>3, MainStarted
  <2>2. CASE Goto(Poller, "poll") \/ Goto(Poller, "refresh") \/ Goto(Poller, "read")
    BY <1>0, <2>2, MainGoto
  <2>3. CASE RefreshStore /\ End(Poller, FALSE)
    BY <1>0, <2>3, MainEnd DEF RefreshStore
  <2> QED
    BY <1>3, <2>1, <2>2, <2>3
       DEF pollAddressSubscriptions, PollStart, RefreshMem, RefreshGone, RefreshStore
<1>4. ASSUME NEW g \in Gen,
             \/ MainStart(g)
             \/ \E a \in Account : Dial(g, a) \/ Notified(g, a) \/ Disconnected(g, a)
                                   \/ WatchCancelled(g, a)
      PROVE  MainFirst'
  <2>1. \E q \in Proc : pc[q] # "idle"
            /\ (Goto(q, "read") \/ Goto(q, "idle") \/ Goto(q, "dial"))
    BY <1>4, ProcFacts DEF MainStart, Dial, Notified, Disconnected, WatchCancelled
  <2> QED
    BY <1>0, <2>1, MainGoto
<1>5. ASSUME NEW p \in Proc, backfillAddressAccounts(p) PROVE MainFirst'
  <2>1. pc[p] # "idle"
    BY <1>5 DEF backfillAddressAccounts, BackfillRead, BackfillLatest, BackfillFetch,
                BackfillReport, SaveStore, SaveMem
  <2>2. CASE \E ok \in BOOLEAN : End(p, ok)
    BY <1>0, <2>1, <2>2, MainEnd
  <2>3. CASE \E point \in Point : Goto(p, point)
    BY <1>0, <2>1, <2>3, MainGoto
  <2>4. (\E ok \in BOOLEAN : End(p, ok)) \/ (\E point \in Point : Goto(p, point)) \/ UNCHANGED pc
    <3>1. CASE BackfillRead(p)
      BY <1>0, <3>1 DEF BackfillRead
    <3>2. CASE BackfillLatest(p)
      <4>1. ASSUME NEW unset, Goto(p, IF unset = {} THEN "fetch" ELSE "save")
            PROVE  \E point \in Point : Goto(p, point)
        BY <1>0, <4>1
      <4> QED
        BY <3>2, <4>1 DEF BackfillLatest
    <3>3. ASSUME NEW a \in Account, BackfillFetch(p, a)
          PROVE  (\E ok \in BOOLEAN : End(p, ok)) \/ (\E point \in Point : Goto(p, point))
      <4>1. ASSUME Goto(p, IF scope[p] = {a} THEN "report" ELSE "fetch")
            PROVE  \E point \in Point : Goto(p, point)
        BY <1>0, <4>1
      <4> QED
        BY <3>3, <4>1 DEF BackfillFetch
    <3>4. CASE BackfillReport(p)
      BY <3>4 DEF BackfillReport
    <3>5. CASE SaveStore(p)
      BY <1>0, <3>5 DEF SaveStore
    <3>6. CASE SaveMem(p)
      BY <3>6 DEF SaveMem
    <3> QED
      BY <1>5, <3>1, <3>2, <3>3, <3>4, <3>5, <3>6 DEF backfillAddressAccounts
  <2> QED
    BY <1>1, <2>2, <2>3, <2>4
<1>6. CASE Crash
  <2>1. ASSUME NEW g \in Gen, NEW a \in Account PROVE pc'[<<g, a>>] = "idle"
    <3>1. <<g, a>> \in Proc /\ <<g, a>> # <<1, Main>>
      BY ProcFacts, ConstantAssumption
    <3> QED
      BY <1>6, <3>1 DEF Crash
  <2> QED
    BY <2>1 DEF MainFirst
<1> QED
  BY <1>1, <1>2, <1>3, <1>4, <1>5, <1>6
     DEF Next, RegisterStore, CancelStore, CancelMem, SlotAdvance, TokenChange

-----------------------------------------------------------------------------
(* Checkpoints.                                                            *)

(* A copy s of the subscription, whose holder is about to report d, in a   *)
(* world with latest slot h, transactions t, starts b and reports r: its   *)
(* checkpoints are in the past and pass only what is reported.             *)
Covered(s, d, h, t, b, r) ==
    \A a \in Account :
        /\ s.at[a] <= h
        /\ \A slot \in b[a] + 1 .. s.at[a] : a \in t[slot] => slot \in r \cup d

Done == reported \cup missed

CoverInv ==
    /\ Covered(sub, {}, head, touched, base, Done)
    /\ Covered(row.saved, {}, head, touched, base, Done)
    /\ Covered(registering, {}, head, touched, base, Done)
    /\ \A p \in Proc : Covered(snap[p], found[p], head, touched, base, Done)
    /\ \A p \in Proc : latest[p] <= head
    /\ \A p \in Proc : pc[p] \notin {"fetch", "report"} => found[p] = {}

LEMMA CoverInvCovers == CoverInv => CheckpointCoversReported
  BY DEF CoverInv, CheckpointCoversReported, Covered, Done

(* Reports and what is left to report grow.                                *)
LEMMA CoveredMore ==
    ASSUME NEW s, NEW d, NEW h, NEW t, NEW b, NEW r, NEW d2, NEW r2,
           Covered(s, d, h, t, b, r), r \cup d \subseteq r2 \cup d2
    PROVE  Covered(s, d2, h, t, b, r2)
  BY DEF Covered

LEMMA CoveredAbsent ==
    ASSUME NEW d, NEW h \in Slot, NEW t, NEW b \in [Account -> 0 .. MaxSlot], NEW r
    PROVE  Covered(Absent, d, h, t, b, r)
<1>1. \A a \in Account : Absent.at[a] = -1
  BY DEF Absent
<1>2. \A a \in Account : b[a] \in Nat
  BY ConstantAssumption
<1>3. h \in Nat
  BY ConstantAssumption DEF Slot
<1> QED
  BY <1>1, <1>2, <1>3 DEF Covered

(* Targets that come and go keep their checkpoint or have none.            *)
LEMMA CoveredReconcile ==
    ASSUME NEW s \in Subscription, NEW d, NEW h \in Slot, NEW t,
           NEW b \in [Account -> 0 .. MaxSlot], NEW r, tokens \subseteq Account,
           Covered(s, d, h, t, b, r)
    PROVE  Covered(reconcileAddressTargetsLocked(s), d, h, t, b, r)
<1>1. \A a \in Account : b[a] \in Nat
  BY ConstantAssumption
<1>2. h \in Nat
  BY ConstantAssumption DEF Slot
<1>3. \A a \in Account : reconcileAddressTargetsLocked(s).at[a] \in {-1, 0}
                         \/ reconcileAddressTargetsLocked(s).at[a] = s.at[a]
  BY ReconcileType
<1> QED
  BY <1>1, <1>2, <1>3 DEF Covered

(* A new slot is after every checkpoint.                                   *)
LEMMA CoveredAdvance ==
    ASSUME NEW s \in Subscription, NEW d, NEW h \in Slot, NEW t, NEW t2, NEW b, NEW r,
           b \in [Account -> 0 .. MaxSlot],
           \A slot \in 1 .. h : t2[slot] = t[slot],
           Covered(s, d, h, t, b, r)
    PROVE  Covered(s, d, h + 1, t2, b, r)
<1>1. \A a \in Account : b[a] \in Nat /\ s.at[a] \in Int
  BY ConstantAssumption DEF Subscription, Checkpoint
<1>2. h \in Nat
  BY ConstantAssumption DEF Slot
<1> QED
  BY <1>1, <1>2 DEF Covered

(* An account that is started, is started at the latest slot.              *)
LEMMA CoveredStarted ==
    ASSUME NEW s \in Subscription, NEW d, NEW h \in Slot, NEW t, NEW r,
           NEW b \in [Account -> 0 .. MaxSlot], NEW b2,
           \A a \in Account : b2[a] = b[a] \/ b2[a] = h,
           Covered(s, d, h, t, b, r)
    PROVE  Covered(s, d, h, t, b2, r)
<1>1. \A a \in Account : b[a] \in Nat /\ s.at[a] \in Int
  BY ConstantAssumption DEF Subscription, Checkpoint
<1>2. h \in Nat
  BY ConstantAssumption DEF Slot
<1> SUFFICES ASSUME NEW a \in Account
             PROVE  /\ s.at[a] <= h
                    /\ \A slot \in b2[a] + 1 .. s.at[a] : a \in t[slot] => slot \in r \cup d
  BY DEF Covered
<1>3. CASE b2[a] = b[a]
  BY <1>3 DEF Covered
<1>4. CASE b2[a] = h
  BY <1>1, <1>2, <1>4 DEF Covered
<1> QED
  BY <1>3, <1>4

(* A step that changes neither the world nor a copy.                       *)
LEMMA CoverKept ==
    ASSUME CoverInv,
           UNCHANGED <<head, touched, base, reported, missed, sub, row, registering,
                       snap, latest, found>>,
           \A p \in Proc : pc[p] \in {"fetch", "report"} => pc'[p] = pc[p]
    PROVE  CoverInv'
<1>1. UNCHANGED Done
  BY DEF Done
<1> QED
  BY <1>1 DEF CoverInv

(* The end of a backfill drops its copy.                                   *)
LEMMA CoverEnd ==
    ASSUME TrackType, MainFirst, CoverInv,
           NEW p \in Proc, pc[p] # "idle", NEW ok \in BOOLEAN, End(p, ok),
           UNCHANGED <<head, touched, base, reported, missed>>
    PROVE  /\ \A q \in Proc : Covered(snap'[q], found'[q], head', touched', base', Done')
           /\ \A q \in Proc : latest'[q] <= head'
           /\ \A q \in Proc : pc'[q] \notin {"fetch", "report"} => found'[q] = {}
<1>0. WorkType /\ UNCHANGED Done
  BY DEF TrackType, TypeOK, WorkType, Done
<1>1. snap'[p] = Absent /\ found'[p] = {} /\ latest'[p] = 0
  BY <1>0 DEF End, WorkType
<1>2. ASSUME NEW q \in Proc, q # p
      PROVE  snap'[q] = snap[q] /\ found'[q] = found[q] /\ latest'[q] = latest[q]
  BY <1>0, <1>2 DEF End, WorkType
<1>3. ASSUME NEW q \in Proc, pc'[q] \notin {"fetch", "report"} PROVE found'[q] = {}
  <2>1. CASE q = p
    BY <1>1, <2>1
  <2>2. CASE q # p /\ pc[q] \notin {"fetch", "report"}
    BY <1>2, <2>2 DEF CoverInv
  <2>3. CASE q # p /\ pc[q] \in {"fetch", "report"}
    <3>1. p # Poller /\ q # Poller /\ p[2] = Main /\ q[1] = p[1]
      BY <1>3, <2>3 DEF End
    <3>2. p = <<p[1], Main>> /\ p[1] \in Gen /\ q = <<p[1], q[2]>>
          /\ q[2] \in Account \cup {Main}
      BY <3>1, ProcFacts DEF Worker
    <3>3. q[2] \in Account
      BY <2>3, <3>2
    <3>4. pc[q] = "idle"
      BY <3>2, <3>3 DEF MainFirst
    <3> QED
      BY <2>3, <3>4
  <2> QED
    BY <2>1, <2>2, <2>3
<1>4. head \in Slot /\ head \in Nat /\ base \in [Account -> 0 .. MaxSlot]
  BY ConstantAssumption DEF TrackType, TypeOK, Slot
<1>5. Covered(Absent, {}, head, touched, base, Done)
  BY <1>4, CoveredAbsent
<1>6. ASSUME NEW q \in Proc
      PROVE  Covered(snap'[q], found'[q], head', touched', base', Done')
  <2>1. Covered(snap[q], found[q], head, touched, base, Done)
    BY DEF CoverInv
  <2>2. Covered(snap'[q], found'[q], head, touched, base, Done)
    BY <1>1, <1>2, <1>5, <2>1
  <2> QED
    BY <1>0, <2>2
<1>7. ASSUME NEW q \in Proc PROVE latest'[q] <= head'
  BY <1>1, <1>2, <1>4 DEF CoverInv
<1> QED
  BY <1>3, <1>6, <1>7

LEMMA CoverApi ==
    ASSUME TrackType, CoverInv, RegisterMem \/ RegisterStore \/ CancelStore \/ CancelMem
    PROVE  CoverInv'
<1>0. /\ pc \in [Proc -> Point] /\ head \in Slot /\ base \in [Account -> 0 .. MaxSlot]
      /\ sub \in Subscription /\ tokens \subseteq Account /\ WorkType
  BY DEF TrackType, TypeOK, WorkType
<1>1. Covered(Absent, {}, head, touched, base, Done)
  BY <1>0, CoveredAbsent
<1>2. UNCHANGED <<head, touched, base, Done, snap, latest, found>>
  BY DEF RegisterMem, RegisterStore, CancelStore, CancelMem, chainVars, workVars, logVars, Done
<1>3. \A p \in Proc : pc'[p] \notin {"fetch", "report"} => pc[p] \notin {"fetch", "report"}
  <2>1. CASE \E g \in Gen : StartWatcher(g)
    <3>1. PICK g \in Gen : StartWatcher(g)
      BY <2>1
    <3>2. <<g, Main>> \in Proc /\ "start" \in Point /\ pc[<<g, Main>>] = "idle"
      BY <3>1, ProcFacts DEF Point, StartWatcher, Idle
    <3> QED
      BY <1>0, <3>1, <3>2, GotoType DEF StartWatcher
  <2> QED
    BY <2>1 DEF RegisterMem, RegisterStore, CancelStore, CancelMem
<1>4. /\ Covered(sub', {}, head, touched, base, Done)
      /\ Covered(registering', {}, head, touched, base, Done)
      /\ Covered(row'.saved, {}, head, touched, base, Done)
  <2>1. CASE RegisterMem
    <3>1. sub' = reconcileAddressTargetsLocked(sub)
          /\ registering' = reconcileAddressTargetsLocked(sub) /\ row' = row
      BY <2>1 DEF RegisterMem, Keep
    <3>2. Covered(reconcileAddressTargetsLocked(sub), {}, head, touched, base, Done)
      BY <1>0, CoveredReconcile DEF CoverInv
    <3> QED
      BY <3>1, <3>2 DEF CoverInv
  <2>2. CASE RegisterStore
    <3>1. sub' = sub /\ registering' = Absent /\ (row' = row \/ row'.saved = registering)
      BY <2>2 DEF RegisterStore, Store
    <3> QED
      BY <1>1, <3>1 DEF CoverInv
  <2>3. CASE CancelStore
    <3>1. sub' = sub /\ registering' = registering
      BY <2>3 DEF CancelStore
    <3>2. row'.saved = row.saved
      BY <2>3 DEF CancelStore, TrackType, TypeOK
    <3> QED
      BY <3>1, <3>2 DEF CoverInv
  <2>4. CASE CancelMem
    <3>1. sub' = Absent /\ registering' = registering /\ row' = row
      BY <2>4 DEF CancelMem
    <3> QED
      BY <1>1, <3>1 DEF CoverInv
  <2> QED
    BY <2>1, <2>2, <2>3, <2>4
<1> QED
  BY <1>2, <1>3, <1>4 DEF CoverInv

LEMMA CoverPoll ==
    ASSUME TrackType, MainFirst, CoverInv, pollAddressSubscriptions PROVE CoverInv'
<1>0. /\ pc \in [Proc -> Point] /\ head \in Slot /\ base \in [Account -> 0 .. MaxSlot]
      /\ sub \in Subscription /\ tokens \subseteq Account /\ WorkType /\ Poller \in Proc
      /\ {"poll", "refresh", "read"} \subseteq Point
  BY ProcFacts DEF TrackType, TypeOK, WorkType, Point
<1>1. UNCHANGED <<head, touched, base, Done, reported, missed>>
  BY DEF pollAddressSubscriptions, PollStart, RefreshMem, RefreshGone, RefreshStore,
         chainVars, logVars, Done
<1>2. pc[Poller] \notin {"fetch", "report"}
  BY DEF pollAddressSubscriptions, PollStart, RefreshMem, RefreshGone, RefreshStore
<1>3. ASSUME NEW point \in Point, Goto(Poller, point),
             UNCHANGED <<sub, row, registering, snap, latest, found>>
      PROVE  CoverInv'
  <2>1. \A q \in Proc \ {Poller} : pc'[q] = pc[q]
    BY <1>0, <1>3, GotoType
  <2> QED
    BY <1>1, <1>2, <1>3, <2>1, CoverKept
<1>4. CASE PollStart \/ RefreshGone
  BY <1>0, <1>3, <1>4 DEF PollStart, RefreshGone, apiVars, workVars
<1>5. CASE RefreshMem
  <2> DEFINE s == reconcileAddressTargetsLocked(sub)
  <2>1. Covered(s, {}, head, touched, base, Done)
    BY <1>0, CoveredReconcile DEF CoverInv
  <2>2. sub' = s /\ snap' = [snap EXCEPT ![Poller] = s]
        /\ UNCHANGED <<row, registering, latest, found>>
    BY <1>5 DEF RefreshMem, Keep, apiVars
  <2> HIDE DEF s
  <2>3. found[Poller] = {}
    BY <1>0, <1>2 DEF CoverInv
  <2>4. ASSUME NEW q \in Proc PROVE Covered(snap'[q], found'[q], head, touched, base, Done)
    <3>0. snap'[Poller] = s /\ (q # Poller => snap'[q] = snap[q])
      BY <1>0, <2>2 DEF WorkType
    <3>1. CASE q = Poller
      BY <2>1, <2>2, <2>3, <3>0, <3>1
    <3>2. CASE q # Poller
      BY <2>2, <3>0, <3>2 DEF CoverInv
    <3> QED
      BY <3>1, <3>2
  <2>5. ASSUME NEW q \in Proc, pc'[q] \notin {"fetch", "report"} PROVE found'[q] = {}
    <3>1. CASE Goto(Poller, "refresh")
      BY <1>0, <1>2, <2>2, <2>5, <3>1, GotoType DEF CoverInv
    <3>2. CASE \E g \in Gen : Idle(g)
                  /\ pc' = [pc EXCEPT ![<<g, Main>>] = "start", ![Poller] = "refresh"]
      <4>1. PICK g \in Gen : Idle(g)
                  /\ pc' = [pc EXCEPT ![<<g, Main>>] = "start", ![Poller] = "refresh"]
        BY <3>2
      <4>2. <<g, Main>> \in Proc /\ pc[<<g, Main>>] = "idle"
        BY <4>1, ProcFacts DEF Idle
      <4>3. pc[q] \notin {"fetch", "report"}
        BY <1>0, <1>2, <2>5, <4>1, <4>2
      <4> QED
        BY <2>2, <4>3 DEF CoverInv
    <3> QED
      BY <1>5, <3>1, <3>2 DEF RefreshMem
  <2> QED
    BY <1>1, <2>1, <2>2, <2>4, <2>5 DEF CoverInv
<1>6. CASE RefreshStore
  <2>1. CASE Store(snap[Poller]) /\ Goto(Poller, "read") /\ UNCHANGED <<workVars, events>>
    <3>1. pc'[Poller] = "read" /\ \A q \in Proc \ {Poller} : pc'[q] = pc[q]
      BY <1>0, <2>1, GotoType
    <3>2. row'.saved = snap[Poller] /\ found[Poller] = {}
      BY <1>0, <1>2, <2>1 DEF Store, CoverInv
    <3>3. Covered(row'.saved, {}, head, touched, base, Done)
      BY <1>0, <3>2 DEF CoverInv
    <3>4. UNCHANGED <<sub, registering, snap, latest, found>>
      BY <1>6, <2>1 DEF RefreshStore, workVars, apiVars
    <3>5. \A p \in Proc : pc'[p] \notin {"fetch", "report"} => pc[p] \notin {"fetch", "report"}
      BY <1>2, <3>1
    <3> QED
      BY <1>1, <3>3, <3>4, <3>5 DEF CoverInv
  <2>2. CASE Event("storeFail") /\ End(Poller, FALSE) /\ UNCHANGED row
    <3>1. pc[Poller] # "idle" /\ UNCHANGED <<sub, registering>>
      BY <1>6 DEF RefreshStore, apiVars
    <3> QED
      BY <1>0, <1>1, <2>2, <3>1, CoverEnd DEF CoverInv
  <2> QED
    BY <1>6, <2>1, <2>2 DEF RefreshStore
<1> QED
  BY <1>4, <1>5, <1>6 DEF pollAddressSubscriptions

LEMMA CoverWatch ==
    ASSUME TrackType, CoverInv,
           NEW g \in Gen,
           \/ MainStart(g)
           \/ \E a \in Account : Dial(g, a) \/ Notified(g, a) \/ Disconnected(g, a)
                                 \/ WatchCancelled(g, a)
    PROVE  CoverInv'
<1>0. pc \in [Proc -> Point] /\ {"read", "idle", "dial"} \subseteq Point
  BY DEF TrackType, TypeOK, Point
<1>1. PICK q \in Proc : /\ pc[q] \in {"start", "dial", "listen"}
                        /\ Goto(q, "read") \/ Goto(q, "idle") \/ Goto(q, "dial")
  BY ProcFacts DEF MainStart, Dial, Notified, Disconnected, WatchCancelled
<1>2. \A p \in Proc \ {q} : pc'[p] = pc[p]
  BY <1>0, <1>1, GotoType
<1>3. UNCHANGED <<head, touched, base, reported, missed, sub, row, registering,
                  snap, latest, found>>
  BY DEF MainStart, Dial, Notified, Disconnected, WatchCancelled, chainVars, apiVars,
         workVars, logVars
<1> QED
  BY <1>1, <1>2, <1>3, CoverKept

(* What the fetch of one account adds: nothing between the old checkpoint  *)
(* and the new one is left out.                                            *)
LEMMA CoveredFetch ==
    ASSUME NEW s \in Subscription, NEW s2, NEW d, NEW a \in Account, NEW last \in 0 .. MaxSlot,
           NEW after \in Nat, after = s.at[a], last <= head, head \in Slot,
           base \in [Account -> 0 .. MaxSlot],
           NEW new, new = (IF last <= after THEN {} ELSE Signatures(a, after)),
           s2.at[a] = (IF new # {} THEN Max(new) ELSE IF last > after THEN last ELSE after),
           \A b \in Account \ {a} : s2.at[b] = s.at[b],
           NEW r, Covered(s, d, head, touched, base, r)
    PROVE  Covered(s2, d \cup new, head, touched, base, r)
<1>0. head \in Nat /\ \A b \in Account : base[b] \in Nat /\ s.at[b] \in Int
  BY ConstantAssumption DEF Slot, Subscription, Checkpoint
<1> SUFFICES ASSUME NEW b \in Account
             PROVE  /\ s2.at[b] <= head
                    /\ \A slot \in base[b] + 1 .. s2.at[b] :
                          b \in touched[slot] => slot \in r \cup (d \cup new)
  BY DEF Covered
<1>1. CASE b # a
  BY <1>1 DEF Covered
<1>2. CASE b = a /\ new # {}
  <2>1. new = Signatures(a, after)
    BY <1>2
  <2>2. /\ Max(new) \in new /\ new \subseteq 0 .. head
        /\ \A x \in new : x <= Max(new)
    BY <1>2, <2>1, SignaturesSet
  <2>3. s2.at[b] = Max(new) /\ Max(new) <= head /\ Max(new) \in Nat
    BY <1>0, <1>2, <2>2
  <2>4. ASSUME NEW slot \in base[b] + 1 .. s2.at[b], b \in touched[slot]
        PROVE  slot \in r \cup (d \cup new)
    <3>0. slot \in Int /\ slot <= head
      BY <1>0, <2>3, <2>4
    <3>1. CASE slot <= after
      <4>1. slot \in base[b] + 1 .. s.at[b]
        BY <1>0, <1>2, <2>3, <2>4, <3>1
      <4> QED
        BY <2>4, <4>1 DEF Covered
    <3>2. CASE slot > after
      <4>1. slot \in after + 1 .. head
        BY <1>0, <3>0, <3>2
      <4>2. slot \in new
        BY <1>2, <2>1, <2>4, <4>1 DEF Signatures
      <4> QED
        BY <4>2
    <3> QED
      BY <3>0, <3>1, <3>2
  <2> QED
    BY <2>3, <2>4
<1>3. CASE b = a /\ new = {}
  <2>1. s2.at[b] = (IF last > after THEN last ELSE after) /\ after <= head
    BY <1>3 DEF Covered
  <2>2. s2.at[b] <= head /\ s2.at[b] \in Nat
    BY <1>0, <2>1
  <2>3. ASSUME NEW slot \in base[b] + 1 .. s2.at[b], b \in touched[slot]
        PROVE  slot \in r \cup (d \cup new)
    <3>0. slot \in Int /\ slot <= head
      BY <1>0, <2>2, <2>3
    <3>1. CASE slot <= after
      <4>1. slot \in base[b] + 1 .. s.at[b]
        BY <1>0, <1>3, <2>2, <2>3, <3>1
      <4> QED
        BY <2>3, <4>1 DEF Covered
    <3>2. CASE slot > after
      <4>1. last > after /\ new = Signatures(a, after)
        BY <1>0, <2>1, <2>3, <3>0, <3>2
      <4>2. slot \in after + 1 .. head
        BY <1>0, <3>0, <3>2
      <4>3. slot \in new
        BY <1>3, <2>3, <4>1, <4>2 DEF Signatures
      <4> QED
        BY <4>3
    <3> QED
      BY <3>0, <3>1, <3>2
  <2> QED
    BY <2>2, <2>3
<1> QED
  BY <1>1, <1>2, <1>3

LEMMA CoverBackfill ==
    ASSUME TrackType, MainFirst, CoverInv, NEW p \in Proc, backfillAddressAccounts(p)
    PROVE  CoverInv'
<1>0. /\ pc \in [Proc -> Point] /\ head \in Slot /\ base \in [Account -> 0 .. MaxSlot]
      /\ sub \in Subscription /\ WorkType
      /\ {"latest", "fetch", "save", "saveMem", "report"} \subseteq Point
  BY DEF TrackType, TypeOK, WorkType, Point
<1>1. pc[p] # "idle" /\ UNCHANGED <<head, touched, registering>>
  BY DEF backfillAddressAccounts, BackfillRead, BackfillLatest, BackfillFetch, BackfillReport,
         SaveStore, SaveMem, chainVars, apiVars
<1>2. ASSUME NEW ok \in BOOLEAN, End(p, ok), UNCHANGED <<base, reported, missed>>,
             Covered(sub', {}, head, touched, base, Done),
             UNCHANGED row
      PROVE  CoverInv'
  <2>1. UNCHANGED Done
    BY <1>2 DEF Done
  <2> QED
    BY <1>1, <1>2, <2>1, CoverEnd DEF CoverInv
(* A step that changes this backfill's copy only.                           *)
<1>3. ASSUME NEW point \in Point, Goto(p, point), UNCHANGED <<sub, row, base, reported, missed>>,
             \A q \in Proc \ {p} : /\ snap'[q] = snap[q] /\ found'[q] = found[q]
                                   /\ latest'[q] = latest[q],
             Covered(snap'[p], found'[p], head, touched, base, Done), latest'[p] <= head,
             point \notin {"fetch", "report"} => found'[p] = {}
      PROVE  CoverInv'
  <2>1. pc'[p] = point /\ \A q \in Proc \ {p} : pc'[q] = pc[q]
    BY <1>0, <1>3, GotoType
  <2>2. UNCHANGED Done
    BY <1>3 DEF Done
  <2>3. \A q \in Proc : Covered(snap'[q], found'[q], head, touched, base, Done)
    BY <1>3 DEF CoverInv
  <2>4. \A q \in Proc : latest'[q] <= head
    BY <1>3 DEF CoverInv
  <2>5. \A q \in Proc : pc'[q] \notin {"fetch", "report"} => found'[q] = {}
    BY <1>3, <2>1 DEF CoverInv
  <2> QED
    BY <1>1, <1>3, <2>2, <2>3, <2>4, <2>5 DEF CoverInv
<1>4. CASE BackfillRead(p)
  <2>1. UNCHANGED <<sub, row, base, reported, missed>>
    BY <1>4 DEF BackfillRead, logVars
  <2>2. CASE Present /\ Goto(p, "latest") /\ snap' = [snap EXCEPT ![p] = sub]
             /\ UNCHANGED <<latest, found>>
    <3>1. found[p] = {} /\ snap'[p] = sub /\ \A q \in Proc \ {p} : snap'[q] = snap[q]
      BY <1>0, <1>4, <2>2 DEF CoverInv, BackfillRead, WorkType
    <3>2. Covered(snap'[p], found'[p], head, touched, base, Done) /\ latest'[p] <= head
      BY <2>2, <3>1 DEF CoverInv
    <3> QED
      BY <1>0, <1>3, <2>1, <2>2, <3>1, <3>2
  <2>3. CASE End(p, TRUE)
    BY <1>2, <2>1, <2>3 DEF CoverInv
  <2> QED
    BY <1>4, <2>2, <2>3 DEF BackfillRead
<1>5. CASE BackfillReport(p)
  <2>1. CASE End(p, FALSE) /\ UNCHANGED logVars
    BY <1>2, <1>5, <2>1 DEF BackfillReport, CoverInv, logVars
  <2>2. CASE /\ \/ reported' = reported \cup {Min(found[p])} /\ UNCHANGED <<missed, events>>
                \/ Event("notFound") /\ missed' = missed \cup {Min(found[p])}
                   /\ UNCHANGED reported
             /\ found' = [found EXCEPT ![p] = @ \ {Min(@)}]
             /\ UNCHANGED <<pc, snap, scope, latest>>
    <3>1. Done' = Done \cup {Min(found[p])}
      BY <2>2 DEF Done
    <3>2. found'[p] = found[p] \ {Min(found[p])} /\ \A q \in Proc \ {p} : found'[q] = found[q]
      BY <1>0, <2>2 DEF WorkType
    <3>3. UNCHANGED <<sub, row, base>>
      BY <1>5 DEF BackfillReport
    <3>4. ASSUME NEW q \in Proc PROVE Covered(snap'[q], found'[q], head, touched, base, Done')
      <4>1. Done \cup found[q] \subseteq Done' \cup found'[q]
        BY <3>1, <3>2
      <4>2. Covered(snap[q], found[q], head, touched, base, Done)
        BY DEF CoverInv
      <4>3. Covered(snap[q], found'[q], head, touched, base, Done')
        BY <4>1, <4>2, CoveredMore
      <4> QED
        BY <2>2, <4>3
    <3>5. /\ Covered(sub, {}, head, touched, base, Done')
          /\ Covered(row.saved, {}, head, touched, base, Done')
          /\ Covered(registering, {}, head, touched, base, Done')
      <4>1. Done \cup {} \subseteq Done' \cup {}
        BY <3>1
      <4> QED
        BY <4>1, CoveredMore DEF CoverInv
    <3>6. \A q \in Proc : pc'[q] \notin {"fetch", "report"} => found'[q] = {}
      BY <2>2, <3>2 DEF CoverInv
    <3>7. \A q \in Proc : latest'[q] <= head
      BY <2>2 DEF CoverInv
    <3> QED
      BY <1>1, <3>3, <3>4, <3>5, <3>6, <3>7 DEF CoverInv
  <2> QED
    BY <1>5, <2>1, <2>2 DEF BackfillReport
<1>6. CASE SaveStore(p)
  <2>1. UNCHANGED <<sub, base, reported, missed>>
    BY <1>6 DEF SaveStore, logVars
  <2>2. CASE Store(snap[p]) /\ Goto(p, "saveMem") /\ UNCHANGED <<workVars, events>>
    <3>1. found[p] = {}
      BY <1>6 DEF SaveStore, CoverInv
    <3>2. row'.saved = snap[p]
      BY <2>2 DEF Store
    <3>3. Covered(row'.saved, {}, head, touched, base, Done)
      BY <3>1, <3>2 DEF CoverInv
    <3>4. pc'[p] = "saveMem" /\ \A q \in Proc \ {p} : pc'[q] = pc[q]
      BY <1>0, <2>2, GotoType
    <3>5. UNCHANGED <<snap, latest, found, Done>>
      BY <2>1, <2>2 DEF workVars, Done
    <3>6. \A q \in Proc : pc'[q] \notin {"fetch", "report"} => found'[q] = {}
      BY <3>1, <3>4, <3>5 DEF CoverInv
    <3> QED
      BY <1>1, <2>1, <3>3, <3>5, <3>6 DEF CoverInv
  <2>3. CASE End(p, FALSE) /\ UNCHANGED row
    BY <1>2, <2>1, <2>3 DEF CoverInv
  <2> QED
    BY <1>6, <2>2, <2>3 DEF SaveStore
<1>7. CASE SaveMem(p)
  <2>1. found[p] = {} /\ sub' = snap[p]
    BY <1>7 DEF SaveMem, Keep, CoverInv
  <2>2. Covered(sub', {}, head, touched, base, Done)
    BY <2>1 DEF CoverInv
  <2> QED
    BY <1>2, <1>7, <2>2 DEF SaveMem, logVars
<1>8. CASE BackfillLatest(p)
  <2> DEFINE old   == snap[p].at
             unset == {a \in scope[p] : old[a] <= 0}
             new   == [a \in Account |->
                         IF a \notin unset THEN old[a] ELSE IF old[a] = -1 THEN 0 ELSE head]
  <2>1. CASE Event("rpcFail") /\ End(p, FALSE) /\ UNCHANGED base
    BY <1>2, <1>8, <2>1 DEF BackfillLatest, CoverInv, logVars
  <2>2. CASE /\ latest' = [latest EXCEPT ![p] = head]
             /\ snap' = [snap EXCEPT ![p].at = new]
             /\ base' = [a \in Account |->
                           IF a \in unset /\ new[a] > 0 THEN head ELSE base[a]]
             /\ Goto(p, IF unset = {} THEN "fetch" ELSE "save")
             /\ UNCHANGED <<scope, found, events>>
    <3>0. UNCHANGED <<sub, row, Done>> /\ found[p] = {}
      BY <1>8 DEF BackfillLatest, CoverInv, logVars, Done
    <3>1. \A a \in Account : base'[a] = base[a] \/ base'[a] = head
      <4> HIDE DEF new, unset
      <4> QED
        BY <2>2
    <3>2. ASSUME NEW a \in Account
          PROVE  new[a] \in {-1, 0} \/ new[a] = old[a] \/ (new[a] = head /\ base'[a] = head)
      <4>1. head > 0
        BY <1>0, ConstantAssumption DEF Slot
      <4>2. base'[a] = IF a \in unset /\ new[a] > 0 THEN head ELSE base[a]
        <5> HIDE DEF new, unset
        <5> QED
          BY <2>2
      <4>3. new[a] = IF a \notin unset THEN old[a] ELSE IF old[a] = -1 THEN 0 ELSE head
        OBVIOUS
      <4> HIDE DEF new, unset, old
      <4> QED
        BY <4>1, <4>2, <4>3
    <3>3. snap'[p].at = new /\ \A q \in Proc \ {p} : snap'[q] = snap[q]
      <4> HIDE DEF new, unset, old
      <4>1. snap[p] \in Subscription /\ snap' = [snap EXCEPT ![p] = [snap[p] EXCEPT !.at = new]]
        BY <1>0, <2>2 DEF WorkType
      <4> QED
        BY <1>0, <4>1 DEF WorkType, Subscription
    <3>4. latest'[p] = head /\ \A q \in Proc \ {p} : latest'[q] = latest[q]
      BY <1>0, <2>2 DEF WorkType
    <3>5. pc'[p] # "report" /\ \A q \in Proc \ {p} : pc'[q] = pc[q]
      <4>1. ASSUME NEW point \in {"fetch", "save"}, Goto(p, point)
            PROVE  pc'[p] # "report" /\ \A q \in Proc \ {p} : pc'[q] = pc[q]
        BY <1>0, <4>1, GotoType
      <4> HIDE DEF new, unset
      <4>2. Goto(p, "fetch") \/ Goto(p, "save")
        BY <2>2
      <4> QED
        BY <4>1, <4>2
    <3> HIDE DEF new, unset
    <3>6. ASSUME NEW s \in Subscription, NEW d, Covered(s, d, head, touched, base, Done)
          PROVE  Covered(s, d, head, touched, base', Done)
      BY <1>0, <3>1, <3>6, CoveredStarted
    <3>7. Covered(snap'[p], found'[p], head, touched, base', Done)
      <4>1. Covered(snap[p], {}, head, touched, base', Done)
        BY <1>0, <3>0, <3>6 DEF WorkType, CoverInv
      <4>2. \A a \in Account : base'[a] \in Nat
        BY <1>0, <3>1, ConstantAssumption DEF Slot
      <4>3. head \in Nat
        BY <1>0, ConstantAssumption DEF Slot
      <4> HIDE DEF old
      <4>4. ASSUME NEW a \in Account
            PROVE  /\ snap'[p].at[a] <= head
                   /\ \A slot \in base'[a] + 1 .. snap'[p].at[a] :
                         a \in touched[slot] => slot \in Done
        <5>1. CASE new[a] = snap[p].at[a]
          BY <3>3, <4>1, <5>1 DEF Covered
        <5>2. CASE new[a] \in {-1, 0}
          BY <3>3, <4>2, <4>3, <5>2
        <5>3. CASE new[a] = head /\ base'[a] = head
          BY <3>3, <4>2, <4>3, <5>3
        <5> QED
          BY <3>2, <5>1, <5>2, <5>3 DEF old
      <4> QED
        BY <2>2, <3>0, <4>4 DEF Covered
    <3>8. ASSUME NEW q \in Proc PROVE Covered(snap'[q], found'[q], head, touched, base', Done)
      <4>1. CASE q # p
        <5>1. Covered(snap[q], found[q], head, touched, base', Done)
          BY <1>0, <3>6 DEF WorkType, CoverInv
        <5> QED
          BY <2>2, <3>3, <4>1, <5>1
      <4> QED
        BY <3>7, <4>1
    <3>9. /\ Covered(sub, {}, head, touched, base', Done)
          /\ Covered(row.saved, {}, head, touched, base', Done)
          /\ Covered(registering, {}, head, touched, base', Done)
      BY <3>6 DEF CoverInv, TrackType, TypeOK
    <3>10. \A q \in Proc : latest'[q] <= head
      <4>1. head <= head
        BY <1>0, ConstantAssumption DEF Slot
      <4> QED
        BY <3>4, <4>1 DEF CoverInv
    <3>11. \A q \in Proc : pc'[q] \notin {"fetch", "report"} => found'[q] = {}
      BY <2>2, <3>0, <3>5 DEF CoverInv
    <3> QED
      BY <1>1, <3>0, <3>8, <3>9, <3>10, <3>11 DEF CoverInv
  <2> QED
    BY <1>8, <2>1, <2>2 DEF BackfillLatest
<1>9. ASSUME NEW a \in Account, BackfillFetch(p, a) PROVE CoverInv'
  <2> DEFINE after == snap[p].at[a]
             new   == IF latest[p] <= after THEN {} ELSE Signatures(a, after)
             to    == IF new # {} THEN Max(new) ELSE IF latest[p] > after THEN latest[p] ELSE after
  <2>0. UNCHANGED <<sub, row, base, reported, missed>>
    BY <1>9 DEF BackfillFetch, logVars
  <2>1. CASE End(p, FALSE)
    BY <1>2, <1>9, <2>0, <2>1 DEF CoverInv
  <2>2. CASE /\ found' = [found EXCEPT ![p] = @ \cup new]
             /\ snap' = [snap EXCEPT ![p].at[a] = to]
             /\ Goto(p, IF scope[p] = {a} THEN "report" ELSE "fetch")
             /\ UNCHANGED latest
    <3>1. snap[p] \in Subscription /\ latest[p] \in 0 .. MaxSlot /\ latest[p] <= head
      BY <1>0 DEF WorkType, CoverInv
    <3>2. after \in Nat
      <4>1. after \in Checkpoint /\ after > 0
        BY <1>9, <3>1 DEF Subscription, BackfillFetch, TrackType, FetchSet
      <4> HIDE DEF after
      <4> QED
        BY <4>1, ConstantAssumption DEF Checkpoint
    <3>3. /\ snap'[p].at[a] = to /\ \A b \in Account \ {a} : snap'[p].at[b] = snap[p].at[b]
          /\ \A q \in Proc \ {p} : snap'[q] = snap[q]
      <4> HIDE DEF to, new, after
      <4>1. snap' = [snap EXCEPT ![p] = [snap[p] EXCEPT !.at = [@ EXCEPT ![a] = to]]]
        BY <2>2
      <4> QED
        BY <1>0, <3>1, <4>1 DEF WorkType, Subscription
    <3>4. found'[p] = found[p] \cup new /\ \A q \in Proc \ {p} : found'[q] = found[q]
      <4> HIDE DEF to, new
      <4> QED
        BY <1>0, <2>2 DEF WorkType
    <3>5. Covered(snap[p], found[p], head, touched, base, Done)
      BY DEF CoverInv
    <3>6. Covered(snap'[p], found[p] \cup new, head, touched, base, Done)
      BY <1>0, <3>1, <3>2, <3>3, <3>5, CoveredFetch
    <3>7. \E point \in {"fetch", "report"} : Goto(p, point)
      <4> HIDE DEF to, new
      <4> QED
        BY <2>2
    <3> HIDE DEF to, new, after
    <3> QED
      BY <1>0, <1>3, <2>0, <2>2, <3>1, <3>3, <3>4, <3>6, <3>7
  <2> QED
    BY <1>9, <2>1, <2>2 DEF BackfillFetch
<1> QED
  BY <1>4, <1>5, <1>6, <1>7, <1>8, <1>9 DEF backfillAddressAccounts

LEMMA CoverWorld ==
    ASSUME TrackType, CoverInv,
           \/ Crash
           \/ \E accounts \in SUBSET Account : SlotAdvance(accounts)
           \/ \E accounts \in SUBSET (Account \ {Owner}) : TokenChange(accounts)
    PROVE  CoverInv'
<1>0. head \in Slot /\ head \in Nat /\ base \in [Account -> 0 .. MaxSlot]
      /\ sub \in Subscription /\ row.saved \in Subscription /\ registering \in Subscription
      /\ snap \in [Proc -> Subscription]
      /\ latest \in [Proc -> 0 .. MaxSlot] /\ touched \in [Slot -> SUBSET Account]
  BY ConstantAssumption DEF TrackType, TypeOK, Slot
<1>1. CASE Crash
  <2>1. Covered(Absent, {}, head, touched, base, Done)
    BY <1>0, CoveredAbsent
  <2>2. sub' \in {row.saved, Absent} /\ registering' = Absent
        /\ UNCHANGED <<row, head, touched, base, Done>>
    BY <1>1 DEF Crash, Keep, chainVars, logVars, Done
  <2>3. \A p \in Proc : snap'[p] = Absent /\ latest'[p] = 0 /\ found'[p] = {}
    BY <1>1 DEF Crash
  <2>4. ASSUME NEW p \in Proc
        PROVE  /\ Covered(snap'[p], found'[p], head, touched, base, Done)
               /\ latest'[p] <= head /\ found'[p] = {}
    <3>1. snap'[p] = Absent /\ latest'[p] = 0 /\ found'[p] = {}
      BY <2>3
    <3>2. Covered(snap'[p], found'[p], head, touched, base, Done)
      BY <2>1, <3>1
    <3> QED
      BY <1>0, <3>1, <3>2
  <2>5. Covered(sub', {}, head, touched, base, Done) /\ Covered(registering', {}, head, touched, base, Done)
    BY <2>1, <2>2 DEF CoverInv
  <2> QED
    BY <2>2, <2>4, <2>5 DEF CoverInv
<1>2. ASSUME NEW accounts \in SUBSET Account, SlotAdvance(accounts) PROVE CoverInv'
  <2>1. head' = head + 1 /\ \A slot \in 1 .. head : touched'[slot] = touched[slot]
    <3>1. head' = head + 1 /\ touched' = [touched EXCEPT ![head + 1] = accounts]
      BY <1>2 DEF SlotAdvance
    <3>2. \A slot \in 1 .. head : slot \in Slot /\ slot # head + 1
      BY <1>0, ConstantAssumption DEF Slot
    <3> QED
      BY <1>0, <3>1, <3>2
  <2>2. UNCHANGED <<base, Done, sub, row, registering, pc, snap, latest, found>>
    BY <1>2 DEF SlotAdvance, apiVars, workVars, logVars, Done
  <2>3. ASSUME NEW s \in Subscription, NEW d, Covered(s, d, head, touched, base, Done)
        PROVE  Covered(s, d, head', touched', base, Done)
    BY <1>0, <2>1, <2>3, CoveredAdvance
  <2>4. ASSUME NEW p \in Proc
        PROVE  Covered(snap[p], found[p], head', touched', base, Done) /\ latest[p] <= head'
    BY <1>0, <2>1, <2>3 DEF CoverInv
  <2>5. /\ Covered(sub, {}, head', touched', base, Done)
        /\ Covered(row.saved, {}, head', touched', base, Done)
        /\ Covered(registering, {}, head', touched', base, Done)
    BY <1>0, <2>3 DEF CoverInv
  <2> QED
    BY <2>2, <2>4, <2>5 DEF CoverInv
<1>3. ASSUME NEW accounts \in SUBSET (Account \ {Owner}), TokenChange(accounts) PROVE CoverInv'
  <2>1. UNCHANGED <<head, touched, base, reported, missed, sub, row, registering, pc,
                    snap, latest, found>>
    BY <1>3 DEF TokenChange, apiVars, workVars, logVars
  <2> QED
    BY <2>1, CoverKept
<1> QED
  BY <1>1, <1>2, <1>3

(* No checkpoint passes a transaction of its account that was not          *)
(* reported, in memory, in MySQL or in a copy on its way there, whoever    *)
(* wrote a copy back over whom (backfillAddressAccounts,                   *)
(* persistAddressSnapshot, refreshAddressTargets): an old copy that        *)
(* overwrites a newer one sets checkpoints back, never forward past        *)
(* something unreported.                                                   *)
THEOREM CheckpointCovers == Spec => []CheckpointCoversReported
<1> DEFINE Inv == TrackType /\ MainFirst /\ CoverInv
<1>1. Init => Inv
  <2> SUFFICES ASSUME Init PROVE Inv
    OBVIOUS
  <2>1. TrackType
    BY TrackTypeInit
  <2>2. MainFirst
    BY ProcFacts DEF Init, MainFirst
  <2>3. Covered(Absent, {}, head, touched, base, Done)
    BY <2>1, CoveredAbsent DEF TrackType, TypeOK
  <2>4. ASSUME NEW p \in Proc
        PROVE  /\ Covered(snap[p], found[p], head, touched, base, Done)
               /\ latest[p] <= head /\ found[p] = {}
    <3>1. snap[p] = Absent /\ latest[p] = 0 /\ found[p] = {} /\ head = 1
      BY DEF Init
    <3>2. Covered(snap[p], found[p], head, touched, base, Done)
      BY <2>3, <3>1
    <3> QED
      BY <3>1, <3>2
  <2>5. sub = Absent /\ row.saved = Absent /\ registering = Absent
    BY DEF Init
  <2>6. CoverInv
    BY <2>3, <2>4, <2>5 DEF CoverInv
  <2> QED
    BY <2>1, <2>2, <2>6
<1>2. Inv /\ [Next]_vars => Inv'
  <2> SUFFICES ASSUME Inv, [Next]_vars PROVE Inv'
    OBVIOUS
  <2>1. TrackType'
    BY TrackTypeNext
  <2>2. MainFirst' /\ CoverInv'
    <3>1. CASE Next
      BY <3>1, MainNext, CoverApi, CoverPoll, CoverWatch, CoverBackfill, CoverWorld DEF Next
    <3>2. CASE UNCHANGED vars
      <4>1. UNCHANGED <<head, touched, base, reported, missed, sub, row, registering, pc,
                        snap, latest, found>>
        BY <3>2 DEF vars, chainVars, apiVars, workVars, logVars
      <4> QED
        BY <4>1, CoverKept, MainKept
    <3> QED
      BY <3>1, <3>2
  <2> QED
    BY <2>1, <2>2
<1>3. Inv => CheckpointCoversReported
  BY CoverInvCovers
<1> QED
  BY <1>1, <1>2, <1>3, PTL DEF Spec
=============================================================================
