--------------------------- MODULE TriggersProofs ---------------------------
(***************************************************************************)
(* Drift is noticed without a timer: for any namespaces, any target        *)
(* setting and any bounds.                                                 *)
(***************************************************************************)
EXTENDS Triggers, TLAPS

\* Versions of the source count its edits.
Counted == edits \in 0..MaxEdits /\ faults \in 0..MaxFaults /\ source <= edits + 1

TriggersInv == TriggersTypeOK /\ Counted

Events == {SourceEvent, SyncEvent} \cup {CopyEvent(n) : n \in Namespaces}
                                   \cup {NamespaceEvent(n) : n \in Namespaces}

---------------------------------------------------------------------------
(* Events and the queue.                                                   *)

\* An event that is handled is not taken for another one.
LEMMA EventsDiffer ==
    /\ SourceEvent # SyncEvent
    /\ \A n : SourceEvent # CopyEvent(n) /\ SourceEvent # NamespaceEvent(n)
    /\ \A n, m : CopyEvent(n) # NamespaceEvent(m)
    /\ \A n : SyncEvent # CopyEvent(n)
    /\ \A n, m : CopyEvent(n) = CopyEvent(m) => n = m
  BY DEF SourceEvent, SyncEvent, CopyEvent, NamespaceEvent

\* A reference waits in one place; the queue only grows.
LEMMA EnqueueOps ==
    ASSUME TriggersTypeOK, NEW refs \in SUBSET {SourceRef, OtherRef}, Enqueue(refs)
    PROVE  /\ queue' \subseteq {SourceRef, OtherRef} /\ timer' \subseteq {SourceRef}
           /\ queue' \cap timer' = {} /\ queue \cup refs \subseteq queue'
  BY DEF TriggersTypeOK, Enqueue

\* Who enqueues what.
LEMMA References ==
    ASSUME TriggersTypeOK, NEW n
    PROVE  /\ RegisteredRefs \in SUBSET {SourceRef, OtherRef}
           /\ CopySource(n) \in SUBSET {SourceRef, OtherRef}
           /\ (IF ShouldReconcile(n) THEN RegisteredRefs ELSE {}) \in SUBSET {SourceRef, OtherRef}
           /\ (IF store = 0 THEN {} ELSE {SourceRef}) \in SUBSET {SourceRef, OtherRef}
  BY DEF TriggersTypeOK, RegisteredRefs, CopySource

---------------------------------------------------------------------------
(* Types: one lemma per group of actions.                                  *)

\* The parts of TriggersInv that concern the cluster, as it stays in many
\* steps.
LEMMA TypeOfControllerStep ==
    ASSUME TriggersInv, UNCHANGED <<cluster, missed, edits>>, UNCHANGED faults \/ Fault,
           store' \in {store, source, 0}, nsCache' \in {nsCache, Active},
           events' \subseteq Events, registered' \in BOOLEAN, reload' \in BOOLEAN,
           queue' \subseteq {SourceRef, OtherRef}, timer' \subseteq {SourceRef},
           queue' \cap timer' = {}
    PROVE  TriggersInv'
<1> USE DEF TriggersInv, TriggersTypeOK, Counted, cluster
<1>1. faults' \in 0..MaxFaults
  BY TriggersAssumption DEF Fault
<1>2. store' \in 0..source'
  OBVIOUS
<1>3. nsCache' \subseteq Namespaces
  BY DEF Active
<1> QED BY <1>1, <1>2, <1>3 DEF Events

\* The types as the actions below need them.
LEMMA TriggerTypes ==
    ASSUME TriggersInv
    PROVE  /\ events \subseteq Events /\ registered \in BOOLEAN /\ reload \in BOOLEAN
           /\ queue \subseteq {SourceRef, OtherRef} /\ timer \subseteq {SourceRef}
           /\ queue \cap timer = {} /\ TriggersTypeOK
           /\ source \in Nat /\ store \in Nat /\ source # 0
  BY DEF TriggersInv, TriggersTypeOK, Events

LEMMA TypeDelivered ==
    ASSUME TriggersInv,
           Deliver \/ TakeReload \/ \E r \in {SourceRef, OtherRef} : TimerFires(r)
    PROVE  TriggersInv'
<1>1. TriggersTypeOK /\ events \subseteq Events
  BY TriggerTypes
<1>2. ASSUME NEW refs \in SUBSET {SourceRef, OtherRef}, Enqueue(refs),
             UNCHANGED <<cluster, nsCache, missed, edits, faults>>, store' \in {store, source},
             events' \subseteq events, registered' = registered, reload' \in {reload, FALSE}
      PROVE  TriggersInv'
  BY <1>1, <1>2, EnqueueOps, TriggerTypes, TypeOfControllerStep
<1>3. CASE DeliverSource
  BY <1>2, <1>3 DEF DeliverSource
<1>4. CASE DeliverSync
  BY <1>1, <1>2, <1>4, References DEF DeliverSync
<1>5. ASSUME NEW n \in Namespaces, DeliverNamespace(n) PROVE TriggersInv'
  BY <1>1, <1>2, <1>5, References DEF DeliverNamespace
<1>6. ASSUME NEW n \in Namespaces, DeliverCopy(n) PROVE TriggersInv'
  BY <1>1, <1>2, <1>6, References DEF DeliverCopy
<1>7. CASE TakeReload
  BY <1>1, <1>2, <1>7, References DEF TakeReload
<1>8. ASSUME NEW r \in {SourceRef, OtherRef}, TimerFires(r) PROVE TriggersInv'
  BY <1>1, <1>2, <1>8 DEF TimerFires
<1> QED BY <1>3, <1>4, <1>5, <1>6, <1>7, <1>8 DEF Deliver

LEMMA TypeController ==
    ASSUME TriggersInv,
           Reflect \/ Insert \/ Unreferenced \/ Crash \/ \E r \in {SourceRef, OtherRef} : NotFound(r)
    PROVE  TriggersInv'
<1> USE TriggerTypes
<1>1. CASE Reflect \/ Insert \/ Unreferenced
  BY <1>1, TypeOfControllerStep DEF Reflect, Insert, Unreferenced
<1>2. ASSUME NEW r \in {SourceRef, OtherRef}, NotFound(r) PROVE TriggersInv'
  BY <1>2, TypeOfControllerStep DEF NotFound
<1>3. CASE Crash
  <2>1. events' \subseteq Events
    BY <1>3 DEF Crash, Events
  <2> QED BY <1>3, <2>1, TypeOfControllerStep DEF Crash
<1> QED BY <1>1, <1>2, <1>3

\* The copies after a reconciliation.
LEMMA TypeReconcile ==
    ASSUME TriggersInv, NEW failed \in SUBSET Namespaces, ReconcileExcept(failed),
           UNCHANGED faults \/ Fault
    PROVE  TriggersInv'
<1> DEFINE written == {n \in Namespaces \ failed : Outdated(n)}
           stale == placed \ (Plan \cup failed)
           touched == written \cup {n \in stale : copy[n] # 0}
           listed == Plan \cup (placed \cap failed)
<1>1. /\ copy' = [n \in Namespaces |->
                      CASE n \in written /\ n \in Active -> store
                        [] n \in (written \ Active) \cup stale -> 0
                        [] OTHER -> copy[n]]
      /\ altered' = altered \ touched
      /\ unmarked' = unmarked \ touched
      /\ placed' = listed
      /\ events' = events \cup {CopyEvent(n) : n \in touched}
                          \cup (IF touched = {} /\ listed = placed THEN {} ELSE {SyncEvent})
      /\ queue' = queue \ {SourceRef}
      /\ timer' = timer \cup {SourceRef}
      /\ missed' = failed \cup (written \ Active)
      /\ UNCHANGED <<source, want, ns, syncRef, store, nsCache, registered, reload, edits>>
  BY DEF ReconcileExcept, Requeue
<1>2. /\ written \subseteq Namespaces /\ stale \subseteq Namespaces
      /\ touched \subseteq Namespaces /\ listed \subseteq Namespaces
  BY DEF Plan, TriggersInv, TriggersTypeOK
<1> HIDE DEF written, stale, touched, listed
<1>3. copy' \in [Namespaces -> 0..source']
  <2>1. store \in 0..source /\ copy \in [Namespaces -> 0..source] /\ 0 \in 0..source
    BY DEF TriggersInv, TriggersTypeOK
  <2> QED BY <1>1, <2>1
<1>4. events' \subseteq Events
  BY <1>1, <1>2, TriggerTypes DEF Events
<1>5. faults' \in 0..MaxFaults
  BY TriggersAssumption DEF TriggersInv, Counted, Fault
<1>6. queue' \cap timer' = {} /\ queue' \subseteq {SourceRef, OtherRef} /\ timer' \subseteq {SourceRef}
  BY <1>1, TriggerTypes
<1>7. (want \cup placed \cup altered \cup unmarked \cup nsCache \cup missed)' \subseteq Namespaces
  BY <1>1, <1>2 DEF TriggersInv, TriggersTypeOK
<1> QED BY <1>1, <1>3, <1>4, <1>5, <1>6, <1>7 DEF TriggersInv, TriggersTypeOK, Counted, Events

LEMMA TypeUser ==
    ASSUME TriggersInv, User \/ \E n \in Namespaces : RemoveNamespace(n)
    PROVE  TriggersInv'
<1> USE DEF TriggersInv, TriggersTypeOK, Counted, Edit
<1>1. CASE EditSource
  <2>1. /\ source' \in 1..(MaxEdits + 1) /\ source' <= edits' + 1 /\ edits' \in 0..MaxEdits
        /\ store' \in 0..source' /\ 0..source \subseteq 0..source'
    BY <1>1, TriggersAssumption DEF EditSource
  <2>2. copy' \in [Namespaces -> 0..source']
    BY <1>1, <2>1 DEF EditSource
  <2> QED BY <1>1, <2>1, <2>2 DEF EditSource
<1>2. CASE EditWant
  BY <1>2, TriggersAssumption DEF EditWant
<1>3. ASSUME NEW n \in Namespaces, DisturbCopy(n) PROVE TriggersInv'
  <2>1. copy' \in [Namespaces -> 0..source'] /\ source' = source /\ edits' \in 0..MaxEdits
    BY <1>3, TriggersAssumption DEF DisturbCopy
  <2> QED BY <1>3, <2>1 DEF DisturbCopy
<1>4. ASSUME NEW n \in Namespaces, CreateNamespace(n) PROVE TriggersInv'
  BY <1>4, TriggersAssumption DEF CreateNamespace
<1>5. ASSUME NEW n \in Namespaces, DeleteNamespace(n) PROVE TriggersInv'
  <2>1. events' \subseteq Events /\ altered' \subseteq Namespaces /\ edits' \in 0..MaxEdits
    BY <1>5, TriggersAssumption DEF DeleteNamespace, Events
  <2> QED BY <1>5, <2>1 DEF DeleteNamespace, Events
<1>6. ASSUME NEW n \in Namespaces, RemoveNamespace(n) PROVE TriggersInv'
  BY <1>6 DEF RemoveNamespace
<1> QED BY <1>1, <1>2, <1>3, <1>4, <1>5, <1>6 DEF User

LEMMA TypeOfTriggers ==
    ASSUME TriggersInv, [Next]_trigVars
    PROVE  TriggersInv'
<1>1. CASE UNCHANGED trigVars
  BY <1>1 DEF trigVars, cluster, controller, TriggersInv, TriggersTypeOK, Counted
<1>2. CASE Next
  <2>1. CASE Reconcile \/ ReconcileFails
    BY <2>1, TypeReconcile DEF Reconcile, ReconcileFails
  <2> QED BY <1>2, <2>1, TypeDelivered, TypeController, TypeUser DEF Next, Run
<1> QED BY <1>1, <1>2

---------------------------------------------------------------------------
(* Drift is pending.                                                       *)

\* The entries whose copies the watches can see.
Seen == (placed \cap TargetNamespaces) \ (unmarked \cup missed)

LEMMA DriftOfSeen ==
    DriftInv <=> /\ store # source => SourceEvent \in events
                 /\ \A n \in Seen : Current(n) \/ Pending(n)
  BY DEF DriftInv, Seen

\* Nothing is lost while what is pending stays pending.
LEMMA DriftStays ==
    ASSUME DriftInv, UNCHANGED <<source, placed, copy, altered, unmarked, missed, store>>,
           registered' = registered,
           SourceEvent \in events => SourceEvent \in events',
           \A n \in Namespaces : n \in TargetNamespaces /\ CopyEvent(n) \in events =>
                CopyEvent(n) \in events' \/ SourceRef \in queue',
           SourceRef \in queue => SourceRef \in queue' \/ SourceEvent \in events',
           reload => reload' \/ SourceRef \in queue' \/ SourceEvent \in events',
           placed \subseteq Namespaces
    PROVE  DriftInv'
  BY DEF DriftInv, Current, Pending

LEMMA DriftDelivered ==
    ASSUME TriggersInv, DriftInv, Deliver
    PROVE  DriftInv'
<1>1. placed \subseteq Namespaces /\ TriggersTypeOK
  BY DEF TriggersInv, TriggersTypeOK
<1>2. CASE DeliverSource
  <2>1. SourceRef \in queue' /\ store' = source'
    BY <1>2 DEF DeliverSource, Enqueue, cluster
  <2> QED BY <2>1 DEF DriftInv, Pending
<1>3. CASE DeliverSync
  BY <1>1, <1>3, EventsDiffer, DriftStays DEF DeliverSync, Enqueue, cluster
<1>4. ASSUME NEW n \in Namespaces, DeliverNamespace(n) PROVE DriftInv'
  BY <1>1, <1>4, EventsDiffer, DriftStays DEF DeliverNamespace, Enqueue, cluster
<1>5. ASSUME NEW n \in Namespaces, DeliverCopy(n) PROVE DriftInv'
  <2>1. n \in TargetNamespaces => SourceRef \in queue'
    BY <1>5 DEF DeliverCopy, Enqueue, CopySource
  <2>2. queue \subseteq queue' /\ events' = events \ {CopyEvent(n)}
    BY <1>5 DEF DeliverCopy, Enqueue
  <2>3. \A m \in Namespaces : m \in TargetNamespaces /\ CopyEvent(m) \in events =>
                CopyEvent(m) \in events' \/ SourceRef \in queue'
    BY <2>1, <2>2, EventsDiffer
  <2> QED BY <1>1, <1>5, <2>2, <2>3, EventsDiffer, DriftStays DEF DeliverCopy, cluster
<1> QED BY <1>2, <1>3, <1>4, <1>5 DEF Deliver

\* A store without the source has an event of the source coming.
LEMMA DriftController ==
    ASSUME TriggersInv, DriftInv,
           \/ Reflect \/ Insert \/ TakeReload \/ Unreferenced \/ Crash
           \/ \E r \in {SourceRef, OtherRef} : NotFound(r) \/ TimerFires(r)
    PROVE  DriftInv'
<1>1. /\ placed \subseteq Namespaces
      /\ store = 0 => SourceEvent \in events
  BY TriggerTypes DEF TriggersInv, TriggersTypeOK, DriftInv
<1>2. CASE Reflect
  BY <1>1, <1>2, DriftStays DEF Reflect, cluster
<1>3. CASE Insert
  BY <1>3 DEF Insert, cluster, DriftInv, Pending, Current
<1>4. CASE TakeReload
  BY <1>1, <1>4, DriftStays DEF TakeReload, Enqueue, cluster
<1>5. CASE Unreferenced
  BY <1>5 DEF Unreferenced, cluster, DriftInv, Pending, Current
<1>6. CASE Crash
  BY <1>6 DEF Crash, cluster, DriftInv, Pending
<1>7. ASSUME NEW r \in {SourceRef, OtherRef}, NotFound(r) PROVE DriftInv'
  BY <1>1, <1>7, DriftStays DEF NotFound, cluster
<1>8. ASSUME NEW r \in {SourceRef, OtherRef}, TimerFires(r) PROVE DriftInv'
  BY <1>1, <1>8, DriftStays DEF TimerFires, Enqueue, cluster
<1> QED BY <1>2, <1>3, <1>4, <1>5, <1>6, <1>7, <1>8

\* A reconciliation leaves what it planned at the version of the store, or
\* remembers that it failed.
LEMMA DriftReconcile ==
    ASSUME TriggersInv, DriftInv, NEW failed \in SUBSET Namespaces, ReconcileExcept(failed)
    PROVE  DriftInv'
<1> DEFINE written == {n \in Namespaces \ failed : Outdated(n)}
           stale == placed \ (Plan \cup failed)
           touched == written \cup {n \in stale : copy[n] # 0}
<1>1. /\ copy' = [n \in Namespaces |->
                      CASE n \in written /\ n \in Active -> store
                        [] n \in (written \ Active) \cup stale -> 0
                        [] OTHER -> copy[n]]
      /\ altered' = altered \ touched
      /\ placed' = Plan \cup (placed \cap failed)
      /\ events \subseteq events'
      /\ missed' = failed \cup (written \ Active)
      /\ UNCHANGED <<source, store>>
  BY DEF ReconcileExcept
<1>2. ASSUME NEW n \in placed' \ missed' PROVE copy'[n] = store /\ n \notin altered'
  <2>1. n \in Plan /\ n \notin failed /\ n \in Namespaces
    BY <1>1, <1>2 DEF Plan, TriggersInv, TriggersTypeOK
  <2>2. CASE n \in written
    <3>1. n \in touched /\ n \in Active
      BY <1>1, <1>2, <2>2
    <3>2. n \notin altered'
      BY <1>1, <3>1
    <3>3. copy'[n] = CASE n \in written /\ n \in Active -> store
                       [] n \in (written \ Active) \cup stale -> 0
                       [] OTHER -> copy[n]
      BY <1>1, <2>1
    <3>4. n \notin stale
      BY <2>1
    <3> HIDE DEF written, stale, touched
    <3>5. copy'[n] = store
      BY <2>2, <3>1, <3>3, <3>4
    <3> QED BY <3>2, <3>5
  <2>3. CASE n \notin written
    <3>1. copy[n] = store /\ n \notin altered
      BY <2>1, <2>3 DEF Outdated
    <3>2. n \notin stale
      BY <2>1
    <3> QED BY <1>1, <2>1, <2>3, <3>1, <3>2
  <2> QED BY <2>2, <2>3
<1>3. store # source => SourceEvent \in events'
  BY <1>1 DEF DriftInv
<1>4. ASSUME NEW n \in placed' \ missed' PROVE (Current(n) \/ Pending(n))'
  BY <1>1, <1>2, <1>3, <1>4 DEF Current, Pending
<1> HIDE DEF written, stale, touched
<1> QED BY <1>1, <1>3, <1>4 DEF DriftInv

LEMMA DriftUser ==
    ASSUME TriggersInv, DriftInv, User \/ \E n \in Namespaces : RemoveNamespace(n)
    PROVE  DriftInv'
<1>1. /\ placed \subseteq Namespaces /\ copy \in [Namespaces -> 0..source]
      /\ altered \subseteq Namespaces
  BY DEF TriggersInv, TriggersTypeOK
<1>2. CASE EditSource
  BY <1>2 DEF EditSource, DriftInv, Pending
<1>3. CASE EditWant
  BY <1>1, <1>3, DriftStays DEF EditWant
<1>4. ASSUME NEW n \in Namespaces, CreateNamespace(n) \/ RemoveNamespace(n) PROVE DriftInv'
  BY <1>1, <1>4, DriftStays DEF CreateNamespace, RemoveNamespace
<1>5. ASSUME NEW n \in Namespaces, DisturbCopy(n) PROVE DriftInv'
  <2>1. /\ events \subseteq events'
        /\ n \notin unmarked' => CopyEvent(n) \in events'
        /\ unmarked \subseteq unmarked'
        /\ UNCHANGED <<source, placed, missed, store, queue, reload, registered>>
    BY <1>5 DEF DisturbCopy
  <2>2. \A m \in Namespaces : m # n => copy'[m] = copy[m] /\ (m \in altered' => m \in altered)
    BY <1>1, <1>5 DEF DisturbCopy
  <2>3. ASSUME NEW m \in Seen' PROVE (Current(m) \/ Pending(m))'
    <3>1. CASE m = n
      BY <2>1, <2>3, <3>1 DEF Seen, Pending
    <3>2. CASE m # n
      <4>1. m \in Seen /\ m \in Namespaces
        BY <1>1, <2>1, <2>3 DEF Seen
      <4> QED BY <2>1, <2>2, <3>2, <4>1, DriftOfSeen DEF Current, Pending
    <3> QED BY <3>1, <3>2
  <2>4. (store # source => SourceEvent \in events)'
    BY <2>1 DEF DriftInv
  <2> QED BY <2>3, <2>4 DEF DriftInv, Seen
<1>6. ASSUME NEW n \in Namespaces, DeleteNamespace(n) PROVE DriftInv'
  <2>1. /\ events \subseteq events'
        /\ (n \in altered' /\ n \notin unmarked') => CopyEvent(n) \in events'
        /\ UNCHANGED <<source, placed, missed, store, queue, reload, registered, copy, unmarked>>
        /\ altered' \subseteq altered \cup {n}
    BY <1>6 DEF DeleteNamespace
  <2>2. ASSUME NEW m \in Seen' PROVE (Current(m) \/ Pending(m))'
    <3>1. m \in Seen /\ m \notin unmarked'
      BY <2>1, <2>2 DEF Seen
    <3>2. CASE m = n /\ n \in altered'
      BY <2>1, <3>1, <3>2 DEF Pending
    <3>3. CASE ~(m = n /\ n \in altered')
      BY <2>1, <3>1, <3>3, DriftOfSeen DEF Current, Pending
    <3> QED BY <3>2, <3>3
  <2>3. (store # source => SourceEvent \in events)'
    BY <2>1 DEF DriftInv
  <2> QED BY <2>2, <2>3 DEF DriftInv, Seen
<1> QED BY <1>2, <1>3, <1>4, <1>5, <1>6 DEF User

LEMMA DriftStep ==
    ASSUME TriggersInv, DriftInv, [Next]_trigVars
    PROVE  DriftInv'
<1>1. CASE UNCHANGED trigVars
  BY <1>1 DEF trigVars, cluster, controller, DriftInv, Current, Pending
<1>2. CASE Next
  <2>1. CASE Reconcile \/ ReconcileFails
    BY <2>1, DriftReconcile DEF Reconcile, ReconcileFails
  <2> QED BY <1>2, <2>1, DriftDelivered, DriftController, DriftUser DEF Next, Run
<1> QED BY <1>1, <1>2

---------------------------------------------------------------------------
(* The theorems.                                                           *)

\* Drift the watches can see is always on its way to a reconciliation, and a
\* store that lags behind the source has an event coming.
THEOREM TriggersInvariant == Spec => [](TriggersInv /\ DriftInv)
<1>1. Init => TriggersInv
  <2> SUFFICES ASSUME Init PROVE TriggersInv
    OBVIOUS
  <2>1. events \subseteq Events /\ Active \subseteq Namespaces
    BY DEF Init, Active, Events
  <2>2. copy \in [Namespaces -> 0..source] /\ source \in 1..(MaxEdits + 1) /\ store \in 0..source
    BY TriggersAssumption DEF Init
  <2>3. ns \in [Namespaces -> {"absent", "young", "old", "term"}]
    BY DEF Init
  <2>4. Counted
    BY TriggersAssumption DEF Init, Counted
  <2> QED BY <2>1, <2>2, <2>3, <2>4 DEF Init, TriggersInv, TriggersTypeOK, Events
<1>2. Init => DriftInv
  BY DEF Init, DriftInv
<1>3. TriggersInv /\ DriftInv /\ [Next]_trigVars => (TriggersInv /\ DriftInv)'
  BY TypeOfTriggers, DriftStep
<1> QED BY <1>1, <1>2, <1>3, PTL DEF Spec

\* Types are kept; in particular a reference never waits both in the queue
\* and in the timer.
THEOREM TriggersTyped == Spec => []TriggersTypeOK
<1>1. TriggersInv => TriggersTypeOK
  BY DEF TriggersInv
<1> QED BY <1>1, TriggersInvariant, PTL

\* Once everything the watches reported has been handled, every marked copy
\* in an active target namespace is current, unless the last attempt failed:
\* edits of the source and drift are repaired without waiting for a timer.
THEOREM DriftIsNoticed == Spec => []NoticesDrift
<1>1. TriggersInv /\ DriftInv => NoticesDrift
  BY DEF DriftInv, NoticesDrift, Quiet, Pending
<1> QED BY <1>1, TriggersInvariant, PTL
=============================================================================
