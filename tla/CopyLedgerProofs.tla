-------------------------- MODULE CopyLedgerProofs --------------------------
(***************************************************************************)
(* The sub-controller implements CopyLedger: every step either leaves the  *)
(* copies alone, so that whatever it writes is a Relist because the        *)
(* invariant TrackedForGC holds after it, or leaves the lists alone and    *)
(* removes copies or creates one.                                          *)
(***************************************************************************)
EXTENDS ResourceControllerProofs

\* A step that creates no copy and lets the lists be strikes copies only.
LEMMA GoingIsDisappear ==
    ASSUME CopiesOnlyGo, StatusesStay
    PROVE  Ledger!Disappear
<1>1. LiveCopies' \in SUBSET LiveCopies
  BY DEF LiveCopies, Places, CopiesOnlyGo
<1>2. UNCHANGED ListedCopies
  BY DEF ListedCopies, Places, StatusesStay
<1> QED BY <1>1, <1>2 DEF Ledger!Disappear

\* A step that leaves the copies alone writes a list that covers them.
LEMMA WritingIsRelist ==
    ASSUME TrackedForGC', UNCHANGED dst
    PROVE  Ledger!Relist
<1>1. UNCHANGED LiveCopies
  BY DEF LiveCopies, Places
<1>2. LiveCopies \subseteq ListedCopies' /\ ListedCopies' \in SUBSET Places
  BY <1>1 DEF LiveCopies, ListedCopies, Places, TrackedForGC
<1> QED BY <1>1, <1>2 DEF Ledger!Relist

\* The copy that is created is one of those listed.
LEMMA CreatingIsAppear ==
    ASSUME TypeOK, RcInv, NEW x \in Syncs, NEW n \in Namespaces, CreateCopy(x, n)
    PROVE  Ledger!Appear
<1>1. <<x, n>> \in ListedCopies
  BY DEF CreateCopy, Running, RcInv, WritesOnlyTracked, Upserting, ListedCopies, Places
<1>2. dst \in [Syncs -> [Namespaces -> Object]]
  BY DEF TypeOK, ClusterTypeOK
<1>3. dst' = [dst EXCEPT ![x][n] = Created(@, w.src.data)] /\ UNCHANGED sync
  BY DEF CreateCopy
<1>4. Created(dst[x][n], w.src.data).st = "live"
  BY <1>2 DEF Created, Object
<1>5. LiveCopies' = LiveCopies \cup {<<x, n>>}
  BY <1>2, <1>3, <1>4 DEF LiveCopies, Places
<1>6. UNCHANGED ListedCopies
  BY <1>3 DEF ListedCopies, Places
<1> QED BY <1>1, <1>5, <1>6 DEF Ledger!Appear

---------------------------------------------------------------------------
(* The actions that touch copies.                                          *)

\* What a step does to copies and lists: the three ways above.
LedgerStep == Ledger!Next \/ UNCHANGED <<LiveCopies, ListedCopies>>

LEMMA QuietIsStep ==
    ASSUME TrackedForGC', UNCHANGED dst \/ (CopiesOnlyGo /\ StatusesStay)
    PROVE  LedgerStep
  BY GoingIsDisappear, WritingIsRelist DEF LedgerStep, Ledger!Next

\* A write to a copy that does not bring it to life.
LEMMA TouchingIsStep ==
    ASSUME TypeOK, TrackedForGC', NEW x \in Syncs, NEW n \in Namespaces, NEW obj,
           dst' = [dst EXCEPT ![x][n] = obj], obj.st = "live" => dst[x][n].st = "live",
           UNCHANGED sync
    PROVE  LedgerStep
<1>1. CopiesOnlyGo
  BY OneCopyGoes
<1>2. StatusesStay
  BY DEF StatusesStay
<1> QED BY <1>1, <1>2, QuietIsStep

LEMMA LedgerOfUsers ==
    ASSUME TypeOK, TrackedForGC', UserOnCopies
    PROVE  LedgerStep
<1>1. CASE \/ EditSource \/ DeleteSource \/ CreateSource
           \/ \E x \in Syncs : EditWant(x)
           \/ \E n \in Namespaces : DeleteNamespace(n) \/ CreateNamespace(n)
  <2>1. UNCHANGED dst
    BY <1>1 DEF EditSource, DeleteSource, CreateSource, EditWant, DeleteNamespace,
                CreateNamespace
  <2> QED BY <2>1, QuietIsStep
<1>2. ASSUME NEW x \in Syncs, NEW n \in Namespaces, DriftCopy(x, n) PROVE LedgerStep
  <2>1. CopiesOnlyGo
    BY <1>2 DEF CopiesOnlyGo, DriftCopy, TypeOK, ClusterTypeOK, Object
  <2>2. StatusesStay
    BY <1>2 DEF StatusesStay, DriftCopy
  <2> QED BY <2>1, <2>2, QuietIsStep
<1>3. ASSUME NEW x \in Syncs, NEW n \in Namespaces, DeleteCopy(x, n) PROVE LedgerStep
  BY <1>3, TypeOfCopy, NotRevived, TouchingIsStep DEF DeleteCopy
<1> QED BY <1>1, <1>2, <1>3 DEF UserOnCopies

LEMMA LedgerOfNamespaces ==
    ASSUME TypeOK, TrackedForGC', NamespaceController
    PROVE  LedgerStep
<1>1. ASSUME NEW n \in Namespaces, EmptyNamespace(n) PROVE LedgerStep
  <2>1. CopiesOnlyGo
    <3> SUFFICES ASSUME NEW x \in Syncs, NEW m \in Namespaces, dst'[x][m].st = "live"
                 PROVE  dst[x][m].st = "live"
      BY DEF CopiesOnlyGo
    <3>1. dst[x] \in [Namespaces -> Object] /\ dst[x][n] \in Object
      BY DEF TypeOK, ClusterTypeOK
    <3>2. dst'[x] = [dst[x] EXCEPT ![n] = Deleted(dst[x][n])]
      BY <1>1 DEF EmptyNamespace
    <3>3. Deleted(dst[x][n]).st # "live"
      BY <3>1, NotRevived
    <3> QED BY <3>1, <3>2, <3>3
  <2>2. StatusesStay
    BY <1>1 DEF EmptyNamespace, StatusesStay
  <2> QED BY <2>1, <2>2, QuietIsStep
<1>2. ASSUME NEW n \in Namespaces, RemoveNamespace(n) PROVE LedgerStep
  BY <1>2, QuietIsStep DEF RemoveNamespace
<1> QED BY <1>1, <1>2 DEF NamespaceController

LEMMA LedgerOfRelease ==
    ASSUME TypeOK, TrackedForGC', Release
    PROVE  LedgerStep
<1> SUFFICES ASSUME NEW x \in Syncs, NEW n \in Namespaces,
                    ReleaseBegin(x, n) \/ ReleaseEnd(x, n) \/ ReleaseEndFails(x, n)
             PROVE  LedgerStep
  BY DEF Release
<1>1. CASE ReleaseBegin(x, n) \/ ReleaseEndFails(x, n)
  BY <1>1, QuietIsStep DEF ReleaseBegin, ReleaseEndFails, clusterVars
<1>2. CASE ReleaseEnd(x, n)
  BY <1>2, TypeOfCopy, NotRevived, TouchingIsStep DEF ReleaseEnd
<1> QED BY <1>1, <1>2

\* The calls of the worker on one copy.
LEMMA LedgerOfCopyCalls ==
    ASSUME TypeOK, RcInv, TrackedForGC', NEW x \in Syncs, NEW n \in Namespaces,
           \/ StripStale(x, n) \/ DestroyStale(x, n) \/ ReleaseCopy(x, n)
           \/ UpdateCopy(x, n) \/ CreateCopy(x, n)
    PROVE  LedgerStep
<1>1. CASE StripStale(x, n)
  BY <1>1, TypeOfCopy, NotRevived, TouchingIsStep DEF StripStale
<1>2. CASE DestroyStale(x, n)
  BY <1>2, TypeOfCopy, NotRevived, TouchingIsStep DEF DestroyStale
<1>3. CASE ReleaseCopy(x, n)
  BY <1>3, TypeOfCopy, NotRevived, TouchingIsStep DEF ReleaseCopy
<1>4. CASE UpdateCopy(x, n)
  <2>1. Updated(dst[x][n], w.src.data).st = dst[x][n].st
    BY TypeOfCopy, NotRevived, WorkerFields
  <2> QED BY <1>4, <2>1, TouchingIsStep DEF UpdateCopy
<1>5. CASE CreateCopy(x, n)
  BY <1>5, CreatingIsAppear DEF LedgerStep, Ledger!Next
<1> QED BY <1>1, <1>2, <1>3, <1>4, <1>5

\* All other steps of the worker leave the copies alone.
LEMMA LedgerOfWorker ==
    ASSUME TypeOK, RcInv, TrackedForGC', WorkerStep
    PROVE  LedgerStep
<1>1. CASE \/ Start \/ SourceDeletedBranch \/ AddFinalizerIfMissing \/ EndReconcile
           \/ \E x \in Syncs : LoadSync(x) \/ BeginReconcile(x) \/ BeginSourceDeleted(x)
           \/ \E x \in Syncs : TrackDestinations(x) \/ FinishPurge(x) \/ FinishUpsert(x)
  <2>1. UNCHANGED dst
    BY <1>1 DEF Start, SourceDeletedBranch, AddFinalizerIfMissing, EndReconcile, LoadSync,
                BeginReconcile, BeginSourceDeleted, TrackDestinations, FinishPurge,
                FinishUpsert, clusterVars
  <2> QED BY <2>1, QuietIsStep
<1>2. CASE \E x \in Syncs, n \in Namespaces :
              \/ GetStale(x, n) \/ GetCopy(x, n)
              \/ UpdateCopyConflict(x, n) \/ CreateCopyRefused(x, n)
  <2>1. UNCHANGED dst
    BY <1>2 DEF GetStale, GetCopy, UpdateCopyConflict, CreateCopyRefused, clusterVars
  <2> QED BY <2>1, QuietIsStep
<1>3. CASE \E x \in Syncs, n \in Namespaces :
              \/ StripStale(x, n) \/ DestroyStale(x, n) \/ ReleaseCopy(x, n)
              \/ UpdateCopy(x, n) \/ CreateCopy(x, n)
  BY <1>3, LedgerOfCopyCalls
<1> QED BY <1>1, <1>2, <1>3 DEF WorkerStep

\* A failing call changes nothing on the API server.
LEMMA LedgerOfFaults ==
    ASSUME TrackedForGC', WorkerFault \/ Crash
    PROVE  LedgerStep
<1>1. UNCHANGED dst
  BY DEF WorkerFault, Crash, LoadSyncFails, AddFinalizerFails, GetStaleFails,
         StripStaleFails, DestroyStaleFails, TrackDestinationsFails, FinishPurgeFails,
         GetCopyFails, ReleaseCopyFails, WriteCopyFails, FinishUpsertFails,
         EndReconcileFails
<1> QED BY <1>1, QuietIsStep

---------------------------------------------------------------------------
(* The refinement.                                                         *)

LEMMA LedgerInit == RcInit => Ledger!Init
  BY DEF RcInit, ClusterInit, NoStatus, Ledger!Init, LiveCopies, ListedCopies, Places

LEMMA LedgerNext == TypeOK /\ RcInv /\ TrackedForGC' /\ [RcNext]_vars => LedgerStep
<1> SUFFICES ASSUME TypeOK, RcInv, TrackedForGC', [RcNext]_vars PROVE LedgerStep
  OBVIOUS
<1>1. CASE UNCHANGED vars
  BY <1>1, QuietIsStep DEF vars, clusterVars
<1>2. CASE WorkerStep
  BY <1>2, LedgerOfWorker
<1>3. CASE WorkerFault \/ Crash
  BY <1>3, LedgerOfFaults
<1>4. CASE Watch \/ \E x \in Syncs : Register(x)
  <2>1. UNCHANGED dst
    BY <1>4 DEF Watch, WatchSource, WatchNamespace, Register, clusterVars
  <2> QED BY <2>1, QuietIsStep
<1>5. CASE Release
  BY <1>5, LedgerOfRelease
<1>6. CASE UserOnCopies \/ NamespaceController
  BY <1>6, LedgerOfUsers, LedgerOfNamespaces
<1> QED BY <1>1, <1>2, <1>3, <1>4, <1>5, <1>6 DEF RcNext

\* The sub-controller keeps the ledger of status.destinations in the sense
\* of CopyLedger, whatever users, the cluster, failures and crashes do
\* (reconcile_source and upsert_destinations against the promise of
\* lib.rs:255).
THEOREM LedgerKept == RcSpec => KeepsLedger
<1>1. TypeOK /\ RcInv /\ (TypeOK /\ RcInv)' /\ [RcNext]_vars
         => [Ledger!Next]_<<LiveCopies, ListedCopies>>
  BY LedgerNext DEF LedgerStep, RcInv
<1> QED BY <1>1, LedgerInit, InvariantHolds, PTL
        DEF RcSpec, KeepsLedger, Ledger!Spec, Ledger!ledgerVars

\* Whoever keeps the ledger never loses a copy, however it goes about it: the
\* abstract specification is strong enough for garbage collection.
THEOREM LedgerLosesNothing == KeepsLedger => []Ledger!NothingLost
<1>1. Ledger!Init => Ledger!NothingLost
  BY DEF Ledger!Init, Ledger!NothingLost
<1>2. Ledger!NothingLost /\ [Ledger!Next]_<<LiveCopies, ListedCopies>>
         => Ledger!NothingLost'
  BY DEF Ledger!NothingLost, Ledger!Next, Ledger!Relist, Ledger!Appear, Ledger!Disappear
<1> QED BY <1>1, <1>2, PTL DEF KeepsLedger, Ledger!Spec, Ledger!ledgerVars
=============================================================================
