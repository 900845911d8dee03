---------------------- MODULE ResourceControllerProofs ----------------------
(***************************************************************************)
(* Theorems about the resource controller, for any ObjectSyncs, namespaces *)
(* and bounds.                                                             *)
(***************************************************************************)
EXTENDS ResourceController, TLAPS

---------------------------------------------------------------------------
(* The operations on objects, statuses and the worker keep their types.    *)

\* Deletions, creations and writes of the API server yield objects again.
LEMMA ObjectOps ==
    ASSUME NEW obj \in Object, NEW content \in Nat
    PROVE  /\ Gone(obj) \in Object /\ Deleted(obj) \in Object
           /\ WithoutFinalizer(obj) \in Object /\ Stripped(obj) \in Object
           /\ Created(obj, content) \in Object /\ Updated(obj, content) \in Object
           /\ FinalizerApplied(obj) \in Object
<1>0. obj.rv + 1 \in Nat /\ Empty \in Nat
  BY DEF Object, Empty
<1>1. Gone(obj) \in Object
  BY <1>0 DEF Gone, Object, Phase
<1>2. Deleted(obj) \in Object
  BY <1>0, <1>1 DEF Deleted, Object, Phase
<1>3. WithoutFinalizer(obj) \in Object
  BY <1>0, <1>1 DEF WithoutFinalizer, Object
<1>4. Stripped(obj) \in Object
  BY <1>3 DEF Stripped
<1>5. \A c \in Nat : Created(obj, c) \in Object
  BY <1>0 DEF Created, Object, Phase
<1>6. Updated(obj, content) \in Object
  BY <1>0 DEF Updated, Object
<1>7. FinalizerApplied(obj) \in Object
  BY <1>0, <1>5 DEF FinalizerApplied, Object
<1> QED BY <1>1, <1>2, <1>3, <1>4, <1>5, <1>6, <1>7

LEMMA EmptyStatus == NoStatus \in Status
  BY DEF NoStatus, Status, ConditionStatus

\* Rewriting the list of destinations yields a status with that list.
LEMMA TrackOps ==
    ASSUME NEW s \in Status, NEW D \in SUBSET Namespaces
    PROVE  Track(s, D) \in Status /\ Track(s, D).dest = D
<1> DEFINE sv == [n \in Namespaces |-> IF n \in D \cap s.dest THEN s.sv[n] ELSE 0]
           dv == [n \in Namespaces |-> IF n \in D \cap s.dest THEN s.dv[n] ELSE 0]
<1>1. sv \in [Namespaces -> Nat] /\ dv \in [Namespaces -> Nat]
  BY DEF Status
<1>2. Track(s, D) = [s EXCEPT !.listed = TRUE, !.dest = D, !.sv = sv, !.dv = dv]
  BY DEF Track
<1> HIDE DEF sv, dv
<1> QED BY <1>1, <1>2 DEF Status

LEMMA StatusReplacedOps ==
    ASSUME NEW obj \in SyncObject, NEW s \in Status
    PROVE  /\ StatusReplaced(obj, s) \in SyncObject
           /\ StatusReplaced(obj, s).status = s
           /\ StatusReplaced(obj, s).st = obj.st
           /\ StatusReplaced(obj, s).fin = obj.fin
<1>1. obj.rv + 1 \in Nat
  BY DEF SyncObject
<1> QED BY <1>1 DEF StatusReplaced, SyncObject

LEMMA IdleType == Idle \in Worker /\ NoView \in View
<1>1. NoView \in View
  BY EmptyStatus DEF NoView, View
<1>2. Idle \in Worker
  BY <1>1 DEF Idle, Worker, WorkerPc, Object, Phase, Empty
<1> QED BY <1>1, <1>2

\* Leaving an ObjectSync or a copy yields a worker again.
LEMMA WorkerOps ==
    ASSUME NEW worker \in Worker
    PROVE  /\ NextSync(worker) \in Worker /\ BailOut(worker) \in Worker
           /\ NextCopy(worker) \in Worker /\ Missed(worker) \in Worker
           /\ Retry(worker) \in Worker
<1>1. \A v \in Worker : NextSync(v) \in Worker
  <2> TAKE v \in Worker
  <2> DEFINE view == [x \in Syncs |-> IF x \in v.loaded THEN v.view[x] ELSE NoView]
  <2>1. view \in [Syncs -> View]
    BY IdleType DEF Worker
  <2>2. NextSync(v) =
          [Idle EXCEPT !.pc = "loop", !.src = v.src, !.loaded = v.loaded,
                       !.ok = v.ok, !.view = view]
    BY DEF NextSync
  <2> HIDE DEF view
  <2> QED BY <2>1, <2>2, IdleType DEF Worker, WorkerPc
<1>2. BailOut(worker) \in Worker
  <2>1. [worker EXCEPT !.ok = FALSE] \in Worker
    BY DEF Worker
  <2> QED BY <1>1, <2>1 DEF BailOut
<1>3. \A v \in Worker : NextCopy(v) \in Worker
  BY DEF NextCopy, Worker, WorkerPc
<1>4. Missed(worker) \in Worker
  <2>1. [worker EXCEPT !.missed = TRUE] \in Worker
    BY DEF Worker
  <2> QED BY <1>3, <2>1 DEF Missed
<1>5. Retry(worker) \in Worker
  BY <1>4 DEF Retry, Worker, WorkerPc
<1> QED BY <1>1, <1>2, <1>3, <1>4, <1>5

LEMMA CompareVersionsOps ==
    ASSUME NEW worker \in Worker, NEW x, NEW n, NEW rv \in Nat
    PROVE  CompareVersions(worker, x, n, rv) \in Worker
<1>1. [worker EXCEPT !.pc = "update", !.seen = rv] \in Worker
  BY DEF Worker, WorkerPc
<1> QED BY <1>1, WorkerOps DEF CompareVersions

LEMMA SavedOps ==
    ASSUME NEW worker \in Worker, NEW x \in Syncs, NEW s \in Status
    PROVE  Saved(worker, x, s) \in Worker
<1> DEFINE new == [worker.view EXCEPT ![x].orig = s, ![x].mod = s]
<1>1. worker.view \in [Syncs -> View]
  BY DEF Worker
<1>2. new \in [Syncs -> View]
  BY <1>1 DEF View
<1>3. Saved(worker, x, s) = [worker EXCEPT !.view = new]
  BY <1>1 DEF Saved, View, Worker
<1> HIDE DEF new
<1> QED BY <1>2, <1>3 DEF Worker

\* replace_status touches the status of one ObjectSync only.
LEMMA StatusWrittenOps ==
    ASSUME TypeOK, NEW x \in Syncs, NEW s \in Status, StatusWritten(x, s)
    PROVE  /\ sync' \in [Syncs -> SyncObject]
           /\ \A y \in Syncs : sync'[y].st = sync[y].st
           /\ \A y \in Syncs : sync'[y].fin = sync[y].fin
           /\ \A y \in Syncs \ {x} : sync'[y] = sync[y]
           /\ sync'[x].status = IF s # w.view[x].orig /\ Exists(sync[x])
                                THEN s ELSE sync[x].status
<1>1. sync \in [Syncs -> SyncObject]
  BY DEF TypeOK, ClusterTypeOK
<1>2. CASE s # w.view[x].orig /\ Exists(sync[x])
  <2>1. sync' = [sync EXCEPT ![x] = StatusReplaced(sync[x], s)]
    BY <1>2 DEF StatusWritten
  <2>2. sync[x] \in SyncObject
    BY <1>1
  <2> QED BY <1>1, <1>2, <2>1, <2>2, StatusReplacedOps
<1>3. CASE ~(s # w.view[x].orig /\ Exists(sync[x]))
  BY <1>1, <1>3 DEF StatusWritten
<1> QED BY <1>2, <1>3

\* What the worker reads from its own record has the declared types.
LEMMA WorkerFields ==
    ASSUME TypeOK
    PROVE  /\ w \in Worker /\ w.src \in Object /\ w.src.rv \in Nat /\ w.src.data \in Nat
           /\ w.cur \subseteq Syncs /\ w.refs \subseteq Syncs /\ w.loaded \subseteq Syncs
           /\ w.at \subseteq Namespaces /\ w.todo \subseteq Namespaces
           /\ w.plan \subseteq Namespaces /\ w.kept \subseteq Namespaces
           /\ \A x \in Syncs : /\ w.view[x] \in View /\ w.view[x].orig \in Status
                               /\ w.view[x].mod \in Status
                               /\ w.view[x].mod.dest \subseteq Namespaces
<1>1. w \in Worker
  BY DEF TypeOK
<1>2. \A x \in Syncs : w.view[x] \in View
  BY <1>1 DEF Worker
<1>3. \A x \in Syncs : w.view[x].orig \in Status /\ w.view[x].mod \in Status
  BY <1>2 DEF View
<1>4. w.src \in Object
  BY <1>1 DEF Worker
<1> QED BY <1>1, <1>2, <1>3, <1>4 DEF Worker, Object, Status

\* Recording the versions of a copy that was written.
LEMMA WrittenOps ==
    ASSUME TypeOK, NEW x \in Syncs, NEW n \in Namespaces, NEW rv \in Nat
    PROVE  Written(x, n, rv) \in Worker
<1>1. Versioned(x, n, rv) \in Status
  <2>1. w.view[x].mod.sv \in [Namespaces -> Nat] /\ w.view[x].mod.dv \in [Namespaces -> Nat]
    BY WorkerFields DEF Status
  <2> QED BY <2>1, WorkerFields DEF Versioned, Status
<1> DEFINE new == [w.view EXCEPT ![x].mod = Versioned(x, n, rv)]
<1>2. new \in [Syncs -> View]
  <2>1. w.view \in [Syncs -> View]
    BY WorkerFields DEF Worker
  <2> QED BY <1>1, <2>1 DEF View
<1>3. [w EXCEPT !.view[x].mod = Versioned(x, n, rv), !.changed = TRUE]
        = [w EXCEPT !.view = new, !.changed = TRUE]
  BY WorkerFields DEF Worker, View
<1> HIDE DEF new
<1>4. [w EXCEPT !.view = new, !.changed = TRUE] \in Worker
  BY <1>2, WorkerFields DEF Worker
<1> QED BY <1>3, <1>4, WorkerOps DEF Written

---------------------------------------------------------------------------
(* Type correctness: one lemma per group of actions.                       *)

\* A step of the worker changes at most source, copies, statuses and w.
LEMMA TypeOfWorkerStep ==
    ASSUME TypeOK, w' \in Worker, src' \in Object,
           dst' \in [Syncs -> [Namespaces -> Object]], sync' \in [Syncs -> SyncObject],
           UNCHANGED <<ns, edits, rcMemory>>, UNCHANGED faults \/ Fault
    PROVE  TypeOK'
<1>1. faults' \in 0..MaxFaults
  BY BoundsAssumption DEF TypeOK, ClusterTypeOK, Fault
<1> QED BY <1>1 DEF TypeOK, ClusterTypeOK, rcMemory

LEMMA TypeOfCopies ==
    ASSUME TypeOK, NEW x \in Syncs, NEW n \in Namespaces, NEW obj \in Object,
           dst' = [dst EXCEPT ![x][n] = obj]
    PROVE  dst' \in [Syncs -> [Namespaces -> Object]]
  BY DEF TypeOK, ClusterTypeOK

LEMMA TypeOfCopy ==
    ASSUME TypeOK, NEW x \in Syncs, NEW n \in Namespaces
    PROVE  dst[x][n] \in Object /\ dst[x][n].rv \in Nat
  BY DEF TypeOK, ClusterTypeOK, Object

LEMMA TypeUsers ==
    ASSUME TypeOK, UserOnCopies, UNCHANGED rcVars
    PROVE  TypeOK'
<1>1. /\ src \in Object /\ dst \in [Syncs -> [Namespaces -> Object]]
      /\ sync \in [Syncs -> SyncObject] /\ ns \in [Namespaces -> NsPhase]
      /\ src.rv + 1 \in Nat /\ src.data + 1 \in Nat /\ First \in Nat /\ Drifted \in Nat
  BY DEF TypeOK, ClusterTypeOK, Object, First, Drifted
<1>2. ASSUME NEW kind, Edit(kind) PROVE edits' \in 0..MaxEdits
  BY <1>2, BoundsAssumption DEF Edit, TypeOK, ClusterTypeOK
<1> USE DEF TypeOK, ClusterTypeOK, rcVars
<1>3. CASE EditSource
  BY <1>1, <1>2, <1>3 DEF EditSource, Object
<1>4. CASE DeleteSource
  BY <1>1, <1>2, <1>4, ObjectOps DEF DeleteSource
<1>5. CASE CreateSource
  BY <1>1, <1>2, <1>5 DEF CreateSource, Object, Phase
<1>6. ASSUME NEW x \in Syncs, EditWant(x) PROVE TypeOK'
  <2>1. PICK W \in SUBSET Namespaces \ {sync[x].want} :
            sync' = [sync EXCEPT ![x].want = W, ![x].rv = @ + 1]
    BY <1>6 DEF EditWant
  <2>2. sync[x] \in SyncObject /\ sync[x].rv + 1 \in Nat
    BY <1>1 DEF SyncObject
  <2>3. sync' = [sync EXCEPT ![x] = [sync[x] EXCEPT !.want = W, !.rv = sync[x].rv + 1]]
    BY <2>1, <1>1
  <2>4. [sync[x] EXCEPT !.want = W, !.rv = sync[x].rv + 1] \in SyncObject
    BY <2>2 DEF SyncObject
  <2>5. sync' \in [Syncs -> SyncObject]
    BY <2>3, <2>4, <1>1
  <2> QED BY <1>1, <1>2, <1>6, <2>5 DEF EditWant
<1>7. ASSUME NEW x \in Syncs, NEW n \in Namespaces, DriftCopy(x, n) PROVE TypeOK'
  <2>1. dst[x][n] \in Object /\ dst[x][n].rv + 1 \in Nat
    BY TypeOfCopy
  <2>2. [dst[x][n] EXCEPT !.data = Drifted, !.rv = dst[x][n].rv + 1] \in Object
    BY <1>1, <2>1 DEF Object
  <2>3. dst' = [dst EXCEPT ![x][n] =
                  [dst[x][n] EXCEPT !.data = Drifted, !.rv = dst[x][n].rv + 1]]
    BY <1>1, <1>7 DEF DriftCopy
  <2>4. dst' \in [Syncs -> [Namespaces -> Object]]
    BY <2>2, <2>3, TypeOfCopies
  <2> QED BY <1>1, <1>2, <1>7, <2>4 DEF DriftCopy
<1>8. ASSUME NEW x \in Syncs, NEW n \in Namespaces, DeleteCopy(x, n) PROVE TypeOK'
  <2>1. Deleted(dst[x][n]) \in Object
    BY ObjectOps, TypeOfCopy, <1>1
  <2>2. dst' \in [Syncs -> [Namespaces -> Object]]
    BY <1>8, <2>1, TypeOfCopies DEF DeleteCopy
  <2> QED BY <1>1, <1>2, <1>8, <2>2 DEF DeleteCopy
<1>9. ASSUME NEW n \in Namespaces, DeleteNamespace(n) \/ CreateNamespace(n) PROVE TypeOK'
  BY <1>1, <1>2, <1>9 DEF DeleteNamespace, CreateNamespace, NsPhase
<1> QED BY <1>3, <1>4, <1>5, <1>6, <1>7, <1>8, <1>9 DEF UserOnCopies

LEMMA TypeNamespaceController ==
    ASSUME TypeOK, NamespaceController, UNCHANGED rcVars
    PROVE  TypeOK'
<1>1. ASSUME NEW n \in Namespaces, EmptyNamespace(n) PROVE TypeOK'
  <2>1. \A x \in Syncs : Deleted(dst[x][n]) \in Object
    BY ObjectOps, TypeOfCopy, <1>1 DEF TypeOK, ClusterTypeOK
  <2>2. \A x \in Syncs : dst[x] \in [Namespaces -> Object]
    BY DEF TypeOK, ClusterTypeOK
  <2>3. dst' = [x \in Syncs |-> [dst[x] EXCEPT ![n] = Deleted(dst[x][n])]]
    BY <1>1 DEF EmptyNamespace
  <2>4. dst' \in [Syncs -> [Namespaces -> Object]]
    BY <2>1, <2>2, <2>3
  <2> QED BY <1>1, <2>4 DEF EmptyNamespace, TypeOK, ClusterTypeOK, rcVars
<1>2. ASSUME NEW n \in Namespaces, RemoveNamespace(n) PROVE TypeOK'
  BY <1>2 DEF RemoveNamespace, NsPhase, TypeOK, ClusterTypeOK, rcVars
<1> QED BY <1>1, <1>2 DEF NamespaceController

\* Watches, registration, release of terminating copies, restart.
LEMMA TypeAround ==
    ASSUME TypeOK, Watch \/ Release \/ Crash \/ \E x \in Syncs : Register(x)
    PROVE  TypeOK'
<1> USE DEF TypeOK, ClusterTypeOK, clusterVars
<1>1. CASE Watch
  BY <1>1 DEF Watch, WatchSource, WatchNamespace
<1>2. ASSUME NEW x \in Syncs, NEW n \in Namespaces, ReleaseBegin(x, n) PROVE TypeOK'
  BY <1>2 DEF ReleaseBegin
<1>3. ASSUME NEW x \in Syncs, NEW n \in Namespaces, ReleaseEnd(x, n) PROVE TypeOK'
  <2>1. Stripped(dst[x][n]) \in Object
    BY ObjectOps, TypeOfCopy
  <2>2. dst' \in [Syncs -> [Namespaces -> Object]]
    BY <1>3, <2>1, TypeOfCopies DEF ReleaseEnd
  <2> QED BY <1>3, <2>2 DEF ReleaseEnd
<1>4. ASSUME NEW x \in Syncs, NEW n \in Namespaces, ReleaseEndFails(x, n) PROVE TypeOK'
  BY <1>4, BoundsAssumption DEF ReleaseEndFails, Fault
<1>5. CASE Crash
  BY <1>5, BoundsAssumption, IdleType DEF Crash, Fault
<1>6. ASSUME NEW x \in Syncs, Register(x) PROVE TypeOK'
  BY <1>6 DEF Register
<1> QED BY <1>1, <1>2, <1>3, <1>4, <1>5, <1>6 DEF Release

LEMMA TypeLookup ==
    ASSUME TypeOK,
           \/ Start \/ SourceDeletedBranch \/ AddFinalizerIfMissing \/ AddFinalizerFails
           \/ \E x \in Syncs : LoadSync(x) \/ LoadSyncFails(x)
    PROVE  TypeOK'
<1> USE DEF clusterVars
<1>1. /\ src \in Object /\ dst \in [Syncs -> [Namespaces -> Object]]
      /\ sync \in [Syncs -> SyncObject] /\ srcCache \in Object /\ sources \subseteq Syncs
  BY DEF TypeOK, ClusterTypeOK
<1>2. CASE Start
  <2>1. [Idle EXCEPT !.pc = "lookup", !.src = srcCache, !.refs = sources] \in Worker
    BY <1>1, IdleType DEF Worker, WorkerPc
  <2> QED BY <1>1, <1>2, <2>1, TypeOfWorkerStep DEF Start
<1>3. CASE SourceDeletedBranch
  <2>1. [w EXCEPT !.pc = "loop"] \in Worker
    BY WorkerFields DEF Worker, WorkerPc
  <2> QED BY <1>1, <1>3, <2>1, TypeOfWorkerStep DEF SourceDeletedBranch
<1>4. CASE AddFinalizerIfMissing
  <2>1. [w EXCEPT !.pc = "loop", !.src.fin = TRUE] \in Worker
    <3>1. [w.src EXCEPT !.fin = TRUE] \in Object
      BY WorkerFields DEF Object
    <3>2. [w EXCEPT !.pc = "loop", !.src.fin = TRUE]
            = [w EXCEPT !.pc = "loop", !.src = [w.src EXCEPT !.fin = TRUE]]
      BY WorkerFields DEF Worker
    <3> QED BY <3>1, <3>2, WorkerFields DEF Worker, WorkerPc
  <2>2. src' \in Object
    BY <1>1, <1>4, ObjectOps DEF AddFinalizerIfMissing, Empty
  <2> QED BY <1>1, <1>4, <2>1, <2>2, TypeOfWorkerStep DEF AddFinalizerIfMissing
<1>5. CASE AddFinalizerFails
  <2>1. [w EXCEPT !.pc = "loop"] \in Worker
    BY WorkerFields DEF Worker, WorkerPc
  <2> QED BY <1>1, <1>5, <2>1, TypeOfWorkerStep DEF AddFinalizerFails
<1>6. ASSUME NEW x \in Syncs, LoadSync(x) \/ LoadSyncFails(x) PROVE TypeOK'
  <2> DEFINE v == [want |-> sync[x].want, orig |-> sync[x].status, mod |-> sync[x].status]
             new == [w.view EXCEPT ![x] = v]
  <2>1. v \in View
    BY <1>1 DEF View, SyncObject
  <2>2. new \in [Syncs -> View]
    BY <2>1, WorkerFields DEF Worker
  <2>3. [w EXCEPT !.refs = @ \ {x}, !.loaded = @ \cup {x}, !.view[x] = v]
          = [w EXCEPT !.refs = @ \ {x}, !.loaded = @ \cup {x}, !.view = new]
    BY WorkerFields DEF Worker
  <2> HIDE DEF new
  <2>4. /\ [w EXCEPT !.refs = @ \ {x}, !.loaded = @ \cup {x}, !.view = new] \in Worker
        /\ [w EXCEPT !.refs = @ \ {x}] \in Worker
    BY <2>2, WorkerFields DEF Worker
  <2>5. w' \in Worker
    BY <1>6, <2>3, <2>4 DEF LoadSync, LoadSyncFails
  <2> QED BY <1>1, <1>6, <2>5, TypeOfWorkerStep DEF LoadSync, LoadSyncFails
<1> QED BY <1>2, <1>3, <1>4, <1>5, <1>6

LEMMA TypeBegin ==
    ASSUME TypeOK, NEW x \in Syncs, BeginReconcile(x) \/ BeginSourceDeleted(x)
    PROVE  TypeOK'
<1> USE DEF clusterVars, Others
<1>1. /\ src \in Object /\ dst \in [Syncs -> [Namespaces -> Object]]
      /\ sync \in [Syncs -> SyncObject]
  BY DEF TypeOK, ClusterTypeOK
<1>2. CASE BeginReconcile(x)
  <2>1. ExpectedDestinations(x) \subseteq Namespaces
    BY WorkerFields DEF ExpectedDestinations, View
  <2>2. w.view[x].mod.dest \ ExpectedDestinations(x) \subseteq Namespaces
    BY WorkerFields
  <2>3. w' \in Worker
    BY <1>2, <2>1, <2>2, WorkerFields DEF BeginReconcile, Worker, WorkerPc
  <2> QED BY <1>1, <1>2, <2>3, TypeOfWorkerStep DEF BeginReconcile
<1>3. CASE BeginSourceDeleted(x)
  <2>1. /\ [w EXCEPT !.pc = "delete", !.loaded = Others(x), !.cur = {x},
                     !.plan = {}, !.todo = w.view[x].mod.dest] \in Worker
        /\ [w EXCEPT !.loaded = Others(x)] \in Worker
    BY WorkerFields DEF Worker, WorkerPc
  <2>2. w' \in Worker
    BY <1>3, <2>1, WorkerOps DEF BeginSourceDeleted
  <2> QED BY <1>1, <1>3, <2>2, TypeOfWorkerStep DEF BeginSourceDeleted
<1> QED BY <1>2, <1>3

LEMMA TypeDelete ==
    ASSUME TypeOK, NEW x \in Syncs, NEW n \in Namespaces,
           \/ GetStale(x, n) \/ GetStaleFails(x, n)
           \/ StripStale(x, n) \/ StripStaleFails(x, n)
           \/ DestroyStale(x, n) \/ DestroyStaleFails(x, n)
    PROVE  TypeOK'
<1> USE DEF clusterVars, AfterGet
<1>1. /\ src \in Object /\ dst \in [Syncs -> [Namespaces -> Object]]
      /\ sync \in [Syncs -> SyncObject]
  BY DEF TypeOK, ClusterTypeOK
<1>2. CASE GetStale(x, n)
  <2>1. w' \in Worker
    BY <1>2, WorkerFields DEF GetStale, Worker, WorkerPc
  <2> QED BY <1>1, <1>2, <2>1, TypeOfWorkerStep DEF GetStale
<1>3. CASE GetStaleFails(x, n)
  BY <1>1, <1>3, WorkerFields, WorkerOps, TypeOfWorkerStep DEF GetStaleFails
<1>4. CASE StripStale(x, n)
  <2>1. w' \in Worker
    BY <1>4, WorkerFields DEF StripStale, Worker, WorkerPc
  <2>2. dst' \in [Syncs -> [Namespaces -> Object]]
    BY <1>1, <1>4, ObjectOps, TypeOfCopy, TypeOfCopies DEF StripStale
  <2> QED BY <1>1, <1>4, <2>1, <2>2, TypeOfWorkerStep DEF StripStale
<1>5. CASE StripStaleFails(x, n)
  <2>1. w' \in Worker
    BY <1>5, WorkerFields DEF StripStaleFails, Worker, WorkerPc
  <2> QED BY <1>1, <1>5, <2>1, TypeOfWorkerStep DEF StripStaleFails
<1>6. CASE DestroyStale(x, n)
  <2>1. w' \in Worker
    BY <1>6, WorkerFields DEF DestroyStale, Worker, WorkerPc
  <2>2. dst' \in [Syncs -> [Namespaces -> Object]]
    BY <1>1, <1>6, ObjectOps, TypeOfCopy, TypeOfCopies DEF DestroyStale
  <2> QED BY <1>1, <1>6, <2>1, <2>2, TypeOfWorkerStep DEF DestroyStale
<1>7. CASE DestroyStaleFails(x, n)
  <2>1. w' \in Worker
    BY <1>7, WorkerFields DEF DestroyStaleFails, Worker, WorkerPc
  <2> QED BY <1>1, <1>7, <2>1, TypeOfWorkerStep DEF DestroyStaleFails
<1> QED BY <1>2, <1>3, <1>4, <1>5, <1>6, <1>7

\* The statuses the worker is about to write are statuses.
LEMMA TypeOfStatuses ==
    ASSUME TypeOK, NEW x \in Syncs
    PROVE  /\ Tracking(x) \in Status /\ Tracking(x).dest = w.plan \cup w.kept
           /\ Purged(x) \in Status /\ Purged(x).dest = w.kept
           /\ Outcome(x) \in Status
<1>1. /\ Track(w.view[x].mod, w.plan \cup w.kept) \in Status
      /\ Track(w.view[x].mod, w.plan \cup w.kept).dest = w.plan \cup w.kept
      /\ Track(w.view[x].mod, w.kept) \in Status
      /\ Track(w.view[x].mod, w.kept).dest = w.kept
  BY WorkerFields, TrackOps
<1>2. Purged(x) \in Status /\ Purged(x).dest = w.kept
  BY <1>1 DEF Purged, Status, ConditionStatus
<1>3. Outcome(x) \in Status
  BY WorkerFields DEF Outcome, Status, ConditionStatus
<1> QED BY <1>1, <1>2, <1>3 DEF Tracking

LEMMA TypeStatus ==
    ASSUME TypeOK, NEW x \in Syncs,
           \/ TrackDestinations(x) \/ TrackDestinationsFails(x)
           \/ FinishPurge(x) \/ FinishPurgeFails(x)
           \/ FinishUpsert(x) \/ FinishUpsertFails(x)
    PROVE  TypeOK'
<1>1. /\ src \in Object /\ dst \in [Syncs -> [Namespaces -> Object]]
      /\ sync \in [Syncs -> SyncObject]
  BY DEF TypeOK, ClusterTypeOK
<1>2. CASE TrackDestinations(x)
  <2>1. sync' \in [Syncs -> SyncObject]
    BY <1>2, TypeOfStatuses, StatusWrittenOps DEF TrackDestinations
  <2>2. Saved(w, x, Tracking(x)) \in Worker
    BY TypeOfStatuses, SavedOps, WorkerFields
  <2>3. [Saved(w, x, Tracking(x)) EXCEPT !.pc = "upsert", !.todo = Tracking(x).dest \ w.kept] \in Worker
    BY <2>2, TypeOfStatuses, WorkerFields DEF Worker, WorkerPc
  <2>4. w' \in Worker
    BY <1>2, <2>3, WorkerFields, WorkerOps DEF TrackDestinations
  <2> QED BY <1>1, <1>2, <2>1, <2>4, TypeOfWorkerStep DEF TrackDestinations
<1>3. CASE FinishPurge(x)
  <2>1. sync' \in [Syncs -> SyncObject]
    BY <1>3, TypeOfStatuses, StatusWrittenOps DEF FinishPurge
  <2>2. w' \in Worker
    BY <1>3, WorkerFields, WorkerOps DEF FinishPurge
  <2> QED BY <1>1, <1>3, <2>1, <2>2, TypeOfWorkerStep DEF FinishPurge
<1>4. CASE FinishUpsert(x)
  <2>1. sync' \in [Syncs -> SyncObject]
    BY <1>4, TypeOfStatuses, StatusWrittenOps DEF FinishUpsert
  <2>2. w' \in Worker
    BY <1>4, WorkerFields, WorkerOps DEF FinishUpsert
  <2> QED BY <1>1, <1>4, <2>1, <2>2, TypeOfWorkerStep DEF FinishUpsert
<1>5. CASE TrackDestinationsFails(x) \/ FinishPurgeFails(x) \/ FinishUpsertFails(x)
  <2>1. w' \in Worker
    BY <1>5, WorkerFields, WorkerOps
    DEF TrackDestinationsFails, FinishPurgeFails, FinishUpsertFails
  <2> QED BY <1>1, <1>5, <2>1, TypeOfWorkerStep
          DEF TrackDestinationsFails, FinishPurgeFails, FinishUpsertFails
<1> QED BY <1>2, <1>3, <1>4, <1>5

LEMMA VisitedOps ==
    ASSUME TypeOK, NEW n \in Namespaces, w.at = {} \/ w.tries > 0
    PROVE  Visited(n) \in Worker
<1> DEFINE left == (IF w.at = {} THEN Attempts ELSE w.tries) - 1
<1>1. left \in Nat
  BY WorkerFields, AttemptsAssumption DEF Worker
<1>2. Visited(n) = [w EXCEPT !.at = {n}, !.tries = left]
  BY WorkerFields DEF Visited, Worker
<1>3. {n} \in SUBSET Namespaces /\ w \in Worker
  BY WorkerFields
<1>4. \A t \in Nat : [w EXCEPT !.at = {n}, !.tries = t] \in Worker
  BY <1>3 DEF Worker
<1> HIDE DEF left
<1> QED BY <1>1, <1>2, <1>4

LEMMA TypeUpsert ==
    ASSUME TypeOK, AttemptsLeft, NEW x \in Syncs, NEW n \in Namespaces,
           \/ GetCopy(x, n) \/ GetCopyFails(x, n)
           \/ ReleaseCopy(x, n) \/ ReleaseCopyFails(x, n)
           \/ UpdateCopy(x, n) \/ UpdateCopyConflict(x, n)
           \/ CreateCopy(x, n) \/ CreateCopyRefused(x, n)
           \/ WriteCopyFails(x, n)
    PROVE  TypeOK'
<1> USE DEF clusterVars
<1>1. /\ src \in Object /\ dst \in [Syncs -> [Namespaces -> Object]]
      /\ sync \in [Syncs -> SyncObject] /\ dst[x][n] \in Object /\ dst[x][n].rv \in Nat
  BY TypeOfCopy DEF TypeOK, ClusterTypeOK
<1>2. CASE GetCopy(x, n)
  <2>1. Visited(n) \in Worker
    BY <1>2, VisitedOps DEF GetCopy, Running, AttemptsLeft
  <2>2. /\ [Visited(n) EXCEPT !.pc = "create"] \in Worker
        /\ [Visited(n) EXCEPT !.pc = "release", !.seen = dst[x][n].rv] \in Worker
    BY <1>1, <2>1 DEF Worker, WorkerPc
  <2>3. CompareVersions(Visited(n), x, n, dst[x][n].rv) \in Worker
    BY <1>1, <2>1, CompareVersionsOps
  <2>4. w' \in Worker
    BY <1>2, <2>2, <2>3 DEF GetCopy
  <2> QED BY <1>1, <1>2, <2>4, TypeOfWorkerStep DEF GetCopy
<1>3. CASE GetCopyFails(x, n)
  <2>1. [w EXCEPT !.at = {n}] \in Worker
    BY WorkerFields DEF Worker
  <2>2. w' \in Worker
    BY <1>3, <2>1, WorkerOps DEF GetCopyFails
  <2> QED BY <1>1, <1>3, <2>2, TypeOfWorkerStep DEF GetCopyFails
<1>4. ASSUME ReleaseCopy(x, n) \/ ReleaseCopyFails(x, n) PROVE TypeOK'
  <2>1. w' \in Worker
    BY <1>4, WorkerFields, WorkerOps, CompareVersionsOps
    DEF ReleaseCopy, ReleaseCopyFails, Worker
  <2>2. dst' \in [Syncs -> [Namespaces -> Object]]
    BY <1>1, <1>4, ObjectOps, TypeOfCopies DEF ReleaseCopy, ReleaseCopyFails
  <2> QED BY <1>1, <1>4, <2>1, <2>2, TypeOfWorkerStep DEF ReleaseCopy, ReleaseCopyFails
<1>5. CASE UpdateCopy(x, n)
  <2>1. Updated(dst[x][n], w.src.data) \in Object
    BY <1>1, WorkerFields, ObjectOps
  <2>2. Updated(dst[x][n], w.src.data).rv \in Nat
    BY <2>1 DEF Object
  <2>3. w' \in Worker
    BY <1>5, <2>2, WrittenOps DEF UpdateCopy
  <2>4. dst' \in [Syncs -> [Namespaces -> Object]]
    BY <1>5, <2>1, TypeOfCopies DEF UpdateCopy
  <2> QED BY <1>1, <1>5, <2>3, <2>4, TypeOfWorkerStep DEF UpdateCopy
<1>6. CASE CreateCopy(x, n)
  <2>1. Created(dst[x][n], w.src.data) \in Object
    BY <1>1, WorkerFields, ObjectOps
  <2>2. w' \in Worker
    BY <1>1, <1>6, WrittenOps DEF CreateCopy
  <2>3. dst' \in [Syncs -> [Namespaces -> Object]]
    BY <1>6, <2>1, TypeOfCopies DEF CreateCopy
  <2> QED BY <1>1, <1>6, <2>2, <2>3, TypeOfWorkerStep DEF CreateCopy
<1>7. CASE UpdateCopyConflict(x, n) \/ CreateCopyRefused(x, n) \/ WriteCopyFails(x, n)
  <2>1. w' \in Worker
    BY <1>7, WorkerFields, WorkerOps
    DEF UpdateCopyConflict, CreateCopyRefused, WriteCopyFails
  <2> QED BY <1>1, <1>7, <2>1, TypeOfWorkerStep
          DEF UpdateCopyConflict, CreateCopyRefused, WriteCopyFails
<1> QED BY <1>2, <1>3, <1>4, <1>5, <1>6, <1>7

LEMMA TypeEnd ==
    ASSUME TypeOK, EndReconcile \/ EndReconcileFails
    PROVE  TypeOK'
<1>1. /\ src \in Object /\ dst \in [Syncs -> [Namespaces -> Object]]
      /\ sync \in [Syncs -> SyncObject] /\ Stripped(src) \in Object
  BY ObjectOps DEF TypeOK, ClusterTypeOK
<1>2. src' \in Object
  BY <1>1 DEF EndReconcile, EndReconcileFails
<1> QED BY <1>1, <1>2, IdleType, TypeOfWorkerStep DEF EndReconcile, EndReconcileFails

LEMMA TypeInit == RcInit => TypeOK
<1> SUFFICES ASSUME RcInit PROVE TypeOK
  OBVIOUS
<1>1. src \in Object
  BY DEF RcInit, ClusterInit, Object, Phase, First
<1>2. dst \in [Syncs -> [Namespaces -> Object]]
  BY DEF RcInit, ClusterInit, Object, Phase, Empty
<1>3. sync \in [Syncs -> SyncObject]
  BY EmptyStatus DEF RcInit, ClusterInit, SyncObject, Phase
<1>4. ns \in [Namespaces -> NsPhase] /\ nsCache \in [Namespaces -> NsPhase]
  BY DEF RcInit, ClusterInit, NsPhase
<1>5. edits \in 0..MaxEdits /\ faults \in 0..MaxFaults
  BY BoundsAssumption DEF RcInit, ClusterInit
<1> QED BY <1>1, <1>2, <1>3, <1>4, <1>5, IdleType DEF RcInit, TypeOK, ClusterTypeOK

\* Every step keeps the types, given that no visit starts without attempts.
LEMMA TypeStep == TypeOK /\ AttemptsLeft /\ [RcNext]_vars => TypeOK'
<1> SUFFICES ASSUME TypeOK, AttemptsLeft, [RcNext]_vars PROVE TypeOK'
  OBVIOUS
<1>1. CASE UNCHANGED vars
  BY <1>1 DEF vars, clusterVars, rcVars, TypeOK, ClusterTypeOK
<1>2. CASE WorkerStep
  BY <1>2, TypeLookup, TypeBegin, TypeDelete, TypeStatus, TypeUpsert, TypeEnd DEF WorkerStep
<1>3. CASE WorkerFault
  BY <1>3, TypeLookup, TypeDelete, TypeStatus, TypeUpsert, TypeEnd DEF WorkerFault
<1>4. CASE Watch \/ Release \/ Crash \/ \E x \in Syncs : Register(x)
  BY <1>4, TypeAround
<1>5. CASE (UserOnCopies \/ NamespaceController) /\ UNCHANGED rcVars
  BY <1>5, TypeUsers, TypeNamespaceController
<1> QED BY <1>1, <1>2, <1>3, <1>4, <1>5 DEF RcNext

---------------------------------------------------------------------------
(* The invariant RcInv: frames shared by the actions.                      *)

CopiesOnlyGo ==
    \A x \in Syncs, n \in Namespaces : dst'[x][n].st = "live" => dst[x][n].st = "live"

StatusesStay ==
    \A x \in Syncs : sync'[x].st = sync[x].st /\ sync'[x].status = sync[x].status

\* No operation of the API server but a creation brings a copy to life.
LEMMA NotRevived ==
    ASSUME NEW obj \in Object
    PROVE  /\ Deleted(obj).st # "live" 
           /\ Stripped(obj).st = "live" => obj.st = "live"
           /\ \A c \in Nat : Updated(obj, c).st = obj.st
  BY DEF Deleted, Stripped, WithoutFinalizer, Gone, Updated, Object

LEMMA OneCopyGoes ==
    ASSUME TypeOK, NEW x \in Syncs, NEW n \in Namespaces, NEW obj,
           dst' = [dst EXCEPT ![x][n] = obj], obj.st = "live" => dst[x][n].st = "live"
    PROVE  CopiesOnlyGo
  BY DEF CopiesOnlyGo, TypeOK, ClusterTypeOK

\* Around a worker that stands still nothing but the loss of copies happens.
LEMMA QuietStep ==
    ASSUME RcInv, w' = w, CopiesOnlyGo, StatusesStay, w.cur \subseteq Syncs,
           w.loaded \subseteq Syncs
    PROVE  RcInv'
<1> USE DEF RcInv, CopiesOnlyGo, StatusesStay
<1>1. TrackedForGC'
  BY DEF TrackedForGC
<1>2. AttemptsLeft' /\ SyncsStay' /\ OneAtATime'
  BY DEF AttemptsLeft, SyncsStay, OneAtATime
<1>3. ViewsCurrent'
  BY DEF ViewsCurrent
<1>4. DeletesAllStale'
  BY DEF DeletesAllStale, Deleting, SourceTerminating
<1>5. WritesOnlyTracked'
  BY DEF WritesOnlyTracked, Upserting
<1> QED BY <1>1, <1>2, <1>3, <1>4, <1>5

\* An idle worker remembers nothing.
LEMMA IdleStep ==
    ASSUME RcInv, w' = Idle, UNCHANGED <<dst, sync>>
    PROVE  RcInv'
<1>1. /\ w'.pc = "idle" /\ w'.cur = {} /\ w'.loaded = {} /\ w'.at = {}
  BY DEF Idle
<1> QED BY <1>1 DEF RcInv, TrackedForGC, AttemptsLeft, SyncsStay, OneAtATime, ViewsCurrent,
        DeletesAllStale, Deleting, WritesOnlyTracked, Upserting

\* What NextSync and NextCopy keep.
LEMMA OpsShape ==
    ASSUME NEW v \in Worker
    PROVE  /\ NextSync(v).pc = "loop" /\ NextSync(v).cur = {} /\ NextSync(v).at = {}
           /\ NextSync(v).loaded = v.loaded
           /\ \A x \in Syncs : x \in v.loaded => NextSync(v).view[x] = v.view[x]
           /\ NextCopy(v).pc = "upsert" /\ NextCopy(v).cur = v.cur /\ NextCopy(v).at = {}
           /\ NextCopy(v).loaded = v.loaded /\ NextCopy(v).view = v.view
           /\ NextCopy(v).todo = v.todo \ v.at
<1>1. /\ NextSync(v).pc = "loop" /\ NextSync(v).cur = {} /\ NextSync(v).at = {}
      /\ NextSync(v).loaded = v.loaded
      /\ \A x \in Syncs : x \in v.loaded => NextSync(v).view[x] = v.view[x]
  BY DEF NextSync, Idle
<1>2. /\ NextCopy(v).pc = "upsert" /\ NextCopy(v).cur = v.cur /\ NextCopy(v).at = {}
      /\ NextCopy(v).loaded = v.loaded /\ NextCopy(v).view = v.view
      /\ NextCopy(v).todo = v.todo \ v.at
  BY DEF NextCopy, Worker
<1> QED BY <1>1, <1>2

\* The worker returns to its loop: only the loaded views matter from there.
LEMMA LeaveStep ==
    ASSUME TypeOK, RcInv, NEW v \in Worker, v.loaded \subseteq w.loaded, v.view = w.view,
           w' = NextSync(v), TrackedForGC',
           \A y \in Syncs : sync'[y].st = sync[y].st,
           \A y \in w.loaded : sync'[y].status = sync[y].status
    PROVE  RcInv'
<1>1. /\ w'.pc = "loop" /\ w'.cur = {} /\ w'.at = {} /\ w'.loaded = v.loaded
      /\ \A x \in Syncs : x \in v.loaded => w'.view[x] = w.view[x]
  BY OpsShape
<1>2. SyncsStay'
  BY DEF RcInv, SyncsStay
<1>3. ViewsCurrent'
  BY <1>1, WorkerFields DEF RcInv, ViewsCurrent
<1>4. AttemptsLeft' /\ OneAtATime'
  BY <1>1 DEF AttemptsLeft, OneAtATime
<1>5. DeletesAllStale' /\ WritesOnlyTracked'
  BY <1>1 DEF DeletesAllStale, Deleting, WritesOnlyTracked, Upserting
<1> QED BY <1>2, <1>3, <1>4, <1>5 DEF RcInv

LEMMA BailOutStep ==
    ASSUME TypeOK, RcInv, w' = BailOut(w) \/ w' = NextSync(w), TrackedForGC',
           \A y \in Syncs : sync'[y].st = sync[y].st,
           \A y \in w.loaded : sync'[y].status = sync[y].status
    PROVE  RcInv'
<1>1. /\ [w EXCEPT !.ok = FALSE] \in Worker
      /\ [w EXCEPT !.ok = FALSE].loaded = w.loaded /\ [w EXCEPT !.ok = FALSE].view = w.view
  BY WorkerFields DEF Worker
<1> QED BY <1>1, WorkerFields, LeaveStep DEF BailOut

\* The worker goes on writing copies of the same ObjectSync.
LEMMA WritingStep ==
    ASSUME TypeOK, RcInv, Upserting, Upserting', AttemptsLeft', TrackedForGC', StatusesStay,
           w'.cur = w.cur, w'.loaded = w.loaded, w'.todo \cup w'.at \subseteq w.todo \cup w.at,
           \A y \in Syncs : /\ w'.view[y].orig = w.view[y].orig
                            /\ w'.view[y].mod.dest = w.view[y].mod.dest
                            /\ y \in w.loaded => w'.view[y] = w.view[y]
    PROVE  RcInv'
<1>1. SyncsStay' /\ OneAtATime'
  BY DEF RcInv, SyncsStay, OneAtATime, StatusesStay, Upserting
<1>2. ViewsCurrent'
  BY WorkerFields DEF RcInv, ViewsCurrent, StatusesStay
<1>3. DeletesAllStale'
  BY DEF DeletesAllStale, Deleting, Upserting
<1>4. WritesOnlyTracked'
  BY WorkerFields DEF RcInv, WritesOnlyTracked, StatusesStay
<1> QED BY <1>1, <1>2, <1>3, <1>4 DEF RcInv

---------------------------------------------------------------------------
(* The invariant RcInv: one lemma per group of actions.                    *)

LEMMA InvUsers ==
    ASSUME TypeOK, RcInv, UserOnCopies, UNCHANGED rcVars
    PROVE  RcInv'
<1> USE DEF CopiesOnlyGo, StatusesStay
<1>1. w' = w /\ w.cur \subseteq Syncs /\ w.loaded \subseteq Syncs
  BY WorkerFields DEF rcVars
<1>2. CASE EditSource \/ DeleteSource \/ CreateSource \/
           \E n \in Namespaces : DeleteNamespace(n) \/ CreateNamespace(n)
  <2>1. UNCHANGED <<dst, sync>>
    BY <1>2 DEF EditSource, DeleteSource, CreateSource, DeleteNamespace, CreateNamespace
  <2> QED BY <1>1, <2>1, QuietStep
<1>3. ASSUME NEW x \in Syncs, EditWant(x) PROVE RcInv'
  <2>1. PICK W \in SUBSET Namespaces \ {sync[x].want} :
            sync' = [sync EXCEPT ![x].want = W, ![x].rv = @ + 1]
    BY <1>3 DEF EditWant
  <2>2. StatusesStay
    BY <2>1 DEF TypeOK, ClusterTypeOK, SyncObject
  <2>3. CopiesOnlyGo
    BY <1>3 DEF EditWant
  <2> QED BY <1>1, <2>2, <2>3, QuietStep
<1>4. ASSUME NEW x \in Syncs, NEW n \in Namespaces, DriftCopy(x, n) PROVE RcInv'
  <2>1. CopiesOnlyGo
    BY <1>4 DEF DriftCopy, TypeOK, ClusterTypeOK, Object
  <2>2. StatusesStay
    BY <1>4 DEF DriftCopy
  <2> QED BY <1>1, <2>1, <2>2, QuietStep
<1>5. ASSUME NEW x \in Syncs, NEW n \in Namespaces, DeleteCopy(x, n) PROVE RcInv'
  <2>1. CopiesOnlyGo
    BY <1>5, TypeOfCopy, NotRevived, OneCopyGoes DEF DeleteCopy
  <2>2. StatusesStay
    BY <1>5 DEF DeleteCopy
  <2> QED BY <1>1, <2>1, <2>2, QuietStep
<1> QED BY <1>2, <1>3, <1>4, <1>5 DEF UserOnCopies

LEMMA InvNamespaceController ==
    ASSUME TypeOK, RcInv, NamespaceController, UNCHANGED rcVars
    PROVE  RcInv'
<1>1. w' = w /\ w.cur \subseteq Syncs /\ w.loaded \subseteq Syncs
  BY WorkerFields DEF rcVars
<1>2. StatusesStay
  BY DEF NamespaceController, EmptyNamespace, RemoveNamespace, StatusesStay
<1>3. ASSUME NEW n \in Namespaces, EmptyNamespace(n) PROVE CopiesOnlyGo
  <2>1. dst' = [x \in Syncs |-> [dst[x] EXCEPT ![n] = Deleted(dst[x][n])]]
    BY <1>3 DEF EmptyNamespace
  <2>2. \A x \in Syncs : Deleted(dst[x][n]).st # "live"
    BY <1>3, TypeOfCopy, NotRevived
  <2>3. \A x \in Syncs : dst[x] \in [Namespaces -> Object]
    BY DEF TypeOK, ClusterTypeOK
  <2> QED BY <2>1, <2>2, <2>3 DEF CopiesOnlyGo
<1>4. ASSUME NEW n \in Namespaces, RemoveNamespace(n) PROVE CopiesOnlyGo
  BY <1>4 DEF RemoveNamespace, CopiesOnlyGo
<1> QED BY <1>1, <1>2, <1>3, <1>4, QuietStep DEF NamespaceController

LEMMA InvAround ==
    ASSUME TypeOK, RcInv, Watch \/ Release \/ Crash \/ \E x \in Syncs : Register(x)
    PROVE  RcInv'
<1>1. w.cur \subseteq Syncs /\ w.loaded \subseteq Syncs
  BY WorkerFields
<1>2. CASE Crash
  BY <1>2, IdleStep DEF Crash
<1>3. CASE Watch \/ \E x \in Syncs : Register(x)
  <2>1. UNCHANGED <<dst, sync, w>>
    BY <1>3 DEF Watch, WatchSource, WatchNamespace, Register, clusterVars
  <2> QED BY <1>1, <2>1, QuietStep DEF CopiesOnlyGo, StatusesStay
<1>4. ASSUME NEW x \in Syncs, NEW n \in Namespaces,
             ReleaseBegin(x, n) \/ ReleaseEnd(x, n) \/ ReleaseEndFails(x, n)
      PROVE  RcInv'
  <2>1. UNCHANGED <<sync, w>>
    BY <1>4 DEF ReleaseBegin, ReleaseEnd, ReleaseEndFails, clusterVars
  <2>2. CASE ReleaseEnd(x, n)
    <3>1. CopiesOnlyGo
      BY <2>2, TypeOfCopy, NotRevived, OneCopyGoes DEF ReleaseEnd
    <3> QED BY <1>1, <2>1, <3>1, QuietStep DEF StatusesStay
  <2>3. CASE ReleaseBegin(x, n) \/ ReleaseEndFails(x, n)
    <3>1. CopiesOnlyGo
      BY <2>3 DEF ReleaseBegin, ReleaseEndFails, clusterVars, CopiesOnlyGo
    <3> QED BY <1>1, <2>1, <3>1, QuietStep DEF StatusesStay
  <2> QED BY <1>4, <2>2, <2>3
<1> QED BY <1>2, <1>3, <1>4 DEF Release

LEMMA InvLookup ==
    ASSUME TypeOK, RcInv,
           \/ Start \/ SourceDeletedBranch \/ AddFinalizerIfMissing \/ AddFinalizerFails
           \/ \E x \in Syncs : LoadSync(x) \/ LoadSyncFails(x)
    PROVE  RcInv'
<1>1. UNCHANGED <<dst, sync>>
  BY DEF Start, SourceDeletedBranch, AddFinalizerIfMissing, AddFinalizerFails,
         LoadSync, LoadSyncFails, clusterVars
<1>2. w.cur = {} /\ w.at = {}
  BY DEF Start, SourceDeletedBranch, AddFinalizerIfMissing, AddFinalizerFails,
         LoadSync, LoadSyncFails, Running, RcInv, OneAtATime, AttemptsLeft
<1>3. /\ w'.pc \in {"lookup", "loop"} /\ w'.cur = {} /\ w'.at = {} /\ w'.loaded \subseteq Syncs
      /\ \A x \in w'.loaded : w'.view[x].orig = sync[x].status /\ w'.view[x].mod = sync[x].status
  <2>1. CASE Start
    BY <2>1 DEF Start, Idle
  <2>2. CASE SourceDeletedBranch \/ AddFinalizerIfMissing \/ AddFinalizerFails
    BY <1>2, <2>2, WorkerFields
    DEF SourceDeletedBranch, AddFinalizerIfMissing, AddFinalizerFails, Worker, RcInv, ViewsCurrent
  <2>3. ASSUME NEW x \in Syncs, LoadSync(x) \/ LoadSyncFails(x)
        PROVE  /\ w'.pc = "lookup" /\ w'.cur = {} /\ w'.at = {} /\ w'.loaded \subseteq Syncs
               /\ \A y \in w'.loaded : /\ w'.view[y].orig = sync[y].status
                                       /\ w'.view[y].mod = sync[y].status
    <3>1. /\ w'.pc = "lookup" /\ w'.cur = {} /\ w'.at = {}
          /\ \/ w'.loaded = w.loaded /\ w'.view = w.view
             \/ /\ w'.loaded = w.loaded \cup {x}
                /\ w'.view = [w.view EXCEPT ![x] = [want |-> sync[x].want,
                                orig |-> sync[x].status, mod |-> sync[x].status]]
      BY <1>2, <2>3, WorkerFields DEF LoadSync, LoadSyncFails, Running, Worker
    <3>2. w.view \in [Syncs -> View] /\ w.loaded \subseteq Syncs
      BY WorkerFields DEF Worker
    <3> QED BY <3>1, <3>2 DEF RcInv, ViewsCurrent
  <2> QED BY <2>1, <2>2, <2>3
<1> QED BY <1>1, <1>3 DEF RcInv, TrackedForGC, AttemptsLeft, SyncsStay, OneAtATime,
        ViewsCurrent, DeletesAllStale, Deleting, WritesOnlyTracked, Upserting

LEMMA InvBegin ==
    ASSUME TypeOK, RcInv, NEW x \in Syncs, BeginReconcile(x) \/ BeginSourceDeleted(x)
    PROVE  RcInv'
<1> USE DEF Others
<1>1. UNCHANGED <<dst, sync>>
  BY DEF BeginReconcile, BeginSourceDeleted, clusterVars
<1>2. w.cur = {} /\ w.at = {} /\ x \in w.loaded
  BY DEF BeginReconcile, BeginSourceDeleted, Running, RcInv, OneAtATime, AttemptsLeft
<1>3. w.view[x].orig = sync[x].status /\ w.view[x].mod = sync[x].status
  BY <1>2 DEF RcInv, ViewsCurrent
<1>4. \A n \in Namespaces : dst[x][n].st = "live" => n \in w.view[x].mod.dest
  BY <1>3 DEF RcInv, TrackedForGC
<1>5. CASE BeginReconcile(x) \/ w.view[x].mod.listed
  <2>1. PICK D, T \in SUBSET Namespaces :
          /\ w' = [w EXCEPT !.pc = "delete", !.loaded = Others(x), !.cur = {x}, !.plan = D, !.todo = T]
          /\ w.view[x].mod.dest \subseteq D \cup T
          /\ SourceTerminating => D = {}
    <3>1. w.view[x].mod.dest \subseteq Namespaces /\ w.view[x].want \subseteq Namespaces
      BY WorkerFields DEF Worker, View, Status
    <3>2. CASE BeginReconcile(x)
      <4>1. ExpectedDestinations(x) \subseteq Namespaces
        BY <3>1 DEF ExpectedDestinations
      <4>2. w' = [w EXCEPT !.pc = "delete", !.loaded = Others(x), !.cur = {x},
                           !.plan = ExpectedDestinations(x),
                           !.todo = w.view[x].mod.dest \ ExpectedDestinations(x)]
        BY <3>2 DEF BeginReconcile
      <4>3. ~SourceTerminating
        BY <3>2 DEF BeginReconcile
      <4> DEFINE D == ExpectedDestinations(x)
                 T == w.view[x].mod.dest \ ExpectedDestinations(x)
      <4>4. /\ w' = [w EXCEPT !.pc = "delete", !.loaded = Others(x), !.cur = {x},
                              !.plan = D, !.todo = T]
            /\ D \in SUBSET Namespaces /\ T \in SUBSET Namespaces
            /\ w.view[x].mod.dest \subseteq D \cup T
        BY <3>1, <4>1, <4>2
      <4> HIDE DEF D, T
      <4> QED BY <4>3, <4>4
    <3>3. CASE BeginSourceDeleted(x) /\ w.view[x].mod.listed
      <4>1. w' = [w EXCEPT !.pc = "delete", !.loaded = Others(x), !.cur = {x},
                           !.plan = {}, !.todo = w.view[x].mod.dest]
        BY <3>3 DEF BeginSourceDeleted
      <4>2. {} \in SUBSET Namespaces /\ w.view[x].mod.dest \in SUBSET Namespaces
        BY <3>1
      <4> QED BY <4>1, <4>2
    <3> QED BY <1>5, <3>2, <3>3
  <2>6. /\ w'.pc = "delete" /\ w'.cur = {x} /\ w'.at = {} /\ w'.loaded = w.loaded \ {x}
        /\ w'.view = w.view /\ w'.src = w.src
        /\ w.view[x].mod.dest \subseteq w'.plan \cup w'.todo
        /\ w.src.st = "term" => w'.plan = {}
    BY <1>2, <2>1, WorkerFields DEF SourceTerminating, Worker
  <2>2. TrackedForGC' /\ SyncsStay' /\ AttemptsLeft' /\ OneAtATime'
    BY <1>1, <2>6 DEF RcInv, TrackedForGC, SyncsStay, AttemptsLeft, OneAtATime
  <2>3. ViewsCurrent'
    BY <1>1, <1>3, <2>6 DEF RcInv, ViewsCurrent
  <2>4. DeletesAllStale'
    BY <1>1, <1>3, <1>4, <2>6 DEF DeletesAllStale, SourceTerminating
  <2>5. WritesOnlyTracked'
    BY <2>6 DEF WritesOnlyTracked, Upserting
  <2> QED BY <2>2, <2>3, <2>4, <2>5 DEF RcInv
<1>6. CASE BeginSourceDeleted(x) /\ ~w.view[x].mod.listed
  <2>1. [w EXCEPT !.loaded = Others(x)] \in Worker
    BY WorkerFields DEF Worker
  <2>2. /\ [w EXCEPT !.loaded = Others(x)].loaded \subseteq w.loaded
        /\ [w EXCEPT !.loaded = Others(x)].view = w.view
    BY WorkerFields DEF Worker
  <2>3. w' = NextSync([w EXCEPT !.loaded = Others(x)])
    BY <1>6 DEF BeginSourceDeleted
  <2>4. TrackedForGC'
    BY <1>1 DEF RcInv, TrackedForGC
  <2> QED BY <1>1, <2>1, <2>2, <2>3, <2>4, LeaveStep
<1> QED BY <1>5, <1>6

LEMMA InvDelete ==
    ASSUME TypeOK, RcInv, NEW x \in Syncs, NEW n \in Namespaces,
           \/ GetStale(x, n) \/ StripStale(x, n) \/ StripStaleFails(x, n)
           \/ DestroyStale(x, n) \/ DestroyStaleFails(x, n)
    PROVE  RcInv'
<1> USE DEF AfterGet
<1>1. sync' = sync
  BY DEF GetStale, StripStale, StripStaleFails, DestroyStale, DestroyStaleFails, clusterVars
<1>2. Deleting /\ x \in w.cur
  BY DEF GetStale, StripStale, StripStaleFails, DestroyStale, DestroyStaleFails, Running, Deleting
<1>3. CopiesOnlyGo
  <2>1. /\ Deleted(dst[x][n]).st # "live"
        /\ Stripped(dst[x][n]).st = "live" => dst[x][n].st = "live"
    BY TypeOfCopy, NotRevived
  <2>2. CASE DestroyStale(x, n)
    BY <2>1, <2>2, OneCopyGoes DEF DestroyStale
  <2>3. CASE StripStale(x, n)
    BY <2>1, <2>3, OneCopyGoes DEF StripStale
  <2>4. CASE GetStale(x, n) \/ StripStaleFails(x, n) \/ DestroyStaleFails(x, n)
    BY <2>4 DEF GetStale, StripStaleFails, DestroyStaleFails, clusterVars, CopiesOnlyGo
  <2> QED BY <2>2, <2>3, <2>4
<1>4. /\ w'.cur = w.cur /\ w'.loaded = w.loaded /\ w'.view = w.view /\ w'.src = w.src
      /\ w'.plan = w.plan
      /\ w'.pc \in {"delete", "strip", "destroy"} /\ (w'.pc = "delete" => w'.at = {})
      /\ \/ w'.todo = w.todo /\ w'.kept = w.kept
         \/ w'.todo = w.todo \ {n} /\ w'.kept = w.kept /\ dst'[x][n].st # "live"
         \/ w'.todo = w.todo \ {n} /\ w'.kept = w.kept \cup {n}
  <2>1. CASE DestroyStale(x, n)
    <3>1. dst'[x][n].st # "live"
      BY <2>1, TypeOfCopy, NotRevived DEF DestroyStale, TypeOK, ClusterTypeOK
    <3> QED BY <2>1, <3>1, WorkerFields DEF DestroyStale, Worker
  <2>2. CASE GetStale(x, n) \/ StripStale(x, n) \/ StripStaleFails(x, n) \/ DestroyStaleFails(x, n)
    BY <2>2, WorkerFields DEF GetStale, StripStale, StripStaleFails, DestroyStaleFails, Worker
  <2> QED BY <2>1, <2>2
<1>5. TrackedForGC' /\ SyncsStay' /\ AttemptsLeft' /\ OneAtATime'
  BY <1>1, <1>3, <1>4 DEF RcInv, TrackedForGC, SyncsStay, AttemptsLeft, OneAtATime, CopiesOnlyGo
<1>6. ViewsCurrent'
  BY <1>1, <1>4 DEF RcInv, ViewsCurrent
<1>7. DeletesAllStale'
  <2>1. \A y \in w.cur : y = x
    BY <1>2 DEF RcInv, OneAtATime
  <2>2. \A m \in Namespaces : dst'[x][m].st = "live" => m \in w'.plan \cup w'.kept \cup w'.todo
    BY <1>2, <1>3, <1>4 DEF RcInv, DeletesAllStale, CopiesOnlyGo
  <2> QED BY <1>2, <1>4, <2>1, <2>2 DEF RcInv, DeletesAllStale, SourceTerminating
<1>8. WritesOnlyTracked'
  BY <1>4 DEF WritesOnlyTracked, Upserting
<1> QED BY <1>5, <1>6, <1>7, <1>8 DEF RcInv

\* A call that fails for good leaves the ObjectSync, with nothing written.
LEMMA InvBailOut ==
    ASSUME TypeOK, RcInv, NEW x \in Syncs,
           \/ \E n \in Namespaces : GetStaleFails(x, n)
           \/ TrackDestinationsFails(x) \/ FinishPurgeFails(x) \/ FinishUpsertFails(x)
    PROVE  RcInv'
<1>1. UNCHANGED <<dst, sync>> /\ w' = BailOut(w)
  BY DEF GetStaleFails, TrackDestinationsFails, FinishPurgeFails, FinishUpsertFails
<1>2. TrackedForGC'
  BY <1>1 DEF RcInv, TrackedForGC
<1> QED BY <1>1, <1>2, BailOutStep

\* Writing a status: the other ObjectSyncs keep theirs, and this one gets it
\* (nothing needs to be sent when it is the stored one).
LEMMA WritesStatus ==
    ASSUME TypeOK, RcInv, NEW x \in w.cur, NEW s \in Status, StatusWritten(x, s)
    PROVE  /\ sync'[x].status = s
           /\ \A y \in Syncs : sync'[y].st = sync[y].st
           /\ \A y \in Syncs \ {x} : sync'[y] = sync[y]
           /\ \A y \in w.loaded : sync'[y].status = sync[y].status
           /\ StatusAccepted(x, s)
<1>1. x \in Syncs /\ w.loaded \subseteq Syncs /\ x \notin w.loaded
  BY WorkerFields DEF RcInv, OneAtATime
<1>2. w.view[x].orig = sync[x].status /\ Exists(sync[x])
  BY <1>1 DEF RcInv, ViewsCurrent, SyncsStay, Exists
<1> QED BY <1>1, <1>2, StatusWrittenOps DEF StatusAccepted

LEMMA InvStatus ==
    ASSUME TypeOK, RcInv, NEW x \in Syncs,
           TrackDestinations(x) \/ FinishPurge(x) \/ FinishUpsert(x)
    PROVE  RcInv'
<1>1. dst' = dst /\ x \in w.cur /\ x \notin w.loaded
  BY DEF TrackDestinations, FinishPurge, FinishUpsert, RcInv, OneAtATime
<1>2. \A y \in w.cur : y = x
  BY <1>1 DEF RcInv, OneAtATime
<1>3. CASE TrackDestinations(x)
  <2> DEFINE s == Tracking(x)
  <2>1. s \in Status /\ s.dest = w.plan \cup w.kept
    BY TypeOfStatuses
  <2>2. StatusWritten(x, s) /\ w.todo = {} /\ w.pc = "delete"
    BY <1>3 DEF TrackDestinations, Running
  <2>3. /\ sync'[x].status = s /\ StatusAccepted(x, s)
        /\ \A y \in Syncs : sync'[y].st = sync[y].st
        /\ \A y \in Syncs \ {x} : sync'[y] = sync[y]
    BY <1>1, <2>1, <2>2, WritesStatus
  <2> HIDE DEF s
  <2>4. Saved(w, x, s) \in Worker
    BY <2>1, SavedOps, WorkerFields
  <2>5. w' = [Saved(w, x, s) EXCEPT !.pc = "upsert", !.todo = s.dest \ w.kept]
    BY <1>3, <2>3 DEF TrackDestinations, s
  <2>6. /\ Saved(w, x, s).cur = w.cur /\ Saved(w, x, s).loaded = w.loaded
        /\ Saved(w, x, s).at = w.at
        /\ Saved(w, x, s).view[x].orig = s /\ Saved(w, x, s).view[x].mod = s
        /\ \A y \in Syncs \ {x} : Saved(w, x, s).view[y] = w.view[y]
    BY WorkerFields DEF Saved, Worker, View
  <2>7. /\ w'.pc = "upsert" /\ w'.todo \subseteq s.dest /\ w'.cur = w.cur /\ w'.loaded = w.loaded
        /\ w'.at = {} /\ w'.view[x].orig = s /\ w'.view[x].mod = s
        /\ \A y \in Syncs \ {x} : w'.view[y] = w.view[y]
    BY <2>2, <2>4, <2>5, <2>6 DEF Worker, RcInv, AttemptsLeft
  <2>8. TrackedForGC'
    <3>1. \A n \in Namespaces : dst[x][n].st = "live" => n \in s.dest
      BY <1>1, <2>1, <2>2 DEF RcInv, DeletesAllStale, Deleting
    <3> QED BY <1>1, <2>3, <3>1 DEF RcInv, TrackedForGC
  <2>9. SyncsStay' /\ AttemptsLeft' /\ OneAtATime' /\ DeletesAllStale'
    BY <2>3, <2>7
    DEF RcInv, SyncsStay, AttemptsLeft, OneAtATime, DeletesAllStale, Deleting
  <2>10. ViewsCurrent'
    BY <1>1, <1>2, <2>3, <2>7, WorkerFields DEF RcInv, ViewsCurrent
  <2>11. WritesOnlyTracked'
    BY <1>2, <2>1, <2>3, <2>7 DEF WritesOnlyTracked
  <2> QED BY <2>8, <2>9, <2>10, <2>11 DEF RcInv
<1>4. CASE FinishPurge(x)
  <2>1. /\ sync'[x].status = Purged(x)
        /\ \A y \in Syncs : sync'[y].st = sync[y].st
        /\ \A y \in Syncs \ {x} : sync'[y] = sync[y]
        /\ \A y \in w.loaded : sync'[y].status = sync[y].status
    BY <1>1, <1>4, TypeOfStatuses, WritesStatus DEF FinishPurge
  <2>2. TrackedForGC'
    <3>1. w.plan = {} /\ w.todo = {}
      BY <1>4 DEF FinishPurge, Running, RcInv, DeletesAllStale, Deleting
    <3>2. \A n \in Namespaces : dst[x][n].st = "live" => n \in w.kept
      BY <1>1, <1>4, <3>1 DEF FinishPurge, Running, RcInv, DeletesAllStale, Deleting
    <3> QED BY <1>1, <2>1, <3>2, TypeOfStatuses DEF RcInv, TrackedForGC
  <2> QED BY <1>4, <2>1, <2>2, BailOutStep DEF FinishPurge
<1>5. CASE FinishUpsert(x)
  <2>1. /\ sync'[x].status = Outcome(x)
        /\ \A y \in Syncs : sync'[y].st = sync[y].st
        /\ \A y \in Syncs \ {x} : sync'[y] = sync[y]
        /\ \A y \in w.loaded : sync'[y].status = sync[y].status
    BY <1>1, <1>5, TypeOfStatuses, WritesStatus DEF FinishUpsert
  <2>2. TrackedForGC'
    <3>1. w.view[x].mod.dest = sync[x].status.dest /\ w.view[x].orig = sync[x].status
      BY <1>1, <1>5 DEF FinishUpsert, Running, RcInv, WritesOnlyTracked, Upserting, ViewsCurrent
    <3>2. Outcome(x).dest = sync[x].status.dest
      BY <3>1, WorkerFields DEF Outcome, Status
    <3> QED BY <1>1, <2>1, <3>2 DEF RcInv, TrackedForGC
  <2> QED BY <1>5, <2>1, <2>2, BailOutStep DEF FinishUpsert
<1> QED BY <1>3, <1>4, <1>5

\* What a step within the copies of one ObjectSync leaves of the worker v.
GoesOn(v) ==
    /\ v.pc \in {"upsert", "release", "update", "create"}
    /\ v.pc = "upsert" /\ v.at # {} => v.tries > 0
    /\ v.cur = w.cur /\ v.loaded = w.loaded /\ v.view = w.view
    /\ v.todo \cup v.at \subseteq w.todo \cup w.at

\* Giving a copy up, trying it again and comparing versions go on.
LEMMA GoesOnOps ==
    ASSUME NEW v \in Worker, v.cur = w.cur, v.loaded = w.loaded, v.view = w.view,
           v.todo \cup v.at \subseteq w.todo \cup w.at, NEW x, NEW n, NEW rv \in Nat
    PROVE  /\ GoesOn(NextCopy(v)) /\ GoesOn(Missed(v)) /\ GoesOn(Retry(v))
           /\ GoesOn(CompareVersions(v, x, n, rv))
<1>1. GoesOn(NextCopy(v))
  BY OpsShape DEF GoesOn
<1>2. GoesOn(Missed(v))
  <2>1. /\ [v EXCEPT !.missed = TRUE] \in Worker
        /\ [v EXCEPT !.missed = TRUE].cur = v.cur /\ [v EXCEPT !.missed = TRUE].at = v.at
        /\ [v EXCEPT !.missed = TRUE].loaded = v.loaded
        /\ [v EXCEPT !.missed = TRUE].view = v.view
        /\ [v EXCEPT !.missed = TRUE].todo = v.todo
    BY DEF Worker
  <2> QED BY <2>1, OpsShape DEF Missed, GoesOn
<1>3. GoesOn(Retry(v))
  BY <1>2 DEF Retry, GoesOn, Worker
<1>4. GoesOn(CompareVersions(v, x, n, rv))
  BY <1>1 DEF CompareVersions, GoesOn, Worker
<1> QED BY <1>1, <1>2, <1>3, <1>4

LEMMA GoesOnStep ==
    ASSUME TypeOK, RcInv, Upserting, GoesOn(w'), CopiesOnlyGo, StatusesStay
    PROVE  RcInv'
<1>1. Upserting' /\ AttemptsLeft' /\ TrackedForGC'
  BY DEF GoesOn, Upserting, AttemptsLeft, RcInv, TrackedForGC, CopiesOnlyGo, StatusesStay
<1> QED BY <1>1, WritingStep DEF GoesOn

\* A copy was written: only the versions of its entry are new.
LEMMA WrittenStep ==
    ASSUME TypeOK, RcInv, Upserting, NEW x \in w.cur, NEW n \in Namespaces, NEW rv \in Nat,
           w' = Written(x, n, rv), TrackedForGC', StatusesStay
    PROVE  RcInv'
<1> DEFINE new == [w.view EXCEPT ![x].mod = Versioned(x, n, rv)]
           v == [w EXCEPT !.view = new, !.changed = TRUE]
<1>1. x \in Syncs /\ x \notin w.loaded
  BY WorkerFields DEF RcInv, OneAtATime
<1>2. Versioned(x, n, rv) \in Status /\ Versioned(x, n, rv).dest = w.view[x].mod.dest
  <2>1. w.view[x].mod.sv \in [Namespaces -> Nat] /\ w.view[x].mod.dv \in [Namespaces -> Nat]
    BY <1>1, WorkerFields DEF Status
  <2> QED BY <1>1, <2>1, WorkerFields DEF Versioned, Status
<1>3. /\ new \in [Syncs -> View]
      /\ \A y \in Syncs : new[y].orig = w.view[y].orig /\ new[y].mod.dest = w.view[y].mod.dest
      /\ \A y \in Syncs \ {x} : new[y] = w.view[y]
  <2>1. w.view \in [Syncs -> View]
    BY WorkerFields DEF Worker
  <2> QED BY <1>1, <1>2, <2>1 DEF View
<1>4. w' = NextCopy(v)
  BY WorkerFields DEF Written, Worker, View
<1> HIDE DEF new
<1>5. /\ v \in Worker /\ v.cur = w.cur /\ v.loaded = w.loaded /\ v.view = new
      /\ v.todo = w.todo /\ v.at = w.at
  BY <1>3, WorkerFields DEF Worker
<1> HIDE DEF v
<1>6. /\ w'.pc = "upsert" /\ w'.at = {} /\ w'.cur = w.cur /\ w'.loaded = w.loaded
      /\ w'.view = new /\ w'.todo = w.todo \ w.at
  BY <1>4, <1>5, OpsShape
<1>7. Upserting' /\ AttemptsLeft'
  BY <1>6 DEF Upserting, AttemptsLeft
<1> QED BY <1>1, <1>3, <1>6, <1>7, WritingStep

LEMMA InvUpsert ==
    ASSUME TypeOK, RcInv, NEW x \in Syncs, NEW n \in Namespaces,
           \/ GetCopy(x, n) \/ GetCopyFails(x, n)
           \/ ReleaseCopy(x, n) \/ ReleaseCopyFails(x, n)
           \/ UpdateCopy(x, n) \/ UpdateCopyConflict(x, n)
           \/ CreateCopy(x, n) \/ CreateCopyRefused(x, n)
           \/ WriteCopyFails(x, n)
    PROVE  RcInv'
<1> USE DEF clusterVars
<1>1. Upserting /\ x \in w.cur /\ StatusesStay
  BY DEF GetCopy, GetCopyFails, ReleaseCopy, ReleaseCopyFails, UpdateCopy, UpdateCopyConflict,
         CreateCopy, CreateCopyRefused, WriteCopyFails, Running, Upserting, StatusesStay
<1>2. w \in Worker /\ w.seen \in Nat /\ dst[x][n] \in Object /\ dst[x][n].rv \in Nat
  BY WorkerFields, TypeOfCopy DEF Worker
<1>3. CASE GetCopy(x, n)
  <2>1. n \in w.todo \cup w.at
    BY <1>3 DEF GetCopy
  <2>2. Visited(n) \in Worker
    BY <1>3, VisitedOps DEF GetCopy, Running, RcInv, AttemptsLeft
  <2>3. /\ Visited(n).cur = w.cur /\ Visited(n).loaded = w.loaded /\ Visited(n).view = w.view
        /\ Visited(n).todo \cup Visited(n).at \subseteq w.todo \cup w.at
    BY <1>2, <2>1 DEF Visited, Worker
  <2>4. GoesOn(CompareVersions(Visited(n), x, n, dst[x][n].rv))
    BY <1>2, <2>2, <2>3, GoesOnOps
  <2>5. GoesOn([Visited(n) EXCEPT !.pc = "create"])
    BY <2>2, <2>3 DEF GoesOn, Worker
  <2>6. GoesOn([Visited(n) EXCEPT !.pc = "release", !.seen = dst[x][n].rv])
    BY <2>2, <2>3 DEF GoesOn, Worker
  <2>7. GoesOn(w') /\ CopiesOnlyGo
    BY <1>3, <2>4, <2>5, <2>6 DEF GetCopy, CopiesOnlyGo
  <2> QED BY <1>1, <2>7, GoesOnStep
<1>4. CASE GetCopyFails(x, n)
  <2>1. n \in w.todo \cup w.at
    BY <1>4 DEF GetCopyFails
  <2>2. /\ [w EXCEPT !.at = {n}] \in Worker
        /\ [w EXCEPT !.at = {n}].cur = w.cur /\ [w EXCEPT !.at = {n}].loaded = w.loaded
        /\ [w EXCEPT !.at = {n}].view = w.view
        /\ [w EXCEPT !.at = {n}].todo \cup [w EXCEPT !.at = {n}].at \subseteq w.todo \cup w.at
    BY <1>2, <2>1 DEF Worker
  <2>3. GoesOn(w') /\ CopiesOnlyGo
    BY <1>2, <1>4, <2>2, GoesOnOps DEF GetCopyFails, CopiesOnlyGo
  <2> QED BY <1>1, <2>3, GoesOnStep
<1>5. CASE ReleaseCopy(x, n) \/ ReleaseCopyFails(x, n)
  <2>1. GoesOn(w')
    BY <1>2, <1>5, GoesOnOps DEF ReleaseCopy, ReleaseCopyFails
  <2>2. CASE ReleaseCopy(x, n)
    <3>1. CopiesOnlyGo
      BY <1>2, <2>2, NotRevived, OneCopyGoes DEF ReleaseCopy
    <3> QED BY <1>1, <2>1, <3>1, GoesOnStep
  <2>3. CASE ReleaseCopyFails(x, n)
    <3>1. CopiesOnlyGo
      BY <2>3 DEF ReleaseCopyFails, CopiesOnlyGo
    <3> QED BY <1>1, <2>1, <3>1, GoesOnStep
  <2> QED BY <1>5, <2>2, <2>3
<1>6. CASE UpdateCopyConflict(x, n) \/ CreateCopyRefused(x, n) \/ WriteCopyFails(x, n)
  <2>1. GoesOn(w') /\ dst' = dst
    BY <1>2, <1>6, GoesOnOps DEF UpdateCopyConflict, CreateCopyRefused, WriteCopyFails
  <2> QED BY <1>1, <2>1, GoesOnStep DEF CopiesOnlyGo
<1>7. CASE UpdateCopy(x, n)
  <2> DEFINE o == Updated(dst[x][n], w.src.data)
  <2>1. o \in Object /\ o.rv \in Nat /\ o.st = dst[x][n].st
    BY <1>2, WorkerFields, ObjectOps, NotRevived DEF Object
  <2>2. dst' = [dst EXCEPT ![x][n] = o] /\ w' = Written(x, n, o.rv)
    BY <1>7 DEF UpdateCopy
  <2> HIDE DEF o
  <2>3. CopiesOnlyGo
    BY <2>1, <2>2, OneCopyGoes
  <2>4. TrackedForGC'
    BY <1>1, <2>3 DEF RcInv, TrackedForGC, CopiesOnlyGo, StatusesStay
  <2> QED BY <1>1, <2>1, <2>2, <2>4, WrittenStep
<1>8. CASE CreateCopy(x, n)
  <2> DEFINE o == Created(dst[x][n], w.src.data)
  <2>1. dst' = [dst EXCEPT ![x][n] = o] /\ w' = Written(x, n, dst[x][n].rv + 1)
    BY <1>8 DEF CreateCopy
  <2>2. n \in sync[x].status.dest
    BY <1>1, <1>8 DEF CreateCopy, RcInv, WritesOnlyTracked
  <2> HIDE DEF o
  <2>3. \A y \in Syncs, m \in Namespaces :
            dst'[y][m].st = "live" => dst[y][m].st = "live" \/ (y = x /\ m = n)
    BY <2>1 DEF TypeOK, ClusterTypeOK
  <2>4. TrackedForGC'
    BY <1>1, <2>2, <2>3 DEF RcInv, TrackedForGC, StatusesStay
  <2>5. dst[x][n].rv + 1 \in Nat
    BY <1>2
  <2> QED BY <1>1, <2>1, <2>4, <2>5, WrittenStep
<1> QED BY <1>3, <1>4, <1>5, <1>6, <1>7, <1>8

LEMMA InvEnd ==
    ASSUME RcInv, EndReconcile \/ EndReconcileFails
    PROVE  RcInv'
  BY IdleStep DEF EndReconcile, EndReconcileFails

LEMMA InvInit == RcInit => RcInv
<1> SUFFICES ASSUME RcInit PROVE RcInv
  OBVIOUS
<1>1. /\ \A x \in Syncs, n \in Namespaces : dst[x][n].st = "absent"
      /\ \A x \in Syncs : sync[x].st = "live"
  BY DEF RcInit, ClusterInit
<1>2. w.pc = "idle" /\ w.cur = {} /\ w.loaded = {} /\ w.at = {}
  BY DEF RcInit, Idle
<1> QED BY <1>1, <1>2 DEF RcInv, TrackedForGC, AttemptsLeft, SyncsStay, OneAtATime,
        ViewsCurrent, DeletesAllStale, Deleting, WritesOnlyTracked, Upserting

\* The invariant is inductive.
LEMMA InvStep == TypeOK /\ RcInv /\ [RcNext]_vars => RcInv'
<1> SUFFICES ASSUME TypeOK, RcInv, [RcNext]_vars PROVE RcInv'
  OBVIOUS
<1>1. CASE UNCHANGED vars
  <2>1. UNCHANGED <<dst, sync, w>> /\ w.cur \subseteq Syncs /\ w.loaded \subseteq Syncs
    BY <1>1, WorkerFields DEF vars, clusterVars, rcVars
  <2> QED BY <2>1, QuietStep DEF CopiesOnlyGo, StatusesStay
<1>2. CASE WorkerStep
  BY <1>2, InvLookup, InvBegin, InvDelete, InvStatus, InvUpsert, InvEnd DEF WorkerStep
<1>3. CASE WorkerFault
  BY <1>3, InvLookup, InvDelete, InvBailOut, InvUpsert, InvEnd DEF WorkerFault
<1>4. CASE Watch \/ Release \/ Crash \/ \E x \in Syncs : Register(x)
  BY <1>4, InvAround
<1>5. CASE (UserOnCopies \/ NamespaceController) /\ UNCHANGED rcVars
  BY <1>5, InvUsers, InvNamespaceController
<1> QED BY <1>1, <1>2, <1>3, <1>4, <1>5 DEF RcNext

---------------------------------------------------------------------------
(* The theorems.                                                           *)

\* The inductive invariant, types included, holds of every behaviour of the
\* sub-controller.
THEOREM InvariantHolds == RcSpec => [](TypeOK /\ RcInv)
<1>1. RcInit => TypeOK /\ RcInv
  BY TypeInit, InvInit
<1>2. TypeOK /\ RcInv /\ [RcNext]_vars => (TypeOK /\ RcInv)'
  BY TypeStep, InvStep DEF RcInv
<1> QED BY <1>1, <1>2, PTL DEF RcSpec

\* Types are kept across all await points of the worker; in particular the
\* countdown of the attempts to write a copy never leaves the naturals.
THEOREM TypeCorrect == RcSpec => []TypeOK
  BY InvariantHolds, PTL

\* At any time, after any interleaving of the worker with users, other
\* controllers, failing calls and crashes, every live copy is listed in
\* status.destinations of its ObjectSync (reconcile_source, which writes the
\* list before the first copy).
THEOREM CopiesAreTracked == RcSpec => []TrackedForGC
<1>1. TypeOK /\ RcInv => TrackedForGC
  BY DEF RcInv
<1> QED BY <1>1, InvariantHolds, PTL
=============================================================================
