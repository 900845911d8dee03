------------------------- MODULE ObjectSyncerProofs -------------------------
(***************************************************************************)
(* Theorems about the whole syncer, both controllers together, for any     *)
(* ObjectSyncs, namespaces and bounds.                                     *)
(***************************************************************************)
EXTENDS ObjectSyncer, ResourceControllerProofs

---------------------------------------------------------------------------
(* The attempts of the worker, whatever the main controller does.          *)

\* A worker that starts a visit has an attempt left (AttemptsLeft of v).
HasAttempts(v) ==
    /\ v.pc \in {"idle", "lookup", "loop", "delete"} => v.at = {}
    /\ v.pc = "upsert" /\ v.at # {} => v.tries > 0

\* Leaving an ObjectSync or a copy, and trying a copy again, keep that.
LEMMA AttemptsOps ==
    ASSUME NEW v \in Worker, NEW x, NEW n, NEW rv \in Nat
    PROVE  /\ HasAttempts(Idle) /\ HasAttempts(NextSync(v)) /\ HasAttempts(BailOut(v))
           /\ HasAttempts(NextCopy(v)) /\ HasAttempts(Missed(v)) /\ HasAttempts(Retry(v))
           /\ HasAttempts(CompareVersions(v, x, n, rv))
<1>1. /\ [v EXCEPT !.ok = FALSE] \in Worker /\ [v EXCEPT !.missed = TRUE] \in Worker
  BY DEF Worker
<1>2. HasAttempts(Idle)
  BY DEF HasAttempts, Idle
<1>3. HasAttempts(NextSync(v)) /\ HasAttempts(BailOut(v))
  BY <1>1, OpsShape DEF HasAttempts, BailOut
<1>4. HasAttempts(NextCopy(v)) /\ HasAttempts(Missed(v))
  BY <1>1, OpsShape DEF HasAttempts, Missed
<1>5. HasAttempts(Retry(v))
  BY <1>4 DEF Retry, HasAttempts, Worker
<1>6. HasAttempts(CompareVersions(v, x, n, rv))
  BY <1>4 DEF CompareVersions, HasAttempts, Worker
<1> QED BY <1>2, <1>3, <1>4, <1>5, <1>6

\* No call of the worker, answered or failed, makes it visit a copy without
\* an attempt left.
LEMMA AttemptsStep ==
    ASSUME TypeOK, AttemptsLeft, WorkerStep \/ WorkerFault
    PROVE  AttemptsLeft'
<1>1. w \in Worker /\ w.seen \in Nat /\ HasAttempts(w)
  BY WorkerFields DEF Worker, AttemptsLeft, HasAttempts
<1>2. HasAttempts(w') => AttemptsLeft'
  BY DEF AttemptsLeft, HasAttempts
<1>3. CASE Start \/ SourceDeletedBranch \/ AddFinalizerIfMissing \/ AddFinalizerFails
  <2>1. CASE Start
    BY <1>2, <2>1 DEF Start, HasAttempts, Idle
  <2>2. CASE SourceDeletedBranch \/ AddFinalizerIfMissing \/ AddFinalizerFails
    BY <1>1, <1>2, <2>2
    DEF SourceDeletedBranch, AddFinalizerIfMissing, AddFinalizerFails, HasAttempts,
        Running, Worker
  <2> QED BY <1>3, <2>1, <2>2
<1>4. ASSUME NEW x \in Syncs, LoadSync(x) \/ LoadSyncFails(x) PROVE AttemptsLeft'
  <2>1. w'.pc = w.pc /\ w'.at = w.at /\ w'.tries = w.tries
    BY <1>1, <1>4 DEF LoadSync, LoadSyncFails, Worker
  <2> QED BY <1>1, <1>2, <2>1 DEF HasAttempts
<1>5. ASSUME NEW x \in Syncs, BeginReconcile(x) \/ BeginSourceDeleted(x) PROVE AttemptsLeft'
  <2>1. [w EXCEPT !.loaded = Others(x)] \in Worker
    BY <1>1 DEF Worker, Others
  <2>2. CASE w' = NextSync([w EXCEPT !.loaded = Others(x)])
    BY <1>2, <2>1, <2>2, AttemptsOps
  <2>3. CASE BeginReconcile(x)
    BY <1>1, <1>2, <2>3 DEF BeginReconcile, HasAttempts, Running, Worker
  <2>4. CASE BeginSourceDeleted(x) /\ w.view[x].mod.listed
    BY <1>1, <1>2, <2>4 DEF BeginSourceDeleted, HasAttempts, Running, Worker
  <2> QED BY <1>5, <2>2, <2>3, <2>4 DEF BeginSourceDeleted
<1>6. ASSUME NEW x \in Syncs, NEW n \in Namespaces,
             \/ GetStale(x, n) \/ StripStale(x, n) \/ StripStaleFails(x, n)
             \/ DestroyStale(x, n) \/ DestroyStaleFails(x, n)
      PROVE  AttemptsLeft'
  BY <1>1, <1>2, <1>6
  DEF GetStale, StripStale, StripStaleFails, DestroyStale, DestroyStaleFails, AfterGet,
      HasAttempts, Worker
<1>7. ASSUME NEW x \in Syncs, TrackDestinations(x) PROVE AttemptsLeft'
  <2>1. Saved(w, x, Tracking(x)) \in Worker /\ Saved(w, x, Tracking(x)).at = w.at
    <3>1. Saved(w, x, Tracking(x)) \in Worker
      BY <1>1, SavedOps, TypeOfStatuses
    <3>2. Saved(w, x, Tracking(x)).at = w.at
      BY <1>1 DEF Saved, Worker
    <3> QED BY <3>1, <3>2
  <2>2. CASE w' = BailOut(w)
    BY <1>1, <1>2, <2>2, AttemptsOps
  <2>3. CASE w' = [Saved(w, x, Tracking(x)) EXCEPT !.pc = "upsert",
                                                   !.todo = Tracking(x).dest \ w.kept]
    <3>1. w'.pc = "upsert" /\ w'.at = w.at
      BY <2>1, <2>3 DEF Worker
    <3>2. w.at = {}
      BY <1>1, <1>7 DEF TrackDestinations, Running, HasAttempts
    <3> QED BY <1>2, <3>1, <3>2 DEF HasAttempts
  <2> QED BY <1>7, <2>2, <2>3 DEF TrackDestinations
<1>8. ASSUME NEW x \in Syncs,
             \/ \E n \in Namespaces : GetStaleFails(x, n)
             \/ TrackDestinationsFails(x) \/ FinishPurge(x) \/ FinishPurgeFails(x)
             \/ FinishUpsert(x) \/ FinishUpsertFails(x)
      PROVE  AttemptsLeft'
  <2>1. w' = BailOut(w) \/ w' = NextSync(w)
    BY <1>8 DEF GetStaleFails, TrackDestinationsFails, FinishPurge, FinishPurgeFails,
                FinishUpsert, FinishUpsertFails
  <2> QED BY <1>1, <1>2, <2>1, AttemptsOps
<1>9. ASSUME NEW x \in Syncs, NEW n \in Namespaces,
             GetCopy(x, n) \/ GetCopyFails(x, n)
      PROVE  AttemptsLeft'
  <2>1. dst[x][n].rv \in Nat
    BY TypeOfCopy
  <2>2. CASE GetCopy(x, n)
    <3>1. Visited(n) \in Worker
      BY <2>2, VisitedOps DEF GetCopy, Running, AttemptsLeft
    <3>2. CASE w' = CompareVersions(Visited(n), x, n, dst[x][n].rv)
      BY <1>2, <2>1, <3>1, <3>2, AttemptsOps
    <3>3. CASE w' = [Visited(n) EXCEPT !.pc = "create"]
      BY <1>2, <3>1, <3>3 DEF HasAttempts, Worker
    <3>4. CASE w' = [Visited(n) EXCEPT !.pc = "release", !.seen = dst[x][n].rv]
      BY <1>2, <3>1, <3>4 DEF HasAttempts, Worker
    <3> QED BY <2>2, <3>2, <3>3, <3>4 DEF GetCopy
  <2>3. CASE GetCopyFails(x, n)
    <3>1. [w EXCEPT !.at = {n}] \in Worker
      BY <1>1 DEF Worker
    <3> QED BY <1>2, <2>1, <2>3, <3>1, AttemptsOps DEF GetCopyFails
  <2> QED BY <1>9, <2>2, <2>3
<1>10. ASSUME NEW x \in Syncs, NEW n \in Namespaces,
              \/ ReleaseCopy(x, n) \/ ReleaseCopyFails(x, n)
              \/ UpdateCopyConflict(x, n) \/ CreateCopyRefused(x, n) \/ WriteCopyFails(x, n)
       PROVE  AttemptsLeft'
  BY <1>1, <1>2, <1>10, AttemptsOps
  DEF ReleaseCopy, ReleaseCopyFails, UpdateCopyConflict, CreateCopyRefused, WriteCopyFails
<1>11. ASSUME NEW x \in Syncs, NEW n \in Namespaces, UpdateCopy(x, n) \/ CreateCopy(x, n)
       PROVE  AttemptsLeft'
  <2>1. PICK rv \in Nat : w' = Written(x, n, rv)
    <3>1. /\ Updated(dst[x][n], w.src.data) \in Object
          /\ dst[x][n].rv \in Nat
      BY TypeOfCopy, WorkerFields, ObjectOps
    <3>2. Updated(dst[x][n], w.src.data).rv \in Nat /\ dst[x][n].rv + 1 \in Nat
      BY <3>1 DEF Object
    <3> QED BY <1>11, <3>2 DEF UpdateCopy, CreateCopy
  <2>2. w'.pc = "upsert" /\ w'.at = {}
    BY <1>1, <2>1 DEF Written, NextCopy, Worker
  <2> QED BY <1>2, <2>2 DEF HasAttempts
<1>12. CASE EndReconcile \/ EndReconcileFails
  BY <1>1, <1>2, <1>12, AttemptsOps DEF EndReconcile, EndReconcileFails
<1> QED BY <1>3, <1>4, <1>5, <1>6, <1>7, <1>8, <1>9, <1>10, <1>11, <1>12
        DEF WorkerStep, WorkerFault

---------------------------------------------------------------------------
(* Types of the main controller.                                           *)

\* What a task reads from its own record has the declared types.
LEMMA TaskFields ==
    ASSUME OscTypeOK, NEW x \in Syncs
    PROVE  /\ o[x] \in OscWorker /\ o[x].ev \in SyncObject /\ o[x].ev.status \in Status
           /\ o[x].orig \in Status /\ o[x].ev.status.dest \subseteq Namespaces
           /\ o[x].todo \subseteq Namespaces /\ o[x].at \subseteq Namespaces
           /\ o[x].kept \subseteq Namespaces
           /\ sync[x] \in SyncObject /\ syncCache[x] \in SyncObject
           /\ sync[x].status \in Status /\ syncCache[x].status \in Status
<1>1. o[x] \in OscWorker /\ sync[x] \in SyncObject /\ syncCache[x] \in SyncObject
  BY DEF OscTypeOK, TypeOK, ClusterTypeOK
<1>2. o[x].ev \in SyncObject /\ o[x].orig \in Status
  BY <1>1 DEF OscWorker
<1>3. o[x].ev.status \in Status
  BY <1>2 DEF SyncObject
<1> QED BY <1>1, <1>2, <1>3 DEF OscWorker, SyncObject, Status

LEMMA OscIdleType == NoSync \in SyncObject /\ OscIdle \in OscWorker
<1>1. NoSync \in SyncObject
  BY EmptyStatus DEF NoSync, SyncObject, Phase
<1> QED BY <1>1, EmptyStatus DEF OscIdle, OscWorker, OscPc

\* A step of the task of x leaves the tasks of the others alone.
TaskMoves(x, v) == o' = [o EXCEPT ![x] = v]

LEMMA TaskMovesOps ==
    ASSUME OscTypeOK, NEW x \in Syncs, NEW v \in OscWorker, TaskMoves(x, v)
    PROVE  /\ o' \in [Syncs -> OscWorker] /\ o'[x] = v
           /\ \A y \in Syncs \ {x} : o'[y] = o[y]
  BY DEF OscTypeOK, TaskMoves

\* Ending, and going on to another call, are such steps.
LEMMA EndOps ==
    ASSUME OscTypeOK, NEW x \in Syncs, End(x)
    PROVE  /\ o' \in [Syncs -> OscWorker] /\ o'[x] = OscIdle
           /\ \A y \in Syncs \ {x} : o'[y] = o[y]
  BY OscIdleType, TaskMovesOps DEF End, TaskMoves

LEMMA GotoOps ==
    ASSUME OscTypeOK, NEW x \in Syncs, NEW pc \in OscPc, Goto(x, pc)
    PROVE  /\ o' \in [Syncs -> OscWorker] /\ o'[x].pc = pc
           /\ \A y \in Syncs \ {x} : o'[y] = o[y]
<1> DEFINE v == [o[x] EXCEPT !.pc = pc]
<1>1. v \in OscWorker /\ v.pc = pc
  BY TaskFields DEF OscWorker
<1>2. TaskMoves(x, v)
  BY TaskFields DEF Goto, TaskMoves, OscTypeOK, OscWorker
<1> HIDE DEF v
<1> QED BY <1>1, <1>2, TaskMovesOps

\* A step of a task changes source, copies, ObjectSyncs, registrations and
\* the worker that is aborted with the last of them.
LEMMA TypeOfTaskStep ==
    ASSUME OscTypeOK, o' \in [Syncs -> OscWorker], src' \in Object,
           dst' \in [Syncs -> [Namespaces -> Object]], sync' \in [Syncs -> SyncObject],
           sources' \subseteq Syncs, srcCache' \in Object,
           releasing' \subseteq releasing, w' \in Worker, due' \subseteq due,
           UNCHANGED <<ns, edits, nsCache, syncCache>>, UNCHANGED faults \/ Fault
    PROVE  OscTypeOK'
<1>1. faults' \in 0..MaxFaults
  BY BoundsAssumption DEF OscTypeOK, TypeOK, ClusterTypeOK, Fault
<1> QED BY <1>1 DEF OscTypeOK, TypeOK, ClusterTypeOK

\* What a task leaves alone has the declared types still.
LEMMA TypesBefore ==
    ASSUME OscTypeOK
    PROVE  /\ TypeOK /\ src \in Object /\ dst \in [Syncs -> [Namespaces -> Object]]
           /\ sync \in [Syncs -> SyncObject] /\ sources \subseteq Syncs
           /\ srcCache \in Object /\ releasing \subseteq releasing /\ w \in Worker
           /\ due \subseteq due
  BY DEF OscTypeOK, TypeOK, ClusterTypeOK

\* replace_status of the main controller touches one status only.
LEMMA OscStatusWrittenOps ==
    ASSUME OscTypeOK, NEW x \in Syncs, NEW s \in Status, OscStatusWritten(x, s)
    PROVE  /\ sync' \in [Syncs -> SyncObject]
           /\ \A y \in Syncs : sync'[y].st = sync[y].st /\ sync'[y].fin = sync[y].fin
<1>1. sync \in [Syncs -> SyncObject] /\ sync[x] \in SyncObject
  BY TypesBefore
<1>2. CASE s # o[x].orig /\ Exists(sync[x])
  <2>1. sync' = [sync EXCEPT ![x] = StatusReplaced(sync[x], s)]
    BY <1>2 DEF OscStatusWritten
  <2> QED BY <1>1, <2>1, StatusReplacedOps
<1>3. CASE ~(s # o[x].orig /\ Exists(sync[x]))
  BY <1>1, <1>3 DEF OscStatusWritten
<1> QED BY <1>2, <1>3

\* The statuses a task is about to write are statuses.
LEMMA TypeOfTaskStatuses ==
    ASSUME OscTypeOK, NEW x \in Syncs
    PROVE  /\ OscPurged(x) \in Status
           /\ WithReady(x, "True") \in Status /\ WithReady(x, "False") \in Status
<1>1. Track(o[x].ev.status, o[x].kept) \in Status
  BY TaskFields, TrackOps
<1> QED BY <1>1, TaskFields DEF OscPurged, WithReady, Status, ConditionStatus

LEMMA TypeCheckSteps ==
    ASSUME OscTypeOK, NEW x \in Syncs,
           \/ OscStart(x) \/ GuardRead(x) \/ GuardPatch(x) \/ AlreadyRegistered(x)
           \/ RegisterSync(x) \/ ReportReady(x) \/ ReportFailed(x) \/ CheckFails(x)
    PROVE  OscTypeOK'
<1> USE DEF vars, clusterVars, rcVars, oscMemory
<1>1. \A pc \in OscPc : Goto(x, pc) => o' \in [Syncs -> OscWorker]
  BY GotoOps
<1>2. End(x) => o' \in [Syncs -> OscWorker]
  BY EndOps
<1>3. {"guardpatch", "discover", "ready", "failed"} \subseteq OscPc
  BY DEF OscPc
<1>4. CASE OscStart(x)
  <2> DEFINE v == [OscIdle EXCEPT !.pc = Branch(syncCache[x]), !.ev = syncCache[x],
                                  !.orig = syncCache[x].status]
  <2>1. v \in OscWorker
    BY TaskFields, OscIdleType DEF OscWorker, OscPc, Branch
  <2>2. o' \in [Syncs -> OscWorker]
    <3>1. TaskMoves(x, v)
      BY <1>4 DEF OscStart, TaskMoves
    <3> HIDE DEF v
    <3> QED BY <2>1, <3>1, TaskMovesOps
  <2>3. UNCHANGED <<src, dst, sync, ns, edits, faults, sources, srcCache, nsCache,
                    releasing, w, syncCache>> /\ due' \subseteq due
    BY <1>4 DEF OscStart
  <2> QED BY <2>2, <2>3, TypesBefore, TypeOfTaskStep
<1>5. CASE GuardRead(x) \/ AlreadyRegistered(x)
  <2>1. o' \in [Syncs -> OscWorker]
    BY <1>1, <1>2, <1>3, <1>5 DEF GuardRead, AlreadyRegistered
  <2> QED BY <1>5, <2>1, TypesBefore, TypeOfTaskStep DEF GuardRead, AlreadyRegistered
<1>6. CASE GuardPatch(x) /\ sync[x].st = "live"
  <2> DEFINE guarded == [sync[x] EXCEPT !.fin = TRUE, !.rv = sync[x].rv + 1]
             v == [o[x] EXCEPT !.pc = "discover", !.ev = guarded, !.orig = guarded.status]
  <2>1. guarded \in SyncObject /\ guarded.status \in Status
    <3>1. sync[x] \in SyncObject /\ sync[x].rv + 1 \in Nat /\ sync[x].status \in Status
      BY TaskFields DEF SyncObject
    <3> QED BY <3>1 DEF SyncObject
  <2>2. v \in OscWorker
    BY <1>3, <2>1, TaskFields DEF OscWorker
  <2>3. sync' = [sync EXCEPT ![x] = guarded]
    BY <1>6, TypesBefore DEF GuardPatch
  <2>4. o' = [o EXCEPT ![x].pc = "discover", ![x].ev = guarded, ![x].orig = guarded.status]
    BY <1>6 DEF GuardPatch
  <2> HIDE DEF guarded
  <2>5. TaskMoves(x, v)
    BY <2>4, TaskFields DEF OscTypeOK, OscWorker, TaskMoves
  <2>6. sync' \in [Syncs -> SyncObject]
    BY <2>1, <2>3, TypesBefore
  <2>7. o' \in [Syncs -> OscWorker]
    <3> HIDE DEF v
    <3> QED BY <2>2, <2>5, TaskMovesOps
  <2>8. UNCHANGED <<src, dst, ns, edits, faults, sources, srcCache, nsCache,
                    releasing, w, due, syncCache>>
    BY <1>6 DEF GuardPatch
  <2> QED BY <2>6, <2>7, <2>8, TypesBefore, TypeOfTaskStep
<1>7. CASE GuardPatch(x) /\ sync[x].st # "live"
  <2>1. o' \in [Syncs -> OscWorker] /\ sync' = sync
    BY <1>1, <1>3, <1>7 DEF GuardPatch
  <2> QED BY <1>7, <2>1, TypesBefore, TypeOfTaskStep DEF GuardPatch
<1>8. CASE RegisterSync(x)
  <2>1. o' \in [Syncs -> OscWorker]
    BY <1>1, <1>3, <1>8 DEF RegisterSync
  <2>2. sources' \subseteq Syncs /\ srcCache' \in Object
    BY <1>8, TypesBefore DEF RegisterSync
  <2> QED BY <1>8, <2>1, <2>2, TypesBefore, TypeOfTaskStep DEF RegisterSync
<1>9. CASE ReportReady(x) \/ ReportFailed(x)
  <2>1. o' \in [Syncs -> OscWorker]
    BY <1>1, <1>2, <1>3, <1>9 DEF ReportReady, ReportFailed
  <2>2. sync' \in [Syncs -> SyncObject]
    BY <1>9, TypeOfTaskStatuses, OscStatusWrittenOps DEF ReportReady, ReportFailed
  <2> QED BY <1>9, <2>1, <2>2, TypesBefore, TypeOfTaskStep DEF ReportReady, ReportFailed
<1>10. CASE CheckFails(x)
  <2>1. o' \in [Syncs -> OscWorker]
    BY <1>1, <1>3, <1>10 DEF CheckFails
  <2> QED BY <1>10, <2>1, TypesBefore, TypeOfTaskStep DEF CheckFails
<1> QED BY <1>4, <1>5, <1>6, <1>7, <1>8, <1>9, <1>10

LEMMA TypeDeleteSteps ==
    ASSUME OscTypeOK, NEW x \in Syncs,
           \/ Deregister(x) \/ OscFinishPurge(x) \/ SourceRead(x) \/ SourcePatch(x)
           \/ FinalizerRead(x) \/ FinalizerPatch(x) \/ DeleteFails(x)
    PROVE  OscTypeOK'
<1> USE DEF vars, clusterVars, rcVars, oscMemory
<1>1. \A pc \in OscPc : Goto(x, pc) => o' \in [Syncs -> OscWorker]
  BY GotoOps
<1>2. End(x) => o' \in [Syncs -> OscWorker]
  BY EndOps
<1>3. {"purge", "source", "sourcepatch", "finalizer", "finalizerpatch"} \subseteq OscPc
  BY DEF OscPc
<1>4. CASE Deregister(x)
  <2> DEFINE pc == IF o[x].ev.status.listed THEN "purge" ELSE "source"
             v == [o[x] EXCEPT !.pc = pc, !.todo = o[x].ev.status.dest]
  <2>1. v \in OscWorker
    BY <1>3, TaskFields DEF OscWorker
  <2>2. TaskMoves(x, v)
    BY <1>4, TaskFields DEF Deregister, TaskMoves, OscTypeOK, OscWorker
  <2>3. o' \in [Syncs -> OscWorker]
    <3> HIDE DEF v
    <3> QED BY <2>1, <2>2, TaskMovesOps
  <2>4. w' \in Worker /\ releasing' \subseteq releasing /\ sources' \subseteq Syncs
    BY <1>4, TypesBefore, IdleType DEF Deregister
  <2> QED BY <1>4, <2>3, <2>4, TypesBefore, TypeOfTaskStep DEF Deregister
<1>5. CASE OscFinishPurge(x)
  <2>1. OscPurged(x) \in Status
    BY TypeOfTaskStatuses
  <2>2. sync' \in [Syncs -> SyncObject] /\ sync'[x] \in SyncObject
    BY <1>5, <2>1, OscStatusWrittenOps DEF OscFinishPurge
  <2>3. CASE End(x)
    BY <1>2, <1>5, <2>2, <2>3, TypesBefore, TypeOfTaskStep DEF OscFinishPurge
  <2>4. CASE ~End(x)
    <3> DEFINE ev == IF OscPurged(x) = o[x].orig THEN o[x].ev ELSE sync'[x]
               v == [o[x] EXCEPT !.pc = "source", !.ev = ev, !.orig = OscPurged(x)]
    <3>1. ev \in SyncObject
      BY <2>2, TaskFields
    <3>2. v \in OscWorker
      <4> HIDE DEF ev
      <4> QED BY <1>3, <2>1, <3>1, TaskFields DEF OscWorker
    <3>3. TaskMoves(x, v)
      <4>1. o' = [o EXCEPT ![x].pc = "source",
                           ![x].ev = IF OscPurged(x) = o[x].orig THEN @ ELSE sync'[x],
                           ![x].orig = OscPurged(x)]
        BY <1>5, <2>4 DEF OscFinishPurge
      <4> QED BY <4>1, TaskFields DEF TaskMoves, OscTypeOK, OscWorker
    <3>4. o' \in [Syncs -> OscWorker]
      <4> HIDE DEF v
      <4> QED BY <3>2, <3>3, TaskMovesOps
    <3> QED BY <1>5, <2>2, <3>4, TypesBefore, TypeOfTaskStep DEF OscFinishPurge
  <2> QED BY <2>3, <2>4
<1>6. CASE SourceRead(x) \/ FinalizerRead(x) \/ DeleteFails(x)
  <2>1. o' \in [Syncs -> OscWorker]
    BY <1>1, <1>2, <1>3, <1>6 DEF SourceRead, FinalizerRead, DeleteFails
  <2> QED BY <1>6, <2>1, TypesBefore, TypeOfTaskStep DEF SourceRead, FinalizerRead, DeleteFails
<1>7. CASE SourcePatch(x)
  <2>1. o' \in [Syncs -> OscWorker]
    BY <1>1, <1>2, <1>3, <1>7 DEF SourcePatch
  <2>2. src' \in Object
    BY <1>7, TypesBefore, ObjectOps DEF SourcePatch, Empty
  <2> QED BY <1>7, <2>1, <2>2, TypesBefore, TypeOfTaskStep DEF SourcePatch
<1>8. CASE FinalizerPatch(x)
  <2>1. o' \in [Syncs -> OscWorker]
    BY <1>2, <1>8 DEF FinalizerPatch
  <2>2. [sync[x] EXCEPT !.st = "absent", !.fin = FALSE, !.rv = sync[x].rv + 1] \in SyncObject
    <3>1. sync[x] \in SyncObject /\ sync[x].rv + 1 \in Nat
      BY TaskFields DEF SyncObject
    <3> QED BY <3>1 DEF SyncObject, Phase
  <2>3. sync' \in [Syncs -> SyncObject]
    <3>1. \/ sync' = sync
          \/ sync' = [sync EXCEPT ![x] =
                [sync[x] EXCEPT !.st = "absent", !.fin = FALSE, !.rv = sync[x].rv + 1]]
      BY <1>8, TypesBefore DEF FinalizerPatch
    <3> QED BY <2>2, <3>1, TypesBefore
  <2> QED BY <1>8, <2>1, <2>3, TypesBefore, TypeOfTaskStep DEF FinalizerPatch
<1> QED BY <1>4, <1>5, <1>6, <1>7, <1>8

\* The record of a task that goes through the copies to delete.
LEMMA PurgeRecord ==
    ASSUME OscTypeOK, NEW x \in Syncs, NEW pc \in {"purge", "strip", "destroy"},
           NEW at \in SUBSET Namespaces, NEW todo \in SUBSET Namespaces,
           NEW kept \in SUBSET Namespaces,
           o' = [o EXCEPT ![x].pc = pc, ![x].at = at, ![x].todo = todo, ![x].kept = kept]
    PROVE  o' \in [Syncs -> OscWorker]
<1> DEFINE v == [o[x] EXCEPT !.pc = pc, !.at = at, !.todo = todo, !.kept = kept]
<1>1. v \in OscWorker
  BY TaskFields DEF OscWorker, OscPc
<1>2. TaskMoves(x, v)
  BY TaskFields DEF TaskMoves, OscTypeOK, OscWorker
<1> HIDE DEF v
<1> QED BY <1>1, <1>2, TaskMovesOps

LEMMA TypePurgeSteps ==
    ASSUME OscTypeOK, NEW x \in Syncs, NEW n \in Namespaces,
           \/ OscGetStale(x, n) \/ OscStripStale(x, n) \/ OscStripStaleFails(x)
           \/ OscDestroyStale(x, n) \/ OscDestroyStaleFails(x, n)
    PROVE  OscTypeOK'
<1> USE DEF vars, clusterVars, rcVars, oscMemory
<1>1. /\ o \in [Syncs -> OscWorker] /\ o[x] \in OscWorker /\ o[x].at \in SUBSET Namespaces
      /\ o[x].todo \in SUBSET Namespaces /\ o[x].kept \in SUBSET Namespaces
      /\ dst[x][n] \in Object
  BY TaskFields, TypesBefore, TypeOfCopy DEF OscTypeOK
<1>2. CASE OscGetStale(x, n)
  <2>1. AfterGet(dst[x][n]) \in {"purge", "strip", "destroy"} /\ {n} \in SUBSET Namespaces
    BY DEF AfterGet
  <2>2. o' = [o EXCEPT ![x].pc = AfterGet(dst[x][n]), ![x].at = {n}, ![x].todo = o[x].todo,
                       ![x].kept = o[x].kept]
    BY <1>1, <1>2 DEF OscGetStale, OscWorker
  <2>3. o' \in [Syncs -> OscWorker]
    BY <1>1, <2>1, <2>2, PurgeRecord
  <2> QED BY <1>2, <2>3, TypesBefore, TypeOfTaskStep DEF OscGetStale
<1>3. CASE OscStripStale(x, n) \/ OscStripStaleFails(x)
  <2>1. o' \in [Syncs -> OscWorker]
    BY <1>3, GotoOps DEF OscStripStale, OscStripStaleFails, OscPc
  <2>2. dst' \in [Syncs -> [Namespaces -> Object]]
    BY <1>1, <1>3, TypesBefore, ObjectOps, TypeOfCopies, BoundsAssumption
    DEF OscStripStale, OscStripStaleFails
  <2> QED BY <1>3, <2>1, <2>2, TypesBefore, TypeOfTaskStep DEF OscStripStale, OscStripStaleFails
<1>4. CASE OscDestroyStale(x, n)
  <2>1. o' = [o EXCEPT ![x].pc = "purge", ![x].at = {}, ![x].todo = o[x].todo \ {n},
                       ![x].kept = o[x].kept]
    BY <1>1, <1>4 DEF OscDestroyStale, OscWorker
  <2>2. o' \in [Syncs -> OscWorker]
    BY <1>1, <2>1, PurgeRecord
  <2>3. dst' \in [Syncs -> [Namespaces -> Object]]
    BY <1>1, <1>4, TypesBefore, ObjectOps, TypeOfCopies DEF OscDestroyStale
  <2> QED BY <1>4, <2>2, <2>3, TypesBefore, TypeOfTaskStep DEF OscDestroyStale
<1>5. CASE OscDestroyStaleFails(x, n)
  <2>1. o' = [o EXCEPT ![x].pc = "purge", ![x].at = {}, ![x].todo = o[x].todo \ {n},
                       ![x].kept = o[x].kept \cup {n}]
    BY <1>1, <1>5 DEF OscDestroyStaleFails, OscWorker
  <2>2. o[x].todo \ {n} \in SUBSET Namespaces /\ o[x].kept \cup {n} \in SUBSET Namespaces
    BY <1>1
  <2>3. o' \in [Syncs -> OscWorker]
    BY <2>1, <2>2, PurgeRecord
  <2> QED BY <1>5, <2>3, TypesBefore, TypeOfTaskStep DEF OscDestroyStaleFails
<1> QED BY <1>2, <1>3, <1>4, <1>5

LEMMA TypeOfCacheStep ==
    ASSUME OscTypeOK, NEW x \in Syncs, WatchSync(x)
    PROVE  OscTypeOK'
  BY TypesBefore DEF WatchSync, OscTypeOK, TypeOK, ClusterTypeOK, vars, clusterVars, rcVars

LEMMA TypeDeleteSync ==
    ASSUME TypeOK, NEW x \in Syncs, DeleteSync(x), UNCHANGED rcVars
    PROVE  TypeOK'
<1>1. sync \in [Syncs -> SyncObject] /\ sync[x] \in SyncObject /\ sync[x].rv + 1 \in Nat
  BY DEF TypeOK, ClusterTypeOK, SyncObject
<1> DEFINE st == IF sync[x].fin THEN "term" ELSE "absent"
           v == [sync[x] EXCEPT !.st = st, !.rv = sync[x].rv + 1]
<1>2. v \in SyncObject
  BY <1>1 DEF SyncObject, Phase
<1>3. sync' = [sync EXCEPT ![x] = v]
  BY <1>1 DEF DeleteSync
<1>4. edits' \in 0..MaxEdits
  BY BoundsAssumption DEF DeleteSync, Edit, TypeOK, ClusterTypeOK
<1> HIDE DEF v
<1>5. sync' \in [Syncs -> SyncObject]
  BY <1>1, <1>2, <1>3
<1> QED BY <1>4, <1>5 DEF DeleteSync, TypeOK, ClusterTypeOK, rcVars

\* The worker, watches and users keep the types of the main controller.
LEMMA TypeAroundTasks ==
    ASSUME OscTypeOK, AttemptsLeft,
           \/ RcStep \/ RcFault \/ Restart \/ Users
           \/ (Watch \/ Release) /\ UNCHANGED oscVars
           \/ NamespaceController /\ UNCHANGED <<rcVars, oscVars>>
    PROVE  OscTypeOK'
<1>1. TypeOK
  BY TypesBefore
<1>2. TypeOK'
  <2>1. CASE RcStep
    BY <1>1, <2>1, TypeLookup, TypeBegin, TypeDelete, TypeStatus, TypeUpsert, TypeEnd
    DEF RcStep, WorkerStep
  <2>2. CASE RcFault
    BY <1>1, <2>2, TypeLookup, TypeDelete, TypeStatus, TypeUpsert, TypeEnd
    DEF RcFault, WorkerFault
  <2>3. CASE Watch \/ Release \/ Restart
    BY <1>1, <2>3, TypeAround DEF Restart
  <2>4. CASE Users
    BY <1>1, <2>4, TypeUsers, TypeDeleteSync DEF Users
  <2>5. CASE NamespaceController /\ UNCHANGED <<rcVars, oscVars>>
    BY <1>1, <2>5, TypeNamespaceController
  <2> QED BY <2>1, <2>2, <2>3, <2>4, <2>5
<1>3. CASE Restart
  <2>1. /\ syncCache' = sync /\ due' = Syncs /\ o' = [x \in Syncs |-> OscIdle]
    BY <1>3 DEF Restart
  <2> QED BY <1>2, <2>1, OscIdleType, TypesBefore DEF OscTypeOK
<1>4. CASE UNCHANGED oscVars
  BY <1>2, <1>4 DEF OscTypeOK, oscVars
<1> QED BY <1>3, <1>4 DEF RcStep, RcFault, Users

\* Every step keeps the types, given that no visit starts without attempts.
LEMMA SyncerTypeStep == OscTypeOK /\ AttemptsLeft /\ [Next]_allVars => OscTypeOK'
<1> SUFFICES ASSUME OscTypeOK, AttemptsLeft, [Next]_allVars PROVE OscTypeOK'
  OBVIOUS
<1>1. CASE UNCHANGED allVars
  BY <1>1 DEF allVars, vars, clusterVars, rcVars, oscVars, OscTypeOK, TypeOK, ClusterTypeOK
<1>2. ASSUME NEW x \in Syncs, OscStep(x) PROVE OscTypeOK'
  BY <1>2, TypeCheckSteps, TypeDeleteSteps, TypePurgeSteps DEF OscStep
<1>3. ASSUME NEW x \in Syncs, OscFault(x) PROVE OscTypeOK'
  <2>1. CASE CheckFails(x) \/ DeleteFails(x)
    BY <2>1, TypeCheckSteps, TypeDeleteSteps
  <2>2. CASE OscStripStaleFails(x)
    <3>1. o' \in [Syncs -> OscWorker]
      BY <2>2, GotoOps DEF OscStripStaleFails, OscPc
    <3> QED BY <2>2, <3>1, TypesBefore, TypeOfTaskStep DEF OscStripStaleFails, rcVars, oscMemory
  <2>3. ASSUME NEW n \in Namespaces, OscDestroyStaleFails(x, n) PROVE OscTypeOK'
    BY <2>3, TypePurgeSteps
  <2> QED BY <1>3, <2>1, <2>2, <2>3 DEF OscFault
<1>4. ASSUME NEW x \in Syncs, WatchSync(x) PROVE OscTypeOK'
  BY <1>4, TypeOfCacheStep
<1>5. CASE \/ RcStep \/ RcFault \/ Restart \/ Users
           \/ (Watch \/ Release) /\ UNCHANGED oscVars
           \/ NamespaceController /\ UNCHANGED <<rcVars, oscVars>>
  BY <1>5, TypeAroundTasks
<1> QED BY <1>1, <1>2, <1>3, <1>4, <1>5 DEF Next

LEMMA SyncerAttemptsStep ==
    ASSUME OscTypeOK, AttemptsLeft, [Next]_allVars
    PROVE  AttemptsLeft'
<1>1. CASE RcStep \/ RcFault
  BY <1>1, AttemptsStep, TypesBefore DEF RcStep, RcFault
<1>2. CASE w' = w
  BY <1>2 DEF AttemptsLeft
<1>3. CASE w' = Idle
  BY <1>3 DEF AttemptsLeft, Idle
<1>4. ASSUME NEW x \in Syncs, OscStep(x) \/ OscFault(x) \/ WatchSync(x)
      PROVE  w' = w \/ w' = Idle
  BY <1>4
  DEF OscStep, OscFault, WatchSync, OscStart, GuardRead, GuardPatch, AlreadyRegistered,
      RegisterSync, ReportReady, ReportFailed, Deregister, OscGetStale, OscStripStale,
      OscDestroyStale, OscFinishPurge, SourceRead, SourcePatch, FinalizerRead, FinalizerPatch,
      CheckFails, OscStripStaleFails, DeleteFails, OscDestroyStaleFails, vars, rcVars
<1>5. CASE (Watch \/ Release) /\ UNCHANGED oscVars
  BY <1>2, <1>5 DEF Watch, WatchSource, WatchNamespace, Release, ReleaseBegin, ReleaseEnd,
                    ReleaseEndFails
<1>6. CASE Restart
  BY <1>3, <1>6 DEF Restart, Crash
<1>7. CASE \/ Users \/ UNCHANGED allVars
           \/ NamespaceController /\ UNCHANGED <<rcVars, oscVars>>
  BY <1>2, <1>7 DEF Users, rcVars, allVars, vars
<1>8. ASSUME NEW x \in Syncs, OscStep(x) \/ OscFault(x) \/ WatchSync(x)
      PROVE  AttemptsLeft'
  BY <1>2, <1>3, <1>4, <1>8
<1> QED BY <1>1, <1>5, <1>6, <1>7, <1>8 DEF Next

---------------------------------------------------------------------------
(* Registered ObjectSyncs hold their finalizer.                            *)

\* Phase and finalizer of the ObjectSyncs stay.
GuardsStay == \A x \in Syncs : sync'[x].st = sync[x].st /\ sync'[x].fin = sync[x].fin

\* The worker writes statuses only.
LEMMA WorkerKeepsGuards ==
    ASSUME TypeOK, WorkerStep \/ WorkerFault
    PROVE  GuardsStay /\ UNCHANGED sources
<1> USE DEF GuardsStay, rcMemory, clusterVars
<1>1. ASSUME NEW x \in Syncs, TrackDestinations(x) \/ FinishPurge(x) \/ FinishUpsert(x)
      PROVE  GuardsStay /\ UNCHANGED sources
  <2>1. PICK s \in Status : StatusWritten(x, s)
    BY <1>1, TypeOfStatuses DEF TrackDestinations, FinishPurge, FinishUpsert
  <2> QED BY <1>1, <2>1, StatusWrittenOps DEF TrackDestinations, FinishPurge, FinishUpsert
<1>2. CASE \/ Start \/ SourceDeletedBranch \/ AddFinalizerIfMissing \/ AddFinalizerFails
           \/ EndReconcile \/ EndReconcileFails
           \/ \E x \in Syncs : \/ LoadSync(x) \/ LoadSyncFails(x)
                              \/ BeginReconcile(x) \/ BeginSourceDeleted(x)
                              \/ TrackDestinationsFails(x) \/ FinishPurgeFails(x)
                              \/ FinishUpsertFails(x)
  BY <1>2 DEF Start, SourceDeletedBranch, AddFinalizerIfMissing, AddFinalizerFails,
              EndReconcile, EndReconcileFails, LoadSync, LoadSyncFails, BeginReconcile,
              BeginSourceDeleted, TrackDestinationsFails, FinishPurgeFails, FinishUpsertFails
<1>3. ASSUME NEW x \in Syncs, NEW n \in Namespaces,
             \/ GetStale(x, n) \/ GetStaleFails(x, n)
             \/ StripStale(x, n) \/ StripStaleFails(x, n)
             \/ DestroyStale(x, n) \/ DestroyStaleFails(x, n)
             \/ GetCopy(x, n) \/ GetCopyFails(x, n)
             \/ ReleaseCopy(x, n) \/ ReleaseCopyFails(x, n)
             \/ UpdateCopy(x, n) \/ UpdateCopyConflict(x, n)
             \/ CreateCopy(x, n) \/ CreateCopyRefused(x, n) \/ WriteCopyFails(x, n)
      PROVE  UNCHANGED <<sync, sources>>
  BY <1>3 DEF GetStale, GetStaleFails, StripStale, StripStaleFails, DestroyStale,
              DestroyStaleFails, GetCopy, GetCopyFails, ReleaseCopy, ReleaseCopyFails,
              UpdateCopy, UpdateCopyConflict, CreateCopy, CreateCopyRefused, WriteCopyFails
<1> QED BY <1>1, <1>2, <1>3 DEF WorkerStep, WorkerFault

\* Steps that only take registrations away, or none, keep the guard of x.
LEMMA GuardedStays ==
    ASSUME NEW x \in Syncs, Guarded(x), o'[x].pc = o[x].pc, syncCache'[x] = syncCache[x],
           sync'[x].st = sync[x].st, sync'[x].fin = sync[x].fin,
           x \in sources' => x \in sources
    PROVE  Guarded(x)'
  BY DEF Guarded, Cleaned, At, Exists

\* A step of the task of x leaves the other ObjectSyncs guarded.
LEMMA OthersGuarded ==
    ASSUME GuardInv, NEW x \in Syncs, UNCHANGED syncCache,
           \A y \in Syncs \ {x} : /\ o'[y] = o[y] /\ (y \in sources' => y \in sources)
                                 /\ sync'[y].st = sync[y].st /\ sync'[y].fin = sync[y].fin,
           Guarded(x)'
    PROVE  GuardInv'
<1>1. ASSUME NEW y \in Syncs, y # x PROVE Guarded(y)'
  <2>1. Guarded(y) /\ y \in Syncs \ {x}
    BY <1>1 DEF GuardInv
  <2> QED BY <2>1, GuardedStays
<1> QED BY <1>1 DEF GuardInv

LEMMA GuardCheckSteps ==
    ASSUME OscTypeOK, GuardInv, NEW x \in Syncs,
           \/ OscStart(x) \/ GuardRead(x) \/ GuardPatch(x) \/ AlreadyRegistered(x)
           \/ RegisterSync(x) \/ ReportReady(x) \/ ReportFailed(x) \/ CheckFails(x)
    PROVE  GuardInv'
<1> USE DEF vars, clusterVars, rcVars, oscMemory
<1>1. Guarded(x) /\ OscPc = OscPc \cup {"guardpatch", "discover", "ready", "failed"}
  BY DEF GuardInv, OscPc
<1>2. \A y \in Syncs \ {x} : o'[y] = o[y]
  BY <1>1, GotoOps, EndOps DEF OscStart, GuardRead, GuardPatch, AlreadyRegistered, RegisterSync,
        ReportReady, ReportFailed, CheckFails, OscTypeOK
<1>3. CASE OscStart(x)
  <2>1. o'[x].pc = Branch(syncCache[x]) /\ UNCHANGED <<sync, syncCache, sources>>
    BY <1>3 DEF OscStart, OscTypeOK, OscIdle
  <2>2. Exists(syncCache[x]) /\ syncCache[x].st \in Phase
    BY <1>3, TaskFields DEF OscStart, SyncObject
  <2>3. Guarded(x)'
    BY <1>1, <2>1, <2>2 DEF Branch, Guarded, Cleaned, At, Exists, Phase
  <2> QED BY <1>2, <2>1, <2>3, OthersGuarded
<1>4. CASE GuardPatch(x) /\ sync[x].st = "live"
  <2>1. /\ o'[x].pc = "discover" /\ UNCHANGED <<syncCache, sources>>
        /\ sync'[x].st = "live" /\ sync'[x].fin = TRUE
        /\ \A y \in Syncs \ {x} : sync'[y] = sync[y]
    <3> DEFINE guarded == [sync[x] EXCEPT !.fin = TRUE, !.rv = sync[x].rv + 1]
    <3>1. guarded.st = "live" /\ guarded.fin = TRUE
      BY <1>4, TaskFields DEF SyncObject
    <3>2. /\ sync' = [sync EXCEPT ![x] = guarded]
          /\ o' = [o EXCEPT ![x].pc = "discover", ![x].ev = guarded,
                            ![x].orig = guarded.status]
      BY <1>4 DEF GuardPatch
    <3> HIDE DEF guarded
    <3>3. o \in [Syncs -> OscWorker] /\ o[x] \in OscWorker /\ sync \in [Syncs -> SyncObject]
      BY TaskFields, TypesBefore DEF OscTypeOK
    <3>4. o'[x].pc = "discover"
      BY <3>2, <3>3 DEF OscWorker
    <3>5. sync'[x] = guarded /\ \A y \in Syncs \ {x} : sync'[y] = sync[y]
      BY <3>2, <3>3
    <3> QED BY <1>4, <3>1, <3>4, <3>5 DEF GuardPatch
  <2>2. Guarded(x)'
    BY <1>1, <2>1, <1>4 DEF Guarded, Cleaned, At, Exists
  <2> QED BY <1>2, <2>1, <2>2, OthersGuarded
<1>5. CASE RegisterSync(x)
  <2>1. /\ o'[x].pc = "ready" /\ UNCHANGED <<sync, syncCache>> /\ sources' = sources \cup {x}
    BY <1>1, <1>5, GotoOps DEF RegisterSync
  <2>2. Guarded(x)'
    BY <1>1, <1>5, <2>1 DEF RegisterSync, Guarded, Cleaned, At, Exists
  <2> QED BY <1>2, <2>1, <2>2, OthersGuarded
<1>6. CASE \/ GuardPatch(x) /\ sync[x].st # "live"
           \/ GuardRead(x) \/ AlreadyRegistered(x) \/ ReportReady(x) \/ ReportFailed(x) \/ CheckFails(x)
  <2>1. o'[x].pc \in {"guardpatch", "failed", "idle"}
    BY <1>1, <1>6, GotoOps, EndOps
    DEF GuardRead, GuardPatch, AlreadyRegistered, ReportReady, ReportFailed, CheckFails, OscIdle
  <2>2. UNCHANGED <<syncCache, sources>>
    BY <1>6 DEF GuardRead, GuardPatch, AlreadyRegistered, ReportReady, ReportFailed, CheckFails
  <2>3. GuardsStay
    BY <1>6, TypeOfTaskStatuses, OscStatusWrittenOps
    DEF GuardRead, GuardPatch, AlreadyRegistered, ReportReady, ReportFailed, CheckFails,
        GuardsStay
  <2>4. Guarded(x)'
    BY <1>1, <2>1, <2>2, <2>3 DEF Guarded, Cleaned, At, Exists, GuardsStay
  <2> QED BY <1>2, <2>2, <2>3, <2>4, OthersGuarded DEF GuardsStay
<1> QED BY <1>3, <1>4, <1>5, <1>6

\* Past the deregistration nobody registers the same ObjectSync again: its
\* cleanup may take the finalizer away.
LEMMA GuardDeleteSteps ==
    ASSUME OscTypeOK, GuardInv, NEW x \in Syncs,
           \/ Deregister(x) \/ OscFinishPurge(x) \/ SourceRead(x) \/ SourcePatch(x)
           \/ FinalizerRead(x) \/ FinalizerPatch(x) \/ DeleteFails(x)
           \/ OscStripStaleFails(x)
           \/ \E n \in Namespaces : \/ OscGetStale(x, n) \/ OscStripStale(x, n)
                                   \/ OscDestroyStale(x, n) \/ OscDestroyStaleFails(x, n)
    PROVE  GuardInv'
<1> USE DEF vars, clusterVars, rcVars, oscMemory
<1>1. /\ Guarded(x)
      /\ {"destroy", "sourcepatch", "finalizer", "finalizerpatch"} \subseteq OscPc
  BY DEF GuardInv, OscPc
<1>2. \A y \in Syncs \ {x} : o'[y] = o[y]
  BY <1>1, GotoOps, EndOps
  DEF Deregister, OscFinishPurge, SourceRead, SourcePatch, FinalizerRead, FinalizerPatch,
      DeleteFails, OscStripStaleFails, OscGetStale, OscStripStale, OscDestroyStale,
      OscDestroyStaleFails, OscTypeOK
<1>3. CASE Deregister(x)
  <2>1. /\ o'[x].pc \in {"purge", "source"} /\ UNCHANGED <<sync, syncCache>>
        /\ sources' = sources \ {x}
    BY <1>3 DEF Deregister, OscTypeOK, OscWorker
  <2>2. Guarded(x)'
    BY <1>1, <1>3, <2>1 DEF Deregister, Guarded, Cleaned, At, Exists
  <2> QED BY <1>2, <2>1, <2>2, OthersGuarded
<1>4. CASE FinalizerPatch(x)
  <2>1. /\ o'[x].pc = "idle" /\ UNCHANGED <<syncCache, sources>>
        /\ \A y \in Syncs \ {x} : sync'[y] = sync[y]
        /\ sync'[x] = sync[x] \/ sync'[x].st = "absent"
    BY <1>4, EndOps, TypesBefore DEF FinalizerPatch, OscIdle, SyncObject
  <2>2. Guarded(x)'
    BY <1>1, <1>4, <2>1 DEF FinalizerPatch, Guarded, Cleaned, At, Exists
  <2> QED BY <1>2, <2>1, <2>2, OthersGuarded
<1>5. CASE \/ OscFinishPurge(x) \/ SourceRead(x) \/ SourcePatch(x) \/ FinalizerRead(x)
           \/ DeleteFails(x) \/ OscStripStaleFails(x)
           \/ \E n \in Namespaces : \/ OscGetStale(x, n) \/ OscStripStale(x, n)
                                   \/ OscDestroyStale(x, n) \/ OscDestroyStaleFails(x, n)
  <2>1. /\ o'[x].pc \in {"idle", "purge", "strip", "destroy", "source", "sourcepatch",
                         "finalizer", "finalizerpatch"}
        /\ o'[x].pc # "idle" => Cleaned(x)
    <3>1. CASE OscFinishPurge(x)
      BY <3>1, EndOps DEF OscFinishPurge, OscIdle, At, Cleaned, OscTypeOK, OscWorker
    <3>2. CASE \/ SourceRead(x) \/ SourcePatch(x) \/ FinalizerRead(x) \/ DeleteFails(x)
               \/ OscStripStaleFails(x) \/ \E n \in Namespaces : OscStripStale(x, n)
      BY <1>1, <3>2, EndOps, GotoOps
      DEF SourceRead, SourcePatch, FinalizerRead, DeleteFails, OscStripStaleFails,
          OscStripStale, OscIdle, At, Cleaned
    <3>3. ASSUME NEW n \in Namespaces,
                 OscGetStale(x, n) \/ OscDestroyStale(x, n) \/ OscDestroyStaleFails(x, n)
          PROVE  o'[x].pc \in {"purge", "strip", "destroy"} /\ Cleaned(x)
      <4>1. o \in [Syncs -> OscWorker] /\ o[x] \in OscWorker
        BY TaskFields DEF OscTypeOK
      <4>2. Cleaned(x)
        BY <3>3 DEF OscGetStale, OscDestroyStale, OscDestroyStaleFails, At, Cleaned
      <4>3. CASE OscGetStale(x, n)
        BY <4>1, <4>2, <4>3 DEF OscGetStale, AfterGet, OscWorker
      <4>4. CASE OscDestroyStale(x, n)
        BY <4>1, <4>2, <4>4 DEF OscDestroyStale, OscWorker
      <4>5. CASE OscDestroyStaleFails(x, n)
        BY <4>1, <4>2, <4>5 DEF OscDestroyStaleFails, OscWorker
      <4> QED BY <3>3, <4>3, <4>4, <4>5
    <3> QED BY <1>5, <3>1, <3>2, <3>3
  <2>2. UNCHANGED <<syncCache, sources>>
    BY <1>5 DEF OscFinishPurge, SourceRead, SourcePatch, FinalizerRead, DeleteFails,
        OscStripStaleFails, OscGetStale, OscStripStale, OscDestroyStale, OscDestroyStaleFails
  <2>3. GuardsStay
    BY <1>5, TypeOfTaskStatuses, OscStatusWrittenOps
    DEF OscFinishPurge, SourceRead, SourcePatch, FinalizerRead, DeleteFails, GuardsStay,
        OscStripStaleFails, OscGetStale, OscStripStale, OscDestroyStale, OscDestroyStaleFails
  <2>4. Guarded(x)'
    BY <1>1, <2>1, <2>2, <2>3 DEF Guarded, Cleaned, At, Exists, GuardsStay
  <2> QED BY <1>2, <2>2, <2>3, <2>4, OthersGuarded DEF GuardsStay
<1> QED BY <1>3, <1>4, <1>5

\* The worker, watches, restarts, users and the cluster keep the guards.
LEMMA GuardAround ==
    ASSUME OscTypeOK, GuardInv,
           \/ RcStep \/ RcFault \/ Restart \/ Users \/ UNCHANGED allVars
           \/ (Watch \/ Release) /\ UNCHANGED oscVars
           \/ NamespaceController /\ UNCHANGED <<rcVars, oscVars>>
    PROVE  GuardInv'
<1>1. CASE GuardsStay /\ sources' \subseteq sources /\ UNCHANGED oscVars
  BY <1>1, GuardedStays DEF GuardInv, GuardsStay, oscVars
<1>2. CASE RcStep \/ RcFault
  BY <1>1, <1>2, WorkerKeepsGuards, TypesBefore DEF RcStep, RcFault
<1>3. CASE Restart
  <2>1. /\ sources' = {} /\ UNCHANGED sync /\ syncCache' = sync
        /\ o' = [x \in Syncs |-> OscIdle]
    BY <1>3 DEF Restart, Crash
  <2> QED BY <2>1 DEF GuardInv, Guarded, Cleaned, At, Exists, OscIdle
<1>4. ASSUME NEW x \in Syncs, DeleteSync(x), UNCHANGED <<rcVars, oscVars>> PROVE GuardInv'
  <2>1. \A y \in Syncs \ {x} : sync'[y] = sync[y]
    BY <1>4, TypesBefore DEF DeleteSync
  <2>2. /\ sync'[x].st = (IF sync[x].fin THEN "term" ELSE "absent")
        /\ sync'[x].fin = sync[x].fin
    <3>1. sync \in [Syncs -> SyncObject] /\ sync[x] \in SyncObject
      BY TypesBefore
    <3> QED BY <1>4, <3>1 DEF DeleteSync, SyncObject
  <2>3. Guarded(x) /\ UNCHANGED <<sources, syncCache, o>>
    BY <1>4 DEF GuardInv, rcVars, oscVars
  <2>4. Guarded(x)'
    BY <2>2, <2>3 DEF Guarded, Cleaned, At, Exists
  <2> QED BY <2>1, <2>3, <2>4, OthersGuarded
<1>5. CASE UserOnCopies /\ UNCHANGED <<rcVars, oscVars>>
  <2>1. ASSUME NEW x \in Syncs, EditWant(x) PROVE GuardsStay
    <3>1. sync \in [Syncs -> SyncObject] /\ sync[x] \in SyncObject
      BY TypesBefore
    <3> QED BY <2>1, <3>1 DEF EditWant, GuardsStay, SyncObject
  <2>2. GuardsStay
    BY <1>5, <2>1 DEF UserOnCopies, EditSource, DeleteSource, CreateSource, DriftCopy,
                      DeleteCopy, DeleteNamespace, CreateNamespace, GuardsStay
  <2> QED BY <1>1, <1>5, <2>2 DEF rcVars, oscVars
<1>6. CASE (Watch \/ Release) /\ UNCHANGED oscVars
  BY <1>1, <1>6 DEF Watch, WatchSource, WatchNamespace, Release, ReleaseBegin, ReleaseEnd,
                    ReleaseEndFails, clusterVars, GuardsStay
<1>7. CASE \/ UNCHANGED allVars
           \/ NamespaceController /\ UNCHANGED <<rcVars, oscVars>>
  BY <1>1, <1>7 DEF NamespaceController, EmptyNamespace, RemoveNamespace, allVars, vars,
                    clusterVars, rcVars, oscVars, GuardsStay
<1> QED BY <1>2, <1>3, <1>4, <1>5, <1>6, <1>7 DEF Users

LEMMA GuardStep ==
    ASSUME OscTypeOK, GuardInv, [Next]_allVars
    PROVE  GuardInv'
<1>1. ASSUME NEW x \in Syncs, OscStep(x) \/ OscFault(x) PROVE GuardInv'
  BY <1>1, GuardCheckSteps, GuardDeleteSteps DEF OscStep, OscFault
<1>2. ASSUME NEW x \in Syncs, WatchSync(x) PROVE GuardInv'
  <2>1. /\ syncCache'[x] = sync[x] /\ UNCHANGED <<sync, sources, o>>
        /\ \A y \in Syncs \ {x} : syncCache'[y] = syncCache[y]
    BY <1>2 DEF WatchSync, OscTypeOK, vars, clusterVars, rcVars
  <2>2. Guarded(x)'
    BY <2>1 DEF GuardInv, Guarded, Cleaned, At, Exists
  <2>3. ASSUME NEW y \in Syncs, y # x PROVE Guarded(y)'
    BY <2>1, <2>3, GuardedStays DEF GuardInv
  <2> QED BY <2>2, <2>3 DEF GuardInv
<1> QED BY <1>1, <1>2, GuardAround DEF Next

LEMMA SyncerInit == Init => OscTypeOK /\ AttemptsLeft /\ GuardInv
<1> SUFFICES ASSUME Init PROVE OscTypeOK /\ AttemptsLeft /\ GuardInv
  OBVIOUS
<1>1. AttemptsLeft
  BY DEF Init, Idle, AttemptsLeft
<1>2. PICK want \in [Syncs -> SUBSET Namespaces] :
        sync = [x \in Syncs |-> [st |-> "live", fin |-> FALSE, rv |-> 1,
                                 want |-> want[x], status |-> NoStatus]]
  BY DEF Init, ClusterInit
<1>3. OscTypeOK
  <2>1. src \in Object /\ dst \in [Syncs -> [Namespaces -> Object]]
    BY DEF Init, ClusterInit, Object, Phase, Empty, First
  <2>2. sync \in [Syncs -> SyncObject]
    <3>1. ASSUME NEW x \in Syncs
          PROVE  [st |-> "live", fin |-> FALSE, rv |-> 1, want |-> want[x],
                  status |-> NoStatus] \in SyncObject
      BY EmptyStatus DEF SyncObject, Phase
    <3> QED BY <1>2, <3>1
  <2>3. ns \in [Namespaces -> NsPhase] /\ edits \in 0..MaxEdits /\ faults \in 0..MaxFaults
    BY BoundsAssumption DEF Init, ClusterInit, NsPhase
  <2>4. TypeOK
    BY <2>1, <2>2, <2>3, IdleType DEF Init, TypeOK, ClusterTypeOK
  <2> QED BY <2>2, <2>4, OscIdleType DEF Init, OscTypeOK
<1>4. GuardInv
  BY <1>2 DEF Init, GuardInv, Guarded, Cleaned, At, Exists, OscIdle
<1> QED BY <1>1, <1>3, <1>4

\* Both controllers together keep their types, never start a visit without
\* an attempt left, and never let an ObjectSync be registered, or about to
\* be, without its finalizer.
THEOREM SyncerInvariant == Spec => [](OscTypeOK /\ AttemptsLeft /\ GuardInv)
<1>1. OscTypeOK /\ AttemptsLeft /\ GuardInv /\ [Next]_allVars
        => (OscTypeOK /\ AttemptsLeft /\ GuardInv)'
  BY SyncerTypeStep, SyncerAttemptsStep, GuardStep
<1> QED BY <1>1, SyncerInit, PTL DEF Spec

\* The local variables of both controllers keep their types across all their
\* await points, whatever interleaves.
THEOREM SyncerTyped == Spec => []OscTypeOK
  BY SyncerInvariant, PTL

\* An ObjectSync registered with the resource controller holds the finalizer
\* at every moment: a deletion of it passes through the cleanup that
\* deregisters it, across restarts, stale events and concurrent edits.
THEOREM RegisteredAreGuarded == Spec => []RegisteredIsGuarded
<1>1. GuardInv /\ OscTypeOK => RegisteredIsGuarded
  BY TypesBefore DEF GuardInv, Guarded, RegisteredIsGuarded
<1> QED BY <1>1, SyncerInvariant, PTL
=============================================================================
