---------------------------- MODULE InSyncProofs ----------------------------
(***************************************************************************)
(* What the condition InSync tells, for any ObjectSyncs, namespaces and    *)
(* bounds.                                                                 *)
(***************************************************************************)
EXTENDS ResourceControllerProofs

\* InSyncInv, of a worker v.
TellsOf(v) ==
    /\ v.pc \in {"delete", "strip", "destroy", "upsert", "release", "update", "create"}
          => v.plan \cap v.kept = {}
    /\ v.pc \in {"delete", "strip", "destroy"} => v.plan \cap v.todo = {}
    /\ v.pc \in {"strip", "destroy"} => v.at \subseteq v.todo
    /\ v.pc \in {"lookup", "loop"} => v.kept = {}
    /\ \A n, m \in v.at : n = m
    /\ v.pc \in {"upsert", "release", "update", "create"} /\ ~v.missed
          => \A x \in v.cur : \A n \in v.plan \ v.todo : v.view[x].mod.sv[n] = v.src.rv

LEMMA TellsOfWorker == InSyncInv <=> TellsOf(w)
<1>1. PlannedAreNoRemnants <=>
        /\ w.pc \in {"delete", "strip", "destroy", "upsert", "release", "update", "create"}
              => w.plan \cap w.kept = {}
        /\ w.pc \in {"delete", "strip", "destroy"} => w.plan \cap w.todo = {}
        /\ w.pc \in {"strip", "destroy"} => w.at \subseteq w.todo
        /\ w.pc \in {"lookup", "loop"} => w.kept = {}
  BY DEF PlannedAreNoRemnants, Deleting, Upserting
<1> QED BY <1>1 DEF InSyncInv, OneCopyAtATime, FinishedAreInSync, Upserting, TellsOf

---------------------------------------------------------------------------
(* The ways the worker leaves a copy or an ObjectSync.                     *)

LEMMA TellsOnLeaving ==
    ASSUME NEW v \in Worker
    PROVE  TellsOf(Idle) /\ TellsOf(NextSync(v)) /\ TellsOf(BailOut(v))
<1>1. TellsOf(Idle)
  BY DEF TellsOf, Idle
<1>2. \A u \in Worker : TellsOf(NextSync(u))
  BY DEF TellsOf, NextSync, Idle
<1>3. [v EXCEPT !.ok = FALSE] \in Worker
  BY DEF Worker
<1> QED BY <1>1, <1>2, <1>3 DEF BailOut

\* What the next copy leaves of the record.
LEMMA NextCopyShape ==
    ASSUME NEW v \in Worker
    PROVE  /\ NextCopy(v).pc = "upsert" /\ NextCopy(v).at = {}
           /\ NextCopy(v).todo = v.todo \ v.at /\ NextCopy(v).cur = v.cur
           /\ NextCopy(v).plan = v.plan /\ NextCopy(v).kept = v.kept
           /\ NextCopy(v).src = v.src /\ NextCopy(v).view = v.view
           /\ NextCopy(v).missed = v.missed
  BY DEF NextCopy, Worker

\* A copy that is left without being missed has the version of the source.
LEMMA TellsAfterCopy ==
    ASSUME NEW v \in Worker, v.plan \cap v.kept = {},
           ~v.missed => \A x \in v.cur : \A n \in (v.plan \ v.todo) \cup (v.plan \cap v.at) :
                            v.view[x].mod.sv[n] = v.src.rv
    PROVE  TellsOf(NextCopy(v))
  BY NextCopyShape DEF TellsOf

LEMMA TellsAfterMissed ==
    ASSUME NEW v \in Worker, v.plan \cap v.kept = {}
    PROVE  TellsOf(Missed(v))
<1>1. /\ [v EXCEPT !.missed = TRUE] \in Worker
      /\ [v EXCEPT !.missed = TRUE].missed = TRUE
      /\ [v EXCEPT !.missed = TRUE].plan = v.plan
      /\ [v EXCEPT !.missed = TRUE].kept = v.kept
  BY DEF Worker
<1> QED BY <1>1, TellsAfterCopy DEF Missed

\* A copy may be tried again, or compared and then skipped or written.
LEMMA TellsOnWriting ==
    ASSUME NEW v \in Worker, TellsOf(v), v.pc \in {"upsert", "release", "update", "create"}
    PROVE  /\ TellsOf(Missed(v)) /\ TellsOf(Retry(v))
           /\ \A x, n, rv : rv \in Nat /\ v.view = w.view /\ v.src = w.src
                 /\ (\A y \in v.cur : y = x) /\ (\A m \in v.at : m = n)
                    => TellsOf(CompareVersions(v, x, n, rv))
<1>1. v.plan \cap v.kept = {}
  BY DEF TellsOf
<1>2. TellsOf(Missed(v))
  BY <1>1, TellsAfterMissed
<1>3. TellsOf([v EXCEPT !.pc = "upsert"])
  BY DEF TellsOf, Worker
<1>4. ASSUME NEW x, NEW n, NEW rv \in Nat, v.view = w.view, v.src = w.src,
             \A y \in v.cur : y = x, \A m \in v.at : m = n
      PROVE  TellsOf(CompareVersions(v, x, n, rv))
  <2>1. CASE UpToDate(x, n, rv)
    <3>1. \A y \in v.cur : \A m \in v.plan \cap v.at : v.view[y].mod.sv[m] = v.src.rv
      BY <1>4, <2>1 DEF UpToDate
    <3>2. TellsOf(NextCopy(v))
      BY <1>1, <3>1, TellsAfterCopy DEF TellsOf
    <3> QED BY <2>1, <3>2 DEF CompareVersions
  <2>2. CASE ~UpToDate(x, n, rv)
    <3>1. TellsOf([v EXCEPT !.pc = "update", !.seen = rv])
      BY DEF TellsOf, Worker
    <3> QED BY <2>2, <3>1 DEF CompareVersions
  <2> QED BY <2>1, <2>2
<1> QED BY <1>2, <1>3, <1>4 DEF Retry

---------------------------------------------------------------------------
(* The inductive step: one lemma per group of actions.                     *)

LEMMA TellsLookup ==
    ASSUME TypeOK, RcInv, InSyncInv,
           \/ Start \/ SourceDeletedBranch \/ AddFinalizerIfMissing \/ AddFinalizerFails
           \/ \E x \in Syncs : \/ LoadSync(x) \/ LoadSyncFails(x)
                              \/ BeginReconcile(x) \/ BeginSourceDeleted(x)
    PROVE  InSyncInv'
<1>1. w \in Worker /\ TellsOf(w)
  BY WorkerFields, TellsOfWorker
<1>2. SUFFICES TellsOf(w')
  BY DEF InSyncInv, PlannedAreNoRemnants, OneCopyAtATime, FinishedAreInSync, Deleting,
         Upserting, TellsOf
<1>3. CASE Start
  BY <1>3 DEF Start, TellsOf, Idle
<1>4. CASE SourceDeletedBranch \/ AddFinalizerIfMissing \/ AddFinalizerFails
  <2>1. w'.pc = "loop" /\ w'.kept = w.kept /\ w'.at = w.at /\ w.pc = "lookup"
    BY <1>1, <1>4 DEF SourceDeletedBranch, AddFinalizerIfMissing, AddFinalizerFails, Running,
                      Worker
  <2> QED BY <1>1, <2>1 DEF TellsOf
<1>5. ASSUME NEW x \in Syncs, LoadSync(x) \/ LoadSyncFails(x) PROVE TellsOf(w')
  <2>1. w'.pc = "lookup" /\ w'.kept = w.kept /\ w'.at = w.at /\ w.pc = "lookup"
    BY <1>1, <1>5 DEF LoadSync, LoadSyncFails, Running, Worker
  <2> QED BY <1>1, <2>1 DEF TellsOf
<1>6. ASSUME NEW x \in Syncs, BeginReconcile(x) \/ BeginSourceDeleted(x) PROVE TellsOf(w')
  <2>1. CASE w' = NextSync([w EXCEPT !.loaded = Others(x)])
    <3>1. [w EXCEPT !.loaded = Others(x)] \in Worker
      BY <1>1 DEF Worker, Others
    <3> QED BY <2>1, <3>1, TellsOnLeaving
  <2>2. CASE w' # NextSync([w EXCEPT !.loaded = Others(x)])
    <3>1. /\ w'.pc = "delete" /\ w'.plan \cap w'.todo = {} /\ w'.at = w.at
          /\ w'.kept = w.kept /\ w.pc = "loop"
      <4>1. PICK D, T : /\ w' = [w EXCEPT !.pc = "delete", !.loaded = Others(x), !.cur = {x},
                                        !.plan = D, !.todo = T]
                        /\ D \cap T = {}
        <5>1. CASE BeginReconcile(x)
          <6>1. ExpectedDestinations(x) \cap (w.view[x].mod.dest \ ExpectedDestinations(x)) = {}
            OBVIOUS
          <6>2. w' = [w EXCEPT !.pc = "delete", !.loaded = Others(x), !.cur = {x},
                               !.plan = ExpectedDestinations(x),
                               !.todo = w.view[x].mod.dest \ ExpectedDestinations(x)]
            BY <5>1 DEF BeginReconcile
          <6> DEFINE D == ExpectedDestinations(x)
                     T == w.view[x].mod.dest \ ExpectedDestinations(x)
          <6>3. /\ D \cap T = {}
                /\ w' = [w EXCEPT !.pc = "delete", !.loaded = Others(x), !.cur = {x},
                                  !.plan = D, !.todo = T]
            BY <6>1, <6>2
          <6> HIDE DEF D, T
          <6> QED BY <6>3
        <5>2. CASE BeginSourceDeleted(x)
          <6>1. w' = [w EXCEPT !.pc = "delete", !.loaded = Others(x), !.cur = {x},
                               !.plan = {}, !.todo = w.view[x].mod.dest]
            BY <2>2, <5>2 DEF BeginSourceDeleted
          <6>2. {} \cap w.view[x].mod.dest = {}
            OBVIOUS
          <6> QED BY <6>1, <6>2
        <5> QED BY <1>6, <5>1, <5>2
      <4>2. w.pc = "loop"
        BY <1>6 DEF BeginReconcile, BeginSourceDeleted, Running
      <4> QED BY <1>1, <4>1, <4>2 DEF Worker
    <3> QED BY <1>1, <3>1 DEF TellsOf
  <2> QED BY <2>1, <2>2
<1> QED BY <1>3, <1>4, <1>5, <1>6

LEMMA TellsDelete ==
    ASSUME TypeOK, RcInv, InSyncInv, NEW x \in Syncs, NEW n \in Namespaces,
           \/ GetStale(x, n) \/ StripStale(x, n) \/ StripStaleFails(x, n)
           \/ DestroyStale(x, n) \/ DestroyStaleFails(x, n)
    PROVE  InSyncInv'
<1>1. w \in Worker /\ TellsOf(w)
  BY WorkerFields, TellsOfWorker
<1>2. SUFFICES TellsOf(w')
  BY DEF InSyncInv, PlannedAreNoRemnants, OneCopyAtATime, FinishedAreInSync, Deleting,
         Upserting, TellsOf
<1>3. CASE GetStale(x, n)
  <2>1. /\ w'.pc \in {"strip", "destroy"} /\ w'.at = {n} /\ w'.todo = w.todo /\ n \in w.todo
        /\ w'.plan = w.plan /\ w'.kept = w.kept /\ w.pc = "delete"
    BY <1>1, <1>3 DEF GetStale, AfterGet, Running, Worker
  <2> QED BY <1>1, <2>1 DEF TellsOf
<1>4. CASE StripStale(x, n) \/ StripStaleFails(x, n)
  <2>1. /\ w'.pc = "destroy" /\ w'.at = w.at /\ w'.todo = w.todo
        /\ w'.plan = w.plan /\ w'.kept = w.kept /\ w.pc = "strip"
    BY <1>1, <1>4 DEF StripStale, StripStaleFails, Running, Worker
  <2> QED BY <1>1, <2>1 DEF TellsOf
<1>5. CASE DestroyStale(x, n) \/ DestroyStaleFails(x, n)
  <2>1. /\ w'.pc = "delete" /\ w'.at = {} /\ w'.todo = w.todo \ {n} /\ n \in w.at
        /\ w'.plan = w.plan /\ w'.kept \subseteq w.kept \cup {n} /\ w.pc = "destroy"
    BY <1>1, <1>5 DEF DestroyStale, DestroyStaleFails, Running, Worker
  <2> QED BY <1>1, <2>1 DEF TellsOf
<1> QED BY <1>3, <1>4, <1>5

LEMMA TellsStatus ==
    ASSUME TypeOK, RcInv, InSyncInv, NEW x \in Syncs,
           \/ TrackDestinations(x) \/ TrackDestinationsFails(x)
           \/ FinishPurge(x) \/ FinishPurgeFails(x)
           \/ FinishUpsert(x) \/ FinishUpsertFails(x)
           \/ \E n \in Namespaces : GetStaleFails(x, n)
    PROVE  InSyncInv'
<1>1. w \in Worker /\ TellsOf(w)
  BY WorkerFields, TellsOfWorker
<1>2. SUFFICES TellsOf(w')
  BY DEF InSyncInv, PlannedAreNoRemnants, OneCopyAtATime, FinishedAreInSync, Deleting,
         Upserting, TellsOf
<1>3. CASE w' = BailOut(w) \/ w' = NextSync(w)
  BY <1>1, <1>3, TellsOnLeaving
<1>4. CASE /\ TrackDestinations(x)
           /\ w' = [Saved(w, x, Tracking(x)) EXCEPT !.pc = "upsert",
                                                    !.todo = Tracking(x).dest \ w.kept]
  <2>1. Tracking(x) \in Status /\ Tracking(x).dest = w.plan \cup w.kept
    BY TypeOfStatuses
  <2>2. /\ Saved(w, x, Tracking(x)) \in Worker /\ Saved(w, x, Tracking(x)).at = w.at
        /\ Saved(w, x, Tracking(x)).plan = w.plan /\ Saved(w, x, Tracking(x)).kept = w.kept
    <3>1. Saved(w, x, Tracking(x)) \in Worker
      BY <1>1, <2>1, SavedOps
    <3> QED BY <1>1, <3>1 DEF Saved, Worker
  <2>3. /\ w'.pc = "upsert" /\ w'.at = w.at /\ w'.plan = w.plan /\ w'.kept = w.kept
        /\ w'.todo = (w.plan \cup w.kept) \ w.kept
    BY <1>4, <2>1, <2>2 DEF Worker
  <2>4. w.plan \cap w.kept = {}
    BY <1>1, <1>4 DEF TrackDestinations, Running, TellsOf
  <2>5. w'.plan \ w'.todo = {}
    BY <2>3, <2>4
  <2> QED BY <1>1, <2>3, <2>4, <2>5 DEF TellsOf
<1> QED BY <1>3, <1>4
        DEF TrackDestinations, TrackDestinationsFails, FinishPurge, FinishPurgeFails,
            FinishUpsert, FinishUpsertFails, GetStaleFails

\* A copy was written: its entry has the version of the source.
LEMMA TellsWritten ==
    ASSUME TypeOK, RcInv, InSyncInv, NEW x \in w.cur, NEW n \in w.at, NEW rv \in Nat,
           w.pc \in {"update", "create"}
    PROVE  TellsOf(Written(x, n, rv))
<1>1. w \in Worker /\ TellsOf(w) /\ x \in Syncs /\ n \in Namespaces
  BY WorkerFields, TellsOfWorker
<1> DEFINE new == [w.view EXCEPT ![x].mod = Versioned(x, n, rv)]
           v == [w EXCEPT !.view = new, !.changed = TRUE]
<1>2. /\ Versioned(x, n, rv) \in Status /\ Versioned(x, n, rv).sv[n] = w.src.rv
      /\ \A m \in Namespaces \ {n} : Versioned(x, n, rv).sv[m] = w.view[x].mod.sv[m]
  <2>1. /\ w.view[x].mod.sv \in [Namespaces -> Nat] /\ w.view[x].mod.dv \in [Namespaces -> Nat]
        /\ w.view[x].mod \in Status /\ w.src.rv \in Nat
    BY <1>1, WorkerFields DEF Status
  <2> DEFINE sv == [w.view[x].mod.sv EXCEPT ![n] = w.src.rv]
             dv == [w.view[x].mod.dv EXCEPT ![n] = rv]
  <2>2. /\ sv \in [Namespaces -> Nat] /\ dv \in [Namespaces -> Nat] /\ sv[n] = w.src.rv
        /\ \A m \in Namespaces \ {n} : sv[m] = w.view[x].mod.sv[m]
    BY <1>1, <2>1
  <2>3. Versioned(x, n, rv) = [w.view[x].mod EXCEPT !.sv = sv, !.dv = dv]
    BY <2>1 DEF Versioned, Status
  <2> HIDE DEF sv, dv
  <2>4. /\ [w.view[x].mod EXCEPT !.sv = sv, !.dv = dv] \in Status
        /\ [w.view[x].mod EXCEPT !.sv = sv, !.dv = dv].sv = sv
    BY <2>1, <2>2 DEF Status
  <2> QED BY <2>2, <2>3, <2>4
<1>3. new \in [Syncs -> View] /\ new[x].mod = Versioned(x, n, rv)
  <2>1. w.view \in [Syncs -> View]
    BY <1>1 DEF Worker
  <2> QED BY <1>1, <1>2, <2>1 DEF View
<1>4. Written(x, n, rv) = NextCopy(v)
  BY <1>1, WorkerFields DEF Written, Worker, View
<1> HIDE DEF new
<1>5. /\ v \in Worker /\ v.view = new /\ v.cur = w.cur /\ v.src = w.src /\ v.plan = w.plan
      /\ v.kept = w.kept /\ v.todo = w.todo /\ v.at = w.at /\ v.missed = w.missed
  BY <1>1, <1>3 DEF Worker
<1> HIDE DEF v
<1>6. \A y \in w.cur : y = x
  BY DEF RcInv, OneAtATime
<1>7. ASSUME ~v.missed, NEW y \in v.cur, NEW m \in (v.plan \ v.todo) \cup (v.plan \cap v.at)
      PROVE  v.view[y].mod.sv[m] = v.src.rv
  <2>1. y = x /\ m \in Namespaces
    BY <1>5, <1>6, <1>7, WorkerFields
  <2>2. CASE m = n
    BY <1>2, <1>3, <1>5, <2>1, <2>2
  <2>3. CASE m # n
    <3>1. m \in w.plan \ w.todo
      BY <1>1, <1>5, <1>7, <2>3 DEF TellsOf
    <3>2. w.view[x].mod.sv[m] = w.src.rv
      BY <1>1, <1>5, <1>7, <3>1 DEF TellsOf
    <3> QED BY <1>2, <1>3, <1>5, <2>1, <2>3, <3>2
  <2> QED BY <2>2, <2>3
<1>8. v.plan \cap v.kept = {}
  BY <1>1, <1>5 DEF TellsOf
<1>9. TellsOf(NextCopy(v))
  BY <1>5, <1>7, <1>8, TellsAfterCopy
<1> QED BY <1>4, <1>9

LEMMA TellsUpsert ==
    ASSUME TypeOK, RcInv, InSyncInv, NEW x \in Syncs, NEW n \in Namespaces,
           \/ GetCopy(x, n) \/ GetCopyFails(x, n)
           \/ ReleaseCopy(x, n) \/ ReleaseCopyFails(x, n)
           \/ UpdateCopy(x, n) \/ UpdateCopyConflict(x, n)
           \/ CreateCopy(x, n) \/ CreateCopyRefused(x, n) \/ WriteCopyFails(x, n)
    PROVE  InSyncInv'
<1>1. w \in Worker /\ TellsOf(w)
  BY WorkerFields, TellsOfWorker
<1>2. SUFFICES TellsOf(w')
  BY DEF InSyncInv, PlannedAreNoRemnants, OneCopyAtATime, FinishedAreInSync, Deleting,
         Upserting, TellsOf
<1>3. /\ w.pc \in {"upsert", "release", "update", "create"} /\ x \in w.cur
      /\ \A y \in w.cur : y = x
      /\ w.seen \in Nat /\ dst[x][n] \in Object /\ dst[x][n].rv \in Nat
  BY <1>1, TypeOfCopy
  DEF GetCopy, GetCopyFails, ReleaseCopy, ReleaseCopyFails, UpdateCopy, UpdateCopyConflict,
      CreateCopy, CreateCopyRefused, WriteCopyFails, Running, RcInv, OneAtATime, Worker
<1>4. CASE GetCopy(x, n)
  <2>1. Visited(n) \in Worker
    BY <1>4, VisitedOps DEF GetCopy, Running, RcInv, AttemptsLeft
  <2>2. /\ Visited(n).at = {n} /\ Visited(n).pc = w.pc /\ Visited(n).todo = w.todo
        /\ Visited(n).plan = w.plan /\ Visited(n).kept = w.kept /\ Visited(n).cur = w.cur
        /\ Visited(n).src = w.src /\ Visited(n).view = w.view /\ Visited(n).missed = w.missed
    BY <1>1 DEF Visited, Worker
  <2>3. TellsOf(Visited(n)) /\ w.pc = "upsert"
    BY <1>1, <1>4, <2>2 DEF GetCopy, Running, TellsOf
  <2>4. TellsOf(CompareVersions(Visited(n), x, n, dst[x][n].rv))
    BY <1>3, <2>1, <2>2, <2>3, TellsOnWriting
  <2>5. /\ TellsOf([Visited(n) EXCEPT !.pc = "create"])
        /\ TellsOf([Visited(n) EXCEPT !.pc = "release", !.seen = dst[x][n].rv])
    BY <2>1, <2>2, <2>3 DEF TellsOf, Worker
  <2> QED BY <1>4, <2>4, <2>5 DEF GetCopy
<1>5. CASE GetCopyFails(x, n)
  <2>1. /\ [w EXCEPT !.at = {n}] \in Worker
        /\ [w EXCEPT !.at = {n}].plan \cap [w EXCEPT !.at = {n}].kept = {}
    BY <1>1, <1>3 DEF TellsOf, Worker
  <2> QED BY <1>5, <2>1, TellsAfterMissed DEF GetCopyFails
<1>6. CASE ReleaseCopy(x, n) \/ ReleaseCopyFails(x, n)
  <2>1. n \in w.at /\ \A m \in w.at : m = n
    BY <1>1, <1>6 DEF ReleaseCopy, ReleaseCopyFails, TellsOf
  <2>2. TellsOf(CompareVersions(w, x, n, w.seen)) /\ TellsOf(Retry(w))
    BY <1>1, <1>3, <2>1, TellsOnWriting
  <2> QED BY <1>6, <2>2 DEF ReleaseCopy, ReleaseCopyFails
<1>7. CASE UpdateCopyConflict(x, n) \/ CreateCopyRefused(x, n) \/ WriteCopyFails(x, n)
  BY <1>1, <1>3, <1>7, TellsOnWriting
  DEF UpdateCopyConflict, CreateCopyRefused, WriteCopyFails
<1>8. CASE UpdateCopy(x, n) \/ CreateCopy(x, n)
  <2>1. PICK rv \in Nat : w' = Written(x, n, rv)
    <3>1. /\ Updated(dst[x][n], w.src.data) \in Object
          /\ dst[x][n].rv \in Nat
      BY TypeOfCopy, WorkerFields, ObjectOps
    <3>2. Updated(dst[x][n], w.src.data).rv \in Nat /\ dst[x][n].rv + 1 \in Nat
      BY <3>1 DEF Object
    <3> QED BY <1>8, <3>2 DEF UpdateCopy, CreateCopy
  <2>2. n \in w.at /\ w.pc \in {"update", "create"}
    BY <1>8 DEF UpdateCopy, CreateCopy, Running
  <2> QED BY <1>3, <2>1, <2>2, TellsWritten
<1> QED BY <1>4, <1>5, <1>6, <1>7, <1>8

\* The invariant is inductive.
LEMMA TellsStep ==
    ASSUME TypeOK, RcInv, InSyncInv, [RcNext]_vars
    PROVE  InSyncInv'
<1>1. CASE w' = w
  BY <1>1 DEF InSyncInv, PlannedAreNoRemnants, OneCopyAtATime, FinishedAreInSync, Deleting,
              Upserting
<1>2. CASE w' = Idle
  BY <1>2 DEF Idle, InSyncInv, PlannedAreNoRemnants, OneCopyAtATime, FinishedAreInSync,
              Deleting, Upserting
<1>3. CASE WorkerStep
  BY <1>2, <1>3, TellsLookup, TellsDelete, TellsStatus, TellsUpsert
  DEF WorkerStep, EndReconcile
<1>4. CASE WorkerFault
  BY <1>2, <1>4, TellsLookup, TellsDelete, TellsStatus, TellsUpsert
  DEF WorkerFault, EndReconcileFails
<1>5. CASE \/ Watch \/ Release \/ Crash \/ \E x \in Syncs : Register(x)
           \/ UNCHANGED rcVars \/ UNCHANGED vars
  BY <1>1, <1>2, <1>5
  DEF Watch, WatchSource, WatchNamespace, Release, ReleaseBegin, ReleaseEnd, ReleaseEndFails,
      Crash, Register, rcVars, vars
<1> QED BY <1>3, <1>4, <1>5 DEF RcNext

---------------------------------------------------------------------------
(* Only the end of a reconciliation writes a status while copies are       *)
(* written, and what it writes is what the worker knows.                   *)

\* The step from the worker's point of view.
LEMMA OnlyFinishTells ==
    ASSUME TypeOK, RcInv, Upserting, [RcNext]_vars
    PROVE  StatusesStay \/ \E x \in Syncs : FinishUpsert(x)
<1> USE DEF StatusesStay
<1>1. CASE WorkerStep \/ WorkerFault
  <2>1. CASE \E x \in Syncs : \/ TrackDestinations(x) \/ FinishPurge(x)
    BY <2>1 DEF TrackDestinations, FinishPurge, Running, Upserting
  <2>2. CASE \/ Start \/ SourceDeletedBranch \/ AddFinalizerIfMissing \/ AddFinalizerFails
             \/ EndReconcile \/ EndReconcileFails
             \/ \E x \in Syncs : \/ LoadSync(x) \/ LoadSyncFails(x)
                                \/ BeginReconcile(x) \/ BeginSourceDeleted(x)
                                \/ TrackDestinationsFails(x) \/ FinishPurgeFails(x)
                                \/ FinishUpsertFails(x)
    BY <2>2 DEF Start, SourceDeletedBranch, AddFinalizerIfMissing, AddFinalizerFails,
        EndReconcile, EndReconcileFails, LoadSync, LoadSyncFails, BeginReconcile,
        BeginSourceDeleted, TrackDestinationsFails, FinishPurgeFails, FinishUpsertFails,
        clusterVars
  <2>3. ASSUME NEW x \in Syncs, NEW n \in Namespaces,
               \/ GetStale(x, n) \/ GetStaleFails(x, n)
               \/ StripStale(x, n) \/ StripStaleFails(x, n)
               \/ DestroyStale(x, n) \/ DestroyStaleFails(x, n)
               \/ GetCopy(x, n) \/ GetCopyFails(x, n)
               \/ ReleaseCopy(x, n) \/ ReleaseCopyFails(x, n)
               \/ UpdateCopy(x, n) \/ UpdateCopyConflict(x, n)
               \/ CreateCopy(x, n) \/ CreateCopyRefused(x, n) \/ WriteCopyFails(x, n)
        PROVE  UNCHANGED sync
    BY <2>3 DEF GetStale, GetStaleFails, StripStale, StripStaleFails, DestroyStale,
        DestroyStaleFails, GetCopy, GetCopyFails, ReleaseCopy, ReleaseCopyFails,
        UpdateCopy, UpdateCopyConflict, CreateCopy, CreateCopyRefused, WriteCopyFails,
        clusterVars
  <2> QED BY <1>1, <2>1, <2>2, <2>3 DEF WorkerStep, WorkerFault
<1>2. CASE UserOnCopies
  <2>1. ASSUME NEW x \in Syncs, EditWant(x) PROVE StatusesStay
    <3>1. sync \in [Syncs -> SyncObject] /\ sync[x] \in SyncObject
      BY DEF TypeOK, ClusterTypeOK
    <3> QED BY <2>1, <3>1 DEF EditWant, SyncObject
  <2> QED BY <1>2, <2>1 DEF UserOnCopies, EditSource, DeleteSource, CreateSource, DriftCopy,
                            DeleteCopy, DeleteNamespace, CreateNamespace
<1>3. CASE \/ Watch \/ Release \/ Crash \/ \E x \in Syncs : Register(x)
           \/ NamespaceController \/ UNCHANGED vars
  BY <1>3 DEF Watch, WatchSource, WatchNamespace, Release, ReleaseBegin, ReleaseEnd,
      ReleaseEndFails, Crash, Register, NamespaceController, EmptyNamespace, RemoveNamespace,
      clusterVars, vars
<1> QED BY <1>1, <1>2, <1>3 DEF RcNext

LEMMA FinishTells ==
    ASSUME TypeOK, RcInv, InSyncInv, NEW x \in w.cur, FinishUpsert(x),
           sync'[x].status # sync[x].status, sync'[x].status.insync = "True"
    PROVE  \A n \in w.plan : sync'[x].status.sv[n] = w.src.rv
<1>1. x \in Syncs /\ Outcome(x) \in Status /\ w.view[x].mod \in Status
  BY WorkerFields, TypeOfStatuses
<1>2. sync'[x].status = Outcome(x)
  BY <1>1, WritesStatus DEF FinishUpsert
<1>3. w.changed
  <2>1. w.view[x].orig = sync[x].status
    BY DEF RcInv, ViewsCurrent
  <2> QED BY <1>2, <2>1 DEF Outcome
<1>4. Outcome(x) = [w.view[x].mod EXCEPT !.insync = IF w.missed THEN "False" ELSE "True"]
  BY <1>3 DEF Outcome
<1>5. ~w.missed /\ Outcome(x).sv = w.view[x].mod.sv
  BY <1>1, <1>2, <1>4 DEF Status
<1>6. \A n \in w.plan : w.view[x].mod.sv[n] = w.src.rv
  BY <1>5 DEF FinishUpsert, Running, InSyncInv, FinishedAreInSync, Upserting
<1> QED BY <1>2, <1>5, <1>6

---------------------------------------------------------------------------
(* The theorems.                                                           *)

\* Planned entries are never given up as remnants, and those a faultless
\* pass has finished hold the version of the source it was started with.
THEOREM InSyncInvariant == RcSpec => [](TypeOK /\ RcInv /\ InSyncInv)
<1>1. RcInit => InSyncInv
  BY DEF RcInit, Idle, InSyncInv, PlannedAreNoRemnants, OneCopyAtATime, FinishedAreInSync,
         Deleting, Upserting
<1>2. TypeOK /\ RcInv /\ InSyncInv /\ [RcNext]_vars => InSyncInv'
  BY TellsStep
<1> QED BY <1>1, <1>2, InvariantHolds, PTL DEF RcSpec

\* Whenever the end of a reconciliation turns a status into InSync = "True",
\* every destination it planned has been written, or found up to date, with
\* the version of the source being reconciled (reconcile_source).
THEOREM InSyncIsTrue == RcSpec => InSyncTells
<1>1. TypeOK /\ RcInv /\ InSyncInv /\ [RcNext]_vars =>
        [\A x \in w.cur :
            Upserting /\ sync'[x].status # sync[x].status /\ sync'[x].status.insync = "True"
               => \A n \in w.plan : sync'[x].status.sv[n] = w.src.rv]_vars
  <2> SUFFICES ASSUME TypeOK, RcInv, InSyncInv, [RcNext]_vars, NEW x \in w.cur, Upserting,
                      sync'[x].status # sync[x].status, sync'[x].status.insync = "True"
               PROVE  \A n \in w.plan : sync'[x].status.sv[n] = w.src.rv
    OBVIOUS
  <2>1. x \in Syncs
    BY WorkerFields
  <2>2. PICK y \in Syncs : FinishUpsert(y)
    BY <2>1, OnlyFinishTells DEF StatusesStay
  <2>3. y = x
    BY <2>2 DEF FinishUpsert, RcInv, OneAtATime
  <2> QED BY <2>2, <2>3, FinishTells
<1> QED BY <1>1, InSyncInvariant, PTL DEF RcSpec, InSyncTells
=============================================================================
