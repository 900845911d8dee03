------------------------- MODULE SourceGuardProofs -------------------------
(***************************************************************************)
(* The source outlives its copies as long as no call fails, for any        *)
(* ObjectSyncs, namespaces and bounds.                                     *)
(***************************************************************************)
EXTENDS ResourceControllerProofs

\* SourceInv, of a state before the first fault.
GuardsSource ==
    /\ HeldIffTerminating /\ CacheOfSource /\ SourceOfWorker
    /\ DeletesCopiesOfAll /\ UnlistedIsEmpty /\ CopiesGuardSource

\* The ObjectSyncs the worker v has still to deal with.
Visits(v) == v.refs \cup v.loaded \cup v.cur

---------------------------------------------------------------------------
(* Frames shared by the actions.                                           *)

\* Around a worker that stands still, with the source as guarded as before.
LEMMA GuardQuiet ==
    ASSUME GuardsSource, UNCHANGED <<sources, srcCache, w>>,
           src'.st = src.st, src'.fin = src.fin, CopiesOnlyGo, StatusesStay
    PROVE  GuardsSource'
<1>1. HeldIffTerminating' /\ CacheOfSource' /\ SourceOfWorker'
  BY DEF GuardsSource, HeldIffTerminating, CacheOfSource, SourceOfWorker, LiveWithFinalizer,
         Exists
<1>2. DeletesCopiesOfAll' /\ CopiesGuardSource'
  BY DEF GuardsSource, DeletesCopiesOfAll, CopiesGuardSource, CopiesOnlyGo, SourceTerminating
<1>3. UnlistedIsEmpty'
  BY DEF GuardsSource, UnlistedIsEmpty, StatusesStay, Upserting, SourceTerminating
<1> QED BY <1>1, <1>2, <1>3 DEF GuardsSource

\* A worker that goes on with its source drops an ObjectSync only when it has
\* no live copy, an error is on record, or the source is not terminating.
LEMMA GuardWorker ==
    ASSUME GuardsSource, UNCHANGED <<src, sources, srcCache>>, CopiesOnlyGo,
           w.pc # "idle", w'.src = w.src,
           w.pc # "lookup" \/ w'.pc = "lookup" \/ SourceTerminating,
           Visits(w') \subseteq Visits(w), w'.ok => w.ok, w'.pc # "lookup" => w'.refs = {},
           SourceTerminating /\ w'.ok =>
               \A x \in Visits(w) \ Visits(w'), n \in Namespaces : dst'[x][n].st # "live",
           UnlistedIsEmpty'
    PROVE  GuardsSource'
<1>1. HeldIffTerminating' /\ CacheOfSource'
  BY DEF GuardsSource, HeldIffTerminating, CacheOfSource, LiveWithFinalizer
<1>2. SourceOfWorker'
  BY DEF GuardsSource, SourceOfWorker, SourceTerminating, LiveWithFinalizer, Exists
<1>3. DeletesCopiesOfAll'
  BY DEF GuardsSource, DeletesCopiesOfAll, SourceTerminating, Visits, CopiesOnlyGo
<1>4. CopiesGuardSource'
  BY DEF GuardsSource, CopiesGuardSource, CopiesOnlyGo
<1> QED BY <1>1, <1>2, <1>3, <1>4 DEF GuardsSource

\* An idle worker knows nothing about the source.
LEMMA GuardIdle ==
    ASSUME GuardsSource, w' = Idle, UNCHANGED <<src, dst, sync, sources, srcCache>>
    PROVE  GuardsSource'
<1>1. w'.pc = "idle" /\ w'.refs = {} /\ w'.loaded = {} /\ w'.cur = {}
  BY DEF Idle
<1> QED BY <1>1 DEF GuardsSource, HeldIffTerminating, CacheOfSource, LiveWithFinalizer,
        SourceOfWorker, DeletesCopiesOfAll, UnlistedIsEmpty, Upserting, CopiesGuardSource

\* What the return to the loop keeps.
LEMMA LeavingShape ==
    ASSUME NEW v \in Worker
    PROVE  /\ NextSync(v).pc = "loop" /\ NextSync(v).src = v.src /\ NextSync(v).ok = v.ok
           /\ NextSync(v).refs = {} /\ NextSync(v).loaded = v.loaded /\ NextSync(v).cur = {}
           /\ BailOut(v).pc = "loop" /\ BailOut(v).src = v.src /\ BailOut(v).ok = FALSE
           /\ BailOut(v).refs = {} /\ BailOut(v).loaded = v.loaded /\ BailOut(v).cur = {}
<1>1. \A u \in Worker :
        /\ NextSync(u).pc = "loop" /\ NextSync(u).src = u.src /\ NextSync(u).ok = u.ok
        /\ NextSync(u).refs = {} /\ NextSync(u).loaded = u.loaded /\ NextSync(u).cur = {}
  BY DEF NextSync, Idle
<1>2. /\ [v EXCEPT !.ok = FALSE] \in Worker /\ [v EXCEPT !.ok = FALSE].ok = FALSE
      /\ [v EXCEPT !.ok = FALSE].src = v.src /\ [v EXCEPT !.ok = FALSE].loaded = v.loaded
  BY DEF Worker
<1> QED BY <1>1, <1>2 DEF BailOut

---------------------------------------------------------------------------
(* Users, watches, registration.                                           *)

LEMMA GuardUsers ==
    ASSUME TypeOK, GuardsSource, UserOnCopies \/ NamespaceController, UNCHANGED rcVars
    PROVE  GuardsSource'
<1>1. /\ UNCHANGED <<sources, srcCache, w>> /\ src \in Object
      /\ sync \in [Syncs -> SyncObject]
  BY DEF rcVars, TypeOK, ClusterTypeOK
<1>2. ASSUME dst' = dst, sync' = sync,
             HeldIffTerminating', CacheOfSource', SourceOfWorker', src.fin => src'.fin
      PROVE  GuardsSource'
  <2>1. DeletesCopiesOfAll' /\ CopiesGuardSource'
    BY <1>1, <1>2 DEF GuardsSource, DeletesCopiesOfAll, CopiesGuardSource, SourceTerminating
  <2>2. UnlistedIsEmpty'
    BY <1>1, <1>2 DEF GuardsSource, UnlistedIsEmpty, Upserting, SourceTerminating
  <2> QED BY <1>2, <2>1, <2>2 DEF GuardsSource
<1>3. CASE DeleteSource
  <2>1. /\ src.st = "live"
        /\ \/ src.fin /\ src'.st = "term" /\ src'.fin
           \/ ~src.fin /\ src'.st = "absent" /\ ~src'.fin
    BY <1>1, <1>3 DEF DeleteSource, Deleted, Gone, Object
  <2>2. HeldIffTerminating'
    BY <2>1 DEF HeldIffTerminating
  <2>3. CacheOfSource'
    BY <1>1, <2>1 DEF GuardsSource, CacheOfSource, LiveWithFinalizer
  <2>4. SourceOfWorker'
    BY <1>1, <2>1 DEF GuardsSource, SourceOfWorker, LiveWithFinalizer, Exists
  <2> QED BY <1>2, <1>3, <2>1, <2>2, <2>3, <2>4 DEF DeleteSource
<1>4. CASE CreateSource
  <2>1. src.st = "absent" /\ ~src.fin /\ src'.st = "live" /\ src'.fin = src.fin
    BY <1>1, <1>4 DEF CreateSource, Object, GuardsSource, HeldIffTerminating
  <2>2. HeldIffTerminating'
    BY <2>1 DEF HeldIffTerminating
  <2>3. CacheOfSource'
    BY <1>1, <2>1 DEF GuardsSource, CacheOfSource, LiveWithFinalizer
  <2>4. SourceOfWorker'
    BY <1>1, <2>1 DEF GuardsSource, SourceOfWorker, LiveWithFinalizer, Exists
  <2> QED BY <1>2, <1>4, <2>1, <2>2, <2>3, <2>4 DEF CreateSource
<1>5. CASE EditSource
  <2>1. src'.st = src.st /\ src'.fin = src.fin /\ UNCHANGED <<dst, sync>>
    BY <1>1, <1>5 DEF EditSource, Object
  <2> QED BY <1>1, <2>1, GuardQuiet DEF CopiesOnlyGo, StatusesStay
<1>6. ASSUME NEW x \in Syncs, EditWant(x) PROVE GuardsSource'
  <2>1. StatusesStay
    <3>1. sync[x] \in SyncObject
      BY <1>1
    <3> QED BY <1>1, <1>6, <3>1 DEF EditWant, StatusesStay, SyncObject
  <2> QED BY <1>1, <1>6, <2>1, GuardQuiet DEF EditWant, CopiesOnlyGo
<1>7. ASSUME NEW x \in Syncs, NEW n \in Namespaces, DriftCopy(x, n) \/ DeleteCopy(x, n)
      PROVE  GuardsSource'
  <2>1. CASE DriftCopy(x, n)
    <3>1. CopiesOnlyGo
      BY <2>1 DEF DriftCopy, CopiesOnlyGo, TypeOK, ClusterTypeOK, Object
    <3> QED BY <1>1, <2>1, <3>1, GuardQuiet DEF DriftCopy, StatusesStay
  <2>2. CASE DeleteCopy(x, n)
    <3>1. CopiesOnlyGo
      BY <2>2, TypeOfCopy, NotRevived, OneCopyGoes DEF DeleteCopy
    <3> QED BY <1>1, <2>2, <3>1, GuardQuiet DEF DeleteCopy, StatusesStay
  <2> QED BY <1>7, <2>1, <2>2
<1>8. ASSUME NEW n \in Namespaces,
             DeleteNamespace(n) \/ CreateNamespace(n) \/ RemoveNamespace(n)
      PROVE  GuardsSource'
  BY <1>1, <1>8, GuardQuiet
  DEF DeleteNamespace, CreateNamespace, RemoveNamespace, CopiesOnlyGo, StatusesStay
<1>9. ASSUME NEW n \in Namespaces, EmptyNamespace(n) PROVE GuardsSource'
  <2>1. dst' = [x \in Syncs |-> [dst[x] EXCEPT ![n] = Deleted(dst[x][n])]]
    BY <1>9 DEF EmptyNamespace
  <2>2. \A x \in Syncs : Deleted(dst[x][n]).st # "live"
    BY TypeOfCopy, NotRevived
  <2>3. \A x \in Syncs : dst[x] \in [Namespaces -> Object]
    BY DEF TypeOK, ClusterTypeOK
  <2>4. CopiesOnlyGo
    BY <2>1, <2>2, <2>3 DEF CopiesOnlyGo
  <2> QED BY <1>1, <1>9, <2>4, GuardQuiet DEF EmptyNamespace, StatusesStay
<1> QED BY <1>3, <1>4, <1>5, <1>6, <1>7, <1>8, <1>9 DEF UserOnCopies, NamespaceController

\* A newer cache knows what the source is now.
LEMMA GuardCache ==
    ASSUME GuardsSource, UNCHANGED <<clusterVars, w>>, srcCache' \in {src, srcCache},
           sources \subseteq sources'
    PROVE  GuardsSource'
<1> USE DEF clusterVars
<1>1. HeldIffTerminating' /\ CacheOfSource' /\ SourceOfWorker'
  BY DEF GuardsSource, HeldIffTerminating, CacheOfSource, SourceOfWorker, LiveWithFinalizer,
         Exists
<1>2. DeletesCopiesOfAll' /\ CopiesGuardSource' /\ UnlistedIsEmpty'
  BY DEF GuardsSource, DeletesCopiesOfAll, CopiesGuardSource, SourceTerminating,
         UnlistedIsEmpty, Upserting
<1> QED BY <1>1, <1>2 DEF GuardsSource

LEMMA GuardAround ==
    ASSUME TypeOK, GuardsSource, faults' = faults,
           Watch \/ Release \/ Crash \/ \E x \in Syncs : Register(x)
    PROVE  GuardsSource'
<1>1. faults + 1 # faults
  BY DEF TypeOK, ClusterTypeOK
<1>2. CASE Watch \/ \E x \in Syncs : Register(x)
  BY <1>2, GuardCache DEF Watch, WatchSource, WatchNamespace, Register
<1>3. ASSUME NEW x \in Syncs, NEW n \in Namespaces, ReleaseBegin(x, n) PROVE GuardsSource'
  BY <1>3, GuardQuiet DEF ReleaseBegin, clusterVars, CopiesOnlyGo, StatusesStay
<1>4. ASSUME NEW x \in Syncs, NEW n \in Namespaces, ReleaseEnd(x, n) PROVE GuardsSource'
  <2>1. CopiesOnlyGo
    BY <1>4, TypeOfCopy, NotRevived, OneCopyGoes DEF ReleaseEnd
  <2> QED BY <1>4, <2>1, GuardQuiet DEF ReleaseEnd, StatusesStay
<1> QED BY <1>1, <1>2, <1>3, <1>4 DEF Release, ReleaseEndFails, Crash, Fault

---------------------------------------------------------------------------
(* The worker.                                                             *)

LEMMA GuardLookup ==
    ASSUME TypeOK, RcInv, GuardsSource,
           \/ Start \/ SourceDeletedBranch \/ AddFinalizerIfMissing
           \/ \E x \in Syncs : LoadSync(x)
    PROVE  GuardsSource'
<1> USE DEF rcMemory, clusterVars
<1>1. w \in Worker /\ w.src \in Object /\ src \in Object
  BY WorkerFields DEF TypeOK, ClusterTypeOK
<1>2. UNCHANGED <<dst, sync, sources, srcCache>>
  BY DEF Start, SourceDeletedBranch, AddFinalizerIfMissing, LoadSync
<1>3. CASE Start
  <2>1. /\ w'.pc = "lookup" /\ w'.src = srcCache /\ w'.refs = sources
        /\ w'.loaded = {} /\ w'.cur = {} /\ Exists(srcCache) /\ src' = src
    BY <1>3 DEF Start, Idle
  <2>2. HeldIffTerminating' /\ CacheOfSource'
    BY <1>2, <2>1 DEF GuardsSource, HeldIffTerminating, CacheOfSource, LiveWithFinalizer
  <2>3. SourceOfWorker'
    BY <1>2, <2>1 DEF GuardsSource, CacheOfSource, SourceOfWorker, LiveWithFinalizer, Exists
  <2>4. DeletesCopiesOfAll' /\ UnlistedIsEmpty' /\ CopiesGuardSource'
    BY <1>2, <2>1 DEF GuardsSource, DeletesCopiesOfAll, UnlistedIsEmpty, Upserting,
                      CopiesGuardSource
  <2> QED BY <2>2, <2>3, <2>4 DEF GuardsSource
<1>4. CASE SourceDeletedBranch
  <2>1. /\ w.pc = "lookup" /\ w'.pc = "loop" /\ w'.src = w.src /\ w'.refs = {} /\ w.refs = {}
        /\ w'.loaded = w.loaded /\ w'.cur = w.cur /\ w'.ok = w.ok /\ src' = src
        /\ SourceTerminating
    BY <1>1, <1>4 DEF SourceDeletedBranch, Running, Worker
  <2>2. UnlistedIsEmpty'
    BY <1>2, <2>1 DEF GuardsSource, UnlistedIsEmpty, Upserting
  <2> QED BY <1>2, <2>1, <2>2, GuardWorker DEF Visits, CopiesOnlyGo
<1>5. ASSUME NEW x \in Syncs, LoadSync(x) PROVE GuardsSource'
  <2>1. Exists(sync[x])
    BY DEF RcInv, SyncsStay, Exists
  <2>2. /\ w.pc = "lookup" /\ w'.pc = "lookup" /\ w'.src = w.src /\ w'.refs = w.refs \ {x}
        /\ w'.loaded = w.loaded \cup {x} /\ w'.cur = w.cur /\ w'.ok = w.ok /\ src' = src
        /\ x \in w.refs
    BY <1>1, <1>5, <2>1 DEF LoadSync, Running, Worker
  <2>3. UnlistedIsEmpty'
    BY <1>2, <2>2 DEF GuardsSource, UnlistedIsEmpty, Upserting
  <2> QED BY <1>2, <2>2, <2>3, GuardWorker DEF Visits, CopiesOnlyGo
<1>6. CASE AddFinalizerIfMissing
  <2>1. /\ w.pc = "lookup" /\ w'.pc = "loop" /\ w'.src.st = w.src.st /\ w'.refs = {}
        /\ w.refs = {} /\ w'.loaded = w.loaded /\ w'.cur = w.cur /\ w'.ok = w.ok
    BY <1>1, <1>6 DEF AddFinalizerIfMissing, Running, Worker, Object
  <2>2. w.src.st = "live"
    BY <1>1, <1>6, <2>1 DEF AddFinalizerIfMissing, SourceTerminating, GuardsSource,
                            SourceOfWorker, Exists, Object, Phase
  <2>3. src'.fin /\ src'.st # "absent" /\ (src.st = "term" => src' = src)
    <3>1. CASE w.src.fin
      BY <1>6, <2>1, <2>2, <3>1 DEF AddFinalizerIfMissing, GuardsSource, SourceOfWorker,
                                    HeldIffTerminating
    <3>2. CASE ~w.src.fin
      <4>1. src' = FinalizerApplied(src)
        BY <1>6, <3>2 DEF AddFinalizerIfMissing
      <4> QED BY <1>1, <4>1 DEF FinalizerApplied, Created, Object, Phase, GuardsSource,
                                HeldIffTerminating
    <3> QED BY <3>1, <3>2
  <2>4. HeldIffTerminating'
    BY <2>3 DEF HeldIffTerminating
  <2>5. srcCache.st = "term" => src'.st = "term"
    BY <2>1, <2>2, <2>3 DEF GuardsSource, SourceOfWorker
  <2>6. CacheOfSource' /\ SourceOfWorker'
    BY <1>2, <2>1, <2>2, <2>3, <2>5
    DEF CacheOfSource, SourceOfWorker, LiveWithFinalizer, Exists
  <2>7. DeletesCopiesOfAll' /\ UnlistedIsEmpty' /\ CopiesGuardSource'
    BY <1>2, <2>1, <2>2, <2>3
    DEF GuardsSource, DeletesCopiesOfAll, UnlistedIsEmpty, Upserting, CopiesGuardSource,
        SourceTerminating
  <2> QED BY <2>4, <2>6, <2>7 DEF GuardsSource
<1> QED BY <1>3, <1>4, <1>5, <1>6

LEMMA GuardBegin ==
    ASSUME TypeOK, RcInv, GuardsSource, NEW x \in Syncs,
           BeginReconcile(x) \/ BeginSourceDeleted(x)
    PROVE  GuardsSource'
<1> USE DEF rcMemory, clusterVars
<1>1. w \in Worker /\ x \in w.loaded /\ w.pc = "loop" /\ w.refs = {} /\ w.cur = {}
  BY WorkerFields DEF BeginReconcile, BeginSourceDeleted, Running, GuardsSource,
                      DeletesCopiesOfAll, RcInv, OneAtATime
<1>2. UNCHANGED <<src, dst, sync, sources, srcCache>>
  BY DEF BeginReconcile, BeginSourceDeleted
<1>3. CASE BeginReconcile(x) \/ w.view[x].mod.listed
  <2>1. /\ w'.pc = "delete" /\ w'.src = w.src /\ w'.refs = w.refs
        /\ w'.loaded = w.loaded \ {x} /\ w'.cur = {x} /\ w'.ok = w.ok
    BY <1>1, <1>3 DEF BeginReconcile, BeginSourceDeleted, Others, Worker
  <2>2. UnlistedIsEmpty'
    BY <1>2, <2>1 DEF GuardsSource, UnlistedIsEmpty, Upserting
  <2> QED BY <1>1, <1>2, <2>1, <2>2, GuardWorker DEF Visits, CopiesOnlyGo
<1>4. CASE BeginSourceDeleted(x) /\ ~w.view[x].mod.listed
  <2>1. [w EXCEPT !.loaded = Others(x)] \in Worker
    BY <1>1 DEF Worker, Others
  <2>2. w' = NextSync([w EXCEPT !.loaded = Others(x)])
    BY <1>4 DEF BeginSourceDeleted
  <2>3. /\ w'.pc = "loop" /\ w'.src = w.src /\ w'.refs = {} /\ w'.loaded = w.loaded \ {x}
        /\ w'.cur = {} /\ w'.ok = w.ok
    BY <1>1, <2>1, <2>2, LeavingShape DEF Others, Worker
  <2>4. \A n \in Namespaces : dst[x][n].st # "live"
    <3>1. ~sync[x].status.listed
      BY <1>1, <1>4 DEF RcInv, ViewsCurrent
    <3> QED BY <3>1 DEF GuardsSource, UnlistedIsEmpty, RcInv, TrackedForGC
  <2>5. UnlistedIsEmpty'
    BY <1>2, <2>3 DEF GuardsSource, UnlistedIsEmpty, Upserting
  <2> QED BY <1>1, <1>2, <2>3, <2>4, <2>5, GuardWorker DEF Visits, CopiesOnlyGo
<1> QED BY <1>3, <1>4

LEMMA GuardDelete ==
    ASSUME TypeOK, RcInv, GuardsSource, NEW x \in Syncs, NEW n \in Namespaces,
           GetStale(x, n) \/ StripStale(x, n) \/ DestroyStale(x, n)
    PROVE  GuardsSource'
<1> USE DEF rcMemory, clusterVars
<1>1. w \in Worker /\ UNCHANGED <<src, sync, sources, srcCache>>
  BY WorkerFields DEF GetStale, StripStale, DestroyStale
<1>2. CopiesOnlyGo
  <2>1. /\ Deleted(dst[x][n]).st # "live"
        /\ Stripped(dst[x][n]).st = "live" => dst[x][n].st = "live"
    BY TypeOfCopy, NotRevived
  <2> QED BY <2>1, OneCopyGoes DEF GetStale, StripStale, DestroyStale, CopiesOnlyGo
<1>3. /\ w.pc \in {"delete", "strip", "destroy"} /\ w'.pc \in {"delete", "strip", "destroy"}
      /\ w'.src = w.src /\ w'.refs = w.refs /\ w'.loaded = w.loaded /\ w'.cur = w.cur
      /\ w'.ok = w.ok
  BY <1>1 DEF GetStale, StripStale, DestroyStale, AfterGet, Running, Worker
<1>4. w.refs = {}
  BY <1>3 DEF GuardsSource, DeletesCopiesOfAll
<1>5. UnlistedIsEmpty'
  BY <1>1, <1>3 DEF GuardsSource, UnlistedIsEmpty, Upserting
<1> QED BY <1>1, <1>2, <1>3, <1>4, <1>5, GuardWorker DEF Visits

\* A status with a list was written: the ObjectSync is tracked, released or
\* reported.
LEMMA GuardStatus ==
    ASSUME TypeOK, RcInv, GuardsSource, NEW x \in Syncs,
           TrackDestinations(x) \/ FinishPurge(x) \/ FinishUpsert(x)
    PROVE  GuardsSource'
<1> USE DEF rcMemory, clusterVars
<1>1. /\ w \in Worker /\ UNCHANGED <<src, dst, sources, srcCache>> /\ x \in w.cur
      /\ w.pc \in {"delete", "upsert"} /\ \A y \in w.cur : y = x
  BY WorkerFields DEF TrackDestinations, FinishPurge, FinishUpsert, Running, RcInv, OneAtATime
<1>2. w.refs = {} /\ CopiesOnlyGo
  BY <1>1 DEF GuardsSource, DeletesCopiesOfAll, CopiesOnlyGo
<1>3. CASE TrackDestinations(x)
  <2>1. /\ Tracking(x) \in Status /\ Tracking(x).listed
    <3>1. w.view[x].mod \in Status
      BY WorkerFields
    <3> QED BY <3>1, TypeOfStatuses DEF Tracking, Track, Status
  <2>2. /\ sync'[x].status = Tracking(x) /\ StatusAccepted(x, Tracking(x))
        /\ \A y \in Syncs \ {x} : sync'[y] = sync[y]
    BY <1>1, <1>3, <2>1, WritesStatus DEF TrackDestinations
  <2>3. /\ Saved(w, x, Tracking(x)) \in Worker
        /\ Saved(w, x, Tracking(x)).view[x].mod = Tracking(x)
        /\ Saved(w, x, Tracking(x)).src = w.src /\ Saved(w, x, Tracking(x)).refs = w.refs
        /\ Saved(w, x, Tracking(x)).loaded = w.loaded /\ Saved(w, x, Tracking(x)).cur = w.cur
        /\ Saved(w, x, Tracking(x)).ok = w.ok
    <3>1. Saved(w, x, Tracking(x)) \in Worker
      BY <1>1, <2>1, SavedOps
    <3>2. w.view \in [Syncs -> View] /\ w.view[x] \in View
      BY <1>1 DEF Worker
    <3>3. Saved(w, x, Tracking(x)).view[x].mod = Tracking(x)
      BY <1>1, <3>2 DEF Saved, Worker, View
    <3> QED BY <1>1, <3>1, <3>3 DEF Saved, Worker
  <2>4. w' = [Saved(w, x, Tracking(x)) EXCEPT !.pc = "upsert",
                                             !.todo = Tracking(x).dest \ w.kept]
    BY <1>3, <2>2 DEF TrackDestinations
  <2>5. /\ w'.pc = "upsert" /\ w'.src = w.src /\ w'.refs = w.refs /\ w'.loaded = w.loaded
        /\ w'.cur = w.cur /\ w'.ok = w.ok /\ w'.view[x].mod.listed
    BY <2>1, <2>3, <2>4 DEF Worker
  <2>6. UnlistedIsEmpty'
    BY <1>1, <1>3, <2>1, <2>2, <2>5
    DEF TrackDestinations, GuardsSource, UnlistedIsEmpty, SourceTerminating
  <2> QED BY <1>1, <1>2, <2>5, <2>6, GuardWorker DEF Visits
<1>4. CASE FinishPurge(x)
  <2>1. Purged(x) \in Status /\ Purged(x).listed
    <3>1. w.view[x].mod \in Status
      BY WorkerFields
    <3>2. Track(w.view[x].mod, w.kept) \in Status /\ Track(w.view[x].mod, w.kept).listed
      BY <3>1, WorkerFields, TrackOps DEF Track, Status
    <3> QED BY <3>2, TypeOfStatuses DEF Purged, Status
  <2>2. /\ sync'[x].status = Purged(x)
        /\ \A y \in Syncs \ {x} : sync'[y] = sync[y]
    BY <1>1, <1>4, <2>1, WritesStatus DEF FinishPurge
  <2>3. /\ w'.pc = "loop" /\ w'.src = w.src /\ w'.refs = {} /\ w'.loaded = w.loaded
        /\ w'.cur = {} /\ (w'.ok => w.ok /\ w.kept = {})
    BY <1>1, <1>4, LeavingShape DEF FinishPurge
  <2>4. w.kept = {} => \A n \in Namespaces : dst[x][n].st # "live"
    BY <1>1, <1>4 DEF FinishPurge, Running, RcInv, DeletesAllStale, Deleting
  <2>5. UnlistedIsEmpty'
    BY <2>1, <2>2, <2>3 DEF GuardsSource, UnlistedIsEmpty, Upserting
  <2> QED BY <1>1, <1>2, <2>3, <2>4, <2>5, GuardWorker DEF Visits
<1>5. CASE FinishUpsert(x)
  <2>1. ~SourceTerminating /\ w.view[x].mod.listed
    BY <1>1, <1>5 DEF FinishUpsert, Running, GuardsSource, UnlistedIsEmpty, Upserting
  <2>2. /\ sync'[x].status = Outcome(x)
        /\ \A y \in Syncs \ {x} : sync'[y] = sync[y]
    BY <1>1, <1>5, TypeOfStatuses, WritesStatus DEF FinishUpsert
  <2>3. /\ w'.pc = "loop" /\ w'.src = w.src /\ w'.refs = {} /\ w'.loaded = w.loaded
        /\ w'.cur = {} /\ (w'.ok => w.ok)
    BY <1>1, <1>5, LeavingShape DEF FinishUpsert
  <2>4. Outcome(x).listed \/ Outcome(x).dest = {}
    <3>1. w.view[x].orig = sync[x].status /\ w.view[x].mod \in Status
      BY <1>1, WorkerFields DEF RcInv, ViewsCurrent
    <3> QED BY <2>1, <3>1 DEF Outcome, Status, GuardsSource, UnlistedIsEmpty
  <2>5. UnlistedIsEmpty'
    BY <2>2, <2>3, <2>4 DEF GuardsSource, UnlistedIsEmpty, Upserting
  <2> QED BY <1>1, <1>2, <2>1, <2>3, <2>5, GuardWorker DEF Visits
<1> QED BY <1>3, <1>4, <1>5

\* What a worker v within the copies of one ObjectSync has kept of w.
SameSync(v) ==
    /\ v.src = w.src /\ v.refs = w.refs /\ v.loaded = w.loaded /\ v.cur = w.cur
    /\ v.ok = w.ok /\ \A x \in w.cur : w.view[x].mod.listed => v.view[x].mod.listed

Writes(v) == SameSync(v) /\ v.pc \in {"upsert", "release", "update", "create"}

\* Giving a copy up, trying it again and comparing versions stay with it.
LEMMA WritesOps ==
    ASSUME NEW v \in Worker, SameSync(v), NEW x, NEW n, NEW rv \in Nat
    PROVE  /\ Writes(NextCopy(v)) /\ Writes(Missed(v)) /\ Writes(Retry(v))
           /\ Writes(CompareVersions(v, x, n, rv))
<1>1. \A u \in Worker : SameSync(u) => Writes(NextCopy(u))
  BY DEF NextCopy, Writes, SameSync, Worker
<1>2. Writes(Missed(v))
  <2>1. [v EXCEPT !.missed = TRUE] \in Worker /\ SameSync([v EXCEPT !.missed = TRUE])
    BY DEF SameSync, Worker
  <2> QED BY <1>1, <2>1 DEF Missed
<1>3. Writes([v EXCEPT !.pc = "upsert"]) /\ Writes([v EXCEPT !.pc = "update", !.seen = rv])
  BY DEF Writes, SameSync, Worker
<1> QED BY <1>1, <1>2, <1>3 DEF Retry, CompareVersions

\* Recording the versions of a written copy keeps the list.
LEMMA WritesWritten ==
    ASSUME TypeOK, NEW x \in Syncs, NEW n \in Namespaces, NEW rv \in Nat
    PROVE  Writes(Written(x, n, rv))
<1> DEFINE new == [w.view EXCEPT ![x].mod = Versioned(x, n, rv)]
           v == [w EXCEPT !.view = new, !.changed = TRUE]
<1>1. /\ Versioned(x, n, rv) \in Status
      /\ Versioned(x, n, rv).listed = w.view[x].mod.listed
  <2>1. w.view[x].mod.sv \in [Namespaces -> Nat] /\ w.view[x].mod.dv \in [Namespaces -> Nat]
    BY WorkerFields DEF Status
  <2> QED BY <2>1, WorkerFields DEF Versioned, Status
<1>2. /\ new \in [Syncs -> View]
      /\ \A y \in Syncs : new[y].mod.listed = w.view[y].mod.listed
  <2>1. w.view \in [Syncs -> View]
    BY WorkerFields DEF Worker
  <2> QED BY <1>1, <2>1 DEF View
<1>3. Written(x, n, rv) = NextCopy(v)
  BY WorkerFields DEF Written, Worker, View
<1> HIDE DEF new
<1>4. v \in Worker /\ SameSync(v)
  BY <1>2, WorkerFields DEF Worker, SameSync
<1> HIDE DEF v
<1> QED BY <1>3, <1>4, WritesOps

LEMMA GuardUpsert ==
    ASSUME TypeOK, RcInv, GuardsSource, NEW x \in Syncs, NEW n \in Namespaces,
           \/ GetCopy(x, n) \/ ReleaseCopy(x, n) \/ UpdateCopy(x, n)
           \/ UpdateCopyConflict(x, n) \/ CreateCopy(x, n) \/ CreateCopyRefused(x, n)
    PROVE  GuardsSource'
<1> USE DEF rcMemory, clusterVars
<1>1. /\ w \in Worker /\ w.seen \in Nat /\ dst[x][n] \in Object /\ dst[x][n].rv \in Nat
      /\ w.src.data \in Nat /\ w.src \in Object
  BY WorkerFields, TypeOfCopy DEF Worker
<1>2. /\ Upserting /\ x \in w.cur /\ UNCHANGED <<src, sync, sources, srcCache>>
  BY DEF GetCopy, ReleaseCopy, UpdateCopy, UpdateCopyConflict, CreateCopy, CreateCopyRefused,
         Running, Upserting
<1>3. SameSync(w) /\ ~SourceTerminating /\ w.refs = {}
  BY <1>2 DEF SameSync, GuardsSource, UnlistedIsEmpty, DeletesCopiesOfAll, Upserting
<1>4. src.fin /\ x \in sources
  BY <1>1, <1>2, <1>3
  DEF GuardsSource, SourceOfWorker, DeletesCopiesOfAll, Upserting, SourceTerminating, Exists,
      Object, Phase
<1>5. Writes(w')
  <2>1. CASE GetCopy(x, n)
    <3>1. Visited(n) \in Worker
      BY <2>1, VisitedOps DEF GetCopy, Running, RcInv, AttemptsLeft
    <3>2. SameSync(Visited(n))
      BY <1>1, <1>3 DEF Visited, SameSync, Worker
    <3>3. /\ Writes([Visited(n) EXCEPT !.pc = "create"])
          /\ Writes([Visited(n) EXCEPT !.pc = "release", !.seen = dst[x][n].rv])
      BY <3>1, <3>2 DEF Writes, SameSync, Worker
    <3>4. Writes(CompareVersions(Visited(n), x, n, dst[x][n].rv))
      BY <1>1, <3>1, <3>2, WritesOps
    <3> QED BY <2>1, <3>3, <3>4 DEF GetCopy
  <2>2. CASE ReleaseCopy(x, n) \/ UpdateCopyConflict(x, n) \/ CreateCopyRefused(x, n)
    BY <1>1, <1>3, <2>2, WritesOps DEF ReleaseCopy, UpdateCopyConflict, CreateCopyRefused
  <2>3. CASE UpdateCopy(x, n) \/ CreateCopy(x, n)
    <3>1. Updated(dst[x][n], w.src.data) \in Object
      BY <1>1, ObjectOps
    <3>2. Updated(dst[x][n], w.src.data).rv \in Nat /\ dst[x][n].rv + 1 \in Nat
      BY <1>1, <3>1 DEF Object
    <3> QED BY <2>3, <3>2, WritesWritten DEF UpdateCopy, CreateCopy
  <2> QED BY <2>1, <2>2, <2>3
<1>6. UnlistedIsEmpty'
  BY <1>2, <1>3, <1>5
  DEF GuardsSource, UnlistedIsEmpty, Upserting, Writes, SameSync, SourceTerminating
<1>7. CASE CopiesOnlyGo
  BY <1>2, <1>3, <1>5, <1>6, <1>7, GuardWorker
  DEF Writes, SameSync, Visits, Upserting
<1>8. CASE CreateCopy(x, n)
  <2>1. dst' = [dst EXCEPT ![x][n] = Created(dst[x][n], w.src.data)]
    BY <1>8 DEF CreateCopy
  <2>2. \A y \in Syncs, m \in Namespaces :
            dst'[y][m].st = "live" => dst[y][m].st = "live" \/ y = x
    <3> DEFINE c == Created(dst[x][n], w.src.data)
    <3>1. dst' = [dst EXCEPT ![x][n] = c]
      BY <2>1
    <3> HIDE DEF c
    <3> QED BY <3>1 DEF TypeOK, ClusterTypeOK
  <2>3. HeldIffTerminating' /\ CacheOfSource' /\ SourceOfWorker'
    BY <1>2, <1>5
    DEF GuardsSource, HeldIffTerminating, CacheOfSource, SourceOfWorker, LiveWithFinalizer,
        Writes, SameSync, Upserting
  <2>4. DeletesCopiesOfAll'
    BY <1>2, <1>3, <1>4, <1>5, <2>2
    DEF GuardsSource, DeletesCopiesOfAll, Writes, SameSync, SourceTerminating
  <2>5. CopiesGuardSource'
    BY <1>2, <1>4 DEF CopiesGuardSource
  <2> QED BY <1>6, <2>3, <2>4, <2>5 DEF GuardsSource
<1>9. CASE \/ GetCopy(x, n) \/ ReleaseCopy(x, n) \/ UpdateCopy(x, n)
           \/ UpdateCopyConflict(x, n) \/ CreateCopyRefused(x, n)
  <2>1. /\ Stripped(dst[x][n]).st = "live" => dst[x][n].st = "live"
        /\ Updated(dst[x][n], w.src.data).st = dst[x][n].st
    BY <1>1, NotRevived
  <2>2. CopiesOnlyGo
    BY <1>9, <2>1, OneCopyGoes
    DEF GetCopy, ReleaseCopy, UpdateCopy, UpdateCopyConflict, CreateCopyRefused, CopiesOnlyGo
  <2> QED BY <1>7, <2>2
<1> QED BY <1>8, <1>9

\* The finalizer of the source is released: nobody has live copies any more.
LEMMA ReleasedIsBare ==
    ASSUME GuardsSource, RcInv, Running("loop"), w.loaded = {}, ReleasesSource
    PROVE  \A x \in Syncs, n \in Namespaces : dst[x][n].st # "live"
<1>1. w.refs = {} /\ w.cur = {}
  BY DEF Running, GuardsSource, DeletesCopiesOfAll, RcInv, OneAtATime
<1> QED BY <1>1 DEF Running, ReleasesSource, GuardsSource, DeletesCopiesOfAll

LEMMA GuardEnd ==
    ASSUME TypeOK, RcInv, GuardsSource, EndReconcile
    PROVE  GuardsSource'
<1>1. w' = Idle /\ UNCHANGED <<dst, sync, sources, srcCache>> /\ src \in Object
  BY DEF EndReconcile, rcMemory, TypeOK, ClusterTypeOK
<1>2. CASE src' = src
  BY <1>1, <1>2, GuardIdle
<1>3. CASE src' # src
  <2>1. ReleasesSource /\ Running("loop") /\ w.loaded = {} /\ src' = Stripped(src) /\ src.fin
    BY <1>3 DEF EndReconcile, Stripped
  <2>2. \A x \in Syncs, n \in Namespaces : dst[x][n].st # "live"
    BY <2>1, ReleasedIsBare
  <2>3. src.st = "term" /\ ~LiveWithFinalizer(srcCache)
    BY <2>1 DEF ReleasesSource, SourceTerminating, Running, GuardsSource, SourceOfWorker
  <2>4. src'.st = "absent" /\ ~src'.fin
    BY <1>1, <2>1, <2>3 DEF Stripped, WithoutFinalizer, Gone, Object
  <2>5. w'.pc = "idle" /\ w'.refs = {} /\ w'.loaded = {} /\ w'.cur = {}
    BY <1>1 DEF Idle
  <2>6. HeldIffTerminating' /\ CacheOfSource' /\ SourceOfWorker'
    BY <1>1, <2>3, <2>4, <2>5
    DEF HeldIffTerminating, CacheOfSource, SourceOfWorker, LiveWithFinalizer
  <2>7. DeletesCopiesOfAll' /\ UnlistedIsEmpty' /\ CopiesGuardSource'
    BY <1>1, <2>2, <2>5
    DEF GuardsSource, DeletesCopiesOfAll, UnlistedIsEmpty, Upserting, CopiesGuardSource
  <2> QED BY <2>6, <2>7 DEF GuardsSource
<1> QED BY <1>2, <1>3

---------------------------------------------------------------------------
(* The inductive step, while no call fails.                                *)

LEMMA FailuresCount ==
    ASSUME WorkerFault PROVE Fault
  BY DEF WorkerFault, LoadSyncFails, AddFinalizerFails, GetStaleFails, StripStaleFails,
         DestroyStaleFails, TrackDestinationsFails, FinishPurgeFails, GetCopyFails,
         ReleaseCopyFails, WriteCopyFails, FinishUpsertFails, EndReconcileFails

LEMMA GuardSourceStep ==
    ASSUME TypeOK, RcInv, GuardsSource, faults' = faults, [RcNext]_vars
    PROVE  GuardsSource'
<1>1. CASE UNCHANGED vars
  BY <1>1, GuardQuiet DEF vars, clusterVars, rcVars, CopiesOnlyGo, StatusesStay
<1>2. CASE WorkerStep
  BY <1>2, GuardLookup, GuardBegin, GuardDelete, GuardStatus, GuardUpsert, GuardEnd
  DEF WorkerStep
<1>3. CASE WorkerFault
  <2>1. faults + 1 # faults
    BY DEF TypeOK, ClusterTypeOK
  <2> QED BY <1>3, <2>1, FailuresCount DEF Fault
<1>4. CASE Watch \/ Release \/ Crash \/ \E x \in Syncs : Register(x)
  BY <1>4, GuardAround
<1>5. CASE (UserOnCopies \/ NamespaceController) /\ UNCHANGED rcVars
  BY <1>5, GuardUsers
<1> QED BY <1>1, <1>2, <1>3, <1>4, <1>5 DEF RcNext

\* Faults are never taken back.
LEMMA FaultsGrow ==
    ASSUME TypeOK, [RcNext]_vars, faults' = 0
    PROVE  faults' = faults
<1>1. faults + 1 # 0
  BY DEF TypeOK, ClusterTypeOK
<1>2. CASE WorkerFault \/ Crash
  BY <1>1, <1>2, FailuresCount DEF Crash, Fault
<1>3. CASE WorkerStep
  BY <1>3
  DEF WorkerStep, Start, LoadSync, BeginReconcile, BeginSourceDeleted, SourceDeletedBranch,
      AddFinalizerIfMissing, GetStale, StripStale, DestroyStale, TrackDestinations,
      FinishPurge, GetCopy, ReleaseCopy, UpdateCopy, UpdateCopyConflict, CreateCopy,
      CreateCopyRefused, FinishUpsert, EndReconcile, clusterVars
<1>4. CASE Watch \/ Release \/ \E x \in Syncs : Register(x)
  BY <1>1, <1>4
  DEF Watch, WatchSource, WatchNamespace, Release, ReleaseBegin, ReleaseEnd, ReleaseEndFails,
      Fault, Register, clusterVars
<1>5. CASE UserOnCopies \/ NamespaceController \/ UNCHANGED vars
  BY <1>5
  DEF UserOnCopies, EditSource, DeleteSource, CreateSource, EditWant, DriftCopy, DeleteCopy,
      DeleteNamespace, CreateNamespace, NamespaceController, EmptyNamespace, RemoveNamespace,
      vars, clusterVars
<1> QED BY <1>2, <1>3, <1>4, <1>5 DEF RcNext

\* Only the end of a reconciliation takes the finalizer off the source.
LEMMA OnlyEndReleases ==
    ASSUME TypeOK, [RcNext]_vars, src.fin, ~src'.fin, faults' = faults
    PROVE  EndReconcile /\ ReleasesSource
<1>1. src \in Object /\ faults + 1 # faults
  BY DEF TypeOK, ClusterTypeOK
<1>2. CASE WorkerFault \/ Crash
  BY <1>1, <1>2, FailuresCount DEF Crash, Fault
<1>3. CASE AddFinalizerIfMissing
  BY <1>1, <1>3 DEF AddFinalizerIfMissing, FinalizerApplied, Created, Object
<1>4. CASE WorkerStep /\ ~EndReconcile /\ ~AddFinalizerIfMissing
  BY <1>4
  DEF WorkerStep, Start, LoadSync, BeginReconcile, BeginSourceDeleted, SourceDeletedBranch,
      GetStale, StripStale, DestroyStale, TrackDestinations,
      FinishPurge, GetCopy, ReleaseCopy, UpdateCopy, UpdateCopyConflict, CreateCopy,
      CreateCopyRefused, FinishUpsert, clusterVars
<1>5. CASE Watch \/ Release \/ \E x \in Syncs : Register(x)
  BY <1>5
  DEF Watch, WatchSource, WatchNamespace, Release, ReleaseBegin, ReleaseEnd, ReleaseEndFails,
      Register, clusterVars
<1>6. CASE EditSource \/ DeleteSource \/ CreateSource
  BY <1>1, <1>6 DEF EditSource, DeleteSource, CreateSource, Deleted, Gone, Object
<1>7. CASE \/ (UserOnCopies /\ ~EditSource /\ ~DeleteSource /\ ~CreateSource)
           \/ NamespaceController \/ UNCHANGED vars
  BY <1>7
  DEF UserOnCopies, EditWant, DriftCopy, DeleteCopy, DeleteNamespace, CreateNamespace,
      NamespaceController, EmptyNamespace, RemoveNamespace, vars, clusterVars
<1>8. CASE EndReconcile
  BY <1>8 DEF EndReconcile
<1> QED BY <1>2, <1>3, <1>4, <1>5, <1>6, <1>7, <1>8 DEF RcNext

---------------------------------------------------------------------------
(* The theorems.                                                           *)

\* Until the first call fails, however old the copies of the source in the
\* cache and in the worker are: who still has to delete copies is known, and
\* the source holds its finalizer for them.
THEOREM SourceInvariant == RcSpec => [](TypeOK /\ RcInv /\ SourceInv)
<1>1. RcInit => SourceInv
  <2> SUFFICES ASSUME RcInit PROVE SourceInv
    OBVIOUS
  <2>1. /\ \A x \in Syncs, n \in Namespaces : dst[x][n].st = "absent"
        /\ \A x \in Syncs : sync[x].status.dest = {}
        /\ src.st = "live" /\ ~src.fin /\ srcCache = src
    BY DEF RcInit, ClusterInit, NoStatus
  <2>2. w.pc = "idle" /\ w.refs = {} /\ w.cur = {} /\ w.loaded = {} /\ sources = {}
    BY DEF RcInit, Idle
  <2> QED BY <2>1, <2>2
          DEF SourceInv, HeldIffTerminating, CacheOfSource, LiveWithFinalizer, SourceOfWorker,
              DeletesCopiesOfAll, UnlistedIsEmpty, Upserting, CopiesGuardSource
<1>2. TypeOK /\ RcInv /\ SourceInv /\ [RcNext]_vars => SourceInv'
  <2> SUFFICES ASSUME TypeOK, RcInv, SourceInv, [RcNext]_vars PROVE SourceInv'
    OBVIOUS
  <2>1. CASE faults' = 0
    <3>1. faults' = faults
      BY <2>1, FaultsGrow
    <3>2. GuardsSource
      BY <2>1, <3>1 DEF SourceInv, GuardsSource
    <3>3. GuardsSource'
      BY <3>1, <3>2, GuardSourceStep
    <3> QED BY <3>3 DEF SourceInv, GuardsSource
  <2>2. CASE faults' # 0
    BY <2>2 DEF SourceInv
  <2> QED BY <2>1, <2>2
<1> QED BY <1>1, <1>2, InvariantHolds, PTL DEF RcSpec

\* As long as no call has failed, a source with a live copy holds the
\* finalizer: it cannot vanish before the worker has deleted its copies.
THEOREM SourceIsGuarded == RcSpec => [](faults = 0 => CopiesGuardSource)
<1>1. SourceInv => (faults = 0 => CopiesGuardSource)
  BY DEF SourceInv
<1> QED BY <1>1, SourceInvariant, PTL

\* The step that takes the finalizer off the source finds no live copy: the
\* finalizer goes after the last one, until a call fails for the first time.
THEOREM SourceReleasedLast ==
    RcSpec => [][faults' = 0 /\ src.fin /\ ~src'.fin =>
                    \A x \in Syncs, n \in Namespaces : dst[x][n].st # "live"]_vars
<1>1. TypeOK /\ RcInv /\ SourceInv /\ [RcNext]_vars =>
        [faults' = 0 /\ src.fin /\ ~src'.fin =>
            \A x \in Syncs, n \in Namespaces : dst[x][n].st # "live"]_vars
  <2> SUFFICES ASSUME TypeOK, RcInv, SourceInv, [RcNext]_vars, faults' = 0, src.fin, ~src'.fin
               PROVE  \A x \in Syncs, n \in Namespaces : dst[x][n].st # "live"
    OBVIOUS
  <2>1. faults' = faults
    BY FaultsGrow
  <2>2. EndReconcile /\ ReleasesSource
    BY <2>1, OnlyEndReleases
  <2>3. GuardsSource
    BY <2>1 DEF SourceInv, GuardsSource
  <2> QED BY <2>2, <2>3, ReleasedIsBare DEF EndReconcile
<1> QED BY <1>1, SourceInvariant, PTL DEF RcSpec

=============================================================================
