------------------------- MODULE ResourceController -------------------------
(***************************************************************************)
(* The resource specific sub-controller: one worker that reconciles the    *)
(* source object, every await on the API server a step of its own, so that *)
(* users, the namespace controller and the main controller interleave with *)
(* it.  The worker handles one reconciliation at a time (kube-runtime      *)
(* never runs two for the same object), holds copies of what it read in    *)
(* its record w, and is started again at any time by a watch event, a      *)
(* reload or the 300 s requeue.                                            *)
(*                                                                         *)
(* Definitions whose comment starts with "Fault seeded:" are wrong on      *)
(* purpose; no specification uses them.  Each replaces the definition that *)
(* follows it to show that a property notices the fault.                   *)
(***************************************************************************)
EXTENDS Cluster

CONSTANTS
    Attempts,      \* attempts to write one copy (retry_attempts)
    CopiesWatched  \* the source watch also covers the target namespaces

ASSUME AttemptsAssumption == Attempts \in Nat \ {0} /\ CopiesWatched \in BOOLEAN

VARIABLES
    sources,    \* ObjectSyncs registered for the source object
    srcCache,   \* the source as the watch last reported it
    nsCache,    \* the namespaces as the reflector last reported them
    releasing,  \* copies whose own reconciliation is about to strip the finalizer
    w           \* the worker: local variables of the running reconciliation

rcVars == <<sources, srcCache, nsCache, releasing, w>>
rcMemory == <<sources, srcCache, nsCache, releasing>>
vars == <<clusterVars, rcVars>>

\* Where the worker is: which call it makes next.
WorkerPc == {"idle", "lookup", "loop", "delete", "strip", "destroy",
             "upsert", "release", "update", "create"}

\* An ObjectSync as get_object_sync loaded it: orig and mod are the status
\* of the two copies an ObjectSyncModifications keeps.
View == [want : SUBSET Namespaces, orig : Status, mod : Status]

NoView == [want |-> {}, orig |-> NoStatus, mod |-> NoStatus]

Worker == [
    pc : WorkerPc,
    src : Object,                \* the Arc<DynamicObject> being reconciled
    refs : SUBSET Syncs,         \* references still to be loaded
    loaded : SUBSET Syncs,       \* loaded ObjectSyncs still to be reconciled
    view : [Syncs -> View],
    cur : SUBSET Syncs,          \* the ObjectSync being reconciled, if any
    plan : SUBSET Namespaces,    \* expected_destinations
    todo : SUBSET Namespaces,    \* entries the current loop still has to visit
    at : SUBSET Namespaces,      \* the entry being visited, if any
    kept : SUBSET Namespaces,    \* stale_remnants
    seen : Nat,                  \* resourceVersion of the copy as read
    tries : Nat,                 \* retry_attempts
    changed : BOOLEAN,           \* a copy was written or a stale one removed
    missed : BOOLEAN,            \* observed_success < expected_success
    ok : BOOLEAN]                \* all_succeeded

Idle == [
    pc |-> "idle",
    src |-> [st |-> "absent", fin |-> FALSE, rv |-> 0, data |-> Empty],
    refs |-> {}, loaded |-> {}, view |-> [x \in Syncs |-> NoView],
    cur |-> {}, plan |-> {}, todo |-> {}, at |-> {}, kept |-> {},
    seen |-> 0, tries |-> 0, changed |-> FALSE, missed |-> FALSE, ok |-> TRUE]

SourceTerminating == w.src.st = "term"

Running(pc) == w.pc = pc

---------------------------------------------------------------------------
(* lookup_object_syncs_for_source                                          *)

\* Fault seeded: a source that holds the finalizer counts as done, instead
\* of being reconciled every 300 s.
StartOnlyUnguarded ==
    /\ Running("idle") /\ sources # {} /\ Exists(srcCache) /\ ~srcCache.fin
    /\ w' = [Idle EXCEPT !.pc = "lookup", !.src = srcCache, !.refs = sources]
    /\ UNCHANGED <<clusterVars, rcMemory>>

\* A reconciliation starts from the cached source; the set of references is
\* cloned under the read lock.
Start ==
    /\ Running("idle") /\ sources # {} /\ Exists(srcCache)
    /\ w' = [Idle EXCEPT !.pc = "lookup", !.src = srcCache, !.refs = sources]
    /\ UNCHANGED <<clusterVars, rcMemory>>

LoadSync(x) ==
    /\ Running("lookup") /\ x \in w.refs
    /\ w' = IF Exists(sync[x])
            THEN [w EXCEPT !.refs = @ \ {x}, !.loaded = @ \cup {x},
                           !.view[x] = [want |-> sync[x].want, orig |-> sync[x].status,
                                        mod |-> sync[x].status]]
            ELSE [w EXCEPT !.refs = @ \ {x}]
    /\ UNCHANGED <<clusterVars, rcMemory>>

\* Any error is answered like "no such ObjectSync".
LoadSyncFails(x) ==
    /\ Running("lookup") /\ x \in w.refs /\ Fault
    /\ w' = [w EXCEPT !.refs = @ \ {x}]
    /\ UNCHANGED <<src, dst, sync, ns, edits, rcMemory>>

---------------------------------------------------------------------------
(* reconcile, up to the loop over the ObjectSyncs                          *)

SourceDeletedBranch ==
    /\ Running("lookup") /\ w.refs = {} /\ SourceTerminating
    /\ w' = [w EXCEPT !.pc = "loop"]
    /\ UNCHANGED <<clusterVars, rcMemory>>

\* Server-side apply of the finalizer: creates the object when it is gone,
\* and is refused when it is terminating (error logged, reconcile goes on).
FinalizerApplied(o) ==
    CASE o.st = "absent" -> Created(o, Empty)
      [] o.st = "live" /\ ~o.fin -> [o EXCEPT !.fin = TRUE, !.rv = @ + 1]
      [] OTHER -> o

\* Fault seeded: the finalizer is only added in memory.
AddFinalizerInMemory ==
    /\ Running("lookup") /\ w.refs = {} /\ ~SourceTerminating
    /\ w' = [w EXCEPT !.pc = "loop", !.src.fin = TRUE]
    /\ UNCHANGED <<clusterVars, rcMemory>>

AddFinalizerIfMissing ==
    /\ Running("lookup") /\ w.refs = {} /\ ~SourceTerminating
    /\ src' = IF w.src.fin THEN src ELSE FinalizerApplied(src)
    /\ w' = [w EXCEPT !.pc = "loop", !.src.fin = TRUE]
    /\ UNCHANGED <<dst, sync, ns, edits, faults, rcMemory>>

AddFinalizerFails ==
    /\ Running("lookup") /\ w.refs = {} /\ ~SourceTerminating /\ ~w.src.fin /\ Fault
    /\ w' = [w EXCEPT !.pc = "loop"]
    /\ UNCHANGED <<src, dst, sync, ns, edits, rcMemory>>

\* Back to the loop over the ObjectSyncs.
NextSync(worker) ==
    [Idle EXCEPT !.pc = "loop", !.src = worker.src, !.loaded = worker.loaded,
                 !.ok = worker.ok,
                 !.view = [x \in Syncs |-> IF x \in worker.loaded THEN worker.view[x] ELSE NoView]]

\* `?` inside reconcile_source or source_deleted: the error is logged, and
\* all_succeeded becomes false.
BailOut(worker) == NextSync([worker EXCEPT !.ok = FALSE])

---------------------------------------------------------------------------
(* reconcile_source and source_deleted: what to delete                     *)

\* Fault seeded: the loop ends after one ObjectSync.
NoOthers(x) == {}

\* The ObjectSyncs the loop has still to visit after x.
Others(x) == w.loaded \ {x}

\* expected_destinations, from the namespace cache.
ExpectedDestinations(x) == {n \in w.view[x].want : nsCache[n] = "active"}

BeginReconcile(x) ==
    /\ Running("loop") /\ x \in w.loaded /\ ~SourceTerminating
    /\ w' = [w EXCEPT !.pc = "delete", !.loaded = Others(x), !.cur = {x},
                      !.plan = ExpectedDestinations(x),
                      !.todo = w.view[x].mod.dest \ ExpectedDestinations(x)]
    /\ UNCHANGED <<clusterVars, rcMemory>>

\* Without a destination list there is nothing to delete or to write.
BeginSourceDeleted(x) ==
    /\ Running("loop") /\ x \in w.loaded /\ SourceTerminating
    /\ w' = IF w.view[x].mod.listed
            THEN [w EXCEPT !.pc = "delete", !.loaded = Others(x), !.cur = {x},
                           !.plan = {}, !.todo = w.view[x].mod.dest]
            ELSE NextSync([w EXCEPT !.loaded = Others(x)])
    /\ UNCHANGED <<clusterVars, rcMemory>>

---------------------------------------------------------------------------
(* delete_destinations: GET, strip the finalizer, DELETE, for each entry   *)

\* The finalizer is removed first, if the copy holds it.
AfterGet(copy) == IF copy.fin THEN "strip" ELSE "destroy"

GetStale(x, n) ==
    /\ Running("delete") /\ x \in w.cur /\ n \in w.todo
    /\ w' = [w EXCEPT !.at = {n}, !.pc = AfterGet(dst[x][n])]
    /\ UNCHANGED <<clusterVars, rcMemory>>

GetStaleFails(x, n) ==
    /\ Running("delete") /\ x \in w.cur /\ n \in w.todo /\ Fault
    /\ w' = BailOut(w)
    /\ UNCHANGED <<src, dst, sync, ns, edits, rcMemory>>

\* The JSON patch removes the finalizer of whatever object has the name now.
StripStale(x, n) ==
    /\ Running("strip") /\ x \in w.cur /\ n \in w.at
    /\ dst' = [dst EXCEPT ![x][n] = Stripped(@)]
    /\ w' = [w EXCEPT !.pc = "destroy"]
    /\ UNCHANGED <<src, sync, ns, edits, faults, rcMemory>>

\* Only a warning: the DELETE follows all the same.
StripStaleFails(x, n) ==
    /\ Running("strip") /\ x \in w.cur /\ n \in w.at /\ Fault
    /\ w' = [w EXCEPT !.pc = "destroy"]
    /\ UNCHANGED <<src, dst, sync, ns, edits, rcMemory>>

DestroyStale(x, n) ==
    /\ Running("destroy") /\ x \in w.cur /\ n \in w.at
    /\ dst' = [dst EXCEPT ![x][n] = Deleted(@)]
    /\ w' = [w EXCEPT !.pc = "delete", !.at = {}, !.todo = @ \ {n}, !.changed = TRUE]
    /\ UNCHANGED <<src, sync, ns, edits, faults, rcMemory>>

\* Fault seeded: a copy that could not be deleted is no remnant.
DestroyStaleForgets(x, n) ==
    /\ Running("destroy") /\ x \in w.cur /\ n \in w.at /\ Fault
    /\ w' = [w EXCEPT !.pc = "delete", !.at = {}, !.todo = @ \ {n}]
    /\ UNCHANGED <<src, dst, sync, ns, edits, rcMemory>>

DestroyStaleFails(x, n) ==
    /\ Running("destroy") /\ x \in w.cur /\ n \in w.at /\ Fault
    /\ w' = [w EXCEPT !.pc = "delete", !.at = {}, !.todo = @ \ {n}, !.kept = @ \cup {n}]
    /\ UNCHANGED <<src, dst, sync, ns, edits, rcMemory>>

---------------------------------------------------------------------------
(* replace_status: nothing is sent when the in-memory status is unchanged, *)
(* a missing object is an error, otherwise the whole status is replaced by *)
(* the one in memory.  Its GET and its PUT are one step: a write between   *)
(* them makes the PUT fail, which is one of the faults.                    *)

StatusWritten(x, s) ==
    sync' = IF s # w.view[x].orig /\ Exists(sync[x])
            THEN [sync EXCEPT ![x] = StatusReplaced(@, s)] ELSE sync

StatusAccepted(x, s) == s = w.view[x].orig \/ Exists(sync[x])

Saved(worker, x, s) == [worker EXCEPT !.view[x].orig = s, !.view[x].mod = s]

\* Fault seeded: remnants are not listed again.
TrackingOnlyExpected(x) == Track(w.view[x].mod, w.plan)

\* The destinations are tracked before the first copy is created.
Tracking(x) == Track(w.view[x].mod, w.plan \cup w.kept)

TrackDestinations(x) ==
    /\ Running("delete") /\ x \in w.cur /\ w.todo = {} /\ ~SourceTerminating
    /\ StatusWritten(x, Tracking(x))
    /\ w' = IF StatusAccepted(x, Tracking(x))
            THEN [Saved(w, x, Tracking(x)) EXCEPT !.pc = "upsert",
                                                  !.todo = Tracking(x).dest \ w.kept]
            ELSE BailOut(w)
    /\ UNCHANGED <<src, dst, ns, edits, faults, rcMemory>>

\* Fault seeded: a list that could not be written is only logged.
TrackDestinationsGoesOn(x) ==
    /\ Running("delete") /\ x \in w.cur /\ w.todo = {} /\ ~SourceTerminating
    /\ Tracking(x) # w.view[x].orig /\ Fault
    /\ w' = [Saved(w, x, Tracking(x)) EXCEPT !.pc = "upsert",
                                             !.todo = Tracking(x).dest \ w.kept]
    /\ UNCHANGED <<src, dst, sync, ns, edits, rcMemory>>

TrackDestinationsFails(x) ==
    /\ Running("delete") /\ x \in w.cur /\ w.todo = {} /\ ~SourceTerminating
    /\ Tracking(x) # w.view[x].orig /\ Fault
    /\ w' = BailOut(w)
    /\ UNCHANGED <<src, dst, sync, ns, edits, rcMemory>>

\* After the deletions of a terminating source: only remnants stay listed.
Purged(x) ==
    [Track(w.view[x].mod, w.kept) EXCEPT !.insync = IF w.kept = {} THEN "True" ELSE "False"]

FinishPurge(x) ==
    /\ Running("delete") /\ x \in w.cur /\ w.todo = {} /\ SourceTerminating
    /\ StatusWritten(x, Purged(x))
    /\ w' = IF StatusAccepted(x, Purged(x)) /\ w.kept = {} THEN NextSync(w) ELSE BailOut(w)
    /\ UNCHANGED <<src, dst, ns, edits, faults, rcMemory>>

FinishPurgeFails(x) ==
    /\ Running("delete") /\ x \in w.cur /\ w.todo = {} /\ SourceTerminating
    /\ Purged(x) # w.view[x].orig /\ Fault
    /\ w' = BailOut(w)
    /\ UNCHANGED <<src, dst, sync, ns, edits, rcMemory>>

---------------------------------------------------------------------------
(* upsert_destinations: at most Attempts rounds of GET and write for each  *)
(* entry that is not a remnant                                             *)

NextCopy(worker) ==
    [worker EXCEPT !.pc = "upsert", !.todo = @ \ worker.at, !.at = {}, !.seen = 0, !.tries = 0]

\* Fault seeded: an entry that was given up counts as a success.
MissedUnnoticed(worker) == NextCopy(worker)

Missed(worker) == NextCopy([worker EXCEPT !.missed = TRUE])

\* Fault seeded: the attempts are counted but never used up.
RetryForever(worker) == [worker EXCEPT !.pc = "upsert"]

\* `continue`: once the attempts are used up the entry is given up.
Retry(worker) == IF worker.tries = 0 THEN Missed(worker) ELSE [worker EXCEPT !.pc = "upsert"]

\* Fault seeded: an edit of the source alone goes unnoticed.
CopyUnchanged(x, n, rv) == w.view[x].mod.dv[n] = rv

\* The entry is up to date: neither copy nor source changed since it was written.
UpToDate(x, n, rv) ==
    w.view[x].mod.dv[n] = rv /\ w.view[x].mod.sv[n] = w.src.rv

CompareVersions(worker, x, n, rv) ==
    IF UpToDate(x, n, rv) THEN NextCopy(worker) ELSE [worker EXCEPT !.pc = "update", !.seen = rv]

Visited(n) == [w EXCEPT !.at = {n}, !.tries = (IF w.at = {} THEN Attempts ELSE @) - 1]

GetCopy(x, n) ==
    /\ Running("upsert") /\ x \in w.cur /\ n \in (IF w.at = {} THEN w.todo ELSE w.at)
    /\ LET copy == dst[x][n]
       IN  w' = CASE copy.st = "absent" -> [Visited(n) EXCEPT !.pc = "create"]
                  [] copy.st = "term" /\ copy.fin ->
                        [Visited(n) EXCEPT !.pc = "release", !.seen = copy.rv]
                  [] OTHER -> CompareVersions(Visited(n), x, n, copy.rv)
    /\ UNCHANGED <<clusterVars, rcMemory>>

GetCopyFails(x, n) ==
    /\ Running("upsert") /\ x \in w.cur /\ n \in (IF w.at = {} THEN w.todo ELSE w.at) /\ Fault
    /\ w' = Missed([w EXCEPT !.at = {n}])
    /\ UNCHANGED <<src, dst, sync, ns, edits, rcMemory>>

\* A terminating copy is let go, to be created again; when the patch is
\* refused the worker goes on with the object it read.
ReleaseCopy(x, n) ==
    /\ Running("release") /\ x \in w.cur /\ n \in w.at
    /\ dst' = [dst EXCEPT ![x][n] = Stripped(@)]
    /\ w' = IF Exists(dst[x][n]) /\ ~dst[x][n].fin
            THEN CompareVersions(w, x, n, w.seen) ELSE Retry(w)
    /\ UNCHANGED <<src, sync, ns, edits, faults, rcMemory>>

ReleaseCopyFails(x, n) ==
    /\ Running("release") /\ x \in w.cur /\ n \in w.at /\ Fault
    /\ w' = CompareVersions(w, x, n, w.seen)
    /\ UNCHANGED <<src, dst, sync, ns, edits, rcMemory>>

Versioned(x, n, rv) == [w.view[x].mod EXCEPT !.sv[n] = w.src.rv, !.dv[n] = rv]

Written(x, n, rv) ==
    NextCopy([w EXCEPT !.view[x].mod = Versioned(x, n, rv), !.changed = TRUE])

\* Replace or apply under the resourceVersion that was read.
UpdateCopy(x, n) ==
    /\ Running("update") /\ x \in w.cur /\ n \in w.at
    /\ Exists(dst[x][n]) /\ dst[x][n].rv = w.seen
    /\ dst' = [dst EXCEPT ![x][n] = Updated(@, w.src.data)]
    /\ w' = Written(x, n, Updated(dst[x][n], w.src.data).rv)
    /\ UNCHANGED <<src, sync, ns, edits, faults, rcMemory>>

UpdateCopyConflict(x, n) ==
    /\ Running("update") /\ x \in w.cur /\ n \in w.at
    /\ ~Exists(dst[x][n]) \/ dst[x][n].rv # w.seen
    /\ w' = Retry(w)
    /\ UNCHANGED <<clusterVars, rcMemory>>

CreateCopy(x, n) ==
    /\ Running("create") /\ x \in w.cur /\ n \in w.at
    /\ ~Exists(dst[x][n]) /\ ns[n] = "active"
    /\ dst' = [dst EXCEPT ![x][n] = Created(@, w.src.data)]
    /\ w' = Written(x, n, dst[x][n].rv + 1)
    /\ UNCHANGED <<src, sync, ns, edits, faults, rcMemory>>

\* The namespace went away after the plan was made: an error like any other.
CreateCopyRefused(x, n) ==
    /\ Running("create") /\ x \in w.cur /\ n \in w.at /\ ns[n] # "active"
    /\ w' = Missed(w)
    /\ UNCHANGED <<clusterVars, rcMemory>>

WriteCopyFails(x, n) ==
    /\ w.pc \in {"update", "create"} /\ x \in w.cur /\ n \in w.at /\ Fault
    /\ w' = Missed(w)
    /\ UNCHANGED <<src, dst, sync, ns, edits, rcMemory>>

---------------------------------------------------------------------------
(* The end of reconcile_source and of reconcile                            *)

\* The condition and the new versions are saved only if something changed.
Outcome(x) ==
    IF w.changed
    THEN [w.view[x].mod EXCEPT !.insync = IF w.missed THEN "False" ELSE "True"]
    ELSE w.view[x].orig

FinishUpsert(x) ==
    /\ Running("upsert") /\ x \in w.cur /\ w.todo = {} /\ w.at = {}
    /\ StatusWritten(x, Outcome(x))
    /\ w' = IF StatusAccepted(x, Outcome(x)) THEN NextSync(w) ELSE BailOut(w)
    /\ UNCHANGED <<src, dst, ns, edits, faults, rcMemory>>

FinishUpsertFails(x) ==
    /\ Running("upsert") /\ x \in w.cur /\ w.todo = {} /\ w.at = {}
    /\ Outcome(x) # w.view[x].orig /\ Fault
    /\ w' = BailOut(w)
    /\ UNCHANGED <<src, dst, sync, ns, edits, rcMemory>>

\* Fault seeded: only the reconciliation that deleted a copy releases.
ReleasesSourceIfChanged == SourceTerminating /\ w.ok /\ w.src.fin /\ w.changed

\* Every copy of a terminating source is deleted, as far as the worker
\* knows: the finalizer it read is removed from the source.
ReleasesSource == SourceTerminating /\ w.ok /\ w.src.fin

EndReconcile ==
    /\ Running("loop") /\ w.loaded = {}
    /\ src' = IF ReleasesSource THEN Stripped(src) ELSE src
    /\ w' = Idle
    /\ UNCHANGED <<dst, sync, ns, edits, faults, rcMemory>>

EndReconcileFails ==
    /\ Running("loop") /\ w.loaded = {} /\ ReleasesSource /\ Fault
    /\ w' = Idle
    /\ UNCHANGED <<src, dst, sync, ns, edits, rcMemory>>

---------------------------------------------------------------------------
(* Around the worker: watches, the reconciliation of copies as objects of  *)
(* their own, registration and restarts                                    *)

WatchSource ==
    /\ sources # {} /\ srcCache # src
    /\ srcCache' = src
    /\ UNCHANGED <<clusterVars, sources, nsCache, releasing, w>>

WatchNamespace(n) ==
    /\ nsCache[n] # ns[n]
    /\ nsCache' = [nsCache EXCEPT ![n] = ns[n]]
    /\ UNCHANGED <<clusterVars, sources, srcCache, releasing, w>>

\* Fault seeded: copies are left alone even when they are terminating.
ReleaseBeginNever(x, n) == FALSE

\* A copy no ObjectSync refers to is left alone until it is terminating;
\* then its reconciliation removes the finalizer it saw in the cache.
ReleaseBegin(x, n) ==
    /\ CopiesWatched /\ sources # {}
    /\ dst[x][n].st = "term" /\ dst[x][n].fin /\ <<x, n>> \notin releasing
    /\ releasing' = releasing \cup {<<x, n>>}
    /\ UNCHANGED <<clusterVars, sources, srcCache, nsCache, w>>

ReleaseEnd(x, n) ==
    /\ <<x, n>> \in releasing
    /\ dst' = [dst EXCEPT ![x][n] = Stripped(@)]
    /\ releasing' = releasing \ {<<x, n>>}
    /\ UNCHANGED <<src, sync, ns, edits, faults, sources, srcCache, nsCache, w>>

ReleaseEndFails(x, n) ==
    /\ <<x, n>> \in releasing /\ Fault
    /\ releasing' = releasing \ {<<x, n>>}
    /\ UNCHANGED <<src, dst, sync, ns, edits, sources, srcCache, nsCache, w>>

\* register: the first registration spawns the sub-controller, whose watch
\* starts from a list of the API server.
Register(x) ==
    /\ x \notin sources /\ sync[x].st = "live"
    /\ sources' = sources \cup {x}
    /\ srcCache' = IF sources = {} THEN src ELSE srcCache
    /\ UNCHANGED <<clusterVars, nsCache, releasing, w>>

\* The process dies and starts again, with empty memory and fresh caches.
Crash ==
    /\ Fault
    /\ sources' = {} /\ releasing' = {} /\ w' = Idle
    /\ srcCache' = src /\ nsCache' = ns
    /\ UNCHANGED <<src, dst, sync, ns, edits>>

---------------------------------------------------------------------------
RcInit ==
    /\ ClusterInit(TRUE)
    /\ sources = {} /\ srcCache = src /\ nsCache = ns /\ releasing = {}
    /\ w = Idle

\* The steps of the worker when every call gets its answer.
WorkerStep ==
    \/ Start
    \/ \E x \in Syncs : LoadSync(x) \/ BeginReconcile(x) \/ BeginSourceDeleted(x)
    \/ SourceDeletedBranch \/ AddFinalizerIfMissing
    \/ \E x \in Syncs, n \in Namespaces :
          GetStale(x, n) \/ StripStale(x, n) \/ DestroyStale(x, n)
    \/ \E x \in Syncs : TrackDestinations(x) \/ FinishPurge(x)
    \/ \E x \in Syncs, n \in Namespaces :
          \/ GetCopy(x, n) \/ ReleaseCopy(x, n)
          \/ UpdateCopy(x, n) \/ UpdateCopyConflict(x, n)
          \/ CreateCopy(x, n) \/ CreateCopyRefused(x, n)
    \/ \E x \in Syncs : FinishUpsert(x)
    \/ EndReconcile

WorkerFault ==
    \/ \E x \in Syncs : LoadSyncFails(x)
    \/ AddFinalizerFails
    \/ \E x \in Syncs, n \in Namespaces :
          GetStaleFails(x, n) \/ StripStaleFails(x, n) \/ DestroyStaleFails(x, n)
    \/ \E x \in Syncs : TrackDestinationsFails(x) \/ FinishPurgeFails(x)
    \/ \E x \in Syncs, n \in Namespaces :
          GetCopyFails(x, n) \/ ReleaseCopyFails(x, n) \/ WriteCopyFails(x, n)
    \/ \E x \in Syncs : FinishUpsertFails(x)
    \/ EndReconcileFails

Watch == WatchSource \/ \E n \in Namespaces : WatchNamespace(n)

Release ==
    \E x \in Syncs, n \in Namespaces :
        ReleaseBegin(x, n) \/ ReleaseEnd(x, n) \/ ReleaseEndFails(x, n)

RcNext ==
    \/ WorkerStep \/ WorkerFault \/ Watch \/ Release
    \/ \E x \in Syncs : Register(x)
    \/ Crash
    \/ (UserOnCopies \/ NamespaceController) /\ UNCHANGED rcVars

\* The sub-controller while the main controller only registers ObjectSyncs:
\* nobody else writes their status or deletes them.
RcSpec == RcInit /\ [][RcNext]_vars

\* Every task of the runtime is polled, watches deliver in the end, and
\* Kubernetes empties terminating namespaces.  Users and faults are free.
RcFairness ==
    /\ WF_vars(WorkerStep)
    /\ WF_vars(WatchSource)
    /\ \A n \in Namespaces : WF_vars(WatchNamespace(n))
    /\ \A x \in Syncs, n \in Namespaces :
          WF_vars(ReleaseBegin(x, n)) /\ WF_vars(ReleaseEnd(x, n))
    /\ \A x \in Syncs : WF_vars(Register(x))
    /\ WF_vars(NamespaceController /\ UNCHANGED rcVars)

RcFairSpec == RcSpec /\ RcFairness

---------------------------------------------------------------------------
\* Every variable keeps its type, above all the worker's local variables
\* across its await points (Worker).
TypeOK ==
    /\ ClusterTypeOK
    /\ sources \in SUBSET Syncs
    /\ srcCache \in Object
    /\ nsCache \in [Namespaces -> NsPhase]
    /\ releasing \in SUBSET (Syncs \X Namespaces)
    /\ w \in Worker

\* "it is important that we update the status sub-resource before we
\* effectivley create new synced objects, to make sure they are tracked for
\* garbage collection" (resource_controller.rs:399): no live copy is missing
\* from status.destinations of its ObjectSync, across failed deletions,
\* bail-outs, crashes and every interleaving with users.
TrackedForGC ==
    \A x \in Syncs, n \in Namespaces :
        dst[x][n].st = "live" => n \in sync[x].status.dest

\* What makes it inductive: the ObjectSyncs stay, the worker handles one at
\* a time, and nobody else writes their status (what RcSpec assumes of the
\* main controller), so that what the worker remembers is what is stored.
Deleting == w.pc \in {"delete", "strip", "destroy"}
Upserting == w.pc \in {"upsert", "release", "update", "create"}

SyncsStay == \A x \in Syncs : sync[x].st = "live"

OneAtATime ==
    /\ w.pc \in {"idle", "lookup", "loop"} => w.cur = {}
    /\ w.cur \cap w.loaded = {}
    /\ \A x, y \in w.cur : x = y

ViewsCurrent ==
    /\ \A x \in w.loaded : w.view[x].orig = sync[x].status /\ w.view[x].mod = sync[x].status
    /\ \A x \in w.cur : w.view[x].orig = sync[x].status

\* Entries are visited one at a time, and never with no attempt left.
AttemptsLeft ==
    /\ w.pc \in {"idle", "lookup", "loop", "delete"} => w.at = {}
    /\ w.pc = "upsert" /\ w.at # {} => w.tries > 0

\* While deleting, a live copy is expected, a remnant or yet to be visited.
DeletesAllStale ==
    Deleting =>
        /\ SourceTerminating => w.plan = {}
        /\ \A x \in w.cur :
              /\ w.view[x].mod = w.view[x].orig
              /\ \A n \in Namespaces :
                    dst[x][n].st = "live" => n \in w.plan \cup w.kept \cup w.todo

\* While writing copies, only listed ones are visited, and the list stays.
WritesOnlyTracked ==
    Upserting =>
        \A x \in w.cur :
            /\ w.view[x].mod.dest = sync[x].status.dest
            /\ w.todo \cup w.at \subseteq sync[x].status.dest

RcInv ==
    /\ TrackedForGC /\ AttemptsLeft /\ SyncsStay /\ OneAtATime /\ ViewsCurrent
    /\ DeletesAllStale /\ WritesOnlyTracked

\* The source cannot vanish while it has live copies: it holds the
\* finalizer, so its deletion still has to pass through the worker, which
\* "delete[s] all synced copies" (README.md:75).  Without failing calls.
CopiesGuardSource ==
    (\E x \in Syncs, n \in Namespaces : dst[x][n].st = "live") => src.fin

\* Where copies are wanted.
Expected(x) ==
    IF src.st = "live" /\ sync[x].st = "live" THEN {n \in sync[x].want : ns[n] = "active"} ELSE {}

\* "While the source object exists [...] ensure it is replicated", changes
\* are applied, drift is replaced and deleted copies are re-created
\* (README.md:70-74): once users and faults stop, every expected copy ends
\* up live with the content of the source, for good.
EventuallyReplicated ==
    <>[](\A x \in Syncs : \A n \in Expected(x) :
            dst[x][n].st = "live" /\ dst[x][n].fin /\ dst[x][n].data = src.data)

\* "If the source object is deleted [...] delete all synced copies"
\* (README.md:75), and the same for a narrowed destination list or a deleted
\* namespace: what is not expected is gone in the end, finalizers included.
\* A source that could not be given its finalizer may vanish unnoticed, so
\* that after a failing call this is only promised while the source is live.
EventuallyCleaned ==
    <>[](src.st = "live" \/ faults = 0 =>
            \A x \in Syncs : \A n \in Namespaces \ Expected(x) : ~Exists(dst[x][n]))

\* "To make sure it obtains all `delete` events" (README.md:189): once users
\* and faults stop, a live source that is replicated holds the finalizer,
\* although an error while adding it is only logged and the copies are
\* written regardless (resource_controller.rs:557), and although the apply
\* works on old copies of the source.
SourceGuardedInTheEnd == <>[](src.st = "live" /\ sources # {} => src.fin)

\* "The object-sync controller does not own the source object"
\* (utils.rs:146): only users bring a source into existence.
OnlyUsersCreateSource == [][~Exists(src) /\ Exists(src') => edits' = edits + 1]_vars

\* "pattern to make sure stale destination objects are removed whenever the
\* corresponding source object [...] is deleted" (README.md:185):
\* the finalizer of the source goes after the last live copy, not before.
ReleasesSourceLast ==
    [][src.fin /\ ~src'.fin => \A x \in Syncs, n \in Namespaces : dst[x][n].st # "live"]_vars

\* What makes these two inductive, while no call failed: everybody may hold
\* an old copy of the source (the cache, the worker), but an old copy is never
\* wrong about who still has to pass through the worker.
HeldIffTerminating ==
    /\ src.st = "term" => src.fin
    /\ src.st = "absent" => ~src.fin

LiveWithFinalizer(obj) == obj.st = "live" /\ obj.fin

\* A cached finalizer is still there; a deletion seen in the cache is still
\* pending, or has been completed and nobody guards the source anew.
CacheOfSource ==
    /\ LiveWithFinalizer(srcCache) => src.fin
    /\ srcCache.st = "term" => src.st = "term" \/ ~src.fin

\* The same for the source the worker was started with, and how it relates
\* to the newer cache; past AddFinalizerIfMissing the source is guarded.
SourceOfWorker ==
    w.pc # "idle" =>
        /\ Exists(w.src)
        /\ w.src.st = "term" => /\ src.st = "term" \/ ~src.fin
                                /\ ~LiveWithFinalizer(srcCache)
        /\ w.src.st = "live" => /\ srcCache.st = "term" => src.st = "term"
                                /\ w.pc # "lookup" \/ w.src.fin => src.fin

\* Copies belong to registered ObjectSyncs.  While the worker deletes the
\* copies of a terminating source without an error, those it is done with,
\* and those it never heard of, have none.
DeletesCopiesOfAll ==
    /\ \A x \in Syncs \ sources, n \in Namespaces : dst[x][n].st # "live"
    /\ w.refs \cup w.loaded \cup w.cur \subseteq sources
    /\ w.pc # "lookup" => w.refs = {}
    /\ w.pc # "idle" /\ SourceTerminating /\ w.ok =>
          \A x \in Syncs \ (w.refs \cup w.loaded \cup w.cur), n \in Namespaces :
              dst[x][n].st # "live"

\* An ObjectSync without a list has no listed destinations; copies are only
\* written once there is a list, and never for a terminating source.
UnlistedIsEmpty ==
    /\ \A x \in Syncs : sync[x].status.listed \/ sync[x].status.dest = {}
    /\ Upserting => ~SourceTerminating /\ \A x \in w.cur : w.view[x].mod.listed

SourceInv ==
    faults = 0 =>
        /\ HeldIffTerminating /\ CacheOfSource /\ SourceOfWorker
        /\ DeletesCopiesOfAll /\ UnlistedIsEmpty /\ CopiesGuardSource

\* A source marked for deletion is let go in the end: its finalizer does not
\* block the deletion for ever (resource_controller.rs:545).
SourceReleased == src.st = "term" ~> src.st # "term"

\* InSync is "Whether all destination objects are in sync or not"
\* (lib.rs:75): a reconciliation that reports True has written, or found up
\* to date, every entry it planned, in whatever order entries failed, were
\* retried or given up.
InSyncTells ==
    [][\A x \in w.cur :
          Upserting /\ sync'[x].status # sync[x].status /\ sync'[x].status.insync = "True"
             => \A n \in w.plan : sync'[x].status.sv[n] = w.src.rv]_vars

\* What makes it inductive: planned entries are no remnants, the worker is at
\* one copy at a time, and as long as none was missed the entries it has
\* finished hold the version of the source it was started with.
PlannedAreNoRemnants ==
    /\ Deleting \/ Upserting => w.plan \cap w.kept = {}
    /\ Deleting => w.plan \cap w.todo = {}
    /\ w.pc \in {"strip", "destroy"} => w.at \subseteq w.todo
    /\ w.pc \in {"lookup", "loop"} => w.kept = {}

OneCopyAtATime == \A n, m \in w.at : n = m

FinishedAreInSync ==
    Upserting /\ ~w.missed =>
        \A x \in w.cur : \A n \in w.plan \ w.todo : w.view[x].mod.sv[n] = w.src.rv

InSyncInv == PlannedAreNoRemnants /\ OneCopyAtATime /\ FinishedAreInSync

\* A terminating namespace is not held up by the finalizers of copies in it
\* ("the finalizers on the synced destination objects will prevent the
\* namespace from being deleted", resource_controller.rs:148).
NamespaceReleased == \A n \in Namespaces : ns[n] = "term" ~> ns[n] # "term"

---------------------------------------------------------------------------
(* The sub-controller keeps the ledger of CopyLedger.                      *)

Places == Syncs \X Namespaces

LiveCopies == {p \in Places : dst[p[1]][p[2]].st = "live"}

ListedCopies == {p \in Places : p[2] \in sync[p[1]].status.dest}

Ledger == INSTANCE CopyLedger WITH live <- LiveCopies, listed <- ListedCopies

\* Every step of the sub-controller, of users and of the cluster is a step
\* of the ledger or leaves it alone.
KeepsLedger == Ledger!Spec
============================================================================
