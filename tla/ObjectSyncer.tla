---------------------------- MODULE ObjectSyncer ----------------------------
(***************************************************************************)
(* The whole syncer: main controller, resource controller, users and the   *)
(* API server together.                                                    *)
(***************************************************************************)
EXTENDS ObjectSyncController

WatchSync(x) ==
    /\ syncCache[x] # sync[x]
    /\ syncCache' = [syncCache EXCEPT ![x] = sync[x]]
    /\ due' = due \cup {x}
    /\ UNCHANGED <<vars, o>>

\* main: the caches are filled before any controller runs.
Init ==
    /\ ClusterInit(FALSE)
    /\ sources = {} /\ srcCache = src /\ nsCache = ns /\ releasing = {}
    /\ w = Idle
    /\ syncCache = sync /\ due = Syncs
    /\ o = [x \in Syncs |-> OscIdle]

OscStep(x) ==
    \/ OscStart(x)
    \/ GuardRead(x) \/ GuardPatch(x)
    \/ AlreadyRegistered(x) \/ RegisterSync(x)
    \/ ReportReady(x) \/ ReportFailed(x)
    \/ Deregister(x)
    \/ \E n \in Namespaces : OscGetStale(x, n) \/ OscStripStale(x, n) \/ OscDestroyStale(x, n)
    \/ OscFinishPurge(x)
    \/ SourceRead(x) \/ SourcePatch(x)
    \/ FinalizerRead(x) \/ FinalizerPatch(x)

OscFault(x) ==
    \/ CheckFails(x) \/ OscStripStaleFails(x) \/ DeleteFails(x)
    \/ \E n \in Namespaces : OscDestroyStaleFails(x, n)

\* The process dies and starts again.
Restart ==
    /\ Crash
    /\ syncCache' = sync /\ due' = Syncs
    /\ o' = [x \in Syncs |-> OscIdle]

Users ==
    /\ UserOnCopies \/ \E x \in Syncs : DeleteSync(x)
    /\ UNCHANGED <<rcVars, oscVars>>

RcStep == WorkerStep /\ UNCHANGED oscVars
RcFault == WorkerFault /\ UNCHANGED oscVars

Next ==
    \/ RcStep \/ RcFault
    \/ (Watch \/ Release) /\ UNCHANGED oscVars
    \/ \E x \in Syncs : OscStep(x) \/ OscFault(x) \/ WatchSync(x)
    \/ Restart
    \/ Users
    \/ NamespaceController /\ UNCHANGED <<rcVars, oscVars>>

Spec == Init /\ [][Next]_allVars

\* Each task is polled again and again, watches deliver in the end.
Fairness ==
    /\ WF_allVars(RcStep)
    /\ WF_allVars(WatchSource /\ UNCHANGED oscVars)
    /\ \A n \in Namespaces : WF_allVars(WatchNamespace(n) /\ UNCHANGED oscVars)
    /\ \A x \in Syncs, n \in Namespaces :
          WF_allVars((ReleaseBegin(x, n) \/ ReleaseEnd(x, n)) /\ UNCHANGED oscVars)
    /\ \A x \in Syncs : WF_allVars(OscStep(x)) /\ WF_allVars(WatchSync(x))
    /\ WF_allVars(NamespaceController /\ UNCHANGED <<rcVars, oscVars>>)

FairSpec == Spec /\ Fairness

---------------------------------------------------------------------------
\* Every variable keeps its type, the events of the main controller too.
OscTypeOK ==
    /\ TypeOK
    /\ due \in SUBSET Syncs
    /\ syncCache \in [Syncs -> SyncObject]
    /\ o \in [Syncs -> OscWorker]

\* A registered ObjectSync holds the finalizer: it cannot vanish without
\* passing through the cleanup that deregisters it ("make sure it obtains
\* all `delete` events", README.md:190).
RegisteredIsGuarded == \A x \in sources : Exists(sync[x]) /\ sync[x].fin

\* What makes it inductive.  An ObjectSync once seen terminating stays so: its
\* cleanup does not race a registration of the same ObjectSync, neither by its
\* own task nor from an older event.
Cleaned(x) == o[x].pc \in {"purge", "strip", "destroy", "source", "sourcepatch",
                           "finalizer", "finalizerpatch"}

Guarded(x) ==
    /\ x \in sources \/ At(x, "discover") => Exists(sync[x]) /\ sync[x].fin
    /\ Cleaned(x) => x \notin sources
    /\ Cleaned(x) \/ At(x, "deregister") => syncCache[x].st # "live"
    /\ syncCache[x].st = "live" /\ syncCache[x].fin => Exists(sync[x]) /\ sync[x].fin
    /\ sync[x].st = "live" => syncCache[x].st = "live"

GuardInv == \A x \in Syncs : Guarded(x)

\* "If the corresponding ObjectSync objcect is deleted [...], delete all
\* synced copies" (README.md:76).
NoOrphans ==
    \A x \in Syncs, n \in Namespaces : dst[x][n].st = "live" => Exists(sync[x])

\* A deleted ObjectSync is let go in the end.
SyncReleased == \A x \in Syncs : sync[x].st = "term" ~> sync[x].st = "absent"

\* "considered ready if there were no errors" (printed column Ready): once
\* nothing fails any more, a live ObjectSync ends up Ready.
EventuallyReady ==
    <>[](\A x \in Syncs : sync[x].st = "live" => sync[x].status.ready = "True")

\* "it has to add additional finalizers to all tracked source [...] objects"
\* (README.md:189): a source keeps its finalizer while a registered
\* ObjectSync has live copies of it.
TrackedSourceKeepsFinalizer ==
    [][src.fin /\ ~src'.fin => \A x \in sources, n \in Namespaces : dst[x][n].st # "live"]_allVars

\* An expected copy that dropped out of the status because the main
\* controller wrote an older one is listed again in the end.
EventuallyTracked ==
    <>[](\A x \in Syncs : Expected(x) \subseteq sync[x].status.dest)
============================================================================
