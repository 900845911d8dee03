------------------------------ MODULE Triggers ------------------------------
(***************************************************************************)
(* What makes a resource controller reconcile: its watches, the reload     *)
(* message of a registration and the requeue timer, all of which put       *)
(* object references into one queue.  A reference is resolved in the store *)
(* of the source watch when its turn comes; one that is not found there is *)
(* dropped.  The namespaces a reconciliation plans for come from another   *)
(* cache, filled by the reflector of main.                                 *)
(*                                                                         *)
(* Reconciliations are single steps here; ResourceController takes them    *)
(* apart.  One source, one ObjectSync, and at most one copy per namespace. *)
(***************************************************************************)
EXTENDS Naturals, FiniteSets

CONSTANTS
    Namespaces,
    TargetSetting,  \* TARGET_NAMESPACES: a set of namespaces, maybe with "*"
    SourceRef,      \* reference of the source object
    OtherRef,       \* reference that names no object of the kind
    MaxEdits,       \* bound: how many edits users make
    MaxFaults       \* bound: how many reconciliations fail or crashes happen

ASSUME TriggersAssumption ==
    MaxEdits \in Nat /\ MaxFaults \in Nat /\ SourceRef # OtherRef

VARIABLES
    source,     \* version of the source object
    want,       \* namespaces selected by spec.destinations
    ns,         \* ns[n]: the namespace n
    placed,     \* namespaces in status.destinations
    copy,       \* copy[n]: version of the source the copy in n has, 0 for none
    altered,    \* copies others changed or marked for deletion
    unmarked,   \* copies that lost the label or the annotation of the syncer
    syncRef,    \* namespace/name of the ObjectSync, read as one of the kind
    store,      \* version of the source in the store of its watch, 0 for none
    nsCache,    \* namespaces the reflector holds as active
    events,     \* watch events that are still to be handled
    registered, \* the ObjectSync is in the sources map
    reload,     \* where the registration and its reload message are
    queue,      \* references that are due
    timer,      \* references scheduled for later
    missed,     \* namespaces the last reconciliation failed for
    edits, faults

cluster == <<source, want, ns, placed, copy, altered, unmarked, syncRef>>
controller == <<store, nsCache, events, registered, reload, queue, timer, missed>>
trigVars == <<cluster, controller, edits, faults>>

Active == {n \in Namespaces : ns[n] \in {"young", "old"}}

\* Normalised configuration: nothing or a wildcard means every namespace.
TargetNamespaces ==
    IF TargetSetting = {} \/ "*" \in TargetSetting THEN Namespaces
    ELSE TargetSetting

SourceEvent == <<"source">>
SyncEvent == <<"sync">>
CopyEvent(n) == <<"copy", n>>
NamespaceEvent(n) == <<"namespace", n>>

\* Fault seeded: a reference that is due stays scheduled.
EnqueueTwice(refs) == queue' = queue \cup refs /\ UNCHANGED timer

\* The queue holds a reference once, at the earlier time.
Enqueue(refs) == queue' = queue \cup refs /\ timer' = timer \ refs

Fault == faults < MaxFaults /\ faults' = faults + 1

---------------------------------------------------------------------------
(* Watch events                                                            *)

\* The store is updated before the event is handed on.
DeliverSource ==
    /\ SourceEvent \in events
    /\ events' = events \ {SourceEvent}
    /\ store' = source
    /\ Enqueue({SourceRef})
    /\ UNCHANGED <<cluster, nsCache, registered, reload, missed, edits, faults>>

\* References of the registered ObjectSyncs, as objects of the watched kind.
RegisteredRefs == IF registered THEN {syncRef} ELSE {}

DeliverSync ==
    /\ SyncEvent \in events
    /\ events' = events \ {SyncEvent}
    /\ Enqueue(RegisteredRefs)
    /\ UNCHANGED <<cluster, store, nsCache, registered, reload, missed, edits, faults>>

\* Namespaces that are terminating or were created lately.
ShouldReconcile(n) == n \in TargetNamespaces /\ ns[n] \in {"term", "young"}

DeliverNamespace(n) ==
    /\ NamespaceEvent(n) \in events
    /\ events' = events \ {NamespaceEvent(n)}
    /\ Enqueue(IF ShouldReconcile(n) THEN RegisteredRefs ELSE {})
    /\ UNCHANGED <<cluster, store, nsCache, registered, reload, missed, edits, faults>>

\* Fault seeded: the event of a copy enqueues the copy.
CopyItself(n) == {OtherRef}

\* The annotation of a copy names its source.
CopySource(n) == IF n \in TargetNamespaces THEN {SourceRef} ELSE {}

DeliverCopy(n) ==
    /\ CopyEvent(n) \in events
    /\ events' = events \ {CopyEvent(n)}
    /\ Enqueue(CopySource(n))
    /\ UNCHANGED <<cluster, store, nsCache, registered, reload, missed, edits, faults>>

\* The reflector of main has a watch of its own.
Reflect ==
    /\ nsCache # Active
    /\ nsCache' = Active
    /\ UNCHANGED <<cluster, store, events, registered, reload, queue, timer, missed,
                   edits, faults>>

---------------------------------------------------------------------------
(* Registration with a controller that runs already                        *)

Insert ==
    /\ ~registered
    /\ registered' = TRUE /\ reload' = TRUE
    /\ UNCHANGED <<cluster, store, nsCache, events, queue, timer, missed, edits, faults>>

\* reconcile_all_on: every object the store holds by now.
TakeReload ==
    /\ reload
    /\ reload' = FALSE
    /\ Enqueue(IF store = 0 THEN {} ELSE {SourceRef})
    /\ UNCHANGED <<cluster, store, nsCache, events, registered, missed, edits, faults>>

---------------------------------------------------------------------------
(* Reconciliation                                                          *)

NotFound(r) ==
    /\ r \in queue /\ (r # SourceRef \/ store = 0)
    /\ queue' = queue \ {r}
    /\ UNCHANGED <<cluster, store, nsCache, events, registered, reload, timer, missed,
                   edits, faults>>

\* await_change: nothing is scheduled.
Unreferenced ==
    /\ SourceRef \in queue /\ store # 0 /\ ~registered
    /\ queue' = queue \ {SourceRef}
    /\ UNCHANGED <<cluster, store, nsCache, events, registered, reload, timer, missed,
                   edits, faults>>

Plan == want \cap nsCache

\* Fault seeded: every copy is written every time.
OutdatedAlways(n) == n \in Plan

Outdated(n) == n \in Plan /\ (copy[n] # store \/ n \in altered)

\* Fault seeded: a source that was reconciled without error is done.
RequeueFailed(failed) == IF failed = {} THEN {} ELSE {SourceRef}

\* Every reconciliation of a referenced source is repeated after 300 s,
\* whatever failed.
Requeue(failed) == {SourceRef}

\* Copies are written where they are missing or outdated and the namespace
\* takes them, deleted where they are not planned, and left alone where a
\* call failed.  What was written comes back as events.
ReconcileExcept(failed) ==
    LET written == {n \in Namespaces \ failed : Outdated(n)}
        stale == placed \ (Plan \cup failed)
        touched == written \cup {n \in stale : copy[n] # 0}
        listed == Plan \cup (placed \cap failed)
    IN  /\ SourceRef \in queue /\ store # 0 /\ registered
        /\ copy' = [n \in Namespaces |->
                      CASE n \in written /\ n \in Active -> store
                        [] n \in (written \ Active) \cup stale -> 0
                        [] OTHER -> copy[n]]
        /\ altered' = altered \ touched
        /\ unmarked' = unmarked \ touched
        /\ placed' = listed
        /\ events' = events \cup {CopyEvent(n) : n \in touched}
                            \cup (IF touched = {} /\ listed = placed THEN {} ELSE {SyncEvent})
        /\ queue' = queue \ {SourceRef}
        /\ timer' = timer \cup Requeue(failed)
        /\ missed' = failed \cup (written \ Active)
        /\ UNCHANGED <<source, want, ns, syncRef, store, nsCache, registered, reload, edits>>

Reconcile == ReconcileExcept({}) /\ UNCHANGED faults

ReconcileFails == \E failed \in SUBSET Namespaces \ {{}} : ReconcileExcept(failed) /\ Fault

TimerFires(r) ==
    /\ r \in timer
    /\ Enqueue({r})
    /\ UNCHANGED <<cluster, store, nsCache, events, registered, reload, missed, edits, faults>>

\* After a restart the watches start with a list of everything, and the
\* namespace cache is complete before they do.
Crash ==
    /\ Fault
    /\ store' = 0 /\ nsCache' = Active
    /\ registered' = FALSE /\ reload' = FALSE /\ queue' = {} /\ timer' = {}
    /\ events' = {SourceEvent, SyncEvent}
                   \cup {NamespaceEvent(n) : n \in {m \in Namespaces : ns[m] # "absent"}}
                   \cup {CopyEvent(n) : n \in {m \in Namespaces \ unmarked : copy[m] # 0}}
    /\ UNCHANGED <<cluster, missed, edits>>

---------------------------------------------------------------------------
(* Users and namespaces                                                    *)

Edit == edits < MaxEdits /\ edits' = edits + 1

EditSource ==
    /\ Edit
    /\ source' = source + 1
    /\ events' = events \cup {SourceEvent}
    /\ UNCHANGED <<want, ns, placed, copy, altered, unmarked, syncRef,
                   store, nsCache, registered, reload, queue, timer, missed, faults>>

EditWant ==
    /\ Edit
    /\ want' \in SUBSET Namespaces \ {want}
    /\ events' = events \cup {SyncEvent}
    /\ UNCHANGED <<source, ns, placed, copy, altered, unmarked, syncRef,
                   store, nsCache, registered, reload, queue, timer, missed, faults>>

\* A copy is changed or deleted.  It may lose its label or annotation as well:
\* then its watch does not tell the controller about it any more.
DisturbCopy(n) ==
    /\ Edit /\ copy[n] # 0
    /\ copy' \in {copy, [copy EXCEPT ![n] = 0]}
    /\ altered' = altered \cup {n}
    /\ unmarked' \in {unmarked, unmarked \cup {n}}
    /\ events' = IF n \in unmarked' THEN events ELSE events \cup {CopyEvent(n)}
    /\ UNCHANGED <<source, want, ns, placed, syncRef,
                   store, nsCache, registered, reload, queue, timer, missed, faults>>

CreateNamespace(n) ==
    /\ Edit /\ ns[n] = "absent"
    /\ ns' = [ns EXCEPT ![n] = "young"]
    /\ events' = events \cup {NamespaceEvent(n)}
    /\ UNCHANGED <<source, want, placed, copy, altered, unmarked, syncRef,
                   store, nsCache, registered, reload, queue, timer, missed, faults>>

\* The copy in it is marked for deletion, and waits for its finalizer.
DeleteNamespace(n) ==
    /\ Edit /\ n \in Active
    /\ ns' = [ns EXCEPT ![n] = "term"]
    /\ altered' = IF copy[n] # 0 THEN altered \cup {n} ELSE altered
    /\ events' = events \cup {NamespaceEvent(n)}
                        \cup {CopyEvent(m) : m \in {n} \cap (altered' \ unmarked)}
    /\ UNCHANGED <<source, want, placed, copy, unmarked, syncRef,
                   store, nsCache, registered, reload, queue, timer, missed, faults>>

RemoveNamespace(n) ==
    /\ ns[n] = "term" /\ copy[n] = 0
    /\ ns' = [ns EXCEPT ![n] = "absent"]
    /\ events' = events \cup {NamespaceEvent(n)}
    /\ UNCHANGED <<source, want, placed, copy, altered, unmarked, syncRef,
                   store, nsCache, registered, reload, queue, timer, missed, edits, faults>>

---------------------------------------------------------------------------
\* The controller runs, for another ObjectSync; nothing is synced yet.
Init ==
    /\ source = 1 /\ want \in SUBSET Namespaces
    /\ ns \in [Namespaces -> {"absent", "old"}]
    /\ placed = {} /\ copy = [n \in Namespaces |-> 0]
    /\ altered = {} /\ unmarked = {}
    /\ syncRef \in {SourceRef, OtherRef}
    /\ store = 0 /\ nsCache = Active
    /\ events = {SourceEvent, SyncEvent} \cup {NamespaceEvent(n) : n \in Active}
    /\ registered = FALSE /\ reload = FALSE /\ queue = {} /\ timer = {} /\ missed = {}
    /\ edits = 0 /\ faults = 0

Deliver ==
    \/ DeliverSource \/ DeliverSync
    \/ \E n \in Namespaces : DeliverNamespace(n) \/ DeliverCopy(n)

\* The runner takes the reference r from the queue.
Run(r) ==
    \/ r = SourceRef /\ (Reconcile \/ Unreferenced)
    \/ NotFound(r)

User ==
    \/ EditSource \/ EditWant
    \/ \E n \in Namespaces : DisturbCopy(n) \/ CreateNamespace(n) \/ DeleteNamespace(n)

Next ==
    \/ Deliver \/ Reflect \/ Insert \/ TakeReload
    \/ \E r \in {SourceRef, OtherRef} : Run(r) \/ TimerFires(r)
    \/ ReconcileFails \/ Crash
    \/ User \/ \E n \in Namespaces : RemoveNamespace(n)

Spec == Init /\ [][Next]_trigVars

\* Events are delivered, the queue is worked off, timers fire; the main
\* controller registers the ObjectSync.  Users and faults are free.
FairSpec ==
    /\ Spec
    /\ WF_trigVars(DeliverSource) /\ WF_trigVars(DeliverSync)
    /\ \A n \in Namespaces :
          WF_trigVars(DeliverNamespace(n)) /\ WF_trigVars(DeliverCopy(n))
    /\ WF_trigVars(Reflect) /\ WF_trigVars(Insert) /\ WF_trigVars(TakeReload)
    /\ \A r \in {SourceRef, OtherRef} : WF_trigVars(Run(r)) /\ WF_trigVars(TimerFires(r))
    /\ \A n \in Namespaces : WF_trigVars(RemoveNamespace(n))

---------------------------------------------------------------------------
\* Types; a reference waits in one place, and one that was never found is
\* not scheduled again.
TriggersTypeOK ==
    /\ source \in 1..(MaxEdits + 1) /\ store \in 0..source
    /\ copy \in [Namespaces -> 0..source]
    /\ want \cup placed \cup altered \cup unmarked \cup nsCache \cup missed \subseteq Namespaces
    /\ ns \in [Namespaces -> {"absent", "young", "old", "term"}]
    /\ events \subseteq {SourceEvent, SyncEvent}
                          \cup {CopyEvent(n) : n \in Namespaces}
                          \cup {NamespaceEvent(n) : n \in Namespaces}
    /\ syncRef \in {SourceRef, OtherRef}
    /\ registered \in BOOLEAN /\ reload \in BOOLEAN
    /\ queue \subseteq {SourceRef, OtherRef} /\ timer \subseteq {SourceRef}
    /\ queue \cap timer = {}

\* Everything the watches reported has been handled.
Quiet == events = {} /\ queue = {} /\ ~reload /\ registered /\ nsCache = Active

Current(n) == copy[n] = source /\ n \notin altered

\* "track destination drift [...] realiably if the `managed-by` label and the
\* `sync.rustrial.org/source-object` annotation are still set properly"
\* (resource_controller.rs:714): changes of the source and of marked copies
\* in target namespaces are repaired on their events, without waiting for a
\* timer, unless the last attempt failed.
NoticesDrift ==
    Quiet => \A n \in (placed \cap Active \cap TargetNamespaces) \ (unmarked \cup missed) :
                 Current(n)

\* What makes it inductive: drift that the watches can see is on its way to a
\* reconciliation, and a store that lags has an event coming.
Pending(n) ==
    \/ {SourceEvent, CopyEvent(n)} \cap events # {}
    \/ SourceRef \in queue \/ reload \/ ~registered

DriftInv ==
    /\ store # source => SourceEvent \in events
    /\ \A n \in (placed \cap TargetNamespaces) \ (unmarked \cup missed) :
          Current(n) \/ Pending(n)

\* "drift will be removed in an eventual consistent approach by setting
\* `Action::requeue_after`" (resource_controller.rs:716), and the same for
\* changed destinations, new namespaces and failed reconciliations.
EventuallySynced ==
    <>[](\A n \in Namespaces : IF n \in want \cap Active THEN Current(n) ELSE copy[n] = 0)

\* The controller sees its own writes (copies, status); that must not
\* "lead to an infinit reconciliation cycle" (resource_controller.rs:382).
ComesToRest == []<>Quiet

\* "Watch ObjectSync objects, to track destination changes" and "Watch
\* namespaces to track newly created and deleted namespaces"
\* (resource_controller.rs:698, 656): with all events handled, the
\* destinations are those the ObjectSync and the namespaces ask for.
TracksDestinations == Quiet => placed \ missed = (want \cap Active) \ missed
============================================================================
