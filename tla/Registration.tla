---------------------------- MODULE Registration ----------------------------
(***************************************************************************)
(* How ObjectSyncs find their resource controllers.  The main controller   *)
(* starts one resource controller per kind (GVK) on demand, registers each *)
(* ObjectSync with the controller of its source, moves it when spec.source *)
(* changes and deregisters it on deletion.  Nothing but the instances and  *)
(* handles of ObjectSyncs keep a controller alive: it is aborted with the  *)
(* last of them.  Kinds come and go (CRDs), and some are cluster scoped,   *)
(* which the syncer refuses.                                               *)
(*                                                                         *)
(* Of the reconciliations of a source only what registration decides is    *)
(* kept: whether its finalizer is added or removed.  Copies are left to    *)
(* ResourceController and ObjectSyncController.                            *)
(***************************************************************************)
EXTENDS Naturals, FiniteSets

CONSTANTS
    Syncs,          \* the ObjectSync objects
    Targets,        \* the objects spec.source may name: records of gvk and src
    ClusterScoped,  \* the kinds without a namespace
    MaxEdits,       \* bound: how many edits users make
    MaxFaults       \* bound: how many API calls fail or crashes happen

Gvks == {t.gvk : t \in Targets}

ASSUME RegistrationAssumption ==
    Targets # {} /\ ClusterScoped \subseteq Gvks /\ MaxEdits \in Nat /\ MaxFaults \in Nat

VARIABLES
    sync,       \* sync[x]: the ObjectSync object x
    obj,        \* obj[t]: the source object t
    installed,  \* the kinds the API server serves
    inst,       \* inst[x]: the target x is registered for, if any (instances)
    task,       \* task[x]: the reconciliation of x by the main controller
    running,    \* the kinds with a resource controller that is alive
    asleep,     \* those of them that wait in the error handler of their stream
    sources,    \* sources[t]: the ObjectSyncs its controller knows for t
    reload,     \* the registrations whose reload message nobody took yet
    worker,     \* worker[t]: what the reconciliation of source t does next
    edits,      \* number of edits made by users so far
    faults      \* number of faults so far

cluster == <<sync, obj, installed>>
registry == <<inst, running, asleep, sources, reload>>
regVars == <<cluster, registry, task, worker, edits, faults>>

SyncObject == [st : {"absent", "live", "term"}, fin : BOOLEAN, target : Targets]
Source == [st : {"absent", "live", "term"}, fin : BOOLEAN]

\* ev: the event being reconciled; active: the clone of the instance that
\* check() holds while it moves the ObjectSync.
TaskPc == {"idle", "guard", "discover", "purge", "add", "register",
           "remove", "clean", "lookup", "release", "letgo"}
Task == [pc : TaskPc, ev : SyncObject, active : SUBSET Targets]

Exists(o) == o.st # "absent"

At(x, pc) == task[x].pc = pc

Goto(x, pc) == task' = [task EXCEPT ![x].pc = pc]

NoEvent == [st |-> "absent", fin |-> FALSE, target |-> CHOOSE t \in Targets : TRUE]

NoTask == [pc |-> "idle", ev |-> NoEvent, active |-> {}]

\* Fault seeded: the clone of an instance outlives the reconciliation.
DoneLeaking(x) == task' = [task EXCEPT ![x] = [NoTask EXCEPT !.active = task[x].active]]

\* The reconciliation ends, with or without an error, and is requeued; the
\* clone of the instance goes with the stack frame.
Done(x) == task' = [task EXCEPT ![x] = NoTask]

Fault == faults < MaxFaults /\ faults' = faults + 1

---------------------------------------------------------------------------
(* References.                                                             *)

\* The registrations of x some handle stands for: the one of its instance,
\* that of the clone of an instance, and one that is just being made.
Handles(x) ==
    inst[x] \cup task[x].active \cup {t \in {task[x].ev.target} : At(x, "register")}

\* Whoever holds a handle also holds its controller (ObjectSyncInstance).
Holders(g) == {x \in Syncs : \E t \in Handles(x) : t.gvk = g}

\* Fault seeded: dropping a handle forgets the source.
DroppedAll(x, t) == [sources EXCEPT ![t] = {}]

\* ObjectSyncHandle::drop: the ObjectSync is forgotten for this source.
Dropped(x, t) == [sources EXCEPT ![t] = @ \ {x}]

\* After the handle of x for the targets in D, at most one, is gone: the
\* controller of that kind is aborted if nobody else holds it.
Drop(x, D) ==
    /\ sources' = IF D = {} THEN sources ELSE Dropped(x, CHOOSE t \in D : TRUE)
    /\ running' = {g \in running : Holders(g)' # {}}
    /\ asleep' = asleep \cap running'
    /\ worker' = [t \in Targets |-> IF t.gvk \in running' THEN worker[t] ELSE "idle"]

---------------------------------------------------------------------------
(* check                                                                   *)

\* A watch event or a requeue; the event is the ObjectSync as it is now.
Start(x) ==
    /\ At(x, "idle") /\ Exists(sync[x])
    /\ task' = [task EXCEPT ![x].ev = sync[x],
                            ![x].pc = CASE sync[x].st = "term" -> "remove"
                                        [] sync[x].st = "live" /\ ~sync[x].fin -> "guard"
                                        [] OTHER -> "discover"]
    /\ UNCHANGED <<cluster, registry, worker, edits, faults>>

\* add_finalizer_if_missing is refused when the ObjectSync has changed.
Guard(x) ==
    /\ At(x, "guard")
    /\ IF sync[x] = task[x].ev
       THEN /\ sync' = [sync EXCEPT ![x].fin = TRUE]
            /\ task' = [task EXCEPT ![x].pc = "discover", ![x].ev.fin = TRUE]
       ELSE Done(x) /\ UNCHANGED sync
    /\ UNCHANGED <<obj, installed, registry, worker, edits, faults>>

\* get_gvk
Resolves(g) == g \in installed \ ClusterScoped

Kind(x) == task[x].ev.target.gvk

\* A kind that is missing or cluster scoped is an error.
DiscoverFails(x) ==
    /\ At(x, "discover") /\ ~Resolves(Kind(x))
    /\ Done(x)
    /\ UNCHANGED <<cluster, registry, worker, edits, faults>>

\* Fault seeded: a source of the same kind is taken for the same source.
SourceChangedKind(x) == \A t \in inst[x] : t.gvk # Kind(x)

SourceChanged(x) == task[x].ev.target \notin inst[x]

StaysRegistered(x) ==
    /\ At(x, "discover") /\ Resolves(Kind(x)) /\ inst[x] # {} /\ ~SourceChanged(x)
    /\ Done(x)
    /\ UNCHANGED <<cluster, registry, worker, edits, faults>>

BeginAdd(x) ==
    /\ At(x, "discover") /\ Resolves(Kind(x)) /\ inst[x] = {}
    /\ Goto(x, "add")
    /\ UNCHANGED <<cluster, registry, worker, edits, faults>>

\* remove() takes the instance out of the map, but the clone keeps the old
\* registration and the old controller going until the move is complete.
BeginMove(x) ==
    /\ At(x, "discover") /\ Resolves(Kind(x)) /\ inst[x] # {} /\ SourceChanged(x)
    /\ inst' = [inst EXCEPT ![x] = {}]
    /\ task' = [task EXCEPT ![x].pc = "purge", ![x].active = inst[x]]
    /\ UNCHANGED <<cluster, running, asleep, sources, reload, worker, edits, faults>>

\* delete_destinations; copies are not modelled here.
Purge(x) ==
    /\ At(x, "purge")
    /\ Goto(x, "add")
    /\ UNCHANGED <<cluster, registry, worker, edits, faults>>

\* add, register: the controller of the kind is found through its weak
\* reference or started; the ObjectSync is entered in its sources, and the
\* reload message is sent.
Add(x) ==
    /\ At(x, "add")
    /\ running' = running \cup {Kind(x)}
    /\ sources' = [sources EXCEPT ![task[x].ev.target] = @ \cup {x}]
    /\ reload' = reload \cup {x}
    /\ Goto(x, "register")
    /\ UNCHANGED <<cluster, inst, asleep, worker, edits, faults>>

\* The stream of a controller is polled unless it was aborted or waits.
Polled(g) == g \in running \ asleep

\* The channel has no buffer: register waits until the controller polls it.
TakeReload(x) ==
    /\ x \in reload /\ Polled(Kind(x))
    /\ reload' = reload \ {x}
    /\ UNCHANGED <<cluster, inst, running, asleep, sources, task, worker, edits, faults>>

\* The new instance is in place; now the clone of the old one is dropped.
Registered(x) ==
    /\ At(x, "register") /\ x \notin reload
    /\ inst' = [inst EXCEPT ![x] = {task[x].ev.target}]
    /\ Done(x)
    /\ Drop(x, task[x].active)
    /\ UNCHANGED <<cluster, reload, edits, faults>>

---------------------------------------------------------------------------
(* delete                                                                  *)

Remove(x) ==
    /\ At(x, "remove")
    /\ inst' = [inst EXCEPT ![x] = {}]
    /\ Goto(x, "clean")
    /\ Drop(x, inst[x])
    /\ UNCHANGED <<cluster, reload, edits, faults>>

Clean(x) ==
    /\ At(x, "clean")
    /\ Goto(x, "lookup")
    /\ UNCHANGED <<cluster, registry, worker, edits, faults>>

\* Fault seeded: every error of the discovery ends the attempt.
AfterLookupStrict(g) == IF Resolves(g) THEN "release" ELSE "idle"

\* A kind that is not served is no obstacle, one that is cluster scoped is.
AfterLookup(g) ==
    CASE Resolves(g) -> "release"
      [] g \notin installed -> "letgo"
      [] OTHER -> "idle"

Lookup(x) ==
    /\ At(x, "lookup")
    /\ IF AfterLookup(Kind(x)) = "idle" THEN Done(x) ELSE Goto(x, AfterLookup(Kind(x)))
    /\ UNCHANGED <<cluster, registry, worker, edits, faults>>

Gone == [st |-> "absent", fin |-> FALSE]

\* A source once its finalizer is removed.
Stripped(o) == IF o.st = "term" THEN Gone ELSE [o EXCEPT !.fin = FALSE]

\* The finalizer of the source goes, whoever else refers to it.
ReleaseSource(x) ==
    /\ At(x, "release")
    /\ obj' = [obj EXCEPT ![task[x].ev.target] = Stripped(@)]
    /\ Goto(x, "letgo")
    /\ UNCHANGED <<sync, installed, registry, worker, edits, faults>>

LetGo(x) ==
    /\ At(x, "letgo")
    /\ sync' = [sync EXCEPT ![x].st = "absent", ![x].fin = FALSE]
    /\ Done(x)
    /\ UNCHANGED <<obj, installed, registry, worker, edits, faults>>

\* A call fails: the attempt ends, and a clone is dropped with it.
CallFails(x) ==
    /\ task[x].pc \in {"guard", "discover", "purge", "clean", "lookup", "release", "letgo"}
    /\ Fault
    /\ Done(x) /\ UNCHANGED inst
    /\ Drop(x, task[x].active)
    /\ UNCHANGED <<cluster, reload, edits>>

---------------------------------------------------------------------------
(* The resource controllers: what a reconciliation of source t does to its *)
(* finalizer.  It decides from the cached object and the sources map, and  *)
(* writes after an await.  Reconciliations start on events, reloads and    *)
(* requeues (300 s), so at any time for an object that holds or needs the  *)
(* finalizer.                                                              *)

\* Fault seeded: an unreferenced source is ignored.
DecisionIfReferenced(t) ==
    CASE sources[t] # {} /\ obj[t].st = "live" /\ ~obj[t].fin -> "guard"
      [] sources[t] # {} /\ obj[t].st = "term" /\ obj[t].fin -> "release"
      [] OTHER -> "idle"

\* A referenced source is guarded while it is live and released when it is
\* terminating; one that nobody refers to is released in any case.
Decision(t) ==
    CASE sources[t] # {} /\ obj[t].st = "live" /\ ~obj[t].fin -> "guard"
      [] sources[t] # {} /\ obj[t].st = "term" /\ obj[t].fin -> "release"
      [] sources[t] = {} /\ obj[t].fin -> "release"
      [] OTHER -> "idle"

Visit(t) ==
    /\ Polled(t.gvk) /\ worker[t] = "idle" /\ Exists(obj[t])
    /\ worker' = [worker EXCEPT ![t] = Decision(t)]
    /\ UNCHANGED <<cluster, registry, task, edits, faults>>

\* Server-side apply of the finalizer; it creates a source that is gone.
WorkerGuard(t) ==
    /\ Polled(t.gvk) /\ worker[t] = "guard"
    /\ obj' = IF t.gvk \in installed /\ obj[t].st # "term"
              THEN [obj EXCEPT ![t] = [st |-> "live", fin |-> TRUE]] ELSE obj
    /\ worker' = [worker EXCEPT ![t] = "idle"]
    /\ UNCHANGED <<sync, installed, registry, task, edits, faults>>

WorkerRelease(t) ==
    /\ Polled(t.gvk) /\ worker[t] = "release"
    /\ obj' = [obj EXCEPT ![t] = Stripped(@)]
    /\ worker' = [worker EXCEPT ![t] = "idle"]
    /\ UNCHANGED <<sync, installed, registry, task, edits, faults>>

WorkerFails(t) ==
    /\ Polled(t.gvk) /\ worker[t] # "idle" /\ Fault
    /\ worker' = [worker EXCEPT ![t] = "idle"]
    /\ UNCHANGED <<cluster, registry, task, edits>>

\* A watch fails, as it does whenever the kind is not served: the consumer
\* of the stream sleeps for 30 s, and reloads and reconciliations with it.
Sleep(g) ==
    /\ Polled(g)
    /\ (g \notin installed /\ UNCHANGED faults) \/ Fault
    /\ asleep' = asleep \cup {g}
    /\ UNCHANGED <<cluster, inst, running, sources, reload, task, worker, edits>>

Wake(g) ==
    /\ g \in asleep
    /\ asleep' = asleep \ {g}
    /\ UNCHANGED <<cluster, inst, running, sources, reload, task, worker, edits, faults>>

\* The process dies and starts again without any registration.
Crash ==
    /\ Fault
    /\ inst' = [x \in Syncs |-> {}] /\ running' = {} /\ asleep' = {} /\ reload' = {}
    /\ sources' = [t \in Targets |-> {}]
    /\ task' = [x \in Syncs |-> NoTask]
    /\ worker' = [t \in Targets |-> "idle"]
    /\ UNCHANGED <<cluster, edits>>

---------------------------------------------------------------------------
(* The users.                                                              *)

Edit == edits < MaxEdits /\ edits' = edits + 1

EditTarget(x) ==
    /\ Edit /\ sync[x].st = "live"
    /\ \E t \in Targets \ {sync[x].target} : sync' = [sync EXCEPT ![x].target = t]
    /\ UNCHANGED <<obj, installed, registry, task, worker, faults>>

DeleteSync(x) ==
    /\ Edit /\ sync[x].st = "live"
    /\ sync' = [sync EXCEPT ![x].st = IF sync[x].fin THEN "term" ELSE "absent"]
    /\ UNCHANGED <<obj, installed, registry, task, worker, faults>>

\* The name is used again.
CreateSync(x) ==
    /\ Edit /\ sync[x].st = "absent"
    /\ \E t \in Targets : sync' = [sync EXCEPT ![x] = [st |-> "live", fin |-> FALSE, target |-> t]]
    /\ UNCHANGED <<obj, installed, registry, task, worker, faults>>

DeleteSource(t) ==
    /\ Edit /\ obj[t].st = "live"
    /\ obj' = [obj EXCEPT ![t] = IF @.fin THEN [@ EXCEPT !.st = "term"] ELSE Gone]
    /\ UNCHANGED <<sync, installed, registry, task, worker, faults>>

CreateSource(t) ==
    /\ Edit /\ obj[t].st = "absent" /\ t.gvk \in installed \ ClusterScoped
    /\ obj' = [obj EXCEPT ![t].st = "live"]
    /\ UNCHANGED <<sync, installed, registry, task, worker, faults>>

InstallKind(g) ==
    /\ Edit /\ g \notin installed
    /\ installed' = installed \cup {g}
    /\ UNCHANGED <<sync, obj, registry, task, worker, faults>>

\* A CRD goes when its last object is gone.
RemoveKind(g) ==
    /\ Edit /\ g \in installed
    /\ \A t \in Targets : t.gvk = g => ~Exists(obj[t])
    /\ installed' = installed \ {g}
    /\ UNCHANGED <<sync, obj, registry, task, worker, faults>>

User ==
    \/ \E x \in Syncs : EditTarget(x) \/ DeleteSync(x) \/ CreateSync(x)
    \/ \E t \in Targets : DeleteSource(t) \/ CreateSource(t)
    \/ \E g \in Gvks : InstallKind(g) \/ RemoveKind(g)

---------------------------------------------------------------------------
\* Cluster-scoped kinds are served, others may be; all sources that can
\* exist do, or none; ObjectSyncs may exist already.
Init ==
    /\ installed \in {G \in SUBSET Gvks : ClusterScoped \subseteq G}
    /\ \E st \in {"absent", "live"} :
          obj = [t \in Targets |->
                   [st |-> IF t.gvk \in installed \ ClusterScoped THEN st ELSE "absent",
                    fin |-> FALSE]]
    /\ sync \in [Syncs -> {[st |-> "live", fin |-> FALSE, target |-> t] : t \in Targets}
                            \cup {NoEvent}]
    /\ inst = [x \in Syncs |-> {}] /\ running = {} /\ asleep = {} /\ reload = {}
    /\ sources = [t \in Targets |-> {}]
    /\ task = [x \in Syncs |-> NoTask]
    /\ worker = [t \in Targets |-> "idle"]
    /\ edits = 0 /\ faults = 0

TaskStep(x) ==
    \/ Start(x) \/ Guard(x)
    \/ DiscoverFails(x) \/ StaysRegistered(x) \/ BeginAdd(x) \/ BeginMove(x)
    \/ Purge(x) \/ Add(x) \/ Registered(x)
    \/ Remove(x) \/ Clean(x) \/ Lookup(x) \/ ReleaseSource(x) \/ LetGo(x)

WorkerStep(t) == Visit(t) \/ WorkerGuard(t) \/ WorkerRelease(t)

Next ==
    \/ \E x \in Syncs : TaskStep(x) \/ TakeReload(x) \/ CallFails(x)
    \/ \E t \in Targets : WorkerStep(t) \/ WorkerFails(t)
    \/ \E g \in Gvks : Sleep(g) \/ Wake(g)
    \/ Crash
    \/ User

Spec == Init /\ [][Next]_regVars

\* Tasks are polled, requeues fire, and a sleep ends.  A controller whose
\* watches fail again and again polls its reload channel in between, for its
\* streams are polled in turn.  Users and faults are free.
FairSpec ==
    /\ Spec
    /\ \A x \in Syncs : WF_regVars(TaskStep(x)) /\ SF_regVars(TakeReload(x))
    /\ \A t \in Targets : WF_regVars(WorkerStep(t))
    /\ \A g \in Gvks : WF_regVars(Wake(g))

---------------------------------------------------------------------------
\* Types; a reconciliation that is over holds nothing.
RegistrationTypeOK ==
    /\ sync \in [Syncs -> SyncObject]
    /\ obj \in [Targets -> Source]
    /\ installed \subseteq Gvks /\ running \subseteq Gvks /\ asleep \subseteq running
    /\ inst \in [Syncs -> SUBSET Targets]
    /\ task \in [Syncs -> Task] /\ \A x \in Syncs : At(x, "idle") => task[x] = NoTask
    /\ sources \in [Targets -> SUBSET Syncs] /\ reload \subseteq Syncs
    /\ worker \in [Targets -> {"idle", "guard", "release"}]
    /\ edits \in 0..MaxEdits /\ faults \in 0..MaxFaults

\* The sources map of a controller lists exactly the ObjectSyncs that hold a
\* handle: no move, deletion, failure or registration of one ObjectSync
\* drops the entry of another or leaves one behind, and whoever is listed
\* is served by a controller that runs ("make sure the corresponding
\* controller is alive as long as at least one ObjectSync is registered with
\* it", object_sync_controller.rs:52).
RegistrationsMatch ==
    \A t \in Targets :
        /\ sources[t] = {x \in Syncs : t \in Handles(x)}
        /\ sources[t] # {} => t.gvk \in running

\* What makes it inductive: an ObjectSync has one instance at most, and none
\* while it is being registered; the clone of an instance is only held
\* then, and stands for another source than the new one.
Moving(x) == task[x].pc \in {"purge", "add", "register"}

OneHandle ==
    \A x \in Syncs :
        /\ \A t, u \in inst[x] : t = u
        /\ \A t, u \in task[x].active : t = u
        /\ Moving(x) => inst[x] = {} /\ task[x].ev.target \notin task[x].active
        /\ ~Moving(x) => task[x].active = {}

RegInv == RegistrationsMatch /\ OneHandle

\* Once users and faults stop, a live ObjectSync whose kind can be synced is
\* registered for the source it names now, whatever moves, missing kinds,
\* failed attempts and restarts came before.
EventuallyRegistered ==
    <>[](\A x \in Syncs :
            sync[x].st = "live" /\ Resolves(sync[x].target.gvk) => inst[x] = {sync[x].target})

\* The deletion of one ObjectSync takes the finalizer of a source others
\* still refer to (object_sync_controller.rs:342); their controller puts it
\* back in the end.
EventuallyGuarded ==
    <>[](\A x \in Syncs : \A t \in inst[x] : obj[t].st = "live" => obj[t].fin)

\* "Remove finalizer from source objects" no ObjectSync refers to any more
\* (resource_controller.rs:592): as long as its controller runs, a source
\* that was left by a move does not keep the finalizer.
UnreferencedReleased ==
    <>[](\A t \in Targets :
            t.gvk \in running /\ (\A x \in Syncs : t \notin inst[x]) => ~obj[t].fin)

\* "If the last ObjectSync object referencing a specific resource (type) is
\* deleted, then the corresponding resource specific sub-controller will be
\* removed" (README.md:79).
ControllersStop ==
    <>[](\A g \in running : \E x \in Syncs : Exists(sync[x]) /\ \E t \in inst[x] : t.gvk = g)

\* "If the source CRD has been removed, skip this step so the ObjectSync
\* finalizer removal below can still proceed (otherwise we'd be stuck
\* retrying forever)" (object_sync_controller.rs:328): a deleted ObjectSync
\* is let go whether or not its kind is served.
LetGoWithoutKind ==
    \A x \in Syncs :
        sync[x].st = "term" /\ sync[x].target.gvk \notin ClusterScoped ~> sync[x].st # "term"

\* The same for every deleted ObjectSync.
DeletedIsLetGo == \A x \in Syncs : sync[x].st = "term" ~> sync[x].st # "term"
============================================================================
