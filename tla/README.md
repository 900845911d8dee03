# Object Syncer in TLA+

A verification development for `rustrial/k8s-object-syncer`, a Kubernetes
controller that copies a *source* object into other namespaces, as configured
by `ObjectSync` objects, and keeps the copies in sync. The modules model the
controllers call by call, and what decides when they run, whom they serve and
where they write; TLC checks the modules on small instances and TLAPS proves the
central safety properties for all of them.

Paths: `RC` is `resource_controller.rs`, `OSC` is `object_sync_controller.rs`,
both like `utils.rs`, `object_sync_modifications.rs` and `main.rs` under
`rustrial-k8s-object-syncer/src/`; `lib.rs` is
`rustrial-k8s-object-syncer-apis/src/lib.rs`.

## The system

| Part | State | Operations | Where |
|---|---|---|---|
| Main controller | registry `instances`, weak map of resource controllers | `reconcile` = `check` (finalizer, discovery, registration, Ready) or `delete` (deregister, delete copies, release source and ObjectSync) | OSC |
| Resource controller, one per GVK | `sources`: source -> ObjectSyncs | `reconcile` (look up ObjectSyncs, guard the source, `reconcile_source` or `source_deleted` for each), `register`, drop of a handle, abort | RC |
| Status and finalizer writes | `original` and `modified` ObjectSync | `replace_status`, `patch_spec` | object_sync_modifications.rs |
| Helpers | none | `add_finalizer_if_missing` (server-side apply), `remove_finalizer` (JSON patch), `delete_destinations` | utils.rs |
| Namespace cache, start-up | reflector store | reflector, wait until ready | main.rs |
| API types | ObjectSync spec and status | `update_destinations`, `update_condition`, `applies_to` | lib.rs |
| Configuration, metrics, CRD generation, Helm chart | environment, counters | not part of the synchronisation | main.rs, prometheus_exporter.rs, charts/ |

The parts share no memory beyond the registry and the caches: they talk to each
other through the API server. Both controllers write the status of an
ObjectSync and both write the finalizer of the source. Between any two calls
users, the namespace controller of Kubernetes and the other controller act. A
controller runs one reconciliation per object at a time (kube-runtime), but
several objects concurrently. Caches lag. Every call may fail, the process may
die, and errors are answered in five ways: `?`, log and go on, keep as a
remnant, retry, requeue. These are the hard behaviours; `PROJECT.json` lists
them as hazards at the line where each one bites.

What makes the parts correct:

- resource controller: copies are listed in the status before they exist and
  as long as they live (garbage collection); expected copies end up equal to
  the source, all others disappear, finalizers included; the source keeps its
  finalizer until its last copy is gone and is released then; terminating
  namespaces are not held up; the condition InSync tells the truth;
- main controller: no registration without finalizer; a deleted ObjectSync
  leaves no copies, is let go, and does not disturb other ObjectSyncs of the
  same source; Ready is reported;
- together: neither controller destroys what the other one wrote.

- registration: the sources map of a controller lists exactly the ObjectSyncs
  registered with it, a controller runs as long as it has one, nobody is lost by a move or
  a restart, and a kind that is gone holds up no deletion;
- triggers: changes are noticed, what is not noticed is repaired by the timer,
  and the controller's own writes do not keep it busy;
- destinations: copies are exactly where the list asks for them, written the
  way it asks, the source is never one of them, and repeating changes nothing.

## Modules

| Module | Models | |
|---|---|---|
| `Cluster` | API server, users, namespace controller (external), status types of lib.rs | objects are records with phase, finalizer, revision, content |
| `ResourceController` | RC: one worker, every awaited call one action | composes `Cluster` with caches, registration, restart; also the specification `RcSpec` of the sub-controller alone, with the main controller reduced to `Register` |
| `CopyLedger` | what garbage collection promises, abstractly | implemented by `ResourceController` (`Ledger`, `KeepsLedger`) |
| `ObjectSyncController` | OSC: one task per ObjectSync, every awaited call one action | extends `ResourceController` |
| `ObjectSyncer` | main.rs: everything together | `Spec`, fairness, properties of the whole |
| `Registration` | OSC `check`, `add`, `remove`, `delete` and RC `register`, handles and their drop, weak map, abort, discovery | several ObjectSyncs, sources and kinds; reconciliations reduced to the finalizer of the source |
| `Triggers` | RC `start`: watches and their mapping functions, queue, requeues; TARGET_NAMESPACES; the reflector of main.rs | reconciliations are single steps that may fail for some namespaces |
| `Destinations` | lib.rs `Destination`, `DestinationStatus`; RC `expected_destinations` and the list arithmetic of `reconcile_source` and `upsert_destinations` | lists over places (namespace, name); reconciliations are single steps |
| `MC...` | | instances for TLC |
| `ResourceControllerProofs` | | types and tracking of the sub-controller: lemmas and theorems |
| `InSyncProofs`, `SourceGuardProofs` | | extend it: the condition InSync; the finalizer of the source |
| `CopyLedgerProofs` | | extends it: the refinement of `CopyLedger` |
| `ObjectSyncerProofs` | | extends it: both controllers together |
| `RegistrationProofs`, `TriggersProofs`, `DestinationsProofs` | | theorems about `Registration`, `Triggers` and `Destinations` |

The first group (`Cluster` to `ObjectSyncer`) takes the code apart call by call
for one source. The last three each open up what that group holds fixed: which
controller serves whom, when it runs, and what exactly a destination list
means. They share no variables with it; each says in its head what it keeps of
a reconciliation.

State and code. `src`, `dst[x][n]`, `sync[x]`, `ns[n]` are what the API server
stores: the source, the copy for ObjectSync `x` in namespace `n`, the
ObjectSync with its status, the namespace. `w` is the stack frame of the one
reconciliation of the source: `w.src` the `Arc` it was started with, `w.view`
the `ObjectSyncModifications` it loaded, `w.plan`, `w.todo`, `w.at`, `w.kept`
the loops over expected and stale destinations and their remnants, `w.pc` the
next call. `o[x]` is the same for the reconciliation of ObjectSync `x` by the
main controller. `sources` is the registry, `srcCache`, `nsCache` and
`syncCache` are the watch caches, `due` the watch events the main controller
has not handled yet, `releasing` the terminating copies that the source watch
handed to `reconcile` as objects of their own.

An action `F` is a call and everything the code does until the next await;
`FFails` is the same call with an error answer, taken only while faults are
left. The order is that of the code: load each ObjectSync, add the finalizer to
the source, then for each ObjectSync GET, strip and DELETE every stale copy,
write the list, GET and write every copy with at most `Attempts` attempts,
write versions and condition.

`Registration`: `inst[x]` is the entry of `instances` (a set with at most one
target), `task[x]` the stack frame of the main controller's reconciliation of
`x`, with the clone of the instance that `check` holds during a move
(`active`), `running` the controllers some `Arc` keeps alive, `sources[t]` the
maps of all controllers, `reload` the reload messages not yet received.
`asleep` are the controllers whose consumer sleeps after a failed watch; they
poll neither their channel nor their reconciliations (`Polled`).
`Handles(x)` are the `ObjectSyncHandle`s that exist for `x`, wherever they
are; dropping one (`Drop`) is part of the action whose end of scope drops it.

`Triggers`: `store` is the store of the source watch, `events` the watch
events on their way, `queue` and `timer` the scheduler of kube-runtime with one
entry per reference. `SourceRef` names the source and `OtherRef` nothing;
`syncRef` is what the name of the ObjectSync means when it is taken for an
object of the watched kind. `unmarked` are copies whose label or annotation
users took away.

`Destinations`: namespaces and names are numbers, so that they have the order
that the written list is sorted by. `order` is the order in which the cache
returns the namespaces, any order each time. `status` is
`status.destinations` with the two versions of each entry, `copy` the objects.
`PlaceOrder` lists all places in that order; sorting takes the entries place by
place. `Joined` and `Upsert` are the loops of the code, written as recursive
functions over the number of turns; finding, removing and retaining entries of
a place is `Within`.

Definitions marked "Fault seeded" are wrong on purpose and used by no
specification. Each replaces the definition that follows it (see `mutants` in
`PROJECT.json`) to show that a property can be violated by a plausible mistake
in the code.

### Abstractions

- `Cluster` to `ObjectSyncer`: one source object and one GVK. Each ObjectSync
  names its copies differently, so no two write the same copy and no foreign
  object is in the way: a create conflict does not occur, an update conflict
  does. Names of deleted ObjectSyncs are not used again.
- Revisions are counters and compared for equality only; a re-created object
  continues the counter, so that one number stands for uid and
  resourceVersion. `Updated` keeps the revision when nothing changes, as the
  API server does. `replace` and `apply` are the same write: contents of users
  are overwritten, fields of others are not modelled.
- There the destination list of an ObjectSync is the set of its namespaces
  `want`; lists are the subject of `Destinations`.
- Messages and timestamps of conditions are left out, only their status is
  kept; a write that would change nothing but a message is not a step.
- The GET and the PUT of `replace_status` are one step. A write in between is
  refused by the API server, like any failing call. The GET and the PATCH of a
  finalizer are two steps, because the PATCH carries no revision. Only the
  syncer's finalizer exists.
- A request in flight when the resource controller is aborted is taken to have
  been answered or not sent.
- A reconciliation of the source may start whenever the worker is idle. That is
  what the 300 s requeue, the reload and all watches allow; which watch enqueues
  which object is the subject of `Triggers`.
- The main controller starts on a watch event (`due`) or, as a requeue after
  30 s or 3600 s, when its cache has caught up. This timing assumption keeps
  the number of attempts on one stale event finite. Its errors do not race its
  own watch otherwise.
- `Registration` has no copies: deleting them during a move or a deletion is a
  step that may fail (`Purge`, `Clean`). Names are `Targets`, records of a kind
  and a source. The reference a task holds to a controller between finding it and
  entering the ObjectSync has no state of its own, because there is no await
  point in between. The channel for reload messages has room for one message
  per sender clone: `register` waits until it is taken.
- `Triggers` has one source and one ObjectSync, registered with a controller
  that runs already. Events of one object are merged, as the watches may skip
  intermediate versions. The age of a namespace is `young` or `old`; a young
  one stays so, the code takes 900 s.
- `Destinations` has one ObjectSync and one kind, and no strategy is the same
  as `apply`. A written copy that already has the content and the last writer
  keeps its revision. A reconciliation is one step, so nobody interferes with
  it; that is what `ResourceController` is for.

## What is checked

Passing runs (`MaxEdits`, `MaxFaults` in brackets):

| Run | Instance | Shows |
|---|---|---|
| `RcSafety` | 1 ObjectSync, 2 namespaces (2, 1), namespaces interchangeable | `TrackedForGC`, with `TypeOK` and `RcInv`, the invariants of the proofs; `KeepsLedger`, the refinement of `CopyLedger`; `InSyncTells`, with the invariant `InSyncInv`: True is only written when every planned entry was written or found up to date |
| `RcShared` | 2 ObjectSyncs, 1 namespace (2, 0) | the source keeps its finalizer while any of the ObjectSyncs has a live copy (`CopiesGuardSource`), and loses it after the last (`ReleasesSourceLast`); `SourceInv`, the invariant behind both |
| `RcLive` | 1, 1 (2, 1), copies watched | `EventuallyReplicated`, `EventuallyCleaned`, `NamespaceReleased`, `SourceReleased`; `SourceGuardedInTheEnd`: a finalizer that could not be added is there in the end |
| `SyncerSafety` | 1, 1 (1, 1), both controllers | `OscTypeOK`, `RegisteredIsGuarded` with `GuardInv` |
| `SyncerLive` | 1, 1 (1, 0) | `SyncReleased`, `EventuallyReplicated`, `EventuallyTracked` |
| `Registered` | 2 ObjectSyncs, 4 targets of 3 kinds, one cluster scoped (1, 1) | `RegistrationsMatch` with `RegInv`; `EventuallyRegistered`, `EventuallyGuarded`, `UnreferencedReleased`, `ControllersStop`, `LetGoWithoutKind` |
| `Triggers` | 2 namespaces, one of them in TARGET_NAMESPACES (1, 1) | `NoticesDrift` with `DriftInv`, `EventuallySynced`, `ComesToRest` |
| `Destinations` | every list of up to 2 entries over 2 namespaces and 2 names (1, 1) | `CopiesListed`, `VersionsTrue`, `CopiesAsSpecified`, `StrategyFollowed`, `RepeatIsQuiet` |

Runs that end with a counterexample show where the code does not do what its
documentation or comments say (see `findings`):

| Run | Statement that fails | Because |
|---|---|---|
| `SyncerOrphan` | deleting an ObjectSync deletes its copies (`NoOrphans`) | `delete` uses the list of the event it was started with (OSC 326); a reconciliation of the source that is on its way tracks and creates a copy for a destination added just before the deletion, and then the list that names it is overwritten |
| `SyncerSourceFinalizer` | tracked sources hold the finalizer | deleting one of two ObjectSyncs removes it; `EventuallyGuarded` shows that it comes back |
| `RegistrationStuck` | every deleted ObjectSync is let go | `check` adds the finalizer before it finds the kind to be cluster scoped, and `delete` passes over missing kinds only |
| `TriggersMissed` | with all events handled, the copies are where spec.destinations and the namespaces ask for them | the watches of ObjectSyncs and namespaces enqueue the ObjectSync's own name; the change waits for the timer (`EventuallySynced`) |

More statements fail, for reasons that the modules contain. They are not among
the runs; where a name is given, naming it in the cfg of the run in brackets
shows the counterexample.

- `TrackedForGC` [`SyncerSafety`]: it holds of the sub-controller alone
  (`RcSpec`, where nobody else writes the status) and fails of the whole.
  Reporting Ready writes back the status of an older event, list of copies
  included (OSC 421). `EventuallyTracked` shows that the next reconciliation
  repairs this for copies that are still expected; if the ObjectSync is deleted
  or its list narrowed first, the copy stays: with `SPECIFICATION Spec` and one
  edit, `NoOrphans` fails in this way too. `SyncerOrphan` rules it out: it starts
  from `SettledInit`, a state `Spec` reaches with Ready reported before the first
  reconciliation of the source, so that its counterexample is the other race.
- `EventuallyReady` [`SyncerLive`]: the resource controller writes back
  conditions that it read before Ready was reported, and Ready is reported once.
- `OnlyUsersCreateSource` [`RcSafety`]: the server-side apply of the finalizer
  creates a source that was deleted since (utils.rs 162).
- `ReleasesSourceLast` [`RcSafety`], with a failing call: an error while
  loading an ObjectSync counts as "no ObjectSync" (RC 457). One ObjectSync, one
  copy and one error are enough: the source is deleted, nobody's copies are
  deleted, and the finalizer goes.
- `CopiesGuardSource`, with two ObjectSyncs and a restart: the new process
  fills its sources map one registration at a time (OSC 405, RC 483). A terminating
  source that is reconciled before the second one is registered has its
  finalizer removed when the copies of the first are gone (RC 546).
- `CopiesGuardSource`, with a failing call: an error while adding the finalizer
  is only logged (RC 564). `EventuallyCleaned` is therefore stated for a live
  source or no faults; `SourceGuardedInTheEnd` says that a later reconciliation
  adds it.
- A failed strip followed by a DELETE that succeeds unlists a terminating copy
  (utils.rs 246); `NamespaceReleased` therefore needs `CopiesWatched`.
- A reported failure (InSync False) is not withdrawn when a later pass changes
  no copy, and a pass that misses a copy without changing one leaves True
  (RC 413); `InSyncTells` speaks of what is written.
- A source left by a move keeps the finalizer when its controller is aborted
  with the move; `UnreferencedReleased` therefore speaks of running controllers.
- Without the exception for overlapping entries `RepeatIsQuiet` fails: two
  entries for one place with different strategies rewrite the copy and the
  status in every pass, and the copy's own event starts the next one.

### Bounds

Edits and faults are the only sources of unboundedness (revisions and contents
grow with them), so `MaxEdits` and `MaxFaults` bound the state space and
nothing else does (`Destinations` also stops after two complete passes,
`passes < 2`, because a third would repeat the second); `Kinds` narrows the edits where a counterexample needs few of them.
`Attempts` is 2 instead of 3: the loop is then entered, repeated and exhausted.
One edit reaches every branch of a single reconciliation; two let an edit race
the answer to an earlier one (delete and re-create a namespace, edit a copy
twice during its attempts); three exercise delete, re-create, delete. Two
namespaces are needed for remnants next to expected copies, two ObjectSyncs for
everything about a shared source. `Registered` has every pair of targets a
move can have (same kind, other kind, refused kind), starts with each choice of
installed kinds, with or without the sources and each ObjectSync, and restarts or
fails once in between. `Triggers` has a
namespace the watches report and one they do not; with two edits the same
properties hold too (2.1 million states, too slow for every day). Two entries
are enough for any overlap, two names for a renamed copy next to one that is
not, and two namespaces for a wildcard next to a name; two edits with one name
pass as well. `CHECK_DEADLOCK FALSE`: after the last edit
nothing has to happen any more, for example when the source is gone.

### Fairness

`RcFairness` and `Fairness`: weak fairness of the worker and of every task of
the main controller (tokio polls each ready task; requests are answered or time
out), of each watch (kube-runtime re-establishes watches and relists), of the
reconciliation of terminating copies, and of the namespace controller. Faults
and edits have none and are finite, so liveness says what happens once they
stop. `Registration` is weakly fair to tasks, to workers and to the end of a
sleep, and strongly fair to a controller taking a reload message: when the kind
is not served its watches fail for ever, and after each failure the consumer of
its stream sleeps for 30 s (RC 756); the message is taken in between, because
the streams of a controller are polled in turn. `Triggers` to every watch, the reflector, the queue and the
timers, and to the registration by the main controller, which repeats itself
every 30 s or 3600 s. A reconciliation is started again and again because every successful one
requeues itself after 300 s (RC 584) and every failed one after 30 s or 300 s.

## What is proved

For any sets of ObjectSyncs, namespaces, targets and kinds, any number of
attempts (at least one) and any bounds:

| Theorem | Says | In |
|---|---|---|
| `TypeCorrect` | `RcSpec => []TypeOK` | `ResourceControllerProofs` |
| `InvariantHolds` | `RcSpec => [](TypeOK /\ RcInv)` | |
| `CopiesAreTracked` | `RcSpec => []TrackedForGC` | |
| `LedgerKept` | `RcSpec => KeepsLedger`, the refinement of `CopyLedger` | `CopyLedgerProofs` |
| `LedgerLosesNothing` | `KeepsLedger => []Ledger!NothingLost`, without the controller | |
| `InSyncInvariant` | `RcSpec => [](TypeOK /\ RcInv /\ InSyncInv)` | `InSyncProofs` |
| `InSyncIsTrue` | `RcSpec => InSyncTells` | |
| `SourceInvariant` | `RcSpec => [](TypeOK /\ RcInv /\ SourceInv)` | `SourceGuardProofs` |
| `SourceIsGuarded` | `RcSpec => [](faults = 0 => CopiesGuardSource)` | |
| `SourceReleasedLast` | steps before the first fault do what `ReleasesSourceLast` says | |
| `SyncerInvariant` | `Spec => [](OscTypeOK /\ AttemptsLeft /\ GuardInv)` | `ObjectSyncerProofs` |
| `SyncerTyped` | `Spec => []OscTypeOK` | |
| `RegisteredAreGuarded` | `Spec => []RegisteredIsGuarded` | |
| `RegistrationTyped` | `Spec => []RegistrationTypeOK` | `RegistrationProofs` |
| `RegistrationsHold` | `Spec => []RegInv` | |
| `RegistrationsAlwaysMatch` | `Spec => []RegistrationsMatch` | |
| `TriggersInvariant` | `Spec => [](TriggersInv /\ DriftInv)` | `TriggersProofs` |
| `TriggersTyped` | `Spec => []TriggersTypeOK` | |
| `DriftIsNoticed` | `Spec => []NoticesDrift` | |
| `DestinationsInvariant` | `Spec => []DestinationsInv` | `DestinationsProofs` |
| `DestinationsTyped` | `Spec => []DestinationsTypeOK` | |
| `CopiesAreListed` | `Spec => []CopiesListed` | |
| `VersionsAreTrue` | `Spec => []VersionsTrue` | |
| `CopiesFollowSpec` | `Spec => []CopiesAsSpecified` | |
| `StrategyIsFollowed` | `Spec => []StrategyFollowed` | |
| `RepeatsAreQuiet` | `Spec => []RepeatIsQuiet` | |

`Spec` is that of `ObjectSyncer`, `Registration`, `Triggers` and `Destinations`,
in this order. Assumptions: `BoundsAssumption`, `AttemptsAssumption`,
`RegistrationAssumption` (there is a target, cluster-scoped kinds are kinds, the
bounds are naturals), `TriggersAssumption` (the bounds are naturals, the two
references differ) and `DestinationsAssumption` (namespaces and names are
positive numbers, finitely many, so that `PlaceOrder` can list all places in
order; the source has one of them), all evaluated by TLC in the runs.

### Tracking

`TrackedForGC` is not inductive: whether a copy may be created depends on what
the worker remembers. `RcInv` adds that ObjectSyncs stay (`SyncsStay`) and that
what the worker remembers of a status is what is stored (`ViewsCurrent`), which
rests on handling one ObjectSync at a time (`OneAtATime`); that while stale
copies are deleted every live copy is expected, a remnant or still to be
visited (`DeletesAllStale`), so that the list written next covers all of them;
and that while copies are written the worker visits listed entries only and its
list equals the stored one (`WritesOnlyTracked`). `AttemptsLeft` is what
`TypeOK` needs: no visit starts with the attempts used up.

The argument goes action group by action group. Users, watches, the namespace
controller and releases only make copies go (`QuietStep`); leaving an ObjectSync,
with or without an error, keeps the other views (`LeaveStep`, `BailOutStep`);
writing copies moves within the list (`GoesOnStep`, `WrittenStep`); the two
status writes are `InvStatus`.

`LedgerKept` needs no further invariant. A status write is a `Relist`, which
has to cover the live copies: that is `DeletesAllStale` for the first write and
`WritesOnlyTracked` for the second. A created or updated copy is an `Appear` in
a listed place (`WritesOnlyTracked` again). Everything else only makes copies
go (`Disappear`) or stutters.

### InSync

`InSyncTells` speaks of the step that writes the status; whether it holds was
decided while the entries were visited. `InSyncInv` carries that over: as long
as none was missed, the entries that are finished hold the version of the source
the worker was started with (`FinishedAreInSync`). It needs that the entries
the upsert skips, the remnants, are never planned ones (`PlannedAreNoRemnants`)
and that only one copy is in the worker's hands (`OneCopyAtATime`), so that
going on with the next entry finishes exactly the one that was written. Only
`FinishUpsert` can turn a status into True (`OnlyFinishTells`), and it does so
with nothing left to visit and nothing missed (`FinishTells`).

### The finalizer of the source

The worker decides with old copies of the source: the one in the watch cache
and the one its reconciliation was started with. `SourceInv` says how old
copies may be wrong. A finalizer in the cache is still there; a deletion in the
cache is pending or has been completed, and then nobody guards the source anew
(`CacheOfSource`); the same for the worker's copy, which past
`AddFinalizerIfMissing` is guarded (`SourceOfWorker`). While the worker deletes
the copies of a terminating source, those of the ObjectSyncs it has finished
are gone (`DeletesCopiesOfAll`), provided every registered ObjectSync was
loaded: an error there looks like a missing ObjectSync, and a restart forgets
registrations. Hence `faults = 0`, which is not a convenience of the proof:
with one fault the statements are false (see above). `OnlyEndReleases` shows
that before the first fault only the end of such a reconciliation takes the
finalizer off, and `ReleasedIsBare` that no copy is left then.

### The finalizer of an ObjectSync

`RegisteredIsGuarded` is about the whole syncer: an ObjectSync may be deleted
between any two of its calls, the main controller works on old events, and it
restarts. `GuardInv` adds that an ObjectSync between the finalizer and the
registration (`discover`) is guarded as well, that a cleanup has deregistered
what it cleans up, and that the cache never forgets a deletion it has seen: it
is not `live` while a cleanup runs or when the finalizer is gone, and is `live`
as long as the ObjectSync is. That keeps a
cleanup started from an old event from taking the finalizer off an ObjectSync
registered since. The worker and the other tasks do not touch what `Guarded`
speaks of (`WorkerKeepsGuards`, `OthersGuarded`); `GuardCheckSteps` and
`GuardDeleteSteps` go through the calls of `check` and `delete`.

### Registrations

`RegistrationsMatch` is not inductive either: dropping a handle takes the entry
out of the map, whoever else may still hold a handle for the same source. `RegInv` adds
`OneHandle`: an ObjectSync has at most one instance; the clone is held only
during a move, when the instance is out of the map, and stands for another
source than the one that is being registered. So a dropped handle is always the
last one of its ObjectSync for that source. `DropMatches` is the lemma about
dropping one handle, used by the end of a registration, by a deletion and by a
failed call; `SameHandles` covers the steps that move a handle between the map,
the stack and the registration in progress.

### Triggers

`NoticesDrift` speaks of quiet states only. `DriftInv` says it of all states:
a copy the watches can see is current or something that leads to a
reconciliation is on its way (`Pending`: an event of the source or the copy, a
reference in the queue, a reload, or the registration itself), and a store that
lags behind the source has an event coming. The second part carries the first:
a reconciliation writes the version of the store, which may be old when it is
written (`DriftReconcile`). `DriftStays` covers the steps that only hand a
trigger on; `TriggersInv` adds to the types that versions count edits.

### Destinations

The theorems hold for lists of any length, so what the loops over lists compute
has to be proved by induction. The library states induction for an operator
`P(_)`, which the provers cannot instantiate; `Induction` states it for a set of
numbers, "those up to which the loop is right", and follows from the theorem
about minimal elements of a well-founded order. `LoopFunction` gives from it that
a recursive function over the number of turns exists and has its type. On these rest the lemmas about
the operators: what `Joined`, `Within`, `Sorted`, `ExpectedDestinations` and
`Merge` contain, that `Sorted` is in order (`SortedInOrder`) and that elements
determine a sorted list with one entry for each place (`OrderedUnique`).

The upsert is the loop that matters. `Handled` is its invariant: after `k` turns
the entries of the new list, and those of the old one, still tell the truth
about the copies (`Describes`), the copies visited are current unless they were
skipped, and all others are as before. It needs that the list told the truth before,
which is `VersionsTrue`: otherwise skipping an entry whose versions match could
leave the wrong content, or a copy written with an old strategy. `VersionsTrue`
in turn survives because a revision only grows, and because `Inherited` drops
the versions of an entry whose strategy changed. That stale copies are found
needs `CopiesListed`. `DestinationsInv` is therefore the conjunction of the
properties, and `Reconciled` the lemma about one reconciliation, complete or
not, from which the actions follow.

`RepeatsAreQuiet` compares two reconciliations. The first leaves a list with one
entry for each place, each up to date and asked for (`Current`). The second
expects the same places, although the cache may return the namespaces in another
order; without overlaps it asks for the same strategies, so that the merge
brings the entries of the status (`MergeRepeats`), and sorting makes it the same
list. Nothing is outdated then (`Settled`) and nothing is written.

### Model-checked only

All liveness and everything under fairness, which are beyond the prover. Every
invariant and every action property of the passing runs is proved, except that
`CopiesGuardSource` and `ReleasesSourceLast` are proved up to the first fault,
which is where they hold. The violations are counterexamples, found by TLC. The
statements named under "More statements fail" are neither proved nor among the
runs.

## Not modelled

- Metrics, error classes other than `ApiDiscoveryError` (they choose a requeue
  delay), the time-out of the start-up, generated and deployment files.
- WATCH_NAMESPACES and SOURCE_NAMESPACES: they exclude objects as a whole.
- Foreign objects at the place of a copy, and several ObjectSyncs that write
  the same place.
- The position of a finalizer in a JSON patch (utils.rs 197): the patch is
  computed by an external crate, and objects have no foreign finalizers here.
- A request that is still on its way when its controller is aborted (RC 791).
- Moves together with copies: `Registration` has no copies, and the modules
  with copies have one source. What a move deletes while the old controller is still
  running (OSC 381) and the missing comparison of kinds (RC 494) wait
  for an instance that is small enough.

## Plan

Done: the call-by-call modules with `TrackedForGC` proved; `CopyLedger` and the
proved refinement; `Registration` with its invariant proved; `Triggers` and
`InSyncTells` with their invariants proved; the finalizers of sources and
ObjectSyncs proved; `Destinations` with all its properties proved. Left, in this
order:

1. a move of one ObjectSync between two sources with copies, both controllers
   reduced to their writes of the status;
2. two ObjectSyncs in the whole syncer, from a settled initial state;
3. finalizer lists and patches by position.
