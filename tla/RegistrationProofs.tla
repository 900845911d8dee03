------------------------- MODULE RegistrationProofs -------------------------
(***************************************************************************)
(* The sources maps of the resource controllers match the registrations,   *)
(* for any ObjectSyncs, sources and kinds, and any number of edits and     *)
(* faults.                                                                 *)
(***************************************************************************)
EXTENDS Registration, TLAPS

\* The kind of a source is one of the kinds.
LEMMA GvkOfTarget == \A t \in Targets : t.gvk \in Gvks
  BY DEF Gvks

\* A reconciliation that is over is well typed.
LEMMA NoTaskType == NoTask \in Task
<1>1. (CHOOSE t \in Targets : TRUE) \in Targets
  BY RegistrationAssumption DEF RegistrationAssumption
<1> QED BY <1>1 DEF NoTask, NoEvent, Task, TaskPc, SyncObject

\* Ending the reconciliation of x leaves those of the others alone.
LEMMA DoneTask ==
    ASSUME task \in [Syncs -> Task], NEW x \in Syncs, Done(x)
    PROVE  /\ task' \in [Syncs -> Task]
           /\ task'[x] = NoTask
           /\ \A y \in Syncs \ {x} : task'[y] = task[y]
  BY NoTaskType DEF Done

\* So does moving it on.
LEMMA GotoTask ==
    ASSUME task \in [Syncs -> Task], NEW x \in Syncs, NEW pc \in TaskPc, Goto(x, pc)
    PROVE  /\ task' \in [Syncs -> Task]
           /\ task'[x].pc = pc /\ task'[x].ev = task[x].ev
           /\ task'[x].active = task[x].active
           /\ \A y \in Syncs \ {x} : task'[y] = task[y]
  BY DEF Goto, Task

\* A controller that is not aborted keeps its worker.
LEMMA DropTypes ==
    ASSUME RegistrationTypeOK, NEW x \in Syncs, NEW D \in SUBSET Targets, Drop(x, D)
    PROVE  /\ sources' \in [Targets -> SUBSET Syncs]
           /\ running' \subseteq Gvks /\ asleep' \subseteq running'
           /\ worker' \in [Targets -> {"idle", "guard", "release"}]
<1>1. sources' \in [Targets -> SUBSET Syncs]
  <2>1. CASE D = {}
    BY <2>1 DEF Drop, RegistrationTypeOK
  <2>2. CASE D # {}
    <3>1. PICK t \in Targets : t = CHOOSE u \in D : TRUE
      BY <2>2
    <3>2. sources' = [sources EXCEPT ![t] = @ \ {x}]
      BY <2>2, <3>1 DEF Drop, Dropped
    <3> QED BY <3>2 DEF RegistrationTypeOK
  <2> QED BY <2>1, <2>2
<1>2. running' \subseteq Gvks /\ asleep' \subseteq running'
  BY DEF Drop, RegistrationTypeOK
<1>3. worker' \in [Targets -> {"idle", "guard", "release"}]
  BY DEF Drop, RegistrationTypeOK
<1> QED BY <1>1, <1>2, <1>3

\* Steps that change no handle.
LEMMA SameHandles ==
    ASSUME RegistrationsMatch, sources' = sources, running' = running,
           \A x \in Syncs : Handles(x)' = Handles(x)
    PROVE  RegistrationsMatch'
  BY DEF RegistrationsMatch

\* Losing one handle takes exactly its entry out of the map, and stops the
\* controllers nobody holds any more, and no others.
LEMMA DropMatches ==
    ASSUME RegistrationTypeOK, RegistrationsMatch,
           NEW x \in Syncs, NEW D \in SUBSET Targets, \A t, u \in D : t = u,
           Handles(x) = Handles(x)' \cup D, Handles(x)' \cap D = {},
           \A y \in Syncs \ {x} : Handles(y)' = Handles(y),
           Drop(x, D)
    PROVE  RegistrationsMatch'
<1>1. \A t \in Targets : sources'[t] = IF t \in D THEN sources[t] \ {x} ELSE sources[t]
  <2>1. CASE D = {}
    BY <2>1 DEF Drop
  <2>2. CASE D # {}
    <3>1. PICK t \in Targets : t \in D /\ t = CHOOSE u \in D : TRUE
      BY <2>2
    <3>2. sources' = [sources EXCEPT ![t] = @ \ {x}]
      BY <2>2, <3>1 DEF Drop, Dropped
    <3>3. \A u \in Targets : u \in D <=> u = t
      BY <3>1
    <3> QED BY <3>2, <3>3 DEF RegistrationTypeOK
  <2> QED BY <2>1, <2>2
<1>2. ASSUME NEW t \in Targets
      PROVE  sources'[t] = {y \in Syncs : t \in Handles(y)'}
  <2>1. \A y \in Syncs \ {x} : t \in Handles(y)' <=> y \in sources[t]
    BY DEF RegistrationsMatch
  <2>2. x \in sources[t] <=> t \in Handles(x)' \cup D
    BY DEF RegistrationsMatch
  <2>3. sources[t] \subseteq Syncs
    BY DEF RegistrationTypeOK
  <2> QED BY <1>1, <2>1, <2>2, <2>3
<1>3. ASSUME NEW t \in Targets, sources'[t] # {}
      PROVE  t.gvk \in running'
  <2>1. sources[t] # {} /\ t.gvk \in running
    BY <1>1, <1>3 DEF RegistrationsMatch
  <2>2. PICK y \in Syncs : t \in Handles(y)'
    BY <1>2, <1>3
  <2>3. y \in Holders(t.gvk)'
    BY <2>2 DEF Holders
  <2> QED BY <2>1, <2>3 DEF Drop
<1> QED BY <1>2, <1>3 DEF RegistrationsMatch

---------------------------------------------------------------------------
(* Types.                                                                  *)

\* At the start.
LEMMA RegistrationInitTyped == Init => RegistrationTypeOK
<1> SUFFICES ASSUME Init PROVE RegistrationTypeOK
  OBVIOUS
<1>1. task \in [Syncs -> Task] /\ \A x \in Syncs : At(x, "idle") => task[x] = NoTask
  BY NoTaskType DEF Init, At
<1>2. sync \in [Syncs -> SyncObject]
  <2>1. \A t \in Targets : [st |-> "live", fin |-> FALSE, target |-> t] \in SyncObject
    BY DEF SyncObject
  <2>2. NoEvent \in SyncObject
    <3>1. (CHOOSE t \in Targets : TRUE) \in Targets
      BY RegistrationAssumption DEF RegistrationAssumption
    <3> QED BY <3>1 DEF NoEvent, SyncObject
  <2>3. sync \in [Syncs -> {[st |-> "live", fin |-> FALSE, target |-> t] : t \in Targets}
                            \cup {NoEvent}]
    BY DEF Init
  <2> QED BY <2>1, <2>2, <2>3
<1>3. obj \in [Targets -> Source]
  <2>1. PICK st \in {"absent", "live"} :
          obj = [t \in Targets |->
                   [st |-> IF t.gvk \in installed \ ClusterScoped THEN st ELSE "absent",
                    fin |-> FALSE]]
    BY DEF Init
  <2>2. \A t \in Targets :
          [st |-> IF t.gvk \in installed \ ClusterScoped THEN st ELSE "absent", fin |-> FALSE]
             \in Source
    BY DEF Source
  <2> QED BY <2>1, <2>2
<1> QED BY <1>1, <1>2, <1>3, RegistrationAssumption DEF Init, RegistrationTypeOK, RegistrationAssumption

\* Steps of the reconciliation of x that leave the registry alone.
LEMMA PlainTyped ==
    ASSUME RegistrationTypeOK, NEW x \in Syncs,
           \/ Start(x) \/ Guard(x) \/ DiscoverFails(x) \/ StaysRegistered(x) \/ BeginAdd(x)
           \/ Purge(x) \/ Clean(x) \/ Lookup(x) \/ ReleaseSource(x) \/ LetGo(x)
    PROVE  RegistrationTypeOK'
<1> USE DEF RegistrationTypeOK, At, registry, cluster
<1>1. CASE Start(x)
  BY <1>1 DEF Start, Task, TaskPc, SyncObject
<1>2. CASE Guard(x)
  <2>1. CASE sync[x] = task[x].ev
    <3>1. [sync[x] EXCEPT !.fin = TRUE] \in SyncObject
      BY DEF SyncObject
    <3>2. [task[x] EXCEPT !.pc = "discover", !.ev.fin = TRUE] \in Task
      <4>1. task[x] \in Task
        OBVIOUS
      <4>2. [task[x].ev EXCEPT !.fin = TRUE] \in SyncObject
        BY <4>1 DEF Task, SyncObject
      <4>3. [task[x] EXCEPT !.pc = "discover", !.ev = [task[x].ev EXCEPT !.fin = TRUE]] \in Task
        BY <4>1, <4>2 DEF Task, TaskPc
      <4> QED BY <4>1, <4>3 DEF Task
    <3>3. [task[x] EXCEPT !.pc = "discover", !.ev.fin = TRUE].pc # "idle"
      BY DEF Task
    <3>4. sync' = [sync EXCEPT ![x] = [sync[x] EXCEPT !.fin = TRUE]]
      BY <1>2, <2>1 DEF Guard
    <3>5. task' = [task EXCEPT ![x] = [task[x] EXCEPT !.pc = "discover", !.ev.fin = TRUE]]
      BY <1>2, <2>1 DEF Guard
    <3> QED BY <1>2, <3>1, <3>2, <3>3, <3>4, <3>5 DEF Guard
  <2>2. CASE sync[x] # task[x].ev
    BY <1>2, <2>2, DoneTask DEF Guard
  <2> QED BY <2>1, <2>2
<1>3. CASE DiscoverFails(x) \/ StaysRegistered(x)
  BY <1>3, DoneTask DEF DiscoverFails, StaysRegistered
<1>4. CASE BeginAdd(x)
  BY <1>4, GotoTask DEF BeginAdd, TaskPc
<1>5. CASE Purge(x) \/ Clean(x)
  BY <1>5, GotoTask DEF Purge, Clean, TaskPc
<1>6. CASE Lookup(x)
  <2>1. AfterLookup(Kind(x)) \in {"release", "letgo", "idle"}
    BY DEF AfterLookup
  <2>2. CASE AfterLookup(Kind(x)) = "idle"
    BY <1>6, <2>2, DoneTask DEF Lookup
  <2>3. CASE AfterLookup(Kind(x)) # "idle"
    BY <1>6, <2>1, <2>3, GotoTask DEF Lookup, TaskPc
  <2> QED BY <2>2, <2>3
<1>7. CASE ReleaseSource(x)
  <2>1. Goto(x, "letgo")
    BY <1>7 DEF ReleaseSource
  <2>2. obj' \in [Targets -> Source]
    BY <1>7 DEF ReleaseSource, Stripped, Gone, Source
  <2> QED BY <1>7, <2>1, <2>2, GotoTask DEF ReleaseSource, TaskPc
<1>8. CASE LetGo(x)
  <2>1. [sync[x] EXCEPT !.st = "absent", !.fin = FALSE] \in SyncObject
    BY DEF SyncObject
  <2>2. sync' = [sync EXCEPT ![x] = [sync[x] EXCEPT !.st = "absent", !.fin = FALSE]]
    BY <1>8 DEF LetGo
  <2> QED BY <1>8, <2>1, <2>2, DoneTask DEF LetGo
<1> QED BY <1>1, <1>2, <1>3, <1>4, <1>5, <1>6, <1>7, <1>8

\* Steps of the reconciliation of x that register or deregister it.
LEMMA RegistryTyped ==
    ASSUME RegistrationTypeOK, NEW x \in Syncs,
           \/ BeginMove(x) \/ Add(x) \/ TakeReload(x) \/ Registered(x) \/ Remove(x)
           \/ CallFails(x)
    PROVE  RegistrationTypeOK'
<1> USE DEF RegistrationTypeOK, At, registry, cluster
<1>0. inst[x] \in SUBSET Targets /\ task[x].active \in SUBSET Targets
      /\ task[x].ev.target \in Targets
  BY DEF Task, SyncObject
<1>1. CASE BeginMove(x)
  BY <1>0, <1>1 DEF BeginMove, Task, TaskPc
<1>2. CASE Add(x)
  <2>1. Goto(x, "register")
    BY <1>2 DEF Add
  <2>2. running' \subseteq Gvks
    BY <1>0, <1>2, GvkOfTarget DEF Add, Kind
  <2> QED BY <1>0, <1>2, <2>1, <2>2, GotoTask DEF Add, TaskPc
<1>3. CASE TakeReload(x)
  BY <1>3 DEF TakeReload
<1>4. CASE Registered(x)
  BY <1>0, <1>4, DoneTask, DropTypes DEF Registered
<1>5. CASE Remove(x)
  <2>1. Goto(x, "clean")
    BY <1>5 DEF Remove
  <2> QED BY <1>0, <1>5, <2>1, GotoTask, DropTypes DEF Remove, TaskPc
<1>6. CASE CallFails(x)
  <2>1. faults' \in 0..MaxFaults
    BY <1>6, RegistrationAssumption DEF CallFails, Fault, RegistrationAssumption
  <2> QED BY <1>0, <1>6, <2>1, DoneTask, DropTypes DEF CallFails
<1> QED BY <1>1, <1>2, <1>3, <1>4, <1>5, <1>6

\* Resource controllers, users and crashes.
LEMMA OthersTyped ==
    ASSUME RegistrationTypeOK,
           \/ \E t \in Targets : WorkerStep(t) \/ WorkerFails(t)
           \/ \E g \in Gvks : Sleep(g) \/ Wake(g)
           \/ Crash \/ User \/ UNCHANGED regVars
    PROVE  RegistrationTypeOK'
<1> USE DEF RegistrationTypeOK, At, registry, cluster
<1>1. ASSUME NEW t \in Targets, WorkerStep(t) \/ WorkerFails(t)
      PROVE  RegistrationTypeOK'
  <2>1. CASE Visit(t)
    BY <2>1 DEF Visit, Decision
  <2>2. CASE WorkerGuard(t)
    BY <2>2 DEF WorkerGuard, Source
  <2>3. CASE WorkerRelease(t)
    BY <2>3 DEF WorkerRelease, Stripped, Gone, Source
  <2>4. CASE WorkerFails(t)
    BY <2>4, RegistrationAssumption DEF WorkerFails, Fault, RegistrationAssumption
  <2> QED BY <1>1, <2>1, <2>2, <2>3, <2>4 DEF WorkerStep
<1>2. CASE Crash
  BY <1>2, NoTaskType, RegistrationAssumption DEF Crash, Fault, RegistrationAssumption
<1>3. CASE User
  <2>1. ASSUME NEW x \in Syncs, EditTarget(x) \/ DeleteSync(x) \/ CreateSync(x)
        PROVE  RegistrationTypeOK'
    <3>1. edits' \in 0..MaxEdits
      BY <2>1, RegistrationAssumption
         DEF EditTarget, DeleteSync, CreateSync, Edit, RegistrationAssumption
    <3>2. \E o \in SyncObject : sync' = [sync EXCEPT ![x] = o]
      <4>1. sync[x] \in SyncObject
        OBVIOUS
      <4>2. CASE EditTarget(x)
        BY <4>1, <4>2 DEF EditTarget, SyncObject
      <4>3. CASE DeleteSync(x)
        BY <4>1, <4>3 DEF DeleteSync, SyncObject
      <4>4. CASE CreateSync(x)
        BY <4>1, <4>4 DEF CreateSync, SyncObject
      <4> QED BY <2>1, <4>2, <4>3, <4>4
    <3> QED BY <2>1, <3>1, <3>2 DEF EditTarget, DeleteSync, CreateSync
  <2>2. ASSUME NEW t \in Targets, DeleteSource(t) \/ CreateSource(t)
        PROVE  RegistrationTypeOK'
    <3>1. edits' \in 0..MaxEdits
      BY <2>2, RegistrationAssumption DEF DeleteSource, CreateSource, Edit, RegistrationAssumption
    <3>2. obj' \in [Targets -> Source]
      <4>1. obj[t] \in Source
        OBVIOUS
      <4>2. CASE DeleteSource(t)
        BY <4>1, <4>2 DEF DeleteSource, Source, Gone
      <4>3. CASE CreateSource(t)
        <5>1. [obj[t] EXCEPT !.st = "live"] \in Source
          BY <4>1 DEF Source
        <5> QED BY <4>3, <5>1 DEF CreateSource
      <4> QED BY <2>2, <4>2, <4>3
    <3> QED BY <2>2, <3>1, <3>2 DEF DeleteSource, CreateSource
  <2>3. ASSUME NEW g \in Gvks, InstallKind(g) \/ RemoveKind(g)
        PROVE  RegistrationTypeOK'
    BY <2>3, RegistrationAssumption DEF InstallKind, RemoveKind, Edit, RegistrationAssumption
  <2> QED BY <1>3, <2>1, <2>2, <2>3 DEF User
<1>4. ASSUME NEW g \in Gvks, Sleep(g) \/ Wake(g)
      PROVE  RegistrationTypeOK'
  BY <1>4, RegistrationAssumption DEF Sleep, Wake, Polled, Fault, RegistrationAssumption
<1>5. CASE UNCHANGED regVars
  BY <1>5 DEF regVars
<1> QED BY <1>1, <1>2, <1>3, <1>4, <1>5

\* No interleaving, failure or restart leaves the types.
THEOREM RegistrationTyped == Spec => []RegistrationTypeOK
<1>1. RegistrationTypeOK /\ [Next]_regVars => RegistrationTypeOK'
  BY PlainTyped, RegistryTyped, OthersTyped DEF Next, TaskStep
<1> QED BY <1>1, RegistrationInitTyped, PTL DEF Spec

---------------------------------------------------------------------------
(* The registrations.                                                      *)

\* The other ObjectSyncs keep their handles when only x moves.
LEMMA OtherHandles ==
    ASSUME NEW x \in Syncs,
           \A y \in Syncs \ {x} : inst'[y] = inst[y] /\ task'[y] = task[y]
    PROVE  \A y \in Syncs \ {x} : Handles(y)' = Handles(y)
  BY DEF Handles, At

\* A reconciliation that is neither before nor after it in the middle of a
\* registration has the handle of its instance only.
LEMMA PlainHandles ==
    ASSUME OneHandle, NEW x \in Syncs, ~Moving(x)
    PROVE  Handles(x) = inst[x]
  BY DEF OneHandle, Handles, Moving, At

\* The invariant about x and the one about the others.
LEMMA OneHandleStep ==
    ASSUME OneHandle, NEW x \in Syncs,
           \A y \in Syncs \ {x} : inst'[y] = inst[y] /\ task'[y] = task[y],
           \A t, u \in inst'[x] : t = u,
           \A t, u \in task'[x].active : t = u,
           Moving(x)' => inst'[x] = {} /\ task'[x].ev.target \notin task'[x].active,
           ~Moving(x)' => task'[x].active = {}
    PROVE  OneHandle'
<1> SUFFICES ASSUME NEW y \in Syncs
             PROVE  /\ \A t, u \in inst'[y] : t = u
                    /\ \A t, u \in task'[y].active : t = u
                    /\ Moving(y)' => inst'[y] = {} /\ task'[y].ev.target \notin task'[y].active
                    /\ ~Moving(y)' => task'[y].active = {}
  BY DEF OneHandle
<1>1. CASE y = x
  BY <1>1
<1>2. CASE y # x
  BY <1>2 DEF OneHandle, Moving
<1> QED BY <1>1, <1>2

\* At the start nobody is registered.
LEMMA RegInvInit == Init => RegInv
  BY DEF Init, RegInv, RegistrationsMatch, OneHandle, Handles, Moving, At, NoTask, NoEvent

\* Steps of a reconciliation that end or advance it outside a registration.
LEMMA PlainMatches ==
    ASSUME RegistrationTypeOK, RegInv, NEW x \in Syncs,
           \/ Start(x) \/ Guard(x) \/ DiscoverFails(x) \/ StaysRegistered(x)
           \/ Clean(x) \/ Lookup(x) \/ ReleaseSource(x) \/ LetGo(x)
    PROVE  RegInv'
<1> USE DEF RegistrationTypeOK, At, registry, cluster
<1>1. ~Moving(x) /\ task[x].active = {}
  BY DEF RegInv, OneHandle, Moving, Start, Guard, DiscoverFails, StaysRegistered, Clean, Lookup,
         ReleaseSource, LetGo
<1>2. /\ \A y \in Syncs \ {x} : task'[y] = task[y]
      /\ task'[x].active = {} /\ ~Moving(x)'
  <2>1. CASE Start(x)
    BY <1>1, <2>1 DEF Start, Moving, Task
  <2>2. CASE Guard(x)
    <3>1. CASE sync[x] = task[x].ev
      BY <1>1, <2>2, <3>1 DEF Guard, Moving, Task
    <3>2. CASE sync[x] # task[x].ev
      BY <2>2, <3>2, DoneTask DEF Guard, Moving, NoTask
    <3> QED BY <3>1, <3>2
  <2>3. CASE DiscoverFails(x) \/ StaysRegistered(x) \/ LetGo(x)
    BY <2>3, DoneTask DEF DiscoverFails, StaysRegistered, LetGo, Moving, NoTask
  <2>4. CASE Clean(x) \/ ReleaseSource(x)
    BY <1>1, <2>4, GotoTask DEF Clean, ReleaseSource, Moving, TaskPc
  <2>5. CASE Lookup(x)
    <3>1. AfterLookup(Kind(x)) \in {"release", "letgo", "idle"}
      BY DEF AfterLookup
    <3>2. CASE AfterLookup(Kind(x)) = "idle"
      BY <2>5, <3>2, DoneTask DEF Lookup, Moving, NoTask
    <3>3. CASE AfterLookup(Kind(x)) # "idle"
      BY <1>1, <2>5, <3>1, <3>3, GotoTask DEF Lookup, Moving, TaskPc
    <3> QED BY <3>2, <3>3
  <2> QED BY <2>1, <2>2, <2>3, <2>4, <2>5
<1>3. inst' = inst /\ sources' = sources /\ running' = running
  BY DEF Start, Guard, DiscoverFails, StaysRegistered, Clean, Lookup, ReleaseSource, LetGo
<1>4. OneHandle'
  BY <1>2, <1>3, OneHandleStep DEF RegInv, OneHandle
<1>5. \A y \in Syncs : Handles(y)' = Handles(y)
  <2>1. Handles(x) = inst[x]
    BY <1>1, PlainHandles DEF RegInv
  <2>2. Handles(x)' = inst'[x]
    BY <1>2 DEF Handles, Moving
  <2> QED BY <1>2, <1>3, <2>1, <2>2, OtherHandles
<1> QED BY <1>3, <1>4, <1>5, SameHandles DEF RegInv

\* Registering, moving and deregistering.
LEMMA RegistryMatches ==
    ASSUME RegistrationTypeOK, RegInv, NEW x \in Syncs,
           \/ BeginAdd(x) \/ BeginMove(x) \/ Purge(x) \/ Add(x) \/ Registered(x) \/ Remove(x)
           \/ CallFails(x)
    PROVE  RegInv'
<1> USE DEF RegistrationTypeOK, At, registry, cluster, RegInv
<1>0. inst[x] \in SUBSET Targets /\ task[x].active \in SUBSET Targets
      /\ task[x].ev.target \in Targets
  BY DEF Task, SyncObject
<1>1. CASE BeginAdd(x)
  <2>1. /\ task'[x].pc = "add" /\ task'[x].active = {} /\ inst' = inst /\ inst[x] = {}
        /\ \A y \in Syncs \ {x} : task'[y] = task[y]
    BY <1>1, GotoTask DEF BeginAdd, TaskPc, OneHandle, Moving
  <2>2. OneHandle'
    BY <2>1, OneHandleStep DEF Moving
  <2>3. Handles(x)' = {} /\ Handles(x) = {}
    BY <1>1, <2>1 DEF Handles, OneHandle, Moving, BeginAdd
  <2> QED BY <1>1, <2>1, <2>2, <2>3, OtherHandles, SameHandles DEF BeginAdd
<1>2. CASE BeginMove(x)
  <2>1. /\ task'[x].pc = "purge" /\ task'[x].active = inst[x] /\ task'[x].ev = task[x].ev
        /\ inst'[x] = {}
        /\ \A y \in Syncs \ {x} : inst'[y] = inst[y] /\ task'[y] = task[y]
    BY <1>2 DEF BeginMove, Task
  <2>2. task[x].active = {} /\ task[x].ev.target \notin inst[x]
    BY <1>2 DEF BeginMove, OneHandle, Moving, SourceChanged
  <2>3. OneHandle'
    BY <2>1, <2>2, OneHandleStep DEF Moving, OneHandle
  <2>4. Handles(x)' = Handles(x)
    BY <1>2, <2>1, <2>2 DEF Handles, BeginMove
  <2> QED BY <1>2, <2>1, <2>3, <2>4, OtherHandles, SameHandles DEF BeginMove
<1>3. CASE Purge(x)
  <2>1. /\ task'[x].pc = "add" /\ task'[x].active = task[x].active
        /\ task'[x].ev = task[x].ev /\ inst' = inst
        /\ \A y \in Syncs \ {x} : task'[y] = task[y]
    BY <1>3, GotoTask DEF Purge, TaskPc
  <2>2. OneHandle'
    BY <1>3, <2>1, OneHandleStep DEF Moving, OneHandle, Purge
  <2>3. Handles(x)' = Handles(x)
    BY <1>3, <2>1 DEF Handles, Purge
  <2> QED BY <1>3, <2>1, <2>2, <2>3, OtherHandles, SameHandles DEF Purge
<1>4. CASE Add(x)
  <2> DEFINE target == task[x].ev.target
  <2>1. /\ task'[x].pc = "register" /\ task'[x].active = task[x].active
        /\ task'[x].ev = task[x].ev /\ inst' = inst
        /\ \A y \in Syncs \ {x} : task'[y] = task[y]
    BY <1>4, GotoTask DEF Add, TaskPc
  <2>2. OneHandle'
    BY <1>4, <2>1, OneHandleStep DEF Moving, OneHandle, Add
  <2>3. Handles(x)' = Handles(x) \cup {target}
    BY <1>4, <2>1 DEF Handles, Add
  <2>4. \A y \in Syncs \ {x} : Handles(y)' = Handles(y)
    BY <2>1, OtherHandles
  <2>5. sources' = [sources EXCEPT ![target] = @ \cup {x}] /\ running' = running \cup {target.gvk}
    BY <1>4 DEF Add, Kind
  <2>6. ASSUME NEW t \in Targets
        PROVE  /\ sources'[t] = {y \in Syncs : t \in Handles(y)'}
               /\ sources'[t] # {} => t.gvk \in running'
    <3>1. sources[t] = {y \in Syncs : t \in Handles(y)} /\ (sources[t] # {} => t.gvk \in running)
      BY DEF RegistrationsMatch
    <3>2. CASE t = target
      BY <2>3, <2>4, <2>5, <3>1, <3>2
    <3>3. CASE t # target
      BY <2>3, <2>4, <2>5, <3>1, <3>3
    <3> QED BY <3>2, <3>3
  <2>7. RegistrationsMatch'
    BY <2>6 DEF RegistrationsMatch
  <2> QED BY <2>2, <2>7
<1>5. CASE Registered(x)
  <2>1. /\ task'[x] = NoTask /\ inst'[x] = {task[x].ev.target}
        /\ \A y \in Syncs \ {x} : inst'[y] = inst[y] /\ task'[y] = task[y]
    BY <1>5, DoneTask DEF Registered
  <2>2. OneHandle'
    BY <2>1, OneHandleStep DEF Moving, NoTask
  <2>3. /\ Handles(x)' = {task[x].ev.target}
        /\ Handles(x) = {task[x].ev.target} \cup task[x].active
        /\ task[x].ev.target \notin task[x].active
        /\ \A t, u \in task[x].active : t = u
    BY <1>5, <2>1 DEF Handles, OneHandle, Moving, NoTask, Registered
  <2>4. \A y \in Syncs \ {x} : Handles(y)' = Handles(y)
    BY <2>1, OtherHandles
  <2>5. RegistrationsMatch'
    BY <1>0, <1>5, <2>3, <2>4, DropMatches DEF Registered
  <2> QED BY <2>2, <2>5
<1>6. CASE Remove(x)
  <2>1. /\ task'[x].pc = "clean" /\ task'[x].active = task[x].active /\ inst'[x] = {}
        /\ \A y \in Syncs \ {x} : inst'[y] = inst[y] /\ task'[y] = task[y]
    BY <1>6, GotoTask DEF Remove, TaskPc
  <2>2. task[x].active = {} /\ \A t, u \in inst[x] : t = u
    BY <1>6 DEF Remove, OneHandle, Moving
  <2>3. OneHandle'
    BY <2>1, <2>2, OneHandleStep DEF Moving
  <2>4. Handles(x)' = {} /\ Handles(x) = inst[x]
    BY <1>6, <2>1, <2>2 DEF Handles, Remove
  <2>5. \A y \in Syncs \ {x} : Handles(y)' = Handles(y)
    BY <2>1, OtherHandles
  <2>6. RegistrationsMatch'
    BY <1>0, <1>6, <2>2, <2>4, <2>5, DropMatches DEF Remove
  <2> QED BY <2>3, <2>6
<1>7. CASE CallFails(x)
  <2>1. /\ task'[x] = NoTask /\ inst' = inst /\ task[x].pc \notin {"register", "add"}
        /\ \A y \in Syncs \ {x} : task'[y] = task[y]
    BY <1>7, DoneTask DEF CallFails
  <2>2. OneHandle'
    BY <2>1, OneHandleStep DEF Moving, NoTask, OneHandle
  <2>3. /\ Handles(x)' = inst[x]
        /\ Handles(x) = inst[x] \cup task[x].active
        /\ inst[x] \cap task[x].active = {}
        /\ \A t, u \in task[x].active : t = u
    BY <2>1 DEF Handles, OneHandle, Moving, NoTask
  <2>4. \A y \in Syncs \ {x} : Handles(y)' = Handles(y)
    BY <2>1, OtherHandles
  <2>5. RegistrationsMatch'
    BY <1>0, <1>7, <2>3, <2>4, DropMatches DEF CallFails
  <2> QED BY <2>2, <2>5
<1> QED BY <1>1, <1>2, <1>3, <1>4, <1>5, <1>6, <1>7

\* The rest changes no handle, but for a crash, which loses them all with
\* the maps.
LEMMA OthersMatch ==
    ASSUME RegInv,
           \/ \E x \in Syncs : TakeReload(x)
           \/ \E t \in Targets : WorkerStep(t) \/ WorkerFails(t)
           \/ \E g \in Gvks : Sleep(g) \/ Wake(g)
           \/ Crash \/ User \/ UNCHANGED regVars
    PROVE  RegInv'
<1>1. CASE Crash
  BY <1>1 DEF Crash, RegInv, RegistrationsMatch, OneHandle, Handles, Moving, At, NoTask, NoEvent
<1>2. CASE ~Crash
  <2>1. UNCHANGED <<inst, task, sources, running>>
    BY <1>2 DEF TakeReload, WorkerStep, Visit, WorkerGuard, WorkerRelease, WorkerFails, Sleep,
                Wake, User,
                EditTarget, DeleteSync, CreateSync, DeleteSource, CreateSource, InstallKind,
                RemoveKind, registry, regVars
  <2> QED BY <2>1 DEF RegInv, RegistrationsMatch, OneHandle, Handles, Moving, At
<1> QED BY <1>1, <1>2

\* Together with the types the invariant is inductive.
THEOREM RegistrationsHold == Spec => []RegInv
<1>1. RegistrationTypeOK /\ RegInv /\ [Next]_regVars => RegInv'
  BY PlainMatches, RegistryMatches, OthersMatch DEF Next, TaskStep
<1> QED BY <1>1, RegInvInit, RegistrationTyped, PTL DEF Spec

\* Nobody is dropped from a sources map or left behind in it, and whoever
\* is in it is served, whatever moves, fails or restarts.
THEOREM RegistrationsAlwaysMatch == Spec => []RegistrationsMatch
<1>1. RegInv => RegistrationsMatch
  BY DEF RegInv
<1> QED BY <1>1, RegistrationsHold, PTL
============================================================================
