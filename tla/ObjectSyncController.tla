------------------------ MODULE ObjectSyncController ------------------------
(***************************************************************************)
(* The main controller: it reconciles every ObjectSync, registers it with  *)
(* the resource controller, reports it Ready, and cleans up when it is     *)
(* deleted.  Several ObjectSyncs are reconciled concurrently, each by one  *)
(* task at a time.  All of them share the resource controller of the one   *)
(* source; dropping the last registration aborts it.                       *)
(***************************************************************************)
EXTENDS ResourceController

VARIABLES
    syncCache,  \* the ObjectSyncs as the watch last reported them
    due,        \* the ObjectSyncs with a watch event not yet reconciled
    o           \* o[x]: local variables of the reconciliation of ObjectSync x

oscVars == <<syncCache, due, o>>
oscMemory == <<syncCache, due>>
allVars == <<vars, oscVars>>

OscPc == {"idle", "guard", "guardpatch", "discover", "ready", "failed",
          "deregister", "purge", "strip", "destroy",
          "source", "sourcepatch", "finalizer", "finalizerpatch"}

\* ev is the event's `modified`, orig the status of its `original`.
OscWorker == [
    pc : OscPc,
    ev : SyncObject,
    orig : Status,
    todo : SUBSET Namespaces,
    at : SUBSET Namespaces,
    kept : SUBSET Namespaces]

NoSync == [st |-> "absent", fin |-> FALSE, rv |-> 0, want |-> {}, status |-> NoStatus]

OscIdle == [pc |-> "idle", ev |-> NoSync, orig |-> NoStatus,
            todo |-> {}, at |-> {}, kept |-> {}]

At(x, pc) == o[x].pc = pc

Goto(x, pc) == o' = [o EXCEPT ![x].pc = pc]

\* The reconciliation ends, with or without an error: it is requeued.
End(x) == o' = [o EXCEPT ![x] = OscIdle]

---------------------------------------------------------------------------
\* Fault seeded: an ObjectSync is registered without its finalizer.
BranchUnguarded(ev) == IF ev.st = "term" THEN "deregister" ELSE "discover"

\* Fault seeded: the deletion of an ObjectSync goes unnoticed.
BranchUndeleted(ev) == IF ev.fin THEN "discover" ELSE "guard"

\* A deleted ObjectSync is cleaned up, any other is checked.
Branch(ev) ==
    IF ev.st = "term" THEN "deregister" ELSE IF ev.fin THEN "discover" ELSE "guard"

\* reconcile runs on a watch event, or on a requeue (30 s after an error,
\* 3600 s after a success), by which time the watch is taken to have caught
\* up.
OscStart(x) ==
    /\ At(x, "idle") /\ Exists(syncCache[x])
    /\ x \in due \/ syncCache[x] = sync[x]
    /\ due' = due \ {x}
    /\ o' = [o EXCEPT ![x] = [OscIdle EXCEPT
                !.pc = Branch(syncCache[x]), !.ev = syncCache[x], !.orig = syncCache[x].status]]
    /\ UNCHANGED <<vars, syncCache>>

---------------------------------------------------------------------------
(* check: finalizer, discovery, registration, Ready condition              *)

\* patch_spec reads the latest object and sends the difference to the one in
\* memory.  If the revisions differ the difference asks for the old one,
\* which the API server refuses; if not, it only adds the finalizer.
GuardRead(x) ==
    /\ At(x, "guard")
    /\ Goto(x, IF Exists(sync[x]) /\ sync[x].rv = o[x].ev.rv THEN "guardpatch" ELSE "failed")
    /\ UNCHANGED <<vars, oscMemory>>

\* No finalizer can be added to an object that is gone or terminating.
GuardPatch(x) ==
    /\ At(x, "guardpatch")
    /\ IF sync[x].st = "live"
       THEN LET guarded == [sync[x] EXCEPT !.fin = TRUE, !.rv = @ + 1]
            IN  /\ sync' = [sync EXCEPT ![x] = guarded]
                /\ o' = [o EXCEPT ![x].pc = "discover", ![x].ev = guarded,
                                  ![x].orig = guarded.status]
       ELSE Goto(x, "failed") /\ UNCHANGED sync
    /\ UNCHANGED <<src, dst, ns, edits, faults, rcVars, oscMemory>>

AlreadyRegistered(x) ==
    /\ At(x, "discover") /\ x \in sources
    /\ End(x)
    /\ UNCHANGED <<vars, oscMemory>>

\* add: the first registration spawns the resource controller, whose watch
\* starts from a list of the API server.
RegisterSync(x) ==
    /\ At(x, "discover") /\ x \notin sources
    /\ sources' = sources \cup {x}
    /\ srcCache' = IF sources = {} THEN src ELSE srcCache
    /\ Goto(x, "ready")
    /\ UNCHANGED <<clusterVars, nsCache, releasing, w, oscMemory>>

\* replace_status of the main controller: the whole status in memory
\* replaces the stored one, whatever it has become meanwhile.
OscStatusWritten(x, s) ==
    sync' = IF s # o[x].orig /\ Exists(sync[x])
            THEN [sync EXCEPT ![x] = StatusReplaced(@, s)] ELSE sync

OscStatusAccepted(x, s) == s = o[x].orig \/ Exists(sync[x])

WithReady(x, c) == [o[x].ev.status EXCEPT !.ready = c]

ReportReady(x) ==
    /\ At(x, "ready")
    /\ OscStatusWritten(x, WithReady(x, "True"))
    /\ IF OscStatusAccepted(x, WithReady(x, "True")) THEN End(x) ELSE Goto(x, "failed")
    /\ UNCHANGED <<src, dst, ns, edits, faults, rcVars, oscMemory>>

\* The error of check is written to the condition before it is returned.
ReportFailed(x) ==
    /\ At(x, "failed")
    /\ OscStatusWritten(x, WithReady(x, "False"))
    /\ End(x)
    /\ UNCHANGED <<src, dst, ns, edits, faults, rcVars, oscMemory>>

CheckFails(x) ==
    /\ o[x].pc \in {"guard", "guardpatch", "discover", "ready"} /\ Fault
    /\ Goto(x, "failed")
    /\ UNCHANGED <<src, dst, sync, ns, edits, rcVars, oscMemory>>

---------------------------------------------------------------------------
(* delete: deregister, delete the copies, release source and ObjectSync    *)

\* Dropping the handle deregisters; without any handle left the resource
\* controller is dropped, which aborts whatever its tasks are doing.
Deregister(x) ==
    /\ At(x, "deregister")
    /\ sources' = sources \ {x}
    /\ IF sources' = {} THEN w' = Idle /\ releasing' = {} ELSE UNCHANGED <<w, releasing>>
    /\ o' = [o EXCEPT ![x].pc = IF o[x].ev.status.listed THEN "purge" ELSE "source",
                      ![x].todo = o[x].ev.status.dest]
    /\ UNCHANGED <<clusterVars, srcCache, nsCache, oscMemory>>

OscGetStale(x, n) ==
    /\ At(x, "purge") /\ n \in o[x].todo
    /\ o' = [o EXCEPT ![x].at = {n}, ![x].pc = AfterGet(dst[x][n])]
    /\ UNCHANGED <<vars, oscMemory>>

OscStripStale(x, n) ==
    /\ At(x, "strip") /\ n \in o[x].at
    /\ dst' = [dst EXCEPT ![x][n] = Stripped(@)]
    /\ Goto(x, "destroy")
    /\ UNCHANGED <<src, sync, ns, edits, faults, rcVars, oscMemory>>

OscStripStaleFails(x) ==
    /\ At(x, "strip") /\ Fault
    /\ Goto(x, "destroy")
    /\ UNCHANGED <<src, dst, sync, ns, edits, rcVars, oscMemory>>

OscDestroyStale(x, n) ==
    /\ At(x, "destroy") /\ n \in o[x].at
    /\ dst' = [dst EXCEPT ![x][n] = Deleted(@)]
    /\ o' = [o EXCEPT ![x].pc = "purge", ![x].at = {}, ![x].todo = @ \ {n}]
    /\ UNCHANGED <<src, sync, ns, edits, faults, rcVars, oscMemory>>

OscDestroyStaleFails(x, n) ==
    /\ At(x, "destroy") /\ n \in o[x].at /\ Fault
    /\ o' = [o EXCEPT ![x].pc = "purge", ![x].at = {}, ![x].todo = @ \ {n},
                      ![x].kept = @ \cup {n}]
    /\ UNCHANGED <<src, dst, sync, ns, edits, rcVars, oscMemory>>

OscPurged(x) ==
    [Track(o[x].ev.status, o[x].kept) EXCEPT
        !.insync = IF o[x].kept = {} THEN "True" ELSE "False"]

\* Remnants stay listed and end the attempt; otherwise the event now holds
\* the object as it was written.
OscFinishPurge(x) ==
    /\ At(x, "purge") /\ o[x].todo = {}
    /\ OscStatusWritten(x, OscPurged(x))
    /\ IF OscStatusAccepted(x, OscPurged(x)) /\ o[x].kept = {}
       THEN o' = [o EXCEPT ![x].pc = "source",
                           ![x].ev = IF OscPurged(x) = o[x].orig THEN @ ELSE sync'[x],
                           ![x].orig = OscPurged(x)]
       ELSE End(x)
    /\ UNCHANGED <<src, dst, ns, edits, faults, rcVars, oscMemory>>

\* The finalizer goes even if other ObjectSyncs still refer to the source.
SourceRead(x) ==
    /\ At(x, "source")
    /\ Goto(x, IF src.fin THEN "sourcepatch" ELSE "finalizer")
    /\ UNCHANGED <<vars, oscMemory>>

SourcePatch(x) ==
    /\ At(x, "sourcepatch")
    /\ src' = Stripped(src)
    /\ IF Exists(src) /\ ~src.fin THEN End(x) ELSE Goto(x, "finalizer")
    /\ UNCHANGED <<dst, sync, ns, edits, faults, rcVars, oscMemory>>

\* patch_spec again: refused if the ObjectSync changed since it was read.
FinalizerRead(x) ==
    /\ At(x, "finalizer")
    /\ IF o[x].ev.fin /\ Exists(sync[x]) /\ sync[x].rv = o[x].ev.rv
       THEN Goto(x, "finalizerpatch") ELSE End(x)
    /\ UNCHANGED <<vars, oscMemory>>

\* The patch itself carries no revision.
FinalizerPatch(x) ==
    /\ At(x, "finalizerpatch")
    /\ sync' = IF sync[x].st = "term" /\ sync[x].fin
               THEN [sync EXCEPT ![x].st = "absent", ![x].fin = FALSE, ![x].rv = @ + 1]
               ELSE sync
    /\ End(x)
    /\ UNCHANGED <<src, dst, ns, edits, faults, rcVars, oscMemory>>

DeleteFails(x) ==
    /\ o[x].pc \in {"failed", "purge", "source", "sourcepatch", "finalizer", "finalizerpatch"}
    /\ Fault
    /\ End(x)
    /\ UNCHANGED <<src, dst, sync, ns, edits, rcVars, oscMemory>>
============================================================================
