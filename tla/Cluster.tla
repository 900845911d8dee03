------------------------------ MODULE Cluster ------------------------------
(***************************************************************************)
(* The Kubernetes API server as the object syncer uses it, and the users   *)
(* who edit objects behind the controllers' back.  There is one source     *)
(* object; several ObjectSync objects refer to it, and each of them names  *)
(* its copies differently (`destinations[].name`), so that dst[x][n] is    *)
(* the one copy made for ObjectSync x in target namespace n.               *)
(*                                                                         *)
(* Objects carry what the controllers look at: whether they exist or are   *)
(* terminating, whether they hold the syncer's finalizer, the revision     *)
(* (uid and resourceVersion, compared for equality only) and the content.  *)
(***************************************************************************)
EXTENDS Naturals, FiniteSets

CONSTANTS
    Syncs,        \* the ObjectSync objects
    Namespaces,   \* the target namespaces
    Kinds,        \* bound: the kinds of objects users edit
    MaxEdits,     \* bound: how many edits users make
    MaxFaults     \* bound: how many API calls fail or crashes happen

ASSUME BoundsAssumption ==
    /\ Kinds \subseteq {"source", "copy", "sync", "namespace"}
    /\ MaxEdits \in Nat /\ MaxFaults \in Nat

VARIABLES
    src,     \* the source object
    dst,     \* dst[x][n]: the copy of the source for ObjectSync x in namespace n
    sync,    \* sync[x]: the ObjectSync object x with its status sub-resource
    ns,      \* ns[n]: phase of namespace n
    edits,   \* number of edits made by users so far
    faults   \* number of faults so far

clusterVars == <<src, dst, sync, ns, edits, faults>>

---------------------------------------------------------------------------
(* Objects.  "term" is an existing object with a deletionTimestamp.        *)

Phase == {"absent", "live", "term"}
NsPhase == {"absent", "active", "term"}
ConditionStatus == {"None", "True", "False"}

Object == [st : Phase, fin : BOOLEAN, rv : Nat, data : Nat]

\* Contents: what a user wrote over a copy, an object without content, and
\* the first content of the source; later contents of the source count up.
Drifted == 0
Empty == 1
First == 2

\* Status sub-resource of an ObjectSync.  listed: `destinations` is present;
\* dest: the namespaces listed in it; sv, dv: sourceVersion and syncedVersion
\* of the entry (0 is None); insync, ready: status of the two conditions.
Status == [listed : BOOLEAN, dest : SUBSET Namespaces,
           sv : [Namespaces -> Nat], dv : [Namespaces -> Nat],
           insync : ConditionStatus, ready : ConditionStatus]

\* want: the namespaces spec.destinations selects (all of them for "*").
SyncObject == [st : Phase, fin : BOOLEAN, rv : Nat,
               want : SUBSET Namespaces, status : Status]

NoStatus == [listed |-> FALSE, dest |-> {}, sv |-> [n \in Namespaces |-> 0],
             dv |-> [n \in Namespaces |-> 0], insync |-> "None", ready |-> "None"]

Exists(o) == o.st # "absent"

\* What is left of object o once the API server has removed it.
Gone(o) == [o EXCEPT !.st = "absent", !.fin = FALSE, !.rv = @ + 1, !.data = Empty]

\* DELETE: an object with a finalizer is only marked for deletion.
Deleted(o) ==
    CASE o.st = "live" /\ o.fin  -> [o EXCEPT !.st = "term", !.rv = @ + 1]
      [] o.st = "live" /\ ~o.fin -> Gone(o)
      [] OTHER -> o

\* The object after its last finalizer was removed.
WithoutFinalizer(o) ==
    IF o.st = "term" THEN Gone(o) ELSE [o EXCEPT !.fin = FALSE, !.rv = @ + 1]

\* The JSON patch that removes the finalizer of whatever object has the name
\* now; it is refused (or finds nothing) when there is none to remove.
Stripped(o) == IF o.fin THEN WithoutFinalizer(o) ELSE o

Created(o, content) ==
    [o EXCEPT !.st = "live", !.fin = TRUE, !.rv = @ + 1, !.data = content]

\* A PUT or a server-side apply that changes nothing keeps the revision.
Updated(o, content) ==
    IF o.fin /\ o.data = content
    THEN o
    ELSE [o EXCEPT !.fin = TRUE, !.rv = @ + 1, !.data = content]

StatusReplaced(o, s) ==
    IF o.status = s THEN o ELSE [o EXCEPT !.status = s, !.rv = @ + 1]

\* Operations on the in-memory status before it is written.
Track(s, D) ==
    [s EXCEPT !.listed = TRUE, !.dest = D,
              !.sv = [n \in Namespaces |-> IF n \in D \cap s.dest THEN s.sv[n] ELSE 0],
              !.dv = [n \in Namespaces |-> IF n \in D \cap s.dest THEN s.dv[n] ELSE 0]]

\* An API call fails for a reason the caller cannot influence (time-out,
\* throttling, webhook, conflict between the two calls of a write) or the
\* process dies.
Fault == faults < MaxFaults /\ faults' = faults + 1

---------------------------------------------------------------------------
(* The users.                                                              *)

Edit(kind) == kind \in Kinds /\ edits < MaxEdits /\ edits' = edits + 1

EditSource ==
    /\ Edit("source") /\ src.st = "live"
    /\ src' = [src EXCEPT !.rv = @ + 1, !.data = IF @ < First THEN First ELSE @ + 1]
    /\ UNCHANGED <<dst, sync, ns, faults>>

DeleteSource ==
    /\ Edit("source") /\ src.st = "live"
    /\ src' = Deleted(src)
    /\ UNCHANGED <<dst, sync, ns, faults>>

CreateSource ==
    /\ Edit("source") /\ src.st = "absent"
    /\ src' = [src EXCEPT !.st = "live", !.rv = @ + 1, !.data = First]
    /\ UNCHANGED <<dst, sync, ns, faults>>

\* An edit of spec.destinations.
EditWant(x) ==
    /\ Edit("sync") /\ sync[x].st = "live"
    /\ \E W \in SUBSET Namespaces \ {sync[x].want} :
          sync' = [sync EXCEPT ![x].want = W, ![x].rv = @ + 1]
    /\ UNCHANGED <<src, dst, ns, faults>>

\* The content of a copy is overwritten by another client.
DriftCopy(x, n) ==
    /\ Edit("copy") /\ dst[x][n].st = "live"
    /\ dst' = [dst EXCEPT ![x][n].data = Drifted, ![x][n].rv = @ + 1]
    /\ UNCHANGED <<src, sync, ns, faults>>

DeleteCopy(x, n) ==
    /\ Edit("copy") /\ dst[x][n].st = "live"
    /\ dst' = [dst EXCEPT ![x][n] = Deleted(@)]
    /\ UNCHANGED <<src, sync, ns, faults>>

DeleteNamespace(n) ==
    /\ Edit("namespace") /\ ns[n] = "active"
    /\ ns' = [ns EXCEPT ![n] = "term"]
    /\ UNCHANGED <<src, dst, sync, faults>>

CreateNamespace(n) ==
    /\ Edit("namespace") /\ ns[n] = "absent"
    /\ ns' = [ns EXCEPT ![n] = "active"]
    /\ UNCHANGED <<src, dst, sync, faults>>

\* An ObjectSync is deleted; its name is not used again.
DeleteSync(x) ==
    /\ Edit("sync") /\ sync[x].st = "live"
    /\ sync' = [sync EXCEPT ![x].st = IF sync[x].fin THEN "term" ELSE "absent",
                           ![x].rv = @ + 1]
    /\ UNCHANGED <<src, dst, ns, faults>>

UserOnCopies ==
    \/ EditSource \/ DeleteSource \/ CreateSource
    \/ \E x \in Syncs : EditWant(x)
    \/ \E x \in Syncs, n \in Namespaces : DriftCopy(x, n) \/ DeleteCopy(x, n)
    \/ \E n \in Namespaces : DeleteNamespace(n) \/ CreateNamespace(n)

---------------------------------------------------------------------------
(* The namespace controller of Kubernetes: it deletes the content of a     *)
(* terminating namespace and removes the namespace once it is empty.       *)

EmptyNamespace(n) ==
    /\ ns[n] = "term"
    /\ \E x \in Syncs : dst[x][n].st = "live"
    /\ dst' = [x \in Syncs |-> [dst[x] EXCEPT ![n] = Deleted(@)]]
    /\ UNCHANGED <<src, sync, ns, edits, faults>>

RemoveNamespace(n) ==
    /\ ns[n] = "term"
    /\ \A x \in Syncs : ~Exists(dst[x][n])
    /\ ns' = [ns EXCEPT ![n] = "absent"]
    /\ UNCHANGED <<src, dst, sync, edits, faults>>

NamespaceController == \E n \in Namespaces : EmptyNamespace(n) \/ RemoveNamespace(n)

---------------------------------------------------------------------------
\* The source exists, nothing has been copied yet; the ObjectSync objects
\* hold the syncer's finalizer iff `guarded`.
ClusterInit(guarded) ==
    /\ src = [st |-> "live", fin |-> FALSE, rv |-> 1, data |-> First]
    /\ dst = [x \in Syncs |-> [n \in Namespaces |->
                [st |-> "absent", fin |-> FALSE, rv |-> 0, data |-> Empty]]]
    /\ \E want \in [Syncs -> SUBSET Namespaces] :
          sync = [x \in Syncs |-> [st |-> "live", fin |-> guarded, rv |-> 1,
                                   want |-> want[x], status |-> NoStatus]]
    /\ ns = [n \in Namespaces |-> "active"]
    /\ edits = 0
    /\ faults = 0

ClusterTypeOK ==
    /\ src \in Object
    /\ dst \in [Syncs -> [Namespaces -> Object]]
    /\ sync \in [Syncs -> SyncObject]
    /\ ns \in [Namespaces -> NsPhase]
    /\ edits \in 0..MaxEdits
    /\ faults \in 0..MaxFaults
============================================================================
