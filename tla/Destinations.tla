---------------------------- MODULE Destinations ----------------------------
(***************************************************************************)
(* spec.destinations as what it is: a list of entries that may use the     *)
(* wildcard, rename the copy, ask for a strategy, overlap with each other  *)
(* and even select the source itself.  A reconciliation expands the list   *)
(* against the namespace cache, merges it with the list of the status,     *)
(* deletes what is stale, and writes what is outdated.  It is one step     *)
(* here, which may fail for one place or for a write of the list;          *)
(* ResourceController takes it apart for sets of destinations.             *)
(***************************************************************************)
EXTENDS Naturals, Sequences, FiniteSets, SequencesExt

CONSTANTS
    Namespaces,     \* numbers from 1, in the order of the names they stand for
    Names,          \* object names, likewise
    SourcePlace,    \* <<namespace, name>> of the source
    PlaceOrder,     \* all places, by namespace and name
    MaxEntries,     \* bound: the length of spec.destinations
    MaxEdits,       \* bound: how many edits users make
    MaxFaults       \* bound: how many reconciliations fail

Places == Namespaces \X Names

\* The order of DestinationStatus.
Before(p, q) == p[1] < q[1] \/ (p[1] = q[1] /\ p[2] < q[2])

ASSUME DestinationsAssumption ==
    /\ Namespaces \subseteq Nat \ {0} /\ Names \subseteq Nat \ {0}
    /\ IsFiniteSet(Namespaces)
    /\ SourcePlace \in Places
    /\ PlaceOrder \in Seq(Places) /\ ToSet(PlaceOrder) = Places
    /\ \A i, j \in DOMAIN PlaceOrder : i < j => Before(PlaceOrder[i], PlaceOrder[j])
    /\ MaxEntries \in Nat /\ MaxEdits \in Nat /\ MaxFaults \in Nat

VARIABLES
    spec,       \* spec.destinations
    cache,      \* the active namespaces, as the cache holds them
    version,    \* version of the source
    status,     \* status.destinations
    copy,       \* copy[p]: the object at place p, if any
    sent,       \* the last reconciliation sent a write
    passes,     \* complete reconciliations since anything happened
    edits, faults

destVars == <<spec, cache, version, status, copy, sent, passes, edits, faults>>

Wildcard == 0   \* "" or "*"
Unset == 0      \* no name, no strategy

Strategies == {"apply", "replace"}

\* Destination
Entry == [ns : Namespaces \cup {Wildcard}, name : {Unset} \cup Names, strategy : Strategies]

\* DestinationStatus; sv and dv are sourceVersion and syncedVersion, 0 for none.
Listed == [place : Places, strategy : Strategies, sv : Nat, dv : Nat]

\* by is the way it was written last, rv its revision, data the version of
\* the source it has, 0 for other content.
Object == [st : BOOLEAN, data : Nat, by : Strategies, rv : Nat]

Fault == faults < MaxFaults /\ faults' = faults + 1

PlacesOf(s) == {s[i].place : i \in DOMAIN s}

\* These lists, one after the other.
Joined(lists) ==
    LET joined[i \in Nat] ==
            IF i \notin DOMAIN lists THEN <<>> ELSE joined[i - 1] \o lists[i]
    IN  joined[Len(lists)]

\* The elements of s that are for these places, in their order.
Within(s, places) ==
    Joined([i \in DOMAIN s |-> IF s[i].place \in places THEN <<s[i]>> ELSE <<>>])

---------------------------------------------------------------------------
(* expected_destinations                                                   *)

AppliesToAllNamespaces(d) == d.ns = Wildcard

PlaceIn(d, n) == <<n, IF d.name = Unset THEN SourcePlace[2] ELSE d.name>>

\* Fault seeded: only the name is compared with that of the source.
AppliesToOthers(d, n) ==
    /\ d.ns = n \/ AppliesToAllNamespaces(d)
    /\ n # SourcePlace[1] \/ d.name # Unset

\* No destination points to the source.
AppliesTo(d, n) ==
    /\ d.ns = n \/ AppliesToAllNamespaces(d)
    /\ PlaceIn(d, n) # SourcePlace

\* One entry of the list, with the namespaces in the order the cache
\* happens to return them.
Expansion(d, order) ==
    LET applicable == {n \in Namespaces : AppliesTo(d, n)}
    IN  Within([i \in DOMAIN order |->
                    [place |-> PlaceIn(d, order[i]), strategy |-> d.strategy, sv |-> 0, dv |-> 0]],
               {PlaceIn(d, n) : n \in applicable})

ExpectedDestinations(order) ==
    Joined([i \in DOMAIN spec |-> Expansion(spec[i], order)])

---------------------------------------------------------------------------
(* reconcile_source: the merge with the status                             *)

At(s, p) == Within(s, {p})

\* Fault seeded: versions survive a change of the strategy.
InheritedAlways(e, old) == [e EXCEPT !.sv = old.sv, !.dv = old.dv]

\* The versions of an entry that was listed, unless its strategy changed.
Inherited(e, old) ==
    IF old.strategy = e.strategy THEN [e EXCEPT !.sv = old.sv, !.dv = old.dv] ELSE e

\* The first entry expected for a place inherits from the first one listed
\* for it; what is listed for no expected place is stale.
Merge(order) ==
    LET expected == ExpectedDestinations(order)
        Merged(i) ==
            LET e == expected[i]
                old == At(status, e.place)
            IN  IF old = <<>> \/ \E j \in 1..(i - 1) : expected[j].place = e.place
                THEN e ELSE Inherited(e, old[1])
    IN  [stale |-> Within(status, Places \ PlacesOf(expected)),
         expected |-> [i \in DOMAIN expected |-> Merged(i)]]

\* Fault seeded: the list is written in the order it was expanded.
Unsorted(s) == s

\* A stable sort by namespace and name.
Sorted(s) == Joined([i \in DOMAIN PlaceOrder |-> At(s, PlaceOrder[i])])

\* Fault seeded: what could not be deleted is forgotten.
NoRemnants(stale, failed) == <<>>

Remnants(stale, failed) == Within(stale, failed)

---------------------------------------------------------------------------
(* upsert_destinations                                                     *)

UpToDate(e, o) == o.st /\ e.dv = o.rv /\ e.sv = version

\* A write that changes nothing leaves the revision as it is.
Written(o, strategy) ==
    IF o.st /\ o.data = version /\ o.by = strategy THEN o
    ELSE [st |-> TRUE, data |-> version, by |-> strategy, rv |-> o.rv + 1]

UpsertEntry(acc, e) ==
    LET o == Written(acc.copy[e.place], e.strategy)
    IN  CASE e.place \in acc.skipped -> [acc EXCEPT !.list = Append(@, e)]
          [] e.place \notin acc.skipped /\ UpToDate(e, acc.copy[e.place]) ->
                [acc EXCEPT !.list = Append(@, e)]
          [] OTHER -> [acc EXCEPT !.list = Append(@, [e EXCEPT !.sv = version, !.dv = o.rv]),
                                  !.copy[e.place] = o, !.changed = TRUE]

\* skipped: remnants, and entries whose calls fail.
Upsert(list, copies, skipped) ==
    LET upserted[i \in Nat] ==
            IF i \notin DOMAIN list THEN [list |-> <<>>, copy |-> copies, skipped |-> skipped, changed |-> FALSE]
            ELSE UpsertEntry(upserted[i - 1], list[i])
    IN  upserted[Len(list)]

---------------------------------------------------------------------------
(* The reconciliation                                                      *)

Deleted(copies, places) == [p \in Places |-> IF p \in places THEN [copies[p] EXCEPT !.st = FALSE]
                                             ELSE copies[p]]

\* The orders in which the cache may return the namespaces.
Orders(S) == Bijection(1..Cardinality(S), S)

\* The list is written before any copy, and once more after copies changed.
ReconcileExcept(failed) ==
    \E order \in Orders(cache) :
        LET merge == Merge(order)
            remnants == Remnants(merge.stale, failed)
            deleted == PlacesOf(merge.stale) \ failed
            tracked == Sorted(merge.expected \o remnants)
            result == Upsert(tracked, Deleted(copy, deleted), failed)
        IN  /\ status' = result.list
            /\ copy' = result.copy
            /\ sent' = (tracked # status \/ result.changed)
            /\ UNCHANGED <<spec, cache, version, edits>>

\* Bound: a list is reconciled twice until something happens.
Reconcile ==
    /\ passes < 2
    /\ ReconcileExcept({})
    /\ passes' = passes + 1
    /\ UNCHANGED faults

ReconcileFails ==
    /\ \E p \in Places : ReconcileExcept({p})
    /\ passes' = 0
    /\ Fault

\* A stale copy cannot be loaded, or the list not be written: the stale
\* copies visited so far are gone, nothing else happens.
TrackingFails ==
    /\ \E order \in Orders(cache) :
          LET stale == Merge(order).stale
          IN  \E k \in 0..Len(stale) : copy' = Deleted(copy, PlacesOf(SubSeq(stale, 1, k)))
    /\ sent' = TRUE /\ passes' = 0 /\ Fault
    /\ UNCHANGED <<spec, cache, version, status, edits>>

\* The list cannot be written once more: the versions are lost.
FinishFails ==
    /\ \E order \in Orders(cache) :
          LET merge == Merge(order)
              tracked == Sorted(merge.expected)
              result == Upsert(tracked, Deleted(copy, PlacesOf(merge.stale)), {})
          IN  /\ result.changed \/ merge.stale # <<>>
              /\ status' = tracked
              /\ copy' = result.copy
    /\ sent' = TRUE /\ passes' = 0 /\ Fault
    /\ UNCHANGED <<spec, cache, version, edits>>

---------------------------------------------------------------------------
(* Users                                                                   *)

Edit == edits < MaxEdits /\ edits' = edits + 1 /\ passes' = 0

Specs == UNION {[1..k -> Entry] : k \in 0..MaxEntries}

\* An entry is added or removed, or its strategy is changed.
EditSpec ==
    /\ Edit
    /\ \/ /\ Len(spec) < MaxEntries
          /\ \E d \in Entry : spec' = Append(spec, d)
       \/ \E i \in DOMAIN spec : spec' = RemoveAt(spec, i)
       \/ \E i \in DOMAIN spec : \E g \in Strategies \ {spec[i].strategy} :
             spec' = [spec EXCEPT ![i].strategy = g]
    /\ UNCHANGED <<cache, version, status, copy, sent, faults>>

EditSource ==
    /\ Edit
    /\ version' = version + 1
    /\ UNCHANGED <<spec, cache, status, copy, sent, faults>>

\* A namespace appears, or is deleted.
EditNamespace ==
    /\ Edit
    /\ \E n \in Namespaces : cache' = IF n \in cache THEN cache \ {n} ELSE cache \cup {n}
    /\ UNCHANGED <<spec, version, status, copy, sent, faults>>

DriftCopy(p) ==
    /\ Edit /\ copy[p].st
    /\ copy' \in {[copy EXCEPT ![p].data = 0, ![p].rv = @ + 1], [copy EXCEPT ![p].st = FALSE]}
    /\ UNCHANGED <<spec, cache, version, status, sent, faults>>

NoObject == [st |-> FALSE, data |-> 0, by |-> "apply", rv |-> 0]

Init ==
    /\ spec \in Specs
    /\ cache \in SUBSET Namespaces
    /\ version = 1 /\ status = <<>>
    /\ copy = [p \in Places |-> NoObject]
    /\ sent = FALSE /\ passes = 0 /\ edits = 0 /\ faults = 0

Next ==
    \/ Reconcile \/ ReconcileFails \/ TrackingFails \/ FinishFails
    \/ EditSpec \/ EditSource \/ EditNamespace
    \/ \E p \in Places : DriftCopy(p)

Spec == Init /\ [][Next]_destVars

---------------------------------------------------------------------------
InOrder(s) == \A i, j \in DOMAIN s : i < j => ~Before(s[j].place, s[i].place)

\* Types; the list in the status is sorted.
DestinationsTypeOK ==
    /\ spec \in Seq(Entry) /\ Len(spec) <= MaxEntries
    /\ cache \subseteq Namespaces
    /\ version \in 1..(edits + 1)
    /\ status \in Seq(Listed) /\ InOrder(status)
    /\ copy \in [Places -> Object]
    /\ sent \in BOOLEAN /\ passes \in 0..2
    /\ edits \in 0..MaxEdits /\ faults \in 0..MaxFaults

\* The entries that ask for a copy at p.
Requests(p) ==
    {d \in ToSet(spec) :
        /\ d.ns \in {p[1], Wildcard}
        /\ d.name = p[2] \/ (d.name = Unset /\ p[2] = SourcePlace[2])}

Wanted == {p \in Places \ {SourcePlace} : p[1] \in cache /\ Requests(p) # {}}

\* "to make sure they are tracked for garbage collection"
\* (resource_controller.rs:400), for lists: whatever overlaps, fails or is
\* left over, a copy that exists is listed.
CopiesListed == \A p \in Places : copy[p].st => p \in PlacesOf(status)

\* What an entry with these versions claims of a copy.
Describes(e, o) ==
    /\ e.dv <= o.rv
    /\ o.st /\ e.dv = o.rv => o.data = e.sv /\ o.by = e.strategy

\* An entry whose synced version is that of the copy tells what the copy
\* has and how it was written, so that skipping it is right
\* (resource_controller.rs:249), whatever drifted, was deleted and created
\* again, or failed between two writes of the list.
VersionsTrue ==
    /\ \A p \in Places : copy[p].st => copy[p].rv > 0
    /\ \A i \in DOMAIN status : Describes(status[i], copy[status[i].place])

\* After a complete reconciliation there are copies at exactly the places
\* the list asks for, all current, and the source is not among them ("make
\* sure destination does not point to source", lib.rs:176).
CopiesAsSpecified ==
    passes > 0 =>
        /\ PlacesOf(status) = Wanted
        /\ \A p \in Places : copy[p].st <=> p \in Wanted
        /\ \A p \in Wanted : copy[p].data = version

\* "If strategy (sync config) changed do not set version to make sure the
\* destination object is update" (resource_controller.rs:380): copies are
\* written with a strategy that is asked for now.
StrategyFollowed ==
    passes > 0 => \A p \in Wanted : \E d \in Requests(p) : copy[p].by = d.strategy

\* Two entries that ask for the same copy.
Overlap ==
    \E p \in Wanted : \E i, j \in DOMAIN spec :
        i # j /\ {spec[i], spec[j]} \subseteq Requests(p)

\* "Deterministically sort destinations to avoid unnecessary updates"
\* (resource_controller.rs:398): without overlapping entries a repeated
\* reconciliation sends no write, in whatever order the cache lists the
\* namespaces.
RepeatIsQuiet == passes = 2 /\ ~Overlap => ~sent
============================================================================
