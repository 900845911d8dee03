----------------------------- MODULE CopyLedger -----------------------------
(***************************************************************************)
(* What garbage collection promises, without saying how: "As Kubernetes    *)
(* does not support cross-namespace OwnerReferences and automatic garbage  *)
(* collection of owned objects, we keep track of all synced destination    *)
(* objects in the status sub-resource" (lib.rs:255).  A ledger lists       *)
(* places; a copy only ever appears in a listed place, and a place is only *)
(* struck off the ledger while there is no copy in it.                     *)
(***************************************************************************)

CONSTANT Places   \* where copies can be: an ObjectSync and a namespace

VARIABLES
    live,    \* the places with a copy that is not being deleted
    listed   \* the places listed in status.destinations

ledgerVars == <<live, listed>>

Init == live = {} /\ listed = {}

\* The list is replaced as a whole, by any list that covers the copies.
Relist ==
    /\ \E D \in SUBSET Places : live \subseteq D /\ listed' = D
    /\ UNCHANGED live

\* A copy appears in a listed place.
Appear ==
    /\ \E p \in listed : live' = live \cup {p}
    /\ UNCHANGED listed

\* Copies go, whoever deletes them.
Disappear ==
    /\ live' \in SUBSET live
    /\ UNCHANGED listed

Next == Relist \/ Appear \/ Disappear

Spec == Init /\ [][Next]_ledgerVars

---------------------------------------------------------------------------
\* No copy is missing from the ledger.
NothingLost == live \subseteq listed
============================================================================
