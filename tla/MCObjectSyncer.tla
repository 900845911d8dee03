--------------------------- MODULE MCObjectSyncer ---------------------------
(* Bounded instances of the whole syncer for TLC. *)
EXTENDS ObjectSyncer

\* A later start, which Spec reaches: every ObjectSync has been guarded,
\* registered and reported Ready, with one write each for the finalizer and
\* the condition, and the resource controller has yet to run.  Without a
\* restart Ready is not written again, so that what is lost from here on is
\* not lost to ReportReady.
SettledInit ==
    /\ src = [st |-> "live", fin |-> FALSE, rv |-> 1, data |-> First]
    /\ dst = [x \in Syncs |-> [n \in Namespaces |->
                [st |-> "absent", fin |-> FALSE, rv |-> 0, data |-> Empty]]]
    /\ \E want \in [Syncs -> SUBSET Namespaces] :
          sync = [x \in Syncs |-> [st |-> "live", fin |-> TRUE, rv |-> 3, want |-> want[x],
                                   status |-> [NoStatus EXCEPT !.ready = "True"]]]
    /\ ns = [n \in Namespaces |-> "active"]
    /\ edits = 0 /\ faults = 0
    /\ sources = Syncs /\ srcCache = src /\ nsCache = ns /\ releasing = {}
    /\ w = Idle
    /\ syncCache = sync /\ due = {}
    /\ o = [x \in Syncs |-> OscIdle]

SettledSpec == SettledInit /\ [][Next]_allVars
============================================================================
