--------------------------- MODULE ManagedLifecycle ---------------------------
(***************************************************************************)
(* The commands of one managed instance together: delete, Fresh and its    *)
(* restore-old, cleanup, and start, shutdown and force-stop, over the same *)
(* files, domain and volumes.                                              *)
(***************************************************************************)
EXTENDS InstanceDelete, FreshReplacement, RetainedCleanup, PowerControl

LifecycleNext ==
    \/ \E p \in Proc : \/ DeleteCommand(p)
                       \/ FreshCommand(p)
                       \/ RestoreCommand(p)
                       \/ CleanupCommand(p)
                       \/ PowerCommand(p)
                       \/ Crash(p)
    \/ PowerOn
    \/ PowerOff

LifecycleSpec == SettledInit /\ [][LifecycleNext]_hostVars

-----------------------------------------------------------------------------
(* Properties *)

\* The recovery boundaries exclude each other.  Whatever was interrupted, a
\* deletion is on record only for an instance whose other generations are all
\* Cleaned, and at most one Fresh and one cleanup are unfinished.  (A Fresh
\* may run while a cleanup is unfinished: require_normal_lifecycle does not
\* look at the cleanup progress.)
OneBoundaryAtATime ==
    /\ index.delete.phase # "None" =>
           Listed(index) \ {index.active} = WithStatus(index, "Cleaned")
    /\ \A g, h \in WithStatus(index, "Preparing") : g = h
    /\ \A g, h \in {x \in Gen : index.progress[x] # "None"} : g = h

\* Until a deletion removes it on record, the domain exists and outside of a
\* Fresh boundary it is bound to the Active generation.
BoundUntilDeleted ==
    index.delete.phase = "None" =>
        /\ DomainPresent
        /\ domain.disk \in {index.active} \cup WithStatus(index, "Preparing")
        /\ WithStatus(index, "Preparing") = {} => domain.disk = index.active

\* The tombstone is the whole truth about the instance: no domain is left,
\* and a volume that is left belongs to a generation the index never listed
\* (the overlay of a Fresh that crashed before its boundary).
TombstoneLeavesOnlyOrphans ==
    index.delete.phase = "Deleted" =>
        ~DomainPresent /\ \A v \in volume : v[1] \notin Listed(index)

\* Guest data is destroyed only for a reason on record: a deletion, a cleanup
\* of that generation, or the rollback of a generation that was never Active.
DestructionHasReason ==
    [][\A v \in volume \ volume' :
         \/ index.delete.phase = "Deleting" /\ v[1] = index.active
         \/ index.progress[v[1]] # "None"
         \/ index.status[v[1]] \in {"Unlisted", "Preparing"}]_volume
=============================================================================
