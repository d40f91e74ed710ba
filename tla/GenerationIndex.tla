--------------------------- MODULE GenerationIndex ---------------------------
(***************************************************************************)
(* The durable generation index of one managed instance                    *)
(* (crates/forge-state/src/managed.rs) and the pure transitions on it.     *)
(*                                                                         *)
(* Every transition of the source takes an index by reference, refuses or  *)
(* returns the next index value, and validates that value before it hands  *)
(* it out.  Here a transition is a pair: "CanX", the guards in the order   *)
(* of the early returns, the final validation of the result included, and  *)
(* "X", the value returned.  Writing the value to disk belongs to the      *)
(* commands that call the transition.                                      *)
(*                                                                         *)
(* The list of entries becomes a function from generation to status, which *)
(* keeps the uniqueness of generation ids that validate_index checks.  The *)
(* deleted_roles of a cleanup record are determined by its phase, so the   *)
(* phase alone is kept.  Names, UUIDs, paths and keys identify a           *)
(* generation and its volumes and are represented by the generation.       *)
(***************************************************************************)

CONSTANTS
    Gen,       \* generation ids
    Seeded,    \* the generations whose manifest lists a NoCloud seed
    NoGen      \* the absence of a generation id

ASSUME SeededAssumption == Seeded \subseteq Gen
ASSUME NoGenAssumption == NoGen \notin Gen

\* Roles of the volumes that belong to one VM.  The third role, SharedBase,
\* is never listed in a deletion or cleanup plan.
Role == {"NoCloudSeed", "WritableOverlay"}

\* Mutant: the shared base counts as disposable.
DisposableWithBase(g) ==
    (IF g \in Seeded THEN Role ELSE {"WritableOverlay"}) \cup {"SharedBase"}

\* The disposable resources of the manifest of g.
Disposable(g) == IF g \in Seeded THEN Role ELSE {"WritableOverlay"}

Status == {"Preparing", "Active", "Retained", "Failed", "Cleaned"}
CleanupPhase == {"SeedDeletePending", "OverlayDeletePending",
                 "FlatOverlayDeletePending", "IncompleteAfterSeed"}

\* delete_state: none, Deleting with its checkpoints, or the tombstone.
\* "pending" is the set of planned roles still marked DeletePending.
DeleteState == [phase : {"None", "Deleting", "Deleted"},
                plan : Gen \cup {NoGen},
                domain : {"UndefinePending", "Absent"},
                pending : SUBSET Role]

NoDelete == [phase |-> "None", plan |-> NoGen,
             domain |-> "UndefinePending", pending |-> {}]

Index == [active : Gen,
          status : [Gen -> Status \cup {"Unlisted"}],
          progress : [Gen -> CleanupPhase \cup {"None"}],
          delete : DeleteState]

Listed(i) == {g \in Gen : i.status[g] # "Unlisted"}
WithStatus(i, s) == {g \in Gen : i.status[g] = s}

-----------------------------------------------------------------------------
(* validate_index and validate_delete_plan *)

ValidDeletePlan(i) ==
    i.delete.phase # "None" =>
        /\ i.delete.plan = i.active
        /\ i.delete.pending \subseteq Disposable(i.delete.plan)

ValidIndex(i) ==
    /\ WithStatus(i, "Active") = {i.active}
    /\ \A g \in Gen : i.progress[g] # "None" => i.status[g] = "Retained"
    /\ ValidDeletePlan(i)

\* require_normal_lifecycle: no recovery boundary and no deletion.
NormalLifecycle(i) ==
    /\ ValidIndex(i)
    /\ i.delete.phase = "None"
    /\ WithStatus(i, "Preparing") = {}

\* The first index of an instance: one Active generation.
InitialIndex(g) ==
    [active |-> g,
     status |-> [x \in Gen |-> IF x = g THEN "Active" ELSE "Unlisted"],
     progress |-> [x \in Gen |-> "None"],
     delete |-> NoDelete]

-----------------------------------------------------------------------------
(* Reconciliation.  "matching" is the set of listed generations whose      *)
(* manifest identities match what libvirt shows.                           *)

Reconcile(i, matching) ==
    IF \/ ~ValidIndex(i)
       \/ \E g, h \in matching : g # h
    THEN "Conflict"
    ELSE IF WithStatus(i, "Preparing") # {}
    THEN "RecoveryRequired"
    ELSE IF matching = {i.active}
    THEN "Consistent"
    ELSE "Conflict"

\* recovery_reason = FreshReplacementPending: libvirt shows the Preparing
\* generation rather than any other.
FreshReplacementPending(i, matching) ==
    /\ Reconcile(i, matching) = "RecoveryRequired"
    /\ matching # {}
    /\ matching \subseteq WithStatus(i, "Preparing")

-----------------------------------------------------------------------------
(* Deletion of the whole instance *)

\* Mutant: the other generations are not looked at.
DeleteEligibleAnyStatus(i) ==
    /\ ValidIndex(i)
    /\ i.delete.phase = "None"
    /\ \A g \in Gen : i.progress[g] = "None"

\* The index half of plan_instance_delete, repeated by begin_instance_delete.
DeleteEligible(i) ==
    /\ ValidIndex(i)
    /\ i.delete.phase = "None"
    /\ \A g \in Gen : i.progress[g] = "None"
    /\ \A g \in Gen : i.status[g] \notin {"Retained", "Preparing", "Failed"}

\* Mutant: the seed is not part of the plan.
BeginDeleteOverlayOnly(i) ==
    [i EXCEPT !.delete = [phase |-> "Deleting", plan |-> i.active,
                          domain |-> "UndefinePending",
                          pending |-> {"WritableOverlay"}]]

BeginDelete(i) ==
    [i EXCEPT !.delete = [phase |-> "Deleting", plan |-> i.active,
                          domain |-> "UndefinePending",
                          pending |-> Disposable(i.active)]]
CanBeginDelete(i) == DeleteEligible(i) /\ ValidIndex(BeginDelete(i))

\* Mutant: the resources are recorded together with the domain.
RecordAllAbsent(i) ==
    [i EXCEPT !.delete.domain = "Absent", !.delete.pending = {}]

RecordDomainAbsent(i) == [i EXCEPT !.delete.domain = "Absent"]
CanRecordDomainAbsent(i) ==
    /\ ValidIndex(i)
    /\ i.delete.phase = "Deleting"
    /\ i.delete.domain = "UndefinePending"
    /\ ValidIndex(RecordDomainAbsent(i))

\* Mutant: the checkpoints are rebuilt from the plan.
RecordResourceAnew(i, role) ==
    [i EXCEPT !.delete.pending = Disposable(i.delete.plan) \ {role}]

RecordResourceAbsent(i, role) ==
    [i EXCEPT !.delete.pending = i.delete.pending \ {role}]
CanRecordResourceAbsent(i, role) ==
    /\ ValidIndex(i)
    /\ i.delete.phase = "Deleting"
    /\ i.delete.domain = "Absent"
    /\ role \in i.delete.pending
    /\ ValidIndex(RecordResourceAbsent(i, role))

CompleteDelete(i) == [i EXCEPT !.delete.phase = "Deleted"]
CanCompleteDelete(i) ==
    /\ ValidIndex(i)
    /\ i.delete.phase = "Deleting"
    /\ i.delete.domain = "Absent"
    /\ i.delete.pending = {}
    /\ ValidIndex(CompleteDelete(i))

-----------------------------------------------------------------------------
(* Fresh replacement and its recovery *)

AddPreparing(i, g) == [i EXCEPT !.status[g] = "Preparing"]
CanAddPreparing(i, g) ==
    /\ ValidIndex(i)
    /\ g \notin Listed(i)
    /\ WithStatus(i, "Preparing") = {}
    /\ ValidIndex(AddPreparing(i, g))

\* finalize_switch: both sides of the switch in one value.
FinalizeSwitch(i, g) ==
    [i EXCEPT !.active = g,
              !.status = [x \in Gen |-> IF x = g THEN "Active"
                                        ELSE IF x = i.active THEN "Retained"
                                        ELSE i.status[x]]]
CanFinalizeSwitch(i, g) ==
    /\ ValidIndex(i)
    /\ i.status[g] = "Preparing"
    /\ ValidIndex(FinalizeSwitch(i, g))

\* commit_fresh_switch returns FinalizeSwitch(i, g).
CanCommitFreshSwitch(i, old, g) ==
    /\ i.active = old
    /\ WithStatus(i, "Preparing") = {g}
    /\ CanFinalizeSwitch(i, g)

MarkFailed(i, g) == [i EXCEPT !.status[g] = "Failed"]
CanMarkFailed(i, g) ==
    /\ ValidIndex(i)
    /\ i.status[g] = "Preparing"
    /\ ValidIndex(MarkFailed(i, g))

-----------------------------------------------------------------------------
(* Cleanup of a Retained generation *)

\* Mutant: no checkpoint before the first delete.
BeginCleanupUnrecorded(i, g, phase) == i

\* begin_cleanup and begin_flat_cleanup differ in the phase they record.
BeginCleanup(i, g, phase) == [i EXCEPT !.progress[g] = phase]
CanBeginCleanup(i, g, phase) ==
    /\ ValidIndex(i)
    /\ i.status[g] = "Retained"
    /\ i.progress[g] = "None"
    /\ ValidIndex(BeginCleanup(i, g, phase))

RecordSeedDeleted(i, g) == [i EXCEPT !.progress[g] = "OverlayDeletePending"]
CanRecordSeedDeleted(i, g) ==
    /\ i.progress[g] = "SeedDeletePending"
    /\ ValidIndex(RecordSeedDeleted(i, g))

RecordCleanupIncomplete(i, g) ==
    [i EXCEPT !.progress[g] = "IncompleteAfterSeed"]
CanRecordCleanupIncomplete(i, g) ==
    /\ i.progress[g] = "OverlayDeletePending"
    /\ ValidIndex(RecordCleanupIncomplete(i, g))

\* complete_cleanup and complete_flat_cleanup accept one phase each.
CompleteCleanup(i, g) ==
    [i EXCEPT !.status[g] = "Cleaned", !.progress[g] = "None"]
CanCompleteCleanup(i, g, phase) ==
    /\ ValidIndex(i)
    /\ i.progress[g] = phase
    /\ i.status[g] = "Retained"
    /\ ValidIndex(CompleteCleanup(i, g))
=============================================================================
