--------------------------- MODULE RetainedCleanup ---------------------------
(***************************************************************************)
(* "forge vm cleanup": managed_cleanup and CleanupExecutor in              *)
(* crates/forge-cli/src/main.rs, plan_managed_cleanup and                  *)
(* execute_cleanup_candidate of crates/forge-state/src/managed.rs.         *)
(*                                                                         *)
(* The volumes of one Retained generation are deleted, seed first, with a  *)
(* checkpoint in the index around every delete.  No later run resumes a    *)
(* cleanup that was interrupted.                                           *)
(***************************************************************************)
EXTENDS ManagedHost

\* The domain behind the connection of the executor.  "own" is the domain of
\* the instance; the command connects with connect_local, whose domain is
\* always fedora-lab.
CONSTANT CleanupDomain
ASSUME CleanupDomainAssumption == CleanupDomain \in {"own", "fedora-lab"}

CleanupLabels ==
    {"cleanup_confirm", "cleanup_revalidate", "cleanup_begin_compare",
     "cleanup_begin_write", "cleanup_seed", "cleanup_seed_compare",
     "cleanup_seed_write", "cleanup_overlay", "cleanup_incomplete_compare",
     "cleanup_incomplete_write", "cleanup_finish_compare",
     "cleanup_finish_write"}

\* A candidate is Retained, complete, and no domain refers to its volumes.
Candidates(i) ==
    {g \in WithStatus(i, "Retained") :
        VolumesOf(g) \subseteq volume /\ ~VolumeReferenced(g)}

\* managed_cleanup and plan_managed_cleanup: a Consistent reconciliation, no
\* unfinished cleanup, and an Active generation that is not a legacy Fedora
\* one, the only product with a seed.
CleanupPlannable(i) ==
    /\ ConsistentOn(i)
    /\ i.active \notin Seeded
    /\ \A g \in Gen : i.progress[g] = "None"

\* inspect_state and reconcile_managed of the executor: another domain never
\* matches the Active generation of this instance.
ExecutorConsistent(i) ==
    CleanupDomain = "own" /\ CleanupPlannable(i)

\* An exact volume can be deleted when it exists and no domain names it.
Deletable(g, role) == <<g, role>> \in volume /\ ~VolumeReferenced(g)

FirstPhase(g) == IF g \in Seeded THEN "SeedDeletePending"
                 ELSE "FlatOverlayDeletePending"
LastPhase(g) == IF g \in Seeded THEN "OverlayDeletePending"
                ELSE "FlatOverlayDeletePending"

-----------------------------------------------------------------------------

\* Execution needs exactly one candidate; any other plan is only shown.
CleanupPlan(p, g) ==
    /\ MayStart(p)
    /\ CleanupPlannable(index)
    /\ Candidates(index) = {g}
    /\ Start(p, "cleanup_confirm", g, FALSE)
    /\ UNCHANGED <<durable, host, faults>>

\* The user answers.
CleanupConfirm(p) ==
    /\ pc[p] = "cleanup_confirm"
    /\ \/ Stop(p)
       \/ Goto(p, "cleanup_revalidate")
    /\ UNCHANGED <<durable, host, faults>>

\* CleanupExecutor::revalidate: the whole snapshot again.
CleanupRevalidate(p) ==
    /\ pc[p] = "cleanup_revalidate"
    /\ Branch(p, /\ index = view[p]
                 /\ Listed(index) \subseteq manifest
                 /\ ExecutorConsistent(index)
                 /\ Candidates(index) = {target[p]}
                 /\ CanBeginCleanup(view[p], target[p], FirstPhase(target[p])),
              "cleanup_begin_compare")
    /\ UNCHANGED <<durable, host, faults>>

CleanupBeginCompare(p) ==
    CompareIndex(p, "cleanup_begin_compare", "cleanup_begin_write")

CleanupBeginWrite(p) ==
    /\ pc[p] = "cleanup_begin_write"
    /\ WriteIndex(p, BeginCleanup(view[p], target[p], FirstPhase(target[p])),
                  IF target[p] \in Seeded THEN "cleanup_seed"
                  ELSE "cleanup_overlay")

\* A failed delete of the seed ends the command; its checkpoint stays.
CleanupSeed(p) ==
    /\ pc[p] = "cleanup_seed"
    /\ IF Deletable(target[p], "NoCloudSeed")
       THEN volume' = volume \ {<<target[p], "NoCloudSeed">>}
       ELSE UNCHANGED volume
    /\ Branch(p, Deletable(target[p], "NoCloudSeed"), "cleanup_seed_compare")
    /\ UNCHANGED <<durable, domain, faults>>

CleanupSeedCompare(p) ==
    CompareIndex(p, "cleanup_seed_compare", "cleanup_seed_write")

CleanupSeedWrite(p) ==
    /\ pc[p] = "cleanup_seed_write"
    /\ CanRecordSeedDeleted(view[p], target[p])
    /\ WriteIndex(p, RecordSeedDeleted(view[p], target[p]), "cleanup_overlay")

\* A failed delete of the overlay is recorded when a seed is already gone.
CleanupOverlayFailed(p) ==
    Branch(p, target[p] \in Seeded, "cleanup_incomplete_compare")

\* Mutant: a failed delete of the overlay is not noticed.
CleanupOverlayUnchecked(p) ==
    /\ pc[p] = "cleanup_overlay"
    /\ volume' \in {volume, volume \ {OverlayOf(target[p])}}
    /\ Goto(p, "cleanup_finish_compare")
    /\ UNCHANGED <<durable, domain, faults>>

CleanupOverlay(p) ==
    /\ pc[p] = "cleanup_overlay"
    /\ \/ /\ Deletable(target[p], "WritableOverlay")
          /\ volume' = volume \ {OverlayOf(target[p])}
          /\ Goto(p, "cleanup_finish_compare")
          /\ UNCHANGED faults
       \/ /\ ~Deletable(target[p], "WritableOverlay")
          /\ CleanupOverlayFailed(p)
          /\ UNCHANGED <<volume, faults>>
       \/ /\ CleanupOverlayFailed(p)
          /\ Strike("backend")
          /\ UNCHANGED volume
    /\ UNCHANGED <<durable, domain>>

CleanupIncompleteCompare(p) ==
    CompareIndex(p, "cleanup_incomplete_compare", "cleanup_incomplete_write")

CleanupIncompleteWrite(p) ==
    /\ pc[p] = "cleanup_incomplete_write"
    /\ CanRecordCleanupIncomplete(view[p], target[p])
    /\ WriteIndexAndStop(p, RecordCleanupIncomplete(view[p], target[p]))

CleanupFinishCompare(p) ==
    CompareIndex(p, "cleanup_finish_compare", "cleanup_finish_write")

\* The reconciliation that follows reads only.
CleanupFinishWrite(p) ==
    /\ pc[p] = "cleanup_finish_write"
    /\ CanCompleteCleanup(view[p], target[p], LastPhase(target[p]))
    /\ WriteIndexAndStop(p, CompleteCleanup(view[p], target[p]))

CleanupCommand(p) ==
    \/ \E g \in Gen : CleanupPlan(p, g)
    \/ CleanupConfirm(p)
    \/ CleanupRevalidate(p)
    \/ CleanupBeginCompare(p)
    \/ CleanupBeginWrite(p)
    \/ CleanupSeed(p)
    \/ CleanupSeedCompare(p)
    \/ CleanupSeedWrite(p)
    \/ CleanupOverlay(p)
    \/ CleanupIncompleteCompare(p)
    \/ CleanupIncompleteWrite(p)
    \/ CleanupFinishCompare(p)
    \/ CleanupFinishWrite(p)

CleanupInit == SettledInit

CleanupNext ==
    \/ \E p \in Proc : CleanupCommand(p) \/ Crash(p)
    \/ PowerOn
    \/ PowerOff

CleanupSpec == CleanupInit /\ [][CleanupNext]_hostVars

-----------------------------------------------------------------------------
(* Properties *)

\* Types; a process that cleans up has a generation in hand.
CleanupTypeOK ==
    /\ HostTypeOK(CleanupLabels)
    /\ \A p \in Proc : pc[p] # "idle" => target[p] \in Gen

\* "atomically persist cleanup intent" before "exact delete": a volume goes
\* only while the index on disk records the unfinished cleanup of a Retained
\* generation, whatever other cleanups of the same generation are doing.
DeletesAreRecorded ==
    [][\A v \in volume \ volume' :
         /\ index.status[v[1]] = "Retained"
         /\ index.progress[v[1]] # "None"]_volume

\* A cleanup is Cleaned on record only when nothing of the generation is
\* left, and "IncompleteAfterSeed" means what it says.
CleanupRecordsAreTrue ==
    \A g \in Gen :
        /\ index.status[g] = "Cleaned" => VolumesOf(g) \cap volume = {}
        /\ index.progress[g] \in {"OverlayDeletePending", "IncompleteAfterSeed"}
               => <<g, "NoCloudSeed">> \notin volume

\* CleanupBackend::revalidate "returns a fail-closed reason when identity or
\* references changed": with the index, the domain and the volumes as they
\* were planned, it accepts the only candidate.
RevalidationAcceptsUnchanged ==
    [][\A p \in Proc :
         /\ pc[p] = "cleanup_revalidate"
         /\ pc'[p] = "idle"
         /\ faults' = faults
         => \/ index # view[p]
            \/ ~CleanupPlannable(index)
            \/ Candidates(index) # {target[p]}]_hostVars
=============================================================================
