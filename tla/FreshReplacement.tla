-------------------------- MODULE FreshReplacement --------------------------
(***************************************************************************)
(* "forge vm fresh" and its "forge state recover": execute_fresh and       *)
(* execute_restore_old of crates/forge-storage/src/fresh.rs with the       *)
(* backends and planners of crates/forge-cli/src/main.rs.                  *)
(*                                                                         *)
(* Fresh creates a new overlay, publishes its generation as Preparing,     *)
(* redefines the domain over it and publishes the switch.  After the       *)
(* Preparing index is on disk nothing is rolled back; restore-old is the   *)
(* way back.                                                               *)
(***************************************************************************)
EXTENDS ManagedHost

FreshLabels ==
    {"fresh_revalidate", "fresh_create_overlay", "fresh_inspect_overlay",
     "fresh_write_manifest", "fresh_publish", "fresh_rollback",
     "fresh_prove_old", "fresh_define", "fresh_verify",
     "fresh_activate_compare", "fresh_activate_write"}

RestoreLabels ==
    {"restore_revalidate", "restore_define", "restore_verify",
     "restore_delete_overlay", "restore_publish_compare",
     "restore_publish_write"}

\* The evidence of the stable domain: persistent, shut off, disk g.
DomainProven(g) == DomainShutoff /\ domain.persistent /\ domain.disk = g

\* operational_instance, plan_fresh and KaliFreshBackend::revalidate ask the
\* same of the index and of libvirt.  A Kali generation has no seed.
Replaceable(i) ==
    /\ NormalLifecycle(i)
    /\ ConsistentOn(i)
    /\ i.active \notin Seeded
    /\ DomainProven(i.active)

\* Generation ids are random: never used before, by anyone.
UnusedGeneration(g) ==
    /\ g \notin manifest \cup Listed(index) \cup Seeded \cup Migrated
    /\ OverlayOf(g) \notin volume
    /\ \A p \in Proc : target[p] # g

-----------------------------------------------------------------------------
(* execute_fresh, up to the durable boundary *)

FreshPlan(p, g) ==
    /\ MayStart(p)
    /\ Replaceable(index)
    /\ UnusedGeneration(g)
    /\ Start(p, "fresh_revalidate", g, FALSE)
    /\ UNCHANGED <<durable, host, faults>>

\* The user answers, then the whole snapshot is taken again.
FreshRevalidate(p) ==
    /\ pc[p] = "fresh_revalidate"
    /\ \/ Stop(p)
       \/ Branch(p, index = view[p] /\ Replaceable(view[p]),
                 "fresh_create_overlay")
    /\ UNCHANGED <<durable, host, faults>>

\* A create that fails ends the command; rollback_overlay has nothing to
\* delete then, even when libvirt did create the volume.
FreshCreateOverlay(p) ==
    /\ pc[p] = "fresh_create_overlay"
    /\ \/ /\ volume' = volume \cup {OverlayOf(target[p])}
          /\ Goto(p, "fresh_inspect_overlay")
          /\ UNCHANGED faults
       \/ /\ volume' \in {volume, volume \cup {OverlayOf(target[p])}}
          /\ Stop(p)
          /\ Strike("backend")
    /\ UNCHANGED <<durable, domain>>

\* Mutant: the index is published before the manifest.
FreshInspectThenIndex(p) ==
    /\ pc[p] = "fresh_inspect_overlay"
    /\ Goto(p, "fresh_publish")
    /\ UNCHANGED <<durable, host, faults>>

FreshInspectOverlay(p) ==
    /\ pc[p] = "fresh_inspect_overlay"
    /\ \/ Goto(p, "fresh_write_manifest") /\ UNCHANGED faults
       \/ Goto(p, "fresh_rollback") /\ Strike("backend")
    /\ UNCHANGED <<durable, host>>

\* publish_preparing, first file.  A write that fails after the rename has
\* still published the file.
FreshWriteManifest(p) ==
    /\ pc[p] = "fresh_write_manifest"
    /\ \/ /\ manifest' = manifest \cup {target[p]}
          /\ \/ Goto(p, "fresh_publish") /\ UNCHANGED faults
             \/ Goto(p, "fresh_rollback") /\ Strike("late")
       \/ /\ UNCHANGED manifest
          /\ Goto(p, "fresh_rollback")
          /\ Strike("backend")
    /\ UNCHANGED <<index, host>>

\* publish_preparing, second file: add_preparing on the index read when the
\* command started, written without reading the file again.
FreshPublish(p) ==
    /\ pc[p] = "fresh_publish"
    /\ CanAddPreparing(view[p], target[p])
    /\ LET next == AddPreparing(view[p], target[p])
       IN  \/ WriteIndex(p, next, "fresh_prove_old")
           \/ /\ index' = next
              /\ Goto(p, "fresh_rollback")
              /\ Strike("late")
              /\ UNCHANGED <<manifest, host>>
           \/ /\ Goto(p, "fresh_rollback")
              /\ Strike("backend")
              /\ UNCHANGED <<durable, host>>

\* Mutant: the overlay of the Active generation is rolled back.
FreshRollbackActive(p) ==
    /\ pc[p] = "fresh_rollback"
    /\ volume' = volume \ {OverlayOf(view[p].active)}
    /\ Stop(p)
    /\ UNCHANGED <<durable, domain, faults>>

\* rollback_overlay: the volume is deleted by name.
FreshRollback(p) ==
    /\ pc[p] = "fresh_rollback"
    /\ volume' = volume \ {OverlayOf(target[p])}
    /\ Stop(p)
    /\ UNCHANGED <<durable, domain, faults>>

-----------------------------------------------------------------------------
(* execute_fresh, after it: every refusal leaves RecoveryRequired behind *)

\* Mutant: the switch is published without redefining the domain.
FreshProveOldOnly(p) ==
    /\ pc[p] = "fresh_prove_old"
    /\ Branch(p, DomainProven(view[p].active), "fresh_activate_compare")
    /\ UNCHANGED <<durable, host, faults>>

FreshProveOld(p) ==
    /\ pc[p] = "fresh_prove_old"
    /\ Branch(p, DomainProven(view[p].active), "fresh_define")
    /\ UNCHANGED <<durable, host, faults>>

FreshDefine(p) ==
    /\ pc[p] = "fresh_define"
    /\ domain' = Redefined(target[p])
    /\ Branch(p, ~DomainRunning, "fresh_verify")
    /\ UNCHANGED <<durable, volume, faults>>

\* inspect_replacement, verify_domain_replacement and commit_fresh_switch.
FreshVerify(p) ==
    /\ pc[p] = "fresh_verify"
    /\ Branch(p, /\ DomainProven(target[p])
                 /\ OverlayOf(target[p]) \in volume
                 /\ CanCommitFreshSwitch(view[p], view[p].active, target[p]),
              "fresh_activate_compare")
    /\ UNCHANGED <<durable, host, faults>>

FreshActivateCompare(p) ==
    CompareIndex(p, "fresh_activate_compare", "fresh_activate_write")

\* The reconciliation that follows reads only.
FreshActivateWrite(p) ==
    /\ pc[p] = "fresh_activate_write"
    /\ WriteIndexAndStop(p, FinalizeSwitch(view[p], target[p]))

-----------------------------------------------------------------------------
(* restore-old *)

\* fresh_restore_old takes the first listed manifest whose own status is
\* Preparing.  A Preparing entry is always the last one listed.
ChosenPreparing(i, g) ==
    /\ ManifestStatus(g) = "Preparing"
    /\ \A h \in Listed(i) \ {g} : ManifestStatus(h) # "Preparing"

\* fresh_restore_old, plan_restore_old and revalidate_restore.
Restorable(i, g) ==
    /\ Listed(i) \subseteq manifest
    /\ WithStatus(i, "Preparing") = {g}
    /\ ChosenPreparing(i, g)
    /\ OverlayOf(g) \in volume
    /\ FreshReplacementPending(i, Listed(i) \cap {g})
    /\ ManifestStatus(i.active) = "Active"
    /\ DomainProven(g)

RestorePlan(p, g) ==
    /\ MayStart(p)
    /\ Restorable(index, g)
    /\ Start(p, "restore_revalidate", g, FALSE)
    /\ UNCHANGED <<durable, host, faults>>

\* Mutant: Failed is published while the domain is on the replacement.
RestorePublishAtOnce(p) ==
    /\ pc[p] = "restore_revalidate"
    /\ Branch(p, index = view[p], "restore_publish_compare")
    /\ UNCHANGED <<durable, host, faults>>

RestoreRevalidate(p) ==
    /\ pc[p] = "restore_revalidate"
    /\ \/ Stop(p)
       \/ Branch(p, index = view[p] /\ Restorable(view[p], target[p]),
                 "restore_define")
    /\ UNCHANGED <<durable, host, faults>>

\* Mutant: any listed generation is taken for the old one.
RestoreDefineListed(p) ==
    /\ pc[p] = "restore_define"
    /\ \E g \in Listed(view[p]) : domain' = Redefined(g)
    /\ Branch(p, ~DomainRunning, "restore_verify")
    /\ UNCHANGED <<durable, volume, faults>>

RestoreDefine(p) ==
    /\ pc[p] = "restore_define"
    /\ domain' = Redefined(view[p].active)
    /\ Branch(p, ~DomainRunning, "restore_verify")
    /\ UNCHANGED <<durable, volume, faults>>

\* Mutant: Failed is published before the overlay is deleted.
RestoreVerifyThenPublish(p) ==
    /\ pc[p] = "restore_verify"
    /\ Branch(p, DomainProven(view[p].active)
                 /\ CanMarkFailed(view[p], target[p]),
              "restore_publish_compare")
    /\ UNCHANGED <<durable, host, faults>>

RestoreVerify(p) ==
    /\ pc[p] = "restore_verify"
    /\ Branch(p, DomainProven(view[p].active)
                 /\ CanMarkFailed(view[p], target[p]),
              "restore_delete_overlay")
    /\ UNCHANGED <<durable, host, faults>>

\* cleanup_failed_preparing: here a volume that is already gone is an error.
RestoreDeleteOverlay(p) ==
    /\ pc[p] = "restore_delete_overlay"
    /\ LET deletable == /\ ~VolumeReferenced(target[p])
                        /\ OverlayOf(target[p]) \in volume
       IN  /\ volume' = IF deletable THEN volume \ {OverlayOf(target[p])}
                        ELSE volume
           /\ Branch(p, deletable, "restore_publish_compare")
    /\ UNCHANGED <<durable, domain, faults>>

RestorePublishCompare(p) ==
    CompareIndex(p, "restore_publish_compare", "restore_publish_write")

RestorePublishWrite(p) ==
    /\ pc[p] = "restore_publish_write"
    /\ WriteIndexAndStop(p, MarkFailed(view[p], target[p]))

-----------------------------------------------------------------------------

FreshCommand(p) ==
    \/ \E g \in Gen : FreshPlan(p, g)
    \/ FreshRevalidate(p)
    \/ FreshCreateOverlay(p)
    \/ FreshInspectOverlay(p)
    \/ FreshWriteManifest(p)
    \/ FreshPublish(p)
    \/ FreshRollback(p)
    \/ FreshProveOld(p)
    \/ FreshDefine(p)
    \/ FreshVerify(p)
    \/ FreshActivateCompare(p)
    \/ FreshActivateWrite(p)

RestoreCommand(p) ==
    \/ \E g \in Gen : RestorePlan(p, g)
    \/ RestoreRevalidate(p)
    \/ RestoreDefine(p)
    \/ RestoreVerify(p)
    \/ RestoreDeleteOverlay(p)
    \/ RestorePublishCompare(p)
    \/ RestorePublishWrite(p)

FreshInit == SettledInit

FreshNext ==
    \/ \E p \in Proc : FreshCommand(p) \/ RestoreCommand(p) \/ Crash(p)
    \/ PowerOn
    \/ PowerOff

FreshSpec == FreshInit /\ [][FreshNext]_hostVars

-----------------------------------------------------------------------------
(* Properties *)

\* Types; a process that replaces or restores has a generation in hand.
FreshTypeOK ==
    /\ HostTypeOK(FreshLabels \cup RestoreLabels)
    /\ \A p \in Proc : pc[p] # "idle" => target[p] \in Gen

\* Outside of a recovery boundary the domain definition and the index name
\* the same generation, after any interruption of Fresh or restore-old: the
\* index that ends the boundary is published only once libvirt agrees.
SettledBinding ==
    WithStatus(index, "Preparing") = {} => domain.disk = index.active

\* Inside the boundary the domain is bound to one of the two generations the
\* index declares, never to a third one.
BoundaryBinding ==
    domain.disk \in {index.active} \cup WithStatus(index, "Preparing")

\* Every listed generation has its manifest on disk: the manifest is written
\* before the index that lists it, so no crash leaves an index that
\* load_index_manifests cannot follow.
ListedManifestsExist == Listed(index) \subseteq manifest

\* A Failed generation keeps no volume: restore-old publishes Failed only
\* after the exact overlay is gone.
FailedLeavesNothing ==
    \A g \in WithStatus(index, "Failed") : OverlayOf(g) \notin volume

\* The Active generation changes only by a switch that names the generation
\* the domain definition is bound to, keeps the overlay it names, and retains
\* the old generation with its data (RetainOldUntilExplicitCleanup).
SwitchMatchesDomain ==
    [][index'.active # index.active =>
         /\ domain.disk = index'.active
         /\ OverlayOf(index'.active) \in volume
         /\ index'.status[index.active] = "Retained"
         /\ OverlayOf(index.active) \in volume]_index

NoCommandRunning == \A p \in Proc : pc[p] = "idle"

\* "Fresh crossed durable Preparing boundary; explicit restore-old recovery
\* required" (FreshExecutionError): when an interrupted Fresh left the domain
\* on the replacement and everything it created intact, restore-old accepts.
RestoreOldAvailable ==
    \A g \in WithStatus(index, "Preparing") :
        NoCommandRunning /\ DomainProven(g) /\ OverlayOf(g) \in volume
            => Restorable(index, g)

\* "Any interruption before final publication must remain recoverable": also
\* when the domain still has the old disk, some recovery accepts the state.
InterruptedFreshRecoverable ==
    \A g \in WithStatus(index, "Preparing") :
        NoCommandRunning /\ DomainShutoff => Restorable(index, g)

\* rollback_overlay "deletes only the transaction-created overlay before
\* Preparing publication": no overlay is rolled back whose generation the
\* index on disk already lists.
RollbackOnlyBeforePublication ==
    [][\A p \in Proc :
         pc[p] = "fresh_rollback" /\ volume' # volume /\ pc'[p] = "idle"
             => target[p] \notin Listed(index)]_hostVars
=============================================================================
