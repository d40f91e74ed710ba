--------------------------- MODULE InstanceDelete ---------------------------
(***************************************************************************)
(* "forge delete": delete_vm and execute_delete_plan_inner in              *)
(* crates/forge-cli/src/main.rs, with undefine_domain_exact and            *)
(* delete_managed_volume_exact of crates/forge-libvirt/src/lib.rs.         *)
(*                                                                         *)
(* The first run plans, asks, publishes the intent and then works through  *)
(* the checkpoints; a later run that finds Deleting resumes from the last  *)
(* checkpoint on disk.  A libvirt call that fails ends the command like a  *)
(* crash at that point does, so Crash stands for both.                     *)
(***************************************************************************)
EXTENDS ManagedHost

DeleteLabels ==
    {"delete_confirm", "delete_intent_compare", "delete_intent_write",
     "delete_domain",
     "delete_force_stop", "delete_reobserve", "delete_undefine",
     "delete_undefine_call", "delete_undefine_verify",
     "delete_domain_compare", "delete_domain_write", "delete_volume",
     "delete_volume_compare", "delete_volume_write",
     "delete_finish_compare", "delete_finish_write"}

\* plan_instance_delete: what the index, the manifests and libvirt must show.
DeletePlannable(i) ==
    /\ ConsistentOn(i)
    /\ domain.persistent
    /\ DeleteEligible(i)

\* The next planned resource without a checkpoint: the seed sorts first.
NextRole(i) == IF "NoCloudSeed" \in i.delete.pending
               THEN "NoCloudSeed" ELSE "WritableOverlay"

AfterDomain(i) == IF i.delete.pending = {} THEN "delete_finish_compare"
                  ELSE "delete_volume"

-----------------------------------------------------------------------------
(* Planning, confirmation, intent *)

\* A first run: the plan is accepted and shown.
DeletePlan(p, forced) ==
    /\ MayStart(p)
    /\ DeletePlannable(index)
    /\ DomainShutoff \/ (DomainRunning /\ forced)
    /\ Start(p, "delete_confirm", NoGen, forced)
    /\ UNCHANGED <<durable, host, faults>>

\* A later run: the durable plan is resumed without a question.
DeleteResume(p, forced) ==
    /\ MayStart(p)
    /\ index.delete.phase = "Deleting"
    /\ Start(p, IF index.delete.domain = "UndefinePending"
                THEN "delete_domain" ELSE AfterDomain(index), NoGen, forced)
    /\ UNCHANGED <<durable, host, faults>>

\* Mutant: the domain is touched before the intent is published.
DeleteConfirmUnrecorded(p) ==
    /\ pc[p] = "delete_confirm"
    /\ Branch(p, index = view[p] /\ DeletePlannable(view[p]), "delete_domain")
    /\ UNCHANGED <<durable, host, faults>>

\* The user answers; the plan is built again and must be the same.
DeleteConfirm(p) ==
    /\ pc[p] = "delete_confirm"
    /\ \/ Stop(p)
       \/ Branch(p, index = view[p] /\ DeletePlannable(view[p])
                    /\ CanBeginDelete(view[p]), "delete_intent_compare")
    /\ UNCHANGED <<durable, host, faults>>

DeleteIntentCompare(p) ==
    CompareIndex(p, "delete_intent_compare", "delete_intent_write")

DeleteIntentWrite(p) ==
    /\ pc[p] = "delete_intent_write"
    /\ WriteIndex(p, BeginDelete(view[p]), "delete_domain")

-----------------------------------------------------------------------------
(* The domain *)

DeleteObserve(p) ==
    /\ pc[p] = "delete_domain"
    /\ \/ ~DomainPresent /\ Goto(p, "delete_domain_compare")
       \/ DomainShutoff /\ Goto(p, "delete_undefine")
       \/ DomainRunning /\ Branch(p, force[p], "delete_force_stop")
    /\ UNCHANGED <<durable, host, faults>>

\* execute_force_stop: refuses a domain that is no longer running, and cannot
\* observe a transient one after it stopped.
DeleteForceStop(p) ==
    /\ pc[p] = "delete_force_stop"
    /\ domain' = IF DomainRunning THEN Halted ELSE domain
    /\ Branch(p, DomainRunning /\ domain.persistent, "delete_reobserve")
    /\ UNCHANGED <<durable, volume, faults>>

DeleteReobserve(p) ==
    /\ pc[p] = "delete_reobserve"
    /\ Branch(p, DomainShutoff, "delete_undefine")
    /\ UNCHANGED <<durable, host, faults>>

\* undefine_domain_exact: authorize, call, observe.
DeleteAuthorize(p) ==
    /\ pc[p] = "delete_undefine"
    /\ Branch(p, DomainShutoff /\ domain.persistent, "delete_undefine_call")
    /\ UNCHANGED <<durable, host, faults>>

\* libvirt undefines a running domain too: it stays as a transient one.
DeleteUndefine(p) ==
    /\ pc[p] = "delete_undefine_call"
    /\ domain' = IF DomainRunning
                 THEN [domain EXCEPT !.persistent = FALSE, !.disk = NoGen]
                 ELSE NoDomain
    /\ Branch(p, domain.persistent, "delete_undefine_verify")
    /\ UNCHANGED <<durable, volume, faults>>

\* Mutant: the undefine is believed, not observed.
DeleteTrustUndefine(p) ==
    /\ pc[p] = "delete_undefine_verify"
    /\ Goto(p, "delete_domain_compare")
    /\ UNCHANGED <<durable, host, faults>>

DeleteVerifyUndefined(p) ==
    /\ pc[p] = "delete_undefine_verify"
    /\ Branch(p, ~DomainPresent, "delete_domain_compare")
    /\ UNCHANGED <<durable, host, faults>>

DeleteDomainCompare(p) ==
    CompareIndex(p, "delete_domain_compare", "delete_domain_write")

DeleteDomainWrite(p) ==
    /\ pc[p] = "delete_domain_write"
    /\ CanRecordDomainAbsent(view[p])
    /\ LET next == RecordDomainAbsent(view[p])
       IN  WriteIndex(p, next, AfterDomain(next))

-----------------------------------------------------------------------------
(* The volumes, one checkpoint each *)

\* Mutant: the resume after a crash takes a missing volume for an error.
DeleteVolumeStrict(p) ==
    /\ pc[p] = "delete_volume"
    /\ LET v == <<view[p].delete.plan, NextRole(view[p])>>
       IN  /\ volume' = volume \ {v}
           /\ Branch(p, v \in volume, "delete_volume_compare")
    /\ UNCHANGED <<durable, domain, faults>>

\* Mutant: volumes may go before the domain that names them.
DeleteVolumeEarly(p) ==
    /\ pc[p] \in {"delete_domain", "delete_volume"}
    /\ volume' = volume \ {<<view[p].delete.plan, NextRole(view[p])>>}
    /\ Goto(p, "delete_volume_compare")
    /\ UNCHANGED <<durable, domain, faults>>

\* delete_managed_volume_exact refuses a volume some domain names; a volume
\* that is already gone fails in libvirt and is then verified absent.
DeleteVolume(p) ==
    /\ pc[p] = "delete_volume"
    /\ LET g == view[p].delete.plan
       IN  /\ volume' = IF VolumeReferenced(g) THEN volume
                        ELSE volume \ {<<g, NextRole(view[p])>>}
           /\ Branch(p, ~VolumeReferenced(g), "delete_volume_compare")
    /\ UNCHANGED <<durable, domain, faults>>

DeleteVolumeCompare(p) ==
    CompareIndex(p, "delete_volume_compare", "delete_volume_write")

DeleteVolumeWrite(p) ==
    /\ pc[p] = "delete_volume_write"
    /\ CanRecordResourceAbsent(view[p], NextRole(view[p]))
    /\ LET next == RecordResourceAbsent(view[p], NextRole(view[p]))
       IN  WriteIndex(p, next, AfterDomain(next))

\* The tombstone.
DeleteFinishCompare(p) ==
    CompareIndex(p, "delete_finish_compare", "delete_finish_write")

DeleteFinishWrite(p) ==
    /\ pc[p] = "delete_finish_write"
    /\ CanCompleteDelete(view[p])
    /\ WriteIndexAndStop(p, CompleteDelete(view[p]))

-----------------------------------------------------------------------------

\* The steps of a command that has published, or found, the intent.
DeleteStep(p) ==
    \/ DeleteConfirm(p)
    \/ DeleteIntentCompare(p)
    \/ DeleteIntentWrite(p)
    \/ DeleteObserve(p)
    \/ DeleteForceStop(p)
    \/ DeleteReobserve(p)
    \/ DeleteAuthorize(p)
    \/ DeleteUndefine(p)
    \/ DeleteVerifyUndefined(p)
    \/ DeleteDomainCompare(p)
    \/ DeleteDomainWrite(p)
    \/ DeleteVolume(p)
    \/ DeleteVolumeCompare(p)
    \/ DeleteVolumeWrite(p)
    \/ DeleteFinishCompare(p)
    \/ DeleteFinishWrite(p)

DeleteCommand(p) ==
    \/ \E forced \in BOOLEAN : DeletePlan(p, forced) \/ DeleteResume(p, forced)
    \/ DeleteStep(p)

-----------------------------------------------------------------------------
(* Deletions alone: any number of them at once, crashes, and a guest that  *)
(* may be running or be started in between.                                *)

DeleteInit == SettledInit

DeleteNext ==
    \/ \E p \in Proc : DeleteCommand(p) \/ Crash(p)
    \/ PowerOn
    \/ PowerOff

DeleteSpec == DeleteInit /\ [][DeleteNext]_hostVars

\* A process that runs takes its next step.  The user who reads "retry forge
\* delete to resume the immutable plan" and "rerun with --force" does so in
\* the end, whatever else is tried in between: hence the strong fairness.
DeleteFairness ==
    /\ \A p \in Proc : WF_hostVars(DeleteStep(p))
    /\ SF_hostVars(\E p \in Proc : DeleteResume(p, TRUE))

FairDeleteSpec == DeleteSpec /\ DeleteFairness

-----------------------------------------------------------------------------
(* Properties *)

\* Types: the index on disk and every index a running process holds are well
\* formed, and a process is at one of the steps of deletion.
DeleteTypeOK == HostTypeOK(DeleteLabels)

\* "Publishes deletion intent before any domain or storage mutation"
\* (begin_instance_delete): while no intent is on disk, the domain and every
\* volume of the Active generation exist, whatever other deletions of the
\* same instance are doing.
IntentBeforeDestruction ==
    index.delete.phase = "None" =>
        DomainPresent /\ VolumesOf(index.active) \subseteq volume

\* A checkpoint on disk is true of libvirt, even when a slower process writes
\* an older checkpoint over a newer one: the recorded domain is gone, every
\* resource recorded absent is gone, and after the tombstone nothing is left.
CheckpointsAreTrue ==
    index.delete.phase # "None" =>
        /\ index.delete.domain = "Absent" => ~DomainPresent
        /\ \A r \in Disposable(index.active) \ index.delete.pending :
               <<index.active, r>> \notin volume
        /\ index.delete.phase = "Deleted" =>
               \A r \in Role : <<index.active, r>> \notin volume

-----------------------------------------------------------------------------
(* Why the three invariants hold: an inductive invariant *)

\* What an index says about a deletion is true of libvirt, and stays true:
\* nothing in a deletion brings a domain or a volume back.
Truthful(i) ==
    /\ ValidDeletePlan(i)
    /\ i.delete.phase # "None" =>
           /\ i.delete.domain = "Absent" => ~DomainPresent
           /\ \A r \in Disposable(i.active) \ i.delete.pending :
                  <<i.active, r>> \notin volume
    /\ i.delete.phase = "Deleted" =>
           i.delete.domain = "Absent" /\ i.delete.pending = {}

\* The steps before the intent is published.
BeforeIntent == {"delete_confirm", "delete_intent_compare",
                 "delete_intent_write"}

\* What a process knows at each of its steps, however stale its index is.
Justified(p) ==
    pc[p] # "idle" =>
        /\ view[p].active = index.active
        /\ Truthful(view[p])
        /\ pc[p] \in BeforeIntent =>
               view[p].delete.phase = "None"
        /\ pc[p] \notin BeforeIntent =>
               view[p].delete.phase = "Deleting" /\ index.delete.phase # "None"
        /\ pc[p] \in {"delete_domain_compare", "delete_domain_write"} =>
               ~DomainPresent
        /\ pc[p] \in {"delete_volume", "delete_volume_compare",
                      "delete_volume_write", "delete_finish_compare",
                      "delete_finish_write"} =>
               view[p].delete.domain = "Absent"
        /\ pc[p] \in {"delete_volume_compare", "delete_volume_write"} =>
               <<index.active, NextRole(view[p])>> \notin volume

\* The domain is bound to the Active generation and keeps its disks; without
\* an intent on disk it is there and persistent.
HostSound ==
    /\ \A v \in volume : v[2] \in Disposable(v[1])
    /\ DomainPresent => VolumesOf(index.active) \subseteq volume
    /\ DomainShutoff => domain.persistent /\ domain.disk = index.active
    /\ DomainRunning => /\ domain.live = index.active
                        /\ domain.persistent => domain.disk = index.active
    /\ index.delete.phase = "None" => DomainPresent /\ domain.persistent

\* The conjunction is inductive; it implies IntentBeforeDestruction,
\* CheckpointsAreTrue and NoDomainOnMissingVolumes.
DeleteInv ==
    /\ Truthful(index)
    /\ HostSound
    /\ \A p \in Proc : Justified(p)

-----------------------------------------------------------------------------

\* When commands do not overlap, the progress of a deletion is never taken
\* back by a resume: the plan stays, an absent domain or resource stays
\* absent on record, and the tombstone is final.
CheckpointsOnlyAdvance ==
    [][index.delete.phase # "None" =>
         /\ index'.delete.plan = index.delete.plan
         /\ index'.delete.phase \in {index.delete.phase, "Deleted"}
         /\ index.delete.domain = "Absent" => index'.delete.domain = "Absent"
         /\ index'.delete.pending \subseteq index.delete.pending]_index

\* A deletion whose intent is on disk completes, through crashes and guests
\* started in between, as long as the user keeps retrying it.
DeletionCompletes ==
    index.delete.phase = "Deleting" ~> index.delete.phase = "Deleted"

\* Deletion implements the abstract removal.  Overlapping deletions can take
\* a report back, and nothing else.
Removal == INSTANCE OwnedRemoval WITH
    Item <- Role,
    Reopens <- ~Sequential,
    intended <- index.delete.phase # "None",
    present <- {r \in Role : <<index.active, r>> \in volume}
               \cup {d \in {"domain"} : DomainPresent},
    reported <- index.delete.phase = "Deleted"

\* Every step of every deletion is a step of OwnedRemoval or changes nothing
\* it can see: intent first, then the domain, then the disks, then the report.
RemovalSpec == Removal!Spec
=============================================================================
