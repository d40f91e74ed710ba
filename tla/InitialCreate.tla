---------------------------- MODULE InitialCreate ----------------------------
(***************************************************************************)
(* "forge vm create", "forge vm clone" and the recovery of a first         *)
(* create: execute_generic_create of crates/forge-storage/src/             *)
(* generic_create.rs with ManualGuestCreateBackend and                     *)
(* recover_initial_create of crates/forge-cli/src/main.rs.                 *)
(*                                                                         *)
(* Many instances share one base volume.  Nothing records who imported it  *)
(* or who needs it: a create that finds it reuses it only when a durable   *)
(* consumer proves it, and a create that imported it removes it again when *)
(* it fails before its manifest is published.                              *)
(***************************************************************************)
EXTENDS GenerationIndex, Naturals

CONSTANTS
    Inst,       \* names of instances
    Flat,       \* the generations that a clone makes: full copies, no base
    Proc,       \* invocations of forge that may run at the same time
    Fault,      \* the kinds of fault of a run
    MaxFaults,  \* bound on their number
    NoInst,     \* "no name in hand"
    NoIndex     \* no index.json

ASSUME FlatAssumption == Flat \subseteq Gen
ASSUME NoInstAssumption == NoInst \notin Inst
ASSUME FaultBoundAssumption == MaxFaults \in Nat

VARIABLES
    index,    \* index.json of every instance
    dir,      \* the instances whose generations directory exists
    files,    \* its entries: <<generation, "json">> and <<generation, "tmp">>
    domain,   \* the generation the domain of a name is defined for
    overlay,  \* the generations whose overlay is in the pool
    base,     \* the shared base volume
    pc,       \* the next step of each process
    name,     \* the instance it works on
    target,   \* the generation it creates or recovers
    origin,   \* a clone: the generation it copies
    made,     \* the flags base_created and overlay_created
    faults    \* faults so far

state   == <<index, dir, files>>
storage == <<overlay, base>>
memory  == <<pc, name, target, origin, made>>
createVars == <<state, domain, storage, memory, faults>>

CreateLabels ==
    {"create_revalidate", "create_import", "create_upload", "create_reprove",
     "create_overlay", "create_copy", "create_inspect", "create_publish",
     "create_rename", "create_rollback", "create_rollback_base",
     "create_define", "create_activate", "create_activate_write",
     "recover_confirm", "recover_write"}

-----------------------------------------------------------------------------
(* Observations *)

\* inspect_layout and inspect_initial_create_recovery.
Layout(i) ==
    IF index[i] # NoIndex THEN "Current"
    ELSE IF i \notin dir THEN "Missing"
    ELSE IF \E g \in Gen : files[i] = {<<g, "json">>}
         THEN "InitialCreateRecoveryRequired"
    ELSE "Conflict"

\* Every volume the manifest of g names exists.
ResourcesExist(g) == g \in overlay /\ (g \notin Flat => base # "absent")

\* Reconciliation of a Current instance with libvirt.
Consistent(i) ==
    /\ domain[i] = index[i].active
    /\ ResourcesExist(index[i].active)

Consumers == {i \in Inst : index[i] # NoIndex /\ index[i].active \notin Flat}

\* Mutant: a base that exists is good enough.
ExistingBase == base # "absent"

\* existing_shared_base_proof: some consumer, and every consumer that is not
\* a tombstone is Consistent.
ProvenBase ==
    /\ base # "absent"
    /\ Consumers # {}
    /\ \A i \in Consumers : index[i].delete.phase # "Deleted" => Consistent(i)

\* validate_manual_guest_create_target_preconditions, what is specific to the
\* instance.
TargetAbsent(i, g) ==
    /\ Layout(i) = "Missing"
    /\ domain[i] = NoGen
    /\ g \notin overlay

\* Generation ids are random.
UnusedGeneration(g) ==
    /\ g \notin overlay
    /\ \A i \in Inst : files[i] \cap ({g} \X {"json", "tmp"}) = {}
    /\ \A p \in Proc : target[p] # g

\* plan_initial_create_recovery, with the manifest and domain of g observed.
Recoverable(i, g) ==
    /\ Layout(i) = "InitialCreateRecoveryRequired"
    /\ <<g, "json">> \in files[i]
    /\ domain[i] = g
    /\ ResourcesExist(g)

-----------------------------------------------------------------------------
(* Steps of a process *)

Start(p, label, i, g, from) ==
    /\ pc[p] = "idle"
    /\ pc' = [pc EXCEPT ![p] = label]
    /\ name' = [name EXCEPT ![p] = i]
    /\ target' = [target EXCEPT ![p] = g]
    /\ origin' = [origin EXCEPT ![p] = from]
    /\ UNCHANGED <<state, domain, storage, made, faults>>

Goto(p, label) ==
    /\ pc' = [pc EXCEPT ![p] = label]
    /\ UNCHANGED <<name, target, origin, made>>

\* The next step, with the flag of a resource that was just created.
GotoWith(p, label, resource) ==
    /\ pc' = [pc EXCEPT ![p] = label]
    /\ made' = [made EXCEPT ![p] = @ \cup {resource}]
    /\ UNCHANGED <<name, target, origin>>

Stop(p) ==
    /\ pc' = [pc EXCEPT ![p] = "idle"]
    /\ name' = [name EXCEPT ![p] = NoInst]
    /\ target' = [target EXCEPT ![p] = NoGen]
    /\ origin' = [origin EXCEPT ![p] = NoGen]
    /\ made' = [made EXCEPT ![p] = {}]

Strike(kind) ==
    /\ kind \in Fault
    /\ faults < MaxFaults
    /\ faults' = faults + 1

Crash(p) ==
    /\ pc[p] # "idle"
    /\ Strike("crash")
    /\ Stop(p)
    /\ UNCHANGED <<state, domain, storage>>

-----------------------------------------------------------------------------
(* Planning and revalidation *)

CreatePlan(p, i, g) ==
    /\ g \notin Flat
    /\ UnusedGeneration(g)
    /\ TargetAbsent(i, g)
    /\ Start(p, "create_revalidate", i, g, NoGen)

\* resolve_clone_source: operational, shut off, and with a backing chain.
ClonePlan(p, i, s, g) ==
    /\ g \in Flat
    /\ UnusedGeneration(g)
    /\ TargetAbsent(i, g)
    /\ index[s] # NoIndex
    /\ NormalLifecycle(index[s])
    /\ Consistent(s)
    /\ index[s].active \notin Flat
    /\ Start(p, "create_revalidate", i, g, index[s].active)

\* A clone reconciles the source index it read when it was planned.
CloneSourceUnchanged(p) ==
    /\ \E s \in Inst : domain[s] = origin[p]
    /\ ResourcesExist(origin[p])

\* revalidate_targets.  The user may decline, and the pool, the network or the
\* image may be unusable; nothing is rolled back then.
CreateRevalidate(p) ==
    /\ pc[p] = "create_revalidate"
    /\ \/ Stop(p)
       \/ /\ TargetAbsent(name[p], target[p])
          /\ \/ /\ origin[p] # NoGen
                /\ CloneSourceUnchanged(p)
                /\ Goto(p, "create_copy")
             \/ /\ origin[p] = NoGen
                /\ base = "absent"
                /\ Goto(p, "create_import")
             \/ /\ origin[p] = NoGen
                /\ ProvenBase
                /\ Goto(p, "create_reprove")
    /\ UNCHANGED <<state, domain, storage, faults>>

-----------------------------------------------------------------------------
(* prepare_storage *)

\* Mutant: the base counts as created as soon as its import is attempted.
CreateImportFlagged(p) ==
    /\ pc[p] = "create_import"
    /\ base' = IF base = "absent" THEN "partial" ELSE base
    /\ GotoWith(p, IF base = "absent" THEN "create_upload"
                   ELSE "create_rollback", "base")
    /\ UNCHANGED <<state, domain, overlay, faults>>

\* import_base, the volume: libvirt refuses a name that exists.
CreateImport(p) ==
    /\ pc[p] = "create_import"
    /\ base' = IF base = "absent" THEN "partial" ELSE base
    /\ Goto(p, IF base = "absent" THEN "create_upload" ELSE "create_rollback")
    /\ UNCHANGED <<state, domain, overlay, faults>>

\* import_base, the content.  A failed upload deletes the volume if it can; an
\* error after the upload leaves it, and base_created is not set.
CreateUpload(p) ==
    /\ pc[p] = "create_upload"
    /\ \/ /\ base' = "complete"
          /\ GotoWith(p, "create_overlay", "base")
          /\ UNCHANGED faults
       \/ /\ base' \in {"absent", "partial", "complete"}
          /\ Goto(p, "create_rollback")
          /\ Strike("backend")
    /\ UNCHANGED <<state, domain, overlay>>

CreateReprove(p) ==
    /\ pc[p] = "create_reprove"
    /\ Goto(p, IF ProvenBase THEN "create_overlay" ELSE "create_rollback")
    /\ UNCHANGED <<state, domain, storage, faults>>

\* A new overlay volume: on the base, or a flat copy of the source.  A volume
\* that is made by a call that fails has no flag.
MakeOverlay(p, possible) ==
    /\ \/ /\ possible
          /\ overlay' = overlay \cup {target[p]}
          /\ GotoWith(p, "create_inspect", "overlay")
          /\ UNCHANGED faults
       \/ /\ ~possible
          /\ Goto(p, "create_rollback")
          /\ UNCHANGED <<overlay, faults>>
       \/ /\ possible
          /\ overlay' \in {overlay, overlay \cup {target[p]}}
          /\ Goto(p, "create_rollback")
          /\ Strike("backend")
    /\ UNCHANGED <<state, domain, base>>

CreateOverlay(p) ==
    /\ pc[p] = "create_overlay"
    /\ MakeOverlay(p, base # "absent")

\* clone_flattened_volume.
CreateCopy(p) ==
    /\ pc[p] = "create_copy"
    /\ MakeOverlay(p, origin[p] \in overlay)

-----------------------------------------------------------------------------
(* Ownership *)

CreateInspect(p) ==
    /\ pc[p] = "create_inspect"
    /\ \/ /\ ResourcesExist(target[p])
          /\ Goto(p, "create_publish")
          /\ UNCHANGED faults
       \/ /\ ~ResourcesExist(target[p])
          /\ Goto(p, "create_rollback")
          /\ UNCHANGED faults
       \/ /\ Goto(p, "create_rollback")
          /\ Strike("backend")
    /\ UNCHANGED <<state, domain, storage>>

\* publish_initial_preparing looks for an index and for its own file, then
\* write_manifest_atomic makes the directory and the temporary file.
CreatePublish(p) ==
    /\ pc[p] = "create_publish"
    /\ LET i == name[p]
       IN  \/ /\ index[i] = NoIndex
              /\ dir' = dir \cup {i}
              /\ files' = [files EXCEPT ![i] = @ \cup {<<target[p], "tmp">>}]
              /\ Goto(p, "create_rename")
              /\ UNCHANGED faults
           \/ /\ index[i] # NoIndex
              /\ Goto(p, "create_rollback")
              /\ UNCHANGED <<dir, files, faults>>
           \/ /\ dir' \in {dir, dir \cup {i}}
              /\ Goto(p, "create_rollback")
              /\ Strike("backend")
              /\ UNCHANGED files
    /\ UNCHANGED <<index, domain, storage>>

\* Mutant: the domain is defined although the manifest was not published.
CreateRenameUnchecked(p) ==
    /\ pc[p] = "create_rename"
    /\ files' = [files EXCEPT ![name[p]] = @ \ {<<target[p], "tmp">>}]
    /\ Goto(p, "create_define")
    /\ UNCHANGED <<index, dir, domain, storage, faults>>

\* An error removes the temporary file; an error after the rename is too late.
CreateRename(p) ==
    /\ pc[p] = "create_rename"
    /\ LET rest == files[name[p]] \ {<<target[p], "tmp">>}
           published == rest \cup {<<target[p], "json">>}
       IN  \/ /\ files' = [files EXCEPT ![name[p]] = published]
              /\ \/ Goto(p, "create_define") /\ UNCHANGED faults
                 \/ Goto(p, "create_rollback") /\ Strike("late")
           \/ /\ files' = [files EXCEPT ![name[p]] = rest]
              /\ Goto(p, "create_rollback")
              /\ Strike("backend")
    /\ UNCHANGED <<index, dir, domain, storage>>

\* rollback_before_ownership: a delete that fails does not stop the next one.
CreateRollback(p) ==
    /\ pc[p] = "create_rollback"
    /\ \/ /\ overlay' = IF "overlay" \in made[p] THEN overlay \ {target[p]}
                        ELSE overlay
          /\ UNCHANGED faults
       \/ UNCHANGED overlay /\ "overlay" \in made[p] /\ Strike("backend")
    /\ Goto(p, "create_rollback_base")
    /\ UNCHANGED <<state, domain, base>>

CreateRollbackBase(p) ==
    /\ pc[p] = "create_rollback_base"
    /\ \/ /\ base' = IF "base" \in made[p] THEN "absent" ELSE base
          /\ UNCHANGED faults
       \/ UNCHANGED base /\ "base" \in made[p] /\ Strike("backend")
    /\ Stop(p)
    /\ UNCHANGED <<state, domain, overlay>>

-----------------------------------------------------------------------------
(* After ownership: an error leaves the recovery boundary behind *)

\* libvirt refuses to define a name that has another UUID.
CreateDefine(p) ==
    /\ pc[p] = "create_define"
    /\ \/ /\ domain[name[p]] = NoGen
          /\ domain' = [domain EXCEPT ![name[p]] = target[p]]
          /\ Goto(p, "create_activate")
          /\ UNCHANGED faults
       \/ /\ domain[name[p]] # NoGen
          /\ Stop(p)
          /\ UNCHANGED <<domain, faults>>
       \/ /\ domain[name[p]] = NoGen
          /\ domain' \in {domain, [domain EXCEPT ![name[p]] = target[p]]}
          /\ Stop(p)
          /\ Strike("backend")
    /\ UNCHANGED <<state, storage>>

\* inspect_defined and the checks of activate_initial_generation.
CreateActivate(p) ==
    /\ pc[p] = "create_activate"
    /\ LET i == name[p]
       IN  IF /\ index[i] = NoIndex
              /\ <<target[p], "json">> \in files[i]
              /\ domain[i] = target[p]
              /\ ResourcesExist(target[p])
           THEN Goto(p, "create_activate_write")
           ELSE Stop(p)
    /\ UNCHANGED <<state, domain, storage, faults>>

WriteInitialIndex(p) ==
    /\ index' = [index EXCEPT ![name[p]] = InitialIndex(target[p])]
    /\ Stop(p)
    /\ UNCHANGED <<dir, files, domain, storage, faults>>

CreateActivateWrite(p) ==
    /\ pc[p] = "create_activate_write"
    /\ WriteInitialIndex(p)

-----------------------------------------------------------------------------
(* forge state recover, initial boundary *)

RecoverPlan(p, i, g) ==
    /\ Recoverable(i, g)
    /\ Start(p, "recover_confirm", i, g, NoGen)

RecoverConfirm(p) ==
    /\ pc[p] = "recover_confirm"
    /\ \/ Stop(p)
       \/ Recoverable(name[p], target[p]) /\ Goto(p, "recover_write")
    /\ UNCHANGED <<state, domain, storage, faults>>

RecoverWrite(p) ==
    /\ pc[p] = "recover_write"
    /\ WriteInitialIndex(p)

-----------------------------------------------------------------------------
(* Deletions of instances, in the steps of OwnedRemoval.  The user deletes  *)
(* an instance that no create or recovery is working on.                   *)

Unattended(i) == \A p \in Proc : name[p] # i

DeleteIntend(i) ==
    /\ Unattended(i)
    /\ index[i] # NoIndex
    /\ Consistent(i)
    /\ CanBeginDelete(index[i])
    /\ index' = [index EXCEPT ![i] = BeginDelete(index[i])]
    /\ UNCHANGED <<dir, files, domain, storage, memory, faults>>

Deleting(i) == index[i] # NoIndex /\ index[i].delete.phase = "Deleting"

DeleteRemoveDomain(i) ==
    /\ Deleting(i)
    /\ domain[i] # NoGen
    /\ domain' = [domain EXCEPT ![i] = NoGen]
    /\ UNCHANGED <<state, storage, memory, faults>>

DeleteRemoveOverlay(i) ==
    /\ Deleting(i)
    /\ domain[i] = NoGen
    /\ index[i].active \in overlay
    /\ overlay' = overlay \ {index[i].active}
    /\ UNCHANGED <<state, domain, base, memory, faults>>

DeleteReport(i) ==
    /\ Deleting(i)
    /\ domain[i] = NoGen
    /\ index[i].active \notin overlay
    /\ index' = [index EXCEPT
                   ![i].delete = [@ EXCEPT !.phase = "Deleted",
                                           !.domain = "Absent",
                                           !.pending = {}]]
    /\ UNCHANGED <<dir, files, domain, storage, memory, faults>>

-----------------------------------------------------------------------------

CreateCommand(p) ==
    \/ \E i \in Inst, g \in Gen :
           \/ CreatePlan(p, i, g)
           \/ RecoverPlan(p, i, g)
           \/ \E s \in Inst \ {i} : ClonePlan(p, i, s, g)
    \/ CreateRevalidate(p)
    \/ CreateImport(p)
    \/ CreateUpload(p)
    \/ CreateReprove(p)
    \/ CreateOverlay(p)
    \/ CreateCopy(p)
    \/ CreateInspect(p)
    \/ CreatePublish(p)
    \/ CreateRename(p)
    \/ CreateRollback(p)
    \/ CreateRollbackBase(p)
    \/ CreateDefine(p)
    \/ CreateActivate(p)
    \/ CreateActivateWrite(p)
    \/ RecoverConfirm(p)
    \/ RecoverWrite(p)

\* A host on which forge has created nothing yet.
CreateInit ==
    /\ index = [i \in Inst |-> NoIndex]
    /\ dir = {}
    /\ files = [i \in Inst |-> {}]
    /\ domain = [i \in Inst |-> NoGen]
    /\ overlay = {}
    /\ base = "absent"
    /\ pc = [p \in Proc |-> "idle"]
    /\ name = [p \in Proc |-> NoInst]
    /\ target = [p \in Proc |-> NoGen]
    /\ origin = [p \in Proc |-> NoGen]
    /\ made = [p \in Proc |-> {}]
    /\ faults = 0

CreateNext ==
    \/ \E p \in Proc : CreateCommand(p) \/ Crash(p)
    \/ \E i \in Inst : \/ DeleteIntend(i)
                       \/ DeleteRemoveDomain(i)
                       \/ DeleteRemoveOverlay(i)
                       \/ DeleteReport(i)

CreateSpec == CreateInit /\ [][CreateNext]_createVars

-----------------------------------------------------------------------------
(* Properties *)

\* Types.
CreateTypeOK ==
    /\ index \in [Inst -> Index \cup {NoIndex}]
    /\ dir \subseteq Inst
    /\ files \in [Inst -> SUBSET (Gen \X {"json", "tmp"})]
    /\ domain \in [Inst -> Gen \cup {NoGen}]
    /\ overlay \subseteq Gen
    /\ base \in {"absent", "partial", "complete"}
    /\ pc \in [Proc -> CreateLabels \cup {"idle"}]
    /\ name \in [Proc -> Inst \cup {NoInst}]
    /\ target \in [Proc -> Gen \cup {NoGen}]
    /\ origin \in [Proc -> Gen \cup {NoGen}]
    /\ made \in [Proc -> SUBSET {"base", "overlay"}]
    /\ faults \in 0..MaxFaults

\* What an index promises of an instance that nobody deletes is there: its
\* manifest, its domain, its overlay and, unless it is a clone, the complete
\* shared base, whatever creates, clones, recoveries, rollbacks and deletions
\* of any instance run beside each other.
ActiveIsBacked ==
    \A i \in Inst :
        index[i] # NoIndex /\ index[i].delete.phase = "None" =>
            LET g == index[i].active
            IN  /\ <<g, "json">> \in files[i]
                /\ domain[i] = g
                /\ g \in overlay
                /\ g \notin Flat => base = "complete"

\* A domain forge defines is always owned: its manifest is published in the
\* directory of its name before it is defined, and no index of that name ever
\* names another generation.
DomainsAreOwned ==
    \A i \in Inst :
        domain[i] # NoGen =>
            /\ <<domain[i], "json">> \in files[i]
            /\ index[i] # NoIndex => index[i].active = domain[i]

\* The creates that have proved or imported the base and build on it.
BuildsOnBase(q) ==
    /\ origin[q] = NoGen
    /\ pc[q] \in {"create_overlay", "create_inspect", "create_publish",
                  "create_rename", "create_define", "create_activate",
                  "create_activate_write"}

\* A rollback that removes the shared base takes it away from nobody else: no
\* index names a generation on it, not even a tombstone whose evidence a later
\* create may use, no interrupted create that can still be recovered needs it,
\* and no other create has proved it and builds on it.
RollbackSparesOthers ==
    [][base = "complete" /\ base' = "absent" =>
         /\ Consumers = {}
         /\ \A i \in Inst, g \in Gen \ Flat : ~Recoverable(i, g)
         /\ \A q \in Proc : ~BuildsOnBase(q)]_base
=============================================================================
