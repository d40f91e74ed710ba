# Forge V2.5 in TLA+

A verification project for Forge, a Rust command-line tool that keeps
persistent virtual machines as *generations* of libvirt volumes. The modules
model the commands that create, replace, clean up and delete such machines, as
the source under `src/crates` performs them, and TLC and TLAPS check what those
commands promise. `PROJECT.json` maps every definition to the lines it models.

## 1. Inventory

### Parts, their state and their operations

| Part | Source | State | Operations |
| --- | --- | --- | --- |
| Generation index | `forge-state/src/managed.rs` | `index.json`: Active id, one status per generation, cleanup progress, delete state | pure transitions (`begin_*`, `record_*`, `complete_*`, `add_preparing`, `finalize_switch`, `mark_failed`), `validate_index`, `reconcile_managed` |
| Manifests | `forge-state` | `generations/<id>.json`, immutable | `publish_initial_preparing`, `write_manifest_atomic` |
| Host | libvirt | the domain of an instance, volumes of the pool | define, undefine, create, delete, start, stop |
| Delete | `forge-cli/src/main.rs`, `forge-libvirt` | delete state of the index | plan, confirm, intent, force stop, undefine, delete volumes, tombstone, resume |
| Fresh | `forge-storage/src/fresh.rs`, `main.rs` | Preparing entry of the index | create overlay, publish Preparing, redefine, switch; restore-old |
| Cleanup | `managed.rs`, `main.rs` | cleanup progress | plan, begin, delete seed, delete overlay, complete |
| Create, clone | `forge-storage/src/generic_create.rs`, `main.rs` | flags of the running process; Preparing manifest without index | revalidate, import base, make overlay, publish, define, activate, roll back; initial recovery |
| Power | `main.rs` (`lifecycle_action`), `forge-provisioning` | none of its own | start, shutdown, force stop |
| Workstation preparation | `forge-images/src/preparation.rs`, `main.rs` | one record file, a staging disk, a medium and a preparation domain per identity, the canonical base | prepare, start, continue, confirm installed, confirm graphical, promote, status, abort |
| Images | `forge-images/src/lib.rs`, `main.rs` | archives, extraction roots, intents, prepared images, metadata | fetch, authenticate, extract, publish, prove, import, recover |
| Planning | `forge-profiles`, `forge-hardware`, `forge-domain`, `forge-core`, `forge-storage/src/lib.rs`, `main.rs` | none on disk; what one command proved and holds across the prompt | plan, dry run, create and clone up to the execute boundary |
| Reports | `forge-doctor`, `forge-host` | none | read only |
| Legacy product | `forge-state/src/lib.rs`, `main.rs` | fedora-lab transaction journal | retired commands, refuse |

### How the parts interact

Every command is a process of its own. It reads the index and the manifests,
asks libvirt, plans, shows the plan, asks the user, and **takes the whole
snapshot again** before the first change. From then on it alternates between a
libvirt call and a write of the index. There is no lock on the state
directory: most writers re-read the file and compare it with the value they
hold before they write (`persist_delete_index`, `CleanupExecutor::persist_index`,
`KaliFreshBackend::activate`, `publish_failed`), but comparison and write are
two steps, and `publish_preparing`, `activate_initial_generation` and the
initial recovery do not compare at the moment of the write. Two instances meet
in the shared base volume only, and a Whonix Workstation in its Gateway.

A create goes through four parts in turn: it plans and proves its sources
(planning), fetches and proves the image (images), looks again at everything
(planning) and mutates (create). A Fedora Workstation starts from the base that
the guided preparation promoted.

### What is hard

* crashes between a libvirt call and its checkpoint, and between the two files
  of a publication;
* two commands of one instance that both passed their revalidation;
* guests started or stopped by someone else in between (libvirt undefines and
  redefines running guests without complaint, and leaves transient domains);
* errors that come after the effect (`atomic_bytes` after its rename, volume
  creation after the volume exists);
* rollbacks that delete volumes by name while others may use them;
* a preparation that is half done by an operator outside of forge, over days;
* files that are downloaded, authenticated, digested and opened one after
  another by path;
* proofs that are hours old when a create reaches its boundary.

`PROJECT.json` lists each of these, at its line, under `hazards`.

### What makes each part correct

* **Delete**: intent before destruction; the domain before the disks; every
  checkpoint true; resumable until the tombstone; the tombstone final.
* **Fresh**: index and domain never name different generations outside of the
  boundary; the old generation survives; restore-old can always lead back.
* **Cleanup**: only recorded, Retained generations lose volumes; the record of
  a partial failure is true.
* **Create**: an index promises only what exists; the base is reused only when
  proven and removed only when nobody relies on it.
* **Power**: a guest is started only on the Active disk, between boundaries.
* **Preparation**: whatever forge made stays on record; the installed disk is
  started once and deleted only behind its copy.
* **Images**: what is imported is what was proven, and what was proven is what
  was signed unless two creates overlap; a published image is never overwritten;
  nothing unpacked is left without an intent.
* **Planning**: what passes the boundary is current, within its profile, bound
  to its own profile; and a request with every reason to succeed does succeed.
* **Together**: at most one kind of boundary per instance; no volume is lost
  without a reason on record.

## 2. Modules

| Module | Models |
| --- | --- |
| `GenerationIndex` | index values, validation, reconciliation, all transitions as pairs `CanX` (guards) and `X` (result) |
| `ManagedHost` | files, domain, volumes, process memory, crash, power, `CompareIndex` and `WriteIndex` as separate steps, settled initial states |
| `OwnedRemoval` | abstract specification of a deletion: intend, remove the domain, remove disks, report |
| `InstanceDelete` | `forge delete` |
| `FreshReplacement` | `forge vm fresh` and restore-old (`forge state recover`) |
| `RetainedCleanup` | `forge vm cleanup` |
| `PowerControl` | `forge vm start`, `shutdown` and `stop --force` |
| `ManagedLifecycle` | delete, Fresh, restore-old, cleanup and the power commands of one instance together |
| `InitialCreate` | `forge vm create`, `forge vm clone`, initial recovery (`forge state recover`); several instances and the shared base; deletions in the steps of `OwnedRemoval` |
| `WorkstationPreparation` | the guided preparation of the Fedora Workstation base, with its operator |
| `ImageAcquisition` | fetch, authenticate, extract, publish, prove, import and recover the Kali and Whonix images and the Workstation ISO |
| `InstancePlanning` | `forge vm plan`, `create`, its dry run and `clone` up to the execute boundary |
| `MC*` | instances for TLC |
| `ManagedHostProofs`, `VolumeRemovalProofs` (for `InstanceDelete` and `RetainedCleanup`) and one `...Proofs` module for each of `FreshReplacement`, `ManagedLifecycle`, `InitialCreate`, `WorkstationPreparation`, `ImageAcquisition` and `InstancePlanning` | theorems and their proofs |

`InstanceDelete`, `FreshReplacement`, `RetainedCleanup` and `PowerControl` extend
`ManagedHost`, which extends `GenerationIndex`; `ManagedLifecycle` extends all
four.
`InstanceDelete` instantiates `OwnedRemoval` through a refinement mapping:
`intended` is a delete state on disk, `present` the domain and the volumes of
the Active generation that still exist, `reported` the tombstone.

### From code to model

* A Rust function on an index becomes `CanX` and `X`. `CanX` ends with the
  validation of the result, as the source does.
* A command becomes actions with a program counter `pc[p]`, named after the
  step (`delete_undefine`, `fresh_publish`). One action is one observation of
  libvirt or of a file, one change of either, or one decision on a held value.
* `view[p]` is the index the process believes to be on disk; it survives
  between steps, which is what makes stale writers possible.
* A `?` or an early return becomes `Stop(p)`; a libvirt error that only ends a
  command is the same as a `Crash` at that point. Errors with consequences
  (rollback, `IncompleteAfterSeed`) are disjuncts of their own, under the
  fault `backend`; errors after a rename under `late`.
* Names, UUIDs, paths and keys identify a generation and its volumes, so the
  generation stands for all of them. Normalised topologies are abstracted to
  the disk they name.
* `delete_managed_volume_exact` looks for references and then deletes; both
  are one step here, as are the reads of one revalidation.
* `Seeded` are generations with a NoCloud seed. Only the legacy Fedora product
  made them; every present product is without one. Cleanup still handles both.
* `Migrated` are generations whose manifest *file* says Active. Only
  `execute_migration`, reached from the retired rebuild, writes such files;
  create and Fresh write Preparing and never rewrite it.
* `CleanupDomain` is the domain behind the connection of the cleanup executor.
  `"own"` is what `execute_cleanup_candidate` needs; the command line uses
  `"fedora-lab"` (see the findings), so today its cleanup always refuses at
  the revalidation. The passing runs of cleanup are about the library
  function with a fitting backend.
* In `InitialCreate` the pool has one shared base. A base that is uploaded
  only in part has the right name and shape. Nothing in it depends on whether
  a guest runs, so the domain is only the generation it is defined for. The
  promoted Workstation base, which has its own evidence, is not part of it.
* `state recover` is the initial recovery of `InitialCreate` when there is a
  manifest and no index, and the restore-old of `FreshReplacement` otherwise.

**Power.** The three actions of `lifecycle_action` share one plan. An idempotent
result ("already running") ends the command before the question and is no step.
The observation of a started guest (DHCP, agent, SSH) only reads and is left
out; the default network is taken as active.

**Preparation.** `record` is the one state file; `staging`, `iso` and `domain`
are functions of the identity drawn for each preparation. Volume contents are
numbers, 0 blank, and every run of the guest may write a higher one. Refusal,
error, "no" and crash are all `Stop`, since a command rolls nothing back. The
publication of a record is one step (`is_file`, temporary file, rename); a state
file that was created and never filled (preparation.rs:633) is `Torn`. The
pointer to the one historical preparation record cannot arise on a host that
starts without it and is not modelled.

**Images.** A file is the data it holds (`release`, `other`, `half`) and, for a
prepared image, who put it there. A digest or a signature is a comparison of
data. `drift[p]` says that a file whose identity (inode, times, links) process
`p` has captured was written or replaced since: what the code finds when it
compares identities. Unpacking is one step, because the archive formats carry
checksums of their members; so is link and unlink. `bundle` is chosen once per
run: the files of two bundles are disjoint. The archives are changed by
downloads only, prepared images also by an operator who moves another file into
their place. ISO downloads do not overlap.

**Planning.** One command runs; the host around it changes. Memory is in MiB
(a host has whole MiB) and disks are in GiB; the saturating arithmetic of the
planner is not reached below 2^55 bytes. Numbers in `image`, `source`,
`gateway` stand for the identities of files and of generations: a new number is
another file. Acquisition within a create is reduced to its success, failure
being `Stop`.

## 3. Runs

| Run | Module | Question |
| --- | --- | --- |
| `delete_crash` | `MCInstanceDelete` | one deletion at a time, three crashes or guest starts anywhere: are checkpoints monotone, does a retried deletion complete, is it an `OwnedRemoval`? |
| `delete_concurrent` | `MCInstanceDelete` | two deletions interleaved, two faults: are records true, is intent first, does the inductive invariant hold? |
| `fresh_restore` | `MCFreshReplacement` | Fresh and restore-old with three faults of every kind: do index, domain and volumes agree? |
| `cleanup_concurrent` | `MCRetainedCleanup` | two cleanups interleaved, seeded and flat, with failing deletes |
| `lifecycle_sequential` | `MCManagedLifecycle` | all commands one after another, each interrupted anywhere: do the boundaries exclude each other? |
| `create_shared_base` | `MCInitialCreate` | two processes create, clone and recover three instances on one base |
| `prepare_guided` | `MCWorkstationPreparation` | two preparations one after another, or two commands overlapping on one, under an operator who edits the guest: is everything on record, and is the installed disk safe? |
| `image_acquire` | `MCImageAcquisition` | two commands one after another, interrupted anywhere, or overlapping, beside replaced files: is what is imported authentic and proven? |
| `planning` | `MCInstancePlanning` | every profile, create and clone, two changes of the host at any moment: is what passes current, fitting and well bound, and does what should pass, pass? |
| `fresh_created`, `fresh_window`, `lifecycle_lost_intent` | | findings, below |

**Bounds.** `MaxFaults` bounds crashes, injected errors and guest starts
together. Two generations are enough for a deletion (the Active and one
Cleaned); cleanup gets three, an Active and two others, and Fresh four, an old,
an Active and two new ones, two of them with a manifest that says Active. Two
processes show every race between a comparison and a write, because a write
needs one other writer to be stale.
Initial states of one instance are every settled index: any Active generation,
the others Retained, Cleaned, Failed or unlisted. `InitialCreate` starts from an
empty host; three names are a consumer and two creates beside it, four
generations one for each and a clone; names, processes and generations of one
kind are symmetric there. Deadlock checking is off: a host on which nobody
starts a command rests, and without fresh generation ids no new Fresh or create
can start.

`WorkstationPreparation` starts from a host without a preparation. Two
identities and two addresses show a second preparation after an abort. Commands
run one after another (`alone`), with both identities, or two overlap on one
identity; guests write up to `MaxWrites` versions, and only when commands do not
overlap. `ImageAcquisition` takes two processes and two extraction roots, a
fetch and what comes after or beside it; `alone` is chosen likewise. In
`InstancePlanning` the host changes `MaxChanges` times around one command: one
change to invalidate a proof and one more to restore or to mix. Two hosts are
tried, one with just enough for the small profiles and one on which ratios,
minima, maxima and the rounding to 256 MiB decide. Interrupted acquisitions do
leave states in which every command refuses, and the one command of
`InstancePlanning` ends: there, too, deadlocks are not errors.

**Fairness.** Only `DeletionCompletes` and `UndisturbedIsAccepted` need it.
For the latter, a started command takes its next step unless it is stopped: its
steps wait for nobody, and the answer "no" and every error are among them. For
the former, a process that runs takes its next step (weak fairness of
`DeleteStep`): the code has no wait that another process must end. The user who
is told "retry forge delete to resume the immutable plan" does so again and
again, with `--force` (strong fairness of `DeleteResume(p, TRUE)`, because
guests and other attempts disable it in between). In the other specifications
nothing is fair: no command is started, no guest stopped, no question answered
by assumption. Faults are finite.

**Properties** are described above each definition. The mutants in
`PROJECT.json` each break one, in the way a plausible slip in the mapped code
would.

### Findings

Three runs expect a violation:

* `fresh_created`: restore-old compares the immutable status inside the
  manifest files, which create and Fresh leave at Preparing. After an
  interrupted Fresh of a created instance the demanded recovery refuses.
* `fresh_window`: a crash after the Preparing index and before the new domain
  definition leaves a state no recovery accepts, although the product contract
  asks that any interruption remains recoverable.
* `lifecycle_lost_intent`: `publish_preparing` overwrites the index without a
  comparison and can wipe a deletion intent that is already being acted on.

Other disagreements are stated as definitions that TLC refutes with the named
configuration (or with the passing configuration of that module and this
definition in place of its properties):

* `RollbackOnlyBeforePublication` (`fresh_late.cfg`): an error after the rename
  of the index makes Fresh roll back the overlay of a generation it has just
  published; fresh.rs:527 says "only ... before Preparing publication".
* `RevalidationAcceptsUnchanged` (`cleanup_wiring.cfg`): the cleanup executor
  observes the domain `fedora-lab`, so its revalidation refuses unchanged
  instances of every other name.
* `PromotionIsExact` (`prepare_inexact.cfg`): `prepare-promote` proves the guest
  shut off, waits for the operator, digests the staging disk and copies it
  later, without another look at the domain. A guest that was started (and, if
  qemu's image lock refuses to copy a disk in use, stopped again) changes what
  is copied; preparation.rs:2515 speaks of evidence "after exact promotion".
* `PromotableIsReported` (`prepare_guided.cfg`): at InstalledSystemProven the
  status command wants a running guest, the promotion one that is shut off.
* `PublishedIsAuthentic` (`image_overlap.cfg`): the archive is verified and then
  digested by its path; a second create may download over it in between
  (lib.rs:1809). The metadata then vouches for bytes nobody authenticated.
* `InterruptedIsRecoverable` (`image_acquire.cfg`): the user guide
  (docs/FORGE_V2_5_USER_GUIDE.md:332) names `image recover` for an interrupted
  Workstation preparation; it accepts one window only. An intent without a
  complete root, with a root half removed, or with a promoted image blocks every
  later fetch. Gateway and Kali have no recovery command.
* `BindingIgnoresName` (`planning_binding.cfg`): `validate_profile_binding` takes
  the profile whose identifier equals the instance name before it looks at the
  recorded base; nothing stops a create under such a name, and later commands
  then refuse the instance. The product contract (line 111) says the profile
  must never be inferred from the name. `NeverMisbound` shows that it is
  refused, never given to the wrong profile.

Noticed while modelling, without a property:

* the bundle check of the Whonix pair compares the identity in the Gateway
  metadata with itself (main.rs:6222 and 6360); nothing records the bundle that
  an imported base came from, so it cannot be checked later;
* a dry run refuses when the base exists but the prepared image is gone, where a
  create would fetch the image again; `AcceptedWasPreviewable` holds because a
  create then has fetched it before the boundary; previews look at neither
  targets nor room nor network;
* the reserve is measured against the total memory of the host, so that several
  guests together may exceed it; that is the documented policy;
* two overlapping `prepare-confirm-installed` may lose an update across the
  prompt; a key that is not published yet may collide on the staging name; a
  partial ISO in the pool, a torn record, or a crash at PromotionReady have no
  continuation and no abort; the removal of the staging disk after Promoted is
  not retried;
* a left `.part` file of the ISO refuses later fetches; an error after the link
  of a prepared image leaves it without metadata;
* when an extraction root is made but its permissions or its directory cannot be
  written (`CreateRootFails`), the intent of the Workstation is cleared and the
  empty root stays behind; a later `image recover` of another root finds two and
  refuses them as ambiguous (forge-images/src/lib.rs:2166, 3482 and 2794).

## 4. Proofs

Every theorem holds for any sets of generations, processes, instances or
identities, and for any number of faults; nothing in the proofs uses the bounds
of the runs. Each invariant below was checked by TLC on the run of its module
before it was proved.

Most safety properties are not inductive, for one reason: between two steps of
a command the property says nothing about what the command holds in memory, and
what it holds decides what it does next. Each inductive invariant therefore has
a part about the process: what the label of its next step has already
established, and whether another command can take it away. The proofs have one
lemma per action that names what the action leaves behind, and one lemma that
turns this into the invariant of the whole host.

**Shared** (`ManagedHostProofs`). Each transition of an index that its guards
allow returns a well-typed, valid index (`DeleteTransitionsStayValid`,
`FreshTransitionsStayValid`, `CleanupTransitionsStayValid`), and the steps of
`ManagedHost` (start, go on, stop, compare, write, crash, power) keep the types.

**Deletion** (`VolumeRemovalProofs`, any overlap). `DeleteInv` says that an
index, on disk or in a process, claims only absences that are real: nothing in
a deletion brings a domain or a volume back, so a stale claim stays true. It
gives `IntentBeforeDestruction`, `CheckpointsAreTrue` and
`NoDomainOnMissingVolumes`. Without overlap the process that runs holds the
index on disk (`AloneAndCurrent`), hence progress is never taken back
(`CheckpointsOnlyAdvance`, which assumes `Sequential`). Every step of a
deletion is a step of `OwnedRemoval` or a stutter; with overlap the abstract
report may be reopened, because a slow resume can write an older checkpoint
over the tombstone. The theorem covers both cases, `delete_crash` the first.

**Cleanup** (`VolumeRemovalProofs`, any overlap). `CleanupInv` says the same
of the checkpoints of a cleanup, and that a generation which some index, held or
on disk, still counts as whole is whole. It gives `CleanupRecordsAreTrue`,
`OwnedVolumesExist`, `NoDomainOnMissingVolumes` and `DeletesAreRecorded`.

**Fresh and restore-old** (`FreshReplacementProofs`). Types and
`ListedManifestsExist` hold under any overlap: manifests are never removed and
every index a process holds lists only generations with one (`ManifestsInv`).
The others (`SettledBinding`, `BoundaryBinding`, `OwnedVolumesExist`,
`FailedLeavesNothing`, `SwitchMatchesDomain`) are proved for a user who runs one
command at a time (`ASSUME Sequential`). With overlap they are false: a
restore-old that has passed its comparison can delete the overlay of the
generation that a Fresh is about to activate. `FreshInv` relates the index, the
domain and the overlays and says for each label what libvirt was told.

**All commands of an instance** (`ManagedLifecycleProofs`, one command at a
time, except for the types). The invariants above do not compose as they
stand: each of them knows only the states that its own command leaves.
`LifecycleInv` says what every command may rely on, whatever ran and was
interrupted before (`HostSettles`), and what the one that runs knows at its
label (`CommandKnows`). `HostSettles` has three parts. `BoundariesApart`: a
deletion is recorded only when every other generation is Cleaned or unlisted;
at most one generation is Preparing and it has no seed; at most one cleanup is
unfinished. `DomainSound`: until a deletion is on record the domain exists and
is persistent, and every generation it names or has open is Active or Preparing
and has its volumes. `RecordsTrue`: what the index says of volumes and domain
holds. It gives `OneBoundaryAtATime`, `BoundUntilDeleted`,
`TombstoneLeavesOnlyOrphans`, `OwnedVolumesExist`, `NoDomainOnMissingVolumes`,
`DestructionHasReason` and `StartsAreSettled`. TLC checked `LifecycleInv` on the
instance of `lifecycle_sequential`, and with two processes, four generations and
late faults. With overlap several of them are false, for the reason
`lifecycle_lost_intent` shows.

**Create** (`InitialCreateProofs`, any overlap). `CreateInv` says that a
generation in the hands of a create is new to every file and to every other
process, that the indexes of two names never share a generation, and that
whoever relies on the base (an index, a Preparing manifest that recovery
accepts, a create past its proof) keeps the process that imported it from
removing it. It gives `ActiveIsBacked`, `DomainsAreOwned` and
`RollbackSparesOthers`.

**Preparation** (`WorkstationPreparationProofs`). `PrepInv` ties what a command
holds to the record and to the volumes. `InstalledDiskOutlivesPromotion` is
proved under any overlap; `ResourcesAreRecorded`, `InstalledDiskStartsOnce` and
`StatusNeverGoesBack` say of themselves that commands run one at a time.

**Images** (`ImageAcquisitionProofs`). `ProvenInv` follows the identities that
a process has captured: as long as `drift` is false, the file is the one it
looked at. It gives `ImportedWasProven` and `NeverOverwritten` under any
overlap. `AloneInv` adds that metadata vouches only for signed data and that
roots with content lie beside intents, as long as commands do not overlap; it
gives `ImportedIsAuthentic` and `RootsAreCovered`. An empty root may lie without
an intent (see section 3), which is why `RootsAreCovered` speaks of unpacked ones.

**Planning** (`InstancePlanningProofs`). `PlanFits` holds on every host and for
every profile: the lemmas bound a ratio, its rounding to 256 MiB and the clamps
to minimum and maximum. `PlanningInv` follows the specification and the proofs
that a command carries across the prompt. It gives `NeverMisbound`,
`AcceptedIsCurrent` and `AcceptedWasPreviewable`. For a clone, current means that
its source is shut off and still on the generation that was proven.

**Assumptions.** The proofs assume only the named assumptions of the modules,
which TLC evaluates in every run: `NoGen`, `NoInst`, `NoRecord`, `Torn`,
`NoVolume`, `Operator` and the marks of absent files are no members of the sets
they extend, `Seeded` is a set of generations, `Sequential` a Boolean, the
bounds on faults natural numbers. `Sequential` itself is a hypothesis of the
theorems named above, and only of those.

**Only model-checked.** `DeletionCompletes` and `UndisturbedIsAccepted`, because
liveness under fairness is out of reach of the prover. Every other property of
a passing run is a theorem. The type invariants
`CreateTypeOK`, `PreparationTypeOK` and `ImageTypeOK` are proved and not part of
a run. The properties that the three violation runs refute are false.

## 5. Not modelled, and why

* Retired commands (`vm rebuild`, `define`, `prepare` and `boot` of fedora-lab,
  `state adopt`, the Fedora image fetch) return LEGACY_FEDORA_RETIRED in their
  first statement: the code behind them, the legacy transaction
  journal, the legacy domain and storage plans, cloud-init rendering and the
  observation of a first boot, is reached by nothing else.
* The roll-forward of `state recover` (`plan_managed_recovery`) is taken for the
  name fedora-lab only and demands a dedicated known_hosts file, a `forge` user
  and finished cloud-init, which only the retired product sets up. All other
  names take the two recoveries that are modelled.
* Library functions that no command calls: `fetch_fedora`, the normalisation of
  a promoted disk (`execute_canonical_promotion`, `prove_normalized_disk`),
  `execute_migration`.
* XML, JSON, hashing, signatures, HTTP, storage streams: data or external; the
  modules keep what they establish.
* Reports (`doctor`, host inspection, `state show`, `state reconcile`, lists):
  read only, and no command relies on an earlier report.
* Two branches of the image store that no property can tell apart from what is
  modelled. When the source of a promotion cannot be unlinked, Kali and the
  Gateway withdraw the new link (forge-images/src/lib.rs:3582): together with the
  link that is `Fail` before it. A Workstation intent that names no extraction
  root (forge-images/src/lib.rs:2797) is read by its recovery and written by no
  code of this version.
* Orphans of a deletion: an overlay or a manifest that no index lists is outside
  of `TombstoneLeavesOnlyOrphans`, as its name says, because the index is all
  that a deletion reads; and `OwnedVolumesExist` speaks of Active and Retained
  generations, so the overlay of a just published Preparing one is the matter of
  `RollbackOnlyBeforePublication` in `fresh_late.cfg`.
* Temporary files of index writes: they lie outside of the directory that
  `inspect_layout` scans. Those of the first manifest are in `InitialCreate`.
* The promoted base in `InitialCreate`, and a deletion that overlaps an initial
  recovery: the recovery writes the index it planned (main.rs:713) without
  another look and could overwrite a tombstone, the same lost update that
  `lifecycle_lost_intent` shows.

## 6. Plan

Modelled: everything listed in section 2. Left for later: an
abstract specification of the image store (a published image is whole and
authentic) that `ImageAcquisition` implements when commands do not overlap.
