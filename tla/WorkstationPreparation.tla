------------------------ MODULE WorkstationPreparation ------------------------
(***************************************************************************)
(* The guided preparation of the Fedora Workstation base: crates/          *)
(* forge-images/src/preparation.rs and the "forge image prepare",          *)
(* prepare-start, prepare-continue, prepare-confirm-installed,             *)
(* prepare-confirm-graphical, prepare-promote, prepare-status and abort    *)
(* commands of crates/forge-cli/src/main.rs.                               *)
(*                                                                         *)
(* One durable record drives an operator through an installation that      *)
(* happens outside forge.  Every command reads the record, proves the      *)
(* domain and the volumes against it, and publishes it again after each    *)
(* boundary.  Nothing is rolled back: a command that fails, is refused or  *)
(* is killed leaves everything as it is, so all three are the step Stop.   *)
(***************************************************************************)
EXTENDS Naturals, FiniteSets, SequencesExt

CONSTANTS
    Prep,       \* preparation identities, drawn at random by each new one
    Mac,        \* network addresses of the preparation domain
    Proc,       \* invocations of forge
    MaxWrites,  \* bound on the versions of the contents of a disk
    NoRecord,   \* no state file
    Torn,       \* a state file that was created and never filled
    NoMac,      \* no resolved topology
    NoDomain,   \* no such domain
    NoVolume    \* no such volume

ASSUME WritesAssumption == MaxWrites \in Nat \ {0}

VARIABLES
    record,     \* the state file of the active preparation
    staging,    \* contents of the staging disk of each preparation, 0 is blank
    iso,        \* its installation medium in the pool
    domain,     \* its preparation domain
    canonical,  \* the canonical shared base
    alone,      \* whether this run starts a command only after the last ended
    pc,         \* the next step of each process
    mem,        \* the record it holds in memory
    drawn,      \* auxiliary: the identities drawn so far
    starts      \* auxiliary: starts of the installed disk by forge, up to 2

storage  == <<staging, iso, domain, canonical>>
ghosts   == <<drawn, starts>>
prepVars == <<record, storage, alone, pc, mem, ghosts>>

\* The statuses the commands reach, in the order of the guided flow.
Flow ==
    <<"Planned", "InstallerReady", "InstallerRunning", "InstallationConfirmed",
      "InstalledDiskBootPending", "InstalledDiskBooting",
      "AwaitingGraphicalBootConfirmation", "InstalledSystemProven",
      "PromotionReady", "Promoted">>

Status == ToSet(Flow)

Rank(status) == CHOOSE n \in DOMAIN Flow : Flow[n] = status

Data == 0..MaxWrites

Preparation ==
    [id : Prep, status : Status, key : BOOLEAN, iso : BOOLEAN,
     mac : Mac \cup {NoMac}, diskOnly : BOOLEAN, started : BOOLEAN,
     confirmed : BOOLEAN, attested : BOOLEAN, graphical : BOOLEAN,
     proof : Data \cup {NoVolume}]

ASSUME RecordAssumption ==
    NoRecord \notin Preparation /\ Torn \notin Preparation \cup {NoRecord}
ASSUME VolumeAssumption == NoVolume \notin Data \cup [of : Prep, data : Data]

\* What of a definition is no longer as it was requested.
Drift == {"none", "machine", "disks", "devices"}

Domain ==
    [cdrom : BOOLEAN, mac : Mac, drift : Drift, runs : {"off", "cdrom", "disk"}]

\* durable_preparation.
Planned(i) ==
    [id |-> i, status |-> "Planned", key |-> FALSE, iso |-> FALSE,
     mac |-> NoMac, diskOnly |-> FALSE, started |-> FALSE,
     confirmed |-> FALSE, attested |-> FALSE, graphical |-> FALSE,
     proof |-> NoVolume]

-----------------------------------------------------------------------------
(* Observations and proofs *)

\* publish_new_... creates the file and then fills it: in between, or after a
\* crash in between, the file is there and no command can read it.
Readable == record \notin {NoRecord, Torn}

Off(i)     == domain[i] # NoDomain /\ domain[i].runs = "off"
Running(i) == domain[i] # NoDomain /\ domain[i].runs # "off"

\* prove_staging and the comparison with the recorded key.  The key of a
\* volume of a directory pool is its path, so it says nothing of the contents.
StagingProven(r) == staging[r.id] # NoVolume /\ r.key

\* prove_..._installer_topology: identity, machine, firmware, boot order.
MachineProven(d) == d.drift # "machine"

\* The staging disk and the installation medium behind it.
DisksProven(d) == d.drift # "disks"

\* Network, graphics, inputs and what libvirt adds to every domain.
DevicesProven(d) == d.drift # "devices"

TopologyProven(d) == MachineProven(d) /\ DisksProven(d) /\ DevicesProven(d)

\* prove_..._installer_topology with the installer attached.
InstallerProven(i) ==
    /\ Off(i)
    /\ domain[i].cdrom
    /\ TopologyProven(domain[i])

\* The same with the installed disk alone: the network address must be the
\* one the record has resolved.
DiskOnlyShape(r) ==
    /\ domain[r.id] # NoDomain
    /\ ~domain[r.id].cdrom
    /\ TopologyProven(domain[r.id])
    /\ r.mac # NoMac

DiskOnlyProven(r) ==
    /\ DiskOnlyShape(r)
    /\ Off(r.id)
    /\ domain[r.id].mac = r.mac

\* prove_..._running_disk_only_topology
RunningDiskOnlyProven(r) ==
    /\ DiskOnlyShape(r)
    /\ Running(r.id)
    /\ domain[r.id].mac = r.mac

\* prove_..._abort_disk_binding looks at the disk alone.
AbortDiskProven(d) == DisksProven(d)

\* prove_..._disk_only_mac_recovery_candidate
MacRecoverable(r) ==
    /\ DiskOnlyShape(r)
    /\ Off(r.id)
    /\ domain[r.id].mac # r.mac

\* The check of the retained installation medium.
IsoRetained(r) == r.iso => iso[r.id] = "whole"

\* fedora_workstation_topology_mode
TopologyMode(status) ==
    IF status \in {"InstallerReady", "InstallerRunning"}
    THEN "InstallerAttached"
    ELSE IF status \in {"InstallationConfirmed", "InstalledDiskBootPending",
                        "InstalledDiskBooting", "InstalledSystemProven",
                        "AwaitingGraphicalBootConfirmation"}
         THEN "DiskOnly"
         ELSE "None"

-----------------------------------------------------------------------------
(* Running a command *)

\* A command starts: in a run of commands alone, no other one is running.
Begins(p) ==
    /\ pc[p] = "idle"
    /\ alone => \A q \in Proc : pc[q] = "idle"

At(p, label) == pc[p] = label

Goto(p, label, r) ==
    /\ pc' = [pc EXCEPT ![p] = label]
    /\ mem' = [mem EXCEPT ![p] = IF label = "idle" THEN NoRecord ELSE r]

\* update_fedora_workstation_preparation: the file must exist, and is replaced
\* by what the process holds, whatever it says by now.
Publish(p, r, label) ==
    /\ record # NoRecord
    /\ record' = r
    /\ Goto(p, label, r)
    /\ UNCHANGED <<storage, alone, ghosts>>

Step(p, label) ==
    /\ Goto(p, label, mem[p])
    /\ UNCHANGED <<record, alone>>

\* A refusal, an error of the system or the death of the process.
Stop(p) ==
    /\ pc[p] # "idle"
    /\ Goto(p, "idle", NoRecord)
    /\ UNCHANGED <<record, storage, alone, ghosts>>

-----------------------------------------------------------------------------
(* forge image prepare *)

\* No record: plan_fedora_workstation_preparation for a fresh identity.  Bound:
\* commands that overlap work on one identity.
PrepareNew(p, i) ==
    /\ Begins(p)
    /\ record = NoRecord
    /\ i \notin drawn
    /\ alone \/ drawn = {}
    /\ canonical = NoVolume
    /\ drawn' = drawn \cup {i}
    /\ Goto(p, "create_record", Planned(i))
    /\ UNCHANGED <<record, storage, alone, starts>>

\* publish_new_fedora_workstation_preparation: create_new, then the contents.
CreateRecord(p) ==
    /\ At(p, "create_record")
    /\ record = NoRecord
    /\ record' = Torn
    /\ Goto(p, "write_record", mem[p])
    /\ UNCHANGED <<storage, alone, ghosts>>

WriteRecord(p) ==
    /\ At(p, "write_record")
    /\ record' = mem[p]
    /\ Goto(p, "stage", mem[p])
    /\ UNCHANGED <<storage, alone, ghosts>>

\* A readable record: execute_to_installer_ready takes it up when it is
\* Planned, and only looks when it is InstallerReady.
PrepareResume(p) ==
    /\ Begins(p)
    /\ Readable
    /\ record.status = "Planned"
    /\ Goto(p, "stage", record)
    /\ UNCHANGED <<record, storage, alone, ghosts>>

\* A staging disk that is there is only taken when its key is on record.
StageDisk(p) ==
    LET r == mem[p] IN
    /\ At(p, "stage")
    /\ canonical = NoVolume
    /\ staging[r.id] # NoVolume => r.key
    /\ staging' = [staging EXCEPT ![r.id] = IF @ = NoVolume THEN 0 ELSE @]
    /\ Step(p, "publish_key")
    /\ UNCHANGED <<iso, domain, canonical, ghosts>>

PublishKey(p) ==
    /\ At(p, "publish_key")
    /\ Publish(p, [mem[p] EXCEPT !.key = TRUE], "iso")

\* materialize_installer_iso refuses a volume that is there; one on record is
\* read and compared instead.
CreateIso(p) ==
    LET r == mem[p] IN
    /\ At(p, "iso")
    /\ IF r.iso THEN iso[r.id] = "whole" ELSE iso[r.id] = "absent"
    /\ iso' = [iso EXCEPT ![r.id] = IF r.iso THEN @ ELSE "partial"]
    /\ Step(p, IF r.iso THEN "publish_iso" ELSE "upload")
    /\ UNCHANGED <<staging, domain, canonical, ghosts>>

UploadIso(p) ==
    /\ At(p, "upload")
    /\ iso[mem[p].id] = "partial"
    /\ iso' = [iso EXCEPT ![mem[p].id] = "whole"]
    /\ Step(p, "publish_iso")
    /\ UNCHANGED <<staging, domain, canonical, ghosts>>

\* After the digest of the whole volume has been compared with the source.
PublishIso(p) ==
    /\ At(p, "publish_iso")
    /\ iso[mem[p].id] = "whole"
    /\ Publish(p, [mem[p] EXCEPT !.iso = TRUE], "define")

\* define_installer_domain without an address: libvirt chooses one.
DefineInstaller(p) ==
    LET i == mem[p].id IN
    /\ At(p, "define")
    /\ \E m \in Mac :
           domain' = [domain EXCEPT
               ![i] = IF @ = NoDomain
                      THEN [cdrom |-> TRUE, mac |-> m,
                            drift |-> "none", runs |-> "off"]
                      ELSE @]
    /\ Step(p, "publish_ready")
    /\ UNCHANGED <<staging, iso, canonical, ghosts>>

PublishInstallerReady(p) ==
    LET r == mem[p] IN
    /\ At(p, "publish_ready")
    /\ InstallerProven(r.id)
    /\ Publish(p, [r EXCEPT !.mac = domain[r.id].mac,
                            !.status = "InstallerReady"], "idle")

-----------------------------------------------------------------------------
(* forge image prepare-start *)

\* The InstallerReady branch of execute_to_installer_ready.
InstallerResumes(r) ==
    /\ staging[r.id] # NoVolume
    /\ InstallerProven(r.id)
    /\ domain[r.id].mac = r.mac

\* Mutant: the status is not looked at.
StartBeginsAnyStatus(p) ==
    /\ Begins(p)
    /\ Readable
    /\ InstallerResumes(record)
    /\ record.iso /\ iso[record.id] = "whole"
    /\ Goto(p, "start_installer", record)
    /\ UNCHANGED <<record, storage, alone, ghosts>>

StartBegins(p) ==
    /\ Begins(p)
    /\ Readable
    /\ record.status = "InstallerReady"
    /\ InstallerResumes(record)
    /\ record.iso /\ iso[record.id] = "whole"
    /\ Goto(p, "start_installer", record)
    /\ UNCHANGED <<record, storage, alone, ghosts>>

StartInstaller(p) ==
    LET i == mem[p].id IN
    /\ At(p, "start_installer")
    /\ Off(i)
    /\ domain' = [domain EXCEPT ![i].runs = IF @ = "off" /\ domain[i].cdrom
                                            THEN "cdrom" ELSE "disk"]
    /\ Step(p, "publish_running")
    /\ UNCHANGED <<staging, iso, canonical, ghosts>>

\* preparation_domain_running and record_installer_started.
PublishInstallerRunning(p) ==
    /\ At(p, "publish_running")
    /\ Running(mem[p].id)
    /\ Publish(p, [mem[p] EXCEPT !.status = "InstallerRunning"], "idle")

-----------------------------------------------------------------------------
(* forge image prepare-continue: execute_to_installed_disk_running *)

\* Mutant: a start that was interrupted is repeated.
ContinueBeginsStarting(p) ==
    /\ Begins(p)
    /\ Readable
    /\ StagingProven(record)
    /\ canonical = NoVolume
    /\ \/ /\ record.status = "InstallerRunning"
          /\ InstallerProven(record.id)
          /\ Goto(p, "publish_confirmed", record)
       \/ /\ record.status = "InstallationConfirmed"
          /\ record.confirmed
          /\ Goto(p, "detach", record)
       \/ /\ record.status = "InstalledDiskBootPending"
          /\ Goto(p, "publish_booting", record)
       \/ /\ record.status = "InstalledDiskBooting"
          /\ Goto(p, IF Off(record.id) THEN "start_disk" ELSE "publish_awaiting",
                  record)
    /\ UNCHANGED <<record, storage, alone, ghosts>>

ContinueBegins(p) ==
    /\ Begins(p)
    /\ Readable
    /\ StagingProven(record)
    /\ canonical = NoVolume
    /\ \/ /\ record.status = "InstallerRunning"
          /\ InstallerProven(record.id)
          /\ Goto(p, "publish_confirmed", record)
       \/ /\ record.status = "InstallationConfirmed"
          /\ record.confirmed
          /\ Goto(p, "detach", record)
       \/ /\ record.status = "InstalledDiskBootPending"
          /\ Goto(p, "publish_booting", record)
       \/ /\ record.status = "InstalledDiskBooting"
          /\ Goto(p, "publish_awaiting", record)
    /\ UNCHANGED <<record, storage, alone, ghosts>>

\* record_anaconda_installation_completed: the command is the confirmation.
PublishConfirmed(p) ==
    /\ At(p, "publish_confirmed")
    /\ Publish(p, [mem[p] EXCEPT !.status = "InstallationConfirmed",
                                 !.confirmed = TRUE], "detach")

\* The redefinition that takes the installer away, or only a drifted address;
\* a domain that is right already is left alone.
DetachInstaller(p) ==
    LET r == mem[p] IN
    /\ At(p, "detach")
    /\ Off(r.id)
    /\ r.mac # NoMac
    /\ \/ InstallerProven(r.id)
       \/ DiskOnlyProven(r)
       \/ MacRecoverable(r)
    /\ domain' = [domain EXCEPT ![r.id].cdrom = FALSE, ![r.id].mac = r.mac]
    /\ Step(p, "publish_pending")
    /\ UNCHANGED <<staging, iso, canonical, ghosts>>

PublishBootPending(p) ==
    LET r == mem[p] IN
    /\ At(p, "publish_pending")
    /\ DiskOnlyProven(r)
    /\ IsoRetained(r)
    /\ Publish(p, [r EXCEPT !.diskOnly = TRUE,
                            !.status = "InstalledDiskBootPending"],
               "publish_booting")

\* The intent is durable before the start.
PublishBooting(p) ==
    LET r == mem[p] IN
    /\ At(p, "publish_booting")
    /\ DiskOnlyProven(r)
    /\ r.diskOnly
    /\ Publish(p, [r EXCEPT !.started = TRUE,
                            !.status = "InstalledDiskBooting"], "start_disk")

StartInstalledDisk(p) ==
    LET i == mem[p].id IN
    /\ At(p, "start_disk")
    /\ Off(i)
    /\ domain' = [domain EXCEPT ![i].runs = IF domain[i].cdrom
                                            THEN "cdrom" ELSE "disk"]
    /\ starts' = [starts EXCEPT ![i] = IF @ = 2 THEN 2 ELSE @ + 1]
    /\ Step(p, "publish_awaiting")
    /\ UNCHANGED <<staging, iso, canonical, drawn>>

\* An ambiguous start is never repeated: a domain that is off is refused.
PublishAwaiting(p) ==
    LET r == mem[p] IN
    /\ At(p, "publish_awaiting")
    /\ Running(r.id)
    /\ r.started
    /\ Publish(p, [r EXCEPT !.status = "AwaitingGraphicalBootConfirmation"],
               "idle")

-----------------------------------------------------------------------------
(* forge image prepare-confirm-installed *)

\* Up to the prompt of attest_operator_qcow2_check, which waits.
ConfirmInstalledBegins(p) ==
    /\ Begins(p)
    /\ Readable
    /\ StagingProven(record)
    /\ Goto(p, "attest_installed", record)
    /\ UNCHANGED <<record, storage, alone, ghosts>>

\* The operator types CHECKED: the record read before the prompt is published.
PublishAttested(p) ==
    /\ At(p, "attest_installed")
    /\ Publish(p, [mem[p] EXCEPT !.attested = TRUE], "confirm_manual")

\* confirm_manually_installed_from_installer_ready
PublishManualConfirmation(p) ==
    LET r == mem[p] IN
    /\ At(p, "confirm_manual")
    /\ r.status = "InstallerReady"
    /\ StagingProven(r)
    /\ canonical = NoVolume
    /\ InstallerProven(r.id)
    /\ Publish(p, [r EXCEPT !.status = "InstallationConfirmed",
                            !.confirmed = TRUE], "idle")

-----------------------------------------------------------------------------
(* forge image prepare-confirm-graphical *)

\* record_graphical_installed_system_confirmation
GraphicalAccepts(r) ==
    \/ r.status = "InstalledSystemProven" /\ r.graphical
    \/ /\ r.status = "AwaitingGraphicalBootConfirmation"
       /\ RunningDiskOnlyProven(r)
       /\ r.diskOnly

ConfirmGraphicalBegins(p) ==
    /\ Begins(p)
    /\ Readable
    /\ canonical = NoVolume
    /\ IsoRetained(record)
    /\ GraphicalAccepts(record)
    /\ Goto(p, "publish_graphical", record)
    /\ UNCHANGED <<record, storage, alone, ghosts>>

PublishGraphical(p) ==
    /\ At(p, "publish_graphical")
    /\ Publish(p, [mem[p] EXCEPT !.graphical = TRUE,
                                 !.status = "InstalledSystemProven"], "idle")

-----------------------------------------------------------------------------
(* forge image prepare-promote *)

\* Everything that is proved before the prompt waits for the operator.
PromoteBegins(p) ==
    /\ Begins(p)
    /\ Readable
    /\ record.status = "InstalledSystemProven"
    /\ canonical = NoVolume
    /\ DiskOnlyProven(record)
    /\ StagingProven(record)
    /\ Goto(p, "attest_promotion", record)
    /\ UNCHANGED <<record, storage, alone, ghosts>>

\* The operator types CHECKED and stream_exact_qcow2_volume reads the disk.
StreamStaging(p) ==
    LET r == mem[p] IN
    /\ At(p, "attest_promotion")
    /\ staging[r.id] # NoVolume
    /\ Goto(p, "publish_promotion", [r EXCEPT !.proof = staging[r.id]])
    /\ UNCHANGED <<record, storage, alone, ghosts>>

\* Mutant: the staging disk is retired before it is copied.
PublishPromotionReadyRetiring(p) ==
    LET r == mem[p] IN
    /\ At(p, "publish_promotion")
    /\ r.graphical /\ r.diskOnly
    /\ Publish(p, [r EXCEPT !.status = "PromotionReady"], "retire_domain")

\* record_host_only_promotion_ready
PublishPromotionReady(p) ==
    LET r == mem[p] IN
    /\ At(p, "publish_promotion")
    /\ r.graphical /\ r.diskOnly
    /\ Publish(p, [r EXCEPT !.status = "PromotionReady"], "clone")

\* clone_protected_workstation_volume copies the disk as it is by now.
CloneCanonical(p) ==
    LET i == mem[p].id IN
    /\ At(p, "clone")
    /\ staging[i] # NoVolume
    /\ canonical = NoVolume
    /\ canonical' = [of |-> i, data |-> staging[i]]
    /\ Step(p, "publish_promoted")
    /\ UNCHANGED <<staging, iso, domain, ghosts>>

\* record_host_only_canonical_publication
PublishPromoted(p) ==
    LET r == mem[p] IN
    /\ At(p, "publish_promoted")
    /\ canonical # NoVolume
    /\ Publish(p, [r EXCEPT !.status = "Promoted"], "retire_domain")

\* undefine_domain_exact: only a domain that is off, and one that is there.
RetireDomain(p, label, next) ==
    LET i == mem[p].id IN
    /\ At(p, label)
    /\ Off(i)
    /\ domain' = [domain EXCEPT ![i] = NoDomain]
    /\ Step(p, next)
    /\ UNCHANGED <<staging, iso, canonical, ghosts>>

\* delete_managed_volume_exact, which refuses a volume that a domain uses,
\* and verify_managed_volume_absent.
RetireStaging(p, label, next) ==
    LET i == mem[p].id IN
    /\ At(p, label)
    /\ domain[i] = NoDomain
    /\ staging[i] # NoVolume
    /\ staging' = [staging EXCEPT ![i] = NoVolume]
    /\ Step(p, next)
    /\ UNCHANGED <<iso, domain, canonical, ghosts>>

PromoteRetiresDomain(p)  == RetireDomain(p, "retire_domain", "retire_staging")
PromoteRetiresStaging(p) == RetireStaging(p, "retire_staging", "idle")

-----------------------------------------------------------------------------
(* forge image abort *)

\* Mutant: a promotion under way is not respected.
AbortBeginsPromoting(p) ==
    /\ Begins(p)
    /\ Readable
    /\ Off(record.id) /\ AbortDiskProven(domain[record.id])
    /\ StagingProven(record)
    /\ IsoRetained(record)
    /\ Goto(p, "abort_domain", record)
    /\ UNCHANGED <<record, storage, alone, ghosts>>

\* validate_abort_preparation and the proofs of abort_workstation_preparation.
AbortBegins(p) ==
    /\ Begins(p)
    /\ Readable
    /\ record.status \notin {"PromotionReady", "Promoted"}
    /\ canonical = NoVolume
    /\ Off(record.id) /\ AbortDiskProven(domain[record.id])
    /\ StagingProven(record)
    /\ IsoRetained(record)
    /\ Goto(p, "abort_domain", record)
    /\ UNCHANGED <<record, storage, alone, ghosts>>

AbortDomain(p)  == RetireDomain(p, "abort_domain", "abort_staging")
AbortStaging(p) == RetireStaging(p, "abort_staging", "abort_iso")

AbortIso(p) ==
    LET r == mem[p] IN
    /\ At(p, "abort_iso")
    /\ r.iso => iso[r.id] # "absent" /\ domain[r.id] = NoDomain
    /\ iso' = [iso EXCEPT ![r.id] = IF r.iso THEN "absent" ELSE @]
    /\ Step(p, "retire_record")
    /\ UNCHANGED <<staging, domain, canonical, ghosts>>

\* retire_workstation_preparation_state
RetireRecord(p) ==
    /\ At(p, "retire_record")
    /\ record # NoRecord
    /\ record' = NoRecord
    /\ Goto(p, "idle", NoRecord)
    /\ UNCHANGED <<storage, alone, ghosts>>

-----------------------------------------------------------------------------
(* forge image prepare-status, which changes nothing *)

\* workstation_status_expects_running_domain
ExpectsRunning(status) ==
    status \in {"InstalledDiskBooting", "AwaitingGraphicalBootConfirmation",
                "InstalledSystemProven"}

\* prove_promoted_workstation_status
PromotedProven(r) ==
    /\ canonical # NoVolume
    /\ r.proof # NoVolume
    /\ domain[r.id] = NoDomain
    /\ staging[r.id] = NoVolume

\* The command reports a record, and what to do next, when its proofs hold.
StatusReports(r) ==
    IF r.status = "Promoted" THEN PromotedProven(r)
    ELSE /\ staging[r.id] # NoVolume
         /\ domain[r.id] # NoDomain
         /\ IF ExpectsRunning(r.status) THEN RunningDiskOnlyProven(r)
            ELSE \/ /\ TopologyMode(r.status) = "InstallerAttached"
                    /\ InstallerProven(r.id)
                 \/ /\ TopologyMode(r.status) = "DiskOnly"
                    /\ DiskOnlyProven(r)

-----------------------------------------------------------------------------
(* The operator and the guest, outside forge *)

Outside == UNCHANGED <<record, iso, canonical, alone, pc, mem, ghosts>>

PowerOn(i) ==
    /\ Off(i)
    /\ staging[i] # NoVolume
    /\ domain' = [domain EXCEPT ![i].runs = IF domain[i].cdrom
                                            THEN "cdrom" ELSE "disk"]
    /\ UNCHANGED staging
    /\ Outside

PowerOff(i) ==
    /\ Running(i)
    /\ domain' = [domain EXCEPT ![i].runs = "off"]
    /\ UNCHANGED staging
    /\ Outside

\* The installer fills the disk, and an installed system changes it.
GuestWrites(i) ==
    /\ Running(i)
    /\ staging[i] # NoVolume
    /\ domain[i].runs = "disk" => staging[i] > 0
    /\ staging[i] < MaxWrites
    /\ staging' = [staging EXCEPT ![i] = @ + 1]
    /\ UNCHANGED domain
    /\ Outside

\* An administrator edits the domain.  Bound: never while commands overlap.
EditDomain(i) ==
    /\ alone
    /\ domain[i] # NoDomain
    /\ \/ \E m \in Mac : domain' = [domain EXCEPT ![i].mac = m]
       \/ \E d \in Drift : domain' = [domain EXCEPT ![i].drift = d]
    /\ UNCHANGED staging
    /\ Outside

-----------------------------------------------------------------------------

PrepInit ==
    /\ record = NoRecord
    /\ staging = [i \in Prep |-> NoVolume]
    /\ iso = [i \in Prep |-> "absent"]
    /\ domain = [i \in Prep |-> NoDomain]
    /\ canonical = NoVolume
    /\ alone \in BOOLEAN
    /\ pc = [p \in Proc |-> "idle"]
    /\ mem = [p \in Proc |-> NoRecord]
    /\ drawn = {}
    /\ starts = [i \in Prep |-> 0]

Command(p) ==
    \/ \E i \in Prep : PrepareNew(p, i)
    \/ CreateRecord(p)
    \/ WriteRecord(p)
    \/ PrepareResume(p)
    \/ StageDisk(p)
    \/ PublishKey(p)
    \/ CreateIso(p)
    \/ UploadIso(p)
    \/ PublishIso(p)
    \/ DefineInstaller(p)
    \/ PublishInstallerReady(p)
    \/ StartBegins(p)
    \/ StartInstaller(p)
    \/ PublishInstallerRunning(p)
    \/ ContinueBegins(p)
    \/ PublishConfirmed(p)
    \/ DetachInstaller(p)
    \/ PublishBootPending(p)
    \/ PublishBooting(p)
    \/ StartInstalledDisk(p)
    \/ PublishAwaiting(p)
    \/ ConfirmInstalledBegins(p)
    \/ PublishAttested(p)
    \/ PublishManualConfirmation(p)
    \/ ConfirmGraphicalBegins(p)
    \/ PublishGraphical(p)
    \/ PromoteBegins(p)
    \/ StreamStaging(p)
    \/ PublishPromotionReady(p)
    \/ CloneCanonical(p)
    \/ PublishPromoted(p)
    \/ PromoteRetiresDomain(p)
    \/ PromoteRetiresStaging(p)
    \/ AbortBegins(p)
    \/ AbortDomain(p)
    \/ AbortStaging(p)
    \/ AbortIso(p)
    \/ RetireRecord(p)
    \/ Stop(p)

Operator(i) ==
    \/ PowerOn(i)
    \/ PowerOff(i)
    \/ GuestWrites(i)
    \/ EditDomain(i)

PrepNext ==
    \/ \E p \in Proc : Command(p)
    \/ \E i \in Prep : Operator(i)

PrepSpec == PrepInit /\ [][PrepNext]_prepVars

-----------------------------------------------------------------------------
(* Properties *)

\* Type invariant of the record, the storage and the processes.
PreparationTypeOK ==
    /\ record \in Preparation \cup {NoRecord, Torn}
    /\ staging \in [Prep -> Data \cup {NoVolume}]
    /\ iso \in [Prep -> {"absent", "partial", "whole"}]
    /\ domain \in [Prep -> Domain \cup {NoDomain}]
    /\ canonical \in [of : Prep, data : Data] \cup {NoVolume}
    /\ alone \in BOOLEAN
    /\ mem \in [Proc -> Preparation \cup {NoRecord}]
    /\ \A p \in Proc : pc[p] = "idle" <=> mem[p] = NoRecord
    /\ drawn \subseteq Prep
    /\ starts \in [Prep -> 0..2]

RecordOf(i) == Readable /\ record.id = i

\* With one command at a time, whatever is killed or refused, every disk,
\* medium and domain that forge made belongs to the preparation on record, and
\* a canonical base to one that says it is being promoted: nothing is ever
\* left that no later command can find.
ResourcesAreRecorded ==
    alone =>
        /\ \A i \in Prep :
               \/ staging[i] # NoVolume
               \/ iso[i] # "absent"
               \/ domain[i] # NoDomain
               => RecordOf(i)
        /\ canonical # NoVolume =>
               /\ RecordOf(canonical.of)
               /\ record.status \in {"PromotionReady", "Promoted"}

\* With one command at a time forge starts the installed disk of a preparation
\* once at most, and only when the record says so: a continuation that was
\* interrupted around the start observes it and never repeats it.
InstalledDiskStartsOnce ==
    alone =>
        \A i \in Prep :
            /\ starts[i] <= 1
            /\ starts[i] = 1 /\ RecordOf(i) => record.started

\* The record of a preparation never goes back to an earlier status while
\* commands run one at a time.
StatusNeverGoesBack ==
    [][alone /\ Readable /\ Readable' /\ record'.id = record.id
         => Rank(record'.status) >= Rank(record.status)]_record

\* Whatever runs beside it, the disk of an installed system is deleted only by
\* an abort of its preparation that found no canonical base when it began, or
\* once the canonical base made from it is there and its domain is gone.
InstalledDiskOutlivesPromotion ==
    [][\A i \in Prep :
         staging[i] \in Data \ {0} /\ staging'[i] = NoVolume =>
             \/ canonical # NoVolume /\ canonical.of = i /\ domain[i] = NoDomain
             \/ \E p \in Proc :
                    pc[p] = "abort_staging" /\ mem[p].id = i]_staging

\* "Records independent canonical qcow2 representation evidence after exact
\* promotion": what a promoted record says of the staging disk is true of the
\* canonical base.
PromotionIsExact ==
    /\ canonical # NoVolume
    /\ RecordOf(canonical.of)
    /\ record.status = "Promoted"
    => canonical.data = record.proof

\* prepare-status tells the operator whose guest is shut off to promote it.
PromotableIsReported ==
    /\ Readable
    /\ record.status = "InstalledSystemProven"
    /\ DiskOnlyProven(record)
    /\ StagingProven(record)
    => StatusReports(record)
=============================================================================
