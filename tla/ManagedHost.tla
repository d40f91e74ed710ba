----------------------------- MODULE ManagedHost -----------------------------
(***************************************************************************)
(* What the commands of one managed instance share: the files under the    *)
(* state directory, the libvirt domain and volumes, and the memory of the  *)
(* running forge processes.                                                *)
(*                                                                         *)
(* Every forge command is a separate process.  The code takes no lock:     *)
(* processes meet only in the files and in libvirt, and each step below is *)
(* one read of them or one change to them.  A crash, and every error that  *)
(* ends a command, loses the memory of the process and nothing else.       *)
(***************************************************************************)
EXTENDS GenerationIndex, Naturals

CONSTANTS
    Proc,        \* invocations of forge that may run at the same time
    Sequential,  \* TRUE: the user starts no command while another one runs
    Migrated,    \* generations whose manifest file was published as Active
    Fault,       \* the kinds of fault of a run
    MaxFaults,   \* bound on their number
    NoIndex      \* "no index held"

ASSUME SequentialAssumption == Sequential \in BOOLEAN
ASSUME MaxFaultsAssumption == MaxFaults \in Nat

VARIABLES
    index,     \* index.json
    manifest,  \* the generations whose manifest file exists
    domain,    \* the libvirt domain with the name of the instance
    volume,    \* the generation-owned volumes in the pool: <<generation, role>>
    pc,        \* the next step of each process
    view,      \* the index each process believes to be current
    target,    \* the generation a process creates or cleans up
    force,     \* the process may force-stop the guest
    faults     \* faults so far

durable == <<index, manifest>>
host    == <<domain, volume>>
local   == <<pc, view, target, force>>
hostVars == <<durable, host, local, faults>>

\* "disk" is the generation whose overlay the persistent definition names;
\* "live" the one a running guest has open.
Domain == [state : {"absent", "shutoff", "running"}, persistent : BOOLEAN,
           disk : Gen \cup {NoGen}, live : Gen \cup {NoGen}]

NoDomain == [state |-> "absent", persistent |-> FALSE,
             disk |-> NoGen, live |-> NoGen]
Shutoff(g) == [state |-> "shutoff", persistent |-> TRUE,
               disk |-> g, live |-> NoGen]

OverlayOf(g) == <<g, "WritableOverlay">>
VolumesOf(g) == {g} \X Disposable(g)

\* Manifests are immutable.  Create and Fresh write them as Preparing and
\* never rewrite them; only execute_migration publishes one as Active.
ManifestStatus(g) == IF g \in Migrated THEN "Active" ELSE "Preparing"

-----------------------------------------------------------------------------
(* Observations *)

DomainPresent == domain.state # "absent"
DomainShutoff == domain.state = "shutoff"
DomainRunning == domain.state = "running"

\* The disk in the XML libvirt reports: the live one while the guest runs.
BoundDisk == IF DomainRunning THEN domain.live ELSE domain.disk

\* inspect_managed_state succeeds when the domain exists and every volume the
\* manifest names exists.  It looks at the volumes of the manifest, not at the
\* disk the domain uses.
Inspectable(g) == DomainPresent /\ VolumesOf(g) \subseteq volume

\* Reconciliation of index i with the volumes of generation g observed: paths
\* and keys are unique to a generation, so at most g matches.
ReconcileOn(i, g) == Reconcile(i, Listed(i) \cap {g})

ConsistentOn(i) ==
    /\ Listed(i) \subseteq manifest
    /\ Inspectable(i.active)
    /\ ReconcileOn(i, i.active) = "Consistent"

\* define_domain over an existing definition, or over none.  The state of a
\* running guest and the disk it has open do not change.
Redefined(g) ==
    IF DomainPresent THEN [domain EXCEPT !.persistent = TRUE, !.disk = g]
    ELSE Shutoff(g)

\* delete_managed_volume_exact refuses a volume that some domain names.
VolumeReferenced(g) == DomainPresent /\ BoundDisk = g

-----------------------------------------------------------------------------
(* Steps of a process *)

MayStart(p) ==
    /\ pc[p] = "idle"
    /\ Sequential => \A q \in Proc : pc[q] = "idle"

Start(p, label, gen, forced) ==
    /\ pc' = [pc EXCEPT ![p] = label]
    /\ view' = [view EXCEPT ![p] = index]
    /\ target' = [target EXCEPT ![p] = gen]
    /\ force' = [force EXCEPT ![p] = forced]

Goto(p, label) ==
    /\ pc' = [pc EXCEPT ![p] = label]
    /\ UNCHANGED <<view, target, force>>

Stop(p) ==
    /\ pc' = [pc EXCEPT ![p] = "idle"]
    /\ view' = [view EXCEPT ![p] = NoIndex]
    /\ target' = [target EXCEPT ![p] = NoGen]
    /\ force' = [force EXCEPT ![p] = FALSE]

Branch(p, condition, label) == IF condition THEN Goto(p, label) ELSE Stop(p)

\* The first half of every persist: re-read the file and compare it with the
\* value the process holds.  Nothing holds the file until the second half.
CompareIndex(p, here, there) ==
    /\ pc[p] = here
    /\ Branch(p, index = view[p], there)
    /\ UNCHANGED <<durable, host, faults>>

\* Mutant: the process keeps the value it compared with.
WriteIndexKeepingView(p, next, label) ==
    /\ ValidIndex(next)
    /\ index' = next
    /\ Goto(p, label)
    /\ UNCHANGED <<manifest, host, faults>>

\* The second half, write_index_atomic: validate and rename over the file.
\* The process continues with the value it wrote.
WriteIndex(p, next, label) ==
    /\ ValidIndex(next)
    /\ index' = next
    /\ view' = [view EXCEPT ![p] = next]
    /\ pc' = [pc EXCEPT ![p] = label]
    /\ UNCHANGED <<manifest, host, target, force, faults>>

\* The same write as the last step of a command.
WriteIndexAndStop(p, next) ==
    /\ ValidIndex(next)
    /\ index' = next
    /\ Stop(p)
    /\ UNCHANGED <<manifest, host, faults>>

Strike(kind) ==
    /\ kind \in Fault
    /\ faults < MaxFaults
    /\ faults' = faults + 1

\* The process is killed, the machine restarts, or an error ends the command.
Crash(p) ==
    /\ pc[p] # "idle"
    /\ Strike("crash")
    /\ Stop(p)
    /\ UNCHANGED <<durable, host>>

-----------------------------------------------------------------------------
(* The guest, started and stopped outside of the commands modelled here *)

PowerOn ==
    /\ DomainShutoff
    /\ OverlayOf(domain.disk) \in volume
    /\ Strike("power")
    /\ domain' = [domain EXCEPT !.state = "running", !.live = domain.disk]
    /\ UNCHANGED <<durable, volume, local>>

\* A domain that was undefined while it ran is transient and disappears.
Halted == IF domain.persistent
          THEN [domain EXCEPT !.state = "shutoff", !.live = NoGen]
          ELSE NoDomain

PowerOff ==
    /\ DomainRunning
    /\ domain' = Halted
    /\ UNCHANGED <<durable, volume, local, faults>>

-----------------------------------------------------------------------------
(* Invariants of the host that every command must keep *)

\* Types of the memory of the processes; one that runs holds an index.
LocalTypeOK(labels) ==
    /\ pc \in [Proc -> labels \cup {"idle"}]
    /\ view \in [Proc -> Index \cup {NoIndex}]
    /\ \A p \in Proc : pc[p] # "idle" => view[p] \in Index
    /\ target \in [Proc -> Gen \cup {NoGen}]
    /\ force \in [Proc -> BOOLEAN]

HostTypeOK(labels) ==
    /\ index \in Index
    /\ manifest \subseteq Gen
    /\ domain \in Domain
    /\ volume \subseteq Gen \X Role
    /\ LocalTypeOK(labels)
    /\ faults \in 0..MaxFaults

\* The domain never outlives a disk or seed it names, so no start of the
\* guest can find half of its generation (delete removes the domain before
\* the volumes, Fresh defines the domain after the overlay exists).
NoDomainOnMissingVolumes ==
    DomainPresent => VolumesOf(BoundDisk) \subseteq volume

\* The volumes of the Active and of every Retained generation exist as long
\* as neither a deletion nor the cleanup of that generation is on record: no
\* replacement, recovery or cleanup loses guest data it promised to keep.
OwnedVolumesExist ==
    index.delete.phase = "None" =>
        \A g \in WithStatus(index, "Active") \cup WithStatus(index, "Retained") :
            index.progress[g] = "None" => VolumesOf(g) \subseteq volume

\* When commands do not overlap, the one that runs holds the index on disk.
AloneAndCurrent ==
    Sequential =>
        \A p \in Proc : pc[p] # "idle" =>
            /\ view[p] = index
            /\ \A q \in Proc \ {p} : pc[q] = "idle"

-----------------------------------------------------------------------------
(* Initial states: an instance that create, and earlier Fresh and cleanup  *)
(* runs, left settled.                                                     *)

SettledIndex ==
    {i \in {[active |-> a, status |-> s,
             progress |-> [g \in Gen |-> "None"], delete |-> NoDelete] :
                a \in Gen, s \in [Gen -> (Status \ {"Preparing"}) \cup {"Unlisted"}]} :
        ValidIndex(i) /\ \A g \in Migrated : i.status[g] # "Failed"}

SettledInit ==
    /\ index \in SettledIndex
    /\ manifest = Listed(index)
    /\ domain = Shutoff(index.active)
    /\ volume = UNION {VolumesOf(g) :
                       g \in WithStatus(index, "Active")
                             \cup WithStatus(index, "Retained")}
    /\ pc = [p \in Proc |-> "idle"]
    /\ view = [p \in Proc |-> NoIndex]
    /\ target = [p \in Proc |-> NoGen]
    /\ force = [p \in Proc |-> FALSE]
    /\ faults = 0
=============================================================================
