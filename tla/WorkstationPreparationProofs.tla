--------------------- MODULE WorkstationPreparationProofs ---------------------
(***************************************************************************)
(* Theorems about the guided preparation of the Workstation base           *)
(* (WorkstationPreparation), for any set of preparations and addresses,    *)
(* any number of processes and any number of versions of a disk.           *)
(***************************************************************************)
EXTENDS WorkstationPreparation, TLAPS

-----------------------------------------------------------------------------
(* The inductive invariant *)

FirstSteps == {"create_record", "write_record"}

PlanSteps == {"stage", "publish_key", "iso", "upload", "publish_iso", "define",
              "publish_ready"}

AbortSteps == {"abort_domain", "abort_staging", "abort_iso", "retire_record"}

PromoteSteps == {"publish_promoted", "retire_domain", "retire_staging"}

\* The statuses a record may have when a process that holds it takes a step.
StepStatus(label, status) ==
    /\ label \in PlanSteps => status = "Planned"
    /\ label \in {"start_installer", "publish_running"} =>
           status = "InstallerReady"
    /\ label = "publish_confirmed" => status = "InstallerRunning"
    /\ label \in {"detach", "publish_pending"} =>
           status = "InstallationConfirmed"
    /\ label = "publish_booting" => status = "InstalledDiskBootPending"
    /\ label \in {"start_disk", "publish_awaiting"} =>
           status = "InstalledDiskBooting"
    /\ label = "publish_graphical" =>
           status \in {"AwaitingGraphicalBootConfirmation",
                       "InstalledSystemProven"}
    /\ label \in {"attest_promotion", "publish_promotion"} =>
           status = "InstalledSystemProven"
    /\ label \in {"clone", "publish_promoted"} => status = "PromotionReady"
    /\ label \in {"retire_domain", "retire_staging"} => status = "Promoted"
    /\ label \in AbortSteps => status \notin {"PromotionReady", "Promoted"}

\* What p holds is what is on record, but for the proof of a promotion that is
\* not published yet; before there is a record p holds a fresh one.
HoldsRecord(p) ==
    /\ pc[p] \in FirstSteps =>
           /\ record = IF pc[p] = "create_record" THEN NoRecord ELSE Torn
           /\ mem[p] = Planned(mem[p].id)
           /\ mem[p].id \in drawn
           /\ starts[mem[p].id] = 0
    /\ pc[p] \notin FirstSteps => Readable
    /\ pc[p] = "publish_promotion" =>
           record = [mem[p] EXCEPT !.proof = record.proof]
    /\ pc[p] \notin FirstSteps \cup {"publish_promotion"} => record = mem[p]

\* What the earlier steps of its command have done.
StepIsPrepared(p) ==
    LET r == mem[p] IN
    /\ StepStatus(pc[p], r.status)
    /\ pc[p] \in {"define"} \cup AbortSteps => r.iso
    /\ pc[p] = "start_disk" => r.started /\ starts[r.id] = 0
    /\ pc[p] \in {"abort_iso", "retire_record"} =>
           staging[r.id] = NoVolume /\ domain[r.id] = NoDomain
    /\ pc[p] = "retire_record" => iso[r.id] = "absent"

\* The statuses from the first start of the installed disk on.
StartedStatus ==
    {"InstalledDiskBooting", "AwaitingGraphicalBootConfirmation",
     "InstalledSystemProven", "PromotionReady", "Promoted"}

\* What is on record agrees with the storage and with the starts.
RecordIsSound ==
    /\ Readable =>
           /\ record.id \in drawn
           /\ record.started => record.status \in StartedStatus
           /\ domain[record.id] # NoDomain => record.iso
           /\ starts[record.id] # 0 => record.started
    /\ \A i \in Prep : starts[i] <= 1 /\ (starts[i] # 0 => i \in drawn)

\* One command at a time.
OneCommand ==
    /\ \A p, q \in Proc : pc[p] # "idle" /\ pc[q] # "idle" => p = q
    /\ \A p \in Proc : pc[p] # "idle" => HoldsRecord(p) /\ StepIsPrepared(p)

\* With and without overlap: a promotion that goes on found its own base.
PromotesItsOwn ==
    \A p \in Proc :
        pc[p] \in PromoteSteps =>
            canonical # NoVolume /\ canonical.of = mem[p].id

\* The type invariant, and the domain of pc.
PrepTyped == PreparationTypeOK /\ pc = [p \in Proc |-> pc[p]]

\* The inductive invariant.
PrepInv ==
    /\ PrepTyped
    /\ PromotesItsOwn
    /\ alone => OneCommand /\ RecordIsSound
    /\ ResourcesAreRecorded

-----------------------------------------------------------------------------
(* What a step does to the memory of the processes *)

OthersKeep(p) ==
    \A q \in Proc \ {p} : pc'[q] = pc[q] /\ mem'[q] = mem[q]

LEMMA GotoEffect ==
    ASSUME PrepTyped, NEW p \in Proc, NEW label, NEW r, Goto(p, label, r),
           label # "idle" => r \in Preparation
    PROVE  /\ mem' \in [Proc -> Preparation \cup {NoRecord}]
           /\ pc' = [q \in Proc |-> pc'[q]]
           /\ \A q \in Proc : pc'[q] = "idle" <=> mem'[q] = NoRecord
           /\ OthersKeep(p)
           /\ pc'[p] = label
           /\ label # "idle" => mem'[p] = r
<1>1. /\ pc = [q \in Proc |-> pc[q]]
      /\ mem \in [Proc -> Preparation \cup {NoRecord}]
      /\ \A q \in Proc : pc[q] = "idle" <=> mem[q] = NoRecord
    BY DEF PrepTyped, PreparationTypeOK
<1>2. /\ pc' = [pc EXCEPT ![p] = label]
      /\ mem' = [mem EXCEPT ![p] = IF label = "idle" THEN NoRecord ELSE r]
    BY DEF Goto
<1>3. pc' = [q \in Proc |-> IF q = p THEN label ELSE pc[q]]
    BY <1>1, <1>2
<1>4. \A q \in Proc : mem'[q] = IF q # p THEN mem[q]
                               ELSE IF label = "idle" THEN NoRecord ELSE r
    BY <1>1, <1>2
<1>5. mem' \in [Proc -> Preparation \cup {NoRecord}]
    BY <1>1, <1>2
<1> QED
    BY <1>1, <1>3, <1>4, <1>5, RecordAssumption DEF OthersKeep

\* A process that runs holds a record.
LEMMA HeldType ==
    ASSUME PrepTyped, NEW p \in Proc, pc[p] # "idle"
    PROVE  mem[p] \in Preparation
BY DEF PrepTyped, PreparationTypeOK

\* With one command at a time, the one that runs holds what is on record.
LEMMA HeldRecord ==
    ASSUME PrepInv, alone, NEW p \in Proc, pc[p] # "idle"
    PROVE  /\ \A q \in Proc \ {p} : pc[q] = "idle"
           /\ HoldsRecord(p) /\ StepIsPrepared(p)
           /\ pc[p] \notin FirstSteps =>
                  /\ Readable
                  /\ record.id = mem[p].id
                  /\ record.status = mem[p].status
                  /\ record.iso = mem[p].iso
                  /\ record.started = mem[p].started
<1>1. /\ \A q \in Proc \ {p} : pc[q] = "idle"
      /\ HoldsRecord(p) /\ StepIsPrepared(p)
    BY DEF PrepInv, OneCommand
<1>2. mem[p] \in Preparation
    BY HeldType DEF PrepInv
<1>3. CASE pc[p] = "publish_promotion"
    BY <1>1, <1>2, <1>3 DEF HoldsRecord, FirstSteps, Preparation
<1>4. CASE pc[p] # "publish_promotion"
    BY <1>1, <1>4 DEF HoldsRecord
<1> QED
    BY <1>1, <1>3, <1>4

\* The types that no process keeps in memory.
StorageTyped ==
    /\ record \in Preparation \cup {NoRecord, Torn}
    /\ staging \in [Prep -> Data \cup {NoVolume}]
    /\ iso \in [Prep -> {"absent", "partial", "whole"}]
    /\ domain \in [Prep -> Domain \cup {NoDomain}]
    /\ canonical \in [of : Prep, data : Data] \cup {NoVolume}
    /\ drawn \subseteq Prep
    /\ starts \in [Prep -> 0..2]

\* What a step of a command leaves to prove.
LEMMA CommandKeepsInv ==
    ASSUME PrepInv, NEW p \in Proc, NEW label, NEW r, Goto(p, label, r),
           label # "idle" => r \in Preparation,
           UNCHANGED alone, StorageTyped',
           alone => \A q \in Proc \ {p} : pc[q] = "idle",
           alone /\ label # "idle" => HoldsRecord(p)' /\ StepIsPrepared(p)',
           canonical # NoVolume => UNCHANGED canonical,
           label \in PromoteSteps =>
               canonical' # NoVolume /\ canonical'.of = r.id,
           alone => RecordIsSound',
           ResourcesAreRecorded'
    PROVE  PrepInv'
<1>1. /\ mem' \in [Proc -> Preparation \cup {NoRecord}]
      /\ pc' = [q \in Proc |-> pc'[q]]
      /\ \A q \in Proc : pc'[q] = "idle" <=> mem'[q] = NoRecord
      /\ OthersKeep(p) /\ pc'[p] = label
      /\ label # "idle" => mem'[p] = r
    BY GotoEffect DEF PrepInv
<1>2. PrepTyped'
    BY <1>1 DEF PrepTyped, PreparationTypeOK, PrepInv, StorageTyped
<1>3. PromotesItsOwn'
    BY <1>1 DEF PrepInv, PromotesItsOwn, OthersKeep, PromoteSteps
<1>4. alone' => OneCommand'
    BY <1>1 DEF OneCommand, OthersKeep
<1> QED
    BY <1>2, <1>3, <1>4 DEF PrepInv

\* A step that only looks.
LEMMA LookKeepsInv ==
    ASSUME PrepInv, NEW p \in Proc, NEW label, NEW r, Goto(p, label, r),
           UNCHANGED <<record, storage, alone, ghosts>>,
           label # "idle" => r \in Preparation,
           alone => \A q \in Proc \ {p} : pc[q] = "idle",
           alone /\ label # "idle" => HoldsRecord(p)' /\ StepIsPrepared(p)',
           label \in PromoteSteps => canonical # NoVolume /\ canonical.of = r.id
    PROVE  PrepInv'
<1>1. UNCHANGED <<record, staging, iso, domain, canonical, drawn, starts>>
    BY DEF storage, ghosts
<1>2. StorageTyped'
    BY <1>1 DEF StorageTyped, PrepInv, PrepTyped, PreparationTypeOK
<1>3. alone => RecordIsSound'
    BY <1>1 DEF PrepInv, RecordIsSound, Readable
<1>4. ResourcesAreRecorded'
    BY <1>1 DEF PrepInv, ResourcesAreRecorded, RecordOf, Readable
<1> QED
    BY <1>1, <1>2, <1>3, <1>4, CommandKeepsInv

LEMMA StopKeepsInv ==
    ASSUME PrepInv, NEW p \in Proc, Stop(p)
    PROVE  PrepInv'
<1>1. alone => \A q \in Proc \ {p} : pc[q] = "idle"
    BY HeldRecord DEF Stop
<1> QED
    BY <1>1, LookKeepsInv DEF Stop, PromoteSteps

\* A command begins with the record it reads.
LEMMA BeginKeepsInv ==
    ASSUME PrepInv, NEW p \in Proc, NEW label,
           label \notin FirstSteps \cup
               {"idle", "publish_promotion", "start_disk"},
           label \notin PromoteSteps,
           Begins(p), Readable, Goto(p, label, record),
           UNCHANGED <<record, storage, alone, ghosts>>,
           StepStatus(label, record.status),
           alone => /\ label \in {"define"} \cup AbortSteps => record.iso
                    /\ label \notin {"abort_iso", "retire_record"}
    PROVE  PrepInv'
<1>1. record \in Preparation
    BY DEF Readable, PrepInv, PrepTyped, PreparationTypeOK
<1>2. pc'[p] = label /\ mem'[p] = record
    BY <1>1, GotoEffect DEF PrepInv
<1>3. alone => \A q \in Proc \ {p} : pc[q] = "idle"
    BY DEF Begins
<1>4. HoldsRecord(p)'
    BY <1>2 DEF HoldsRecord, Readable
<1>5. alone => StepIsPrepared(p)'
    BY <1>2 DEF StepIsPrepared
<1> QED
    BY <1>1, <1>3, <1>4, <1>5, LookKeepsInv

LEMMA BeginningsKeepInv ==
    ASSUME PrepInv, NEW p \in Proc,
           \/ PrepareResume(p)
           \/ StartBegins(p)
           \/ ContinueBegins(p)
           \/ ConfirmInstalledBegins(p)
           \/ ConfirmGraphicalBegins(p)
           \/ PromoteBegins(p)
           \/ AbortBegins(p)
    PROVE  PrepInv'
<1> USE DEF FirstSteps, PromoteSteps, StepStatus, PlanSteps, AbortSteps
<1>1. CASE PrepareResume(p)
    BY <1>1, BeginKeepsInv DEF PrepareResume
<1>2. CASE StartBegins(p)
    BY <1>2, BeginKeepsInv DEF StartBegins
<1>3. CASE ContinueBegins(p)
    BY <1>3, BeginKeepsInv DEF ContinueBegins
<1>4. CASE ConfirmInstalledBegins(p)
    BY <1>4, BeginKeepsInv DEF ConfirmInstalledBegins
<1>5. CASE ConfirmGraphicalBegins(p)
    BY <1>5, BeginKeepsInv DEF ConfirmGraphicalBegins, GraphicalAccepts
<1>6. CASE PromoteBegins(p)
    BY <1>6, BeginKeepsInv DEF PromoteBegins
<1>7. CASE AbortBegins(p)
    <2>1. alone => record.iso
        BY <1>7 DEF AbortBegins, Off, PrepInv, RecordIsSound
    <2> QED
        BY <1>7, <2>1, BeginKeepsInv DEF AbortBegins
<1> QED
    BY <1>1, <1>2, <1>3, <1>4, <1>5, <1>6, <1>7

\* The promotion reads the disk it has proved.
LEMMA StreamKeepsInv ==
    ASSUME PrepInv, NEW p \in Proc, StreamStaging(p)
    PROVE  PrepInv'
<1> DEFINE r == [mem[p] EXCEPT !.proof = staging[mem[p].id]]
<1>1. /\ pc[p] = "attest_promotion"
      /\ Goto(p, "publish_promotion", r)
      /\ UNCHANGED <<record, storage, alone, ghosts>>
    BY DEF StreamStaging, At
<1>2. mem[p] \in Preparation
    BY <1>1, HeldType DEF PrepInv
<1>3. r \in Preparation /\ r.status = mem[p].status
    BY <1>2 DEF Preparation, PrepInv, PrepTyped, PreparationTypeOK
<1>4. pc'[p] = "publish_promotion" /\ mem'[p] = r
    BY <1>1, <1>3, GotoEffect DEF PrepInv
<1>5. ASSUME alone
      PROVE  /\ \A q \in Proc \ {p} : pc[q] = "idle"
             /\ HoldsRecord(p)' /\ StepIsPrepared(p)'
    <2>1. /\ \A q \in Proc \ {p} : pc[q] = "idle"
          /\ Readable /\ record = mem[p] /\ StepIsPrepared(p)
        BY <1>1, <1>5, HeldRecord DEF HoldsRecord, FirstSteps
    <2>2. record = [r EXCEPT !.proof = record.proof]
        BY <1>2, <2>1 DEF Preparation
    <2>3. HoldsRecord(p)'
        BY <1>1, <1>4, <2>1, <2>2 DEF HoldsRecord, FirstSteps, Readable
    <2>4. StepIsPrepared(p)'
        BY <1>1, <1>3, <1>4, <2>1
           DEF StepIsPrepared, StepStatus, PlanSteps, AbortSteps
    <2> QED
        BY <2>1, <2>3, <2>4
<1> QED
    BY <1>1, <1>3, <1>5, LookKeepsInv DEF PromoteSteps

-----------------------------------------------------------------------------
(* Publications *)

\* A publication keeps the invariant if what it publishes goes on from what
\* the process holds.
LEMMA PublishKeepsInv ==
    ASSUME PrepInv, NEW p \in Proc, NEW r \in Preparation, NEW label,
           Publish(p, r, label),
           pc[p] \notin FirstSteps \cup {"idle"},
           label \notin FirstSteps \cup AbortSteps \cup {"publish_promotion"},
           r.id = mem[p].id,
           mem[p].iso => r.iso,
           mem[p].started => r.started,
           alone => /\ r.started => r.status \in StartedStatus
                    /\ mem[p].status \in {"PromotionReady", "Promoted"} =>
                           r.status \in {"PromotionReady", "Promoted"}
                    /\ StepStatus(label, r.status)
                    /\ label = "define" => r.iso
                    /\ label = "start_disk" => r.started /\ starts[r.id] = 0,
           label \in PromoteSteps => canonical # NoVolume /\ canonical.of = r.id
    PROVE  PrepInv'
<1>1. /\ record' = r /\ Goto(p, label, r)
      /\ UNCHANGED <<staging, iso, domain, canonical, alone, drawn, starts>>
    BY DEF Publish, storage, ghosts
<1>2. StorageTyped'
    BY <1>1 DEF StorageTyped, PrepInv, PrepTyped, PreparationTypeOK
<1>3. pc'[p] = label /\ (label # "idle" => mem'[p] = r)
    BY <1>1, GotoEffect DEF PrepInv
<1>4. ASSUME alone
      PROVE  /\ \A q \in Proc \ {p} : pc[q] = "idle"
             /\ Readable
             /\ record.id = r.id
             /\ record.iso => r.iso
             /\ record.started => r.started
             /\ record.status = mem[p].status
    BY <1>4, HeldRecord
<1>5. Readable'
    BY <1>1, RecordAssumption DEF Readable
<1>6. alone /\ label # "idle" => HoldsRecord(p)' /\ StepIsPrepared(p)'
    BY <1>1, <1>3, <1>5 DEF HoldsRecord, StepIsPrepared, AbortSteps
<1>7. alone => RecordIsSound'
    BY <1>1, <1>4, <1>5 DEF PrepInv, RecordIsSound
<1>8. ResourcesAreRecorded'
    BY <1>1, <1>4, <1>5 DEF PrepInv, ResourcesAreRecorded, RecordOf
<1> QED
    BY <1>1, <1>2, <1>4, <1>6, <1>7, <1>8, CommandKeepsInv

\* The statuses of the flow.
LEMMA StatusNames ==
    /\ "Planned" \in Status
    /\ "InstallerReady" \in Status
    /\ "InstallerRunning" \in Status
    /\ "InstallationConfirmed" \in Status
    /\ "InstalledDiskBootPending" \in Status
    /\ "InstalledDiskBooting" \in Status
    /\ "AwaitingGraphicalBootConfirmation" \in Status
    /\ "InstalledSystemProven" \in Status
    /\ "PromotionReady" \in Status
    /\ "Promoted" \in Status
<1>1. \A n \in DOMAIN Flow : Flow[n] \in Status
    BY DEF Status, ToSet
<1>2. DOMAIN Flow = 1..10
    BY DEF Flow
<1> QED
    BY <1>1, <1>2 DEF Flow

\* The publications that change the status and nothing that other steps
\* count on.
LEMMA PublicationsKeepInv ==
    ASSUME PrepInv, NEW p \in Proc,
           \/ PublishKey(p)
           \/ PublishIso(p)
           \/ PublishInstallerReady(p)
           \/ PublishInstallerRunning(p)
           \/ PublishConfirmed(p)
           \/ PublishBootPending(p)
           \/ PublishBooting(p)
           \/ PublishAwaiting(p)
           \/ PublishAttested(p)
           \/ PublishManualConfirmation(p)
           \/ PublishGraphical(p)
           \/ PublishPromotionReady(p)
           \/ PublishPromoted(p)
    PROVE  PrepInv'
<1> DEFINE r == mem[p]
<1>1. pc[p] \notin FirstSteps \cup {"idle"}
    BY DEF PublishKey, PublishIso, PublishInstallerReady,
       PublishInstallerRunning, PublishConfirmed, PublishBootPending,
       PublishBooting, PublishAwaiting, PublishAttested,
       PublishManualConfirmation, PublishGraphical, PublishPromotionReady,
       PublishPromoted, At, FirstSteps
<1>2. r \in Preparation
    BY <1>1, HeldType DEF PrepInv
<1>3. /\ r.status \in Status
      /\ alone => StepStatus(pc[p], r.status)
      /\ alone => (r.started => r.status \in StartedStatus)
      /\ alone => (r.started = FALSE => starts[r.id] = 0)
    <2>1. ASSUME alone
          PROVE  /\ Readable /\ record.id = r.id /\ record.status = r.status
                 /\ record.started = r.started
                 /\ StepIsPrepared(p) /\ RecordIsSound
        BY <1>1, <2>1, HeldRecord DEF PrepInv
    <2> QED
        BY <1>2, <2>1 DEF Preparation, StepIsPrepared, RecordIsSound
<1> USE DEF FirstSteps, PlanSteps, AbortSteps, PromoteSteps, StepStatus,
           StartedStatus
<1>4. CASE PublishKey(p)
    <2> DEFINE s == [r EXCEPT !.key = TRUE]
    <2>1. /\ s \in Preparation /\ s.id = r.id /\ s.iso = r.iso
          /\ s.started = r.started /\ s.status = r.status
        BY <1>2, StatusNames DEF Preparation
    <2>2. /\ Publish(p, s, "iso") /\ pc[p] = "publish_key"
        BY <1>4 DEF PublishKey, At
    <2> HIDE DEF s
    <2> QED
        BY <1>1, <1>3, <2>1, <2>2, PublishKeepsInv
<1>5. CASE PublishIso(p)
    <2> DEFINE s == [r EXCEPT !.iso = TRUE]
    <2>1. /\ s \in Preparation /\ s.id = r.id /\ s.iso
          /\ s.started = r.started /\ s.status = r.status
        BY <1>2, StatusNames DEF Preparation
    <2>2. /\ Publish(p, s, "define") /\ pc[p] = "publish_iso"
        BY <1>5 DEF PublishIso, At
    <2> HIDE DEF s
    <2> QED
        BY <1>1, <1>3, <2>1, <2>2, PublishKeepsInv
<1>6. CASE PublishInstallerReady(p)
    <2>1. domain[r.id].mac \in Mac \cup {NoMac}
        BY <1>2, <1>6 DEF PublishInstallerReady, InstallerProven, Off, PrepInv,
           PrepTyped, PreparationTypeOK, Preparation, Domain
    <2> DEFINE s == [r EXCEPT !.mac = domain[r.id].mac,
                              !.status = "InstallerReady"]
    <2>2. /\ s \in Preparation /\ s.id = r.id /\ s.iso = r.iso
          /\ s.started = r.started /\ s.status = "InstallerReady"
        BY <1>2, <2>1, StatusNames DEF Preparation
    <2>3. Publish(p, s, "idle") /\ pc[p] = "publish_ready"
        BY <1>6 DEF PublishInstallerReady, At
    <2> HIDE DEF s
    <2> QED
        BY <1>1, <1>3, <2>2, <2>3, PublishKeepsInv
<1>7. CASE PublishInstallerRunning(p)
    <2> DEFINE s == [r EXCEPT !.status = "InstallerRunning"]
    <2>1. /\ s \in Preparation /\ s.id = r.id /\ s.iso = r.iso
          /\ s.started = r.started /\ s.status = "InstallerRunning"
        BY <1>2, StatusNames DEF Preparation
    <2>2. /\ Publish(p, s, "idle") /\ pc[p] = "publish_running"
        BY <1>7 DEF PublishInstallerRunning, At
    <2> HIDE DEF s
    <2> QED
        BY <1>1, <1>3, <2>1, <2>2, PublishKeepsInv
<1>8. CASE PublishConfirmed(p)
    <2> DEFINE s == [r EXCEPT !.status = "InstallationConfirmed",
                               !.confirmed = TRUE]
    <2>1. /\ s \in Preparation /\ s.id = r.id /\ s.iso = r.iso
          /\ s.started = r.started /\ s.status = "InstallationConfirmed"
        BY <1>2, StatusNames DEF Preparation
    <2>2. /\ Publish(p, s, "detach") /\ pc[p] = "publish_confirmed"
        BY <1>8 DEF PublishConfirmed, At
    <2> HIDE DEF s
    <2> QED
        BY <1>1, <1>3, <2>1, <2>2, PublishKeepsInv
<1>9. CASE PublishBootPending(p)
    <2> DEFINE s == [r EXCEPT !.diskOnly = TRUE,
                               !.status = "InstalledDiskBootPending"]
    <2>1. /\ s \in Preparation /\ s.id = r.id /\ s.iso = r.iso
          /\ s.started = r.started /\ s.status = "InstalledDiskBootPending"
        BY <1>2, StatusNames DEF Preparation
    <2>2. /\ Publish(p, s, "publish_booting") /\ pc[p] = "publish_pending"
        BY <1>9 DEF PublishBootPending, At
    <2> HIDE DEF s
    <2> QED
        BY <1>1, <1>3, <2>1, <2>2, PublishKeepsInv
<1>10. CASE PublishBooting(p)
    <2> DEFINE s == [r EXCEPT !.started = TRUE,
                               !.status = "InstalledDiskBooting"]
    <2>1. /\ s \in Preparation /\ s.id = r.id /\ s.iso = r.iso
          /\ s.started /\ s.status = "InstalledDiskBooting"
        BY <1>2, StatusNames DEF Preparation
    <2>2. /\ Publish(p, s, "start_disk") /\ pc[p] = "publish_booting"
        BY <1>10 DEF PublishBooting, At
    <2> HIDE DEF s
    <2> QED
        BY <1>1, <1>3, <2>1, <2>2, PublishKeepsInv
<1>11. CASE PublishAwaiting(p)
    <2> DEFINE s == [r EXCEPT !.status =
                               "AwaitingGraphicalBootConfirmation"]
    <2>1. /\ s \in Preparation /\ s.id = r.id /\ s.iso = r.iso
          /\ s.started = r.started /\ s.status = "AwaitingGraphicalBootConfirmation"
        BY <1>2, StatusNames DEF Preparation
    <2>2. /\ Publish(p, s, "idle") /\ pc[p] = "publish_awaiting"
        BY <1>11 DEF PublishAwaiting, At
    <2> HIDE DEF s
    <2> QED
        BY <1>1, <1>3, <2>1, <2>2, PublishKeepsInv
<1>12. CASE PublishAttested(p)
    <2> DEFINE s == [r EXCEPT !.attested = TRUE]
    <2>1. /\ s \in Preparation /\ s.id = r.id /\ s.iso = r.iso
          /\ s.started = r.started /\ s.status = r.status
        BY <1>2, StatusNames DEF Preparation
    <2>2. /\ Publish(p, s, "confirm_manual") /\ pc[p] = "attest_installed"
        BY <1>12 DEF PublishAttested, At
    <2> HIDE DEF s
    <2> QED
        BY <1>1, <1>3, <2>1, <2>2, PublishKeepsInv
<1>13. CASE PublishManualConfirmation(p)
    <2> DEFINE s == [r EXCEPT !.status = "InstallationConfirmed",
                               !.confirmed = TRUE]
    <2>1. /\ s \in Preparation /\ s.id = r.id /\ s.iso = r.iso
          /\ s.started = r.started /\ s.status = "InstallationConfirmed"
        BY <1>2, StatusNames DEF Preparation
    <2>2. /\ Publish(p, s, "idle") /\ pc[p] = "confirm_manual"
          /\ r.status = "InstallerReady"
        BY <1>13 DEF PublishManualConfirmation, At
    <2> HIDE DEF s
    <2> QED
        BY <1>1, <1>3, <2>1, <2>2, PublishKeepsInv
<1>14. CASE PublishGraphical(p)
    <2> DEFINE s == [r EXCEPT !.graphical = TRUE,
                               !.status = "InstalledSystemProven"]
    <2>1. /\ s \in Preparation /\ s.id = r.id /\ s.iso = r.iso
          /\ s.started = r.started /\ s.status = "InstalledSystemProven"
        BY <1>2, StatusNames DEF Preparation
    <2>2. /\ Publish(p, s, "idle") /\ pc[p] = "publish_graphical"
        BY <1>14 DEF PublishGraphical, At
    <2> HIDE DEF s
    <2> QED
        BY <1>1, <1>3, <2>1, <2>2, PublishKeepsInv
<1>15. CASE PublishPromotionReady(p)
    <2> DEFINE s == [r EXCEPT !.status = "PromotionReady"]
    <2>1. /\ s \in Preparation /\ s.id = r.id /\ s.iso = r.iso
          /\ s.started = r.started /\ s.status = "PromotionReady"
        BY <1>2, StatusNames DEF Preparation
    <2>2. /\ Publish(p, s, "clone") /\ pc[p] = "publish_promotion"
        BY <1>15 DEF PublishPromotionReady, At
    <2> HIDE DEF s
    <2> QED
        BY <1>1, <1>3, <2>1, <2>2, PublishKeepsInv
<1>16. CASE PublishPromoted(p)
    <2> DEFINE s == [r EXCEPT !.status = "Promoted"]
    <2>1. /\ s \in Preparation /\ s.id = r.id /\ s.iso = r.iso
          /\ s.started = r.started /\ s.status = "Promoted"
        BY <1>2, StatusNames DEF Preparation
    <2>2. /\ Publish(p, s, "retire_domain") /\ pc[p] = "publish_promoted"
          /\ canonical # NoVolume /\ canonical.of = r.id
        BY <1>16 DEF PublishPromoted, At, PrepInv, PromotesItsOwn
    <2> HIDE DEF s
    <2> QED
        BY <1>1, <1>3, <2>1, <2>2, PublishKeepsInv
<1> QED
    BY <1>4, <1>5, <1>6, <1>7, <1>8, <1>9, <1>10, <1>11,
       <1>12, <1>13, <1>14, <1>15, <1>16

-----------------------------------------------------------------------------
(* Steps on the storage *)

\* Such a step keeps the invariant if it touches only what belongs to the
\* preparation in hand.
LEMMA StorageStepKeepsInv ==
    ASSUME PrepInv, NEW p \in Proc, NEW label, Step(p, label),
           pc[p] \notin FirstSteps \cup {"idle", "publish_promotion"},
           label \notin FirstSteps \cup {"publish_promotion"},
           StorageTyped', UNCHANGED drawn,
           \A i \in Prep \ {mem[p].id} :
               /\ staging'[i] = staging[i]
               /\ iso'[i] = iso[i]
               /\ domain'[i] = domain[i]
               /\ starts'[i] = starts[i],
           alone => /\ domain'[mem[p].id] # NoDomain =>
                           domain[mem[p].id] # NoDomain \/ mem[p].iso
                    /\ \/ starts'[mem[p].id] = starts[mem[p].id]
                       \/ starts'[mem[p].id] = 1 /\ mem[p].started
                    /\ label # "idle" => StepIsPrepared(p)',
           \/ UNCHANGED canonical
           \/ /\ canonical = NoVolume
              /\ canonical'.of = mem[p].id
              /\ alone => mem[p].status \in {"PromotionReady", "Promoted"},
           label \in PromoteSteps =>
               canonical' # NoVolume /\ canonical'.of = mem[p].id
    PROVE  PrepInv'
<1>1. mem[p] \in Preparation /\ mem[p].id \in Prep
    BY HeldType DEF PrepInv, Preparation
<1>2. /\ Goto(p, label, mem[p]) /\ UNCHANGED <<record, alone>>
      /\ Readable' = Readable
    BY DEF Step, Readable
<1>3. /\ pc'[p] = label
      /\ label # "idle" => mem'[p] = mem[p]
    BY <1>1, <1>2, GotoEffect DEF PrepInv
<1>4. ASSUME alone
      PROVE  /\ \A q \in Proc \ {p} : pc[q] = "idle"
             /\ Readable /\ record = mem[p]
    BY <1>4, HeldRecord DEF HoldsRecord
<1>5. alone /\ label # "idle" => HoldsRecord(p)'
    BY <1>2, <1>3, <1>4 DEF HoldsRecord
<1>6. alone => RecordIsSound'
    BY <1>1, <1>2, <1>4 DEF PrepInv, RecordIsSound
<1>7. ResourcesAreRecorded'
    BY <1>1, <1>2, <1>4 DEF PrepInv, ResourcesAreRecorded, RecordOf
<1> QED
    BY <1>1, <1>2, <1>4, <1>5, <1>6, <1>7, CommandKeepsInv

LEMMA VolumesKeepInv ==
    ASSUME PrepInv, NEW p \in Proc,
           StageDisk(p) \/ CreateIso(p) \/ UploadIso(p) \/ AbortIso(p)
    PROVE  PrepInv'
<1> DEFINE i == mem[p].id
<1> USE DEF FirstSteps, PlanSteps, AbortSteps, PromoteSteps
<1>1. pc[p] \in {"stage", "iso", "upload", "abort_iso"}
    BY DEF StageDisk, CreateIso, UploadIso, AbortIso, At
<1>2. mem[p] \in Preparation /\ i \in Prep
    BY <1>1, HeldType DEF PrepInv, Preparation
<1>3. UNCHANGED <<record, domain, canonical, drawn, starts>>
    BY DEF StageDisk, CreateIso, UploadIso, AbortIso, Step, ghosts
<1>4. /\ staging' \in [Prep -> Data \cup {NoVolume}]
      /\ iso' \in [Prep -> {"absent", "partial", "whole"}]
      /\ \A j \in Prep \ {i} : staging'[j] = staging[j] /\ iso'[j] = iso[j]
    <2>1. 0 \in Data
        BY WritesAssumption DEF Data
    <2> QED
        BY <1>2, <2>1 DEF StageDisk, CreateIso, UploadIso, AbortIso, PrepInv,
           PrepTyped, PreparationTypeOK
<1>5. StorageTyped'
    BY <1>3, <1>4 DEF StorageTyped, PrepInv, PrepTyped, PreparationTypeOK
<1>6. PICK label : Step(p, label) /\ label = CASE pc[p] = "stage" -> "publish_key"
                         [] pc[p] = "iso" -> IF mem[p].iso THEN "publish_iso"
                                             ELSE "upload"
                         [] pc[p] = "upload" -> "publish_iso"
                         [] pc[p] = "abort_iso" -> "retire_record"
    BY DEF StageDisk, CreateIso, UploadIso, AbortIso, At
<1>7. pc'[p] = label /\ mem'[p] = mem[p]
    BY <1>1, <1>2, <1>6, GotoEffect DEF Step, PrepInv
<1>8. ASSUME alone
      PROVE  StepIsPrepared(p)'
    <2>1. StepIsPrepared(p)
        BY <1>1, <1>8, HeldRecord
    <2>2. CASE AbortIso(p)
        <3>1. mem[p].iso /\ iso'[i] = "absent" /\ UNCHANGED staging
            BY <1>2, <2>1, <2>2 DEF AbortIso, At, StepIsPrepared, PrepInv,
               PrepTyped, PreparationTypeOK
        <3> QED
            BY <1>3, <1>6, <1>7, <2>1, <2>2, <3>1
               DEF StepIsPrepared, StepStatus, AbortIso, At
    <2>3. CASE ~AbortIso(p)
        BY <1>1, <1>3, <1>6, <1>7, <2>1, <2>3
           DEF StepIsPrepared, StepStatus, StageDisk, CreateIso, UploadIso, At
    <2> QED
        BY <2>2, <2>3
<1> QED
    BY <1>1, <1>3, <1>4, <1>5, <1>6, <1>8, StorageStepKeepsInv

LEMMA DomainStepsKeepInv ==
    ASSUME PrepInv, NEW p \in Proc,
           \/ DefineInstaller(p)
           \/ StartInstaller(p)
           \/ DetachInstaller(p)
           \/ StartInstalledDisk(p)
    PROVE  PrepInv'
<1> DEFINE i == mem[p].id
<1> USE DEF FirstSteps, PlanSteps, AbortSteps, PromoteSteps
<1>1. pc[p] \in {"define", "start_installer", "detach", "start_disk"}
    BY DEF DefineInstaller, StartInstaller, DetachInstaller,
       StartInstalledDisk, At
<1>2. mem[p] \in Preparation /\ i \in Prep
    BY <1>1, HeldType DEF PrepInv, Preparation
<1>3. UNCHANGED <<record, staging, iso, canonical, drawn>>
    BY DEF DefineInstaller, StartInstaller, DetachInstaller,
       StartInstalledDisk, Step, ghosts
<1>4. domain \in [Prep -> Domain \cup {NoDomain}] /\ starts \in [Prep -> 0..2]
    BY DEF PrepInv, PrepTyped, PreparationTypeOK
<1>5. PICK new \in Domain \cup {NoDomain} : domain' = [domain EXCEPT ![i] = new]
    <2>1. CASE DefineInstaller(p)
        <3>1. PICK m \in Mac :
                  domain' = [domain EXCEPT
                      ![i] = IF domain[i] = NoDomain
                             THEN [cdrom |-> TRUE, mac |-> m,
                                   drift |-> "none", runs |-> "off"]
                             ELSE domain[i]]
            BY <2>1 DEF DefineInstaller
        <3>2. [cdrom |-> TRUE, mac |-> m, drift |-> "none", runs |-> "off"]
                  \in Domain
            BY DEF Domain, Drift
        <3> QED
            BY <1>2, <1>4, <3>1, <3>2
    <2>2. CASE StartInstaller(p) \/ StartInstalledDisk(p)
        <3>1. domain[i] \in Domain
            BY <1>2, <1>4, <2>2 DEF StartInstaller, StartInstalledDisk, Off
        <3>2. PICK runs \in {"cdrom", "disk"} :
                  domain' = [domain EXCEPT ![i].runs = runs]
            BY <2>2 DEF StartInstaller, StartInstalledDisk
        <3>3. /\ domain' = [domain EXCEPT ![i] = [domain[i] EXCEPT !.runs = runs]]
              /\ [domain[i] EXCEPT !.runs = runs] \in Domain
            BY <3>1, <3>2 DEF Domain
        <3> QED
            BY <3>3
    <2>3. CASE DetachInstaller(p)
        <3>1. domain[i] \in Domain /\ mem[p].mac \in Mac
            BY <1>2, <1>4, <2>3 DEF DetachInstaller, Off, Preparation
        <3> DEFINE new == [domain[i] EXCEPT !.cdrom = FALSE, !.mac = mem[p].mac]
        <3>2. new \in Domain
            BY <3>1 DEF Domain
        <3>3. domain' = [domain EXCEPT ![i] = new]
            BY <1>2, <1>4, <2>3 DEF DetachInstaller
        <3> QED
            BY <3>2, <3>3
    <2> QED
        BY <2>1, <2>2, <2>3
<1>6. domain[i] # NoDomain \/ pc[p] = "define"
    BY DEF DefineInstaller, StartInstaller, DetachInstaller,
       StartInstalledDisk, Off, At
<1>7. /\ starts' \in [Prep -> 0..2]
      /\ \A j \in Prep \ {i} : starts'[j] = starts[j]
      /\ \/ starts' = starts
         \/ /\ pc[p] = "start_disk"
            /\ starts[i] = 0 => starts'[i] = 1
    BY <1>2, <1>4 DEF DefineInstaller, StartInstaller, DetachInstaller,
       StartInstalledDisk, At, ghosts
<1>8. StorageTyped'
    BY <1>2, <1>3, <1>4, <1>5, <1>7
       DEF StorageTyped, PrepInv, PrepTyped, PreparationTypeOK
<1>9. PICK label : Step(p, label) /\ label = CASE
                            pc[p] = "define" -> "publish_ready"
                         [] pc[p] = "start_installer" -> "publish_running"
                         [] pc[p] = "detach" -> "publish_pending"
                         [] pc[p] = "start_disk" -> "publish_awaiting"
    BY DEF DefineInstaller, StartInstaller, DetachInstaller,
       StartInstalledDisk, At
<1>10. pc'[p] = label /\ mem'[p] = mem[p]
    BY <1>1, <1>2, <1>9, GotoEffect DEF Step, PrepInv
<1>11. ASSUME alone
       PROVE  /\ StepIsPrepared(p)'
              /\ domain'[i] # NoDomain => domain[i] # NoDomain \/ mem[p].iso
              /\ starts'[i] = starts[i] \/ (starts'[i] = 1 /\ mem[p].started)
    <2>1. StepIsPrepared(p)
        BY <1>1, <1>11, HeldRecord
    <2>2. StepIsPrepared(p)'
        BY <1>1, <1>9, <1>10, <2>1 DEF StepIsPrepared, StepStatus
    <2> QED
        BY <1>6, <1>7, <2>1, <2>2 DEF StepIsPrepared
<1> QED
    BY <1>1, <1>2, <1>3, <1>4, <1>5, <1>7, <1>8, <1>9, <1>11,
       StorageStepKeepsInv

\* The copy of the staging disk becomes the canonical base.
LEMMA CloneKeepsInv ==
    ASSUME PrepInv, NEW p \in Proc, CloneCanonical(p)
    PROVE  PrepInv'
<1> DEFINE i == mem[p].id
<1> USE DEF FirstSteps, PlanSteps, AbortSteps, PromoteSteps
<1>1. /\ pc[p] = "clone" /\ canonical = NoVolume
      /\ canonical' = [of |-> i, data |-> staging[i]] /\ staging[i] # NoVolume
      /\ Step(p, "publish_promoted")
      /\ UNCHANGED <<record, staging, iso, domain, drawn, starts>>
    BY DEF CloneCanonical, At, Step, ghosts
<1>2. mem[p] \in Preparation /\ i \in Prep
    BY <1>1, HeldType DEF PrepInv, Preparation
<1>3. StorageTyped' /\ canonical'.of = i /\ canonical' # NoVolume
    <2>1. canonical' \in [of : Prep, data : Data]
        BY <1>1, <1>2 DEF PrepInv, PrepTyped, PreparationTypeOK
    <2> QED
        BY <1>1, <2>1, VolumeAssumption
           DEF StorageTyped, PrepInv, PrepTyped, PreparationTypeOK
<1>4. pc'[p] = "publish_promoted" /\ mem'[p] = mem[p]
    BY <1>1, <1>2, GotoEffect DEF Step, PrepInv
<1>5. ASSUME alone
      PROVE  StepIsPrepared(p)' /\ mem[p].status = "PromotionReady"
    BY <1>1, <1>4, <1>5, HeldRecord DEF StepIsPrepared, StepStatus
<1> QED
    BY <1>1, <1>3, <1>5, StorageStepKeepsInv

\* A domain is undefined and its disk deleted, by a promotion or an abort.
LEMMA RetireKeepsInv ==
    ASSUME PrepInv, NEW p \in Proc,
           \/ PromoteRetiresDomain(p)
           \/ PromoteRetiresStaging(p)
           \/ AbortDomain(p)
           \/ AbortStaging(p)
    PROVE  PrepInv'
<1> DEFINE i == mem[p].id
<1> USE DEF FirstSteps, PlanSteps, AbortSteps, PromoteSteps
<1>1. /\ pc[p] \in {"retire_domain", "retire_staging", "abort_domain",
                    "abort_staging"}
      /\ UNCHANGED <<record, iso, canonical, drawn, starts>>
    BY DEF PromoteRetiresDomain, PromoteRetiresStaging, AbortDomain,
       AbortStaging, RetireDomain, RetireStaging, At, Step, ghosts
<1>2. mem[p] \in Preparation /\ i \in Prep
    BY <1>1, HeldType DEF PrepInv, Preparation
<1>3. \/ staging' = [staging EXCEPT ![i] = NoVolume] /\ UNCHANGED domain
      \/ domain' = [domain EXCEPT ![i] = NoDomain] /\ UNCHANGED staging
    BY DEF PromoteRetiresDomain, PromoteRetiresStaging, AbortDomain,
       AbortStaging, RetireDomain, RetireStaging
<1>4. /\ StorageTyped'
      /\ \A j \in Prep \ {i} : staging'[j] = staging[j] /\ domain'[j] = domain[j]
      /\ domain'[i] # NoDomain => domain[i] # NoDomain
    BY <1>1, <1>2, <1>3
       DEF StorageTyped, PrepInv, PrepTyped, PreparationTypeOK
<1>5. PICK label : Step(p, label) /\ label = CASE
                            pc[p] = "retire_domain" -> "retire_staging"
                         [] pc[p] = "retire_staging" -> "idle"
                         [] pc[p] = "abort_domain" -> "abort_staging"
                         [] pc[p] = "abort_staging" -> "abort_iso"
    BY DEF PromoteRetiresDomain, PromoteRetiresStaging, AbortDomain,
       AbortStaging, RetireDomain, RetireStaging, At
<1>6. label # "idle" => pc'[p] = label /\ mem'[p] = mem[p]
    BY <1>1, <1>2, <1>5, GotoEffect DEF Step, PrepInv
<1>7. pc[p] = "abort_staging" => staging'[i] = NoVolume /\ domain'[i] = NoDomain
    BY <1>2 DEF PromoteRetiresDomain, PromoteRetiresStaging, AbortDomain,
       AbortStaging, RetireDomain, RetireStaging, At, PrepInv, PrepTyped,
       PreparationTypeOK
<1>8. ASSUME alone, label # "idle"
      PROVE  StepIsPrepared(p)'
    <2>1. StepIsPrepared(p)
        BY <1>1, <1>8, HeldRecord
    <2> QED
        BY <1>1, <1>5, <1>6, <1>7, <1>8, <2>1 DEF StepIsPrepared, StepStatus
<1>9. label = "retire_staging" => canonical # NoVolume /\ canonical.of = i
    BY <1>1, <1>5 DEF PrepInv, PromotesItsOwn
<1> QED
    BY <1>1, <1>4, <1>5, <1>8, <1>9, StorageStepKeepsInv

-----------------------------------------------------------------------------
(* The first and the last steps of a record *)

\* A new preparation begins with a record nobody has seen.
LEMMA NewKeepsInv ==
    ASSUME PrepInv, NEW p \in Proc, NEW i \in Prep, PrepareNew(p, i)
    PROVE  PrepInv'
<1>1. /\ pc[p] = "idle" /\ Goto(p, "create_record", Planned(i))
      /\ record = NoRecord /\ i \notin drawn /\ drawn' = drawn \cup {i}
      /\ UNCHANGED <<record, staging, iso, domain, canonical, alone, starts>>
      /\ alone => \A q \in Proc \ {p} : pc[q] = "idle"
    BY DEF PrepareNew, Begins, storage
<1>2. Planned(i) \in Preparation /\ Planned(i).id = i
    BY StatusNames DEF Planned, Preparation
<1>3. pc'[p] = "create_record" /\ mem'[p] = Planned(i)
    BY <1>1, <1>2, GotoEffect DEF PrepInv
<1>4. StorageTyped'
    BY <1>1 DEF StorageTyped, PrepInv, PrepTyped, PreparationTypeOK
<1>5. ASSUME alone
      PROVE  HoldsRecord(p)' /\ StepIsPrepared(p)' /\ RecordIsSound'
    <2>1. starts[i] = 0 /\ RecordIsSound /\ ~Readable
        BY <1>1, <1>5 DEF PrepInv, RecordIsSound, Readable
    <2>2. HoldsRecord(p)'
        BY <1>1, <1>2, <1>3, <2>1 DEF HoldsRecord, FirstSteps
    <2>3. StepIsPrepared(p)'
        BY <1>3 DEF StepIsPrepared, StepStatus, PlanSteps, AbortSteps
    <2>4. RecordIsSound'
        BY <1>1, <2>1 DEF RecordIsSound, Readable
    <2> QED
        BY <2>2, <2>3, <2>4
<1>6. ResourcesAreRecorded'
    BY <1>1 DEF PrepInv, ResourcesAreRecorded, RecordOf, Readable
<1> QED
    BY <1>1, <1>2, <1>4, <1>5, <1>6, CommandKeepsInv DEF PromoteSteps

\* The file of a record is created, filled, and removed by an abort that has
\* left nothing behind.
LEMMA RecordStepsKeepInv ==
    ASSUME PrepInv, NEW p \in Proc,
           CreateRecord(p) \/ WriteRecord(p) \/ RetireRecord(p)
    PROVE  PrepInv'
<1> DEFINE r == mem[p]
<1>1. /\ pc[p] \in {"create_record", "write_record", "retire_record"}
      /\ UNCHANGED <<staging, iso, domain, canonical, alone, drawn, starts>>
    BY DEF CreateRecord, WriteRecord, RetireRecord, At, storage, ghosts
<1>2. r \in Preparation
    BY <1>1, HeldType DEF PrepInv
<1>3. alone => /\ \A q \in Proc \ {p} : pc[q] = "idle"
               /\ HoldsRecord(p) /\ StepIsPrepared(p)
    BY <1>1, HeldRecord
<1>4. record' \in Preparation \cup {NoRecord, Torn}
    BY <1>2 DEF CreateRecord, WriteRecord, RetireRecord
<1>5. StorageTyped'
    BY <1>1, <1>4 DEF StorageTyped, PrepInv, PrepTyped, PreparationTypeOK
<1>6. CASE CreateRecord(p)
    <2>1. /\ record = NoRecord /\ record' = Torn /\ pc[p] = "create_record"
          /\ Goto(p, "write_record", r)
        BY <1>6 DEF CreateRecord, At
    <2>2. pc'[p] = "write_record" /\ mem'[p] = r
        BY <1>2, <2>1, GotoEffect DEF PrepInv
    <2>3. ~Readable /\ ~Readable'
        BY <2>1 DEF Readable
    <2>4. alone => HoldsRecord(p)'
        BY <1>1, <1>3, <2>1, <2>2 DEF HoldsRecord, FirstSteps
    <2>5. StepIsPrepared(p)'
        BY <2>2 DEF StepIsPrepared, StepStatus, PlanSteps, AbortSteps
    <2>6. alone => RecordIsSound'
        BY <1>1, <2>3 DEF PrepInv, RecordIsSound
    <2>7. ResourcesAreRecorded'
        BY <1>1, <2>3 DEF PrepInv, ResourcesAreRecorded, RecordOf
    <2> QED
        BY <1>1, <1>2, <1>3, <1>5, <2>1, <2>4, <2>5, <2>6, <2>7,
           CommandKeepsInv DEF PromoteSteps
<1>7. CASE WriteRecord(p)
    <2>1. /\ record' = r /\ pc[p] = "write_record" /\ Goto(p, "stage", r)
        BY <1>7 DEF WriteRecord, At
    <2>2. pc'[p] = "stage" /\ mem'[p] = r
        BY <1>2, <2>1, GotoEffect DEF PrepInv
    <2>3. Readable'
        BY <1>2, <2>1, RecordAssumption DEF Readable
    <2>4. ASSUME alone
          PROVE  /\ ~Readable /\ r.id \in drawn /\ starts[r.id] = 0
                 /\ r.status = "Planned" /\ r.started = FALSE
        BY <1>3, <2>1, <2>4 DEF HoldsRecord, FirstSteps, Readable, Planned
    <2>5. HoldsRecord(p)'
        BY <2>1, <2>2, <2>3 DEF HoldsRecord, FirstSteps
    <2>6. alone => StepIsPrepared(p)'
        BY <2>2, <2>4 DEF StepIsPrepared, StepStatus, PlanSteps, AbortSteps
    <2>7. ASSUME alone
          PROVE  /\ canonical = NoVolume
                 /\ \A i \in Prep : domain[i] = NoDomain
                 /\ \A i \in Prep : staging[i] = NoVolume /\ iso[i] = "absent"
        BY <2>4, <2>7 DEF PrepInv, ResourcesAreRecorded, RecordOf
    <2>8. alone => RecordIsSound'
        BY <1>1, <1>2, <2>1, <2>4, <2>7
           DEF PrepInv, RecordIsSound, Preparation
    <2>9. ResourcesAreRecorded'
        BY <1>1, <2>7 DEF ResourcesAreRecorded
    <2> QED
        BY <1>1, <1>2, <1>3, <1>5, <2>1, <2>5, <2>6, <2>8, <2>9,
           CommandKeepsInv DEF PromoteSteps
<1>8. CASE RetireRecord(p)
    <2>1. /\ record' = NoRecord /\ pc[p] = "retire_record"
          /\ Goto(p, "idle", NoRecord)
        BY <1>8 DEF RetireRecord, At
    <2>2. ~Readable'
        BY <2>1 DEF Readable
    <2>3. alone => RecordIsSound'
        BY <1>1, <2>2 DEF PrepInv, RecordIsSound
    <2>4. ASSUME alone
          PROVE  /\ Readable /\ record = r
                 /\ r.status \notin {"PromotionReady", "Promoted"}
                 /\ staging[r.id] = NoVolume /\ domain[r.id] = NoDomain
                 /\ iso[r.id] = "absent"
        BY <1>3, <2>1, <2>4
           DEF HoldsRecord, FirstSteps, StepIsPrepared, StepStatus, AbortSteps
    <2>5. ResourcesAreRecorded'
        BY <1>1, <2>4 DEF PrepInv, ResourcesAreRecorded, RecordOf
    <2> QED
        BY <1>1, <1>3, <1>5, <2>1, <2>3, <2>5, CommandKeepsInv
           DEF PromoteSteps
<1> QED
    BY <1>6, <1>7, <1>8

-----------------------------------------------------------------------------
(* The operator, the guest and the theorems *)

LEMMA OperatorKeepsInv ==
    ASSUME PrepInv, NEW i \in Prep, Operator(i)
    PROVE  PrepInv'
<1>1. UNCHANGED <<record, iso, canonical, alone, pc, mem, drawn, starts>>
    BY DEF Operator, PowerOn, PowerOff, GuestWrites, EditDomain, Outside,
           ghosts
<1>2. /\ staging \in [Prep -> Data \cup {NoVolume}]
      /\ domain \in [Prep -> Domain \cup {NoDomain}]
    BY DEF PrepInv, PrepTyped, PreparationTypeOK
<1>3. /\ staging' \in [Prep -> Data \cup {NoVolume}]
      /\ \A j \in Prep : staging[j] = NoVolume => staging'[j] = NoVolume
    <2>1. CASE GuestWrites(i)
        <3>1. staging[i] \in Data /\ staging[i] # NoVolume
            BY <1>2, <2>1 DEF GuestWrites
        <3>2. staging[i] + 1 \in Data
            BY <2>1, <3>1, WritesAssumption DEF GuestWrites, Data
        <3> QED
            BY <1>2, <2>1, <3>1, <3>2 DEF GuestWrites
    <2>2. CASE UNCHANGED staging
        BY <1>2, <2>2
    <2> QED
        BY <2>1, <2>2 DEF Operator, PowerOn, PowerOff, EditDomain
<1>4. /\ domain' \in [Prep -> Domain \cup {NoDomain}]
      /\ \A j \in Prep : domain[j] = NoDomain => domain'[j] = NoDomain
    <2>1. ASSUME NEW new \in Domain, domain[i] \in Domain, domain[i] # NoDomain,
                 domain' = [domain EXCEPT ![i] = new]
          PROVE  /\ domain' \in [Prep -> Domain \cup {NoDomain}]
                 /\ \A j \in Prep : domain[j] = NoDomain => domain'[j] = NoDomain
        BY <1>2, <2>1
    <2>2. CASE UNCHANGED domain
        BY <1>2, <2>2
    <2>3. CASE ~UNCHANGED domain
        <3>1. domain[i] \in Domain /\ domain[i] # NoDomain
            BY <1>2, <2>3 DEF Operator, PowerOn, PowerOff, GuestWrites,
               EditDomain, Off, Running
        <3>2. \/ \E runs \in {"off", "cdrom", "disk"} :
                     domain' = [domain EXCEPT
                                    ![i] = [domain[i] EXCEPT !.runs = runs]]
              \/ \E m \in Mac :
                     domain' = [domain EXCEPT
                                    ![i] = [domain[i] EXCEPT !.mac = m]]
              \/ \E d \in Drift :
                     domain' = [domain EXCEPT
                                    ![i] = [domain[i] EXCEPT !.drift = d]]
            BY <1>2, <2>3
               DEF Operator, PowerOn, PowerOff, GuestWrites, EditDomain
        <3>3. /\ \A runs \in {"off", "cdrom", "disk"} :
                     [domain[i] EXCEPT !.runs = runs] \in Domain
              /\ \A m \in Mac : [domain[i] EXCEPT !.mac = m] \in Domain
              /\ \A d \in Drift : [domain[i] EXCEPT !.drift = d] \in Domain
            BY <3>1 DEF Domain
        <3> QED
            BY <2>1, <3>1, <3>2, <3>3
    <2> QED
        BY <2>2, <2>3
<1>5. PrepTyped'
    BY <1>1, <1>3, <1>4 DEF PrepInv, PrepTyped, PreparationTypeOK
<1>6. PromotesItsOwn'
    BY <1>1 DEF PrepInv, PromotesItsOwn
<1>7. \A r \in Preparation : r.id \in Prep
    BY DEF Preparation
<1>8. ASSUME alone, NEW p \in Proc, pc[p] # "idle"
      PROVE  HoldsRecord(p)' /\ StepIsPrepared(p)'
    <2>1. HoldsRecord(p) /\ StepIsPrepared(p) /\ mem[p] \in Preparation
        BY <1>8, HeldType DEF PrepInv, OneCommand
    <2>2. HoldsRecord(p)'
        BY <1>1, <2>1 DEF HoldsRecord, Readable
    <2>3. StepIsPrepared(p)'
        BY <1>1, <1>3, <1>4, <1>7, <2>1 DEF StepIsPrepared
    <2> QED
        BY <2>2, <2>3
<1>9. alone => OneCommand'
    BY <1>1, <1>8 DEF PrepInv, OneCommand
<1>10. alone => RecordIsSound'
    BY <1>1, <1>4, <1>7
       DEF PrepInv, PrepTyped, PreparationTypeOK, RecordIsSound, Readable
<1>11. ResourcesAreRecorded'
    BY <1>1, <1>3, <1>4
       DEF PrepInv, ResourcesAreRecorded, RecordOf, Readable
<1> QED
    BY <1>1, <1>5, <1>6, <1>9, <1>10, <1>11 DEF PrepInv

LEMMA PrepStepKeepsInv ==
    ASSUME PrepInv, [PrepNext]_prepVars
    PROVE  PrepInv'
<1>1. CASE UNCHANGED prepVars
    <2>1. UNCHANGED <<record, staging, iso, domain, canonical, alone, pc, mem,
                      drawn, starts>>
        BY <1>1 DEF prepVars, storage, ghosts
    <2>2. PrepTyped' /\ PromotesItsOwn'
        BY <2>1 DEF PrepInv, PrepTyped, PreparationTypeOK, PromotesItsOwn
    <2>3. alone => OneCommand'
        BY <2>1 DEF PrepInv, OneCommand, HoldsRecord, StepIsPrepared, Readable
    <2>4. (alone => RecordIsSound') /\ ResourcesAreRecorded'
        BY <2>1 DEF PrepInv, RecordIsSound, ResourcesAreRecorded, RecordOf,
           Readable
    <2> QED
        BY <2>1, <2>2, <2>3, <2>4 DEF PrepInv
<1>2. ASSUME NEW p \in Proc, Command(p)
      PROVE  PrepInv'
    BY <1>2, NewKeepsInv, RecordStepsKeepInv, BeginningsKeepInv,
       StreamKeepsInv, PublicationsKeepInv, VolumesKeepInv, DomainStepsKeepInv,
       CloneKeepsInv, RetireKeepsInv, StopKeepsInv
       DEF Command
<1> QED
    BY <1>1, <1>2, OperatorKeepsInv DEF PrepNext

\* The inductive invariant of the preparation.
THEOREM PreparationInvariant == PrepSpec => []PrepInv
<1>1. PrepInit => PrepInv
    <2>1. SUFFICES ASSUME PrepInit
                   PROVE  PrepInv
        PROOF OBVIOUS
    <2>2. PrepTyped
        BY <2>1 DEF PrepInit, PrepTyped, PreparationTypeOK
    <2>3. PromotesItsOwn
        BY <2>1 DEF PrepInit, PromotesItsOwn, PromoteSteps
    <2>4. OneCommand /\ RecordIsSound /\ ResourcesAreRecorded
        BY <2>1 DEF PrepInit, OneCommand, RecordIsSound,
           ResourcesAreRecorded, Readable
    <2> QED
        BY <2>2, <2>3, <2>4 DEF PrepInv
<1>2. PrepInv /\ [PrepNext]_prepVars => PrepInv'
    BY PrepStepKeepsInv
<1> QED
    BY <1>1, <1>2, PTL DEF PrepSpec

\* Every reachable state is typed, whether commands overlap or not.
THEOREM PreparationTypeCorrect == PrepSpec => []PreparationTypeOK
<1>1. PrepInv => PreparationTypeOK
    BY DEF PrepInv, PrepTyped
<1> QED
    BY <1>1, PreparationInvariant, PTL

\* With one command at a time nothing is left that the record does not name,
\* wherever the commands were killed or refused.
THEOREM NothingIsLost == PrepSpec => []ResourcesAreRecorded
<1>1. PrepInv => ResourcesAreRecorded
    BY DEF PrepInv
<1> QED
    BY <1>1, PreparationInvariant, PTL

\* With one command at a time the installed disk is started once at most.
THEOREM StartIsNeverRepeated == PrepSpec => []InstalledDiskStartsOnce
<1>1. PrepInv => InstalledDiskStartsOnce
    BY DEF PrepInv, PrepTyped, PreparationTypeOK, RecordIsSound,
       InstalledDiskStartsOnce, RecordOf
<1> QED
    BY <1>1, PreparationInvariant, PTL

-----------------------------------------------------------------------------
(* The order of the statuses *)

LEMMA RankIsPosition ==
    ASSUME NEW n \in 1..10
    PROVE  Rank(Flow[n]) = n
<1>1. DOMAIN Flow = 1..10
    BY DEF Flow
<1>2. \A m, k \in 1..10 : Flow[m] = Flow[k] => m = k
    BY DEF Flow
<1> QED
    BY <1>1, <1>2 DEF Rank

LEMMA Ranks ==
    /\ Rank("Planned") = 1
    /\ Rank("InstallerReady") = 2
    /\ Rank("InstallerRunning") = 3
    /\ Rank("InstallationConfirmed") = 4
    /\ Rank("InstalledDiskBootPending") = 5
    /\ Rank("InstalledDiskBooting") = 6
    /\ Rank("AwaitingGraphicalBootConfirmation") = 7
    /\ Rank("InstalledSystemProven") = 8
    /\ Rank("PromotionReady") = 9
    /\ Rank("Promoted") = 10
<1>1. /\ Flow[1] = "Planned"
      /\ Flow[2] = "InstallerReady"
      /\ Flow[3] = "InstallerRunning"
      /\ Flow[4] = "InstallationConfirmed"
      /\ Flow[5] = "InstalledDiskBootPending"
      /\ Flow[6] = "InstalledDiskBooting"
      /\ Flow[7] = "AwaitingGraphicalBootConfirmation"
      /\ Flow[8] = "InstalledSystemProven"
      /\ Flow[9] = "PromotionReady"
      /\ Flow[10] = "Promoted"
    BY DEF Flow
<1>2. /\ Rank(Flow[1]) = 1 /\ Rank(Flow[2]) = 2 /\ Rank(Flow[3]) = 3
      /\ Rank(Flow[4]) = 4 /\ Rank(Flow[5]) = 5 /\ Rank(Flow[6]) = 6
      /\ Rank(Flow[7]) = 7 /\ Rank(Flow[8]) = 8 /\ Rank(Flow[9]) = 9
      /\ Rank(Flow[10]) = 10
    BY RankIsPosition
<1> QED
    BY <1>1, <1>2

LEMMA RankType ==
    ASSUME NEW status \in Status
    PROVE  Rank(status) \in Nat
<1>1. DOMAIN Flow = 1..10
    BY DEF Flow
<1>2. PICK n \in DOMAIN Flow : status = Flow[n]
    BY DEF Status, ToSet
<1> QED
    BY <1>1, <1>2, RankIsPosition

\* A record is changed only by its first contents, by its removal, and by the
\* publications.
LEMMA WhoChangesTheRecord ==
    ASSUME PrepInv, [PrepNext]_prepVars, alone, Readable, Readable',
           record' # record
    PROVE  \E p \in Proc :
               \/ PublishKey(p)
               \/ PublishIso(p)
               \/ PublishInstallerReady(p)
               \/ PublishInstallerRunning(p)
               \/ PublishConfirmed(p)
               \/ PublishBootPending(p)
               \/ PublishBooting(p)
               \/ PublishAwaiting(p)
               \/ PublishAttested(p)
               \/ PublishManualConfirmation(p)
               \/ PublishGraphical(p)
               \/ PublishPromotionReady(p)
               \/ PublishPromoted(p)
<1>1. PICK p \in Proc : Command(p)
    BY DEF PrepNext, prepVars, Operator, PowerOn, PowerOff, GuestWrites,
       EditDomain, Outside
<1>2. ~CreateRecord(p) /\ ~WriteRecord(p) /\ ~RetireRecord(p)
    <2>1. ~CreateRecord(p) /\ ~RetireRecord(p)
        BY DEF CreateRecord, RetireRecord, Readable
    <2>2. ~WriteRecord(p)
        <3>1. SUFFICES ASSUME pc[p] = "write_record" PROVE FALSE
            BY DEF WriteRecord, At
        <3> QED
            BY <3>1, HeldRecord DEF HoldsRecord, FirstSteps, Readable
    <2> QED
        BY <2>1, <2>2
<1>3. /\ \A i \in Prep : ~PrepareNew(p, i)
      /\ ~PrepareResume(p) /\ ~StartBegins(p) /\ ~ContinueBegins(p)
      /\ ~ConfirmInstalledBegins(p) /\ ~ConfirmGraphicalBegins(p)
      /\ ~PromoteBegins(p) /\ ~StreamStaging(p) /\ ~AbortBegins(p) /\ ~Stop(p)
    BY DEF PrepareNew, PrepareResume, StartBegins, ContinueBegins,
       ConfirmInstalledBegins, ConfirmGraphicalBegins, PromoteBegins,
       StreamStaging, AbortBegins, Stop
<1>4. /\ ~StageDisk(p) /\ ~CreateIso(p) /\ ~UploadIso(p) /\ ~AbortIso(p)
      /\ ~DefineInstaller(p) /\ ~StartInstaller(p) /\ ~DetachInstaller(p)
      /\ ~StartInstalledDisk(p) /\ ~CloneCanonical(p)
      /\ ~PromoteRetiresDomain(p) /\ ~PromoteRetiresStaging(p)
      /\ ~AbortDomain(p) /\ ~AbortStaging(p)
    BY DEF StageDisk, CreateIso, UploadIso, AbortIso, DefineInstaller,
       StartInstaller, DetachInstaller, StartInstalledDisk, CloneCanonical,
       PromoteRetiresDomain, PromoteRetiresStaging, AbortDomain, AbortStaging,
       RetireDomain, RetireStaging, Step
<1> QED
    BY <1>1, <1>2, <1>3, <1>4 DEF Command

LEMMA PublicationsGoForward ==
    ASSUME PrepInv, alone, NEW p \in Proc,
           \/ PublishKey(p)
           \/ PublishIso(p)
           \/ PublishInstallerReady(p)
           \/ PublishInstallerRunning(p)
           \/ PublishConfirmed(p)
           \/ PublishBootPending(p)
           \/ PublishBooting(p)
           \/ PublishAwaiting(p)
           \/ PublishAttested(p)
           \/ PublishManualConfirmation(p)
           \/ PublishGraphical(p)
           \/ PublishPromotionReady(p)
           \/ PublishPromoted(p)
    PROVE  Rank(record'.status) >= Rank(record.status)
<1> DEFINE r == mem[p]
<1>1. pc[p] \notin FirstSteps \cup {"idle"}
    BY DEF PublishKey, PublishIso, PublishInstallerReady,
       PublishInstallerRunning, PublishConfirmed, PublishBootPending,
       PublishBooting, PublishAwaiting, PublishAttested,
       PublishManualConfirmation, PublishGraphical, PublishPromotionReady,
       PublishPromoted, At, FirstSteps
<1>2. r \in Preparation /\ r.status \in Status
    BY <1>1, HeldType DEF PrepInv, Preparation
<1>3. record.status = r.status /\ StepStatus(pc[p], r.status)
    BY <1>1, HeldRecord DEF StepIsPrepared
<1>4. Rank(r.status) \in Nat
    BY <1>2, RankType
<1>5. CASE record'.status = r.status
    BY <1>3, <1>4, <1>5
<1>6. CASE PublishKey(p) \/ PublishIso(p) \/ PublishAttested(p)
    BY <1>2, <1>5, <1>6
       DEF PublishKey, PublishIso, PublishAttested, Publish, Preparation
<1>7. CASE \/ PublishInstallerReady(p)
           \/ PublishInstallerRunning(p)
           \/ PublishConfirmed(p)
           \/ PublishBootPending(p)
    <2>1. /\ \/ /\ pc[p] = "publish_ready"
                /\ record'.status = "InstallerReady"
             \/ /\ pc[p] = "publish_running"
                /\ record'.status = "InstallerRunning"
             \/ /\ pc[p] = "publish_confirmed"
                /\ record'.status = "InstallationConfirmed"
             \/ /\ pc[p] = "publish_pending"
                /\ record'.status = "InstalledDiskBootPending"
        BY <1>2, <1>7 DEF PublishInstallerReady, PublishInstallerRunning,
           PublishConfirmed, PublishBootPending, Publish, At, Preparation
    <2> QED
        BY <1>3, <2>1, Ranks DEF StepStatus, PlanSteps
<1>8. CASE \/ PublishBooting(p)
           \/ PublishAwaiting(p)
           \/ PublishManualConfirmation(p)
    <2>1. \/ /\ pc[p] = "publish_booting"
             /\ record'.status = "InstalledDiskBooting"
          \/ /\ pc[p] = "publish_awaiting"
             /\ record'.status = "AwaitingGraphicalBootConfirmation"
          \/ /\ r.status = "InstallerReady"
             /\ record'.status = "InstallationConfirmed"
        BY <1>2, <1>8 DEF PublishBooting, PublishAwaiting,
           PublishManualConfirmation, Publish, At, Preparation
    <2> QED
        BY <1>3, <2>1, Ranks DEF StepStatus, PlanSteps
<1>9. CASE \/ PublishGraphical(p)
           \/ PublishPromotionReady(p)
           \/ PublishPromoted(p)
    <2>1. \/ /\ pc[p] = "publish_graphical"
             /\ record'.status = "InstalledSystemProven"
          \/ /\ pc[p] = "publish_promotion"
             /\ record'.status = "PromotionReady"
          \/ /\ pc[p] = "publish_promoted"
             /\ record'.status = "Promoted"
        BY <1>2, <1>9 DEF PublishGraphical, PublishPromotionReady,
           PublishPromoted, Publish, At, Preparation
    <2> QED
        BY <1>3, <2>1, Ranks DEF StepStatus, PlanSteps
<1> QED
    BY <1>6, <1>7, <1>8, <1>9

\* With one command at a time the record of a preparation never goes back to
\* an earlier status.
THEOREM PreparationGoesForward == PrepSpec => StatusNeverGoesBack
<1>1. ASSUME PrepInv, [PrepNext]_prepVars
      PROVE  [alone /\ Readable /\ Readable' /\ record'.id = record.id
                  => Rank(record'.status) >= Rank(record.status)]_record
    BY <1>1, WhoChangesTheRecord, PublicationsGoForward
<1> QED
    BY <1>1, PreparationInvariant, PTL DEF PrepSpec, StatusNeverGoesBack

\* A staging disk goes only in the two steps that retire it.
LEMMA WhoRetiresStaging ==
    ASSUME PrepInv, [PrepNext]_prepVars, NEW i \in Prep,
           staging[i] \in Data, staging'[i] = NoVolume
    PROVE  \E p \in Proc : /\ PromoteRetiresStaging(p) \/ AbortStaging(p)
                          /\ mem[p].id = i
<1>1. staging'[i] # staging[i] /\ ~UNCHANGED staging /\ ~UNCHANGED storage
    BY VolumeAssumption DEF storage
<1>2. staging \in [Prep -> Data \cup {NoVolume}]
    BY DEF PrepInv, PrepTyped, PreparationTypeOK
<1>3. ASSUME NEW j \in Prep
      PROVE  ~Operator(j)
    <2>1. ~GuestWrites(j)
        <3>1. SUFFICES ASSUME GuestWrites(j)
                       PROVE  staging'[i] \in Data
            BY VolumeAssumption
        <3>2. staging[j] \in Data
            BY <1>2, <3>1 DEF GuestWrites
        <3>3. staging[j] + 1 \in Data
            BY <3>1, <3>2, WritesAssumption DEF GuestWrites, Data
        <3>4. staging' = [staging EXCEPT ![j] = staging[j] + 1]
            BY <3>1 DEF GuestWrites
        <3> QED
            BY <1>2, <3>3, <3>4
    <2> QED
        BY <1>1, <2>1 DEF Operator, PowerOn, PowerOff, EditDomain
<1>4. PICK p \in Proc : Command(p)
    BY <1>1, <1>3 DEF PrepNext, prepVars
<1>5. ~StageDisk(p)
    <2>1. SUFFICES ASSUME StageDisk(p)
                   PROVE  staging'[i] \in Data
        BY VolumeAssumption
    <2>2. 0 \in Data
        BY WritesAssumption DEF Data
    <2>3. mem[p] \in Preparation /\ mem[p].id \in Prep
        BY <2>1, HeldType DEF StageDisk, At, PrepInv, Preparation
    <2> QED
        BY <1>2, <2>1, <2>2, <2>3 DEF StageDisk
<1>6. /\ \A j \in Prep : ~PrepareNew(p, j)
      /\ ~CreateRecord(p) /\ ~WriteRecord(p) /\ ~RetireRecord(p)
      /\ ~PrepareResume(p) /\ ~StartBegins(p) /\ ~ContinueBegins(p)
      /\ ~ConfirmInstalledBegins(p) /\ ~ConfirmGraphicalBegins(p)
      /\ ~PromoteBegins(p) /\ ~StreamStaging(p) /\ ~AbortBegins(p) /\ ~Stop(p)
    BY <1>1 DEF PrepareNew, CreateRecord, WriteRecord, RetireRecord,
       PrepareResume, StartBegins, ContinueBegins, ConfirmInstalledBegins,
       ConfirmGraphicalBegins, PromoteBegins, StreamStaging, AbortBegins, Stop
<1>7. /\ ~PublishKey(p) /\ ~PublishIso(p) /\ ~PublishInstallerReady(p)
      /\ ~PublishInstallerRunning(p) /\ ~PublishConfirmed(p)
      /\ ~PublishBootPending(p) /\ ~PublishBooting(p) /\ ~PublishAwaiting(p)
      /\ ~PublishAttested(p) /\ ~PublishManualConfirmation(p)
      /\ ~PublishGraphical(p) /\ ~PublishPromotionReady(p)
      /\ ~PublishPromoted(p)
    BY <1>1 DEF PublishKey, PublishIso, PublishInstallerReady,
       PublishInstallerRunning, PublishConfirmed, PublishBootPending,
       PublishBooting, PublishAwaiting, PublishAttested,
       PublishManualConfirmation, PublishGraphical, PublishPromotionReady,
       PublishPromoted, Publish
<1>8. /\ ~CreateIso(p) /\ ~UploadIso(p) /\ ~AbortIso(p)
      /\ ~DefineInstaller(p) /\ ~StartInstaller(p) /\ ~DetachInstaller(p)
      /\ ~StartInstalledDisk(p) /\ ~CloneCanonical(p)
      /\ ~PromoteRetiresDomain(p) /\ ~AbortDomain(p)
    BY <1>1 DEF CreateIso, UploadIso, AbortIso, DefineInstaller,
       StartInstaller, DetachInstaller, StartInstalledDisk, CloneCanonical,
       PromoteRetiresDomain, AbortDomain, RetireDomain
<1>9. PromoteRetiresStaging(p) \/ AbortStaging(p)
    BY <1>4, <1>5, <1>6, <1>7, <1>8 DEF Command
<1>10. mem[p].id = i
    BY <1>1, <1>2, <1>9 DEF PromoteRetiresStaging, AbortStaging, RetireStaging
<1> QED
    BY <1>9, <1>10

\* Whether commands overlap or not, the disk of an installed system goes only
\* in an abort, or when the base made from it is there and its domain is gone.
THEOREM InstalledDiskIsKept == PrepSpec => InstalledDiskOutlivesPromotion
<1>1. ASSUME PrepInv, [PrepNext]_prepVars
      PROVE  [\A i \in Prep :
                  staging[i] \in Data \ {0} /\ staging'[i] = NoVolume =>
                      \/ canonical # NoVolume /\ canonical.of = i
                             /\ domain[i] = NoDomain
                      \/ \E p \in Proc :
                             pc[p] = "abort_staging" /\ mem[p].id = i]_staging
    <2>1. SUFFICES ASSUME NEW i \in Prep, staging[i] \in Data \ {0},
                          staging'[i] = NoVolume
                   PROVE  \/ /\ canonical # NoVolume /\ canonical.of = i
                             /\ domain[i] = NoDomain
                          \/ \E p \in Proc :
                                 pc[p] = "abort_staging" /\ mem[p].id = i
        PROOF OBVIOUS
    <2>2. PICK p \in Proc : /\ PromoteRetiresStaging(p) \/ AbortStaging(p)
                            /\ mem[p].id = i
        BY <1>1, <2>1, WhoRetiresStaging
    <2> QED
        BY <1>1, <2>2 DEF PromoteRetiresStaging, AbortStaging, RetireStaging,
           At, PrepInv, PromotesItsOwn, PromoteSteps
<1> QED
    BY <1>1, PreparationInvariant, PTL
       DEF PrepSpec, InstalledDiskOutlivesPromotion
=============================================================================
