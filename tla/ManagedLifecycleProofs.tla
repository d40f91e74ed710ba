------------------------- MODULE ManagedLifecycleProofs -------------------------
(***************************************************************************)
(* The commands of one instance, one after another, each interrupted       *)
(* anywhere: what every command leaves is a host on which every other      *)
(* command keeps its promises.                                             *)
(***************************************************************************)
EXTENDS ManagedLifecycle, ManagedHostProofs

WorkLabels == FreshLabels \cup RestoreLabels \cup CleanupLabels
PowerLabels == LifecycleAction \cup {"starting", "shutting_down",
                                     "force_stopping", "power_wait"}
AllLabels == DeleteLabels \cup WorkLabels \cup PowerLabels

\* Types; a process that replaces, restores or cleans up has a generation.
LifecycleTypeOK ==
    /\ HostTypeOK(AllLabels)
    /\ \A p \in Proc : pc[p] \in WorkLabels => target[p] \in Gen

-----------------------------------------------------------------------------
(* Types *)

\* The moves of a process that keep its memory typed.
TypedMove(p) ==
    \/ Stop(p)
    \/ \E label \in AllLabels : /\ pc[p] # "idle"
                                /\ label \in WorkLabels => pc[p] \in WorkLabels
                                /\ Goto(p, label)
    \/ \E label \in AllLabels, g \in Gen \cup {NoGen}, forced \in BOOLEAN :
           /\ label \in WorkLabels => g \in Gen
           /\ Start(p, label, g, forced)

TypedEffect ==
    /\ index' \in Index
    /\ manifest' \subseteq Gen
    /\ domain' \in Domain
    /\ volume' \subseteq Gen \X Role
    /\ faults' \in 0..MaxFaults

LEMMA TypedMoveKeepsTypes ==
    ASSUME LifecycleTypeOK, NEW p \in Proc, TypedMove(p), TypedEffect
    PROVE  LifecycleTypeOK'
<1> USE DEF LifecycleTypeOK, HostTypeOK, TypedEffect
<1>0. "idle" \notin WorkLabels
    BY DEF WorkLabels, FreshLabels, RestoreLabels, CleanupLabels
<1>1. CASE Stop(p)
    <2>1. LocalTypeOK(AllLabels)'
        BY <1>1 DEF LocalTypeOK, Stop
    <2>2. OnlyMoves(p) /\ pc'[p] = "idle"
        BY <1>1, StepsAreLocal
    <2> QED
        BY <1>0, <2>1, <2>2 DEF OnlyMoves
<1>2. ASSUME NEW label \in AllLabels, pc[p] # "idle", Goto(p, label),
             label \in WorkLabels => pc[p] \in WorkLabels
      PROVE  LifecycleTypeOK'
    <2>1. LocalTypeOK(AllLabels)' /\ OnlyMoves(p)
          /\ pc'[p] = label /\ target'[p] = target[p]
        BY <1>2, LocalStepTypes, StepsAreLocal
    <2> QED
        BY <1>2, <2>1 DEF OnlyMoves
<1>3. ASSUME NEW label \in AllLabels, NEW g \in Gen \cup {NoGen},
             NEW forced \in BOOLEAN, label \in WorkLabels => g \in Gen,
             Start(p, label, g, forced)
      PROVE  LifecycleTypeOK'
    <2>1. LocalTypeOK(AllLabels)' /\ OnlyMoves(p)
          /\ pc'[p] = label /\ target'[p] = g
        BY <1>3, LocalStepTypes, StepsAreLocal
    <2> QED
        BY <1>3, <2>1 DEF OnlyMoves
<1> QED
    BY <1>1, <1>2, <1>3 DEF TypedMove

\* The writes of the index move the process and give it a typed index.
LEMMA TypedWriteKeepsTypes ==
    ASSUME LifecycleTypeOK, NEW p \in Proc, pc[p] # "idle",
           NEW next \in Index, NEW label \in AllLabels,
           label \in WorkLabels => pc[p] \in WorkLabels,
           WriteIndex(p, next, label) \/ WriteIndexAndStop(p, next)
    PROVE  LifecycleTypeOK'
<1>0. "idle" \notin WorkLabels
    BY DEF WorkLabels, FreshLabels, RestoreLabels, CleanupLabels
<1>1. HostTypeOK(AllLabels)'
    BY WriteTypes DEF LifecycleTypeOK
<1>2. OnlyMoves(p) /\ \/ pc'[p] = "idle"
                      \/ pc'[p] = label /\ target'[p] = target[p]
    BY StepsAreLocal DEF LifecycleTypeOK, HostTypeOK, WriteIndexAndStop
<1> QED
    BY <1>0, <1>1, <1>2 DEF LifecycleTypeOK, OnlyMoves

LEMMA DeleteTypes ==
    ASSUME LifecycleTypeOK, NEW p \in Proc, DeleteCommand(p)
    PROVE  LifecycleTypeOK'
<1> USE DEF durable, host
<1>1. /\ index \in Index /\ manifest \subseteq Gen /\ domain \in Domain
      /\ volume \subseteq Gen \X Role /\ faults \in 0..MaxFaults
      /\ pc[p] # "idle" => view[p] \in Index
    BY DEF LifecycleTypeOK, HostTypeOK, LocalTypeOK
<1>2. Halted \in Domain
    BY <1>1, HaltedType
<1>3. DeleteLabels \subseteq AllLabels /\ DeleteLabels \cap WorkLabels = {}
    BY DEF AllLabels, DeleteLabels, WorkLabels, FreshLabels, RestoreLabels,
           CleanupLabels
<1>4. NextRole(view[p]) \in Role
    BY DEF NextRole, Role
<1>5. AfterDomain(index) \in DeleteLabels
      /\ \A i : AfterDomain(i) \in DeleteLabels
    BY DEF AfterDomain, DeleteLabels
<1>6. ASSUME NEW forced \in BOOLEAN, DeletePlan(p, forced) \/ DeleteResume(p, forced)
      PROVE  LifecycleTypeOK'
    <2>1. TypedMove(p)
        BY <1>3, <1>5, <1>6 DEF TypedMove, DeletePlan, DeleteResume, DeleteLabels
    <2>2. TypedEffect
        BY <1>1, <1>6 DEF TypedEffect, DeletePlan, DeleteResume
    <2> QED
        BY <2>1, <2>2, TypedMoveKeepsTypes
<1>7. ASSUME \/ DeleteConfirm(p) \/ DeleteIntentCompare(p) \/ DeleteObserve(p)
             \/ DeleteReobserve(p) \/ DeleteAuthorize(p)
             \/ DeleteVerifyUndefined(p) \/ DeleteDomainCompare(p)
             \/ DeleteVolumeCompare(p) \/ DeleteFinishCompare(p)
      PROVE  LifecycleTypeOK'
    <2>1. TypedMove(p)
        BY <1>3, <1>7
        DEF TypedMove, DeleteConfirm, DeleteIntentCompare, DeleteObserve,
            DeleteReobserve, DeleteAuthorize, DeleteVerifyUndefined,
            DeleteDomainCompare, DeleteVolumeCompare, DeleteFinishCompare,
            CompareIndex, Branch, DeleteLabels
    <2>2. TypedEffect
        BY <1>1, <1>7
        DEF TypedEffect, DeleteConfirm, DeleteIntentCompare, DeleteObserve,
            DeleteReobserve, DeleteAuthorize, DeleteVerifyUndefined,
            DeleteDomainCompare, DeleteVolumeCompare, DeleteFinishCompare,
            CompareIndex
    <2> QED
        BY <2>1, <2>2, TypedMoveKeepsTypes
<1>8. ASSUME DeleteForceStop(p) \/ DeleteUndefine(p) \/ DeleteVolume(p)
      PROVE  LifecycleTypeOK'
    <2>1. TypedMove(p)
        BY <1>3, <1>8
        DEF TypedMove, DeleteForceStop, DeleteUndefine, DeleteVolume, Branch,
            DeleteLabels
    <2>2. [domain EXCEPT !.persistent = FALSE, !.disk = NoGen] \in Domain
          /\ NoDomain \in Domain
        BY <1>1 DEF Domain, NoDomain
    <2>3. TypedEffect
        BY <1>1, <1>2, <1>8, <2>2
        DEF TypedEffect, DeleteForceStop, DeleteUndefine, DeleteVolume
    <2> QED
        BY <2>1, <2>3, TypedMoveKeepsTypes
<1>9. ASSUME \/ DeleteIntentWrite(p) \/ DeleteDomainWrite(p)
             \/ DeleteVolumeWrite(p) \/ DeleteFinishWrite(p)
      PROVE  LifecycleTypeOK'
    <2>1. PICK g \in Gen : TRUE
        BY <1>1 DEF Index
    <2>2. pc[p] # "idle"
        BY <1>9 DEF DeleteIntentWrite, DeleteDomainWrite, DeleteVolumeWrite,
           DeleteFinishWrite
    <2>3. /\ BeginDelete(view[p]) \in Index
          /\ RecordDomainAbsent(view[p]) \in Index
          /\ RecordResourceAbsent(view[p], NextRole(view[p])) \in Index
          /\ CompleteDelete(view[p]) \in Index
        BY <1>1, <1>4, <2>1, <2>2, TransitionTypes DEF CleanupPhase
    <2>4. "delete_domain" \in DeleteLabels
        BY DEF DeleteLabels
    <2> QED
        BY <1>3, <1>5, <1>9, <2>2, <2>3, <2>4, TypedWriteKeepsTypes
        DEF DeleteIntentWrite, DeleteDomainWrite, DeleteVolumeWrite,
            DeleteFinishWrite
<1> QED
    BY <1>6, <1>7, <1>8, <1>9 DEF DeleteCommand, DeleteStep

\* The labels of the commands, as far as the types tell them apart.
LEMMA WorkLabelsAreLabels ==
    /\ WorkLabels \subseteq AllLabels
    /\ FreshLabels \subseteq WorkLabels
    /\ RestoreLabels \subseteq WorkLabels
    /\ CleanupLabels \subseteq WorkLabels
    BY DEF AllLabels, WorkLabels

\* A process that is at a step of a command has an index and a generation.
LEMMA WorkerIsTyped ==
    ASSUME LifecycleTypeOK, NEW p \in Proc, pc[p] \in WorkLabels
    PROVE  /\ pc[p] # "idle" /\ view[p] \in Index /\ target[p] \in Gen
           /\ index \in Index /\ manifest \subseteq Gen /\ domain \in Domain
           /\ volume \subseteq Gen \X Role /\ faults \in 0..MaxFaults
           /\ <<target[p], "NoCloudSeed">> \in Gen \X Role
           /\ OverlayOf(target[p]) \in Gen \X Role
    BY DEF LifecycleTypeOK, HostTypeOK, LocalTypeOK, WorkLabels, FreshLabels,
           RestoreLabels, CleanupLabels, OverlayOf, Role

\* libvirt defines a domain for every generation.
LEMMA RedefinedType ==
    ASSUME domain \in Domain, NEW g \in Gen
    PROVE  Redefined(g) \in Domain
    BY DEF Redefined, Shutoff, Domain

LEMMA FreshTypes ==
    ASSUME LifecycleTypeOK, NEW p \in Proc, FreshCommand(p) \/ RestoreCommand(p)
    PROVE  LifecycleTypeOK'
<1> USE DEF durable, host
<1>1. /\ index \in Index /\ manifest \subseteq Gen /\ domain \in Domain
      /\ volume \subseteq Gen \X Role /\ faults \in 0..MaxFaults
    BY DEF LifecycleTypeOK, HostTypeOK
<1>2. \A kind : UNCHANGED faults \/ Strike(kind) => faults' \in 0..MaxFaults
    BY <1>1, StrikeTypes
<1>3. ASSUME NEW g \in Gen, FreshPlan(p, g) \/ RestorePlan(p, g)
      PROVE  LifecycleTypeOK'
    <2>1. TypedMove(p)
        BY <1>3, WorkLabelsAreLabels
        DEF TypedMove, FreshPlan, RestorePlan, FreshLabels, RestoreLabels
    <2>2. TypedEffect
        BY <1>1, <1>3 DEF TypedEffect, FreshPlan, RestorePlan
    <2> QED
        BY <2>1, <2>2, TypedMoveKeepsTypes
<1>4. ASSUME \/ FreshRevalidate(p) \/ FreshCreateOverlay(p)
             \/ FreshInspectOverlay(p) \/ FreshWriteManifest(p)
             \/ FreshRollback(p)
      PROVE  LifecycleTypeOK'
    <2>1. pc[p] \in WorkLabels
        BY <1>4, WorkLabelsAreLabels
        DEF FreshRevalidate, FreshCreateOverlay, FreshInspectOverlay,
            FreshWriteManifest, FreshRollback, FreshLabels
    <2>2. TypedMove(p)
        BY <1>4, <2>1, WorkLabelsAreLabels, WorkerIsTyped
        DEF TypedMove, FreshRevalidate, FreshCreateOverlay,
            FreshInspectOverlay, FreshWriteManifest, FreshRollback, Branch,
            FreshLabels
    <2>3. TypedEffect
        BY <1>1, <1>2, <1>4, <2>1, WorkerIsTyped
        DEF TypedEffect, FreshRevalidate, FreshCreateOverlay,
            FreshInspectOverlay, FreshWriteManifest, FreshRollback
    <2> QED
        BY <2>2, <2>3, TypedMoveKeepsTypes
<1>5. ASSUME \/ FreshProveOld(p) \/ FreshDefine(p) \/ FreshVerify(p)
             \/ FreshActivateCompare(p)
      PROVE  LifecycleTypeOK'
    <2>1. pc[p] \in WorkLabels
        BY <1>5, WorkLabelsAreLabels
        DEF FreshProveOld, FreshDefine, FreshVerify, FreshActivateCompare,
            CompareIndex, FreshLabels
    <2>2. TypedMove(p)
        BY <1>5, <2>1, WorkLabelsAreLabels, WorkerIsTyped
        DEF TypedMove, FreshProveOld, FreshDefine, FreshVerify,
            FreshActivateCompare, CompareIndex, Branch, FreshLabels
    <2>3. TypedEffect
        BY <1>1, <1>5, <2>1, WorkerIsTyped, RedefinedType
        DEF TypedEffect, FreshProveOld, FreshDefine, FreshVerify,
            FreshActivateCompare, CompareIndex
    <2> QED
        BY <2>2, <2>3, TypedMoveKeepsTypes
<1>6. ASSUME \/ RestoreRevalidate(p) \/ RestoreDefine(p) \/ RestoreVerify(p)
             \/ RestoreDeleteOverlay(p) \/ RestorePublishCompare(p)
      PROVE  LifecycleTypeOK'
    <2>1. pc[p] \in WorkLabels
        BY <1>6, WorkLabelsAreLabels
        DEF RestoreRevalidate, RestoreDefine, RestoreVerify,
            RestoreDeleteOverlay, RestorePublishCompare, CompareIndex,
            RestoreLabels
    <2>2. TypedMove(p)
        BY <1>6, <2>1, WorkLabelsAreLabels, WorkerIsTyped
        DEF TypedMove, RestoreRevalidate, RestoreDefine, RestoreVerify,
            RestoreDeleteOverlay, RestorePublishCompare, CompareIndex, Branch,
            RestoreLabels
    <2>3. view[p].active \in Gen
        BY <2>1, WorkerIsTyped DEF Index
    <2>4. TypedEffect
        BY <1>1, <1>6, <2>3, RedefinedType
        DEF TypedEffect, RestoreRevalidate, RestoreDefine, RestoreVerify,
            RestoreDeleteOverlay, RestorePublishCompare, CompareIndex
    <2> QED
        BY <2>2, <2>4, TypedMoveKeepsTypes
<1>7. ASSUME FreshPublish(p) \/ FreshActivateWrite(p) \/ RestorePublishWrite(p)
      PROVE  LifecycleTypeOK'
    <2>1. pc[p] \in WorkLabels
        BY <1>7, WorkLabelsAreLabels
        DEF FreshPublish, FreshActivateWrite, RestorePublishWrite, FreshLabels,
            RestoreLabels
    <2>2. /\ pc[p] # "idle"
          /\ AddPreparing(view[p], target[p]) \in Index
          /\ FinalizeSwitch(view[p], target[p]) \in Index
          /\ MarkFailed(view[p], target[p]) \in Index
        BY <2>1, WorkerIsTyped, TransitionTypes DEF Role, CleanupPhase
    <2>3. /\ "fresh_prove_old" \in WorkLabels /\ "fresh_rollback" \in WorkLabels
          /\ "fresh_prove_old" \in AllLabels /\ "fresh_rollback" \in AllLabels
        BY WorkLabelsAreLabels DEF FreshLabels
    <2>4. ASSUME NEW next \in Index,
                 \/ WriteIndex(p, next, "fresh_prove_old")
                 \/ WriteIndexAndStop(p, next)
          PROVE  LifecycleTypeOK'
        BY <2>1, <2>2, <2>3, <2>4, TypedWriteKeepsTypes
    <2>5. ASSUME NEW kind, Goto(p, "fresh_rollback"), Strike(kind),
                 index' \in Index, UNCHANGED <<manifest, host>>
          PROVE  LifecycleTypeOK'
        <3>1. TypedMove(p)
            BY <2>1, <2>2, <2>3, <2>5 DEF TypedMove
        <3>2. TypedEffect
            BY <1>1, <1>2, <2>5 DEF TypedEffect
        <3> QED
            BY <3>1, <3>2, TypedMoveKeepsTypes
    <2> QED
        BY <1>1, <1>7, <2>2, <2>4, <2>5
        DEF FreshPublish, FreshActivateWrite, RestorePublishWrite
<1> QED
    BY <1>3, <1>4, <1>5, <1>6, <1>7 DEF FreshCommand, RestoreCommand

LEMMA CleanupTypes ==
    ASSUME LifecycleTypeOK, NEW p \in Proc, CleanupCommand(p)
    PROVE  LifecycleTypeOK'
<1> USE DEF durable, host
<1>1. /\ index \in Index /\ manifest \subseteq Gen /\ domain \in Domain
      /\ volume \subseteq Gen \X Role /\ faults \in 0..MaxFaults
    BY DEF LifecycleTypeOK, HostTypeOK
<1>2. \A kind : UNCHANGED faults \/ Strike(kind) => faults' \in 0..MaxFaults
    BY <1>1, StrikeTypes
<1>3. ASSUME NEW g \in Gen, CleanupPlan(p, g)
      PROVE  LifecycleTypeOK'
    <2>1. TypedMove(p)
        BY <1>3, WorkLabelsAreLabels DEF TypedMove, CleanupPlan, CleanupLabels
    <2>2. TypedEffect
        BY <1>1, <1>3 DEF TypedEffect, CleanupPlan
    <2> QED
        BY <2>1, <2>2, TypedMoveKeepsTypes
<1>4. ASSUME \/ CleanupConfirm(p) \/ CleanupRevalidate(p)
             \/ CleanupBeginCompare(p) \/ CleanupSeed(p)
             \/ CleanupSeedCompare(p) \/ CleanupOverlay(p)
             \/ CleanupIncompleteCompare(p) \/ CleanupFinishCompare(p)
      PROVE  LifecycleTypeOK'
    <2>1. pc[p] \in WorkLabels
        BY <1>4, WorkLabelsAreLabels
        DEF CleanupConfirm, CleanupRevalidate, CleanupBeginCompare,
            CleanupSeed, CleanupSeedCompare, CleanupOverlay,
            CleanupIncompleteCompare, CleanupFinishCompare, CompareIndex,
            CleanupLabels
    <2>2. TypedMove(p)
        BY <1>4, <2>1, WorkLabelsAreLabels, WorkerIsTyped
        DEF TypedMove, CleanupConfirm, CleanupRevalidate, CleanupBeginCompare,
            CleanupSeed, CleanupSeedCompare, CleanupOverlay,
            CleanupOverlayFailed,
            CleanupIncompleteCompare, CleanupFinishCompare, CompareIndex,
            Branch, CleanupLabels
    <2>3. TypedEffect
        BY <1>1, <1>2, <1>4
        DEF TypedEffect, CleanupConfirm, CleanupRevalidate,
            CleanupBeginCompare, CleanupSeed, CleanupSeedCompare,
            CleanupOverlay, CleanupIncompleteCompare, CleanupFinishCompare,
            CompareIndex
    <2> QED
        BY <2>2, <2>3, TypedMoveKeepsTypes
<1>5. ASSUME \/ CleanupBeginWrite(p) \/ CleanupSeedWrite(p)
             \/ CleanupIncompleteWrite(p) \/ CleanupFinishWrite(p)
      PROVE  LifecycleTypeOK'
    <2>1. pc[p] \in WorkLabels
        BY <1>5, WorkLabelsAreLabels
        DEF CleanupBeginWrite, CleanupSeedWrite, CleanupIncompleteWrite,
            CleanupFinishWrite, CleanupLabels
    <2>2. FirstPhase(target[p]) \in CleanupPhase
        BY DEF FirstPhase, CleanupPhase
    <2>3. /\ pc[p] # "idle"
          /\ BeginCleanup(view[p], target[p], FirstPhase(target[p])) \in Index
          /\ RecordSeedDeleted(view[p], target[p]) \in Index
          /\ RecordCleanupIncomplete(view[p], target[p]) \in Index
          /\ CompleteCleanup(view[p], target[p]) \in Index
        BY <2>1, <2>2, WorkerIsTyped, TransitionTypes DEF Role
    <2>4. /\ "cleanup_seed" \in AllLabels /\ "cleanup_overlay" \in AllLabels
        BY WorkLabelsAreLabels DEF CleanupLabels
    <2> QED
        BY <1>5, <2>1, <2>3, <2>4, TypedWriteKeepsTypes
        DEF CleanupBeginWrite, CleanupSeedWrite, CleanupIncompleteWrite,
            CleanupFinishWrite
<1> QED
    BY <1>3, <1>4, <1>5 DEF CleanupCommand

LEMMA PowerTypes ==
    ASSUME LifecycleTypeOK, NEW p \in Proc, PowerCommand(p)
    PROVE  LifecycleTypeOK'
<1> USE DEF durable, host
<1>1. /\ index \in Index /\ manifest \subseteq Gen /\ domain \in Domain
      /\ volume \subseteq Gen \X Role /\ faults \in 0..MaxFaults
    BY DEF LifecycleTypeOK, HostTypeOK
<1>2. /\ LifecycleAction \subseteq AllLabels
      /\ "power_wait" \in AllLabels /\ "power_wait" \notin WorkLabels
      /\ \A action \in LifecycleAction :
             /\ action # "idle" /\ action \notin WorkLabels
             /\ CallOf[action] \in AllLabels /\ CallOf[action] \notin WorkLabels
    BY DEF AllLabels, PowerLabels, LifecycleAction, CallOf, WorkLabels,
           FreshLabels, RestoreLabels, CleanupLabels
<1>3. ASSUME NEW action \in LifecycleAction,
             PowerPlan(p, action) \/ PowerConfirm(p, action)
      PROVE  LifecycleTypeOK'
    <2>1. TypedMove(p)
        BY <1>2, <1>3 DEF TypedMove, PowerPlan, PowerConfirm, Branch
    <2>2. TypedEffect
        BY <1>1, <1>3 DEF TypedEffect, PowerPlan, PowerConfirm
    <2> QED
        BY <2>1, <2>2, TypedMoveKeepsTypes
<1>4. ASSUME \/ PowerStart(p) \/ PowerShutdown(p) \/ PowerForceStop(p)
             \/ PowerWait(p)
      PROVE  LifecycleTypeOK'
    <2>1. TypedMove(p)
        BY <1>2, <1>4
        DEF TypedMove, PowerStart, PowerShutdown, PowerForceStop, PowerWait,
            Branch
    <2>2. /\ Halted \in Domain
          /\ [domain EXCEPT !.state = "running", !.live = domain.disk] \in Domain
        BY <1>1, HaltedType DEF Domain
    <2>3. TypedEffect
        BY <1>1, <1>4, <2>2
        DEF TypedEffect, PowerStart, PowerShutdown, PowerForceStop, PowerWait
    <2> QED
        BY <2>1, <2>3, TypedMoveKeepsTypes
<1> QED
    BY <1>3, <1>4 DEF PowerCommand

\* Every step keeps the types.
LEMMA LifecycleStepTypes ==
    ASSUME LifecycleTypeOK, [LifecycleNext]_hostVars
    PROVE  LifecycleTypeOK'
<1>1. ASSUME NEW p \in Proc,
             \/ DeleteCommand(p) \/ FreshCommand(p) \/ RestoreCommand(p)
             \/ CleanupCommand(p) \/ PowerCommand(p)
      PROVE  LifecycleTypeOK'
    BY <1>1, DeleteTypes, FreshTypes, CleanupTypes, PowerTypes
<1>2. ASSUME \/ \E p \in Proc : Crash(p)
             \/ PowerOn
             \/ PowerOff
             \/ UNCHANGED hostVars
      PROVE  LifecycleTypeOK'
    <2>1. HostTypeOK(AllLabels)'
        BY <1>2, SharedStepTypes DEF LifecycleTypeOK
    <2>2. "idle" \notin WorkLabels
        BY DEF WorkLabels, FreshLabels, RestoreLabels, CleanupLabels
    <2>3. ASSUME NEW p \in Proc, Crash(p)
          PROVE  OnlyMoves(p) /\ pc'[p] = "idle"
        BY <2>3, StepsAreLocal DEF Crash, LifecycleTypeOK, HostTypeOK
    <2>4. CASE \E p \in Proc : Crash(p)
        BY <2>1, <2>2, <2>3, <2>4 DEF OnlyMoves, LifecycleTypeOK
    <2>5. CASE UNCHANGED local
        BY <2>1, <2>5 DEF local, LifecycleTypeOK
    <2> QED
        BY <1>2, <2>4, <2>5 DEF PowerOn, PowerOff, hostVars
<1> QED
    BY <1>1, <1>2 DEF LifecycleNext

-----------------------------------------------------------------------------
(* The inductive invariant of a user who runs one command at a time *)

\* The index keeps the boundaries apart.
BoundariesApart ==
    /\ ValidIndex(index)
    /\ index.delete.phase # "None" =>
           \A g \in Gen :
               /\ index.progress[g] = "None"
               /\ index.status[g] \in {"Active", "Cleaned", "Unlisted"}
    /\ \A g, h \in Gen :
           index.status[g] = "Preparing" /\ index.status[h] = "Preparing" => g = h
    /\ \A g, h \in Gen :
           index.progress[g] # "None" /\ index.progress[h] # "None" => g = h
    /\ \A g \in Gen : index.status[g] = "Preparing" => g \notin Seeded

\* The generations a definition or a guest may be on.
Bindable == {index.active} \cup WithStatus(index, "Preparing")

\* The domain exists until a deletion is on record, and whatever it names or
\* has open is declared by the index and in the pool.
DomainSound ==
    /\ index.delete.phase = "None" => DomainPresent /\ domain.persistent
    /\ DomainShutoff => domain.persistent
    /\ DomainPresent /\ domain.persistent =>
           domain.disk \in Bindable /\ VolumesOf(domain.disk) \subseteq volume
    /\ DomainRunning =>
           domain.live \in Bindable /\ VolumesOf(domain.live) \subseteq volume

\* What the index says about volumes and domain is true.
RecordsTrue ==
    /\ \A v \in volume : v[2] \in Disposable(v[1])
    /\ OwnedVolumesExist
    /\ \A g \in Gen : index.status[g] = "Cleaned" => VolumesOf(g) \cap volume = {}
    /\ \A g \in Gen :
           index.progress[g] \in {"OverlayDeletePending", "IncompleteAfterSeed"}
               => <<g, "NoCloudSeed">> \notin volume
    /\ FailedLeavesNothing
    /\ index.delete.phase # "None" =>
           /\ index.delete.domain = "Absent" => ~DomainPresent
           /\ \A r \in Disposable(index.active) \ index.delete.pending :
                  <<index.active, r>> \notin volume
    /\ index.delete.phase = "Deleted" =>
           index.delete.domain = "Absent" /\ index.delete.pending = {}

HostSettles == BoundariesApart /\ DomainSound /\ RecordsTrue

\* The definition names g, and a guest that runs has it open.
OnDisk(g) == domain.disk = g /\ (DomainRunning => domain.live = g)

BeforeOverlay == {"fresh_revalidate", "fresh_create_overlay"}
WithOverlay == {"fresh_inspect_overlay", "fresh_write_manifest", "fresh_publish"}
AtSwitch == {"fresh_activate_compare", "fresh_activate_write"}
AfterBoundary == {"fresh_prove_old", "fresh_define", "fresh_verify"} \cup AtSwitch
AtFailed == {"restore_publish_compare", "restore_publish_write"}
AfterRestore == {"restore_delete_overlay"} \cup AtFailed

\* What the lone process knows at each step of Fresh and restore-old, with
\* generation g in hand ...
ReplacementKnows(at, g) ==
    /\ index.delete.phase = "None"
    /\ at \in FreshLabels => g \notin Seeded
    /\ at \in BeforeOverlay \cup WithOverlay =>
           index.status[g] = "Unlisted" /\ WithStatus(index, "Preparing") = {}
    /\ at \in WithOverlay \cup AfterBoundary => OverlayOf(g) \in volume
    /\ at = "fresh_rollback" =>
           /\ index.status[g] \in {"Unlisted", "Preparing"}
           /\ OnDisk(index.active)
    /\ at \in AfterBoundary \cup RestoreLabels =>
           WithStatus(index, "Preparing") = {g}
    /\ at \in AtSwitch => OnDisk(g)
    /\ at \in AfterRestore => OnDisk(index.active)
    /\ at \in AtFailed => OverlayOf(g) \notin volume

AtBegin == {"cleanup_begin_compare", "cleanup_begin_write"}
SeedGone == {"cleanup_seed_compare", "cleanup_seed_write"}
AtIncomplete == {"cleanup_incomplete_compare", "cleanup_incomplete_write"}
AtFinish == {"cleanup_finish_compare", "cleanup_finish_write"}

\* ... of a cleanup of generation g ...
CleanupKnows(at, g) ==
    /\ index.delete.phase = "None"
    /\ at \notin {"cleanup_confirm", "cleanup_revalidate"} =>
           index.status[g] = "Retained"
    /\ at \in AtBegin => \A h \in Gen : index.progress[h] = "None"
    /\ at \in {"cleanup_seed"} \cup SeedGone =>
           index.progress[g] = "SeedDeletePending" /\ g \in Seeded
    /\ at \in SeedGone => <<g, "NoCloudSeed">> \notin volume
    /\ at \in {"cleanup_overlay"} \cup AtFinish =>
           index.progress[g] = LastPhase(g)
    /\ at \in AtIncomplete => index.progress[g] = "OverlayDeletePending"
    /\ at \in AtFinish => VolumesOf(g) \cap volume = {}

AtIntent == {"delete_intent_compare", "delete_intent_write"}
DomainGoneAt == {"delete_domain_compare", "delete_domain_write"}
VolumeGoneAt == {"delete_volume_compare", "delete_volume_write"}
AfterDomainAt == {"delete_volume", "delete_finish_compare",
                  "delete_finish_write"} \cup VolumeGoneAt

\* ... of a deletion ...
DeleteKnows(at) ==
    /\ at \in AtIntent => DeleteEligible(index)
    /\ at \notin BeforeIntent => index.delete.phase = "Deleting"
    /\ at \in DomainGoneAt => ~DomainPresent
    /\ at \in AfterDomainAt => index.delete.domain = "Absent"
    /\ at \in VolumeGoneAt => <<index.active, NextRole(index)>> \notin volume

\* ... and of all: the index it holds is the one on disk, but for a rollback
\* after a publication that failed late.
CommandKnows(at, i, g) ==
    /\ at # "fresh_rollback" => i = index
    /\ at \in FreshLabels \cup RestoreLabels => ReplacementKnows(at, g)
    /\ at \in CleanupLabels => CleanupKnows(at, g)
    /\ at \in DeleteLabels => DeleteKnows(at)
    /\ at = "starting" => /\ index.delete.phase = "None"
                          /\ WithStatus(index, "Preparing") = {}

LifecycleInv ==
    /\ HostSettles
    /\ \A p, q \in Proc : pc[p] # "idle" /\ pc[q] # "idle" => p = q
    /\ \A p \in Proc : pc[p] # "idle" => CommandKnows(pc[p], view[p], target[p])

-----------------------------------------------------------------------------
(* What keeps the invariant *)

\* Each command has labels of its own, so it knows its own part only.
LEMMA KnowsByCommand ==
    ASSUME NEW at, NEW i, NEW g
    PROVE  /\ at \in FreshLabels \cup RestoreLabels =>
                  (CommandKnows(at, i, g) <=>
                      /\ at # "fresh_rollback" => i = index
                      /\ ReplacementKnows(at, g))
           /\ at \in CleanupLabels =>
                  (CommandKnows(at, i, g) <=> i = index /\ CleanupKnows(at, g))
           /\ at \in DeleteLabels =>
                  (CommandKnows(at, i, g) <=> i = index /\ DeleteKnows(at))
           /\ at \in PowerLabels =>
                  (CommandKnows(at, i, g) <=>
                      /\ i = index
                      /\ at = "starting" =>
                             /\ index.delete.phase = "None"
                             /\ WithStatus(index, "Preparing") = {})
<1> USE DEF CommandKnows
<1>1. CASE at \in FreshLabels \cup RestoreLabels
    <2>1. /\ at \notin CleanupLabels \cup DeleteLabels
          /\ at \notin PowerLabels /\ at # "starting"
        BY <1>1 DEF FreshLabels, RestoreLabels, CleanupLabels, DeleteLabels,
           PowerLabels, LifecycleAction
    <2> QED
        BY <1>1, <2>1
<1>2. CASE at \in CleanupLabels
    <2>1. /\ at \notin FreshLabels \cup RestoreLabels \cup DeleteLabels
          /\ at \notin PowerLabels /\ at # "starting" /\ at # "fresh_rollback"
        BY <1>2 DEF FreshLabels, RestoreLabels, CleanupLabels, DeleteLabels,
           PowerLabels, LifecycleAction
    <2> QED
        BY <1>2, <2>1
<1>3. CASE at \in DeleteLabels
    <2>1. /\ at \notin FreshLabels \cup RestoreLabels \cup CleanupLabels
          /\ at \notin PowerLabels /\ at # "starting" /\ at # "fresh_rollback"
        BY <1>3 DEF FreshLabels, RestoreLabels, CleanupLabels, DeleteLabels,
           PowerLabels, LifecycleAction
    <2> QED
        BY <1>3, <2>1
<1>4. CASE at \in PowerLabels
    <2>1. /\ at \notin FreshLabels \cup RestoreLabels \cup CleanupLabels
          /\ at \notin DeleteLabels /\ at # "fresh_rollback"
        BY <1>4 DEF FreshLabels, RestoreLabels, CleanupLabels, DeleteLabels,
           PowerLabels, LifecycleAction
    <2> QED
        BY <1>4, <2>1
<1> QED
    BY <1>1, <1>2, <1>3, <1>4

\* A lone process that moves keeps the invariant when files and libvirt are
\* sound after its step and it knows what its next step needs.
LEMMA MoveKeepsInv ==
    ASSUME LifecycleTypeOK, LifecycleInv, NEW p \in Proc,
           \A q \in Proc \ {p} : pc[q] = "idle",
           OnlyMoves(p), HostSettles',
           pc'[p] = "idle" \/ CommandKnows(pc[p], view[p], target[p])'
    PROVE  LifecycleInv'
    BY DEF LifecycleInv, OnlyMoves

\* The index, the domain and the pool decide what a process may know.
LEMMA KnownStays ==
    ASSUME UNCHANGED <<index, domain, volume>>
    PROVE  /\ HostSettles => HostSettles'
           /\ \A at, i, g : CommandKnows(at, i, g) => CommandKnows(at, i, g)'
<1>1. HostSettles => HostSettles'
    BY DEF HostSettles, BoundariesApart, DomainSound, RecordsTrue,
       OwnedVolumesExist, FailedLeavesNothing, Bindable, DomainPresent,
       DomainShutoff, DomainRunning
<1>2. ASSUME NEW at, NEW i, NEW g, CommandKnows(at, i, g)
      PROVE  CommandKnows(at, i, g)'
    BY <1>2 DEF CommandKnows, ReplacementKnows, CleanupKnows, DeleteKnows,
       OnDisk, DomainPresent, DomainRunning
<1> QED
    BY <1>1, <1>2

\* What a process does that leaves index and libvirt alone: it stops, goes on
\* with what its next step needs, or starts with the index on disk.
QuietMove(p) ==
    \/ Stop(p)
    \/ \E label : Goto(p, label) /\ CommandKnows(label, view[p], target[p])
    \/ \E label, g, forced :
           Start(p, label, g, forced) /\ CommandKnows(label, index, g)

LEMMA QuietKeepsInv ==
    ASSUME LifecycleTypeOK, LifecycleInv, NEW p \in Proc,
           \A q \in Proc \ {p} : pc[q] = "idle",
           UNCHANGED <<index, domain, volume>>, QuietMove(p)
    PROVE  LifecycleInv'
<1>1. HostSettles'
    BY KnownStays DEF LifecycleInv
<1>2. LocalTypeOK(AllLabels)
    BY DEF LifecycleTypeOK, HostTypeOK
<1>3. CASE Stop(p)
    BY <1>1, <1>2, <1>3, StepsAreLocal, MoveKeepsInv
<1>4. ASSUME NEW label, Goto(p, label), CommandKnows(label, view[p], target[p])
      PROVE  LifecycleInv'
    <2>1. /\ OnlyMoves(p) /\ pc'[p] = label
          /\ view'[p] = view[p] /\ target'[p] = target[p]
        BY <1>2, <1>4, StepsAreLocal
    <2>2. CommandKnows(label, view[p], target[p])'
        BY <1>4, <2>1, KnownStays DEF CommandKnows, ReplacementKnows,
           CleanupKnows, DeleteKnows, OnDisk, DomainPresent, DomainRunning
    <2> QED
        BY <1>1, <2>1, <2>2, MoveKeepsInv
<1>5. ASSUME NEW label, NEW g, NEW forced, Start(p, label, g, forced),
             CommandKnows(label, index, g)
      PROVE  LifecycleInv'
    <2>1. /\ OnlyMoves(p) /\ pc'[p] = label
          /\ view'[p] = index /\ target'[p] = g
        BY <1>2, <1>5, StepsAreLocal
    <2>2. CommandKnows(pc[p], view[p], target[p])'
        BY <1>5, <2>1 DEF CommandKnows, ReplacementKnows,
           CleanupKnows, DeleteKnows, OnDisk, DomainPresent, DomainRunning
    <2> QED
        BY <1>1, <2>1, <2>2, MoveKeepsInv
<1> QED
    BY <1>3, <1>4, <1>5 DEF QuietMove

\* A process that works is alone and knows what its step needs.
LEMMA WorkerKnows ==
    ASSUME LifecycleTypeOK, LifecycleInv, NEW p \in Proc, pc[p] # "idle"
    PROVE  /\ \A q \in Proc \ {p} : pc[q] = "idle"
           /\ CommandKnows(pc[p], view[p], target[p])
           /\ HostSettles
           /\ view[p] \in Index /\ index \in Index
           /\ LocalTypeOK(AllLabels)
    BY DEF LifecycleInv, LifecycleTypeOK, HostTypeOK, LocalTypeOK

-----------------------------------------------------------------------------
(* The steps that leave the index and libvirt alone *)

\* A process that takes a quiet step it may take keeps the invariant.
LEMMA QuietStepKeepsInv ==
    ASSUME LifecycleTypeOK, LifecycleInv, NEW p \in Proc,
           pc[p] # "idle" \/ (Sequential /\ MayStart(p)),
           UNCHANGED <<durable, host>> \/ UNCHANGED <<index, host>>, QuietMove(p)
    PROVE  LifecycleInv'
<1>1. \A q \in Proc \ {p} : pc[q] = "idle"
    BY WorkerKnows DEF MayStart
<1> QED
    BY <1>1, QuietKeepsInv DEF durable, host

LEMMA DeleteQuietSteps ==
    ASSUME LifecycleTypeOK, LifecycleInv, Sequential, NEW p \in Proc,
           \/ \E forced \in BOOLEAN : DeletePlan(p, forced) \/ DeleteResume(p, forced)
           \/ DeleteConfirm(p) \/ DeleteIntentCompare(p) \/ DeleteObserve(p)
           \/ DeleteReobserve(p) \/ DeleteAuthorize(p)
           \/ DeleteVerifyUndefined(p) \/ DeleteDomainCompare(p)
           \/ DeleteVolumeCompare(p) \/ DeleteFinishCompare(p)
    PROVE  LifecycleInv'
<1> USE DEF AtIntent, DomainGoneAt, VolumeGoneAt, AfterDomainAt, BeforeIntent
<1>1. ASSUME NEW forced \in BOOLEAN, DeletePlan(p, forced)
      PROVE  LifecycleInv'
    <2>1. CommandKnows("delete_confirm", index, NoGen)
        BY KnowsByCommand DEF DeleteLabels, DeleteKnows
    <2> QED
        BY <1>1, <2>1, QuietStepKeepsInv DEF DeletePlan, QuietMove
<1>2. ASSUME NEW forced \in BOOLEAN, DeleteResume(p, forced)
      PROVE  LifecycleInv'
    <2> DEFINE label == IF index.delete.domain = "UndefinePending"
                        THEN "delete_domain" ELSE AfterDomain(index)
    <2>1. index.delete.domain \in {"UndefinePending", "Absent"}
        BY DEF LifecycleTypeOK, HostTypeOK, Index, DeleteState
    <2>2. label \in DeleteLabels /\ DeleteKnows(label)
        BY <1>2, <2>1 DEF DeleteResume, DeleteKnows, DeleteLabels, AfterDomain
    <2>3. CommandKnows(label, index, NoGen)
        BY <2>2, KnowsByCommand
    <2> QED
        BY <1>2, <2>3, QuietStepKeepsInv DEF DeleteResume, QuietMove
<1>3. ASSUME pc[p] \in DeleteLabels
      PROVE  view[p] = index /\ DeleteKnows(pc[p]) /\ pc[p] # "idle"
    BY <1>3, WorkerKnows, KnowsByCommand DEF DeleteLabels
<1>4. ASSUME NEW label \in DeleteLabels, DeleteKnows(label),
             pc[p] \in DeleteLabels
      PROVE  Goto(p, label) => QuietMove(p)
    BY <1>3, <1>4, KnowsByCommand DEF QuietMove
<1>5. ASSUME pc[p] \in DeleteLabels, UNCHANGED <<durable, host, faults>>, QuietMove(p)
      PROVE  LifecycleInv'
    BY <1>3, <1>5, QuietStepKeepsInv
<1>6. CASE DeleteConfirm(p) \/ DeleteIntentCompare(p)
    <2>1. pc[p] \in DeleteLabels
        BY <1>6 DEF DeleteConfirm, DeleteIntentCompare, CompareIndex, DeleteLabels
    <2>2. DeleteEligible(index) =>
              DeleteKnows("delete_intent_compare") /\ DeleteKnows("delete_intent_write")
        BY DEF DeleteKnows
    <2>3. QuietMove(p)
        BY <1>3, <1>4, <1>6, <2>1, <2>2
        DEF DeleteConfirm, DeleteIntentCompare, CompareIndex, Branch,
            DeletePlannable, DeleteKnows, DeleteLabels, QuietMove
    <2> QED
        BY <1>5, <1>6, <2>1, <2>3
        DEF DeleteConfirm, DeleteIntentCompare, CompareIndex
<1>7. CASE DeleteObserve(p) \/ DeleteReobserve(p) \/ DeleteAuthorize(p)
           \/ DeleteVerifyUndefined(p) \/ DeleteDomainCompare(p)
    <2>1. /\ pc[p] \in DeleteLabels
          /\ pc[p] \notin BeforeIntent
        BY <1>7 DEF DeleteObserve, DeleteReobserve, DeleteAuthorize,
           DeleteVerifyUndefined, DeleteDomainCompare, CompareIndex, DeleteLabels
    <2>2. /\ DeleteKnows("delete_force_stop") /\ DeleteKnows("delete_undefine")
          /\ DeleteKnows("delete_undefine_call")
          /\ ~DomainPresent => /\ DeleteKnows("delete_domain_compare")
                               /\ DeleteKnows("delete_domain_write")
        BY <1>3, <2>1 DEF DeleteKnows
    <2>3. QuietMove(p)
        BY <1>3, <1>4, <1>7, <2>1, <2>2
        DEF DeleteObserve, DeleteReobserve, DeleteAuthorize,
            DeleteVerifyUndefined, DeleteDomainCompare, CompareIndex, Branch,
            DeleteKnows, DeleteLabels, QuietMove
    <2> QED
        BY <1>5, <1>7, <2>1, <2>3
        DEF DeleteObserve, DeleteReobserve, DeleteAuthorize,
            DeleteVerifyUndefined, DeleteDomainCompare, CompareIndex
<1>8. CASE DeleteVolumeCompare(p) \/ DeleteFinishCompare(p)
    <2>1. pc[p] \in {"delete_volume_compare", "delete_finish_compare"}
        BY <1>8 DEF DeleteVolumeCompare, DeleteFinishCompare, CompareIndex
    <2>2. pc[p] \in DeleteLabels
        BY <2>1 DEF DeleteLabels
    <2>3. IF pc[p] = "delete_volume_compare"
          THEN DeleteKnows("delete_volume_write")
          ELSE DeleteKnows("delete_finish_write")
        BY <1>3, <2>1, <2>2 DEF DeleteKnows
    <2>4. QuietMove(p)
        BY <1>4, <1>8, <2>2, <2>3
        DEF DeleteVolumeCompare, DeleteFinishCompare, CompareIndex, Branch,
            DeleteLabels, QuietMove
    <2> QED
        BY <1>5, <1>8, <2>2, <2>4
        DEF DeleteVolumeCompare, DeleteFinishCompare, CompareIndex
<1> QED
    BY <1>1, <1>2, <1>6, <1>7, <1>8

LEMMA ReplacementQuietSteps ==
    ASSUME LifecycleTypeOK, LifecycleInv, Sequential, NEW p \in Proc,
           \/ \E g \in Gen : FreshPlan(p, g) \/ RestorePlan(p, g)
           \/ FreshRevalidate(p) \/ FreshInspectOverlay(p)
           \/ FreshWriteManifest(p)
           \/ FreshProveOld(p) \/ FreshVerify(p) \/ FreshActivateCompare(p)
           \/ RestoreRevalidate(p) \/ RestoreVerify(p)
           \/ RestorePublishCompare(p)
    PROVE  LifecycleInv'
<1> USE DEF BeforeOverlay, WithOverlay, AtSwitch, AfterBoundary, AtFailed,
            AfterRestore, FreshLabels, RestoreLabels
<1> DEFINE Mine == FreshLabels \cup RestoreLabels
<1>1. ASSUME NEW g \in Gen, FreshPlan(p, g)
      PROVE  LifecycleInv'
    <2>1. ReplacementKnows("fresh_revalidate", g)
        BY <1>1 DEF FreshPlan, Replaceable, NormalLifecycle, UnusedGeneration,
           Listed, ReplacementKnows
    <2>2. CommandKnows("fresh_revalidate", index, g)
        BY <2>1, KnowsByCommand
    <2> QED
        BY <1>1, <2>2, QuietStepKeepsInv DEF FreshPlan, QuietMove
<1>2. ASSUME NEW g \in Gen, RestorePlan(p, g)
      PROVE  LifecycleInv'
    <2>1. index.delete.phase = "None"
        BY <1>2, g \in WithStatus(index, "Preparing")
        DEF RestorePlan, Restorable, LifecycleInv, HostSettles,
            BoundariesApart, WithStatus
    <2>2. ReplacementKnows("restore_revalidate", g)
        BY <1>2, <2>1 DEF RestorePlan, Restorable, ReplacementKnows
    <2>3. CommandKnows("restore_revalidate", index, g)
        BY <2>2, KnowsByCommand
    <2> QED
        BY <1>2, <2>3, QuietStepKeepsInv DEF RestorePlan, QuietMove
<1>3. ASSUME pc[p] \in Mine
      PROVE  /\ ReplacementKnows(pc[p], target[p]) /\ pc[p] # "idle"
             /\ pc[p] # "fresh_rollback" => view[p] = index
    BY <1>3, WorkerKnows, KnowsByCommand
<1>4. ASSUME NEW label \in Mine, ReplacementKnows(label, target[p]),
             pc[p] \in Mine, pc[p] # "fresh_rollback"
      PROVE  Goto(p, label) => QuietMove(p)
    <2>1. view[p] = index
        BY <1>3, <1>4
    <2> QED
        BY <1>4, <2>1, KnowsByCommand DEF QuietMove
<1>5. ASSUME pc[p] \in Mine, UNCHANGED <<index, host>>, QuietMove(p)
      PROVE  LifecycleInv'
    BY <1>3, <1>5, QuietStepKeepsInv
<1>6. CASE FreshRevalidate(p) \/ FreshInspectOverlay(p) \/ FreshWriteManifest(p)
    <2>1. /\ pc[p] \in {"fresh_revalidate", "fresh_inspect_overlay",
                        "fresh_write_manifest"}
          /\ UNCHANGED <<index, host>>
        BY <1>6 DEF FreshRevalidate, FreshInspectOverlay, FreshWriteManifest,
           durable
    <2>2. ReplacementKnows(pc[p], target[p])
        BY <1>3, <2>1
    <2>3. OnDisk(index.active)
        BY <2>1, <2>2, WorkerKnows
        DEF HostSettles, DomainSound, OnDisk, Bindable, ReplacementKnows,
            DomainPresent, DomainRunning
    <2>4. /\ pc[p] = "fresh_revalidate" =>
                 ReplacementKnows("fresh_create_overlay", target[p])
          /\ pc[p] # "fresh_revalidate" =>
                 /\ ReplacementKnows("fresh_write_manifest", target[p])
                 /\ ReplacementKnows("fresh_publish", target[p])
                 /\ ReplacementKnows("fresh_rollback", target[p])
        BY <2>1, <2>2, <2>3 DEF ReplacementKnows
    <2>5. QuietMove(p)
        BY <1>4, <1>6, <2>1, <2>4
        DEF FreshRevalidate, FreshInspectOverlay, FreshWriteManifest, Branch,
            QuietMove
    <2> QED
        BY <1>5, <2>1, <2>5
<1>7. CASE FreshProveOld(p) \/ FreshVerify(p) \/ FreshActivateCompare(p)
    <2>1. /\ pc[p] \in {"fresh_prove_old", "fresh_verify",
                        "fresh_activate_compare"}
          /\ UNCHANGED <<index, host>>
        BY <1>7 DEF FreshProveOld, FreshVerify, FreshActivateCompare,
           CompareIndex, durable
    <2>2. ReplacementKnows(pc[p], target[p])
        BY <1>3, <2>1
    <2>3. /\ ReplacementKnows("fresh_define", target[p])
          /\ OnDisk(target[p]) =>
                 /\ ReplacementKnows("fresh_activate_compare", target[p])
                 /\ ReplacementKnows("fresh_activate_write", target[p])
          /\ pc[p] = "fresh_activate_compare" => OnDisk(target[p])
          /\ DomainProven(target[p]) => OnDisk(target[p])
        BY <2>1, <2>2 DEF ReplacementKnows, DomainProven, OnDisk,
           DomainShutoff, DomainRunning
    <2>4. QuietMove(p)
        BY <1>4, <1>7, <2>1, <2>3
        DEF FreshProveOld, FreshVerify, FreshActivateCompare, CompareIndex,
            Branch, QuietMove
    <2> QED
        BY <1>5, <2>1, <2>4
<1>8. CASE RestoreRevalidate(p) \/ RestoreVerify(p) \/ RestorePublishCompare(p)
    <2>1. /\ pc[p] \in {"restore_revalidate", "restore_verify",
                        "restore_publish_compare"}
          /\ UNCHANGED <<index, host>>
        BY <1>8 DEF RestoreRevalidate, RestoreVerify, RestorePublishCompare,
           CompareIndex, durable
    <2>2. ReplacementKnows(pc[p], target[p]) /\ view[p] = index
        BY <1>3, <2>1
    <2>3. /\ ReplacementKnows("restore_define", target[p])
          /\ DomainProven(index.active) =>
                 ReplacementKnows("restore_delete_overlay", target[p])
          /\ pc[p] = "restore_publish_compare" =>
                 ReplacementKnows("restore_publish_write", target[p])
        BY <2>1, <2>2 DEF ReplacementKnows, DomainProven, OnDisk,
           DomainShutoff, DomainRunning
    <2>4. QuietMove(p)
        BY <1>4, <1>8, <2>1, <2>2, <2>3
        DEF RestoreRevalidate, RestoreVerify, RestorePublishCompare,
            CompareIndex, Branch, QuietMove
    <2> QED
        BY <1>5, <2>1, <2>4
<1> QED
    BY <1>1, <1>2, <1>6, <1>7, <1>8

LEMMA CleanupQuietSteps ==
    ASSUME LifecycleTypeOK, LifecycleInv, Sequential, NEW p \in Proc,
           \/ \E g \in Gen : CleanupPlan(p, g)
           \/ CleanupConfirm(p) \/ CleanupRevalidate(p)
           \/ CleanupBeginCompare(p) \/ CleanupSeedCompare(p)
           \/ CleanupIncompleteCompare(p) \/ CleanupFinishCompare(p)
    PROVE  LifecycleInv'
<1> USE DEF AtBegin, SeedGone, AtIncomplete, AtFinish, CleanupLabels
\* A candidate is Retained, so no deletion is on record.
<1>0. ASSUME NEW g \in Gen, Candidates(index) = {g}
      PROVE  index.status[g] = "Retained" /\ index.delete.phase = "None"
    <2>1. g \in Candidates(index)
        BY <1>0
    <2> QED
        BY <2>1 DEF Candidates, WithStatus, LifecycleInv, HostSettles,
           BoundariesApart
<1>1. ASSUME NEW g \in Gen, CleanupPlan(p, g)
      PROVE  LifecycleInv'
    <2>1. CleanupKnows("cleanup_confirm", g)
        BY <1>0, <1>1 DEF CleanupPlan, CleanupKnows
    <2>2. CommandKnows("cleanup_confirm", index, g)
        BY <2>1, KnowsByCommand
    <2> QED
        BY <1>1, <2>2, QuietStepKeepsInv DEF CleanupPlan, QuietMove
<1>2. ASSUME pc[p] \in CleanupLabels
      PROVE  /\ view[p] = index /\ CleanupKnows(pc[p], target[p])
             /\ pc[p] # "idle"
    BY <1>2, WorkerKnows, KnowsByCommand
<1>3. ASSUME NEW label \in CleanupLabels, CleanupKnows(label, target[p]),
             pc[p] \in CleanupLabels
      PROVE  Goto(p, label) => QuietMove(p)
    BY <1>2, <1>3, KnowsByCommand DEF QuietMove
<1>4. ASSUME pc[p] \in CleanupLabels, UNCHANGED <<durable, host, faults>>, QuietMove(p)
      PROVE  LifecycleInv'
    BY <1>2, <1>4, QuietStepKeepsInv
<1>5. CASE CleanupConfirm(p) \/ CleanupRevalidate(p) \/ CleanupBeginCompare(p)
    <2>1. pc[p] \in {"cleanup_confirm", "cleanup_revalidate",
                     "cleanup_begin_compare"}
        BY <1>5 DEF CleanupConfirm, CleanupRevalidate, CleanupBeginCompare,
           CompareIndex
    <2>2. view[p] = index /\ CleanupKnows(pc[p], target[p])
        BY <1>2, <2>1
    <2>3. target[p] \in Gen
        BY <2>1, WorkLabelsAreLabels, WorkerIsTyped
    <2>4. CleanupKnows("cleanup_revalidate", target[p])
        BY <2>2 DEF CleanupKnows
    <2>5. CASE CleanupConfirm(p)
        BY <1>3, <2>1, <2>4, <2>5, <1>4 DEF CleanupConfirm, QuietMove
    <2>6. CASE CleanupRevalidate(p)
        <3>1. ExecutorConsistent(index) /\ Candidates(index) = {target[p]}
                  => CleanupKnows("cleanup_begin_compare", target[p])
            BY <1>0, <2>3 DEF ExecutorConsistent, CleanupPlannable, CleanupKnows
        <3>2. QuietMove(p)
            BY <1>3, <2>1, <2>6, <3>1 DEF CleanupRevalidate, Branch, QuietMove
        <3> QED
            BY <1>4, <2>1, <2>6, <3>2 DEF CleanupRevalidate
    <2>7. CASE CleanupBeginCompare(p)
        <3>1. pc[p] = "cleanup_begin_compare"
            BY <2>7 DEF CleanupBeginCompare, CompareIndex
        <3>2. CleanupKnows("cleanup_begin_write", target[p])
            BY <2>2, <3>1 DEF CleanupKnows
        <3>3. QuietMove(p)
            BY <1>3, <2>1, <2>7, <3>2
            DEF CleanupBeginCompare, CompareIndex, Branch, QuietMove
        <3> QED
            BY <1>4, <2>1, <2>7, <3>3 DEF CleanupBeginCompare, CompareIndex
    <2> QED
        BY <1>5, <2>5, <2>6, <2>7
<1>6. CASE CleanupSeedCompare(p) \/ CleanupIncompleteCompare(p)
           \/ CleanupFinishCompare(p)
    <2>1. pc[p] \in {"cleanup_seed_compare", "cleanup_incomplete_compare",
                     "cleanup_finish_compare"}
        BY <1>6 DEF CleanupSeedCompare, CleanupIncompleteCompare,
           CleanupFinishCompare, CompareIndex
    <2>2. CleanupKnows(pc[p], target[p])
        BY <1>2, <2>1
    <2>3. /\ pc[p] = "cleanup_seed_compare" =>
                 CleanupKnows("cleanup_seed_write", target[p])
          /\ pc[p] = "cleanup_incomplete_compare" =>
                 CleanupKnows("cleanup_incomplete_write", target[p])
          /\ pc[p] = "cleanup_finish_compare" =>
                 CleanupKnows("cleanup_finish_write", target[p])
        BY <2>2 DEF CleanupKnows
    <2>4. QuietMove(p)
        BY <1>3, <1>6, <2>1, <2>3
        DEF CleanupSeedCompare, CleanupIncompleteCompare,
            CleanupFinishCompare, CompareIndex, Branch, QuietMove
    <2> QED
        BY <1>4, <1>6, <2>1, <2>4
        DEF CleanupSeedCompare, CleanupIncompleteCompare,
            CleanupFinishCompare, CompareIndex
<1> QED
    BY <1>1, <1>5, <1>6

LEMMA PowerQuietSteps ==
    ASSUME LifecycleTypeOK, LifecycleInv, Sequential, NEW p \in Proc,
           \/ \E action \in LifecycleAction :
                  PowerPlan(p, action) \/ PowerConfirm(p, action)
           \/ PowerShutdown(p) \/ PowerWait(p)
    PROVE  LifecycleInv'
<1>1. /\ LifecycleAction \subseteq PowerLabels
      /\ "power_wait" \in PowerLabels /\ "power_wait" # "starting"
      /\ "idle" \notin PowerLabels
      /\ \A action \in LifecycleAction :
             action # "starting" /\ CallOf[action] \in PowerLabels
    BY DEF PowerLabels, LifecycleAction, CallOf
<1>2. ASSUME NEW action \in LifecycleAction, PowerPlan(p, action)
      PROVE  LifecycleInv'
    <2>1. CommandKnows(action, index, NoGen)
        BY <1>1, KnowsByCommand
    <2> QED
        BY <1>2, <2>1, QuietStepKeepsInv DEF PowerPlan, QuietMove
<1>3. ASSUME pc[p] \in PowerLabels
      PROVE  view[p] = index /\ pc[p] # "idle"
    BY <1>1, <1>3, WorkerKnows, KnowsByCommand
<1>4. ASSUME NEW label \in PowerLabels, pc[p] \in PowerLabels,
             label = "starting" => /\ index.delete.phase = "None"
                                   /\ WithStatus(index, "Preparing") = {}
      PROVE  Goto(p, label) => QuietMove(p)
    BY <1>3, <1>4, KnowsByCommand DEF QuietMove
<1>5. ASSUME NEW action \in LifecycleAction, PowerConfirm(p, action)
      PROVE  LifecycleInv'
    <2>1. pc[p] \in PowerLabels
        BY <1>1, <1>5 DEF PowerConfirm
    <2>2. Operational(index) => /\ index.delete.phase = "None"
                                /\ WithStatus(index, "Preparing") = {}
        BY DEF Operational, NormalLifecycle
    <2>3. QuietMove(p)
        BY <1>1, <1>4, <1>5, <2>1, <2>2 DEF PowerConfirm, Branch, QuietMove
    <2> QED
        BY <1>3, <1>5, <2>1, <2>3, QuietStepKeepsInv DEF PowerConfirm
<1>6. CASE PowerShutdown(p) \/ PowerWait(p)
    <2>1. pc[p] \in PowerLabels
        BY <1>6 DEF PowerShutdown, PowerWait, PowerLabels
    <2>2. QuietMove(p)
        BY <1>1, <1>4, <1>6, <2>1 DEF PowerShutdown, PowerWait, Branch, QuietMove
    <2> QED
        BY <1>3, <1>6, <2>1, <2>2, QuietStepKeepsInv DEF PowerShutdown, PowerWait
<1> QED
    BY <1>2, <1>5, <1>6

LEMMA CrashKeepsInv ==
    ASSUME LifecycleTypeOK, LifecycleInv, NEW p \in Proc, Crash(p)
    PROVE  LifecycleInv'
    BY QuietStepKeepsInv DEF Crash, QuietMove

-----------------------------------------------------------------------------
(* The steps on the domain *)

\* A step on the domain alone keeps the records, unless it brings back a
\* domain that is on record as removed.
LEMMA DomainStepKeepsHost ==
    ASSUME LifecycleTypeOK, HostSettles, UNCHANGED <<index, volume>>,
           DomainSound', DomainPresent' => DomainPresent
    PROVE  HostSettles'
    BY DEF HostSettles, BoundariesApart, RecordsTrue, OwnedVolumesExist,
       FailedLeavesNothing

\* The guest is started on the disk that the definition names.
Booted == domain' = [domain EXCEPT !.state = "running", !.live = domain.disk]

LEMMA BootKeepsHost ==
    ASSUME LifecycleTypeOK, HostSettles, UNCHANGED <<index, volume>>,
           DomainShutoff, Booted
    PROVE  /\ HostSettles'
           /\ \A g : OnDisk(g) => OnDisk(g)'
           /\ DomainPresent
<1>1. domain \in Domain
    BY DEF LifecycleTypeOK, HostTypeOK
<1>2. /\ domain'.state = "running" /\ domain'.live = domain.disk
      /\ domain'.disk = domain.disk /\ domain'.persistent = domain.persistent
    BY <1>1 DEF Booted, Domain
<1>3. DomainPresent
    BY DEF DomainShutoff, DomainPresent
<1>4. DomainSound'
    BY <1>2, <1>3 DEF HostSettles, DomainSound, Bindable, DomainPresent,
       DomainShutoff, DomainRunning
<1> QED
    BY <1>2, <1>3, <1>4, DomainStepKeepsHost DEF OnDisk

\* The guest goes off, and its domain with it when it was transient.
LEMMA HaltKeepsHost ==
    ASSUME LifecycleTypeOK, HostSettles, UNCHANGED <<index, volume>>,
           domain' = domain \/ (DomainRunning /\ domain' = Halted)
    PROVE  /\ HostSettles'
           /\ \A g \in Gen : OnDisk(g) /\ domain.persistent => OnDisk(g)'
           /\ ~DomainPresent => ~DomainPresent'
<1>1. domain \in Domain
    BY DEF LifecycleTypeOK, HostTypeOK
<1>2. CASE domain' = domain
    BY <1>2, KnownStays DEF OnDisk, DomainRunning, DomainPresent
<1>3. CASE DomainRunning /\ domain.persistent /\ domain' = Halted
    <2>1. /\ domain'.state = "shutoff"
          /\ domain'.disk = domain.disk /\ domain'.persistent = TRUE
        BY <1>1, <1>3 DEF Halted, Domain
    <2>2. DomainPresent
        BY <1>3 DEF DomainRunning, DomainPresent
    <2>3. DomainSound'
        BY <1>3, <2>1, <2>2 DEF HostSettles, DomainSound, Bindable,
           DomainPresent, DomainShutoff, DomainRunning
    <2> QED
        BY <2>1, <2>2, <2>3, DomainStepKeepsHost DEF OnDisk, DomainRunning
<1>4. CASE DomainRunning /\ ~domain.persistent /\ domain' = Halted
    <2>1. domain'.state = "absent"
        BY <1>4 DEF Halted, NoDomain
    <2>2. index.delete.phase # "None"
        BY <1>4 DEF HostSettles, DomainSound
    <2>3. DomainSound'
        BY <2>1, <2>2 DEF DomainSound, DomainPresent, DomainShutoff, DomainRunning
    <2>4. ~DomainPresent'
        BY <2>1 DEF DomainPresent
    <2> QED
        BY <1>4, <2>3, <2>4, DomainStepKeepsHost DEF DomainRunning, DomainPresent
<1> QED
    BY <1>2, <1>3, <1>4

\* The guest started or stopped from outside takes nothing from what the
\* running command knows.
LEMMA GuestKeepsInv ==
    ASSUME LifecycleTypeOK, LifecycleInv, PowerOn \/ PowerOff
    PROVE  LifecycleInv'
<1> USE DEF local, durable
<1>1. HostSettles /\ index \in Index
    BY DEF LifecycleInv, LifecycleTypeOK, HostTypeOK
<1>2. /\ UNCHANGED <<index, volume, pc, view, target>>
      /\ HostSettles'
      /\ \A g \in Gen : OnDisk(g) /\ index.delete.phase = "None" => OnDisk(g)'
      /\ ~DomainPresent => ~DomainPresent'
    <2>1. CASE PowerOn
        BY <1>1, <2>1, BootKeepsHost DEF PowerOn, Booted
    <2>2. CASE PowerOff
        BY <1>1, <2>2, HaltKeepsHost
        DEF PowerOff, HostSettles, DomainSound
    <2> QED
        BY <2>1, <2>2
<1>3. ASSUME NEW p \in Proc, pc[p] # "idle"
      PROVE  CommandKnows(pc[p], view[p], target[p])'
    <2>1. CommandKnows(pc[p], view[p], target[p])
        BY <1>3, WorkerKnows
    <2>2. pc[p] \in FreshLabels \cup RestoreLabels => target[p] \in Gen
        BY DEF LifecycleTypeOK, WorkLabels
    <2>3. index.active \in Gen
        BY <1>1 DEF Index
    <2>4. pc[p] \in FreshLabels \cup RestoreLabels
              => ReplacementKnows(pc[p], target[p])'
        BY <1>2, <2>1, <2>2, <2>3 DEF CommandKnows, ReplacementKnows
    <2>5. pc[p] \in CleanupLabels => CleanupKnows(pc[p], target[p])'
        BY <1>2, <2>1 DEF CommandKnows, CleanupKnows
    <2>6. pc[p] \in DeleteLabels => DeleteKnows(pc[p])'
        BY <1>2, <2>1 DEF CommandKnows, DeleteKnows
    <2> QED
        BY <1>2, <2>1, <2>4, <2>5, <2>6 DEF CommandKnows
<1> QED
    BY <1>2, <1>3 DEF LifecycleInv

\* A process that changes libvirt stops or goes on, and what its next step
\* needs holds then.
LEMMA HostMoveKeepsInv ==
    ASSUME LifecycleTypeOK, LifecycleInv, NEW p \in Proc, pc[p] # "idle",
           HostSettles',
           \/ Stop(p)
           \/ \E label : Goto(p, label) /\ CommandKnows(label, view[p], target[p])'
    PROVE  LifecycleInv'
<1>1. \A q \in Proc \ {p} : pc[q] = "idle"
    BY WorkerKnows
<1>2. CASE Stop(p)
    BY <1>1, <1>2, WorkerKnows, StepsAreLocal, MoveKeepsInv
<1>3. ASSUME NEW label, Goto(p, label), CommandKnows(label, view[p], target[p])'
      PROVE  LifecycleInv'
    <2>1. OnlyMoves(p) /\ pc'[p] = label
        BY <1>3, WorkerKnows, StepsAreLocal
    <2>2. CommandKnows(pc[p], view[p], target[p])'
        BY <1>3, <2>1
    <2> QED
        BY <1>1, <2>1, <2>2, MoveKeepsInv
<1> QED
    BY <1>2, <1>3

\* The definition names another declared disk that is in the pool.
LEMMA RedefineKeepsHost ==
    ASSUME LifecycleTypeOK, HostSettles, UNCHANGED <<index, volume>>,
           NEW g \in Bindable, VolumesOf(g) \subseteq volume,
           index.delete.phase = "None", domain' = Redefined(g)
    PROVE  HostSettles' /\ UNCHANGED DomainRunning
<1>1. domain \in Domain /\ DomainPresent
    BY DEF LifecycleTypeOK, HostTypeOK, HostSettles, DomainSound
<1>2. /\ domain'.state = domain.state /\ domain'.live = domain.live
      /\ domain'.persistent = TRUE /\ domain'.disk = g
    BY <1>1 DEF Redefined, Domain
<1>3. DomainSound'
    BY <1>1, <1>2 DEF HostSettles, DomainSound, Bindable, DomainPresent,
       DomainShutoff, DomainRunning
<1> QED
    BY <1>1, <1>2, <1>3, DomainStepKeepsHost DEF DomainRunning

\* Without a deletion on record the Active generation has all its volumes.
LEMMA ActiveIsWhole ==
    ASSUME LifecycleTypeOK, HostSettles, index.delete.phase = "None"
    PROVE  index.active \in Gen /\ VolumesOf(index.active) \subseteq volume
<1>1. index.active \in WithStatus(index, "Active") /\ index.active \in Gen
    BY DEF LifecycleTypeOK, HostTypeOK, Index, HostSettles, BoundariesApart,
       ValidIndex
<1>2. index.status[index.active] = "Active"
    BY <1>1 DEF WithStatus
<1>3. index.progress[index.active] = "None"
    BY <1>1, <1>2 DEF HostSettles, BoundariesApart, ValidIndex
<1> QED
    BY <1>1, <1>3 DEF HostSettles, RecordsTrue, OwnedVolumesExist

LEMMA DefineKeepsInv ==
    ASSUME LifecycleTypeOK, LifecycleInv, NEW p \in Proc,
           FreshDefine(p) \/ RestoreDefine(p)
    PROVE  LifecycleInv'
<1> USE DEF durable, BeforeOverlay, WithOverlay, AtSwitch, AfterBoundary,
            AtFailed, AfterRestore, FreshLabels, RestoreLabels
<1>1. /\ pc[p] \in {"fresh_define", "restore_define"} /\ pc[p] # "idle"
      /\ UNCHANGED <<index, volume>>
    BY DEF FreshDefine, RestoreDefine
<1>2. /\ view[p] = index /\ ReplacementKnows(pc[p], target[p])
      /\ HostSettles /\ index \in Index
    BY <1>1, WorkerKnows, KnowsByCommand
<1>3. /\ index.delete.phase = "None"
      /\ WithStatus(index, "Preparing") = {target[p]}
    BY <1>1, <1>2 DEF ReplacementKnows
<1>4. CASE FreshDefine(p)
    <2>1. pc[p] = "fresh_define" /\ domain' = Redefined(target[p])
        BY <1>4 DEF FreshDefine
    <2>2. OverlayOf(target[p]) \in volume /\ target[p] \notin Seeded
        BY <1>2, <2>1 DEF ReplacementKnows
    <2>3. VolumesOf(target[p]) \subseteq volume
        BY <2>2 DEF VolumesOf, Disposable, OverlayOf
    <2>4. target[p] \in Bindable
        BY <1>3 DEF Bindable
    <2>5. HostSettles'
        BY <1>1, <1>2, <1>3, <2>1, <2>3, <2>4, RedefineKeepsHost
    <2>6. ReplacementKnows("fresh_verify", target[p])
        BY <1>2, <2>1 DEF ReplacementKnows
    <2>7. ASSUME Goto(p, "fresh_verify")
          PROVE  CommandKnows("fresh_verify", view[p], target[p])'
        <3>1. view'[p] = view[p] /\ target'[p] = target[p]
            BY <2>7, WorkerKnows, <1>1, StepsAreLocal
        <3> QED
            BY <1>1, <1>2, <2>6, <3>1
            DEF CommandKnows, ReplacementKnows, CleanupLabels, DeleteLabels
    <2> QED
        BY <1>1, <1>4, <2>5, <2>7, HostMoveKeepsInv DEF FreshDefine, Branch
<1>5. CASE RestoreDefine(p)
    <2>1. pc[p] = "restore_define" /\ domain' = Redefined(index.active)
        BY <1>2, <1>5 DEF RestoreDefine
    <2>2. HostSettles'
        BY <1>1, <1>2, <1>3, <2>1, ActiveIsWhole, RedefineKeepsHost DEF Bindable
    <2>3. ASSUME Goto(p, "restore_verify")
          PROVE  CommandKnows("restore_verify", view[p], target[p])'
        <3>1. view'[p] = view[p] /\ target'[p] = target[p]
            BY <2>3, WorkerKnows, <1>1, StepsAreLocal
        <3> QED
            BY <1>1, <1>2, <1>3, <3>1
            DEF CommandKnows, ReplacementKnows, CleanupLabels, DeleteLabels
    <2> QED
        BY <1>1, <1>5, <2>2, <2>3, HostMoveKeepsInv DEF RestoreDefine, Branch
<1> QED
    BY <1>4, <1>5

LEMMA DeleteDomainKeepsInv ==
    ASSUME LifecycleTypeOK, LifecycleInv, NEW p \in Proc,
           DeleteForceStop(p) \/ DeleteUndefine(p)
    PROVE  LifecycleInv'
<1> USE DEF durable, BeforeIntent, AtIntent, DomainGoneAt, VolumeGoneAt,
            AfterDomainAt
<1>1. /\ pc[p] \in {"delete_force_stop", "delete_undefine_call"}
      /\ pc[p] # "idle" /\ pc[p] \in DeleteLabels
      /\ UNCHANGED <<index, volume>>
    BY DEF DeleteForceStop, DeleteUndefine, DeleteLabels
<1>2. /\ view[p] = index /\ DeleteKnows(pc[p]) /\ HostSettles
    BY <1>1, WorkerKnows, KnowsByCommand
<1>3. index.delete.phase = "Deleting"
    BY <1>1, <1>2 DEF DeleteKnows
<1>4. ASSUME NEW label \in {"delete_reobserve", "delete_undefine_verify"},
             Goto(p, label)
      PROVE  CommandKnows(label, view[p], target[p])'
    <2>1. view'[p] = view[p]
        BY <1>4, WorkerKnows, <1>1, StepsAreLocal
    <2>2. label \in DeleteLabels /\ DeleteKnows(label)'
        BY <1>1, <1>3 DEF DeleteKnows, DeleteLabels
    <2>3. label \notin FreshLabels \cup RestoreLabels \cup CleanupLabels
          /\ label # "starting"
        BY DEF FreshLabels, RestoreLabels, CleanupLabels
    <2> QED
        BY <1>1, <1>2, <2>1, <2>2, <2>3 DEF CommandKnows
<1>5. CASE DeleteForceStop(p)
    <2>1. HostSettles'
        BY <1>1, <1>2, <1>5, HaltKeepsHost DEF DeleteForceStop
    <2> QED
        BY <1>1, <1>4, <1>5, <2>1, HostMoveKeepsInv DEF DeleteForceStop, Branch
<1>6. CASE DeleteUndefine(p)
    <2>1. domain \in Domain
        BY DEF LifecycleTypeOK, HostTypeOK
    <2>2. ASSUME DomainRunning PROVE HostSettles'
        <3>1. /\ domain'.state = "running" /\ domain'.persistent = FALSE
              /\ domain'.live = domain.live
            BY <1>6, <2>1, <2>2 DEF DeleteUndefine, Domain, DomainRunning
        <3>2. DomainSound'
            BY <1>1, <1>2, <1>3, <2>2, <3>1 DEF HostSettles, DomainSound,
               Bindable, DomainPresent, DomainShutoff, DomainRunning
        <3> QED
            BY <1>1, <1>2, <2>2, <3>2, DomainStepKeepsHost
            DEF DomainRunning, DomainPresent
    <2>3. ASSUME ~DomainRunning PROVE HostSettles'
        <3>1. domain'.state = "absent"
            BY <1>6, <2>3 DEF DeleteUndefine, NoDomain
        <3>2. DomainSound' /\ ~DomainPresent'
            BY <1>1, <1>3, <3>1 DEF DomainSound, DomainPresent, DomainShutoff,
               DomainRunning
        <3> QED
            BY <1>1, <1>2, <3>2, DomainStepKeepsHost
    <2>4. HostSettles'
        BY <2>2, <2>3
    <2> QED
        BY <1>1, <1>4, <1>6, <2>4, HostMoveKeepsInv DEF DeleteUndefine, Branch
<1> QED
    BY <1>5, <1>6

LEMMA PowerDomainKeepsInv ==
    ASSUME LifecycleTypeOK, LifecycleInv, NEW p \in Proc,
           PowerStart(p) \/ PowerForceStop(p)
    PROVE  LifecycleInv'
<1> USE DEF durable
<1>1. /\ pc[p] \in PowerLabels /\ pc[p] # "idle"
      /\ UNCHANGED <<index, volume>>
    BY DEF PowerStart, PowerForceStop, PowerLabels
<1>2. view[p] = index /\ HostSettles
    BY <1>1, WorkerKnows, KnowsByCommand
<1>3. ASSUME Goto(p, "power_wait")
      PROVE  CommandKnows("power_wait", view[p], target[p])'
    <2>1. view'[p] = view[p]
        BY <1>1, <1>3, WorkerKnows, StepsAreLocal
    <2> QED
        BY <1>1, <1>2, <2>1 DEF CommandKnows, FreshLabels, RestoreLabels,
           CleanupLabels, DeleteLabels
<1>4. CASE PowerStart(p)
    <2>1. HostSettles'
        BY <1>1, <1>2, <1>4, BootKeepsHost, KnownStays DEF PowerStart, Booted
    <2> QED
        BY <1>1, <1>3, <1>4, <2>1, HostMoveKeepsInv DEF PowerStart
<1>5. CASE PowerForceStop(p)
    <2>1. HostSettles'
        BY <1>1, <1>2, <1>5, HaltKeepsHost DEF PowerForceStop
    <2> QED
        BY <1>1, <1>3, <1>5, <2>1, HostMoveKeepsInv DEF PowerForceStop, Branch
<1> QED
    BY <1>4, <1>5

-----------------------------------------------------------------------------
(* The steps on the pool *)

\* A generation whose volumes nothing relies on: it is owned without neither
\* cleanup nor deletion on record, and no domain is on it.
Expendable(g) ==
    /\ index.status[g] \in {"Active", "Retained"} =>
           index.progress[g] # "None" \/ index.delete.phase # "None"
    /\ DomainPresent /\ domain.persistent => domain.disk # g
    /\ DomainRunning => domain.live # g

LEMMA VolumeGoneKeepsHost ==
    ASSUME LifecycleTypeOK, HostSettles, UNCHANGED <<index, domain>>,
           NEW g \in Gen, NEW r, Expendable(g), volume' = volume \ {<<g, r>>}
    PROVE  HostSettles'
<1>1. BoundariesApart'
    BY DEF HostSettles, BoundariesApart
<1>2. \A h : h # g /\ VolumesOf(h) \subseteq volume => VolumesOf(h) \subseteq volume'
    BY DEF VolumesOf
<1>3. DomainSound'
    BY <1>2 DEF HostSettles, DomainSound, Expendable, Bindable, DomainPresent,
       DomainShutoff, DomainRunning
<1>4. OwnedVolumesExist'
    BY <1>2 DEF HostSettles, RecordsTrue, OwnedVolumesExist, Expendable, WithStatus
<1>5. RecordsTrue'
    BY <1>4 DEF HostSettles, RecordsTrue, FailedLeavesNothing, DomainPresent,
       WithStatus
<1> QED
    BY <1>1, <1>3, <1>5 DEF HostSettles

\* The overlay of a generation that is on no record may appear.
LEMMA OverlayMadeKeepsHost ==
    ASSUME LifecycleTypeOK, HostSettles, UNCHANGED <<index, domain>>,
           NEW g \in Gen, index.status[g] = "Unlisted",
           index.delete.phase = "None",
           volume' \in {volume, volume \cup {OverlayOf(g)}}
    PROVE  HostSettles'
<1>1. BoundariesApart'
    BY DEF HostSettles, BoundariesApart
<1>2. DomainSound'
    BY DEF HostSettles, DomainSound, Bindable, DomainPresent,
       DomainShutoff, DomainRunning
<1>3. /\ \A v \in volume' : v[2] \in Disposable(v[1])
      /\ OwnedVolumesExist'
    BY DEF HostSettles, RecordsTrue, OwnedVolumesExist, OverlayOf, Disposable, Role
<1>4. index.progress[g] = "None"
    BY DEF HostSettles, BoundariesApart, ValidIndex
<1>5. ASSUME NEW h \in Gen, h # g
      PROVE  \A r : <<h, r>> \in volume' => <<h, r>> \in volume
    BY <1>5 DEF OverlayOf
<1>6. \A h \in Gen : index.status[h] = "Cleaned" => VolumesOf(h) \cap volume' = {}
    BY <1>5 DEF HostSettles, RecordsTrue, VolumesOf
<1>7. \A h \in Gen :
          index.progress[h] \in {"OverlayDeletePending", "IncompleteAfterSeed"}
              => <<h, "NoCloudSeed">> \notin volume'
    BY <1>4, <1>5 DEF HostSettles, RecordsTrue
<1>8. FailedLeavesNothing'
    BY <1>5 DEF HostSettles, RecordsTrue, FailedLeavesNothing, WithStatus, OverlayOf
<1> QED
    BY <1>1, <1>2, <1>3, <1>6, <1>7, <1>8 DEF HostSettles, RecordsTrue

\* A disk that the domain may be on is neither Retained nor unlisted.
LEMMA NotBindable ==
    ASSUME LifecycleTypeOK, HostSettles, NEW g \in Gen,
           index.status[g] \notin {"Active", "Preparing"}
    PROVE  g \notin Bindable
<1>1. index.active \in WithStatus(index, "Active")
    BY DEF HostSettles, BoundariesApart, ValidIndex
<1> QED
    BY <1>1 DEF Bindable, WithStatus

LEMMA FreshVolumeKeepsInv ==
    ASSUME LifecycleTypeOK, LifecycleInv, NEW p \in Proc,
           FreshCreateOverlay(p) \/ FreshRollback(p) \/ RestoreDeleteOverlay(p)
    PROVE  LifecycleInv'
<1> USE DEF durable
<1>1. /\ pc[p] \in {"fresh_create_overlay", "fresh_rollback",
                    "restore_delete_overlay"}
      /\ UNCHANGED <<index, domain>>
    BY DEF FreshCreateOverlay, FreshRollback, RestoreDeleteOverlay
<1>2. /\ pc[p] \in FreshLabels \cup RestoreLabels
      /\ pc[p] # "idle" /\ pc[p] \in WorkLabels
    BY <1>1, WorkLabelsAreLabels DEF FreshLabels, RestoreLabels
<1>3. PICK g \in Gen : g = target[p]
    BY <1>2, WorkerIsTyped
<1>4. /\ pc[p] # "fresh_rollback" => view[p] = index
      /\ ReplacementKnows(pc[p], g)
      /\ HostSettles /\ index.delete.phase = "None"
    BY <1>2, <1>3, WorkerKnows, KnowsByCommand DEF ReplacementKnows
<1>5. ASSUME NEW label \in FreshLabels \cup RestoreLabels, Goto(p, label),
             ReplacementKnows(label, g)', pc[p] # "fresh_rollback"
      PROVE  CommandKnows(label, view[p], target[p])'
    <2>1. view'[p] = view[p] /\ target'[p] = g /\ view[p] = index
        BY <1>2, <1>3, <1>4, <1>5, WorkerKnows, StepsAreLocal
    <2>2. label \notin CleanupLabels \cup DeleteLabels /\ label # "starting"
        BY <1>5 DEF FreshLabels, RestoreLabels, CleanupLabels, DeleteLabels
    <2> QED
        BY <1>1, <1>5, <2>1, <2>2 DEF CommandKnows
<1>6. CASE FreshCreateOverlay(p)
    <2>1. pc[p] = "fresh_create_overlay" /\ volume' \in {volume, volume \cup {OverlayOf(g)}}
        BY <1>3, <1>6 DEF FreshCreateOverlay
    <2>2. /\ index.status[g] = "Unlisted" /\ g \notin Seeded
          /\ WithStatus(index, "Preparing") = {}
        BY <1>4, <2>1 DEF ReplacementKnows, BeforeOverlay, FreshLabels
    <2>3. HostSettles'
        BY <1>1, <1>4, <2>1, <2>2, OverlayMadeKeepsHost
    <2>4. OverlayOf(g) \in volume' => ReplacementKnows("fresh_inspect_overlay", g)'
        BY <1>1, <1>4, <2>2 DEF ReplacementKnows, AtSwitch, AfterBoundary, RestoreLabels,
           AfterRestore, AtFailed
    <2>5. \/ Stop(p)
          \/ Goto(p, "fresh_inspect_overlay") /\ OverlayOf(g) \in volume'
        BY <1>3, <1>6 DEF FreshCreateOverlay
    <2>6. "fresh_inspect_overlay" \in FreshLabels
        BY DEF FreshLabels
    <2> QED
        BY <1>2, <1>5, <2>1, <2>3, <2>4, <2>5, <2>6, HostMoveKeepsInv
<1>7. CASE FreshRollback(p)
    <2>1. pc[p] = "fresh_rollback" /\ Stop(p) /\ volume' = volume \ {OverlayOf(g)}
        BY <1>3, <1>7 DEF FreshRollback
    <2>2. /\ index.status[g] \in {"Unlisted", "Preparing"}
          /\ OnDisk(index.active)
        BY <1>4, <2>1 DEF ReplacementKnows
    <2>3. g # index.active
        BY <1>4, <2>2 DEF HostSettles, BoundariesApart, ValidIndex, WithStatus
    <2>4. Expendable(g)
        BY <2>2, <2>3 DEF Expendable, OnDisk
    <2>5. HostSettles'
        BY <1>1, <1>4, <2>1, <2>4, VolumeGoneKeepsHost DEF OverlayOf
    <2> QED
        BY <1>2, <2>1, <2>5, HostMoveKeepsInv
<1>8. CASE RestoreDeleteOverlay(p)
    <2>1. /\ pc[p] = "restore_delete_overlay"
          /\ \/ volume' = volume /\ Stop(p)
             \/ /\ volume' = volume \ {OverlayOf(g)}
                /\ Goto(p, "restore_publish_compare")
        BY <1>3, <1>8 DEF RestoreDeleteOverlay, Branch
    <2>2. /\ WithStatus(index, "Preparing") = {g} /\ OnDisk(index.active)
        BY <1>4, <2>1 DEF ReplacementKnows, RestoreLabels, AfterRestore
    <2>3. index.status[g] = "Preparing"
        BY <2>2 DEF WithStatus
    <2>4. g # index.active
        BY <1>4, <2>3 DEF HostSettles, BoundariesApart, ValidIndex, WithStatus
    <2>5. Expendable(g)
        BY <2>2, <2>3, <2>4 DEF Expendable, OnDisk
    <2>6. HostSettles'
        BY <1>1, <1>4, <2>1, <2>5, VolumeGoneKeepsHost, KnownStays DEF OverlayOf
    <2>7. OverlayOf(g) \notin volume' =>
              ReplacementKnows("restore_publish_compare", g)'
        BY <1>1, <1>4, <2>2 DEF ReplacementKnows, FreshLabels, BeforeOverlay,
           WithOverlay, AtSwitch, AfterBoundary, OnDisk, DomainRunning
    <2>8. "restore_publish_compare" \in RestoreLabels
        BY DEF RestoreLabels
    <2> QED
        BY <1>2, <1>5, <2>1, <2>6, <2>7, <2>8, HostMoveKeepsInv
<1> QED
    BY <1>6, <1>7, <1>8

LEMMA CleanupVolumeKeepsInv ==
    ASSUME LifecycleTypeOK, LifecycleInv, NEW p \in Proc,
           CleanupSeed(p) \/ CleanupOverlay(p)
    PROVE  LifecycleInv'
<1> USE DEF durable, AtBegin, SeedGone, AtIncomplete, AtFinish
<1>1. /\ pc[p] \in {"cleanup_seed", "cleanup_overlay"}
      /\ UNCHANGED <<index, domain>>
    BY DEF CleanupSeed, CleanupOverlay
<1>2. pc[p] \in CleanupLabels /\ pc[p] # "idle" /\ pc[p] \in WorkLabels
    BY <1>1, WorkLabelsAreLabels DEF CleanupLabels
<1>3. PICK g \in Gen : g = target[p]
    BY <1>2, WorkerIsTyped
<1>4. /\ view[p] = index /\ CleanupKnows(pc[p], g) /\ HostSettles
    BY <1>2, <1>3, WorkerKnows, KnowsByCommand
<1>5. /\ index.delete.phase = "None" /\ index.status[g] = "Retained"
      /\ index.progress[g] # "None"
    BY <1>1, <1>4 DEF CleanupKnows, LastPhase
<1>6. Expendable(g)
    BY <1>4, <1>5, NotBindable DEF Expendable, HostSettles, DomainSound
<1>7. ASSUME NEW label \in CleanupLabels, Goto(p, label), CleanupKnows(label, g)'
      PROVE  CommandKnows(label, view[p], target[p])'
    <2>1. view'[p] = view[p] /\ target'[p] = g
        BY <1>2, <1>3, <1>7, WorkerKnows, StepsAreLocal
    <2>2. /\ label \notin FreshLabels \cup RestoreLabels \cup DeleteLabels
          /\ label # "starting"
        BY <1>7 DEF FreshLabels, RestoreLabels, CleanupLabels, DeleteLabels
    <2> QED
        BY <1>1, <1>4, <1>7, <2>1, <2>2 DEF CommandKnows
<1>8. CASE CleanupSeed(p)
    <2>1. /\ pc[p] = "cleanup_seed"
          /\ \/ volume' = volume /\ Stop(p)
             \/ /\ volume' = volume \ {<<g, "NoCloudSeed">>}
                /\ Goto(p, "cleanup_seed_compare")
        BY <1>3, <1>8 DEF CleanupSeed, Branch
    <2>2. HostSettles'
        BY <1>1, <1>4, <1>6, <2>1, VolumeGoneKeepsHost, KnownStays
    <2>3. <<g, "NoCloudSeed">> \notin volume' =>
              CleanupKnows("cleanup_seed_compare", g)'
        BY <1>1, <1>4, <1>5, <2>1 DEF CleanupKnows
    <2>4. "cleanup_seed_compare" \in CleanupLabels
        BY DEF CleanupLabels
    <2> QED
        BY <1>2, <1>7, <2>1, <2>2, <2>3, <2>4, HostMoveKeepsInv
<1>9. CASE CleanupOverlay(p)
    <2>1. /\ pc[p] = "cleanup_overlay"
          /\ \/ volume' = volume /\ Stop(p)
             \/ /\ volume' = volume /\ g \in Seeded
                /\ Goto(p, "cleanup_incomplete_compare")
             \/ /\ volume' = volume \ {OverlayOf(g)}
                /\ Goto(p, "cleanup_finish_compare")
        BY <1>3, <1>9 DEF CleanupOverlay, CleanupOverlayFailed, Branch
    <2>2. HostSettles'
        BY <1>1, <1>4, <1>6, <2>1, VolumeGoneKeepsHost, KnownStays DEF OverlayOf
    <2>3. index.progress[g] = LastPhase(g)
        BY <1>4, <2>1 DEF CleanupKnows
    <2>4. g \in Seeded => CleanupKnows("cleanup_incomplete_compare", g)'
        BY <1>1, <1>5, <2>3 DEF CleanupKnows, LastPhase
    <2>5. g \in Seeded => <<g, "NoCloudSeed">> \notin volume
        BY <1>4, <2>3 DEF LastPhase, HostSettles, RecordsTrue
    <2>6. volume' = volume \ {OverlayOf(g)} => VolumesOf(g) \cap volume' = {}
        BY <2>5 DEF VolumesOf, Disposable, OverlayOf, Role
    <2>7. volume' = volume \ {OverlayOf(g)} =>
              CleanupKnows("cleanup_finish_compare", g)'
        BY <1>1, <1>5, <2>3, <2>6 DEF CleanupKnows, VolumesOf, LastPhase
    <2>8. /\ "cleanup_incomplete_compare" \in CleanupLabels
          /\ "cleanup_finish_compare" \in CleanupLabels
        BY DEF CleanupLabels
    <2> QED
        BY <1>2, <1>7, <2>1, <2>2, <2>4, <2>7, <2>8, HostMoveKeepsInv
<1> QED
    BY <1>8, <1>9

LEMMA DeleteVolumeKeepsInv ==
    ASSUME LifecycleTypeOK, LifecycleInv, NEW p \in Proc, DeleteVolume(p)
    PROVE  LifecycleInv'
<1> USE DEF durable, BeforeIntent, AtIntent, DomainGoneAt, VolumeGoneAt,
            AfterDomainAt
<1>1. /\ pc[p] = "delete_volume" /\ pc[p] # "idle" /\ pc[p] \in DeleteLabels
      /\ UNCHANGED <<index, domain>>
    BY DEF DeleteVolume, DeleteLabels
<1>2. /\ view[p] = index /\ DeleteKnows("delete_volume") /\ HostSettles
      /\ index \in Index
    BY <1>1, WorkerKnows, KnowsByCommand
<1>3. /\ index.delete.phase = "Deleting" /\ index.delete.domain = "Absent"
      /\ index.delete.plan = index.active /\ index.active \in Gen
      /\ ~DomainPresent
    BY <1>2 DEF DeleteKnows, HostSettles, BoundariesApart, ValidIndex,
       ValidDeletePlan, RecordsTrue, Index
<1>4. PICK g \in Gen, r \in Role : g = index.active /\ r = NextRole(index)
    BY <1>3 DEF NextRole, Role
<1>5. \/ volume' = volume /\ Stop(p)
      \/ volume' = volume \ {<<g, r>>} /\ Goto(p, "delete_volume_compare")
    BY <1>2, <1>3, <1>4 DEF DeleteVolume, Branch
<1>6. Expendable(g)
    BY <1>3 DEF Expendable, DomainPresent, DomainRunning
<1>7. HostSettles'
    BY <1>1, <1>2, <1>5, <1>6, VolumeGoneKeepsHost, KnownStays
<1>8. ASSUME Goto(p, "delete_volume_compare"), volume' = volume \ {<<g, r>>}
      PROVE  CommandKnows("delete_volume_compare", view[p], target[p])'
    <2>1. view'[p] = view[p]
        BY <1>1, <1>8, WorkerKnows, StepsAreLocal
    <2>2. DeleteKnows("delete_volume_compare")'
        BY <1>1, <1>3, <1>4, <1>8 DEF DeleteKnows, NextRole
    <2>3. "delete_volume_compare" \notin FreshLabels \cup RestoreLabels \cup CleanupLabels
        BY DEF FreshLabels, RestoreLabels, CleanupLabels
    <2> QED
        BY <1>1, <1>2, <2>1, <2>2, <2>3 DEF CommandKnows
<1> QED
    BY <1>1, <1>5, <1>7, <1>8, HostMoveKeepsInv

-----------------------------------------------------------------------------
(* The writes of the index *)

\* A process that writes the index ends, or holds what it wrote, and what its
\* next step needs holds then.
LEMMA WriteMoveKeepsInv ==
    ASSUME LifecycleTypeOK, LifecycleInv, NEW p \in Proc, pc[p] # "idle",
           HostSettles', NEW next, NEW label,
           \/ WriteIndexAndStop(p, next)
           \/ /\ WriteIndex(p, next, label)
              /\ CommandKnows(label, index, target[p])'
    PROVE  LifecycleInv'
<1>1. \A q \in Proc \ {p} : pc[q] = "idle"
    BY WorkerKnows
<1>2. CASE WriteIndexAndStop(p, next)
    BY <1>1, <1>2, WorkerKnows, StepsAreLocal, MoveKeepsInv DEF WriteIndexAndStop
<1>3. ASSUME WriteIndex(p, next, label), CommandKnows(label, index, target[p])'
      PROVE  LifecycleInv'
    <2>1. /\ OnlyMoves(p) /\ pc'[p] = label
          /\ view'[p] = next /\ target'[p] = target[p]
        BY <1>3, WorkerKnows, StepsAreLocal
    <2>2. view'[p] = index'
        BY <1>3, <2>1 DEF WriteIndex
    <2>3. CommandKnows(pc[p], view[p], target[p])'
        BY <1>3, <2>1, <2>2
    <2> QED
        BY <1>1, <2>1, <2>3, MoveKeepsInv
<1> QED
    BY <1>2, <1>3

\* A generation that was on no record becomes Preparing.
LEMMA PreparingKeepsHost ==
    ASSUME LifecycleTypeOK, HostSettles, UNCHANGED <<domain, volume>>,
           NEW g \in Gen, g \notin Seeded, index.status[g] = "Unlisted",
           index.delete.phase = "None", WithStatus(index, "Preparing") = {},
           index' = AddPreparing(index, g)
    PROVE  /\ HostSettles'
           /\ index'.delete.phase = "None"
           /\ WithStatus(index, "Preparing")' = {g}
           /\ index'.active = index.active
<1>1. index \in Index /\ ValidIndex(index)
    BY DEF LifecycleTypeOK, HostTypeOK, HostSettles, BoundariesApart
<1>2. /\ ValidIndex(index') /\ index'.active = index.active
      /\ index'.delete = index.delete /\ index'.progress = index.progress
      /\ \A x \in Gen : index'.status[x] =
             IF x = g THEN "Preparing" ELSE index.status[x]
    BY <1>1, FreshTransitionFields, FreshTransitionsStayValid
<1>3. WithStatus(index, "Preparing")' = {g}
    BY <1>2 DEF WithStatus
<1>4. BoundariesApart'
    BY <1>2, <1>3 DEF HostSettles, BoundariesApart, WithStatus
<1>5. DomainSound'
    BY <1>2, <1>3 DEF HostSettles, DomainSound, Bindable, DomainPresent,
       DomainShutoff, DomainRunning
<1>6. OwnedVolumesExist' /\ FailedLeavesNothing'
    BY <1>2 DEF HostSettles, RecordsTrue, OwnedVolumesExist,
       FailedLeavesNothing, WithStatus
<1>7. RecordsTrue'
    BY <1>2, <1>6 DEF HostSettles, RecordsTrue
<1> QED
    BY <1>2, <1>3, <1>4, <1>5, <1>7 DEF HostSettles

\* The domain is on the replacement, so the replacement can become Active.
LEMMA SwitchKeepsHost ==
    ASSUME LifecycleTypeOK, HostSettles, UNCHANGED <<domain, volume>>,
           NEW g \in Gen, g \notin Seeded, OverlayOf(g) \in volume,
           index.delete.phase = "None", WithStatus(index, "Preparing") = {g},
           OnDisk(g), index' = FinalizeSwitch(index, g)
    PROVE  HostSettles'
<1>1. index \in Index /\ ValidIndex(index)
    BY DEF LifecycleTypeOK, HostTypeOK, HostSettles, BoundariesApart
<1>2. index.status[g] = "Preparing" /\ g # index.active
    BY <1>1 DEF WithStatus, ValidIndex
<1>3. /\ ValidIndex(index') /\ index'.active = g
      /\ index'.delete = index.delete /\ index'.progress = index.progress
      /\ \A x \in Gen : index'.status[x] =
             IF x = g THEN "Active" ELSE IF x = index.active THEN "Retained"
             ELSE index.status[x]
    BY <1>1, <1>2, FreshTransitionFields, FreshTransitionsStayValid
<1>4. WithStatus(index, "Preparing")' = {}
    BY <1>3 DEF WithStatus
<1>5. VolumesOf(g) \subseteq volume
    BY DEF VolumesOf, Disposable, OverlayOf
<1>6. VolumesOf(index.active) \subseteq volume
    BY ActiveIsWhole
<1>7. BoundariesApart'
    BY <1>3, <1>4 DEF HostSettles, BoundariesApart, WithStatus
<1>8. DomainSound'
    BY <1>3, <1>5 DEF HostSettles, DomainSound, OnDisk, Bindable,
       DomainPresent, DomainShutoff, DomainRunning
<1>9. OwnedVolumesExist' /\ FailedLeavesNothing'
    BY <1>3, <1>5, <1>6 DEF HostSettles, RecordsTrue, OwnedVolumesExist,
       FailedLeavesNothing, WithStatus
<1>10. RecordsTrue'
    BY <1>3, <1>9 DEF HostSettles, RecordsTrue
<1> QED
    BY <1>7, <1>8, <1>10 DEF HostSettles

\* The domain is off the replacement and its overlay gone, so it can be Failed.
LEMMA FailedKeepsHost ==
    ASSUME LifecycleTypeOK, HostSettles, UNCHANGED <<domain, volume>>,
           NEW g \in Gen, OverlayOf(g) \notin volume,
           index.delete.phase = "None", WithStatus(index, "Preparing") = {g},
           OnDisk(index.active), index' = MarkFailed(index, g)
    PROVE  HostSettles'
<1>1. index \in Index /\ ValidIndex(index)
    BY DEF LifecycleTypeOK, HostTypeOK, HostSettles, BoundariesApart
<1>2. index.status[g] = "Preparing"
    BY DEF WithStatus
<1>3. /\ ValidIndex(index') /\ index'.active = index.active
      /\ index'.delete = index.delete /\ index'.progress = index.progress
      /\ \A x \in Gen : index'.status[x] =
             IF x = g THEN "Failed" ELSE index.status[x]
    BY <1>1, <1>2, FreshTransitionFields, FreshTransitionsStayValid
<1>4. WithStatus(index, "Preparing")' = {}
    BY <1>3 DEF WithStatus
<1>5. BoundariesApart'
    BY <1>3, <1>4 DEF HostSettles, BoundariesApart, WithStatus
<1>6. DomainSound'
    BY <1>3 DEF HostSettles, DomainSound, OnDisk, Bindable,
       DomainPresent, DomainShutoff, DomainRunning
<1>7. OwnedVolumesExist' /\ FailedLeavesNothing'
    BY <1>3 DEF HostSettles, RecordsTrue, OwnedVolumesExist,
       FailedLeavesNothing, WithStatus
<1>8. RecordsTrue'
    BY <1>3, <1>7 DEF HostSettles, RecordsTrue
<1> QED
    BY <1>5, <1>6, <1>8 DEF HostSettles

LEMMA FreshWritesKeepInv ==
    ASSUME LifecycleTypeOK, LifecycleInv, NEW p \in Proc,
           FreshPublish(p) \/ FreshActivateWrite(p) \/ RestorePublishWrite(p)
    PROVE  LifecycleInv'
<1> USE DEF durable, host
<1>1. pc[p] \in {"fresh_publish", "fresh_activate_write", "restore_publish_write"}
    BY DEF FreshPublish, FreshActivateWrite, RestorePublishWrite
<1>2. /\ pc[p] \in FreshLabels \cup RestoreLabels
      /\ pc[p] # "idle" /\ pc[p] \in WorkLabels
    BY <1>1, WorkLabelsAreLabels DEF FreshLabels, RestoreLabels
<1>3. PICK g \in Gen : g = target[p]
    BY <1>2, WorkerIsTyped
<1>4. /\ view[p] = index /\ ReplacementKnows(pc[p], g)
      /\ HostSettles /\ index.delete.phase = "None"
    BY <1>1, <1>2, <1>3, WorkerKnows, KnowsByCommand DEF ReplacementKnows
<1>5. CASE FreshPublish(p)
    <2>1. pc[p] = "fresh_publish"
        BY <1>5 DEF FreshPublish
    <2>2. /\ g \notin Seeded /\ index.status[g] = "Unlisted"
          /\ WithStatus(index, "Preparing") = {} /\ OverlayOf(g) \in volume
        BY <1>4, <2>1 DEF ReplacementKnows, BeforeOverlay, WithOverlay,
           FreshLabels
    <2>3. OnDisk(index.active)
        BY <1>4, <2>2 DEF HostSettles, DomainSound, Bindable, OnDisk
    <2>4. /\ "fresh_prove_old" \in FreshLabels /\ "fresh_rollback" \in FreshLabels
          /\ \A label \in FreshLabels :
                 /\ label \notin RestoreLabels \cup CleanupLabels \cup DeleteLabels
                 /\ label # "starting"
        BY DEF FreshLabels, RestoreLabels, CleanupLabels, DeleteLabels
    <2>5. ASSUME index' = AddPreparing(index, g), UNCHANGED <<domain, volume>>
          PROVE  /\ HostSettles'
                 /\ ReplacementKnows("fresh_prove_old", g)'
                 /\ ReplacementKnows("fresh_rollback", g)'
        <3>1. /\ HostSettles' /\ index'.delete.phase = "None"
              /\ WithStatus(index, "Preparing")' = {g}
              /\ index'.active = index.active
            BY <1>4, <2>2, <2>5, PreparingKeepsHost
        <3>2. index'.status[g] = "Preparing"
            BY <3>1 DEF WithStatus
        <3>3. ReplacementKnows("fresh_prove_old", g)'
            BY <2>2, <2>5, <3>1 DEF ReplacementKnows, BeforeOverlay,
               WithOverlay, AfterBoundary, AtSwitch, AfterRestore, AtFailed
        <3>4. ReplacementKnows("fresh_rollback", g)'
            BY <2>2, <2>3, <2>5, <3>1, <3>2 DEF ReplacementKnows,
               BeforeOverlay, WithOverlay, AfterBoundary, AtSwitch,
               AfterRestore, AtFailed, RestoreLabels, OnDisk, DomainRunning
        <3> QED
            BY <3>1, <3>3, <3>4
    <2>6. CASE WriteIndex(p, AddPreparing(index, g), "fresh_prove_old")
        <3>1. index' = AddPreparing(index, g) /\ UNCHANGED <<domain, volume>>
              /\ target'[p] = g
            BY <1>3, <2>6 DEF WriteIndex
        <3>2. CommandKnows("fresh_prove_old", index, target[p])'
            BY <2>4, <2>5, <3>1 DEF CommandKnows
        <3> QED
            BY <1>2, <2>5, <2>6, <3>1, <3>2, WriteMoveKeepsInv
    <2>7. CASE /\ Goto(p, "fresh_rollback") /\ UNCHANGED <<domain, volume>>
               /\ index' \in {index, AddPreparing(index, g)}
        <3>1. target'[p] = g
            BY <1>2, <1>3, <2>7, WorkerKnows, StepsAreLocal
        <3>2. CASE index' = AddPreparing(index, g)
            <4>1. CommandKnows("fresh_rollback", view[p], target[p])'
                BY <2>4, <2>5, <2>7, <3>1, <3>2 DEF CommandKnows
            <4> QED
                BY <1>2, <2>5, <2>7, <3>2, <4>1, HostMoveKeepsInv
        <3>3. CASE index' = index
            <4>1. HostSettles'
                BY <1>4, <2>7, <3>3, KnownStays
            <4>2. ReplacementKnows("fresh_rollback", g)'
                BY <1>4, <2>2, <2>3, <2>7, <3>3 DEF ReplacementKnows,
                   BeforeOverlay, WithOverlay, AfterBoundary, AtSwitch,
                   AfterRestore, AtFailed, RestoreLabels, OnDisk, DomainRunning
            <4>3. CommandKnows("fresh_rollback", view[p], target[p])'
                BY <2>4, <3>1, <4>2 DEF CommandKnows
            <4> QED
                BY <1>2, <2>7, <4>1, <4>3, HostMoveKeepsInv
        <3> QED
            BY <2>7, <3>2, <3>3
    <2> QED
        BY <1>3, <1>4, <1>5, <2>6, <2>7 DEF FreshPublish
<1>6. CASE FreshActivateWrite(p)
    <2>1. /\ pc[p] = "fresh_activate_write"
          /\ WriteIndexAndStop(p, FinalizeSwitch(index, g))
          /\ index' = FinalizeSwitch(index, g) /\ UNCHANGED <<domain, volume>>
        BY <1>3, <1>4, <1>6 DEF FreshActivateWrite, WriteIndexAndStop
    <2>2. /\ g \notin Seeded /\ OverlayOf(g) \in volume
          /\ WithStatus(index, "Preparing") = {g} /\ OnDisk(g)
        BY <1>4, <2>1 DEF ReplacementKnows, AfterBoundary, AtSwitch, FreshLabels
    <2>3. HostSettles'
        BY <1>4, <2>1, <2>2, SwitchKeepsHost
    <2> QED
        BY <1>2, <2>1, <2>3, WriteMoveKeepsInv
<1>7. CASE RestorePublishWrite(p)
    <2>1. /\ pc[p] = "restore_publish_write"
          /\ WriteIndexAndStop(p, MarkFailed(index, g))
          /\ index' = MarkFailed(index, g) /\ UNCHANGED <<domain, volume>>
        BY <1>3, <1>4, <1>7 DEF RestorePublishWrite, WriteIndexAndStop
    <2>2. /\ OverlayOf(g) \notin volume
          /\ WithStatus(index, "Preparing") = {g} /\ OnDisk(index.active)
        BY <1>4, <2>1 DEF ReplacementKnows, AfterRestore, AtFailed, RestoreLabels
    <2>3. HostSettles'
        BY <1>4, <2>1, <2>2, FailedKeepsHost
    <2> QED
        BY <1>2, <2>1, <2>3, WriteMoveKeepsInv
<1> QED
    BY <1>5, <1>6, <1>7

\* A write of a cleanup that says of g only what is true.
LEMMA CleanupWriteKeepsHost ==
    ASSUME LifecycleTypeOK, HostSettles, UNCHANGED <<domain, volume>>,
           NEW g \in Gen, NEW next \in Index, index' = next, ValidIndex(next),
           Agree(next, index, g), index.delete.phase = "None",
           index.status[g] = "Retained",
           \A h \in Gen \ {g} : index.progress[h] = "None",
           \/ next.status[g] = "Retained" /\ next.progress[g] # "None"
           \/ next.status[g] = "Cleaned" /\ VolumesOf(g) \cap volume = {},
           next.progress[g] \in {"OverlayDeletePending", "IncompleteAfterSeed"}
               => <<g, "NoCloudSeed">> \notin volume
    PROVE  HostSettles'
<1>1. /\ index'.active = index.active /\ index'.delete = index.delete
      /\ \A h \in Gen \ {g} : /\ index'.status[h] = index.status[h]
                              /\ index'.progress[h] = "None"
    BY DEF Agree
<1>2. WithStatus(index, "Preparing")' = WithStatus(index, "Preparing")
    BY <1>1 DEF WithStatus
<1>3. BoundariesApart'
    BY <1>1 DEF HostSettles, BoundariesApart
<1>4. DomainSound'
    BY <1>1, <1>2 DEF HostSettles, DomainSound, Bindable, DomainPresent,
       DomainShutoff, DomainRunning
<1>5. OwnedVolumesExist'
    <2> SUFFICES ASSUME NEW h \in Gen,
                        index'.status[h] \in {"Active", "Retained"},
                        index'.progress[h] = "None"
                 PROVE  VolumesOf(h) \subseteq volume'
        BY DEF OwnedVolumesExist, WithStatus
    <2>1. h # g
        OBVIOUS
    <2>2. h \in WithStatus(index, "Active") \cup WithStatus(index, "Retained")
        BY <1>1, <2>1 DEF WithStatus
    <2> QED
        BY <2>1, <2>2 DEF HostSettles, RecordsTrue, OwnedVolumesExist
<1>6. FailedLeavesNothing'
    BY <1>1 DEF HostSettles, RecordsTrue, FailedLeavesNothing, WithStatus
<1>7. RecordsTrue'
    <2>1. \A h \in Gen : index'.status[h] = "Cleaned" =>
              VolumesOf(h) \cap volume' = {}
        BY <1>1 DEF HostSettles, RecordsTrue
    <2>2. \A h \in Gen :
              index'.progress[h] \in {"OverlayDeletePending", "IncompleteAfterSeed"}
                  => <<h, "NoCloudSeed">> \notin volume'
        BY <1>1 DEF HostSettles, RecordsTrue
    <2> QED
        BY <1>1, <1>5, <1>6, <2>1, <2>2 DEF HostSettles, RecordsTrue
<1> QED
    BY <1>3, <1>4, <1>7 DEF HostSettles

LEMMA CleanupWritesKeepInv ==
    ASSUME LifecycleTypeOK, LifecycleInv, NEW p \in Proc,
           \/ CleanupBeginWrite(p) \/ CleanupSeedWrite(p)
           \/ CleanupIncompleteWrite(p) \/ CleanupFinishWrite(p)
    PROVE  LifecycleInv'
<1> USE DEF durable, host, AtBegin, SeedGone, AtIncomplete, AtFinish
<1>1. pc[p] \in {"cleanup_begin_write", "cleanup_seed_write",
                 "cleanup_incomplete_write", "cleanup_finish_write"}
    BY DEF CleanupBeginWrite, CleanupSeedWrite, CleanupIncompleteWrite,
       CleanupFinishWrite
<1>2. pc[p] \in CleanupLabels /\ pc[p] # "idle" /\ pc[p] \in WorkLabels
    BY <1>1, WorkLabelsAreLabels DEF CleanupLabels
<1>3. PICK g \in Gen : g = target[p]
    BY <1>2, WorkerIsTyped
<1>4. /\ view[p] = index /\ CleanupKnows(pc[p], g) /\ HostSettles
      /\ index \in Index
    BY <1>2, <1>3, WorkerKnows, KnowsByCommand
<1>5. index.delete.phase = "None" /\ index.status[g] = "Retained"
    BY <1>1, <1>4 DEF CleanupKnows
<1>6. FirstPhase(g) \in CleanupPhase
    BY DEF FirstPhase, CleanupPhase
<1>7. \A h \in Gen \ {g} : index.progress[h] = "None"
    <2>1. CASE pc[p] = "cleanup_begin_write"
        BY <1>4, <2>1 DEF CleanupKnows
    <2>2. CASE pc[p] # "cleanup_begin_write"
        <3>1. index.progress[g] # "None"
            BY <1>1, <1>4, <2>2 DEF CleanupKnows, LastPhase
        <3> QED
            BY <1>4, <3>1 DEF HostSettles, BoundariesApart
    <2> QED
        BY <2>1, <2>2
<1>8. ASSUME NEW label \in {"cleanup_seed", "cleanup_overlay"},
             target'[p] = g, CleanupKnows(label, g)'
      PROVE  CommandKnows(label, index, target[p])'
    BY <1>8 DEF CommandKnows, CleanupLabels, FreshLabels, RestoreLabels,
       DeleteLabels
<1>9. CASE CleanupBeginWrite(p)
    <2> PICK next \in Index : next = BeginCleanup(index, g, FirstPhase(g))
        BY <1>4, <1>6, TransitionTypes DEF Role
    <2>1. /\ ValidIndex(next) /\ index' = next /\ UNCHANGED <<domain, volume>>
          /\ \/ g \in Seeded /\ WriteIndex(p, next, "cleanup_seed")
             \/ g \notin Seeded /\ WriteIndex(p, next, "cleanup_overlay")
        BY <1>3, <1>4, <1>9 DEF CleanupBeginWrite, WriteIndex
    <2>2. /\ Agree(next, index, g) /\ next.status[g] = "Retained"
          /\ next.progress[g] = FirstPhase(g)
        BY <1>4, <1>5, <1>6, CleanupTransitionFields
    <2>3. FirstPhase(g) \notin {"None", "OverlayDeletePending", "IncompleteAfterSeed"}
        BY DEF FirstPhase
    <2>4. HostSettles'
        BY <1>4, <1>5, <1>7, <2>1, <2>2, <2>3, CleanupWriteKeepsHost
    <2>5. target'[p] = g
        BY <1>3, <2>1 DEF WriteIndex
    <2>6. index'.delete.phase = "None"
        BY <1>5, <2>1, <2>2 DEF Agree
    <2>7. CASE g \in Seeded
        <3>1. CleanupKnows("cleanup_seed", g)'
            BY <2>1, <2>2, <2>6, <2>7 DEF CleanupKnows, FirstPhase
        <3>2. CommandKnows("cleanup_seed", index, target[p])'
            BY <1>8, <2>5, <3>1
        <3> QED
            BY <1>2, <2>1, <2>4, <2>7, <3>2, WriteMoveKeepsInv
    <2>8. CASE g \notin Seeded
        <3>1. CleanupKnows("cleanup_overlay", g)'
            BY <2>1, <2>2, <2>6, <2>8 DEF CleanupKnows, FirstPhase, LastPhase
        <3>2. CommandKnows("cleanup_overlay", index, target[p])'
            BY <1>8, <2>5, <3>1
        <3> QED
            BY <1>2, <2>1, <2>4, <2>8, <3>2, WriteMoveKeepsInv
    <2> QED
        BY <2>7, <2>8
<1>10. CASE CleanupSeedWrite(p)
    <2> PICK next \in Index : next = RecordSeedDeleted(index, g)
        BY <1>4, <1>6, TransitionTypes DEF Role
    <2>1. /\ pc[p] = "cleanup_seed_write" /\ ValidIndex(next) /\ index' = next
          /\ UNCHANGED <<domain, volume>>
          /\ WriteIndex(p, next, "cleanup_overlay")
        BY <1>3, <1>4, <1>10 DEF CleanupSeedWrite, WriteIndex
    <2>2. /\ Agree(next, index, g) /\ next.status[g] = "Retained"
          /\ next.progress[g] = "OverlayDeletePending"
        BY <1>4, <1>5, <1>6, CleanupTransitionFields
    <2>3. <<g, "NoCloudSeed">> \notin volume /\ g \in Seeded
        BY <1>4, <2>1 DEF CleanupKnows
    <2>4. HostSettles'
        BY <1>4, <1>5, <1>7, <2>1, <2>2, <2>3, CleanupWriteKeepsHost
    <2>5. target'[p] = g
        BY <1>3, <2>1 DEF WriteIndex
    <2>6. index'.delete.phase = "None"
        BY <1>5, <2>1, <2>2 DEF Agree
    <2>7. CleanupKnows("cleanup_overlay", g)'
        BY <2>1, <2>2, <2>3, <2>6 DEF CleanupKnows, LastPhase
    <2>8. CommandKnows("cleanup_overlay", index, target[p])'
        BY <1>8, <2>5, <2>7
    <2> QED
        BY <1>2, <2>1, <2>4, <2>8, WriteMoveKeepsInv
<1>11. CASE CleanupIncompleteWrite(p)
    <2> PICK next \in Index : next = RecordCleanupIncomplete(index, g)
        BY <1>4, <1>6, TransitionTypes DEF Role
    <2>1. /\ pc[p] = "cleanup_incomplete_write" /\ ValidIndex(next)
          /\ index' = next /\ UNCHANGED <<domain, volume>>
          /\ WriteIndexAndStop(p, next)
        BY <1>3, <1>4, <1>11 DEF CleanupIncompleteWrite, WriteIndexAndStop
    <2>2. /\ Agree(next, index, g) /\ next.status[g] = "Retained"
          /\ next.progress[g] = "IncompleteAfterSeed"
        BY <1>4, <1>5, <1>6, CleanupTransitionFields
    <2>3. <<g, "NoCloudSeed">> \notin volume
        BY <1>4, <2>1 DEF CleanupKnows, HostSettles, RecordsTrue
    <2>4. HostSettles'
        BY <1>4, <1>5, <1>7, <2>1, <2>2, <2>3, CleanupWriteKeepsHost
    <2> QED
        BY <1>2, <2>1, <2>4, WriteMoveKeepsInv
<1>12. CASE CleanupFinishWrite(p)
    <2> PICK next \in Index : next = CompleteCleanup(index, g)
        BY <1>4, <1>6, TransitionTypes DEF Role
    <2>1. /\ pc[p] = "cleanup_finish_write" /\ ValidIndex(next)
          /\ index' = next /\ UNCHANGED <<domain, volume>>
          /\ WriteIndexAndStop(p, next)
        BY <1>3, <1>4, <1>12 DEF CleanupFinishWrite, WriteIndexAndStop
    <2>2. /\ Agree(next, index, g) /\ next.status[g] = "Cleaned"
          /\ next.progress[g] = "None"
        BY <1>4, <1>5, <1>6, CleanupTransitionFields
    <2>3. VolumesOf(g) \cap volume = {}
        BY <1>4, <2>1 DEF CleanupKnows
    <2>4. HostSettles'
        BY <1>4, <1>5, <1>7, <2>1, <2>2, <2>3, CleanupWriteKeepsHost
    <2> QED
        BY <1>2, <2>1, <2>4, WriteMoveKeepsInv
<1> QED
    BY <1>9, <1>10, <1>11, <1>12

\* A write of a deletion that says of domain and volumes only what is true.
LEMMA DeleteWriteKeepsHost ==
    ASSUME LifecycleTypeOK, HostSettles, UNCHANGED <<domain, volume>>,
           NEW next \in Index, index' = next, ValidIndex(next),
           next.active = index.active, next.status = index.status,
           next.progress = index.progress, next.delete.phase # "None",
           DeleteEligible(index) \/ index.delete.phase # "None",
           next.delete.domain = "Absent" => ~DomainPresent,
           \A r \in Disposable(index.active) \ next.delete.pending :
               <<index.active, r>> \notin volume,
           next.delete.phase = "Deleted" =>
               next.delete.domain = "Absent" /\ next.delete.pending = {}
    PROVE  HostSettles'
<1>1. \A g \in Gen : /\ index.progress[g] = "None"
                     /\ index.status[g] \in {"Active", "Cleaned", "Unlisted"}
    <2>1. CASE DeleteEligible(index)
        BY <2>1 DEF DeleteEligible, LifecycleTypeOK, HostTypeOK, Index, Status
    <2>2. CASE index.delete.phase # "None"
        BY <2>2 DEF HostSettles, BoundariesApart
    <2> QED
        BY <2>1, <2>2
<1>2. BoundariesApart'
    BY <1>1 DEF HostSettles, BoundariesApart
<1>3. DomainSound'
    BY DEF HostSettles, DomainSound, Bindable, WithStatus, DomainPresent,
       DomainShutoff, DomainRunning
<1>4. OwnedVolumesExist' /\ FailedLeavesNothing'
    BY DEF HostSettles, RecordsTrue, OwnedVolumesExist, FailedLeavesNothing,
       WithStatus
<1>5. RecordsTrue'
    BY <1>4 DEF HostSettles, RecordsTrue, DomainPresent
<1> QED
    BY <1>2, <1>3, <1>5 DEF HostSettles

LEMMA DeleteWritesKeepInv ==
    ASSUME LifecycleTypeOK, LifecycleInv, NEW p \in Proc,
           \/ DeleteIntentWrite(p) \/ DeleteDomainWrite(p)
           \/ DeleteVolumeWrite(p) \/ DeleteFinishWrite(p)
    PROVE  LifecycleInv'
<1> USE DEF host, BeforeIntent, AtIntent, DomainGoneAt, VolumeGoneAt,
            AfterDomainAt
<1>1. /\ pc[p] \in {"delete_intent_write", "delete_domain_write",
                    "delete_volume_write", "delete_finish_write"}
      /\ pc[p] # "idle" /\ pc[p] \in DeleteLabels
    BY DEF DeleteIntentWrite, DeleteDomainWrite, DeleteVolumeWrite,
       DeleteFinishWrite, DeleteLabels
<1>2. /\ view[p] = index /\ DeleteKnows(pc[p]) /\ HostSettles
      /\ index \in Index /\ ValidIndex(index)
    BY <1>1, WorkerKnows, KnowsByCommand DEF HostSettles, BoundariesApart
<1>3. NextRole(index) \in Role /\ index.delete \in DeleteState
    BY <1>2 DEF NextRole, Role, Index
<1>4. index.delete.phase # "None" => index.delete.plan = index.active
    BY <1>2 DEF ValidIndex, ValidDeletePlan
<1>5. ASSUME NEW label \in DeleteLabels, DeleteKnows(label)'
      PROVE  CommandKnows(label, index, target[p])'
    BY <1>5 DEF CommandKnows, CleanupLabels, FreshLabels, RestoreLabels,
       DeleteLabels
<1>6. CASE DeleteIntentWrite(p)
    <2> PICK next \in Index : next = BeginDelete(index)
        BY <1>2, TransitionTypes DEF Role, CleanupPhase, Index
    <2>1. /\ pc[p] = "delete_intent_write" /\ ValidIndex(next) /\ index' = next
          /\ UNCHANGED <<domain, volume>>
          /\ WriteIndex(p, next, "delete_domain")
        BY <1>2, <1>6 DEF DeleteIntentWrite, WriteIndex
    <2>2. /\ next.active = index.active /\ next.status = index.status
          /\ next.progress = index.progress
          /\ next.delete.phase = "Deleting"
          /\ next.delete.domain = "UndefinePending"
          /\ next.delete.pending = Disposable(index.active)
        <3>1. /\ next.active = index.active /\ next.status = index.status
              /\ next.progress = index.progress
              /\ next.delete = [phase |-> "Deleting", plan |-> index.active,
                                domain |-> "UndefinePending",
                                pending |-> Disposable(index.active)]
            BY <1>2, <1>3, DeleteTransitionFields, Zenon
        <3> QED
            BY <3>1
    <2>3. DeleteEligible(index)
        BY <1>2, <2>1 DEF DeleteKnows
    <2>4. HostSettles'
        BY <1>2, <2>1, <2>2, <2>3, DeleteWriteKeepsHost
    <2>5. DeleteKnows("delete_domain")' /\ "delete_domain" \in DeleteLabels
        BY <2>1, <2>2 DEF DeleteKnows, DeleteLabels
    <2>6. CommandKnows("delete_domain", index, target[p])'
        BY <1>5, <2>5
    <2> QED
        BY <1>1, <2>1, <2>4, <2>6, WriteMoveKeepsInv
<1>7. CASE DeleteDomainWrite(p)
    <2> PICK next \in Index : next = RecordDomainAbsent(index)
        BY <1>2, TransitionTypes DEF Role, CleanupPhase, Index
    <2> PICK label : label = AfterDomain(next)
        OBVIOUS
    <2>1. /\ pc[p] = "delete_domain_write" /\ ValidIndex(next) /\ index' = next
          /\ UNCHANGED <<domain, volume>>
          /\ WriteIndex(p, next, label)
        BY <1>2, <1>7 DEF DeleteDomainWrite, WriteIndex
    <2>2. index.delete.phase = "Deleting" /\ ~DomainPresent
        BY <1>2, <2>1 DEF DeleteKnows
    <2>3. /\ next.active = index.active /\ next.status = index.status
          /\ next.progress = index.progress
          /\ next.delete.phase = "Deleting"
          /\ next.delete.domain = "Absent"
          /\ next.delete.pending = index.delete.pending
        <3>1. /\ next.active = index.active /\ next.status = index.status
              /\ next.progress = index.progress
              /\ next.delete = [index.delete EXCEPT !.domain = "Absent"]
            BY <1>2, <1>3, DeleteTransitionFields, Zenon
        <3> QED
            BY <1>3, <2>2, <3>1 DEF DeleteState
    <2>4. HostSettles'
        BY <1>2, <2>1, <2>2, <2>3, DeleteWriteKeepsHost
        DEF HostSettles, RecordsTrue
    <2>5. DeleteKnows(label)' /\ label \in DeleteLabels
        BY <2>1, <2>3 DEF DeleteKnows, DeleteLabels, AfterDomain
    <2>6. CommandKnows(label, index, target[p])'
        BY <1>5, <2>5
    <2> QED
        BY <1>1, <2>1, <2>4, <2>6, WriteMoveKeepsInv
<1>8. CASE DeleteVolumeWrite(p)
    <2> PICK r \in Role : r = NextRole(index)
        BY <1>3
    <2> PICK next \in Index : next = RecordResourceAbsent(index, r)
        BY <1>2, TransitionTypes DEF CleanupPhase, Index
    <2> PICK label : label = AfterDomain(next)
        OBVIOUS
    <2>1. /\ pc[p] = "delete_volume_write" /\ ValidIndex(next) /\ index' = next
          /\ UNCHANGED <<domain, volume>>
          /\ WriteIndex(p, next, label)
        BY <1>2, <1>8 DEF DeleteVolumeWrite, WriteIndex
    <2>2. /\ index.delete.phase = "Deleting" /\ index.delete.domain = "Absent"
          /\ <<index.active, r>> \notin volume
        BY <1>2, <2>1 DEF DeleteKnows
    <2>3. /\ next.active = index.active /\ next.status = index.status
          /\ next.progress = index.progress
          /\ next.delete.phase = "Deleting"
          /\ next.delete.domain = "Absent"
          /\ next.delete.pending = index.delete.pending \ {r}
        BY <1>2, <1>3, <2>2 DEF RecordResourceAbsent, Index, DeleteState
    <2>4. /\ ~DomainPresent
          /\ \A x \in Disposable(index.active) \ index.delete.pending :
                 <<index.active, x>> \notin volume
        BY <1>2, <2>2 DEF HostSettles, RecordsTrue
    <2>5. HostSettles'
        BY <1>2, <2>1, <2>2, <2>3, <2>4, DeleteWriteKeepsHost
    <2>6. DeleteKnows(label)' /\ label \in DeleteLabels
        BY <2>1, <2>3 DEF DeleteKnows, DeleteLabels, AfterDomain
    <2>7. CommandKnows(label, index, target[p])'
        BY <1>5, <2>6
    <2> QED
        BY <1>1, <2>1, <2>5, <2>7, WriteMoveKeepsInv
<1>9. CASE DeleteFinishWrite(p)
    <2> PICK next \in Index : next = CompleteDelete(index)
        BY <1>2, TransitionTypes DEF Role, CleanupPhase, Index
    <2>1. /\ CanCompleteDelete(index) /\ ValidIndex(next) /\ index' = next
          /\ UNCHANGED <<domain, volume>>
          /\ WriteIndexAndStop(p, next)
        BY <1>2, <1>9 DEF DeleteFinishWrite, WriteIndexAndStop
    <2>2. /\ index.delete.phase = "Deleting" /\ index.delete.domain = "Absent"
          /\ index.delete.pending = {}
        BY <2>1 DEF CanCompleteDelete
    <2>3. /\ next.active = index.active /\ next.status = index.status
          /\ next.progress = index.progress
          /\ next.delete.phase = "Deleted"
          /\ next.delete.domain = "Absent"
          /\ next.delete.pending = {}
        <3>1. /\ next.active = index.active /\ next.status = index.status
              /\ next.progress = index.progress
              /\ next.delete = [index.delete EXCEPT !.phase = "Deleted"]
            BY <1>2, <1>3, DeleteTransitionFields, Zenon
        <3> QED
            BY <1>3, <2>2, <3>1 DEF DeleteState
    <2>4. /\ ~DomainPresent
          /\ \A x \in Disposable(index.active) : <<index.active, x>> \notin volume
        BY <1>2, <2>2 DEF HostSettles, RecordsTrue
    <2>5. HostSettles'
        BY <1>2, <2>1, <2>2, <2>3, <2>4, DeleteWriteKeepsHost
    <2> QED
        BY <1>1, <2>1, <2>5, WriteMoveKeepsInv
<1> QED
    BY <1>6, <1>7, <1>8, <1>9

-----------------------------------------------------------------------------
(* The invariant is inductive *)

LEMMA LifecycleInvIsInductive ==
    ASSUME Sequential, LifecycleTypeOK, LifecycleInv, [LifecycleNext]_hostVars
    PROVE  LifecycleInv'
<1>1. ASSUME NEW p \in Proc, DeleteCommand(p)
      PROVE  LifecycleInv'
    BY <1>1, DeleteQuietSteps, DeleteDomainKeepsInv, DeleteVolumeKeepsInv,
       DeleteWritesKeepInv DEF DeleteCommand, DeleteStep
<1>2. ASSUME NEW p \in Proc, FreshCommand(p) \/ RestoreCommand(p)
      PROVE  LifecycleInv'
    BY <1>2, ReplacementQuietSteps, DefineKeepsInv, FreshVolumeKeepsInv,
       FreshWritesKeepInv DEF FreshCommand, RestoreCommand
<1>3. ASSUME NEW p \in Proc, CleanupCommand(p)
      PROVE  LifecycleInv'
    BY <1>3, CleanupQuietSteps, CleanupVolumeKeepsInv, CleanupWritesKeepInv
    DEF CleanupCommand
<1>4. ASSUME NEW p \in Proc, PowerCommand(p)
      PROVE  LifecycleInv'
    BY <1>4, PowerQuietSteps, PowerDomainKeepsInv DEF PowerCommand
<1>5. ASSUME UNCHANGED hostVars
      PROVE  LifecycleInv'
    <2>1. /\ UNCHANGED <<index, domain, volume>>
          /\ pc' = pc /\ view' = view /\ target' = target
        BY <1>5 DEF hostVars, durable, host, local
    <2>2. HostSettles'
        BY <2>1, KnownStays DEF LifecycleInv
    <2>3. \A p \in Proc : pc[p] # "idle" =>
              CommandKnows(pc[p], view[p], target[p])'
        <3> SUFFICES ASSUME NEW p \in Proc, pc[p] # "idle"
                     PROVE  CommandKnows(pc[p], view[p], target[p])'
            OBVIOUS
        <3> PICK at, i, g : at = pc[p] /\ i = view[p] /\ g = target[p]
            OBVIOUS
        <3>1. CommandKnows(at, i, g)'
            BY <2>1, KnownStays DEF LifecycleInv
        <3> QED
            BY <2>1, <3>1
    <2> QED
        BY <2>1, <2>2, <2>3 DEF LifecycleInv
<1> QED
    BY <1>1, <1>2, <1>3, <1>4, <1>5, CrashKeepsInv, GuestKeepsInv
    DEF LifecycleNext

LEMMA LifecycleInvHoldsInitially == SettledInit => LifecycleInv
<1> SUFFICES ASSUME SettledInit PROVE LifecycleInv
    OBVIOUS
<1>1. /\ index \in Index /\ ValidIndex(index)
      /\ index.delete = NoDelete
      /\ \A g \in Gen : index.progress[g] = "None"
      /\ \A g \in Gen : index.status[g] # "Preparing"
    <2>1. HostTypeOK(AllLabels)
        BY SettledInitTypes
    <2> QED
        BY <2>1 DEF HostTypeOK, SettledInit, SettledIndex, Status
<1>2. \A g \in Gen : \A v \in VolumesOf(g) :
          v \in volume <=> index.status[g] \in {"Active", "Retained"}
    BY DEF SettledInit, VolumesOf, WithStatus
<1>3. BoundariesApart
    BY <1>1 DEF BoundariesApart, NoDelete
<1>4. index.active \in Gen /\ index.status[index.active] = "Active"
    BY <1>1 DEF ValidIndex, WithStatus, Index
<1>5. DomainSound
    BY <1>2, <1>4 DEF SettledInit, DomainSound, Shutoff, Bindable,
       DomainPresent, DomainShutoff, DomainRunning
<1>6. OwnedVolumesExist
    BY <1>2 DEF OwnedVolumesExist, WithStatus
<1>7. FailedLeavesNothing
    <2>1. \A g \in Gen : OverlayOf(g) \in VolumesOf(g)
        BY DEF VolumesOf, OverlayOf, Disposable, Role
    <2> QED
        BY <1>2, <2>1 DEF FailedLeavesNothing, WithStatus
<1>8. \A v \in volume : v[2] \in Disposable(v[1])
    BY DEF SettledInit, VolumesOf
<1>9. RecordsTrue
    BY <1>1, <1>2, <1>6, <1>7, <1>8 DEF RecordsTrue, NoDelete
<1>10. \A p \in Proc : pc[p] = "idle"
    BY DEF SettledInit
<1> QED
    BY <1>3, <1>5, <1>9, <1>10 DEF LifecycleInv, HostSettles

-----------------------------------------------------------------------------
(* Theorems *)

\* The files, libvirt and the memory of the processes stay well formed,
\* whatever commands run and overlap.
THEOREM LifecycleTypeCorrect == LifecycleSpec => []LifecycleTypeOK
<1>1. SettledInit => LifecycleTypeOK
    <2>1. SettledInit => HostTypeOK(AllLabels)
        BY SettledInitTypes
    <2>2. "idle" \notin WorkLabels
        BY DEF WorkLabels, FreshLabels, RestoreLabels, CleanupLabels
    <2>3. SettledInit => \A p \in Proc : pc[p] = "idle"
        BY DEF SettledInit
    <2> QED
        BY <2>1, <2>2, <2>3 DEF LifecycleTypeOK
<1>2. LifecycleTypeOK /\ [LifecycleNext]_hostVars => LifecycleTypeOK'
    BY LifecycleStepTypes
<1> QED
    BY <1>1, <1>2, PTL DEF LifecycleSpec

\* A user who runs one command at a time: every command, interrupted
\* anywhere, leaves a host on which each of the others keeps its promises.
THEOREM LifecycleInvariant ==
    ASSUME Sequential
    PROVE  LifecycleSpec => [](LifecycleTypeOK /\ LifecycleInv)
<1>1. SettledInit => LifecycleInv
    BY LifecycleInvHoldsInitially
<1>2. LifecycleTypeOK /\ LifecycleInv /\ [LifecycleNext]_hostVars => LifecycleInv'
    BY LifecycleInvIsInductive
<1> QED
    BY <1>1, <1>2, LifecycleTypeCorrect, PTL DEF LifecycleSpec

\* Deletion, Fresh and cleanup keep their boundaries apart, however the
\* earlier commands were interrupted.
THEOREM BoundariesStayApart ==
    ASSUME Sequential
    PROVE  LifecycleSpec => []OneBoundaryAtATime
<1>1. LifecycleTypeOK /\ LifecycleInv => OneBoundaryAtATime
    <2> SUFFICES ASSUME LifecycleTypeOK, LifecycleInv
                 PROVE  OneBoundaryAtATime
        OBVIOUS
    <2>1. BoundariesApart /\ WithStatus(index, "Active") = {index.active}
        BY DEF LifecycleInv, HostSettles, BoundariesApart, ValidIndex
    <2>2. index.delete.phase # "None" =>
              Listed(index) \ {index.active} = WithStatus(index, "Cleaned")
        BY <2>1 DEF BoundariesApart, Listed, WithStatus
    <2> QED
        BY <2>1, <2>2 DEF OneBoundaryAtATime, BoundariesApart, WithStatus
<1> QED
    BY <1>1, LifecycleInvariant, PTL

\* No sequence of commands and crashes takes the domain away, or binds it to
\* a generation the index does not declare, before a deletion is on record.
THEOREM InstanceStaysBound ==
    ASSUME Sequential
    PROVE  LifecycleSpec => []BoundUntilDeleted
<1>1. LifecycleTypeOK /\ LifecycleInv => BoundUntilDeleted
    BY DEF LifecycleInv, HostSettles, DomainSound, Bindable, BoundUntilDeleted
<1> QED
    BY <1>1, LifecycleInvariant, PTL

\* complete_instance_delete writes the tombstone only when neither a domain
\* nor a volume of any listed generation is left.
THEOREM TombstoneIsTheWholeTruth ==
    ASSUME Sequential
    PROVE  LifecycleSpec => []TombstoneLeavesOnlyOrphans
<1>1. LifecycleTypeOK /\ LifecycleInv => TombstoneLeavesOnlyOrphans
    <2> SUFFICES ASSUME LifecycleTypeOK, LifecycleInv,
                        index.delete.phase = "Deleted"
                 PROVE  ~DomainPresent /\ \A v \in volume : v[1] \notin Listed(index)
        BY DEF TombstoneLeavesOnlyOrphans
    <2>1. BoundariesApart /\ RecordsTrue
        BY DEF LifecycleInv, HostSettles
    <2>2. /\ ~DomainPresent
          /\ \A r \in Disposable(index.active) : <<index.active, r>> \notin volume
        BY <2>1 DEF RecordsTrue
    <2>3. ASSUME NEW v \in volume PROVE v[1] \notin Listed(index)
        <3>1. /\ v[1] \in Gen /\ v[2] \in Disposable(v[1]) /\ v = <<v[1], v[2]>>
            BY <2>1, <2>3 DEF LifecycleTypeOK, HostTypeOK, RecordsTrue
        <3>2. v[1] # index.active
            BY <2>2, <2>3, <3>1
        <3>3. index.status[v[1]] # "Active"
            BY <2>1, <3>1, <3>2 DEF BoundariesApart, ValidIndex, WithStatus
        <3>4. index.status[v[1]] # "Cleaned"
            BY <2>1, <2>3, <3>1 DEF RecordsTrue, VolumesOf
        <3> QED
            BY <2>1, <3>1, <3>3, <3>4 DEF BoundariesApart, Listed
    <2> QED
        BY <2>2, <2>3
<1> QED
    BY <1>1, LifecycleInvariant, PTL

\* Across all commands the volumes of the Active and of the Retained
\* generations stay until a cleanup or a deletion of them is on record.
THEOREM InstanceKeepsOwnedVolumes ==
    ASSUME Sequential
    PROVE  LifecycleSpec => []OwnedVolumesExist
<1>1. LifecycleTypeOK /\ LifecycleInv => OwnedVolumesExist
    BY DEF LifecycleInv, HostSettles, RecordsTrue
<1> QED
    BY <1>1, LifecycleInvariant, PTL

\* Across all commands the domain keeps every disk it names or has open.
THEOREM InstanceStaysBootable ==
    ASSUME Sequential
    PROVE  LifecycleSpec => []NoDomainOnMissingVolumes
<1>1. LifecycleTypeOK /\ LifecycleInv => NoDomainOnMissingVolumes
    BY DEF LifecycleTypeOK, HostTypeOK, Domain, LifecycleInv, HostSettles,
       DomainSound, NoDomainOnMissingVolumes, BoundDisk, DomainPresent,
       DomainShutoff, DomainRunning
<1> QED
    BY <1>1, LifecycleInvariant, PTL

-----------------------------------------------------------------------------
(* What a step may never do *)

\* The steps that take a volume away.
LEMMA WhoTakesVolumes ==
    ASSUME [LifecycleNext]_hostVars, ~(volume \subseteq volume')
    PROVE  \E p \in Proc : \/ DeleteVolume(p) \/ FreshRollback(p)
                           \/ RestoreDeleteOverlay(p)
                           \/ CleanupSeed(p) \/ CleanupOverlay(p)
<1> USE DEF durable, host
<1>1. ASSUME NEW p \in Proc, DeleteCommand(p)
      PROVE  DeleteVolume(p)
    BY <1>1 DEF DeleteCommand, DeleteStep, DeletePlan, DeleteResume,
       DeleteConfirm, DeleteIntentCompare, DeleteIntentWrite, DeleteObserve,
       DeleteForceStop, DeleteReobserve, DeleteAuthorize, DeleteUndefine,
       DeleteVerifyUndefined, DeleteDomainCompare, DeleteDomainWrite,
       DeleteVolumeCompare, DeleteVolumeWrite, DeleteFinishCompare,
       DeleteFinishWrite, CompareIndex, WriteIndex, WriteIndexAndStop
<1>2. ASSUME NEW p \in Proc, FreshCommand(p)
      PROVE  FreshRollback(p)
    BY <1>2 DEF FreshCommand, FreshPlan, FreshRevalidate, FreshCreateOverlay,
       FreshInspectOverlay, FreshWriteManifest, FreshPublish, FreshProveOld,
       FreshDefine, FreshVerify, FreshActivateCompare, FreshActivateWrite,
       CompareIndex, WriteIndex, WriteIndexAndStop
<1>3. ASSUME NEW p \in Proc, RestoreCommand(p)
      PROVE  RestoreDeleteOverlay(p)
    BY <1>3 DEF RestoreCommand, RestorePlan, RestoreRevalidate, RestoreDefine,
       RestoreVerify, RestorePublishCompare, RestorePublishWrite,
       CompareIndex, WriteIndex, WriteIndexAndStop
<1>4. ASSUME NEW p \in Proc, CleanupCommand(p)
      PROVE  CleanupSeed(p) \/ CleanupOverlay(p)
    BY <1>4 DEF CleanupCommand, CleanupPlan, CleanupConfirm,
       CleanupRevalidate, CleanupBeginCompare, CleanupBeginWrite,
       CleanupSeedCompare, CleanupSeedWrite, CleanupIncompleteCompare,
       CleanupIncompleteWrite, CleanupFinishCompare, CleanupFinishWrite,
       CompareIndex, WriteIndex, WriteIndexAndStop
<1>5. ASSUME NEW p \in Proc, PowerCommand(p) \/ Crash(p)
      PROVE  FALSE
    BY <1>5 DEF PowerCommand, PowerPlan, PowerConfirm, PowerStart,
       PowerShutdown, PowerForceStop, PowerWait, Crash
<1>6. ~PowerOn /\ ~PowerOff /\ ~UNCHANGED hostVars
    BY DEF PowerOn, PowerOff, hostVars
<1> QED
    BY <1>1, <1>2, <1>3, <1>4, <1>5, <1>6 DEF LifecycleNext

\* Guest data goes only for a reason on record, whichever of the three
\* deleting commands takes it and whatever was interrupted before.
THEOREM GuestDataGoesForAReason ==
    ASSUME Sequential
    PROVE  LifecycleSpec => DestructionHasReason
<1> DEFINE Reasoned ==
        \A v \in volume \ volume' :
            \/ index.delete.phase = "Deleting" /\ v[1] = index.active
            \/ index.progress[v[1]] # "None"
            \/ index.status[v[1]] \in {"Unlisted", "Preparing"}
<1>1. ASSUME LifecycleTypeOK, LifecycleInv, [LifecycleNext]_hostVars
      PROVE  [Reasoned]_volume
    <2> SUFFICES ASSUME ~(volume \subseteq volume') PROVE Reasoned
        OBVIOUS
    <2>1. PICK p \in Proc : \/ DeleteVolume(p) \/ FreshRollback(p)
                            \/ RestoreDeleteOverlay(p)
                            \/ CleanupSeed(p) \/ CleanupOverlay(p)
        BY <1>1, WhoTakesVolumes
    <2>2. pc[p] # "idle"
        BY <2>1 DEF DeleteVolume, FreshRollback, RestoreDeleteOverlay,
           CleanupSeed, CleanupOverlay
    <2>3. CommandKnows(pc[p], view[p], target[p])
        BY <1>1, <2>2, WorkerKnows
    <2>4. CASE DeleteVolume(p)
        <3>1. /\ pc[p] = "delete_volume" /\ pc[p] \in DeleteLabels
              /\ volume \ volume' \subseteq
                     {<<view[p].delete.plan, NextRole(view[p])>>}
            BY <2>4 DEF DeleteVolume, DeleteLabels
        <3>2. view[p] = index /\ index.delete.phase = "Deleting"
            BY <2>3, <3>1, KnowsByCommand DEF DeleteKnows, BeforeIntent
        <3>3. index.delete.plan = index.active
            BY <1>1, <3>2 DEF LifecycleInv, HostSettles, BoundariesApart,
               ValidIndex, ValidDeletePlan
        <3> QED
            BY <3>1, <3>2, <3>3
    <2>5. CASE FreshRollback(p) \/ RestoreDeleteOverlay(p)
        <3>1. /\ pc[p] \in {"fresh_rollback", "restore_delete_overlay"}
              /\ volume \ volume' \subseteq {<<target[p], "WritableOverlay">>}
            BY <2>5 DEF FreshRollback, RestoreDeleteOverlay, OverlayOf
        <3>2. pc[p] \in FreshLabels \cup RestoreLabels
              /\ (pc[p] # "fresh_rollback" => pc[p] \in RestoreLabels)
            BY <3>1 DEF FreshLabels, RestoreLabels
        <3>3. ReplacementKnows(pc[p], target[p])
            BY <2>3, <3>2, KnowsByCommand
        <3>4. index.status[target[p]] \in {"Unlisted", "Preparing"}
            BY <3>2, <3>3 DEF ReplacementKnows, WithStatus
        <3> QED
            BY <3>1, <3>4
    <2>6. CASE CleanupSeed(p) \/ CleanupOverlay(p)
        <3>1. /\ pc[p] \in {"cleanup_seed", "cleanup_overlay"}
              /\ volume \ volume' \subseteq
                     {<<target[p], "WritableOverlay">>, <<target[p], "NoCloudSeed">>}
            BY <2>6 DEF CleanupSeed, CleanupOverlay, OverlayOf
        <3>2. pc[p] \in CleanupLabels
            BY <3>1 DEF CleanupLabels
        <3>3. CleanupKnows(pc[p], target[p])
            BY <2>3, <3>2, KnowsByCommand
        <3>4. index.progress[target[p]] # "None"
            BY <3>1, <3>3 DEF CleanupKnows, LastPhase, SeedGone, AtFinish
        <3> QED
            BY <3>1, <3>4
    <2> QED
        BY <2>1, <2>4, <2>5, <2>6
<1> QED
    BY <1>1, LifecycleInvariant, PTL DEF LifecycleSpec, DestructionHasReason

\* Only the call of libvirt takes a process from "starting" to the wait.
LEMMA WhoStartsTheGuest ==
    ASSUME LifecycleTypeOK, [LifecycleNext]_hostVars, NEW p \in Proc,
           pc[p] = "starting", pc'[p] = "power_wait"
    PROVE  PowerStart(p)
<1> USE DEF durable, host, Stop, Goto, Start, Branch, CompareIndex, WriteIndex,
            WriteIndexAndStop
<1>0. pc \in [Proc -> AllLabels \cup {"idle"}]
    BY DEF LifecycleTypeOK, HostTypeOK, LocalTypeOK
<1>1. ASSUME NEW q \in Proc, NEW label, label # "power_wait"
      PROVE  pc' # [pc EXCEPT ![q] = label]
    BY <1>0, <1>1
<1>2. ASSUME NEW q \in Proc, DeleteCommand(q)
      PROVE  FALSE
    <2>1. \E label : label # "power_wait" /\ pc' = [pc EXCEPT ![q] = label]
        BY <1>2 DEF DeleteCommand, DeleteStep, DeletePlan, DeleteResume,
           DeleteConfirm, DeleteIntentCompare, DeleteIntentWrite,
           DeleteObserve, DeleteForceStop, DeleteReobserve, DeleteAuthorize,
           DeleteUndefine, DeleteVerifyUndefined, DeleteDomainCompare,
           DeleteDomainWrite, DeleteVolume, DeleteVolumeCompare,
           DeleteVolumeWrite, DeleteFinishCompare, DeleteFinishWrite,
           AfterDomain
    <2> QED
        BY <1>1, <2>1
<1>3. ASSUME NEW q \in Proc, FreshCommand(q) \/ RestoreCommand(q)
      PROVE  FALSE
    <2>1. \E label : label # "power_wait" /\ pc' = [pc EXCEPT ![q] = label]
        BY <1>3 DEF FreshCommand, FreshPlan, FreshRevalidate,
           FreshCreateOverlay, FreshInspectOverlay, FreshWriteManifest,
           FreshPublish, FreshRollback, FreshProveOld, FreshDefine,
           FreshVerify, FreshActivateCompare, FreshActivateWrite,
           RestoreCommand, RestorePlan, RestoreRevalidate, RestoreDefine,
           RestoreVerify, RestoreDeleteOverlay, RestorePublishCompare,
           RestorePublishWrite
    <2> QED
        BY <1>1, <2>1
<1>4. ASSUME NEW q \in Proc, CleanupCommand(q)
      PROVE  FALSE
    <2>1. \E label : label # "power_wait" /\ pc' = [pc EXCEPT ![q] = label]
        BY <1>4 DEF CleanupCommand, CleanupPlan, CleanupConfirm,
           CleanupRevalidate, CleanupBeginCompare, CleanupBeginWrite,
           CleanupSeed, CleanupSeedCompare, CleanupSeedWrite, CleanupOverlay,
           CleanupOverlayFailed, CleanupIncompleteCompare,
           CleanupIncompleteWrite, CleanupFinishCompare, CleanupFinishWrite
    <2> QED
        BY <1>1, <2>1
<1>5. ASSUME NEW q \in Proc, PowerCommand(q)
      PROVE  PowerStart(p)
    <2>1. \/ \E label : label # "power_wait" /\ pc' = [pc EXCEPT ![q] = label]
          \/ /\ pc[q] \in {"shutting_down", "force_stopping"}
             /\ pc' = [pc EXCEPT ![q] = "power_wait"]
          \/ PowerStart(q) /\ pc' = [pc EXCEPT ![q] = "power_wait"]
        BY <1>5 DEF PowerCommand, PowerPlan, PowerConfirm, PowerStart,
           PowerShutdown, PowerForceStop, PowerWait, LifecycleAction, CallOf
    <2> QED
        BY <1>0, <1>1, <2>1
<1>6. ~PowerOn /\ ~PowerOff /\ ~UNCHANGED hostVars
    BY DEF PowerOn, PowerOff, hostVars, local
<1>7. ASSUME NEW q \in Proc PROVE ~Crash(q)
    BY <1>1 DEF Crash
<1> QED
    BY <1>2, <1>3, <1>4, <1>5, <1>6, <1>7 DEF LifecycleNext

\* "forge vm start" boots nothing while a boundary is on record, and only
\* the disk of the Active generation.
THEOREM GuestStartsSettled ==
    ASSUME Sequential
    PROVE  LifecycleSpec => StartsAreSettled
<1> DEFINE Settled ==
        \A p \in Proc :
            pc[p] = "starting" /\ pc'[p] = "power_wait" =>
                /\ index.delete.phase = "None"
                /\ WithStatus(index, "Preparing") = {}
                /\ domain'.live = index.active
<1>1. ASSUME LifecycleTypeOK, LifecycleInv, [LifecycleNext]_hostVars
      PROVE  Settled
    <2> SUFFICES ASSUME NEW p \in Proc, pc[p] = "starting", pc'[p] = "power_wait"
                 PROVE  /\ index.delete.phase = "None"
                        /\ WithStatus(index, "Preparing") = {}
                        /\ domain'.live = index.active
        OBVIOUS
    <2>1. PowerStart(p) /\ domain \in Domain
        BY <1>1, WhoStartsTheGuest DEF LifecycleTypeOK, HostTypeOK
    <2>2. /\ index.delete.phase = "None" /\ WithStatus(index, "Preparing") = {}
        BY <1>1, WorkerKnows DEF CommandKnows
    <2>3. ~Stop(p)
        BY <1>1, WorkerKnows, StepsAreLocal
    <2>4. DomainShutoff /\ domain'.live = domain.disk
        BY <2>1, <2>3 DEF PowerStart, Domain
    <2>5. domain.disk = index.active
        BY <1>1, <2>2, <2>4 DEF LifecycleInv, HostSettles, DomainSound,
           Bindable, DomainPresent, DomainShutoff
    <2> QED
        BY <2>2, <2>4, <2>5
<1>2. LifecycleTypeOK /\ LifecycleInv /\ [LifecycleNext]_hostVars
          => [Settled]_<<pc, domain>>
    BY <1>1
<1> QED
    BY <1>2, LifecycleInvariant, PTL DEF LifecycleSpec, StartsAreSettled
=============================================================================
