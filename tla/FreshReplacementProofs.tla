----------------------- MODULE FreshReplacementProofs -----------------------
(***************************************************************************)
(* Theorems about "forge vm fresh" and restore-old (FreshReplacement), for *)
(* any set of generations and any number of faults.  Types and the order   *)
(* of manifest and index hold however many commands overlap; the binding   *)
(* of domain, index and volumes is what the code promises to one command   *)
(* at a time, and its theorems assume it.                                  *)
(***************************************************************************)
EXTENDS FreshReplacement, ManagedHostProofs, TLAPS

Labels == FreshLabels \cup RestoreLabels

-----------------------------------------------------------------------------
(* Type correctness *)

\* The steps that leave the index alone keep everything typed.
LEMMA FreshQuietTypes ==
    ASSUME FreshTypeOK, NEW p \in Proc,
           \/ \E g \in Gen : FreshPlan(p, g) \/ RestorePlan(p, g)
           \/ FreshRevalidate(p) \/ FreshCreateOverlay(p)
           \/ FreshInspectOverlay(p) \/ FreshWriteManifest(p)
           \/ FreshRollback(p)
           \/ FreshProveOld(p) \/ FreshDefine(p)
           \/ FreshVerify(p) \/ FreshActivateCompare(p)
           \/ RestoreRevalidate(p) \/ RestoreDefine(p)
           \/ RestoreVerify(p) \/ RestoreDeleteOverlay(p)
           \/ RestorePublishCompare(p)
    PROVE  FreshTypeOK'
<1>1. WorkTypeOK(Labels)
    BY DEF FreshTypeOK, WorkTypeOK, Labels
<1> DEFINE Moves == \/ Stop(p)
                    \/ \E label \in Labels : pc[p] # "idle" /\ Goto(p, label)
                    \/ \E label \in Labels, g \in Gen : Start(p, label, g, FALSE)
<1>2. ASSUME UNCHANGED index, manifest' \subseteq Gen, domain' \in Domain,
             volume' \subseteq Gen \X Role,
             \/ UNCHANGED faults
             \/ \E kind : Strike(kind),
             Moves
      PROVE  FreshTypeOK'
    <2>1. faults' \in 0..MaxFaults
        BY <1>1, <1>2, StrikeTypes DEF WorkTypeOK, HostTypeOK
    <2> QED
        BY <1>1, <1>2, <2>1, MoveTypes
        DEF FreshTypeOK, WorkTypeOK, HostTypeOK, Labels
<1>3. /\ manifest \subseteq Gen /\ domain \in Domain
      /\ volume \subseteq Gen \X Role
      /\ \A q \in Proc : pc[q] # "idle" => target[q] \in Gen /\ view[q].active \in Gen
      /\ \A g \in Gen : OverlayOf(g) \in Gen \X Role
    BY DEF FreshTypeOK, HostTypeOK, LocalTypeOK, Index, OverlayOf, Role
<1>4. \A g \in Gen : Redefined(g) \in Domain
    BY <1>3, NoGenAssumption DEF Redefined, Domain, Shutoff
<1> USE DEF Labels, FreshLabels, RestoreLabels, durable, host
<1>5. CASE \E g \in Gen : FreshPlan(p, g) \/ RestorePlan(p, g)
    BY <1>2, <1>3, <1>5 DEF FreshPlan, RestorePlan
<1>6. CASE FreshRevalidate(p) \/ FreshProveOld(p) \/ FreshVerify(p)
           \/ RestoreRevalidate(p) \/ RestoreVerify(p)
    BY <1>2, <1>3, <1>6 DEF FreshRevalidate, FreshProveOld, FreshVerify,
       RestoreRevalidate, RestoreVerify, Branch
<1>7. CASE FreshActivateCompare(p) \/ RestorePublishCompare(p)
    BY <1>2, <1>3, <1>7 DEF FreshActivateCompare, RestorePublishCompare,
       CompareIndex, Branch
<1>8. CASE FreshCreateOverlay(p)
    BY <1>2, <1>3, <1>8 DEF FreshCreateOverlay
<1>9. CASE FreshInspectOverlay(p)
    BY <1>2, <1>3, <1>9 DEF FreshInspectOverlay
<1>10. CASE FreshWriteManifest(p)
    BY <1>2, <1>3, <1>10 DEF FreshWriteManifest
<1>11. CASE FreshRollback(p)
    BY <1>2, <1>3, <1>11 DEF FreshRollback
<1>12. CASE RestoreDeleteOverlay(p)
    BY <1>2, <1>3, <1>12 DEF RestoreDeleteOverlay, Branch
<1>13. CASE FreshDefine(p) \/ RestoreDefine(p)
    BY <1>2, <1>3, <1>4, <1>13 DEF FreshDefine, RestoreDefine, Branch
<1> QED
    BY <1>5, <1>6, <1>7, <1>8, <1>9, <1>10, <1>11, <1>12, <1>13

\* The writes of the index keep everything typed.
LEMMA FreshWriteTypes ==
    ASSUME FreshTypeOK, NEW p \in Proc,
           FreshPublish(p) \/ FreshActivateWrite(p) \/ RestorePublishWrite(p)
    PROVE  FreshTypeOK'
<1> DEFINE v == view[p]
           g == target[p]
<1>1. /\ pc[p] # "idle" /\ v \in Index /\ g \in Gen
      /\ WorkTypeOK(Labels)
    BY DEF FreshTypeOK, WorkTypeOK, HostTypeOK, LocalTypeOK, Labels,
       FreshPublish, FreshActivateWrite, RestorePublishWrite
<1>2. /\ AddPreparing(v, g) \in Index
      /\ FinalizeSwitch(v, g) \in Index
      /\ MarkFailed(v, g) \in Index
    BY <1>1, TransitionTypes DEF Role, CleanupPhase
<1>3. "fresh_prove_old" \in Labels /\ "fresh_rollback" \in Labels
    BY DEF Labels, FreshLabels
<1>4. ASSUME NEW next \in Index,
             WriteIndex(p, next, "fresh_prove_old") \/ WriteIndexAndStop(p, next)
      PROVE  FreshTypeOK'
    BY <1>1, <1>3, <1>4, WorkWriteTypes DEF FreshTypeOK, WorkTypeOK, Labels
<1>5. ASSUME NEW kind, Goto(p, "fresh_rollback"), Strike(kind), index' \in Index,
             UNCHANGED <<manifest, host>>
      PROVE  FreshTypeOK'
    <2>1. faults' \in 0..MaxFaults
        BY <1>1, <1>5, StrikeTypes DEF WorkTypeOK, HostTypeOK
    <2> QED
        BY <1>1, <1>3, <1>5, <2>1, MoveTypes
        DEF FreshTypeOK, WorkTypeOK, HostTypeOK, Labels, host
<1>6. CASE FreshPublish(p)
    <2>1. index \in Index
        BY DEF FreshTypeOK, HostTypeOK
    <2> QED
        BY <1>2, <1>4, <1>5, <1>6, <2>1 DEF FreshPublish, durable
<1>7. CASE FreshActivateWrite(p)
    BY <1>2, <1>4, <1>7 DEF FreshActivateWrite
<1>8. CASE RestorePublishWrite(p)
    BY <1>2, <1>4, <1>8 DEF RestorePublishWrite
<1> QED
    BY <1>6, <1>7, <1>8

\* Every step keeps the types.
LEMMA FreshStepTypes ==
    ASSUME FreshTypeOK, [FreshNext]_hostVars
    PROVE  FreshTypeOK'
<1>1. ASSUME NEW p \in Proc, FreshCommand(p) \/ RestoreCommand(p)
      PROVE  FreshTypeOK'
    BY <1>1, FreshQuietTypes, FreshWriteTypes DEF FreshCommand, RestoreCommand
<1>2. ASSUME \/ \E p \in Proc : Crash(p)
             \/ PowerOn
             \/ PowerOff
             \/ UNCHANGED hostVars
      PROVE  FreshTypeOK'
    BY <1>2, WorkSharedTypes DEF FreshTypeOK, WorkTypeOK
<1> QED
    BY <1>1, <1>2 DEF FreshNext

\* Every reachable state of any number of Fresh and restore-old commands,
\* overlapping or not, is typed.
THEOREM FreshTypeCorrect == FreshSpec => []FreshTypeOK
<1>1. FreshInit => FreshTypeOK
    BY WorkInitTypes DEF FreshInit, FreshTypeOK, WorkTypeOK
<1>2. FreshTypeOK /\ [FreshNext]_hostVars => FreshTypeOK'
    BY FreshStepTypes
<1> QED
    BY <1>1, <1>2, PTL DEF FreshSpec

-----------------------------------------------------------------------------
(* The inductive invariants *)

BeforeManifest == {"fresh_revalidate", "fresh_create_overlay",
                   "fresh_inspect_overlay", "fresh_write_manifest"}
BeforeBoundary == BeforeManifest \cup {"fresh_publish"}
AtSwitch == {"fresh_activate_compare", "fresh_activate_write"}
AfterBoundary == {"fresh_prove_old", "fresh_define", "fresh_verify"} \cup AtSwitch
AtFailed == {"restore_publish_compare", "restore_publish_write"}
AfterRestore == {"restore_delete_overlay"} \cup AtFailed

\* The index lists its Active generation and only generations with manifests.
HasManifests(i) == i.active \in Listed(i) /\ Listed(i) \subseteq manifest

\* With any overlap: no index, on disk or held, lists a generation without a
\* manifest, and a process that may list its target has written it.
ManifestsInv ==
    /\ HasManifests(index)
    /\ \A p \in Proc : pc[p] # "idle" =>
           /\ HasManifests(view[p])
           /\ pc[p] \notin BeforeManifest \cup {"fresh_rollback"}
                  => target[p] \in manifest

\* What a lone process with index i and target g knows at the step it is at.
FreshKnows(at, i, g) ==
    /\ at \in BeforeBoundary => /\ i = index
                                /\ index.status[g] = "Unlisted"
                                /\ WithStatus(index, "Preparing") = {}
    /\ at = "fresh_rollback" => index.status[g] \in {"Unlisted", "Preparing"}
    /\ at \in AfterBoundary \cup RestoreLabels
           => i = index /\ WithStatus(index, "Preparing") = {g}
    /\ at \in FreshLabels => g \notin Seeded
    /\ at \in AtSwitch => domain.disk = g /\ OverlayOf(g) \in volume
    /\ at \in AfterRestore => domain.disk = index.active
    /\ at \in AtFailed => OverlayOf(g) \notin volume

\* What holds of the files and of libvirt between any two steps.
FreshHost ==
    /\ ValidIndex(index)
    /\ index.delete.phase = "None"
    /\ \A g \in Gen : index.progress[g] = "None"
    /\ domain.persistent
    /\ domain.state \in {"shutoff", "running"}
    /\ SettledBinding
    /\ BoundaryBinding
    /\ OwnedVolumesExist
    /\ FailedLeavesNothing

FreshInv ==
    /\ FreshHost
    /\ \A p, q \in Proc : pc[p] # "idle" /\ pc[q] # "idle" => p = q
    /\ \A p \in Proc : pc[p] # "idle" => FreshKnows(pc[p], view[p], target[p])

-----------------------------------------------------------------------------
(* What keeps the invariant of a lone command *)

\* A lone process that moves keeps the invariant when files and libvirt are
\* sound after its step and it knows what its next step needs.
LEMMA FreshMoveKeepsInv ==
    ASSUME FreshTypeOK, FreshInv, NEW p \in Proc,
           \A q \in Proc \ {p} : pc[q] = "idle",
           OnlyMoves(p), FreshHost',
           pc'[p] = "idle" \/ FreshKnows(pc[p], view[p], target[p])'
    PROVE  FreshInv'
    BY DEF FreshInv, OnlyMoves

\* The same for a step that leaves the index and libvirt alone.
LEMMA FreshQuietKeepsInv ==
    ASSUME FreshTypeOK, FreshInv, NEW p \in Proc,
           \A q \in Proc \ {p} : pc[q] = "idle",
           UNCHANGED <<index, domain, volume>>,
           \/ Stop(p)
           \/ \E label : Goto(p, label) /\ FreshKnows(label, view[p], target[p])
    PROVE  FreshInv'
<1>1. FreshHost'
    BY DEF FreshInv, FreshHost, SettledBinding, BoundaryBinding,
       OwnedVolumesExist, FailedLeavesNothing
<1>2. LocalTypeOK(Labels)
    BY DEF FreshTypeOK, HostTypeOK, Labels
<1>3. CASE Stop(p)
    BY <1>1, <1>2, <1>3, StepsAreLocal, FreshMoveKeepsInv
<1>4. ASSUME NEW label, Goto(p, label), FreshKnows(label, view[p], target[p])
      PROVE  FreshInv'
    <2>1. /\ OnlyMoves(p) /\ pc'[p] = label
          /\ view'[p] = view[p] /\ target'[p] = target[p]
        BY <1>2, <1>4, StepsAreLocal
    <2>2. FreshKnows(pc[p], view[p], target[p])'
        BY <1>4, <2>1 DEF FreshKnows
    <2> QED
        BY <1>1, <2>1, <2>2, FreshMoveKeepsInv
<1> QED
    BY <1>3, <1>4

\* A process that works is alone and knows what its step needs.
LEMMA FreshWorkerKnows ==
    ASSUME FreshTypeOK, FreshInv, NEW p \in Proc, pc[p] # "idle"
    PROVE  /\ \A q \in Proc \ {p} : pc[q] = "idle"
           /\ FreshKnows(pc[p], view[p], target[p])
           /\ target[p] \in Gen
           /\ view[p] \in Index
           /\ index \in Index
    BY DEF FreshInv, FreshTypeOK, HostTypeOK, LocalTypeOK

-----------------------------------------------------------------------------
(* The steps keep the invariant *)

\* Planning, alone by assumption.
LEMMA FreshPlanKeepsInv ==
    ASSUME FreshTypeOK, FreshInv, Sequential, NEW p \in Proc, NEW g \in Gen,
           FreshPlan(p, g) \/ RestorePlan(p, g)
    PROVE  FreshInv'
<1> USE DEF durable, host
<1>1. /\ \A q \in Proc \ {p} : pc[q] = "idle"
      /\ UNCHANGED <<index, domain, volume>>
    BY DEF FreshPlan, RestorePlan, MayStart
<1>2. FreshHost'
    BY <1>1 DEF FreshInv, FreshHost, SettledBinding, BoundaryBinding,
       OwnedVolumesExist, FailedLeavesNothing
<1>3. \A label : Start(p, label, g, FALSE) =>
          /\ OnlyMoves(p) /\ pc'[p] = label
          /\ view'[p] = index /\ target'[p] = g
    BY StepsAreLocal DEF FreshTypeOK, HostTypeOK
<1> USE DEF FreshKnows, BeforeManifest, BeforeBoundary, AfterBoundary, AtSwitch,
            AtFailed, AfterRestore, FreshLabels, RestoreLabels
<1>4. CASE FreshPlan(p, g)
    <2>1. /\ OnlyMoves(p) /\ pc'[p] = "fresh_revalidate"
          /\ view'[p] = index /\ target'[p] = g
        BY <1>3, <1>4 DEF FreshPlan
    <2>2. g \notin Listed(index) /\ g \notin Seeded
          /\ WithStatus(index, "Preparing") = {}
        BY <1>4 DEF FreshPlan, UnusedGeneration, Replaceable, NormalLifecycle
    <2>3. FreshKnows(pc[p], view[p], target[p])'
        BY <1>1, <2>1, <2>2 DEF Listed
    <2> QED
        BY <1>1, <1>2, <2>1, <2>3, FreshMoveKeepsInv
<1>5. CASE RestorePlan(p, g)
    <2>1. /\ OnlyMoves(p) /\ pc'[p] = "restore_revalidate"
          /\ view'[p] = index /\ target'[p] = g
        BY <1>3, <1>5 DEF RestorePlan
    <2>2. WithStatus(index, "Preparing") = {g}
        BY <1>5 DEF RestorePlan, Restorable
    <2>3. FreshKnows(pc[p], view[p], target[p])'
        BY <1>1, <2>1, <2>2
    <2> QED
        BY <1>1, <1>2, <2>1, <2>3, FreshMoveKeepsInv
<1> QED
    BY <1>4, <1>5

\* The steps that only look, or write the manifest.
LEMMA FreshQuietStepsKeepInv ==
    ASSUME FreshTypeOK, FreshInv, NEW p \in Proc,
           \/ FreshRevalidate(p) \/ FreshInspectOverlay(p)
           \/ FreshWriteManifest(p)
           \/ FreshProveOld(p) \/ FreshVerify(p) \/ FreshActivateCompare(p)
           \/ RestoreRevalidate(p) \/ RestoreVerify(p)
           \/ RestorePublishCompare(p)
           \/ Crash(p)
    PROVE  FreshInv'
<1> USE DEF durable, host
<1> DEFINE Quiet == \/ Stop(p)
                    \/ \E label : Goto(p, label)
                                  /\ FreshKnows(label, view[p], target[p])
<1>1. ASSUME pc[p] # "idle", UNCHANGED <<index, domain, volume>>, Quiet
      PROVE  FreshInv'
    BY <1>1, FreshWorkerKnows, FreshQuietKeepsInv
<1>2. pc[p] # "idle" => FreshKnows(pc[p], view[p], target[p])
    BY FreshWorkerKnows
<1>3. CASE FreshRevalidate(p) \/ RestoreRevalidate(p) \/ FreshProveOld(p)
    <2>1. Quiet
        BY <1>2, <1>3 DEF FreshRevalidate, RestoreRevalidate, FreshProveOld,
           Branch, FreshKnows, BeforeManifest, BeforeBoundary, AfterBoundary,
           AtSwitch, AtFailed, AfterRestore, FreshLabels, RestoreLabels
    <2> QED
        BY <1>1, <1>3, <2>1 DEF FreshRevalidate, RestoreRevalidate, FreshProveOld
<1>4. CASE FreshInspectOverlay(p) \/ FreshWriteManifest(p)
    <2>1. Quiet
        BY <1>2, <1>4 DEF FreshInspectOverlay, FreshWriteManifest,
           Branch, FreshKnows, BeforeManifest, BeforeBoundary, AfterBoundary,
           AtSwitch, AtFailed, AfterRestore, FreshLabels, RestoreLabels
    <2> QED
        BY <1>1, <1>4, <2>1 DEF FreshInspectOverlay, FreshWriteManifest
<1>5. CASE FreshVerify(p) \/ RestoreVerify(p)
    <2>1. Quiet
        BY <1>2, <1>5 DEF FreshVerify, RestoreVerify, DomainProven,
           Branch, FreshKnows, BeforeManifest, BeforeBoundary, AfterBoundary,
           AtSwitch, AtFailed, AfterRestore, FreshLabels, RestoreLabels
    <2> QED
        BY <1>1, <1>5, <2>1 DEF FreshVerify, RestoreVerify
<1>6. CASE FreshActivateCompare(p) \/ RestorePublishCompare(p)
    <2>1. Quiet
        BY <1>2, <1>6 DEF FreshActivateCompare, RestorePublishCompare, CompareIndex,
           Branch, FreshKnows, BeforeManifest, BeforeBoundary, AfterBoundary,
           AtSwitch, AtFailed, AfterRestore, FreshLabels, RestoreLabels
    <2> QED
        BY <1>1, <1>6, <2>1
        DEF FreshActivateCompare, RestorePublishCompare, CompareIndex
<1>7. CASE Crash(p)
    BY <1>1, <1>7 DEF Crash
<1> QED
    BY <1>3, <1>4, <1>5, <1>6, <1>7

\* The overlay of a generation that is neither Active nor Retained may come
\* and go; that of a Failed one may not come.
LEMMA OverlayStepKeepsHost ==
    ASSUME FreshTypeOK, FreshHost, NEW g \in Gen, UNCHANGED <<index, domain>>,
           \/ volume' = volume
           \/ /\ index.status[g] \in {"Unlisted", "Preparing"}
              /\ volume' \in {volume \cup {OverlayOf(g)}, volume \ {OverlayOf(g)}}
    PROVE  FreshHost'
<1>1. ASSUME NEW h \in Gen, index.status[h] \in {"Active", "Retained"}
      PROVE  VolumesOf(h) \subseteq volume'
    <2>1. VolumesOf(h) \subseteq volume
        BY <1>1 DEF FreshHost, OwnedVolumesExist, WithStatus
    <2> QED
        BY <1>1, <2>1 DEF VolumesOf, OverlayOf
<1>2. OwnedVolumesExist'
    BY <1>1 DEF OwnedVolumesExist, WithStatus
<1>3. ASSUME NEW h \in Gen, index.status[h] = "Failed"
      PROVE  OverlayOf(h) \notin volume'
    <2>1. OverlayOf(h) \notin volume
        BY <1>3 DEF FreshHost, FailedLeavesNothing, WithStatus
    <2>2. h # g => OverlayOf(h) # OverlayOf(g)
        BY DEF OverlayOf
    <2> QED
        BY <1>3, <2>1, <2>2
<1>4. FailedLeavesNothing'
    BY <1>3 DEF FailedLeavesNothing, WithStatus
<1> QED
    BY <1>2, <1>4 DEF FreshHost, SettledBinding, BoundaryBinding

\* Creating the overlay, rolling it back, and deleting it after the restore.
LEMMA FreshVolumeStepsKeepInv ==
    ASSUME FreshTypeOK, FreshInv, NEW p \in Proc,
           FreshCreateOverlay(p) \/ FreshRollback(p) \/ RestoreDeleteOverlay(p)
    PROVE  FreshInv'
<1> USE DEF durable
<1> DEFINE g == target[p]
<1>1. /\ \A q \in Proc \ {p} : pc[q] = "idle"
      /\ FreshKnows(pc[p], view[p], g)
      /\ g \in Gen /\ FreshHost /\ LocalTypeOK(Labels)
    BY FreshWorkerKnows DEF FreshCreateOverlay, FreshRollback,
       RestoreDeleteOverlay, FreshInv, FreshTypeOK, HostTypeOK, Labels
<1>2. CASE FreshCreateOverlay(p)
    <2>1. index.status[g] = "Unlisted" /\ pc[p] = "fresh_create_overlay"
        BY <1>1, <1>2 DEF FreshCreateOverlay, FreshKnows, BeforeManifest, BeforeBoundary, AfterBoundary,
               AtSwitch, AtFailed, AfterRestore, FreshLabels, RestoreLabels
    <2>2. FreshHost'
        BY <1>1, <1>2, <2>1, OverlayStepKeepsHost DEF FreshCreateOverlay
    <2>3. CASE Stop(p)
        BY <1>1, <2>2, <2>3, StepsAreLocal, FreshMoveKeepsInv
    <2>4. CASE Goto(p, "fresh_inspect_overlay")
        <3>1. /\ OnlyMoves(p) /\ pc'[p] = "fresh_inspect_overlay"
              /\ view'[p] = view[p] /\ target'[p] = g
            BY <1>1, <2>4, StepsAreLocal
        <3>2. FreshKnows(pc[p], view[p], target[p])'
            BY <1>1, <1>2, <2>1, <3>1 DEF FreshCreateOverlay, FreshKnows, BeforeManifest, BeforeBoundary, AfterBoundary,
               AtSwitch, AtFailed, AfterRestore, FreshLabels, RestoreLabels
        <3> QED
            BY <1>1, <2>2, <3>1, <3>2, FreshMoveKeepsInv
    <2> QED
        BY <1>2, <2>3, <2>4 DEF FreshCreateOverlay
<1>3. CASE FreshRollback(p)
    <2>1. index.status[g] \in {"Unlisted", "Preparing"}
        BY <1>1, <1>3 DEF FreshRollback, FreshKnows
    <2>2. FreshHost'
        BY <1>1, <1>3, <2>1, OverlayStepKeepsHost DEF FreshRollback
    <2> QED
        BY <1>1, <1>3, <2>2, StepsAreLocal, FreshMoveKeepsInv DEF FreshRollback
<1>4. CASE RestoreDeleteOverlay(p)
    <2>1. /\ pc[p] = "restore_delete_overlay"
          /\ UNCHANGED <<index, domain>>
          /\ volume' \in {volume, volume \ {OverlayOf(g)}}
          /\ \/ Stop(p)
             \/ /\ Goto(p, "restore_publish_compare")
                /\ volume' = volume \ {OverlayOf(g)}
        BY <1>4 DEF RestoreDeleteOverlay, Branch
    <2>2. index.status[g] = "Preparing"
        BY <1>1, <2>1 DEF WithStatus, FreshKnows, BeforeManifest, BeforeBoundary, AfterBoundary,
               AtSwitch, AtFailed, AfterRestore, FreshLabels, RestoreLabels
    <2>3. FreshHost'
        BY <1>1, <2>1, <2>2, OverlayStepKeepsHost
    <2>4. CASE Stop(p)
        BY <1>1, <2>3, <2>4, StepsAreLocal, FreshMoveKeepsInv
    <2>5. CASE /\ Goto(p, "restore_publish_compare")
               /\ volume' = volume \ {OverlayOf(g)}
        <3>1. /\ OnlyMoves(p) /\ pc'[p] = "restore_publish_compare"
              /\ view'[p] = view[p] /\ target'[p] = g
            BY <1>1, <2>5, StepsAreLocal
        <3>2. FreshKnows(pc[p], view[p], target[p])'
            BY <1>1, <2>1, <2>5, <3>1 DEF FreshKnows, BeforeManifest, BeforeBoundary, AfterBoundary,
               AtSwitch, AtFailed, AfterRestore, FreshLabels, RestoreLabels
        <3> QED
            BY <1>1, <2>3, <3>1, <3>2, FreshMoveKeepsInv
    <2> QED
        BY <2>1, <2>4, <2>5
<1> QED
    BY <1>2, <1>3, <1>4

\* The domain is redefined over the replacement, and back.
LEMMA FreshDefineKeepsInv ==
    ASSUME FreshTypeOK, FreshInv, NEW p \in Proc,
           FreshDefine(p) \/ RestoreDefine(p)
    PROVE  FreshInv'
<1> USE DEF durable
<1> DEFINE g == target[p]
<1>1. /\ \A q \in Proc \ {p} : pc[q] = "idle"
      /\ FreshKnows(pc[p], view[p], g)
      /\ g \in Gen /\ FreshHost /\ LocalTypeOK(Labels) /\ domain \in Domain
    BY FreshWorkerKnows DEF FreshDefine, RestoreDefine, FreshInv, FreshTypeOK,
       HostTypeOK, Labels
<1>2. view[p] = index /\ WithStatus(index, "Preparing") = {g}
    BY <1>1 DEF FreshDefine, RestoreDefine, FreshKnows, BeforeManifest, BeforeBoundary, AfterBoundary,
           AtSwitch, AtFailed, AfterRestore, FreshLabels, RestoreLabels
<1>3. PICK d \in {g, index.active} :
         /\ domain' = [domain EXCEPT !.persistent = TRUE, !.disk = d]
         /\ RestoreDefine(p) => d = index.active
         /\ FreshDefine(p) => d = g
    <2>1. DomainPresent
        BY <1>1 DEF DomainPresent, FreshHost
    <2>2. CASE FreshDefine(p)
        <3>1. pc[p] # "restore_define"
            BY <2>2 DEF FreshDefine
        <3> QED
            BY <2>1, <2>2, <3>1 DEF FreshDefine, RestoreDefine, Redefined
    <2>3. CASE RestoreDefine(p)
        <3>1. pc[p] # "fresh_define"
            BY <2>3 DEF RestoreDefine
        <3> QED
            BY <1>2, <2>1, <2>3, <3>1 DEF FreshDefine, RestoreDefine, Redefined
    <2> QED
        BY <2>2, <2>3
<1>4. /\ domain'.disk = d /\ domain'.persistent
      /\ domain'.state = domain.state
      /\ UNCHANGED <<index, volume>>
    BY <1>1, <1>3 DEF Domain, FreshDefine, RestoreDefine
<1>5. FreshHost'
    BY <1>1, <1>2, <1>3, <1>4 DEF FreshHost, SettledBinding, BoundaryBinding,
       OwnedVolumesExist, FailedLeavesNothing
<1>6. CASE Stop(p)
    BY <1>1, <1>5, <1>6, StepsAreLocal, FreshMoveKeepsInv
<1>7. ASSUME NEW label \in {"fresh_verify", "restore_verify"}, Goto(p, label),
             label = "fresh_verify" => FreshDefine(p)
      PROVE  FreshInv'
    <2>1. /\ OnlyMoves(p) /\ pc'[p] = label
          /\ view'[p] = view[p] /\ target'[p] = g
        BY <1>1, <1>7, StepsAreLocal
    <2>2. label = "fresh_verify" => g \notin Seeded
        BY <1>1, <1>7 DEF FreshDefine, FreshKnows, FreshLabels
    <2>3. FreshKnows(pc[p], view[p], target[p])'
        BY <1>2, <1>4, <1>7, <2>1, <2>2 DEF FreshKnows, BeforeManifest, BeforeBoundary, AfterBoundary,
               AtSwitch, AtFailed, AfterRestore, FreshLabels, RestoreLabels
    <2> QED
        BY <1>1, <1>5, <2>1, <2>3, FreshMoveKeepsInv
<1> QED
    BY <1>6, <1>7 DEF FreshDefine, RestoreDefine, Branch

\* The index becomes durable as Preparing, whether or not the write reports
\* success.
LEMMA FreshPublishKeepsInv ==
    ASSUME FreshTypeOK, FreshInv, NEW p \in Proc, FreshPublish(p)
    PROVE  FreshInv'
<1>1. PICK g \in Gen, i \in Index : g = target[p] /\ i = index
    BY FreshWorkerKnows DEF FreshPublish
<1>2. /\ \A q \in Proc \ {p} : pc[q] = "idle"
      /\ FreshKnows("fresh_publish", view[p], g)
      /\ FreshHost /\ LocalTypeOK(Labels)
    BY <1>1, FreshWorkerKnows DEF FreshPublish, FreshInv, FreshTypeOK,
       HostTypeOK, Labels
<1>3. /\ view[p] = i /\ i.status[g] = "Unlisted" /\ g \notin Seeded
      /\ WithStatus(i, "Preparing") = {}
    BY <1>1, <1>2 DEF FreshKnows, BeforeManifest, BeforeBoundary, AfterBoundary,
           AtSwitch, AtFailed, AfterRestore, FreshLabels, RestoreLabels
<1>4. PICK next \in Index : next = AddPreparing(i, g)
    BY <1>1, TransitionTypes DEF Role, CleanupPhase
<1>5. /\ next.active = i.active /\ next.delete = i.delete
      /\ next.progress = i.progress
      /\ \A x \in Gen : next.status[x] = IF x = g THEN "Preparing" ELSE i.status[x]
    BY <1>4, FreshTransitionFields
<1>6. WithStatus(next, "Preparing") = {g}
    BY <1>3, <1>5 DEF WithStatus
<1>7. ASSUME index' = next, UNCHANGED <<domain, volume>>
      PROVE  FreshHost'
    <2>1. ValidIndex(next) /\ index'.delete.phase = "None"
          /\ \A x \in Gen : index'.progress[x] = "None"
        BY <1>1, <1>2, <1>3, <1>5, <1>7
        DEF FreshHost, ValidIndex, WithStatus, ValidDeletePlan
    <2>2. SettledBinding' /\ BoundaryBinding'
        BY <1>1, <1>2, <1>3, <1>5, <1>6, <1>7 DEF FreshHost, SettledBinding,
           BoundaryBinding
    <2>3. OwnedVolumesExist' /\ FailedLeavesNothing'
        BY <1>1, <1>2, <1>3, <1>5, <1>7 DEF FreshHost, OwnedVolumesExist,
           FailedLeavesNothing, WithStatus
    <2> QED
        BY <1>2, <1>7, <2>1, <2>2, <2>3 DEF FreshHost
<1>8. CASE WriteIndex(p, next, "fresh_prove_old")
    <2>1. /\ OnlyMoves(p) /\ pc'[p] = "fresh_prove_old"
          /\ view'[p] = next /\ target'[p] = g
        BY <1>1, <1>2, <1>8, StepsAreLocal
    <2>2. index' = next /\ UNCHANGED <<domain, volume>>
        BY <1>8 DEF WriteIndex, host
    <2>3. FreshKnows(pc[p], view[p], target[p])'
        BY <1>3, <1>6, <2>1, <2>2 DEF FreshKnows, BeforeManifest, BeforeBoundary, AfterBoundary,
               AtSwitch, AtFailed, AfterRestore, FreshLabels, RestoreLabels
    <2> QED
        BY <1>2, <1>7, <2>1, <2>2, <2>3, FreshMoveKeepsInv
<1>9. CASE Goto(p, "fresh_rollback") /\ UNCHANGED <<domain, volume>>
           /\ index' \in {index, next}
    <2>1. /\ OnlyMoves(p) /\ pc'[p] = "fresh_rollback"
          /\ view'[p] = view[p] /\ target'[p] = g
        BY <1>1, <1>2, <1>9, StepsAreLocal
    <2>2. index'.status[g] \in {"Unlisted", "Preparing"}
        BY <1>1, <1>3, <1>5, <1>9
    <2>3. FreshKnows(pc[p], view[p], target[p])'
        BY <1>3, <2>1, <2>2 DEF FreshKnows, BeforeManifest, BeforeBoundary, AfterBoundary,
               AtSwitch, AtFailed, AfterRestore, FreshLabels, RestoreLabels
    <2>4. CASE index' = index
        <3>1. FreshKnows("fresh_rollback", view[p], target[p])
            BY <1>1, <1>3
            DEF FreshKnows, BeforeManifest, BeforeBoundary, AfterBoundary,
                AtSwitch, AtFailed, AfterRestore, FreshLabels, RestoreLabels
        <3> QED
            BY <1>2, <1>9, <2>4, <3>1, FreshQuietKeepsInv
    <2>5. CASE index' = next
        BY <1>2, <1>7, <1>9, <2>1, <2>3, <2>5, FreshMoveKeepsInv
    <2> QED
        BY <1>9, <2>4, <2>5
<1> QED
    BY <1>1, <1>3, <1>4, <1>8, <1>9 DEF FreshPublish, durable, host

\* The switch becomes durable once the domain is on the replacement.
LEMMA FreshSwitchKeepsInv ==
    ASSUME FreshTypeOK, FreshInv, NEW p \in Proc, FreshActivateWrite(p)
    PROVE  FreshInv'
<1>1. PICK g \in Gen, i \in Index : g = target[p] /\ i = index
    BY FreshWorkerKnows DEF FreshActivateWrite
<1>2. /\ \A q \in Proc \ {p} : pc[q] = "idle"
      /\ FreshKnows("fresh_activate_write", view[p], g)
      /\ FreshHost /\ LocalTypeOK(Labels)
    BY <1>1, FreshWorkerKnows DEF FreshActivateWrite, FreshInv, FreshTypeOK,
       HostTypeOK, Labels
<1>3. /\ view[p] = i /\ WithStatus(i, "Preparing") = {g} /\ g \notin Seeded
      /\ domain.disk = g /\ OverlayOf(g) \in volume
    BY <1>1, <1>2 DEF FreshKnows, BeforeManifest, BeforeBoundary, AfterBoundary,
           AtSwitch, AtFailed, AfterRestore, FreshLabels, RestoreLabels
<1>4. PICK next \in Index : next = FinalizeSwitch(i, g)
    BY <1>1, TransitionTypes DEF Role, CleanupPhase
<1>5. /\ next.active = g /\ next.delete = i.delete
      /\ next.progress = i.progress
      /\ \A x \in Gen : next.status[x] =
             IF x = g THEN "Active" ELSE IF x = i.active THEN "Retained"
             ELSE i.status[x]
    BY <1>4, FreshTransitionFields
<1>6. /\ index' = next /\ ValidIndex(next) /\ Stop(p)
      /\ UNCHANGED <<domain, volume>>
    BY <1>1, <1>3, <1>4 DEF FreshActivateWrite, WriteIndexAndStop, host
<1>7. SettledBinding' /\ BoundaryBinding'
    BY <1>3, <1>5, <1>6 DEF SettledBinding, BoundaryBinding
<1>8. OwnedVolumesExist'
    <2> SUFFICES ASSUME NEW x \in Gen, next.status[x] \in {"Active", "Retained"}
                 PROVE  VolumesOf(x) \subseteq volume
        BY <1>6 DEF OwnedVolumesExist, WithStatus
    <2>1. CASE x = g
        BY <1>3, <2>1 DEF VolumesOf, Disposable, OverlayOf
    <2>2. CASE x # g
        <3>1. i.status[x] \in {"Active", "Retained"}
            BY <1>1, <1>2, <1>5, <2>2 DEF FreshHost, ValidIndex, WithStatus
        <3> QED
            BY <1>1, <1>2, <3>1 DEF FreshHost, OwnedVolumesExist, WithStatus
    <2> QED
        BY <2>1, <2>2
<1>9. FailedLeavesNothing'
    BY <1>1, <1>2, <1>5, <1>6 DEF FreshHost, FailedLeavesNothing, WithStatus
<1>10. FreshHost'
    BY <1>1, <1>2, <1>5, <1>6, <1>7, <1>8, <1>9 DEF FreshHost
<1> QED
    BY <1>2, <1>6, <1>10, StepsAreLocal, FreshMoveKeepsInv

\* Failed becomes durable once the old domain is back and the overlay gone.
LEMMA RestorePublishKeepsInv ==
    ASSUME FreshTypeOK, FreshInv, NEW p \in Proc, RestorePublishWrite(p)
    PROVE  FreshInv'
<1>1. PICK g \in Gen, i \in Index : g = target[p] /\ i = index
    BY FreshWorkerKnows DEF RestorePublishWrite
<1>2. /\ \A q \in Proc \ {p} : pc[q] = "idle"
      /\ FreshKnows("restore_publish_write", view[p], g)
      /\ FreshHost /\ LocalTypeOK(Labels)
    BY <1>1, FreshWorkerKnows DEF RestorePublishWrite, FreshInv, FreshTypeOK,
       HostTypeOK, Labels
<1>3. /\ view[p] = i /\ WithStatus(i, "Preparing") = {g}
      /\ domain.disk = i.active /\ OverlayOf(g) \notin volume
    BY <1>1, <1>2 DEF FreshKnows, BeforeManifest, BeforeBoundary, AfterBoundary,
           AtSwitch, AtFailed, AfterRestore, FreshLabels, RestoreLabels
<1>4. PICK next \in Index : next = MarkFailed(i, g)
    BY <1>1, TransitionTypes DEF Role, CleanupPhase
<1>5. /\ next.active = i.active /\ next.delete = i.delete
      /\ next.progress = i.progress
      /\ \A x \in Gen : next.status[x] = IF x = g THEN "Failed" ELSE i.status[x]
    BY <1>4, FreshTransitionFields
<1>6. /\ index' = next /\ ValidIndex(next) /\ Stop(p)
      /\ UNCHANGED <<domain, volume>>
    BY <1>1, <1>3, <1>4 DEF RestorePublishWrite, WriteIndexAndStop, host
<1>7. SettledBinding' /\ BoundaryBinding'
    BY <1>3, <1>5, <1>6 DEF SettledBinding, BoundaryBinding
<1>8. OwnedVolumesExist'
    BY <1>1, <1>2, <1>5, <1>6 DEF FreshHost, OwnedVolumesExist, WithStatus
<1>9. FailedLeavesNothing'
    BY <1>1, <1>2, <1>3, <1>5, <1>6 DEF FreshHost, FailedLeavesNothing, WithStatus
<1>10. FreshHost'
    BY <1>1, <1>2, <1>5, <1>6, <1>7, <1>8, <1>9 DEF FreshHost
<1> QED
    BY <1>2, <1>6, <1>10, StepsAreLocal, FreshMoveKeepsInv

\* The guest is started or stopped from outside, or nothing happens.
LEMMA FreshPowerKeepsInv ==
    ASSUME FreshTypeOK, FreshInv, PowerOn \/ PowerOff \/ UNCHANGED hostVars
    PROVE  FreshInv'
<1>1. UNCHANGED <<index, volume, pc, view, target>>
    BY DEF PowerOn, PowerOff, hostVars, durable, host, local
<1>2. domain \in Domain /\ FreshHost
    BY DEF FreshTypeOK, HostTypeOK, FreshInv
<1>3. /\ domain'.disk = domain.disk /\ domain'.persistent
      /\ domain'.state \in {"shutoff", "running"}
    <2>1. CASE PowerOn
        <3>1. domain' = [domain EXCEPT !.state = "running", !.live = domain.disk]
            BY <2>1 DEF PowerOn
        <3> QED
            BY <1>2, <3>1 DEF FreshHost, Domain
    <2>2. CASE PowerOff
        <3>1. domain' = [domain EXCEPT !.state = "shutoff", !.live = NoGen]
            BY <1>2, <2>2 DEF PowerOff, Halted, FreshHost
        <3> QED
            BY <1>2, <3>1 DEF FreshHost, Domain
    <2>3. CASE UNCHANGED hostVars
        BY <1>2, <2>3 DEF hostVars, host, FreshHost
    <2> QED
        BY <2>1, <2>2, <2>3
<1>4. FreshHost'
    BY <1>1, <1>2, <1>3 DEF FreshHost, SettledBinding, BoundaryBinding,
       OwnedVolumesExist, FailedLeavesNothing
<1>5. \A p \in Proc : pc[p] # "idle" => FreshKnows(pc[p], view[p], target[p])'
    BY <1>1, <1>3 DEF FreshInv, FreshKnows
<1> QED
    BY <1>1, <1>4, <1>5 DEF FreshInv

\* Every step of a lone command keeps the invariant.
LEMMA FreshInvIsInductive ==
    ASSUME Sequential, FreshTypeOK, FreshInv, [FreshNext]_hostVars
    PROVE  FreshInv'
<1>1. ASSUME NEW p \in Proc, FreshCommand(p)
      PROVE  FreshInv'
    BY <1>1, FreshPlanKeepsInv, FreshQuietStepsKeepInv, FreshVolumeStepsKeepInv,
       FreshDefineKeepsInv, FreshPublishKeepsInv, FreshSwitchKeepsInv
    DEF FreshCommand
<1>2. ASSUME NEW p \in Proc, RestoreCommand(p)
      PROVE  FreshInv'
    BY <1>2, FreshPlanKeepsInv, FreshQuietStepsKeepInv, FreshVolumeStepsKeepInv,
       FreshDefineKeepsInv, RestorePublishKeepsInv
    DEF RestoreCommand
<1>3. ASSUME NEW p \in Proc, Crash(p)
      PROVE  FreshInv'
    BY <1>3, FreshQuietStepsKeepInv
<1>4. CASE PowerOn \/ PowerOff \/ UNCHANGED hostVars
    BY <1>4, FreshPowerKeepsInv
<1> QED
    BY <1>1, <1>2, <1>3, <1>4 DEF FreshNext

\* A settled instance satisfies it.
LEMMA FreshInvHoldsInitially == FreshInit => FreshInv
<1> SUFFICES ASSUME SettledInit PROVE FreshInv
    BY DEF FreshInit
<1>1. /\ index \in Index /\ ValidIndex(index)
      /\ index.delete = NoDelete
      /\ \A g \in Gen : index.progress[g] = "None"
      /\ WithStatus(index, "Preparing") = {}
    <2>1. HostTypeOK(Labels)
        BY SettledInitTypes
    <2>2. \A g \in Gen : index.status[g] # "Preparing"
        BY DEF SettledInit, SettledIndex
    <2> QED
        BY <2>1, <2>2 DEF HostTypeOK, SettledInit, SettledIndex, WithStatus
<1>2. /\ domain.state = "shutoff" /\ domain.persistent
      /\ domain.disk = index.active
    BY DEF SettledInit, Shutoff
<1>3. \A g \in Gen : \A v \in VolumesOf(g) :
          v \in volume <=> index.status[g] \in {"Active", "Retained"}
    BY DEF SettledInit, VolumesOf, WithStatus
<1>4. \A g \in Gen : OverlayOf(g) \in VolumesOf(g)
    BY DEF OverlayOf, VolumesOf, Disposable, Role
<1>5. OwnedVolumesExist /\ FailedLeavesNothing
    BY <1>3, <1>4 DEF OwnedVolumesExist, FailedLeavesNothing, WithStatus
<1>6. SettledBinding /\ BoundaryBinding
    BY <1>2 DEF SettledBinding, BoundaryBinding
<1>7. \A p \in Proc : pc[p] = "idle"
    BY DEF SettledInit
<1> QED
    BY <1>1, <1>2, <1>5, <1>6, <1>7 DEF FreshInv, FreshHost, NoDelete

-----------------------------------------------------------------------------
(* Theorems about a lone command *)

\* The invariant of Fresh and restore-old, one command at a time.
THEOREM FreshInvariant ==
    ASSUME Sequential
    PROVE  FreshSpec => [](FreshTypeOK /\ FreshInv)
<1>1. FreshInit => FreshTypeOK /\ FreshInv
    BY FreshInvHoldsInitially, WorkInitTypes
    DEF FreshInit, FreshTypeOK, WorkTypeOK
<1>2. FreshTypeOK /\ FreshInv /\ [FreshNext]_hostVars => (FreshTypeOK /\ FreshInv)'
    BY FreshStepTypes, FreshInvIsInductive
<1> QED
    BY <1>1, <1>2, PTL DEF FreshSpec

\* Outside of a boundary the domain is on the disk of the Active generation:
\* Fresh and restore-old write the index that ends a boundary only once
\* libvirt agrees, whatever interrupts them.
THEOREM FreshKeepsBinding ==
    ASSUME Sequential
    PROVE  FreshSpec => []SettledBinding
<1>1. FreshTypeOK /\ FreshInv => SettledBinding
    BY DEF FreshInv, FreshHost
<1> QED
    BY <1>1, FreshInvariant, PTL

\* Inside a boundary the domain is on one of the two generations that the
\* index on disk declares, so a recovery knows both disks it may find.
THEOREM FreshKeepsToTheBoundary ==
    ASSUME Sequential
    PROVE  FreshSpec => []BoundaryBinding
<1>1. FreshTypeOK /\ FreshInv => BoundaryBinding
    BY DEF FreshInv, FreshHost
<1> QED
    BY <1>1, FreshInvariant, PTL

\* No replacement, rollback or restore takes a volume of the Active or of a
\* Retained generation.
THEOREM FreshSparesOwnedVolumes ==
    ASSUME Sequential
    PROVE  FreshSpec => []OwnedVolumesExist
<1>1. FreshTypeOK /\ FreshInv => OwnedVolumesExist
    BY DEF FreshInv, FreshHost
<1> QED
    BY <1>1, FreshInvariant, PTL

\* restore-old publishes Failed only after the exact overlay is gone, and no
\* later Fresh brings it back.
THEOREM FailedStaysEmpty ==
    ASSUME Sequential
    PROVE  FreshSpec => []FailedLeavesNothing
<1>1. FreshTypeOK /\ FreshInv => FailedLeavesNothing
    BY DEF FreshInv, FreshHost
<1> QED
    BY <1>1, FreshInvariant, PTL

\* commit_fresh_switch becomes durable only over a domain that is on the new
\* generation, with both overlays in the pool.
THEOREM SwitchFollowsDomain ==
    ASSUME Sequential
    PROVE  FreshSpec => SwitchMatchesDomain
<1> DEFINE Switch == index'.active # index.active =>
                         /\ domain.disk = index'.active
                         /\ OverlayOf(index'.active) \in volume
                         /\ index'.status[index.active] = "Retained"
                         /\ OverlayOf(index.active) \in volume
<1>1. ASSUME FreshTypeOK, FreshInv, [FreshNext]_hostVars
      PROVE  [Switch]_index
    <2> SUFFICES ASSUME index'.active # index.active PROVE Switch
        OBVIOUS
    <2>1. PICK p \in Proc :
              FreshPublish(p) \/ FreshActivateWrite(p) \/ RestorePublishWrite(p)
        BY <1>1 DEF FreshNext, FreshCommand, RestoreCommand, FreshPlan,
           RestorePlan, FreshRevalidate, FreshCreateOverlay,
           FreshInspectOverlay, FreshWriteManifest, FreshRollback,
           FreshProveOld, FreshDefine, FreshVerify, FreshActivateCompare,
           RestoreRevalidate, RestoreDefine, RestoreVerify,
           RestoreDeleteOverlay, RestorePublishCompare, CompareIndex, Crash,
           PowerOn, PowerOff, hostVars, durable
    <2>2. /\ pc[p] # "idle" /\ target[p] \in Gen /\ index \in Index
          /\ FreshKnows(pc[p], view[p], target[p]) /\ FreshHost
        BY <1>1, <2>1, FreshWorkerKnows DEF FreshPublish, FreshActivateWrite,
           RestorePublishWrite, FreshInv
    <2>3. pc[p] \in {"fresh_publish", "fresh_activate_write",
                     "restore_publish_write"} => view[p] = index
        BY <2>2 DEF FreshKnows, BeforeManifest, BeforeBoundary, AfterBoundary,
           AtSwitch, AtFailed, AfterRestore, FreshLabels, RestoreLabels
    <2>4. ~FreshPublish(p) /\ ~RestorePublishWrite(p)
        BY <2>2, <2>3, FreshTransitionFields DEF FreshPublish,
           RestorePublishWrite, WriteIndex, WriteIndexAndStop, durable
    <2>5. /\ index' = FinalizeSwitch(index, target[p])
          /\ domain.disk = target[p] /\ OverlayOf(target[p]) \in volume
        BY <2>1, <2>2, <2>3, <2>4 DEF FreshActivateWrite, WriteIndexAndStop,
           FreshKnows, AtSwitch
    <2>6. /\ index'.active = target[p]
          /\ index'.status[index.active] = "Retained"
        BY <2>2, <2>5, FreshTransitionFields DEF Index
    <2>7. OverlayOf(index.active) \in volume
        BY <2>2 DEF FreshHost, ValidIndex, OwnedVolumesExist, WithStatus,
           VolumesOf, OverlayOf, Disposable, Role
    <2> QED
        BY <2>5, <2>6, <2>7
<1> QED
    BY <1>1, FreshInvariant, PTL DEF FreshSpec, SwitchMatchesDomain

-----------------------------------------------------------------------------
(* Manifests before the index, with any overlap *)

\* The manifest files only become more.
LEMMA ManifestsOnlyAppear ==
    ASSUME [FreshNext]_hostVars
    PROVE  manifest \subseteq manifest'
    BY DEF FreshNext, FreshCommand, RestoreCommand, FreshPlan, RestorePlan,
       FreshRevalidate, FreshCreateOverlay, FreshInspectOverlay,
       FreshWriteManifest, FreshPublish, FreshRollback, FreshProveOld,
       FreshDefine, FreshVerify, FreshActivateCompare, FreshActivateWrite,
       RestoreRevalidate, RestoreDefine, RestoreVerify, RestoreDeleteOverlay,
       RestorePublishCompare, RestorePublishWrite, CompareIndex, WriteIndex,
       WriteIndexAndStop, Crash, PowerOn, PowerOff, hostVars, durable

\* A process that moves keeps the invariant when what it wrote, what it holds
\* and what it may list next have their manifests.
LEMMA ManifestsMove ==
    ASSUME FreshTypeOK, ManifestsInv, NEW p \in Proc, OnlyMoves(p),
           manifest \subseteq manifest', HasManifests(index)',
           \/ pc'[p] = "idle"
           \/ /\ HasManifests(view[p])'
              /\ pc'[p] \notin BeforeManifest \cup {"fresh_rollback"}
                     => target'[p] \in manifest'
    PROVE  ManifestsInv'
<1>1. ASSUME NEW q \in Proc, q # p, pc'[q] # "idle"
      PROVE  /\ HasManifests(view[q])'
             /\ pc'[q] \notin BeforeManifest \cup {"fresh_rollback"}
                    => target'[q] \in manifest'
    BY <1>1 DEF OnlyMoves, ManifestsInv, HasManifests, Listed
<1> QED
    BY <1>1 DEF ManifestsInv

\* A process that looks, or changes libvirt only.
LEMMA ManifestsQuiet ==
    ASSUME FreshTypeOK, ManifestsInv, NEW p \in Proc, pc[p] # "idle",
           UNCHANGED index, manifest \subseteq manifest',
           \/ Stop(p)
           \/ \E label : /\ Goto(p, label)
                         /\ \/ label \in BeforeManifest \cup {"fresh_rollback"}
                            \/ pc[p] \notin BeforeManifest \cup {"fresh_rollback"}
                            \/ target[p] \in manifest'
    PROVE  ManifestsInv'
<1> DEFINE Early == BeforeManifest \cup {"fresh_rollback"}
<1>1. /\ HasManifests(view[p]) /\ HasManifests(index)
      /\ pc[p] \notin Early => target[p] \in manifest
      /\ LocalTypeOK(Labels)
    BY DEF ManifestsInv, FreshTypeOK, HostTypeOK, Labels
<1>2. HasManifests(index)'
    BY <1>1 DEF HasManifests, Listed
<1>3. CASE Stop(p)
    BY <1>1, <1>2, <1>3, StepsAreLocal, ManifestsMove
<1>4. ASSUME NEW label, Goto(p, label),
             label \in Early \/ pc[p] \notin Early \/ target[p] \in manifest'
      PROVE  ManifestsInv'
    <2>1. /\ OnlyMoves(p) /\ pc'[p] = label
          /\ view'[p] = view[p] /\ target'[p] = target[p]
        BY <1>1, <1>4, StepsAreLocal
    <2>2. HasManifests(view[p])'
        BY <1>1, <2>1 DEF HasManifests, Listed
    <2> QED
        BY <1>1, <1>2, <1>4, <2>1, <2>2, ManifestsMove
<1> QED
    BY <1>3, <1>4

\* A process that publishes an index lists its own target at most.
LEMMA ManifestsPublish ==
    ASSUME FreshTypeOK, ManifestsInv, NEW p \in Proc,
           NEW i \in Index, NEW next \in Index, NEW g \in Gen,
           pc[p] \notin BeforeManifest \cup {"fresh_rollback", "idle"},
           g = target[p], i = view[p], ValidIndex(next),
           next \in {AddPreparing(i, g), FinalizeSwitch(i, g), MarkFailed(i, g)},
           index' = next, UNCHANGED manifest,
           \/ Stop(p)
           \/ \E label : WriteIndex(p, next, label) \/ Goto(p, label)
    PROVE  ManifestsInv'
<1>1. HasManifests(i) /\ g \in manifest /\ LocalTypeOK(Labels)
    BY DEF ManifestsInv, FreshTypeOK, HostTypeOK, Labels
<1>2. Listed(next) \subseteq Listed(i) \cup {g}
    BY <1>1, FreshTransitionFields DEF Listed, HasManifests
<1>3. next.active \in Listed(next)
    BY DEF ValidIndex, WithStatus, Listed, Index
<1>4. HasManifests(index)'
    BY <1>1, <1>2, <1>3 DEF HasManifests, Listed
<1>5. OnlyMoves(p) /\ \/ pc'[p] = "idle"
                      \/ target'[p] = g /\ view'[p] \in {i, next}
    BY <1>1, StepsAreLocal
<1>6. pc'[p] # "idle" => HasManifests(view[p])'
    BY <1>1, <1>2, <1>3, <1>5 DEF HasManifests, Listed
<1> QED
    BY <1>1, <1>4, <1>5, <1>6, ManifestsMove

\* Every step keeps it, however many commands overlap.
LEMMA ManifestsInvIsInductive ==
    ASSUME FreshTypeOK, ManifestsInv, [FreshNext]_hostVars
    PROVE  ManifestsInv'
<1> USE DEF durable, host
<1>1. manifest \subseteq manifest' /\ LocalTypeOK(Labels)
    BY ManifestsOnlyAppear DEF FreshTypeOK, HostTypeOK, Labels
<1>2. ASSUME NEW p \in Proc, NEW g \in Gen, FreshPlan(p, g) \/ RestorePlan(p, g)
      PROVE  ManifestsInv'
    <2>1. HasManifests(index) /\ UNCHANGED <<index, manifest>>
        BY <1>2 DEF FreshPlan, RestorePlan, ManifestsInv
    <2>2. HasManifests(index)'
        BY <2>1 DEF HasManifests, Listed
    <2>3. /\ OnlyMoves(p) /\ view'[p] = index /\ target'[p] = g
          /\ FreshPlan(p, g) => pc'[p] = "fresh_revalidate"
        BY <1>1, <1>2, StepsAreLocal DEF FreshPlan, RestorePlan
    <2>4. HasManifests(view[p])'
        BY <2>1, <2>3 DEF HasManifests, Listed
    <2>5. RestorePlan(p, g) => g \in manifest'
        BY <1>1, <2>1 DEF RestorePlan, Restorable, WithStatus, Listed
    <2> QED
        BY <1>1, <1>2, <2>2, <2>3, <2>4, <2>5, ManifestsMove DEF BeforeManifest
<1>3. ASSUME NEW p \in Proc,
             FreshPublish(p) \/ FreshActivateWrite(p) \/ RestorePublishWrite(p)
      PROVE  ManifestsInv'
    <2>1. PICK i \in Index, g \in Gen : i = view[p] /\ g = target[p]
        BY <1>3 DEF FreshTypeOK, HostTypeOK, LocalTypeOK, FreshPublish,
           FreshActivateWrite, RestorePublishWrite
    <2>2. /\ AddPreparing(i, g) \in Index
          /\ FinalizeSwitch(i, g) \in Index
          /\ MarkFailed(i, g) \in Index
        BY TransitionTypes DEF Role, CleanupPhase
    <2>3. pc[p] \notin BeforeManifest \cup {"fresh_rollback", "idle"}
        BY <1>3 DEF FreshPublish, FreshActivateWrite, RestorePublishWrite,
           BeforeManifest
    <2>4. CASE FreshPublish(p)
        <3>1. CASE UNCHANGED index /\ Goto(p, "fresh_rollback")
            BY <1>1, <2>3, <3>1, ManifestsQuiet
        <3>2. ASSUME \/ WriteIndex(p, AddPreparing(i, g), "fresh_prove_old")
                     \/ /\ index' = AddPreparing(i, g)
                        /\ Goto(p, "fresh_rollback")
                        /\ UNCHANGED manifest
              PROVE  ManifestsInv'
            <4>1. index' = AddPreparing(i, g) /\ UNCHANGED manifest
                BY <3>2 DEF WriteIndex
            <4>2. ValidIndex(AddPreparing(i, g))
                BY <2>1, <2>4 DEF FreshPublish, CanAddPreparing
            <4> QED
                BY <2>1, <2>2, <2>3, <3>2, <4>1, <4>2, ManifestsPublish
        <3> QED
            BY <2>1, <2>4, <3>1, <3>2 DEF FreshPublish
    <2>5. CASE FreshActivateWrite(p)
        BY <2>1, <2>2, <2>3, <2>5, ManifestsPublish
        DEF FreshActivateWrite, WriteIndexAndStop
    <2>6. CASE RestorePublishWrite(p)
        BY <2>1, <2>2, <2>3, <2>6, ManifestsPublish
        DEF RestorePublishWrite, WriteIndexAndStop
    <2> QED
        BY <1>3, <2>4, <2>5, <2>6
<1>4. ASSUME NEW p \in Proc,
             \/ FreshRevalidate(p) \/ FreshCreateOverlay(p)
             \/ FreshInspectOverlay(p) \/ FreshWriteManifest(p)
             \/ FreshRollback(p)
      PROVE  ManifestsInv'
    BY <1>1, <1>4, ManifestsQuiet DEF FreshRevalidate, FreshCreateOverlay,
       FreshInspectOverlay, FreshWriteManifest, FreshRollback, Branch,
       BeforeManifest
<1>5. ASSUME NEW p \in Proc,
             \/ FreshProveOld(p) \/ FreshDefine(p) \/ FreshVerify(p)
             \/ FreshActivateCompare(p) \/ RestoreRevalidate(p)
             \/ RestoreDefine(p) \/ RestoreVerify(p)
             \/ RestoreDeleteOverlay(p) \/ RestorePublishCompare(p)
             \/ Crash(p)
      PROVE  ManifestsInv'
    BY <1>1, <1>5, ManifestsQuiet DEF FreshProveOld, FreshDefine, FreshVerify,
       FreshActivateCompare, RestoreRevalidate, RestoreDefine, RestoreVerify,
       RestoreDeleteOverlay, RestorePublishCompare, CompareIndex, Crash, Branch,
       BeforeManifest
<1>6. CASE PowerOn \/ PowerOff \/ UNCHANGED hostVars
    <2>1. UNCHANGED <<index, manifest, pc, view, target>>
        BY <1>6 DEF PowerOn, PowerOff, hostVars, local
    <2> QED
        BY <2>1 DEF ManifestsInv, HasManifests, Listed
<1> QED
    BY <1>2, <1>3, <1>4, <1>5, <1>6 DEF FreshNext, FreshCommand, RestoreCommand

\* publish_preparing writes the manifest before the index that lists it, so no
\* crash, and no overlap, leaves an index that load_index_manifests cannot
\* follow.
THEOREM ManifestsComeFirst == FreshSpec => []ListedManifestsExist
<1>1. FreshInit => FreshTypeOK /\ ManifestsInv
    <2> SUFFICES ASSUME SettledInit PROVE FreshTypeOK /\ ManifestsInv
        BY DEF FreshInit
    <2>1. FreshTypeOK
        BY WorkInitTypes DEF FreshTypeOK, WorkTypeOK
    <2>2. ValidIndex(index) /\ index \in Index
        BY <2>1 DEF SettledInit, SettledIndex, FreshTypeOK, HostTypeOK
    <2>3. HasManifests(index)
        BY <2>2 DEF SettledInit, HasManifests, ValidIndex, WithStatus, Listed, Index
    <2> QED
        BY <2>1, <2>3 DEF SettledInit, ManifestsInv
<1>2. FreshTypeOK /\ ManifestsInv /\ [FreshNext]_hostVars
          => (FreshTypeOK /\ ManifestsInv)'
    BY FreshStepTypes, ManifestsInvIsInductive
<1>3. FreshTypeOK /\ ManifestsInv => ListedManifestsExist
    BY DEF ManifestsInv, HasManifests, ListedManifestsExist
<1> QED
    BY <1>1, <1>2, <1>3, PTL DEF FreshSpec
=============================================================================
