-------------------------- MODULE VolumeRemovalProofs --------------------------
(***************************************************************************)
(* Theorems about the two commands that take volumes away for good,        *)
(* "forge delete" (InstanceDelete) and "forge vm cleanup"                  *)
(* (RetainedCleanup), each for any set of generations, any number of       *)
(* overlapping commands of its kind and any number of faults; and that a   *)
(* deletion implements OwnedRemoval.                                       *)
(***************************************************************************)
EXTENDS InstanceDelete, RetainedCleanup, ManagedHostProofs, TLAPS

(***************************************************************************)
(* "forge delete"                                                          *)
(***************************************************************************)

-----------------------------------------------------------------------------
(* Type correctness *)

\* Every step keeps the types: case by case over the actions.
LEMMA DeleteStepTypes ==
    ASSUME DeleteTypeOK, [DeleteNext]_hostVars
    PROVE  DeleteTypeOK'
<1> USE DEF DeleteTypeOK, HostTypeOK, durable, host
<1> DEFINE Labels == DeleteLabels
<1>1. \A p \in Proc, label \in DeleteLabels, forced \in BOOLEAN :
          Start(p, label, NoGen, forced) => LocalTypeOK(DeleteLabels)'
    BY LocalStepTypes
<1>2. \A p \in Proc, label \in DeleteLabels :
          pc[p] # "idle" /\ Goto(p, label) => LocalTypeOK(DeleteLabels)'
    BY LocalStepTypes
<1>3. \A p \in Proc : Stop(p) => LocalTypeOK(DeleteLabels)'
    BY LocalStepTypes DEF DeleteLabels
<1>4. \A p \in Proc, label \in DeleteLabels, condition \in BOOLEAN :
          pc[p] # "idle" /\ Branch(p, condition, label)
              => LocalTypeOK(DeleteLabels)'
    BY LocalStepTypes
<1>5. \A i \in Index : i.active \in Gen /\ AfterDomain(i) \in DeleteLabels
                      /\ NextRole(i) \in Role
    BY DEF AfterDomain, NextRole, Role, DeleteLabels, Index
<1>6. \A p \in Proc : pc[p] # "idle" => view[p] \in Index
    BY DEF LocalTypeOK
<1>7. ASSUME NEW p \in Proc, NEW forced \in BOOLEAN,
             DeletePlan(p, forced) \/ DeleteResume(p, forced)
      PROVE  DeleteTypeOK'
    BY <1>1, <1>5, <1>7 DEF DeletePlan, DeleteResume, DeleteLabels
<1>8. ASSUME NEW p \in Proc, DeleteConfirm(p)
      PROVE  DeleteTypeOK'
    BY <1>3, <1>4, <1>8 DEF DeleteConfirm, DeleteLabels
<1>9. ASSUME NEW p \in Proc,
             \/ DeleteObserve(p)
             \/ DeleteReobserve(p)
             \/ DeleteAuthorize(p)
             \/ DeleteVerifyUndefined(p)
      PROVE  DeleteTypeOK'
    <2>1. force[p] \in BOOLEAN
        BY DEF LocalTypeOK
    <2>2. CASE DeleteObserve(p)
        BY <1>2, <1>4, <2>1, <2>2 DEF DeleteObserve, DeleteLabels
    <2>3. CASE DeleteReobserve(p)
        BY <1>4, <2>3 DEF DeleteReobserve, DeleteLabels, DomainShutoff
    <2>4. CASE DeleteAuthorize(p)
        BY <1>4, <2>4 DEF DeleteAuthorize, DeleteLabels, DomainShutoff, Domain
    <2>5. CASE DeleteVerifyUndefined(p)
        BY <1>4, <2>5 DEF DeleteVerifyUndefined, DeleteLabels, DomainPresent
    <2> QED
        BY <1>9, <2>2, <2>3, <2>4, <2>5
<1>10. ASSUME NEW p \in Proc, DeleteForceStop(p)
       PROVE  DeleteTypeOK'
    BY <1>4, <1>10, HaltedType DEF DeleteForceStop, DeleteLabels
<1>11. ASSUME NEW p \in Proc, DeleteUndefine(p)
       PROVE  DeleteTypeOK'
    BY <1>4, <1>11 DEF DeleteUndefine, DeleteLabels, Domain, NoDomain
<1>12. ASSUME NEW p \in Proc, DeleteVolume(p)
       PROVE  DeleteTypeOK'
    BY <1>4, <1>12 DEF DeleteVolume, DeleteLabels
<1>13. ASSUME NEW p \in Proc,
              \/ DeleteIntentCompare(p)
              \/ DeleteDomainCompare(p)
              \/ DeleteVolumeCompare(p)
              \/ DeleteFinishCompare(p)
       PROVE  DeleteTypeOK'
    BY <1>4, <1>13 DEF DeleteIntentCompare, DeleteDomainCompare, DeleteVolumeCompare,
       DeleteFinishCompare, CompareIndex, DeleteLabels
<1>14. ASSUME NEW p \in Proc, DeleteIntentWrite(p)
       PROVE  DeleteTypeOK'
    <2>1. BeginDelete(view[p]) \in Index
        BY <1>6, <1>14, TransitionTypes DEF DeleteIntentWrite, Role, CleanupPhase, Index
    <2> QED
        BY <1>14, <2>1, WriteTypes DEF DeleteIntentWrite, DeleteLabels
<1>15. ASSUME NEW p \in Proc, DeleteDomainWrite(p)
       PROVE  DeleteTypeOK'
    <2>1. RecordDomainAbsent(view[p]) \in Index
        BY <1>6, <1>15, TransitionTypes DEF DeleteDomainWrite, Role, CleanupPhase, Index
    <2> QED
        BY <1>5, <1>15, <2>1, WriteTypes DEF DeleteDomainWrite
<1>16. ASSUME NEW p \in Proc, DeleteVolumeWrite(p)
       PROVE  DeleteTypeOK'
    <2>1. RecordResourceAbsent(view[p], NextRole(view[p])) \in Index
        BY <1>5, <1>6, <1>16, TransitionTypes DEF DeleteVolumeWrite, CleanupPhase, Index
    <2> QED
        BY <1>5, <1>16, <2>1, WriteTypes DEF DeleteVolumeWrite
<1>17. ASSUME NEW p \in Proc, DeleteFinishWrite(p)
       PROVE  DeleteTypeOK'
    <2>1. CompleteDelete(view[p]) \in Index
        BY <1>6, <1>17, TransitionTypes DEF DeleteFinishWrite, Role, CleanupPhase, Index
    <2> QED
        BY <1>17, <2>1, WriteTypes DEF DeleteFinishWrite, DeleteLabels
<1>18. ASSUME \/ \E p \in Proc : Crash(p)
              \/ PowerOn
              \/ PowerOff
              \/ UNCHANGED hostVars
       PROVE  DeleteTypeOK'
    BY <1>18, SharedStepTypes
<1> QED
    BY <1>7, <1>8, <1>9, <1>10, <1>11, <1>12, <1>13, <1>14, <1>15, <1>16,
       <1>17, <1>18
    DEF DeleteNext, DeleteCommand, DeleteStep

\* The initial states are typed.
LEMMA DeleteInitTypes == DeleteInit => DeleteTypeOK
    BY SettledInitTypes DEF DeleteInit, DeleteTypeOK

\* Every reachable state of any number of deletions is typed.
THEOREM DeleteTypeCorrect == DeleteSpec => []DeleteTypeOK
<1>1. DeleteInit => DeleteTypeOK
    BY DeleteInitTypes
<1>2. DeleteTypeOK /\ [DeleteNext]_hostVars => DeleteTypeOK'
    BY DeleteStepTypes
<1> QED
    BY <1>1, <1>2, PTL DEF DeleteSpec

-----------------------------------------------------------------------------
(* The inductive invariant *)

\* The set of three labels is expanded wherever it appears.
USE DEF BeforeIntent

\* What a deletion never undoes: the Active generation stays, an intent stays
\* on disk, no volume comes back and no domain comes back.
DeletionOnlyRemoves ==
    /\ index'.active = index.active
    /\ index.delete.phase # "None" => index'.delete.phase # "None"
    /\ volume' \subseteq volume
    /\ ~DomainPresent => ~DomainPresent'

\* What an index says stays true under such a step.
LEMMA TruthfulIsStable ==
    ASSUME DeletionOnlyRemoves, NEW i, Truthful(i)
    PROVE  Truthful(i)'
    BY DEF DeletionOnlyRemoves, Truthful

\* The processes that do not move keep what they know.
LEMMA OthersStayJustified ==
    ASSUME DeletionOnlyRemoves, NEW p \in Proc,
           \A q \in Proc : Justified(q),
           OnlyMoves(p),
           Justified(p)'
    PROVE  \A q \in Proc : Justified(q)'
<1> SUFFICES ASSUME NEW q \in Proc, q # p PROVE Justified(q)'
    OBVIOUS
<1>1. pc'[q] = pc[q] /\ view'[q] = view[q]
    BY DEF OnlyMoves
<1>2. CASE pc[q] = "idle"
    BY <1>1, <1>2 DEF Justified
<1>3. CASE pc[q] # "idle"
    <2>1. Truthful(view[q])
        BY <1>3 DEF Justified
    <2>2. Truthful(view[q])'
        BY <1>1, <2>1, TruthfulIsStable DEF Truthful, DeletionOnlyRemoves
    <2> QED
        BY <1>1, <1>3, <2>2 DEF Justified, DeletionOnlyRemoves
<1> QED
    BY <1>2, <1>3

\* The steps of a process touch the memory of that process only.
LEMMA LocalStepsAreLocal ==
    ASSUME DeleteTypeOK, NEW p \in Proc, NEW label, NEW gen, NEW forced
    PROVE  /\ Start(p, label, gen, forced) =>
                  OnlyMoves(p) /\ pc'[p] = label /\ view'[p] = index
           /\ Goto(p, label) =>
                  OnlyMoves(p) /\ pc'[p] = label /\ view'[p] = view[p]
           /\ Stop(p) => OnlyMoves(p) /\ pc'[p] = "idle"
    BY StepsAreLocal DEF DeleteTypeOK, HostTypeOK

\* A process that ends has nothing left to know.
LEMMA StoppedIsJustified ==
    ASSUME DeleteTypeOK, NEW p \in Proc, Stop(p)
    PROVE  OnlyMoves(p) /\ Justified(p)'
    BY LocalStepsAreLocal DEF Justified

\* A step that leaves the index and the host alone keeps the invariant when
\* the process that moves knows what its next step needs.
LEMMA QuietStep ==
    ASSUME DeleteInv, NEW p \in Proc, UNCHANGED <<index, domain, volume>>,
           OnlyMoves(p),
           Justified(p)'
    PROVE  DeleteInv'
<1>1. DeletionOnlyRemoves
    BY DEF DeletionOnlyRemoves, DomainPresent
<1>2. Truthful(index)'
    BY DEF DeleteInv, Truthful, DomainPresent
<1>3. HostSound'
    BY DEF DeleteInv, HostSound, DomainPresent, DomainShutoff, DomainRunning
<1>4. \A q \in Proc : Justified(q)'
    BY <1>1, OthersStayJustified DEF DeleteInv
<1> QED
    BY <1>2, <1>3, <1>4 DEF DeleteInv

\* A step that changes only the host keeps the invariant when it only
\* removes, the host stays sound and the mover knows what it needs.
LEMMA HostStep ==
    ASSUME DeleteInv, NEW p \in Proc, UNCHANGED index,
           volume' \subseteq volume, ~DomainPresent => ~DomainPresent',
           OnlyMoves(p),
           HostSound', Justified(p)'
    PROVE  DeleteInv'
<1>1. DeletionOnlyRemoves
    BY DEF DeletionOnlyRemoves
<1>2. Truthful(index)'
    BY DEF DeleteInv, Truthful
<1>3. \A q \in Proc : Justified(q)'
    BY <1>1, OthersStayJustified DEF DeleteInv
<1> QED
    BY <1>2, <1>3 DEF DeleteInv

\* A write of an index that says only what is true, with the intent in it,
\* keeps the invariant.
LEMMA WriteStep ==
    ASSUME DeleteInv, NEW p \in Proc, UNCHANGED <<domain, volume>>,
           index'.active = index.active, index'.delete.phase # "None",
           Truthful(index)',
           OnlyMoves(p),
           Justified(p)'
    PROVE  DeleteInv'
<1>1. DeletionOnlyRemoves
    BY DEF DeletionOnlyRemoves, DomainPresent
<1>2. HostSound'
    BY DEF DeleteInv, HostSound, DomainPresent, DomainShutoff, DomainRunning
<1>3. \A q \in Proc : Justified(q)'
    BY <1>1, OthersStayJustified DEF DeleteInv
<1> QED
    BY <1>2, <1>3 DEF DeleteInv

\* A process that starts, or goes on with the index it holds.
LEMMA StartedIsJustified ==
    ASSUME DeleteTypeOK, DeleteInv, UNCHANGED <<index, domain, volume>>,
           NEW p \in Proc, NEW label, NEW forced, Start(p, label, NoGen, forced),
           \/ label = "delete_confirm" /\ index.delete.phase = "None"
           \/ /\ index.delete.phase = "Deleting"
              /\ \/ label = "delete_domain"
                 \/ /\ index.delete.domain = "Absent"
                    /\ label \in {"delete_volume", "delete_finish_compare"}
    PROVE  OnlyMoves(p) /\ Justified(p)'
<1>1. OnlyMoves(p) /\ pc'[p] = label /\ view'[p] = index
    BY LocalStepsAreLocal
<1>2. Truthful(view[p])'
    BY <1>1 DEF DeleteInv, Truthful, DomainPresent
<1> QED
    BY <1>1, <1>2 DEF Justified

\* Planning, confirming, observing, comparing and crashing.
LEMMA QuietSteps ==
    ASSUME DeleteTypeOK, DeleteInv, NEW p \in Proc,
           \/ \E forced \in BOOLEAN : DeletePlan(p, forced) \/ DeleteResume(p, forced)
           \/ DeleteConfirm(p)
           \/ DeleteIntentCompare(p)
           \/ DeleteObserve(p)
           \/ DeleteReobserve(p)
           \/ DeleteAuthorize(p)
           \/ DeleteVerifyUndefined(p)
           \/ DeleteDomainCompare(p)
           \/ DeleteVolumeCompare(p)
           \/ DeleteFinishCompare(p)
           \/ Crash(p)
    PROVE  DeleteInv'
<1> DEFINE Quiet == UNCHANGED <<index, domain, volume>> /\ OnlyMoves(p)
                    /\ Justified(p)'
<1> SUFFICES Quiet
    BY QuietStep
<1> USE DEF durable, host
<1>1. Justified(p) /\ Truthful(index)
    BY DEF DeleteInv
<1>2. ASSUME NEW label, Goto(p, label), UNCHANGED <<index, domain, volume>>
      PROVE  /\ OnlyMoves(p)
             /\ pc'[p] = label
             /\ view'[p] = view[p]
             /\ Truthful(view[p]) => Truthful(view[p])'
    BY <1>2, LocalStepsAreLocal DEF Truthful, DomainPresent
<1>3. ASSUME Stop(p), UNCHANGED <<index, domain, volume>>
      PROVE  Quiet
    BY <1>3, StoppedIsJustified
<1>4. ASSUME NEW forced \in BOOLEAN, DeletePlan(p, forced)
      PROVE  Quiet
    BY <1>4, StartedIsJustified DEF DeletePlan, DeletePlannable, DeleteEligible
<1>5. ASSUME NEW forced \in BOOLEAN, DeleteResume(p, forced)
      PROVE  Quiet
    <2>1. index.delete.domain \in {"UndefinePending", "Absent"}
        BY DEF DeleteTypeOK, HostTypeOK, Index, DeleteState
    <2> QED
        BY <1>5, <2>1, StartedIsJustified DEF DeleteResume, AfterDomain
<1>6. ASSUME DeleteConfirm(p) \/ DeleteIntentCompare(p)
      PROVE  Quiet
    BY <1>1, <1>2, <1>3, <1>6 DEF DeleteConfirm, DeleteIntentCompare,
       CompareIndex, Branch, Justified
<1>7. ASSUME DeleteObserve(p)
      PROVE  Quiet
    BY <1>1, <1>2, <1>3, <1>7 DEF DeleteObserve, Branch, Justified, DomainPresent
<1>8. ASSUME DeleteReobserve(p) \/ DeleteAuthorize(p)
      PROVE  Quiet
    BY <1>1, <1>2, <1>3, <1>8
    DEF DeleteReobserve, DeleteAuthorize, Branch, Justified
<1>9. ASSUME DeleteVerifyUndefined(p)
      PROVE  Quiet
    BY <1>1, <1>2, <1>3, <1>9
    DEF DeleteVerifyUndefined, Branch, Justified, DomainPresent
<1>10. ASSUME DeleteDomainCompare(p)
       PROVE  Quiet
    BY <1>1, <1>2, <1>3, <1>10
    DEF DeleteDomainCompare, CompareIndex, Branch, Justified, DomainPresent
<1>11. ASSUME DeleteVolumeCompare(p)
       PROVE  Quiet
    BY <1>1, <1>2, <1>3, <1>11
    DEF DeleteVolumeCompare, CompareIndex, Branch, Justified
<1>12. ASSUME DeleteFinishCompare(p)
       PROVE  Quiet
    BY <1>1, <1>2, <1>3, <1>12
    DEF DeleteFinishCompare, CompareIndex, Branch, Justified
<1>13. ASSUME Crash(p)
       PROVE  Quiet
    BY <1>3, <1>13 DEF Crash
<1> QED
    BY <1>4, <1>5, <1>6, <1>7, <1>8, <1>9, <1>10, <1>11, <1>12, <1>13

\* The calls that change the domain or a volume.
LEMMA HostSteps ==
    ASSUME DeleteTypeOK, DeleteInv, NEW p \in Proc,
           DeleteForceStop(p) \/ DeleteUndefine(p) \/ DeleteVolume(p)
    PROVE  DeleteInv'
<1> USE DEF durable
<1>1. Justified(p) /\ HostSound
    BY DEF DeleteInv
<1>2. domain \in Domain /\ NoDomain.state = "absent"
    BY DEF DeleteTypeOK, HostTypeOK, NoDomain
<1>3. CASE DeleteForceStop(p)
    <2>1. UNCHANGED <<index, volume>> /\ index.delete.phase # "None"
        BY <1>1, <1>3 DEF DeleteForceStop, Justified
    <2>2. HostSound' /\ (~DomainPresent => ~DomainPresent')
        BY <1>1, <1>2, <1>3, <2>1 DEF DeleteForceStop, HostSound, Halted,
           Domain, NoDomain, DomainPresent, DomainShutoff, DomainRunning
    <2>3. CASE Goto(p, "delete_reobserve")
        <3>1. OnlyMoves(p) /\ pc'[p] = "delete_reobserve" /\ view'[p] = view[p]
            BY <2>3, LocalStepsAreLocal
        <3>2. Truthful(view[p])'
            BY <1>1, <1>3, <2>1, <2>2, <3>1
            DEF DeleteForceStop, Justified, Truthful
        <3>3. Justified(p)'
            BY <1>1, <1>3, <2>1, <3>1, <3>2 DEF DeleteForceStop, Justified
        <3> QED
            BY <2>1, <2>2, <3>1, <3>3, HostStep
    <2>4. CASE Stop(p)
        BY <2>1, <2>2, <2>4, StoppedIsJustified, HostStep
    <2> QED
        BY <1>3, <2>3, <2>4 DEF DeleteForceStop, Branch
<1>4. CASE DeleteUndefine(p)
    <2>1. UNCHANGED <<index, volume>> /\ index.delete.phase # "None"
        BY <1>1, <1>4 DEF DeleteUndefine, Justified
    <2>2. HostSound' /\ (~DomainPresent => ~DomainPresent')
        BY <1>1, <1>2, <1>4, <2>1 DEF DeleteUndefine, HostSound,
           Domain, NoDomain, DomainPresent, DomainShutoff, DomainRunning
    <2>3. CASE Goto(p, "delete_undefine_verify")
        <3>1. OnlyMoves(p) /\ pc'[p] = "delete_undefine_verify"
              /\ view'[p] = view[p]
            BY <2>3, LocalStepsAreLocal
        <3>2. Truthful(view[p])'
            BY <1>1, <1>4, <2>1, <2>2, <3>1
            DEF DeleteUndefine, Justified, Truthful
        <3>3. Justified(p)'
            BY <1>1, <1>4, <2>1, <3>1, <3>2 DEF DeleteUndefine, Justified
        <3> QED
            BY <2>1, <2>2, <3>1, <3>3, HostStep
    <2>4. CASE Stop(p)
        BY <2>1, <2>2, <2>4, StoppedIsJustified, HostStep
    <2> QED
        BY <1>4, <2>3, <2>4 DEF DeleteUndefine, Branch
<1>5. CASE DeleteVolume(p)
    <2>1. /\ UNCHANGED <<index, domain>>
          /\ pc[p] = "delete_volume"
          /\ volume' \subseteq volume
        BY <1>5 DEF DeleteVolume
    <2>2. /\ ~DomainPresent
          /\ index.delete.phase # "None"
          /\ view[p].delete.plan = index.active
        BY <1>1, <2>1 DEF Justified, Truthful, ValidDeletePlan
    <2>3. HostSound'
        BY <1>1, <2>1, <2>2 DEF HostSound, DomainPresent, DomainShutoff,
           DomainRunning
    <2>4. CASE Goto(p, "delete_volume_compare")
        <3>1. OnlyMoves(p) /\ pc'[p] = "delete_volume_compare"
              /\ view'[p] = view[p]
            BY <2>4, LocalStepsAreLocal
        <3>2. Truthful(view[p])'
            BY <1>1, <2>1, <3>1 DEF Justified, Truthful, DomainPresent
        <3>3. <<index.active, NextRole(view[p])>> \notin volume'
            BY <1>5, <2>2 DEF DeleteVolume, VolumeReferenced
        <3>4. Justified(p)'
            BY <1>1, <2>1, <3>1, <3>2, <3>3 DEF Justified, NextRole
        <3> QED
            BY <2>1, <2>2, <2>3, <3>1, <3>4, HostStep DEF DomainPresent
    <2>5. CASE Stop(p)
        BY <2>1, <2>3, <2>5, StoppedIsJustified, HostStep DEF DomainPresent
    <2> QED
        BY <1>5, <2>4, <2>5 DEF DeleteVolume, Branch
<1> QED
    BY <1>3, <1>4, <1>5

\* The guest starts or stops on its own.
LEMMA PowerSteps ==
    ASSUME DeleteTypeOK, DeleteInv, PowerOn \/ PowerOff
    PROVE  DeleteInv'
<1>1. /\ UNCHANGED <<index, volume, pc, view>>
      /\ domain \in Domain
      /\ HostSound
    BY DEF PowerOn, PowerOff, durable, local, DeleteTypeOK, HostTypeOK, DeleteInv
<1>2. HostSound' /\ (~DomainPresent => ~DomainPresent')
    <2>1. CASE PowerOn
        BY <1>1, <2>1 DEF PowerOn, HostSound, Domain, DomainPresent,
           DomainShutoff, DomainRunning
    <2>2. CASE PowerOff
        BY <1>1, <2>2 DEF PowerOff, HostSound, Halted, NoDomain, Domain,
           DomainPresent, DomainShutoff, DomainRunning
    <2> QED
        BY <2>1, <2>2
<1>3. DeletionOnlyRemoves
    BY <1>1, <1>2 DEF DeletionOnlyRemoves
<1>4. Truthful(index)'
    BY <1>1, <1>2 DEF DeleteInv, Truthful
<1>5. ASSUME NEW q \in Proc PROVE Justified(q)'
    <2>1. Justified(q)
        BY DEF DeleteInv
    <2> QED
        BY <1>1, <1>2, <2>1 DEF Justified, Truthful, NextRole
<1> QED
    BY <1>2, <1>4, <1>5 DEF DeleteInv

\* The four writes: the intent and the three checkpoints.
LEMMA WriteSteps ==
    ASSUME DeleteTypeOK, DeleteInv, NEW p \in Proc,
           \/ DeleteIntentWrite(p)
           \/ DeleteDomainWrite(p)
           \/ DeleteVolumeWrite(p)
           \/ DeleteFinishWrite(p)
    PROVE  DeleteInv'
<1> USE DEF host
<1>1. Justified(p)
    BY DEF DeleteInv
<1>2. view \in [Proc -> Index \cup {NoIndex}] /\ pc \in [Proc -> DeleteLabels \cup {"idle"}]
    BY DEF DeleteTypeOK, HostTypeOK, LocalTypeOK
<1>3. pc[p] # "idle" /\ view[p] \in Index
    BY DEF DeleteTypeOK, HostTypeOK, LocalTypeOK, DeleteIntentWrite,
       DeleteDomainWrite, DeleteVolumeWrite, DeleteFinishWrite
<1>4. ASSUME NEW next, NEW label, WriteIndex(p, next, label)
      PROVE  /\ UNCHANGED <<domain, volume>>
             /\ OnlyMoves(p)
             /\ pc'[p] = label
             /\ view'[p] = next
             /\ index' = next
             /\ ValidDeletePlan(next)
    BY <1>2, <1>4 DEF WriteIndex, OnlyMoves, ValidIndex
<1>5. CASE DeleteIntentWrite(p)
    <2> DEFINE next == BeginDelete(view[p])
    <2>1. WriteIndex(p, next, "delete_domain")
        BY <1>5 DEF DeleteIntentWrite
    <2>2. /\ next.active = index.active
          /\ next.delete.phase = "Deleting"
          /\ next.delete.domain = "UndefinePending"
          /\ next.delete.pending = Disposable(next.active)
        BY <1>1, <1>3 DEF Justified, BeginDelete, Index, DeleteState
    <2> HIDE DEF next
    <2>3. Truthful(index)' /\ Justified(p)'
        BY <1>4, <2>1, <2>2 DEF Truthful, Justified
    <2> QED
        BY <1>4, <2>1, <2>2, <2>3, WriteStep
<1>6. CASE DeleteDomainWrite(p)
    <2> DEFINE next == RecordDomainAbsent(view[p])
    <2>1. WriteIndex(p, next, AfterDomain(next))
        BY <1>6 DEF DeleteDomainWrite
    <2>2. /\ next.active = index.active
          /\ next.delete.phase = "Deleting"
          /\ next.delete.domain = "Absent"
          /\ next.delete.pending = view[p].delete.pending
          /\ ~DomainPresent
          /\ Truthful(view[p])
          /\ view[p].active = index.active
          /\ view[p].delete.phase = "Deleting"
        BY <1>1, <1>3, <1>6
        DEF DeleteDomainWrite, Justified, RecordDomainAbsent, Index, DeleteState
    <2> HIDE DEF next
    <2>3. Truthful(index)' /\ Justified(p)'
        BY <1>4, <2>1, <2>2 DEF Truthful, Justified, AfterDomain, DomainPresent
    <2> QED
        BY <1>4, <2>1, <2>2, <2>3, WriteStep
<1>7. CASE DeleteVolumeWrite(p)
    <2> DEFINE role == NextRole(view[p])
               next == RecordResourceAbsent(view[p], role)
    <2>1. WriteIndex(p, next, AfterDomain(next))
        BY <1>7 DEF DeleteVolumeWrite
    <2>2. /\ next.active = index.active
          /\ next.delete.phase = "Deleting"
          /\ next.delete.domain = "Absent"
          /\ next.delete.pending = view[p].delete.pending \ {role}
          /\ <<index.active, role>> \notin volume
          /\ Truthful(view[p])
          /\ view[p].active = index.active
          /\ view[p].delete.phase = "Deleting"
          /\ view[p].delete.domain = "Absent"
        BY <1>1, <1>3, <1>7
        DEF DeleteVolumeWrite, Justified, RecordResourceAbsent, Index, DeleteState
    <2> HIDE DEF next, role
    <2>3. Truthful(index)' /\ Justified(p)'
        BY <1>4, <2>1, <2>2 DEF Truthful, Justified, AfterDomain, DomainPresent
    <2> QED
        BY <1>4, <2>1, <2>2, <2>3, WriteStep
<1>8. CASE DeleteFinishWrite(p)
    <2> DEFINE next == CompleteDelete(view[p])
    <2>1. WriteIndexAndStop(p, next)
        BY <1>8 DEF DeleteFinishWrite
    <2>2. /\ next.active = index.active
          /\ next.delete.phase = "Deleted"
          /\ next.delete.domain = "Absent"
          /\ next.delete.pending = {}
          /\ view[p].delete.domain = "Absent"
          /\ view[p].delete.pending = {}
          /\ Truthful(view[p])
          /\ view[p].active = index.active
          /\ view[p].delete.phase = "Deleting"
        BY <1>1, <1>3, <1>8
        DEF DeleteFinishWrite, CanCompleteDelete, Justified, CompleteDelete,
            Index, DeleteState
    <2> HIDE DEF next
    <2>3. index' = next /\ UNCHANGED <<domain, volume>> /\ ValidDeletePlan(next)
        BY <2>1 DEF WriteIndexAndStop, ValidIndex
    <2>4. OnlyMoves(p) /\ Justified(p)'
        BY <2>1, StoppedIsJustified DEF WriteIndexAndStop
    <2>5. Truthful(index)'
        BY <2>2, <2>3 DEF Truthful, DomainPresent
    <2> QED
        BY <2>2, <2>3, <2>4, <2>5, WriteStep
<1> QED
    BY <1>5, <1>6, <1>7, <1>8

\* A settled instance satisfies the invariant.
LEMMA DeleteInitInv == DeleteInit => DeleteInv
<1> SUFFICES ASSUME DeleteInit PROVE DeleteInv
    OBVIOUS
<1> USE DEF DeleteInit, SettledInit
<1>1. /\ index.delete = NoDelete
      /\ WithStatus(index, "Active") = {index.active}
    BY DEF SettledIndex, ValidIndex
<1>2. Truthful(index)
    BY <1>1 DEF Truthful, ValidDeletePlan, NoDelete
<1>3. VolumesOf(index.active) \subseteq volume
    BY <1>1
<1>4. \A v \in volume : v[2] \in Disposable(v[1])
    BY DEF VolumesOf
<1>5. HostSound
    BY <1>3, <1>4 DEF HostSound, Shutoff, DomainPresent, DomainShutoff, DomainRunning
<1>6. \A p \in Proc : Justified(p)
    BY DEF Justified
<1> QED
    BY <1>2, <1>5, <1>6 DEF DeleteInv

\* Every step of every deletion, crash and guest keeps the invariant.
LEMMA DeleteStepInv ==
    ASSUME DeleteTypeOK, DeleteInv, [DeleteNext]_hostVars
    PROVE  DeleteInv'
<1>1. ASSUME NEW p \in Proc, DeleteCommand(p) \/ Crash(p)
      PROVE  DeleteInv'
    BY <1>1, QuietSteps, HostSteps, WriteSteps DEF DeleteCommand, DeleteStep
<1>2. CASE PowerOn \/ PowerOff
    BY <1>2, PowerSteps
<1>3. CASE UNCHANGED hostVars
    BY <1>3 DEF hostVars, durable, host, local, DeleteInv, Truthful, HostSound,
       Justified, DomainPresent, DomainShutoff, DomainRunning, NextRole
<1> QED
    BY <1>1, <1>2, <1>3 DEF DeleteNext

\* The inductive invariant holds in every reachable state, for any number of
\* overlapping deletions with indexes of any age.
THEOREM DeleteInvariance == DeleteSpec => []DeleteInv
<1>1. DeleteInit => DeleteInv
    BY DeleteInitInv
<1>2. DeleteTypeOK /\ DeleteInv /\ [DeleteNext]_hostVars => DeleteInv'
    BY DeleteStepInv
<1> QED
    BY <1>1, <1>2, DeleteTypeCorrect, PTL DEF DeleteSpec

-----------------------------------------------------------------------------
(* The safety of deletion *)

\* While no intent to delete is on disk, no deletion has touched the domain or
\* a volume of the Active generation ("Publishes deletion intent before any
\* domain or storage mutation", begin_instance_delete).
THEOREM DeletePublishesIntentFirst == DeleteSpec => []IntentBeforeDestruction
<1>1. DeleteInv => IntentBeforeDestruction
    BY DEF DeleteInv, HostSound, IntentBeforeDestruction
<1> QED
    BY <1>1, DeleteInvariance, PTL

\* Every checkpoint on disk is true of libvirt, also when a slow process has
\* written an older one over a newer one, and a tombstone means that nothing
\* of the generation is left.
THEOREM DeleteCheckpointsAreTrue == DeleteSpec => []CheckpointsAreTrue
<1>1. DeleteTypeOK /\ DeleteInv => CheckpointsAreTrue
    <2> SUFFICES ASSUME DeleteTypeOK, DeleteInv, index.delete.phase # "None"
                 PROVE  CheckpointsAreTrue
        BY DEF CheckpointsAreTrue
    <2>1. /\ index.delete.domain = "Absent" => ~DomainPresent
          /\ \A r \in Disposable(index.active) \ index.delete.pending :
                 <<index.active, r>> \notin volume
        BY DEF DeleteInv, Truthful
    <2>2. ASSUME index.delete.phase = "Deleted", NEW r \in Role
          PROVE  <<index.active, r>> \notin volume
        <3>1. index.delete.pending = {}
            BY <2>2 DEF DeleteInv, Truthful
        <3>2. <<index.active, r>> \in volume => r \in Disposable(index.active)
            BY DEF DeleteInv, HostSound
        <3> QED
            BY <2>1, <3>1, <3>2
    <2> QED
        BY <2>1, <2>2 DEF CheckpointsAreTrue
<1> QED
    BY <1>1, DeleteInvariance, DeleteTypeCorrect, PTL

\* A domain never outlives the volumes it names, so a guest started between
\* two steps of a deletion finds its generation whole.
THEOREM DeleteKeepsDomainBootable == DeleteSpec => []NoDomainOnMissingVolumes
<1>1. DeleteTypeOK /\ DeleteInv => NoDomainOnMissingVolumes
    <2> SUFFICES ASSUME DeleteTypeOK, DeleteInv, DomainPresent
                 PROVE  VolumesOf(BoundDisk) \subseteq volume
        BY DEF NoDomainOnMissingVolumes
    <2>1. DomainShutoff \/ DomainRunning
        BY DEF DeleteTypeOK, HostTypeOK, Domain, DomainPresent, DomainShutoff,
           DomainRunning
    <2>2. BoundDisk = index.active
        BY <2>1 DEF DeleteInv, HostSound, BoundDisk, DomainShutoff, DomainRunning
    <2> QED
        BY <2>2 DEF DeleteInv, HostSound
<1> QED
    BY <1>1, DeleteInvariance, DeleteTypeCorrect, PTL

-----------------------------------------------------------------------------
(* Commands that do not overlap *)

\* The steps of a command keep the memory of the command current: it changes
\* the index only by writing the value it goes on with.
LEMMA AloneStep ==
    ASSUME DeleteTypeOK, AloneAndCurrent, [DeleteNext]_hostVars
    PROVE  AloneAndCurrent'
<1> SUFFICES ASSUME Sequential PROVE AloneAndCurrent'
    BY DEF AloneAndCurrent
<1> USE DEF durable, host
<1>1. ASSUME NEW p \in Proc, NEW label, NEW forced,
             MayStart(p), Start(p, label, NoGen, forced), UNCHANGED index
      PROVE  AloneAndCurrent'
    BY <1>1 DEF MayStart, Start, AloneAndCurrent, DeleteTypeOK, HostTypeOK, LocalTypeOK
<1>2. ASSUME NEW p \in Proc, NEW label, pc[p] # "idle", Goto(p, label),
             UNCHANGED index
      PROVE  AloneAndCurrent'
    BY <1>2 DEF Goto, AloneAndCurrent, DeleteTypeOK, HostTypeOK, LocalTypeOK
<1>3. ASSUME NEW p \in Proc, pc[p] # "idle", Stop(p)
      PROVE  AloneAndCurrent'
    BY <1>3 DEF Stop, AloneAndCurrent, DeleteTypeOK, HostTypeOK, LocalTypeOK
<1>4. ASSUME NEW p \in Proc, NEW label, NEW next, pc[p] # "idle",
             WriteIndex(p, next, label)
      PROVE  AloneAndCurrent'
    BY <1>4 DEF WriteIndex, AloneAndCurrent, DeleteTypeOK, HostTypeOK, LocalTypeOK
<1>5. ASSUME NEW p \in Proc, NEW forced, DeletePlan(p, forced) \/ DeleteResume(p, forced)
      PROVE  AloneAndCurrent'
    BY <1>1, <1>5 DEF DeletePlan, DeleteResume
<1>6. ASSUME NEW p \in Proc,
             \/ DeleteConfirm(p)
             \/ DeleteIntentCompare(p)
             \/ DeleteObserve(p)
             \/ DeleteForceStop(p)
             \/ DeleteReobserve(p)
             \/ DeleteAuthorize(p)
             \/ DeleteUndefine(p)
             \/ DeleteVerifyUndefined(p)
             \/ DeleteVolume(p)
             \/ DeleteDomainCompare(p)
             \/ DeleteVolumeCompare(p)
             \/ DeleteFinishCompare(p)
      PROVE  AloneAndCurrent'
    BY <1>2, <1>3, <1>6 DEF DeleteConfirm, DeleteIntentCompare, DeleteObserve, DeleteForceStop,
       DeleteReobserve, DeleteAuthorize, DeleteUndefine, DeleteVerifyUndefined,
       DeleteVolume, DeleteDomainCompare, DeleteVolumeCompare,
       DeleteFinishCompare, CompareIndex, Branch
<1>7. ASSUME NEW p \in Proc,
             \/ DeleteIntentWrite(p)
             \/ DeleteDomainWrite(p)
             \/ DeleteVolumeWrite(p)
             \/ DeleteFinishWrite(p)
             \/ Crash(p)
      PROVE  AloneAndCurrent'
    BY <1>3, <1>4, <1>7 DEF DeleteIntentWrite, DeleteDomainWrite,
       DeleteVolumeWrite, DeleteFinishWrite, WriteIndexAndStop, Crash
<1>8. CASE PowerOn \/ PowerOff \/ UNCHANGED hostVars
    BY <1>8 DEF PowerOn, PowerOff, hostVars, local, AloneAndCurrent
<1> QED
    BY <1>5, <1>6, <1>7, <1>8 DEF DeleteNext, DeleteCommand, DeleteStep

\* When commands do not overlap, the one that runs always holds the index
\* that is on disk: no lock is needed then.
THEOREM DeleteAloneIsCurrent == DeleteSpec => []AloneAndCurrent
<1>1. DeleteInit => AloneAndCurrent
    BY DEF DeleteInit, SettledInit, AloneAndCurrent
<1>2. DeleteTypeOK /\ AloneAndCurrent /\ [DeleteNext]_hostVars => AloneAndCurrent'
    BY AloneStep
<1> QED
    BY <1>1, <1>2, DeleteTypeCorrect, PTL DEF DeleteSpec

-----------------------------------------------------------------------------
(* What one step of a deletion can change *)

USE DEF BeforeIntent

\* The host: nothing, the domain alone, or one volume of the Active
\* generation once the domain is gone; and an intent is on disk before the
\* domain or a volume goes.
RemovesInOrder ==
    /\ UNCHANGED index
    /\ \/ UNCHANGED <<volume, DomainPresent>>
       \/ /\ DomainPresent /\ ~DomainPresent'
          /\ index.delete.phase # "None"
          /\ UNCHANGED volume
       \/ /\ UNCHANGED DomainPresent
          /\ ~DomainPresent
          /\ index.delete.phase # "None"
          /\ \E r \in Role : volume' = volume \ {<<index.active, r>>}

\* The index: a write, of the intent or of the next checkpoint.
Records(p) ==
    /\ UNCHANGED <<domain, volume>>
    /\ view[p] \in Index
    /\ \/ view[p].delete.phase = "None" /\ index' = BeginDelete(view[p])
       \/ /\ view[p].delete.phase = "Deleting"
          /\ \/ index' = RecordDomainAbsent(view[p])
             \/ \E r \in Role : index' = RecordResourceAbsent(view[p], r)
             \/ CanCompleteDelete(view[p]) /\ index' = CompleteDelete(view[p])

\* There are no other steps.
LEMMA DeleteStepKinds ==
    ASSUME DeleteTypeOK, DeleteInv, [DeleteNext]_hostVars
    PROVE  RemovesInOrder \/ \E p \in Proc : pc[p] # "idle" /\ Records(p)
<1> USE DEF durable, host
<1>1. domain \in Domain /\ HostSound
    BY DEF DeleteTypeOK, HostTypeOK, DeleteInv
<1>2. ASSUME UNCHANGED <<index, domain, volume>>
      PROVE  RemovesInOrder
    BY <1>2 DEF RemovesInOrder, DomainPresent
<1>3. ASSUME NEW p \in Proc, NEW forced, DeletePlan(p, forced) \/ DeleteResume(p, forced)
      PROVE  RemovesInOrder
    BY <1>2, <1>3 DEF DeletePlan, DeleteResume
<1>4. ASSUME NEW p \in Proc,
             \/ DeleteConfirm(p)
             \/ DeleteIntentCompare(p)
             \/ DeleteObserve(p)
             \/ DeleteReobserve(p)
             \/ DeleteAuthorize(p)
             \/ DeleteVerifyUndefined(p)
             \/ DeleteDomainCompare(p)
             \/ DeleteVolumeCompare(p)
             \/ DeleteFinishCompare(p)
             \/ Crash(p)
      PROVE  RemovesInOrder
    BY <1>2, <1>4 DEF DeleteConfirm, DeleteIntentCompare, DeleteObserve, DeleteReobserve,
       DeleteAuthorize, DeleteVerifyUndefined, DeleteDomainCompare,
       DeleteVolumeCompare, DeleteFinishCompare, CompareIndex, Crash
<1>5. ASSUME NEW p \in Proc, DeleteForceStop(p) \/ DeleteUndefine(p)
      PROVE  RemovesInOrder
    <2>1. UNCHANGED <<index, volume>> /\ index.delete.phase # "None"
        BY <1>5 DEF DeleteForceStop, DeleteUndefine, DeleteInv, Justified
    <2>2. ~DomainPresent => ~DomainPresent'
        BY <1>1, <1>5 DEF DeleteForceStop, DeleteUndefine, Halted, NoDomain,
           Domain, DomainPresent, DomainRunning
    <2> QED
        BY <2>1, <2>2 DEF RemovesInOrder, DomainPresent
<1>6. ASSUME NEW p \in Proc, DeleteVolume(p)
      PROVE  RemovesInOrder
    <2>1. /\ UNCHANGED <<index, domain>>
          /\ ~DomainPresent
          /\ index.delete.phase # "None"
          /\ view[p].delete.plan = index.active
          /\ NextRole(view[p]) \in Role
        BY <1>6 DEF DeleteVolume, DeleteInv, Justified, Truthful,
           ValidDeletePlan, NextRole, Role
    <2>2. volume' = volume \ {<<index.active, NextRole(view[p])>>}
        BY <1>6, <2>1 DEF DeleteVolume, VolumeReferenced
    <2> QED
        BY <2>1, <2>2 DEF RemovesInOrder, DomainPresent
<1>7. ASSUME NEW p \in Proc,
             \/ DeleteIntentWrite(p)
             \/ DeleteDomainWrite(p)
             \/ DeleteVolumeWrite(p)
             \/ DeleteFinishWrite(p)
      PROVE  pc[p] # "idle" /\ Records(p)
    <2>1. pc[p] # "idle" /\ view[p] \in Index /\ NextRole(view[p]) \in Role
        BY <1>7 DEF DeleteTypeOK, HostTypeOK, LocalTypeOK, DeleteIntentWrite,
           DeleteDomainWrite, DeleteVolumeWrite, DeleteFinishWrite, NextRole, Role
    <2>2. Justified(p)
        BY DEF DeleteInv
    <2> QED
        BY <1>7, <2>1, <2>2 DEF DeleteIntentWrite, DeleteDomainWrite,
           DeleteVolumeWrite, DeleteFinishWrite, WriteIndex, WriteIndexAndStop,
           Records, Justified
<1>8. CASE PowerOn \/ PowerOff
    <2>1. UNCHANGED <<index, volume>>
        BY <1>8 DEF PowerOn, PowerOff
    <2>2. \/ UNCHANGED DomainPresent
          \/ DomainPresent /\ ~DomainPresent' /\ index.delete.phase # "None"
        BY <1>1, <1>8 DEF PowerOn, PowerOff, HostSound, Halted, NoDomain,
           Domain, DomainPresent, DomainShutoff, DomainRunning
    <2> QED
        BY <2>1, <2>2 DEF RemovesInOrder
<1>9. CASE UNCHANGED hostVars
    BY <1>2, <1>9 DEF hostVars
<1> QED
    BY <1>3, <1>4, <1>5, <1>6, <1>7, <1>8, <1>9
    DEF DeleteNext, DeleteCommand, DeleteStep

-----------------------------------------------------------------------------
(* Checkpoints *)

\* When commands do not overlap, no resume takes back a checkpoint, the plan
\* or the tombstone.
THEOREM DeleteCheckpointsAdvance ==
    ASSUME Sequential
    PROVE  DeleteSpec => CheckpointsOnlyAdvance
<1> DEFINE Advance ==
        index.delete.phase # "None" =>
         /\ index'.delete.plan = index.delete.plan
         /\ index'.delete.phase \in {index.delete.phase, "Deleted"}
         /\ index.delete.domain = "Absent" => index'.delete.domain = "Absent"
         /\ index'.delete.pending \subseteq index.delete.pending
<1>1. ASSUME DeleteTypeOK, DeleteInv, AloneAndCurrent, [DeleteNext]_hostVars
      PROVE  [Advance]_index
    <2>1. CASE RemovesInOrder
        BY <2>1 DEF RemovesInOrder
    <2>2. ASSUME NEW p \in Proc, pc[p] # "idle", Records(p)
          PROVE  Advance
        <3>1. view[p] = index /\ index \in Index
            BY <1>1, <2>2 DEF AloneAndCurrent, Records
        <3> QED
            BY <2>2, <3>1 DEF Records, Index, DeleteState, BeginDelete,
               RecordDomainAbsent, RecordResourceAbsent, CompleteDelete
    <2> QED
        BY <1>1, <2>1, <2>2, DeleteStepKinds
<1>2. CheckpointsOnlyAdvance <=> [][Advance]_index
    BY DEF CheckpointsOnlyAdvance
<1> QED
    BY <1>1, <1>2, DeleteTypeCorrect, DeleteInvariance, DeleteAloneIsCurrent, PTL
    DEF DeleteSpec

-----------------------------------------------------------------------------
(* Refinement *)

\* What OwnedRemoval sees of a deletion.
Remaining == {r \in Role : <<index.active, r>> \in volume}
             \cup {d \in {"domain"} : DomainPresent}

\* A settled instance is an initial state of OwnedRemoval.
LEMMA RemovalInit == DeleteInit => Removal!Init
<1> SUFFICES ASSUME DeleteInit PROVE Removal!Init
    OBVIOUS
<1>1. DeleteTypeOK /\ DeleteInv
    BY DeleteInitTypes, DeleteInitInv
<1>2. index.delete.phase = "None" /\ DomainPresent
    BY DEF DeleteInit, SettledInit, SettledIndex, NoDelete, DomainPresent, Shutoff
<1>3. <<index.active, "WritableOverlay">> \in volume
    BY <1>1, <1>2 DEF DeleteInv, HostSound, VolumesOf, Disposable, Role
<1> DEFINE S == {r \in Role : <<index.active, r>> \in volume}
<1>4. S # {} /\ S \subseteq Role /\ Remaining = S \cup {"domain"}
    BY <1>2, <1>3 DEF Remaining, Role
<1> QED
    BY <1>2, <1>4 DEF Removal!Init, Remaining

\* The domain and the volumes go in the order OwnedRemoval demands.
LEMMA RemovalOfHost ==
    ASSUME RemovesInOrder
    PROVE  [Removal!Next]_Removal!vars
<1>1. /\ index.delete.phase # "None" <=> index'.delete.phase # "None"
      /\ index.delete.phase = "Deleted" <=> index'.delete.phase = "Deleted"
      /\ index'.active = index.active
    BY DEF RemovesInOrder
<1>2. CASE UNCHANGED <<volume, DomainPresent>>
    BY <1>1, <1>2 DEF Removal!vars, RemovesInOrder
<1>3. CASE /\ DomainPresent /\ ~DomainPresent'
           /\ index.delete.phase # "None"
           /\ UNCHANGED volume
    <2>1. "domain" \in Remaining /\ Remaining' = Remaining \ {"domain"}
        BY <1>1, <1>3 DEF Remaining, Role
    <2> QED
        BY <1>1, <1>3, <2>1
        DEF Removal!Next, Removal!Remove, Remaining, RemovesInOrder
<1>4. ASSUME NEW r \in Role, ~DomainPresent, UNCHANGED DomainPresent,
             index.delete.phase # "None",
             volume' = volume \ {<<index.active, r>>}
      PROVE  [Removal!Next]_Removal!vars
    <2>1. r # "domain" /\ "domain" \notin Remaining
        BY <1>4 DEF Remaining, Role
    <2>2. Remaining' = Remaining \ {r}
        BY <1>1, <1>4, <2>1 DEF Remaining
    <2>3. CASE r \in Remaining
        <3>1. Removal!Remove(r)
            BY <1>1, <1>4, <2>1, <2>2, <2>3
            DEF Removal!Remove, Remaining, RemovesInOrder
        <3> QED
            BY <3>1 DEF Removal!Next
    <2>4. CASE r \notin Remaining
        <3>1. Remaining' = Remaining
            BY <2>2, <2>4
        <3> QED
            BY <1>1, <3>1 DEF Removal!vars, Remaining, RemovesInOrder
    <2> QED
        BY <2>3, <2>4
<1> QED
    BY <1>2, <1>3, <1>4 DEF RemovesInOrder

\* A write is the intent, the report, invisible, or, when commands overlap,
\* a report taken back.
LEMMA RemovalOfRecord ==
    ASSUME DeleteTypeOK, DeleteInv, DeleteInv', AloneAndCurrent,
           NEW p \in Proc, pc[p] # "idle", Records(p)
    PROVE  [Removal!Next]_Removal!vars
<1>1. /\ Justified(p)
      /\ Sequential => view[p] = index
      /\ index \in Index
    BY DEF DeleteInv, AloneAndCurrent, DeleteTypeOK, HostTypeOK
<1>2. /\ index'.active = index.active
      /\ index'.delete.phase # "None"
      /\ index'.delete.phase = "Deleted" => CanCompleteDelete(view[p])
    BY <1>1 DEF Records, Justified, BeginDelete, RecordDomainAbsent,
       RecordResourceAbsent, CompleteDelete, Index, DeleteState
<1>3. Remaining' = Remaining
    BY <1>2 DEF Records, Remaining, DomainPresent
<1>4. CASE index'.delete.phase = "Deleted"
    <2>1. Remaining = {} /\ index.delete.phase # "None"
        <3>1. /\ view[p].delete.domain = "Absent"
              /\ view[p].delete.pending = {}
              /\ view[p].delete.phase = "Deleting"
              /\ view[p].active = index.active
            BY <1>1, <1>2, <1>4 DEF CanCompleteDelete, Justified
        <3>2. /\ ~DomainPresent
              /\ \A r \in Disposable(index.active) :
                     <<index.active, r>> \notin volume
            BY <1>1, <3>1 DEF Justified, Truthful
        <3>3. \A r \in Role : <<index.active, r>> \notin volume
            BY <3>2 DEF DeleteInv, HostSound
        <3>4. index.delete.phase # "None"
            BY <1>1, <3>1 DEF Justified
        <3> QED
            BY <3>2, <3>3, <3>4 DEF Remaining
    <2>2. Removal!Report
        BY <1>2, <1>3, <1>4, <2>1 DEF Removal!Report, Remaining
    <2> QED
        BY <2>2 DEF Removal!Next
<1>5. CASE index'.delete.phase # "Deleted"
    <2>1. CASE index.delete.phase = "None"
        BY <1>2, <1>3, <1>5, <2>1
        DEF Removal!Next, Removal!Intend, Remaining
    <2>2. CASE index.delete.phase = "Deleted"
        <3>1. ~Sequential
            BY <1>1, <2>2 DEF Records
        <3>2. Removal!Reopen
            BY <1>2, <1>3, <1>5, <2>2, <3>1 DEF Removal!Reopen, Remaining
        <3> QED
            BY <3>2 DEF Removal!Next
    <2>3. CASE index.delete.phase = "Deleting"
        BY <1>2, <1>3, <1>5, <2>3 DEF Removal!vars, Remaining
    <2> QED
        BY <1>1, <2>1, <2>2, <2>3 DEF Index, DeleteState
<1> QED
    BY <1>4, <1>5

\* Deletion implements OwnedRemoval: intent first, the domain before the
\* volumes, the report last and only when nothing is left.
THEOREM DeleteImplementsRemoval == DeleteSpec => RemovalSpec
<1>1. DeleteInit => Removal!Init
    BY RemovalInit
<1>2. ASSUME DeleteTypeOK, DeleteInv, DeleteInv', AloneAndCurrent,
             [DeleteNext]_hostVars
      PROVE  [Removal!Next]_Removal!vars
    BY <1>2, DeleteStepKinds, RemovalOfHost, RemovalOfRecord
<1> QED
    BY <1>1, <1>2, DeleteTypeCorrect, DeleteInvariance, DeleteAloneIsCurrent, PTL
    DEF DeleteSpec, RemovalSpec, Removal!Spec

(***************************************************************************)
(* "forge vm cleanup"                                                      *)
(***************************************************************************)

-----------------------------------------------------------------------------
(* Type correctness *)

\* The steps that leave the index alone keep everything typed.
LEMMA CleanupQuietTypes ==
    ASSUME CleanupTypeOK, NEW p \in Proc,
           \/ \E g \in Gen : CleanupPlan(p, g)
           \/ CleanupConfirm(p)
           \/ CleanupRevalidate(p)
           \/ CleanupBeginCompare(p)
           \/ CleanupSeedCompare(p)
           \/ CleanupIncompleteCompare(p)
           \/ CleanupFinishCompare(p)
           \/ CleanupSeed(p)
           \/ CleanupOverlay(p)
    PROVE  CleanupTypeOK'
<1>1. WorkTypeOK(CleanupLabels)
    BY DEF CleanupTypeOK, WorkTypeOK
<1>2. ASSUME UNCHANGED <<index, manifest, domain>>,
             volume' \subseteq volume, faults' \in 0..MaxFaults,
             \/ Stop(p)
             \/ \E label \in CleanupLabels : pc[p] # "idle" /\ Goto(p, label)
             \/ \E label \in CleanupLabels, g \in Gen : Start(p, label, g, FALSE)
      PROVE  CleanupTypeOK'
    BY <1>1, <1>2, MoveTypes DEF CleanupTypeOK, WorkTypeOK, HostTypeOK
<1>3. faults \in 0..MaxFaults
    BY DEF CleanupTypeOK, HostTypeOK
<1> USE DEF CleanupLabels, durable, host
<1>4. ASSUME NEW g \in Gen, CleanupPlan(p, g)
      PROVE  CleanupTypeOK'
    BY <1>2, <1>3, <1>4 DEF CleanupPlan
<1>5. ASSUME CleanupConfirm(p) \/ CleanupRevalidate(p)
      PROVE  CleanupTypeOK'
    BY <1>2, <1>3, <1>5 DEF CleanupConfirm, CleanupRevalidate, Branch
<1>6. ASSUME \/ CleanupBeginCompare(p)
             \/ CleanupSeedCompare(p)
             \/ CleanupIncompleteCompare(p)
             \/ CleanupFinishCompare(p)
      PROVE  CleanupTypeOK'
    BY <1>2, <1>3, <1>6 DEF CleanupBeginCompare, CleanupSeedCompare,
       CleanupIncompleteCompare, CleanupFinishCompare, CompareIndex, Branch
<1>7. ASSUME CleanupSeed(p)
      PROVE  CleanupTypeOK'
    BY <1>2, <1>3, <1>7 DEF CleanupSeed, Branch
<1>8. ASSUME CleanupOverlay(p)
      PROVE  CleanupTypeOK'
    <2>1. /\ pc[p] = "cleanup_overlay"
          /\ UNCHANGED <<index, manifest, domain>>
          /\ volume' \subseteq volume
          /\ UNCHANGED faults \/ Strike("backend")
          /\ \/ Stop(p)
             \/ Goto(p, "cleanup_finish_compare")
             \/ Goto(p, "cleanup_incomplete_compare")
        BY <1>8 DEF CleanupOverlay, CleanupOverlayFailed, Branch
    <2>2. faults' \in 0..MaxFaults
        BY <1>3, <2>1, StrikeTypes
    <2> QED
        BY <1>2, <2>1, <2>2
<1> QED
    BY <1>4, <1>5, <1>6, <1>7, <1>8

\* The writes of the index keep everything typed.
LEMMA CleanupWriteTypes ==
    ASSUME CleanupTypeOK, NEW p \in Proc,
           \/ CleanupBeginWrite(p)
           \/ CleanupSeedWrite(p)
           \/ CleanupIncompleteWrite(p)
           \/ CleanupFinishWrite(p)
    PROVE  CleanupTypeOK'
<1> DEFINE v == view[p]
           g == target[p]
<1>1. pc[p] # "idle" /\ v \in Index /\ g \in Gen
    BY DEF CleanupTypeOK, HostTypeOK, LocalTypeOK, CleanupBeginWrite,
       CleanupSeedWrite, CleanupIncompleteWrite, CleanupFinishWrite
<1>2. FirstPhase(g) \in CleanupPhase
    BY DEF FirstPhase, CleanupPhase
<1>3. /\ BeginCleanup(v, g, FirstPhase(g)) \in Index
      /\ RecordSeedDeleted(v, g) \in Index
      /\ RecordCleanupIncomplete(v, g) \in Index
      /\ CompleteCleanup(v, g) \in Index
    BY <1>1, <1>2, TransitionTypes DEF Role
<1>4. ASSUME NEW next \in Index, NEW label \in CleanupLabels,
             WriteIndex(p, next, label) \/ WriteIndexAndStop(p, next)
      PROVE  CleanupTypeOK'
    BY <1>1, <1>4, WorkWriteTypes DEF CleanupTypeOK, WorkTypeOK
<1>5. /\ "cleanup_seed" \in CleanupLabels
      /\ "cleanup_overlay" \in CleanupLabels
    BY DEF CleanupLabels
<1>6. CASE CleanupBeginWrite(p)
    BY <1>3, <1>4, <1>5, <1>6 DEF CleanupBeginWrite
<1>7. CASE CleanupSeedWrite(p)
    BY <1>3, <1>4, <1>5, <1>7 DEF CleanupSeedWrite
<1>8. CASE CleanupIncompleteWrite(p)
    BY <1>3, <1>4, <1>5, <1>8 DEF CleanupIncompleteWrite
<1>9. CASE CleanupFinishWrite(p)
    BY <1>3, <1>4, <1>5, <1>9 DEF CleanupFinishWrite
<1> QED
    BY <1>6, <1>7, <1>8, <1>9

\* Every step keeps the types.
LEMMA CleanupStepTypes ==
    ASSUME CleanupTypeOK, [CleanupNext]_hostVars
    PROVE  CleanupTypeOK'
<1>1. ASSUME NEW p \in Proc, CleanupCommand(p)
      PROVE  CleanupTypeOK'
    BY <1>1, CleanupQuietTypes, CleanupWriteTypes DEF CleanupCommand
<1>2. ASSUME \/ \E p \in Proc : Crash(p)
             \/ PowerOn
             \/ PowerOff
             \/ UNCHANGED hostVars
      PROVE  CleanupTypeOK'
    BY <1>2, WorkSharedTypes DEF CleanupTypeOK, WorkTypeOK
<1> QED
    BY <1>1, <1>2 DEF CleanupNext

\* Every reachable state of any number of cleanups is typed.
THEOREM CleanupTypeCorrect == CleanupSpec => []CleanupTypeOK
<1>1. CleanupInit => CleanupTypeOK
    BY WorkInitTypes DEF CleanupInit, CleanupTypeOK, WorkTypeOK
<1>2. CleanupTypeOK /\ [CleanupNext]_hostVars => CleanupTypeOK'
    BY CleanupStepTypes
<1> QED
    BY <1>1, <1>2, PTL DEF CleanupSpec

-----------------------------------------------------------------------------
(* The inductive invariant *)

\* The domain uses the Active generation, and no cleanup undefines it.
ServesActive ==
    /\ domain.persistent
    /\ domain.state \in {"shutoff", "running"}
    /\ domain.disk = index.active
    /\ DomainRunning => domain.live = index.active

\* No generation but g could be cleaned up: no other cleanup is on record and
\* every other Retained generation has lost a volume.
OnlyCleanable(g) ==
    \A h \in Gen \ {g} :
        /\ index.progress[h] = "None"
        /\ index.status[h] = "Retained" => ~(VolumesOf(h) \subseteq volume)

\* The cleanup of g is or was on disk.
Recorded(g) == index.progress[g] # "None" \/ index.status[g] = "Cleaned"

BeforeBegin == {"cleanup_confirm", "cleanup_revalidate",
                "cleanup_begin_compare", "cleanup_begin_write"}
AtSeed == {"cleanup_seed", "cleanup_seed_compare", "cleanup_seed_write"}
SeedGoneAt == {"cleanup_seed_compare", "cleanup_seed_write"}
AtIncomplete == {"cleanup_incomplete_compare", "cleanup_incomplete_write"}
AtFinish == {"cleanup_finish_compare", "cleanup_finish_write"}
AtOverlay == {"cleanup_overlay"} \cup AtIncomplete \cup AtFinish

\* What a process that cleans up g with index i knows at the step it is at.
Knows(at, i, g) ==
    /\ ValidIndex(i)
    /\ i.status[g] = "Retained"
    /\ at \in BeforeBegin => i.progress[g] = "None"
    /\ at \notin BeforeBegin => Recorded(g)
    /\ at \in AtSeed => g \in Seeded /\ i.progress[g] = "SeedDeletePending"
    /\ at \in AtOverlay => i.progress[g] = LastPhase(g)
    /\ at \in AtIncomplete => g \in Seeded
    /\ at \in SeedGoneAt \/ (at \in AtOverlay /\ g \in Seeded)
           => <<g, "NoCloudSeed">> \notin volume
    /\ at \in AtFinish => OverlayOf(g) \notin volume

\* Overlapping cleanups work on the same generation, the only one that can
\* be cleaned up, and their indexes differ from the one on disk only in what
\* they say of it.
CleanupInv ==
    /\ ValidIndex(index)
    /\ index.delete.phase = "None"
    /\ ServesActive
    /\ OwnedVolumesExist
    /\ CleanupRecordsAreTrue
    /\ \A p, q \in Proc : pc[p] # "idle" /\ pc[q] # "idle" => target[p] = target[q]
    /\ \A p \in Proc : pc[p] # "idle" =>
           /\ OnlyCleanable(target[p])
           /\ Agree(view[p], index, target[p])
           /\ Knows(pc[p], view[p], target[p])

-----------------------------------------------------------------------------
(* What keeps the invariant *)

\* A process that moves, and one that starts, keep the invariant when the
\* others work on the same generation, nothing comes back and nothing but
\* that generation is written.
LEMMA CleanupMoveKeepsInv ==
    ASSUME CleanupTypeOK, CleanupInv, NEW p \in Proc, NEW g \in Gen,
           \A q \in Proc : pc[q] # "idle" => target[q] = g,
           OnlyCleanable(g),
           OnlyMoves(p),
           Agree(index', index, g),
           volume' \subseteq volume,
           Recorded(g) => Recorded(g)',
           ValidIndex(index)', ServesActive',
           OwnedVolumesExist', CleanupRecordsAreTrue',
           \/ pc'[p] = "idle"
           \/ /\ target'[p] = g
              /\ Agree(view[p], index, g)'
              /\ Knows(pc[p], view[p], g)'
    PROVE  CleanupInv'
<1>1. index'.delete.phase = "None"
    BY DEF CleanupInv, Agree
<1>2. \A q \in Proc : pc'[q] # "idle" => target'[q] = g
    BY DEF OnlyMoves
<1>3. OnlyCleanable(g)'
    BY DEF OnlyCleanable, Agree
<1>4. ASSUME NEW q \in Proc, pc'[q] # "idle", q # p
      PROVE  /\ Agree(view[q], index, g)'
             /\ Knows(pc[q], view[q], g)'
    <2>1. pc'[q] = pc[q] /\ view'[q] = view[q] /\ target[q] = g
        BY <1>4 DEF OnlyMoves
    <2>2. Agree(view[q], index, g) /\ Knows(pc[q], view[q], g)
        BY <1>4, <2>1 DEF CleanupInv
    <2>3. Agree(view[q], index, g)'
        BY <2>1, <2>2 DEF Agree
    <2>4. Knows(pc[q], view[q], g)'
        BY <2>1, <2>2 DEF Knows
    <2> QED
        BY <2>3, <2>4
<1>5. \A q \in Proc : pc'[q] # "idle" =>
          /\ OnlyCleanable(target[q])'
          /\ Agree(view[q], index, target[q])'
          /\ Knows(pc[q], view[q], target[q])'
    BY <1>2, <1>3, <1>4
<1> QED
    BY <1>1, <1>2, <1>5 DEF CleanupInv

\* The same for a step that leaves the index and the host alone.
LEMMA CleanupQuietKeepsInv ==
    ASSUME CleanupTypeOK, CleanupInv, NEW p \in Proc, NEW g \in Gen,
           \A q \in Proc : pc[q] # "idle" => target[q] = g,
           OnlyCleanable(g),
           OnlyMoves(p),
           UNCHANGED <<index, domain, volume>>,
           \/ pc'[p] = "idle"
           \/ /\ target'[p] = g
              /\ Agree(view[p], index, g)'
              /\ Knows(pc[p], view[p], g)'
    PROVE  CleanupInv'
<1>1. Agree(index', index, g) /\ (Recorded(g) => Recorded(g)')
    BY DEF Agree, Recorded
<1>2. ValidIndex(index)' /\ ServesActive'
    BY DEF CleanupInv, ServesActive, DomainRunning
<1>3. OwnedVolumesExist' /\ CleanupRecordsAreTrue'
    BY DEF CleanupInv, OwnedVolumesExist, CleanupRecordsAreTrue
<1> QED
    BY <1>1, <1>2, <1>3, CleanupMoveKeepsInv

-----------------------------------------------------------------------------
(* The steps keep the invariant *)

\* A process that plans a cleanup while others work finds no other candidate
\* than their generation: no domain refers to a Retained generation, so every
\* complete one is a candidate.
LEMMA CleanupPlanKeepsInv ==
    ASSUME CleanupTypeOK, CleanupInv, NEW p \in Proc, NEW g \in Gen,
           CleanupPlan(p, g)
    PROVE  CleanupInv'
<1>1. /\ CleanupPlannable(index)
      /\ Candidates(index) = {g}
      /\ Start(p, "cleanup_confirm", g, FALSE)
      /\ UNCHANGED <<index, domain, volume>>
    BY DEF CleanupPlan, durable, host
<1>2. \A h \in Gen : VolumeReferenced(h) => h = index.active
    BY DEF VolumeReferenced, BoundDisk, CleanupInv, ServesActive
<1>3. \A h \in Gen : index.status[h] = "Retained" => h # index.active
    BY DEF CleanupInv, ValidIndex, WithStatus
<1>4. \A h \in Gen : index.status[h] = "Retained" /\ VolumesOf(h) \subseteq volume
                     => h = g
    BY <1>1, <1>2, <1>3 DEF Candidates, WithStatus
<1>5. index.status[g] = "Retained" /\ VolumesOf(g) \subseteq volume
    BY <1>1 DEF Candidates, WithStatus
<1>6. \A h \in Gen : index.progress[h] = "None"
    BY <1>1 DEF CleanupPlannable
<1>7. OnlyCleanable(g)
    BY <1>4, <1>6 DEF OnlyCleanable
<1>8. \A q \in Proc : pc[q] # "idle" => target[q] = g
    <2> SUFFICES ASSUME NEW q \in Proc, pc[q] # "idle", target[q] # g
                 PROVE  FALSE
        OBVIOUS
    <2>1. OnlyCleanable(target[q])
        BY DEF CleanupInv
    <2> QED
        BY <1>5, <2>1 DEF OnlyCleanable
<1>9. /\ OnlyMoves(p) /\ target'[p] = g
      /\ pc'[p] = "cleanup_confirm" /\ view'[p] = index
    BY <1>1, StepsAreLocal DEF CleanupTypeOK, HostTypeOK
<1>10. Agree(view[p], index, g)'
    BY <1>1, <1>9 DEF Agree
<1>11. Knows(pc[p], view[p], g)'
    BY <1>1, <1>5, <1>6, <1>9
    DEF Knows, CleanupInv, BeforeBegin, AtSeed, AtOverlay, AtIncomplete,
        AtFinish, SeedGoneAt
<1> QED
    BY <1>1, <1>7, <1>8, <1>9, <1>10, <1>11, CleanupQuietKeepsInv

\* What a process knows while it works.
LEMMA CleanupWorkerKnows ==
    ASSUME CleanupTypeOK, CleanupInv, NEW p \in Proc, pc[p] # "idle"
    PROVE  /\ target[p] \in Gen
           /\ view[p] \in Index
           /\ \A q \in Proc : pc[q] # "idle" => target[q] = target[p]
           /\ OnlyCleanable(target[p])
           /\ Agree(view[p], index, target[p])
           /\ Knows(pc[p], view[p], target[p])
    BY DEF CleanupTypeOK, HostTypeOK, LocalTypeOK, CleanupInv

\* Confirming, revalidating, comparing and crashing.
LEMMA CleanupQuietStepsKeepInv ==
    ASSUME CleanupTypeOK, CleanupInv, NEW p \in Proc,
           \/ CleanupConfirm(p)
           \/ CleanupRevalidate(p)
           \/ CleanupBeginCompare(p)
           \/ CleanupSeedCompare(p)
           \/ CleanupIncompleteCompare(p)
           \/ CleanupFinishCompare(p)
           \/ Crash(p)
    PROVE  CleanupInv'
<1> USE DEF durable, host
<1> DEFINE g == target[p]
<1>1. ASSUME pc[p] # "idle", UNCHANGED <<index, domain, volume>>,
             \/ Stop(p)
             \/ \E label : Goto(p, label) /\ Knows(label, view[p], g)
      PROVE  CleanupInv'
    <2>1. /\ g \in Gen
          /\ \A q \in Proc : pc[q] # "idle" => target[q] = g
          /\ OnlyCleanable(g)
          /\ Agree(view[p], index, g)
        BY <1>1, CleanupWorkerKnows
    <2>2. CASE Stop(p)
        BY <1>1, <2>1, <2>2, StepsAreLocal, CleanupQuietKeepsInv
        DEF CleanupTypeOK, HostTypeOK
    <2>3. ASSUME NEW label, Goto(p, label), Knows(label, view[p], g)
          PROVE  CleanupInv'
        <3>1. /\ OnlyMoves(p) /\ target'[p] = g
              /\ pc'[p] = label /\ view'[p] = view[p]
            BY <2>3, StepsAreLocal DEF CleanupTypeOK, HostTypeOK
        <3>2. Agree(view[p], index, g)'
            BY <1>1, <2>1, <3>1 DEF Agree
        <3>3. Knows(pc[p], view[p], g)'
            BY <1>1, <2>3, <3>1 DEF Knows, Recorded
        <3> QED
            BY <1>1, <2>1, <3>1, <3>2, <3>3, CleanupQuietKeepsInv
    <2> QED
        BY <1>1, <2>2, <2>3
<1>2. pc[p] # "idle" => Knows(pc[p], view[p], g)
    BY CleanupWorkerKnows
<1> DEFINE Steps == /\ pc[p] # "idle"
                    /\ UNCHANGED <<index, domain, volume>>
                    /\ \/ Stop(p)
                       \/ \E label : Goto(p, label) /\ Knows(label, view[p], g)
<1> USE DEF Knows, BeforeBegin, AtSeed, AtOverlay, AtIncomplete, AtFinish,
            SeedGoneAt
<1>3. CASE CleanupConfirm(p) \/ CleanupRevalidate(p) \/ CleanupBeginCompare(p)
    <2>1. Steps
        BY <1>2, <1>3 DEF CleanupConfirm, CleanupRevalidate,
           CleanupBeginCompare, CompareIndex, Branch
    <2> QED
        BY <1>1, <2>1
<1>4. CASE CleanupSeedCompare(p) \/ CleanupIncompleteCompare(p)
           \/ CleanupFinishCompare(p)
    <2>1. Steps
        BY <1>2, <1>4 DEF CleanupSeedCompare, CleanupIncompleteCompare,
           CleanupFinishCompare, CompareIndex, Branch
    <2> QED
        BY <1>1, <2>1
<1>5. CASE Crash(p)
    BY <1>1, <1>5 DEF Crash
<1> QED
    BY <1>3, <1>4, <1>5

\* While the cleanup of a generation is on record, one of its volumes may go.
LEMMA VolumeGoneKeepsHost ==
    ASSUME CleanupTypeOK, CleanupInv, NEW g \in Gen, NEW r \in Role,
           Recorded(g), UNCHANGED <<index, domain>>,
           volume' = volume \/ volume' = volume \ {<<g, r>>}
    PROVE  /\ Agree(index', index, g)
           /\ volume' \subseteq volume
           /\ Recorded(g)'
           /\ ValidIndex(index)'
           /\ ServesActive'
           /\ OwnedVolumesExist'
           /\ CleanupRecordsAreTrue'
<1>1. Agree(index', index, g) /\ Recorded(g)' /\ ValidIndex(index)'
    BY DEF Agree, Recorded, CleanupInv
<1>2. ServesActive'
    BY DEF CleanupInv, ServesActive, DomainRunning
<1>3. CleanupRecordsAreTrue'
    BY DEF CleanupInv, CleanupRecordsAreTrue
<1>4. ASSUME NEW h \in Gen,
             index.status[h] \in {"Active", "Retained"}, index.progress[h] = "None"
      PROVE  VolumesOf(h) \subseteq volume'
    <2>1. h # g
        BY <1>4 DEF Recorded
    <2>2. VolumesOf(h) \subseteq volume
        BY <1>4 DEF CleanupInv, OwnedVolumesExist, WithStatus
    <2> QED
        BY <2>1, <2>2 DEF VolumesOf
<1>5. OwnedVolumesExist'
    BY <1>4 DEF OwnedVolumesExist, WithStatus
<1> QED
    BY <1>1, <1>2, <1>3, <1>5

\* The deletes of the seed and of the overlay.
LEMMA CleanupHostStepsKeepInv ==
    ASSUME CleanupTypeOK, CleanupInv, NEW p \in Proc,
           CleanupSeed(p) \/ CleanupOverlay(p)
    PROVE  CleanupInv'
<1> DEFINE g == target[p]
<1> USE DEF durable, host
<1>1. /\ g \in Gen
      /\ \A q \in Proc : pc[q] # "idle" => target[q] = g
      /\ OnlyCleanable(g)
      /\ Agree(view[p], index, g)
      /\ Knows(pc[p], view[p], g)
    BY CleanupWorkerKnows DEF CleanupSeed, CleanupOverlay
<1>2. ASSUME NEW r \in Role, Recorded(g), UNCHANGED <<index, domain>>,
             volume' = volume \/ volume' = volume \ {<<g, r>>},
             OnlyMoves(p),
             \/ pc'[p] = "idle"
             \/ /\ target'[p] = g /\ view'[p] = view[p]
                /\ Knows(pc[p], view[p], g)'
      PROVE  CleanupInv'
    <2>1. Agree(view[p], index, g)' \/ pc'[p] = "idle"
        BY <1>1, <1>2 DEF Agree
    <2> QED
        BY <1>1, <1>2, <2>1, VolumeGoneKeepsHost, CleanupMoveKeepsInv
<1>3. \A label : Goto(p, label) =>
          /\ OnlyMoves(p) /\ pc'[p] = label
          /\ target'[p] = g /\ view'[p] = view[p]
    BY StepsAreLocal DEF CleanupTypeOK, HostTypeOK
<1>4. Stop(p) => OnlyMoves(p) /\ pc'[p] = "idle"
    BY StepsAreLocal DEF CleanupTypeOK, HostTypeOK
<1> USE DEF Knows, BeforeBegin, AtSeed, AtOverlay, AtIncomplete, AtFinish,
            SeedGoneAt
<1>5. CASE CleanupSeed(p)
    <2>1. /\ pc[p] = "cleanup_seed" /\ UNCHANGED <<index, domain>>
          /\ volume' = volume \/ volume' = volume \ {<<g, "NoCloudSeed">>}
          /\ \/ Stop(p)
             \/ /\ Goto(p, "cleanup_seed_compare")
                /\ volume' = volume \ {<<g, "NoCloudSeed">>}
        BY <1>5 DEF CleanupSeed, Branch
    <2>2. Recorded(g) /\ "NoCloudSeed" \in Role
        BY <1>1, <2>1 DEF Role
    <2>3. CASE Stop(p)
        BY <1>2, <1>4, <2>1, <2>2, <2>3
    <2>4. CASE /\ Goto(p, "cleanup_seed_compare")
               /\ volume' = volume \ {<<g, "NoCloudSeed">>}
        <3>1. /\ OnlyMoves(p) /\ pc'[p] = "cleanup_seed_compare"
              /\ target'[p] = g /\ view'[p] = view[p]
            BY <1>3, <2>4
        <3>2. Knows(pc[p], view[p], g)'
            BY <1>1, <2>1, <2>4, <3>1 DEF Recorded
        <3> QED
            BY <1>2, <2>1, <2>2, <3>1, <3>2
    <2> QED
        BY <2>1, <2>3, <2>4
<1>6. CASE CleanupOverlay(p)
    <2>1. /\ pc[p] = "cleanup_overlay" /\ UNCHANGED <<index, domain>>
          /\ volume' = volume \/ volume' = volume \ {<<g, "WritableOverlay">>}
          /\ \/ Stop(p)
             \/ /\ Goto(p, "cleanup_finish_compare")
                /\ volume' = volume \ {OverlayOf(g)}
             \/ /\ Goto(p, "cleanup_incomplete_compare")
                /\ g \in Seeded
                /\ volume' = volume
        BY <1>6 DEF CleanupOverlay, CleanupOverlayFailed, Branch, OverlayOf
    <2>2. Recorded(g) /\ "WritableOverlay" \in Role
        BY <1>1, <2>1 DEF Role
    <2>3. CASE Stop(p)
        BY <1>2, <1>4, <2>1, <2>2, <2>3
    <2>4. CASE /\ Goto(p, "cleanup_finish_compare")
               /\ volume' = volume \ {OverlayOf(g)}
        <3>1. /\ OnlyMoves(p) /\ pc'[p] = "cleanup_finish_compare"
              /\ target'[p] = g /\ view'[p] = view[p]
            BY <1>3, <2>4
        <3>2. Knows(pc[p], view[p], g)'
            BY <1>1, <2>1, <2>4, <3>1 DEF Recorded
        <3> QED
            BY <1>2, <2>1, <2>2, <3>1, <3>2
    <2>5. CASE /\ Goto(p, "cleanup_incomplete_compare")
               /\ g \in Seeded
               /\ volume' = volume
        <3>1. /\ OnlyMoves(p) /\ pc'[p] = "cleanup_incomplete_compare"
              /\ target'[p] = g /\ view'[p] = view[p]
            BY <1>3, <2>5
        <3>2. Knows(pc[p], view[p], g)'
            BY <1>1, <2>1, <2>5, <3>1 DEF Recorded
        <3> QED
            BY <1>2, <2>1, <2>2, <3>1, <3>2
    <2> QED
        BY <2>1, <2>3, <2>4, <2>5
<1> QED
    BY <1>5, <1>6

\* A write that says of g only what is true, and of the others what was said,
\* keeps the invariant.
LEMMA CleanupWriteKeepsInv ==
    ASSUME CleanupTypeOK, CleanupInv, NEW p \in Proc, NEW next \in Index,
           NEW g \in Gen, pc[p] # "idle", target[p] = g, NEW label,
           Agree(next, view[p], g),
           next.progress[g] # "None" \/ next.status[g] = "Cleaned",
           next.status[g] = "Cleaned"
               => VolumesOf(g) \cap volume = {},
           next.status[g] \in {"Retained", "Cleaned"},
           next.progress[g] \in {"OverlayDeletePending", "IncompleteAfterSeed"}
               => <<g, "NoCloudSeed">> \notin volume,
           \/ WriteIndexAndStop(p, next)
           \/ /\ WriteIndex(p, next, label)
              /\ Recorded(g)' => Knows(label, next, g)'
    PROVE  CleanupInv'
<1> USE DEF durable, host
<1>1. /\ \A q \in Proc : pc[q] # "idle" => target[q] = g
      /\ OnlyCleanable(g)
      /\ Agree(view[p], index, g)
    BY CleanupWorkerKnows
<1>2. index' = next /\ ValidIndex(next) /\ UNCHANGED <<domain, volume>>
    BY DEF WriteIndex, WriteIndexAndStop
<1>3. Agree(index', index, g)
    BY <1>1, <1>2 DEF Agree
<1>4. Recorded(g)'
    BY <1>1, <1>2 DEF Recorded
<1>5. ValidIndex(index)' /\ ServesActive'
    BY <1>2, <1>3 DEF CleanupInv, ServesActive, DomainRunning, Agree, ValidIndex
<1>6. OwnedVolumesExist'
    <2> SUFFICES ASSUME NEW h \in Gen,
                        index'.status[h] \in {"Active", "Retained"},
                        index'.progress[h] = "None"
                 PROVE  VolumesOf(h) \subseteq volume'
        BY DEF OwnedVolumesExist, WithStatus
    <2>1. h # g
        BY <1>2
    <2>2. h \in WithStatus(index, "Active") \cup WithStatus(index, "Retained")
          /\ index.progress[h] = "None"
        BY <1>3, <2>1 DEF Agree, WithStatus
    <2> QED
        BY <1>2, <2>2 DEF CleanupInv, OwnedVolumesExist
<1>7. CleanupRecordsAreTrue'
    <2> SUFFICES ASSUME NEW h \in Gen
                 PROVE  /\ index'.status[h] = "Cleaned"
                               => VolumesOf(h) \cap volume' = {}
                        /\ index'.progress[h] \in
                               {"OverlayDeletePending", "IncompleteAfterSeed"}
                               => <<h, "NoCloudSeed">> \notin volume'
        BY DEF CleanupRecordsAreTrue
    <2>1. CASE h = g
        BY <1>2, <2>1
    <2>2. CASE h # g
        BY <1>2, <1>3, <2>2 DEF CleanupInv, CleanupRecordsAreTrue, Agree
    <2> QED
        BY <2>1, <2>2
<1>8. CASE WriteIndexAndStop(p, next)
    <2>1. OnlyMoves(p) /\ pc'[p] = "idle"
        BY <1>8, StepsAreLocal DEF WriteIndexAndStop, CleanupTypeOK, HostTypeOK
    <2> QED
        BY <1>1, <1>2, <1>3, <1>4, <1>5, <1>6, <1>7, <2>1, CleanupMoveKeepsInv
<1>9. CASE WriteIndex(p, next, label) /\ Knows(label, next, g)'
    <2>1. /\ OnlyMoves(p) /\ pc'[p] = label
          /\ target'[p] = g /\ view'[p] = next
        BY <1>9, StepsAreLocal DEF CleanupTypeOK, HostTypeOK
    <2>2. Agree(view[p], index, g)' /\ Knows(pc[p], view[p], g)'
        BY <1>2, <1>9, <2>1 DEF Agree, Knows
    <2> QED
        BY <1>1, <1>2, <1>3, <1>4, <1>5, <1>6, <1>7, <2>1, <2>2,
           CleanupMoveKeepsInv
<1> QED
    BY <1>4, <1>8, <1>9

\* The checkpoints and the completion.
LEMMA CleanupWriteStepsKeepInv ==
    ASSUME CleanupTypeOK, CleanupInv, NEW p \in Proc,
           \/ CleanupBeginWrite(p)
           \/ CleanupSeedWrite(p)
           \/ CleanupIncompleteWrite(p)
           \/ CleanupFinishWrite(p)
    PROVE  CleanupInv'
<1>1. PICK g \in Gen, v \in Index :
         /\ pc[p] # "idle" /\ g = target[p] /\ v = view[p]
         /\ Knows(pc[p], v, g)
    BY CleanupWorkerKnows DEF CleanupBeginWrite, CleanupSeedWrite,
       CleanupIncompleteWrite, CleanupFinishWrite
<1>2. FirstPhase(g) \in CleanupPhase
    BY DEF FirstPhase, CleanupPhase
<1>3. /\ BeginCleanup(v, g, FirstPhase(g)) \in Index
      /\ RecordSeedDeleted(v, g) \in Index
      /\ RecordCleanupIncomplete(v, g) \in Index
      /\ CompleteCleanup(v, g) \in Index
    BY <1>1, <1>2, TransitionTypes DEF Role
<1>4. CASE CleanupBeginWrite(p)
    <2>. PICK next \in Index : next = BeginCleanup(v, g, FirstPhase(g))
        BY <1>3
    <2>1. /\ pc[p] = "cleanup_begin_write"
          /\ ValidIndex(next)
          /\ \/ g \in Seeded /\ WriteIndex(p, next, "cleanup_seed")
             \/ g \notin Seeded /\ WriteIndex(p, next, "cleanup_overlay")
        BY <1>1, <1>4 DEF CleanupBeginWrite, WriteIndex
    <2>2. /\ Agree(next, v, g) /\ next.status[g] = "Retained"
          /\ next.progress[g] = FirstPhase(g)
        BY <1>1, <1>2, CleanupTransitionFields DEF Knows
    <2>3. FirstPhase(g) \notin {"None", "OverlayDeletePending", "IncompleteAfterSeed"}
        BY DEF FirstPhase
    <2>4. CASE g \in Seeded
        <3>1. Recorded(g)' => Knows("cleanup_seed", next, g)'
            BY <2>1, <2>2, <2>4
            DEF FirstPhase, Knows, BeforeBegin, AtSeed, AtOverlay, AtIncomplete, AtFinish,
               SeedGoneAt
        <3> QED
            BY <1>1, <2>1, <2>2, <2>3, <2>4, <3>1, CleanupWriteKeepsInv
    <2>5. CASE g \notin Seeded
        <3>1. Recorded(g)' => Knows("cleanup_overlay", next, g)'
            BY <2>1, <2>2, <2>5
            DEF FirstPhase, LastPhase, Knows, BeforeBegin, AtSeed, AtOverlay, AtIncomplete, AtFinish,
               SeedGoneAt
        <3> QED
            BY <1>1, <2>1, <2>2, <2>3, <2>5, <3>1, CleanupWriteKeepsInv
    <2> QED
        BY <2>4, <2>5
<1>5. CASE CleanupSeedWrite(p)
    <2>. PICK next \in Index : next = RecordSeedDeleted(v, g)
        BY <1>3
    <2>1. /\ pc[p] = "cleanup_seed_write" /\ UNCHANGED volume
          /\ ValidIndex(next) /\ WriteIndex(p, next, "cleanup_overlay")
        BY <1>1, <1>5 DEF CleanupSeedWrite, WriteIndex, host
    <2>2. /\ Agree(next, v, g) /\ next.status[g] = "Retained"
          /\ next.progress[g] = "OverlayDeletePending"
        BY <1>1, <1>2, CleanupTransitionFields DEF Knows
    <2>3. <<g, "NoCloudSeed">> \notin volume
        BY <1>1, <2>1 DEF Knows, SeedGoneAt
    <2>4. Recorded(g)' => Knows("cleanup_overlay", next, g)'
        BY <1>1, <2>1, <2>2, <2>3
        DEF LastPhase, Knows, BeforeBegin, AtSeed, AtOverlay, AtIncomplete, AtFinish,
               SeedGoneAt
    <2> QED
        BY <1>1, <2>1, <2>2, <2>3, <2>4, CleanupWriteKeepsInv
<1>6. CASE CleanupIncompleteWrite(p)
    <2>. PICK next \in Index : next = RecordCleanupIncomplete(v, g)
        BY <1>3
    <2>1. pc[p] = "cleanup_incomplete_write" /\ WriteIndexAndStop(p, next)
        BY <1>1, <1>6 DEF CleanupIncompleteWrite
    <2>2. /\ Agree(next, v, g) /\ next.status[g] = "Retained"
          /\ next.progress[g] = "IncompleteAfterSeed"
        BY <1>1, <1>2, CleanupTransitionFields DEF Knows
    <2>3. <<g, "NoCloudSeed">> \notin volume
        BY <1>1, <2>1 DEF Knows, AtIncomplete, AtOverlay
    <2> QED
        BY <1>1, <2>1, <2>2, <2>3, CleanupWriteKeepsInv
<1>7. CASE CleanupFinishWrite(p)
    <2>. PICK next \in Index : next = CompleteCleanup(v, g)
        BY <1>3
    <2>1. pc[p] = "cleanup_finish_write" /\ WriteIndexAndStop(p, next)
        BY <1>1, <1>7 DEF CleanupFinishWrite
    <2>2. /\ Agree(next, v, g) /\ next.status[g] = "Cleaned"
          /\ next.progress[g] = "None"
        BY <1>1, <1>2, CleanupTransitionFields
    <2>3. VolumesOf(g) \cap volume = {}
        BY <1>1, <2>1
        DEF VolumesOf, Disposable, OverlayOf, Role, Knows, BeforeBegin, AtSeed, AtOverlay, AtIncomplete, AtFinish,
               SeedGoneAt
    <2> QED
        BY <1>1, <1>3, <2>1, <2>2, <2>3, CleanupWriteKeepsInv
<1> QED
    BY <1>4, <1>5, <1>6, <1>7

\* The guest is started or stopped from outside, or nothing happens.
LEMMA CleanupPowerKeepsInv ==
    ASSUME CleanupTypeOK, CleanupInv,
           PowerOn \/ PowerOff \/ UNCHANGED hostVars
    PROVE  CleanupInv'
<1>1. UNCHANGED <<index, volume, pc, view, target>>
    BY DEF PowerOn, PowerOff, hostVars, durable, host, local
<1>2. domain \in Domain /\ ServesActive
    BY DEF CleanupTypeOK, HostTypeOK, CleanupInv
<1>3. ServesActive'
    <2>1. CASE PowerOn
        <3>1. /\ domain' = [domain EXCEPT !.state = "running", !.live = domain.disk]
              /\ UNCHANGED index
            BY <2>1 DEF PowerOn, durable
        <3> QED
            BY <1>2, <3>1 DEF ServesActive, DomainRunning, Domain
    <2>2. CASE PowerOff
        <3>1. /\ domain' = [domain EXCEPT !.state = "shutoff", !.live = NoGen]
              /\ UNCHANGED index
            BY <1>2, <2>2 DEF PowerOff, Halted, durable, ServesActive
        <3> QED
            BY <1>2, <3>1 DEF ServesActive, DomainRunning, Domain
    <2>3. CASE UNCHANGED hostVars
        BY <1>2, <2>3 DEF hostVars, durable, host, ServesActive, DomainRunning
    <2> QED
        BY <2>1, <2>2, <2>3
<1>4. \A q \in Proc : pc[q] # "idle" =>
          /\ OnlyCleanable(target[q])'
          /\ Agree(view[q], index, target[q])'
          /\ Knows(pc[q], view[q], target[q])'
    BY <1>1 DEF CleanupInv, OnlyCleanable, Agree, Knows, Recorded
<1>5. OwnedVolumesExist' /\ CleanupRecordsAreTrue'
    BY <1>1 DEF CleanupInv, OwnedVolumesExist, CleanupRecordsAreTrue
<1> QED
    BY <1>1, <1>3, <1>4, <1>5 DEF CleanupInv

\* Every step keeps the invariant.
LEMMA CleanupInvIsInductive ==
    ASSUME CleanupTypeOK, CleanupInv, [CleanupNext]_hostVars
    PROVE  CleanupInv'
<1>1. ASSUME NEW p \in Proc, CleanupCommand(p) \/ Crash(p)
      PROVE  CleanupInv'
    BY <1>1, CleanupPlanKeepsInv, CleanupQuietStepsKeepInv,
       CleanupHostStepsKeepInv, CleanupWriteStepsKeepInv DEF CleanupCommand
<1>2. CASE PowerOn \/ PowerOff \/ UNCHANGED hostVars
    BY <1>2, CleanupPowerKeepsInv
<1> QED
    BY <1>1, <1>2 DEF CleanupNext

\* A settled instance satisfies it.
LEMMA CleanupInvHoldsInitially == CleanupInit => CleanupInv
<1> SUFFICES ASSUME SettledInit PROVE CleanupInv
    BY DEF CleanupInit
<1>1. /\ index \in Index /\ ValidIndex(index)
      /\ index.delete = NoDelete
      /\ \A g \in Gen : index.progress[g] = "None"
    <2>1. HostTypeOK(CleanupLabels)
        BY SettledInitTypes
    <2> QED
        BY <2>1 DEF HostTypeOK, SettledInit, SettledIndex
<1>2. ServesActive
    BY <1>1 DEF SettledInit, ServesActive, Shutoff, DomainRunning
<1>3. \A g \in Gen : \A v \in VolumesOf(g) :
          v \in volume <=> index.status[g] \in {"Active", "Retained"}
    BY DEF SettledInit, VolumesOf, WithStatus
<1>4. OwnedVolumesExist
    BY <1>3 DEF OwnedVolumesExist, WithStatus
<1>5. CleanupRecordsAreTrue
    BY <1>1, <1>3 DEF CleanupRecordsAreTrue
<1>6. \A p \in Proc : pc[p] = "idle"
    BY DEF SettledInit
<1> QED
    BY <1>1, <1>2, <1>4, <1>5, <1>6 DEF CleanupInv, NoDelete

-----------------------------------------------------------------------------
(* Theorems *)

\* The invariant of any number of overlapping cleanups.
THEOREM CleanupInvariant == CleanupSpec => [](CleanupTypeOK /\ CleanupInv)
<1>1. CleanupInit => CleanupTypeOK /\ CleanupInv
    BY CleanupInvHoldsInitially, WorkInitTypes
    DEF CleanupInit, CleanupTypeOK, WorkTypeOK
<1>2. CleanupTypeOK /\ CleanupInv /\ [CleanupNext]_hostVars
          => (CleanupTypeOK /\ CleanupInv)'
    BY CleanupStepTypes, CleanupInvIsInductive
<1> QED
    BY <1>1, <1>2, PTL DEF CleanupSpec

\* A cleanup is Cleaned on record only when nothing of the generation is
\* left: execute_cleanup_candidate writes the completion after the deletes
\* succeeded, and an overlapping cleanup can only delete more.
THEOREM CleanupRecordsStayTrue == CleanupSpec => []CleanupRecordsAreTrue
<1>1. CleanupTypeOK /\ CleanupInv => CleanupRecordsAreTrue
    BY DEF CleanupInv
<1> QED
    BY <1>1, CleanupInvariant, PTL

\* A cleanup, however many overlap, never takes a volume of the Active or of
\* another Retained generation.
THEOREM CleanupSparesOwnedVolumes == CleanupSpec => []OwnedVolumesExist
<1>1. CleanupTypeOK /\ CleanupInv => OwnedVolumesExist
    BY DEF CleanupInv
<1> QED
    BY <1>1, CleanupInvariant, PTL

\* The domain keeps all of its disks through every cleanup.
THEOREM CleanupSparesTheDomain == CleanupSpec => []NoDomainOnMissingVolumes
<1>1. CleanupTypeOK /\ CleanupInv => NoDomainOnMissingVolumes
    <2> SUFFICES ASSUME CleanupTypeOK, CleanupInv
                 PROVE  VolumesOf(BoundDisk) \subseteq volume
        BY DEF NoDomainOnMissingVolumes
    <2>1. BoundDisk = index.active
        BY DEF BoundDisk, CleanupInv, ServesActive
    <2>2. index.active \in Gen /\ index.status[index.active] = "Active"
          /\ index.progress[index.active] = "None"
        BY DEF CleanupTypeOK, HostTypeOK, Index, CleanupInv, ValidIndex, WithStatus
    <2> QED
        BY <2>1, <2>2 DEF CleanupInv, OwnedVolumesExist, WithStatus
<1> QED
    BY <1>1, CleanupInvariant, PTL

\* The deletes of CleanupExecutor follow the checkpoint on disk: a volume
\* goes only while the index records the cleanup of its Retained generation,
\* although another cleanup of it may write the index at any moment.
THEOREM CleanupDeletesAreRecorded == CleanupSpec => DeletesAreRecorded
<1> DEFINE Recording == \A v \in volume \ volume' :
                            /\ index.status[v[1]] = "Retained"
                            /\ index.progress[v[1]] # "None"
<1>1. ASSUME CleanupTypeOK, CleanupInv, NEW g \in Gen, NEW r \in Role,
             Recorded(g), volume' = volume \ {<<g, r>>}, r \in Disposable(g)
      PROVE  Recording
    <2> SUFFICES ASSUME <<g, r>> \in volume
                 PROVE  index.status[g] = "Retained" /\ index.progress[g] # "None"
        BY <1>1
    <2>1. VolumesOf(g) \cap volume # {}
        BY <1>1 DEF VolumesOf
    <2>2. index.status[g] # "Cleaned"
        BY <1>1, <2>1 DEF CleanupInv, CleanupRecordsAreTrue
    <2> QED
        BY <1>1, <2>2 DEF Recorded, CleanupInv, ValidIndex
<1>2. ASSUME CleanupTypeOK, CleanupInv, [CleanupNext]_hostVars
      PROVE  [Recording]_volume
    <2> SUFFICES ASSUME volume' # volume PROVE Recording
        OBVIOUS
    <2>1. PICK p \in Proc : CleanupSeed(p) \/ CleanupOverlay(p)
        BY <1>2 DEF CleanupNext, CleanupCommand, CleanupPlan, CleanupConfirm,
           CleanupRevalidate, CleanupBeginCompare, CleanupBeginWrite,
           CleanupSeedCompare, CleanupSeedWrite, CleanupIncompleteCompare,
           CleanupIncompleteWrite, CleanupFinishCompare, CleanupFinishWrite,
           CompareIndex, WriteIndex, WriteIndexAndStop, Crash, PowerOn,
           PowerOff, hostVars, host
    <2>2. target[p] \in Gen /\ Knows(pc[p], view[p], target[p])
        BY <1>2, <2>1, CleanupWorkerKnows DEF CleanupSeed, CleanupOverlay
    <2>3. CASE CleanupSeed(p)
        <3>1. /\ volume' = volume \ {<<target[p], "NoCloudSeed">>}
              /\ pc[p] = "cleanup_seed"
            BY <2>3 DEF CleanupSeed
        <3>2. Recorded(target[p]) /\ target[p] \in Seeded
            BY <2>2, <3>1 DEF Knows, BeforeBegin, AtSeed
        <3> QED
            BY <1>1, <1>2, <2>2, <3>1, <3>2 DEF Disposable, Role
    <2>4. CASE CleanupOverlay(p)
        <3>1. /\ volume' = volume \ {<<target[p], "WritableOverlay">>}
              /\ pc[p] = "cleanup_overlay"
            BY <2>4 DEF CleanupOverlay, OverlayOf
        <3>2. Recorded(target[p])
            BY <2>2, <3>1 DEF Knows, BeforeBegin
        <3> QED
            BY <1>1, <1>2, <2>2, <3>1, <3>2 DEF Disposable, Role
    <2> QED
        BY <2>1, <2>3, <2>4
<1> QED
    BY <1>2, CleanupInvariant, PTL DEF CleanupSpec, DeletesAreRecorded
=============================================================================
