--------------------------- MODULE ManagedHostProofs ---------------------------
(***************************************************************************)
(* Facts about the generation index and the host, for any set of           *)
(* generations and of processes, that the proofs of the commands share.    *)
(* Every transition of managed.rs validates its result once more before it *)
(* hands it out; the theorems show for which transitions that last check   *)
(* can refuse anything.                                                    *)
(***************************************************************************)
EXTENDS ManagedHost, TLAPS

-----------------------------------------------------------------------------
(* The transitions of the index *)

\* Every transition on a well-formed index returns a well-formed index.
LEMMA TransitionTypes ==
    ASSUME NEW i \in Index, NEW g \in Gen, NEW r \in Role,
           NEW phase \in CleanupPhase
    PROVE  /\ BeginDelete(i) \in Index
           /\ RecordDomainAbsent(i) \in Index
           /\ RecordResourceAbsent(i, r) \in Index
           /\ CompleteDelete(i) \in Index
           /\ AddPreparing(i, g) \in Index
           /\ FinalizeSwitch(i, g) \in Index
           /\ MarkFailed(i, g) \in Index
           /\ BeginCleanup(i, g, phase) \in Index
           /\ RecordSeedDeleted(i, g) \in Index
           /\ RecordCleanupIncomplete(i, g) \in Index
           /\ CompleteCleanup(i, g) \in Index
<1> USE DEF Index, DeleteState, Status, CleanupPhase
<1>1. Disposable(i.active) \subseteq Role
    BY DEF Disposable, Role
<1>2. BeginDelete(i) \in Index
    BY <1>1 DEF BeginDelete
<1>3. RecordDomainAbsent(i) \in Index
    BY DEF RecordDomainAbsent
<1>4. RecordResourceAbsent(i, r) \in Index
    BY DEF RecordResourceAbsent
<1>5. CompleteDelete(i) \in Index
    BY DEF CompleteDelete
<1>6. AddPreparing(i, g) \in Index /\ MarkFailed(i, g) \in Index
    BY DEF AddPreparing, MarkFailed
<1>7. FinalizeSwitch(i, g) \in Index
    BY DEF FinalizeSwitch
<1>8. BeginCleanup(i, g, phase) \in Index
    BY DEF BeginCleanup
<1>9. RecordSeedDeleted(i, g) \in Index /\ RecordCleanupIncomplete(i, g) \in Index
    BY DEF RecordSeedDeleted, RecordCleanupIncomplete
<1>10. CompleteCleanup(i, g) \in Index
    BY DEF CompleteCleanup
<1> QED
    BY <1>2, <1>3, <1>4, <1>5, <1>6, <1>7, <1>8, <1>9, <1>10

\* What the four transitions of a deletion change and what they leave alone.
LEMMA DeleteTransitionFields ==
    ASSUME NEW i \in Index, NEW r \in Role
    PROVE  /\ BeginDelete(i).active = i.active
           /\ BeginDelete(i).status = i.status
           /\ BeginDelete(i).progress = i.progress
           /\ BeginDelete(i).delete =
                  [phase |-> "Deleting", plan |-> i.active,
                   domain |-> "UndefinePending",
                   pending |-> Disposable(i.active)]
           /\ RecordDomainAbsent(i).active = i.active
           /\ RecordDomainAbsent(i).status = i.status
           /\ RecordDomainAbsent(i).progress = i.progress
           /\ RecordDomainAbsent(i).delete =
                  [i.delete EXCEPT !.domain = "Absent"]
           /\ RecordResourceAbsent(i, r).active = i.active
           /\ RecordResourceAbsent(i, r).status = i.status
           /\ RecordResourceAbsent(i, r).progress = i.progress
           /\ RecordResourceAbsent(i, r).delete =
                  [i.delete EXCEPT !.pending = i.delete.pending \ {r}]
           /\ CompleteDelete(i).active = i.active
           /\ CompleteDelete(i).status = i.status
           /\ CompleteDelete(i).progress = i.progress
           /\ CompleteDelete(i).delete = [i.delete EXCEPT !.phase = "Deleted"]
    BY DEF Index, DeleteState, BeginDelete, RecordDomainAbsent,
           RecordResourceAbsent, CompleteDelete

\* The transitions of Fresh and restore-old, field by field.
LEMMA FreshTransitionFields ==
    ASSUME NEW i \in Index, NEW g \in Gen
    PROVE  /\ AddPreparing(i, g).active = i.active
           /\ AddPreparing(i, g).delete = i.delete
           /\ AddPreparing(i, g).progress = i.progress
           /\ \A x \in Gen : AddPreparing(i, g).status[x] =
                  IF x = g THEN "Preparing" ELSE i.status[x]
           /\ FinalizeSwitch(i, g).active = g
           /\ FinalizeSwitch(i, g).delete = i.delete
           /\ FinalizeSwitch(i, g).progress = i.progress
           /\ \A x \in Gen : FinalizeSwitch(i, g).status[x] =
                  IF x = g THEN "Active" ELSE IF x = i.active THEN "Retained"
                  ELSE i.status[x]
           /\ MarkFailed(i, g).active = i.active
           /\ MarkFailed(i, g).delete = i.delete
           /\ MarkFailed(i, g).progress = i.progress
           /\ \A x \in Gen : MarkFailed(i, g).status[x] =
                  IF x = g THEN "Failed" ELSE i.status[x]
    BY DEF Index, AddPreparing, FinalizeSwitch, MarkFailed

\* Two indexes that differ at most in what they say of generation g.
Agree(i, j, g) ==
    /\ i.active = j.active
    /\ i.delete = j.delete
    /\ \A h \in Gen \ {g} :
           i.status[h] = j.status[h] /\ i.progress[h] = j.progress[h]

\* What the four transitions of a cleanup change: the phase, at the end the
\* status, of their generation and nothing else.
LEMMA CleanupTransitionFields ==
    ASSUME NEW i \in Index, NEW g \in Gen, NEW phase \in CleanupPhase
    PROVE  /\ Agree(BeginCleanup(i, g, phase), i, g)
           /\ BeginCleanup(i, g, phase).status[g] = i.status[g]
           /\ BeginCleanup(i, g, phase).progress[g] = phase
           /\ Agree(RecordSeedDeleted(i, g), i, g)
           /\ RecordSeedDeleted(i, g).status[g] = i.status[g]
           /\ RecordSeedDeleted(i, g).progress[g] = "OverlayDeletePending"
           /\ Agree(RecordCleanupIncomplete(i, g), i, g)
           /\ RecordCleanupIncomplete(i, g).status[g] = i.status[g]
           /\ RecordCleanupIncomplete(i, g).progress[g] = "IncompleteAfterSeed"
           /\ Agree(CompleteCleanup(i, g), i, g)
           /\ CompleteCleanup(i, g).status[g] = "Cleaned"
           /\ CompleteCleanup(i, g).progress[g] = "None"
<1> USE DEF Index, Agree
<1>1. /\ Agree(BeginCleanup(i, g, phase), i, g)
      /\ BeginCleanup(i, g, phase).status[g] = i.status[g]
      /\ BeginCleanup(i, g, phase).progress[g] = phase
    BY DEF BeginCleanup
<1>2. /\ Agree(RecordSeedDeleted(i, g), i, g)
      /\ RecordSeedDeleted(i, g).status[g] = i.status[g]
      /\ RecordSeedDeleted(i, g).progress[g] = "OverlayDeletePending"
    BY DEF RecordSeedDeleted
<1>3. /\ Agree(RecordCleanupIncomplete(i, g), i, g)
      /\ RecordCleanupIncomplete(i, g).status[g] = i.status[g]
      /\ RecordCleanupIncomplete(i, g).progress[g] = "IncompleteAfterSeed"
    BY DEF RecordCleanupIncomplete
<1>4. /\ Agree(CompleteCleanup(i, g), i, g)
      /\ CompleteCleanup(i, g).status[g] = "Cleaned"
      /\ CompleteCleanup(i, g).progress[g] = "None"
    BY DEF CompleteCleanup
<1> QED
    BY <1>1, <1>2, <1>3, <1>4

\* The last validation of begin_instance_delete, record_delete_domain_absent,
\* record_delete_resource_absent and complete_instance_delete never refuses:
\* once the guards before it have passed, the next index is valid.
THEOREM DeleteTransitionsStayValid ==
    ASSUME NEW i \in Index, NEW r \in Role, ValidIndex(i)
    PROVE  /\ DeleteEligible(i) => ValidIndex(BeginDelete(i))
           /\ i.delete.phase = "Deleting" => ValidIndex(RecordDomainAbsent(i))
           /\ i.delete.phase = "Deleting" => ValidIndex(RecordResourceAbsent(i, r))
           /\ i.delete.phase = "Deleting" => ValidIndex(CompleteDelete(i))
<1> USE DEF Index, DeleteState, ValidIndex, ValidDeletePlan, WithStatus
<1>1. ValidIndex(BeginDelete(i))
    BY DEF BeginDelete
<1>2. ASSUME i.delete.phase = "Deleting" PROVE ValidIndex(RecordDomainAbsent(i))
    BY <1>2 DEF RecordDomainAbsent
<1>3. ASSUME i.delete.phase = "Deleting" PROVE ValidIndex(RecordResourceAbsent(i, r))
    BY <1>3 DEF RecordResourceAbsent
<1>4. ASSUME i.delete.phase = "Deleting" PROVE ValidIndex(CompleteDelete(i))
    BY <1>4 DEF CompleteDelete
<1> QED
    BY <1>1, <1>2, <1>3, <1>4

\* Fresh: publishing a new Preparing generation and marking it Failed always
\* keep the index valid.  The switch does so exactly when no deletion is on
\* record: the durable delete plan names the Active generation, so its last
\* validation is what keeps a Fresh from finishing over a deletion.
THEOREM FreshTransitionsStayValid ==
    ASSUME NEW i \in Index, NEW g \in Gen, ValidIndex(i)
    PROVE  /\ i.status[g] = "Unlisted" => ValidIndex(AddPreparing(i, g))
           /\ i.status[g] = "Preparing" => ValidIndex(MarkFailed(i, g))
           /\ i.status[g] = "Preparing" =>
                  (ValidIndex(FinalizeSwitch(i, g)) <=> i.delete.phase = "None")
<1> USE DEF Index, ValidIndex, ValidDeletePlan, WithStatus
<1>1. ASSUME i.status[g] = "Unlisted" PROVE ValidIndex(AddPreparing(i, g))
    BY <1>1 DEF AddPreparing
<1>2. ASSUME i.status[g] = "Preparing" PROVE ValidIndex(MarkFailed(i, g))
    BY <1>2 DEF MarkFailed
<1>3. ASSUME i.status[g] = "Preparing"
      PROVE  ValidIndex(FinalizeSwitch(i, g)) <=> i.delete.phase = "None"
    <2>1. g # i.active /\ FinalizeSwitch(i, g).active = g
          /\ FinalizeSwitch(i, g).delete = i.delete
          /\ FinalizeSwitch(i, g).progress = i.progress
        BY <1>3 DEF FinalizeSwitch
    <2>2. \A x \in Gen : FinalizeSwitch(i, g).status[x] =
              IF x = g THEN "Active" ELSE IF x = i.active THEN "Retained"
              ELSE i.status[x]
        BY DEF FinalizeSwitch
    <2>3. WithStatus(FinalizeSwitch(i, g), "Active") = {g}
        BY <2>2
    <2>4. \A x \in Gen : FinalizeSwitch(i, g).progress[x] # "None" =>
              FinalizeSwitch(i, g).status[x] = "Retained"
        BY <1>3, <2>1, <2>2
    <2>5. ValidDeletePlan(FinalizeSwitch(i, g)) <=> i.delete.phase = "None"
        BY <2>1
    <2> QED
        BY <2>1, <2>3, <2>4, <2>5
<1> QED
    BY <1>1, <1>2, <1>3

\* Cleanup: begin, checkpoints and completion of the cleanup of a Retained
\* generation keep the index valid, whatever phase they record.
THEOREM CleanupTransitionsStayValid ==
    ASSUME NEW i \in Index, NEW g \in Gen, NEW phase \in CleanupPhase,
           ValidIndex(i), i.status[g] = "Retained"
    PROVE  /\ ValidIndex(BeginCleanup(i, g, phase))
           /\ ValidIndex(RecordSeedDeleted(i, g))
           /\ ValidIndex(RecordCleanupIncomplete(i, g))
           /\ ValidIndex(CompleteCleanup(i, g))
<1> USE DEF Index, ValidIndex, ValidDeletePlan, WithStatus
<1>1. ValidIndex(BeginCleanup(i, g, phase))
    BY DEF BeginCleanup
<1>2. ValidIndex(RecordSeedDeleted(i, g))
    BY DEF RecordSeedDeleted
<1>3. ValidIndex(RecordCleanupIncomplete(i, g))
    BY DEF RecordCleanupIncomplete
<1>4. ValidIndex(CompleteCleanup(i, g))
    BY DEF CompleteCleanup
<1> QED
    BY <1>1, <1>2, <1>3, <1>4

-----------------------------------------------------------------------------
(* The steps of a process *)

\* The building blocks of every step keep the memory of the processes typed.
LEMMA LocalStepTypes ==
    ASSUME NEW labels, LocalTypeOK(labels), index \in Index,
           NEW p \in Proc, NEW label \in labels, NEW gen \in Gen \cup {NoGen},
           NEW forced \in BOOLEAN
    PROVE  /\ Start(p, label, gen, forced) => LocalTypeOK(labels)'
           /\ pc[p] # "idle" /\ Goto(p, label) => LocalTypeOK(labels)'
           /\ Stop(p) => LocalTypeOK(labels)'
           /\ \A condition \in BOOLEAN :
                  pc[p] # "idle" /\ Branch(p, condition, label)
                      => LocalTypeOK(labels)'
<1> USE DEF LocalTypeOK
<1>1. Start(p, label, gen, forced) => LocalTypeOK(labels)'
    BY DEF Start
<1>2. pc[p] # "idle" /\ Goto(p, label) => LocalTypeOK(labels)'
    BY DEF Goto
<1>3. Stop(p) => LocalTypeOK(labels)'
    BY DEF Stop
<1>4. ASSUME NEW condition \in BOOLEAN, pc[p] # "idle", Branch(p, condition, label)
      PROVE  LocalTypeOK(labels)'
    BY <1>2, <1>3, <1>4 DEF Branch
<1> QED
    BY <1>1, <1>2, <1>3, <1>4

\* The two forms of an index write keep everything typed.
LEMMA WriteTypes ==
    ASSUME NEW labels, HostTypeOK(labels), NEW p \in Proc,
           NEW label \in labels, NEW next \in Index
    PROVE  /\ WriteIndex(p, next, label) => HostTypeOK(labels)'
           /\ WriteIndexAndStop(p, next) => HostTypeOK(labels)'
<1> USE DEF HostTypeOK, LocalTypeOK, durable, host
<1>1. WriteIndex(p, next, label) => HostTypeOK(labels)'
    BY DEF WriteIndex
<1>2. WriteIndexAndStop(p, next) => HostTypeOK(labels)'
    BY DEF WriteIndexAndStop, Stop
<1> QED
    BY <1>1, <1>2

\* The domain a force-stop, a shutdown or an undefine leaves is a domain.
LEMMA HaltedType == domain \in Domain => Halted \in Domain
    BY DEF Halted, Domain, NoDomain

\* A fault counts up to the bound.
LEMMA StrikeTypes ==
    ASSUME NEW kind, faults \in 0..MaxFaults,
           UNCHANGED faults \/ Strike(kind)
    PROVE  faults' \in 0..MaxFaults
    BY MaxFaultsAssumption DEF Strike

\* The initial states of every command are typed.
LEMMA SettledInitTypes ==
    ASSUME NEW labels, SettledInit
    PROVE  HostTypeOK(labels)
<1>1. index \in Index
    BY NoGenAssumption
    DEF SettledInit, SettledIndex, Index, DeleteState, NoDelete, Status
<1>2. manifest \subseteq Gen
    BY DEF SettledInit, Listed
<1>3. domain \in Domain
    BY <1>1 DEF SettledInit, Shutoff, Domain, Index
<1>4. volume \subseteq Gen \X Role
    BY DEF SettledInit, VolumesOf, Disposable, Role, WithStatus
<1>5. LocalTypeOK(labels)
    BY DEF SettledInit, LocalTypeOK
<1>6. faults \in 0..MaxFaults
    BY MaxFaultsAssumption DEF SettledInit
<1> QED
    BY <1>1, <1>2, <1>3, <1>4, <1>5, <1>6 DEF HostTypeOK

\* The steps every command shares keep everything typed: a crash, the guest
\* started and stopped from outside, and no step at all.
LEMMA SharedStepTypes ==
    ASSUME NEW labels, HostTypeOK(labels),
           \/ \E p \in Proc : Crash(p)
           \/ PowerOn
           \/ PowerOff
           \/ UNCHANGED hostVars
    PROVE  HostTypeOK(labels)'
<1> USE DEF HostTypeOK, durable, host
<1>1. ASSUME NEW p \in Proc, Crash(p)
      PROVE  HostTypeOK(labels)'
    BY <1>1, MaxFaultsAssumption DEF Crash, Strike, Stop, LocalTypeOK
<1>2. CASE PowerOn
    <2>1. faults' \in 0..MaxFaults
        BY <1>2, MaxFaultsAssumption DEF PowerOn, Strike
    <2>2. domain' \in Domain
        BY <1>2 DEF PowerOn, Domain
    <2> QED
        BY <1>2, <2>1, <2>2 DEF PowerOn, local, LocalTypeOK
<1>3. CASE PowerOff
    BY <1>3, HaltedType DEF PowerOff, local, LocalTypeOK
<1>4. CASE UNCHANGED hostVars
    BY <1>4 DEF hostVars, local, LocalTypeOK
<1> QED
    BY <1>1, <1>2, <1>3, <1>4

\* Every process but p stays where it is.
OnlyMoves(p) ==
    \A q \in Proc \ {p} :
        pc'[q] = pc[q] /\ view'[q] = view[q] /\ target'[q] = target[q]

\* The steps of a process touch the memory of that process only.
LEMMA StepsAreLocal ==
    ASSUME NEW labels, LocalTypeOK(labels), NEW p \in Proc
    PROVE  /\ \A label, gen, forced :
                  Start(p, label, gen, forced) =>
                      /\ OnlyMoves(p)
                      /\ pc'[p] = label
                      /\ view'[p] = index
                      /\ target'[p] = gen
           /\ \A label :
                  Goto(p, label) =>
                      /\ OnlyMoves(p)
                      /\ pc'[p] = label
                      /\ view'[p] = view[p]
                      /\ target'[p] = target[p]
           /\ \A next, label :
                  WriteIndex(p, next, label) =>
                      /\ OnlyMoves(p)
                      /\ pc'[p] = label
                      /\ view'[p] = next
                      /\ target'[p] = target[p]
           /\ Stop(p) => OnlyMoves(p) /\ pc'[p] = "idle"
<1> USE DEF LocalTypeOK, OnlyMoves
<1>1. ASSUME NEW label, NEW gen, NEW forced, Start(p, label, gen, forced)
      PROVE  OnlyMoves(p) /\ pc'[p] = label /\ view'[p] = index /\ target'[p] = gen
    BY <1>1 DEF Start
<1>2. ASSUME NEW label, Goto(p, label)
      PROVE  OnlyMoves(p) /\ pc'[p] = label /\ view'[p] = view[p]
             /\ target'[p] = target[p]
    BY <1>2 DEF Goto
<1>3. ASSUME NEW next, NEW label, WriteIndex(p, next, label)
      PROVE  OnlyMoves(p) /\ pc'[p] = label /\ view'[p] = next
             /\ target'[p] = target[p]
    BY <1>3 DEF WriteIndex
<1>4. Stop(p) => OnlyMoves(p) /\ pc'[p] = "idle"
    BY DEF Stop
<1> QED
    BY <1>1, <1>2, <1>3, <1>4

\* The types of a command that works on one generation at a time.
WorkTypeOK(labels) ==
    /\ HostTypeOK(labels)
    /\ \A p \in Proc : pc[p] # "idle" => target[p] \in Gen

\* A step of a process whose effects on files, libvirt and faults are typed.
LEMMA MoveTypes ==
    ASSUME NEW labels, WorkTypeOK(labels), NEW p \in Proc,
           index' \in Index, manifest' \subseteq Gen, domain' \in Domain,
           volume' \subseteq Gen \X Role, faults' \in 0..MaxFaults,
           \/ Stop(p)
           \/ \E label \in labels : pc[p] # "idle" /\ Goto(p, label)
           \/ \E label \in labels, g \in Gen : Start(p, label, g, FALSE)
    PROVE  WorkTypeOK(labels)'
<1> USE DEF WorkTypeOK, HostTypeOK
<1>1. CASE Stop(p)
    BY <1>1, StepsAreLocal DEF LocalTypeOK, Stop, OnlyMoves
<1>2. ASSUME NEW label \in labels, pc[p] # "idle", Goto(p, label)
      PROVE  WorkTypeOK(labels)'
    <2>1. LocalTypeOK(labels)' /\ OnlyMoves(p) /\ target'[p] = target[p]
        BY <1>2, LocalStepTypes, StepsAreLocal
    <2> QED
        BY <1>2, <2>1 DEF OnlyMoves
<1>3. ASSUME NEW label \in labels, NEW g \in Gen, Start(p, label, g, FALSE)
      PROVE  WorkTypeOK(labels)'
    <2>1. LocalTypeOK(labels)' /\ OnlyMoves(p) /\ target'[p] = g
        BY <1>3, LocalStepTypes, StepsAreLocal
    <2> QED
        BY <2>1 DEF OnlyMoves
<1> QED
    BY <1>1, <1>2, <1>3

\* The same for the writes of the index, the shared steps and the start.
LEMMA WorkWriteTypes ==
    ASSUME NEW labels, WorkTypeOK(labels), NEW p \in Proc, pc[p] # "idle",
           NEW next \in Index, NEW label \in labels,
           WriteIndex(p, next, label) \/ WriteIndexAndStop(p, next)
    PROVE  WorkTypeOK(labels)'
<1>1. HostTypeOK(labels)'
    BY WriteTypes DEF WorkTypeOK
<1>2. OnlyMoves(p) /\ (pc'[p] = "idle" \/ target'[p] = target[p])
    BY StepsAreLocal DEF WorkTypeOK, HostTypeOK, WriteIndexAndStop
<1> QED
    BY <1>1, <1>2 DEF WorkTypeOK, OnlyMoves

LEMMA WorkSharedTypes ==
    ASSUME NEW labels, WorkTypeOK(labels),
           \/ \E p \in Proc : Crash(p)
           \/ PowerOn
           \/ PowerOff
           \/ UNCHANGED hostVars
    PROVE  WorkTypeOK(labels)'
<1>1. HostTypeOK(labels)'
    BY SharedStepTypes DEF WorkTypeOK
<1>2. ASSUME NEW p \in Proc, Crash(p)
      PROVE  OnlyMoves(p) /\ pc'[p] = "idle"
    BY <1>2, StepsAreLocal DEF Crash, WorkTypeOK, HostTypeOK
<1>3. CASE \E p \in Proc : Crash(p)
    BY <1>1, <1>2, <1>3 DEF OnlyMoves, WorkTypeOK
<1>4. CASE UNCHANGED local
    BY <1>1, <1>4 DEF local, WorkTypeOK
<1> QED
    BY <1>3, <1>4 DEF PowerOn, PowerOff, hostVars

LEMMA WorkInitTypes ==
    ASSUME NEW labels, SettledInit
    PROVE  WorkTypeOK(labels)
    BY SettledInitTypes DEF WorkTypeOK, SettledInit
=============================================================================
