------------------------- MODULE InitialCreateProofs -------------------------
(***************************************************************************)
(* Theorems about "forge vm create", "forge vm clone" and the recovery of  *)
(* a first create (InitialCreate), for any set of instances and            *)
(* generations, any number of overlapping processes and any number of      *)
(* faults.                                                                 *)
(***************************************************************************)
EXTENDS InitialCreate, TLAPS

-----------------------------------------------------------------------------
(* The inductive invariant *)

\* The steps of a create or a clone before its domain is defined.
BuildLabels ==
    {"create_revalidate", "create_import", "create_upload", "create_reprove",
     "create_overlay", "create_copy", "create_inspect", "create_publish",
     "create_rename", "create_rollback", "create_rollback_base",
     "create_define"}

\* The steps from which a create can still remove the base it imported.
RollbackLabels ==
    {"create_overlay", "create_inspect", "create_publish", "create_rename",
     "create_rollback", "create_rollback_base"}

\* The steps that write the index of the target without another look.
WriteLabels == {"create_activate_write", "recover_write"}

\* A process that runs works on an instance and on a generation, and one that
\* builds a generation on the base copies no other.
InHand(p) ==
    /\ pc[p] # "idle" => name[p] \in Inst /\ target[p] \in Gen
    /\ pc[p] \in BuildLabels /\ target[p] \notin Flat => origin[p] = NoGen
    /\ pc[p] = "create_copy" => origin[p] # NoGen
    /\ "base" \in made[p] => pc[p] \in RollbackLabels
           \cup {"create_define", "create_activate", "create_activate_write"}

\* Until its domain is defined, nobody else knows the generation p builds.
TargetIsNew(p) ==
    pc[p] \in BuildLabels =>
        /\ \A q \in Proc \ {p} : target[q] # target[p]
        /\ \A i \in Inst :
               /\ domain[i] # target[p]
               /\ index[i] # NoIndex => index[i].active # target[p]
               /\ <<target[p], "json">> \in files[i] => i = name[p]

\* What the last steps found is still so when they act on it.
TargetIsReady(p) ==
    /\ pc[p] = "create_define" => <<target[p], "json">> \in files[name[p]]
    /\ pc[p] \in WriteLabels =>
           domain[name[p]] = target[p] /\ target[p] \in overlay

\* A manifest lies in one directory, the manifest of an index exists, and
\* nobody works on an instance that is being deleted.
IndexesAreApart ==
    /\ \A i, j \in Inst, g \in Gen :
           <<g, "json">> \in files[i] /\ <<g, "json">> \in files[j] => i = j
    /\ \A i \in Inst :
           index[i] # NoIndex =>
               /\ <<index[i].active, "json">> \in files[i]
               /\ index[i].delete.phase # "None" => Unattended(i)

\* p imports the base or may remove it again.
HoldsBase(p) ==
    \/ pc[p] = "create_upload"
    \/ "base" \in made[p] /\ pc[p] \in RollbackLabels

\* Some index or some domain is for a generation on the base.
BaseInUse ==
    \/ Consumers # {}
    \/ \E i \in Inst : domain[i] \in Gen \ Flat

\* The base is there for everyone who relies on it, and the one who may remove
\* it is the only one who does.
BaseIsShared ==
    /\ BaseInUse => base = "complete"
    /\ \A q \in Proc : BuildsOnBase(q) => base = "complete"
    /\ \A p \in Proc :
           HoldsBase(p) =>
               /\ base # "absent"
               /\ ~BaseInUse
               /\ \A q \in Proc \ {p} : ~HoldsBase(q) /\ ~BuildsOnBase(q)

\* The inductive invariant.
CreateInv ==
    /\ CreateTypeOK
    /\ \A p \in Proc : InHand(p) /\ TargetIsNew(p) /\ TargetIsReady(p)
    /\ IndexesAreApart
    /\ ActiveIsBacked
    /\ DomainsAreOwned
    /\ BaseIsShared

-----------------------------------------------------------------------------
(* What a step does to the memory of the processes *)

MemoryTypeOK ==
    /\ pc \in [Proc -> CreateLabels \cup {"idle"}]
    /\ name \in [Proc -> Inst \cup {NoInst}]
    /\ target \in [Proc -> Gen \cup {NoGen}]
    /\ origin \in [Proc -> Gen \cup {NoGen}]
    /\ made \in [Proc -> SUBSET {"base", "overlay"}]

\* Process p takes another step or stops.
Moves(p) ==
    /\ pc[p] # "idle"
    /\ \/ Stop(p)
       \/ \E label \in CreateLabels :
              \/ Goto(p, label)
              \/ \E resource \in {"base", "overlay"} :
                     GotoWith(p, label, resource)

OthersKeep(p) ==
    \A q \in Proc \ {p} :
        /\ pc'[q] = pc[q]
        /\ name'[q] = name[q]
        /\ target'[q] = target[q]
        /\ origin'[q] = origin[q]
        /\ made'[q] = made[q]

Stopped(p) ==
    /\ pc'[p] = "idle"
    /\ name'[p] = NoInst
    /\ target'[p] = NoGen
    /\ made'[p] = {}

KeepsHand(p) ==
    /\ name'[p] = name[p]
    /\ target'[p] = target[p]
    /\ origin'[p] = origin[p]

\* A move is the own matter of the process that makes it.
LEMMA MoveEffect ==
    ASSUME MemoryTypeOK, NEW p \in Proc, Moves(p)
    PROVE  MemoryTypeOK' /\ OthersKeep(p) /\ (Stopped(p) \/ KeepsHand(p))
<1>1. CASE Stop(p)
    BY <1>1 DEF MemoryTypeOK, Stop, OthersKeep, Stopped
<1>2. ASSUME NEW label \in CreateLabels, Goto(p, label)
      PROVE  MemoryTypeOK' /\ OthersKeep(p) /\ KeepsHand(p)
    BY <1>2 DEF MemoryTypeOK, Goto, OthersKeep, KeepsHand
<1>3. ASSUME NEW label \in CreateLabels, NEW resource \in {"base", "overlay"},
             GotoWith(p, label, resource)
      PROVE  MemoryTypeOK' /\ OthersKeep(p) /\ KeepsHand(p)
    BY <1>3 DEF MemoryTypeOK, GotoWith, OthersKeep, KeepsHand
<1> QED
    BY <1>1, <1>2, <1>3 DEF Moves

LEMMA StartEffect ==
    ASSUME MemoryTypeOK, NEW p \in Proc, NEW label \in CreateLabels,
           NEW i \in Inst, NEW g \in Gen, NEW from \in Gen \cup {NoGen},
           Start(p, label, i, g, from)
    PROVE  /\ MemoryTypeOK' /\ OthersKeep(p)
           /\ pc'[p] = label /\ name'[p] = i /\ target'[p] = g
           /\ origin'[p] = from /\ made' = made
BY DEF MemoryTypeOK, Start, memory, OthersKeep

LEMMA StrikeTypes ==
    ASSUME faults \in 0..MaxFaults, NEW kind, Strike(kind)
    PROVE  faults' \in 0..MaxFaults
BY FaultBoundAssumption DEF Strike

-----------------------------------------------------------------------------
(* Steps that change no index, no domain and no published manifest *)

\* The types that no process keeps in memory.
DurableTypeOK ==
    /\ index \in [Inst -> Index \cup {NoIndex}]
    /\ dir \subseteq Inst
    /\ files \in [Inst -> SUBSET (Gen \X {"json", "tmp"})]
    /\ domain \in [Inst -> Gen \cup {NoGen}]
    /\ overlay \subseteq Gen
    /\ base \in {"absent", "partial", "complete"}
    /\ faults \in 0..MaxFaults

SameManifests ==
    \A i \in Inst, g \in Gen :
        <<g, "json">> \in files'[i] <=> <<g, "json">> \in files[i]

\* No overlay is lost but the one of a process that still builds.
SparesOverlays(p) ==
    \/ overlay \subseteq overlay'
    \/ pc[p] \in BuildLabels /\ overlay \ {target[p]} \subseteq overlay'

\* Such a move keeps the invariant if it does so for the process itself and
\* for the base.
LEMMA MoveKeepsInv ==
    ASSUME CreateInv, NEW p \in Proc, Moves(p),
           UNCHANGED <<index, domain>>, DurableTypeOK', SameManifests,
           SparesOverlays(p),
           pc'[p] \in BuildLabels => pc[p] \in BuildLabels,
           InHand(p)', TargetIsReady(p)', BaseIsShared'
    PROVE  CreateInv'
<1>1. MemoryTypeOK' /\ OthersKeep(p) /\ (Stopped(p) \/ KeepsHand(p))
    BY MoveEffect DEF CreateInv, CreateTypeOK, MemoryTypeOK
<1>2. CreateTypeOK'
    BY <1>1 DEF CreateTypeOK, MemoryTypeOK, DurableTypeOK
<1>3. \A q \in Proc : InHand(q)'
    BY <1>1 DEF CreateInv, InHand, OthersKeep
<1>4. \A q \in Proc : pc[q] \in BuildLabels => target[q] \in Gen
    BY DEF CreateInv, InHand, BuildLabels
<1>5. ASSUME NEW q \in Proc
      PROVE  TargetIsNew(q)'
    <2>1. SUFFICES ASSUME pc'[q] \in BuildLabels
                   PROVE  TargetIsNew(q)'
        BY DEF TargetIsNew
    <2>2. /\ pc[q] \in BuildLabels
          /\ target'[q] = target[q] /\ name'[q] = name[q]
        BY <1>1, <2>1 DEF OthersKeep, Stopped, KeepsHand, BuildLabels
    <2>3. TargetIsNew(q) /\ target[q] \in Gen
        BY <1>4, <2>2 DEF CreateInv
    <2>4. ASSUME NEW r \in Proc \ {q}
          PROVE  target'[r] # target'[q]
        BY <1>1, <2>2, <2>3, NoGenAssumption
           DEF TargetIsNew, OthersKeep, Stopped, KeepsHand
    <2>5. ASSUME NEW i \in Inst
          PROVE  /\ domain'[i] # target'[q]
                 /\ index'[i] # NoIndex => index'[i].active # target'[q]
                 /\ <<target'[q], "json">> \in files'[i] => i = name'[q]
        BY <2>2, <2>3 DEF TargetIsNew, SameManifests
    <2> QED
        BY <2>4, <2>5 DEF TargetIsNew
<1>6. ASSUME NEW q \in Proc \ {p}
      PROVE  TargetIsReady(q)'
    <2>1. /\ pc'[q] = pc[q] /\ target'[q] = target[q] /\ name'[q] = name[q]
          /\ TargetIsReady(q) /\ InHand(q)
        BY <1>1 DEF OthersKeep, CreateInv
    <2>2. pc[p] \in BuildLabels => target[q] # target[p]
        BY DEF CreateInv, TargetIsNew
    <2> QED
        BY <2>1, <2>2
           DEF TargetIsReady, InHand, SameManifests, SparesOverlays, WriteLabels
<1>7. IndexesAreApart'
    <2>1. \A i \in Inst : Unattended(i) => Unattended(i)'
        BY <1>1, NoInstAssumption
           DEF Unattended, OthersKeep, Stopped, KeepsHand
    <2>2. \A i \in Inst, g \in Gen :
              <<g, "json">> \in files'[i] <=> <<g, "json">> \in files[i]
        BY DEF SameManifests
    <2>3. ASSUME NEW i \in Inst, index[i] # NoIndex
          PROVE  /\ <<index[i].active, "json">> \in files'[i]
                 /\ index[i].delete.phase # "None" => Unattended(i)'
        <3>1. /\ <<index[i].active, "json">> \in files[i]
              /\ index[i].delete.phase # "None" => Unattended(i)
            BY <2>3 DEF CreateInv, IndexesAreApart
        <3>2. index[i].active \in Gen
            BY <2>3 DEF CreateInv, CreateTypeOK, Index
        <3> QED
            BY <2>1, <2>2, <3>1, <3>2
    <2> QED
        BY <2>2, <2>3 DEF CreateInv, IndexesAreApart
<1>8. ActiveIsBacked'
    <2>1. SUFFICES ASSUME NEW i \in Inst, index[i] # NoIndex,
                          index[i].delete.phase = "None"
                   PROVE  LET g == index[i].active
                          IN  /\ <<g, "json">> \in files'[i]
                              /\ domain[i] = g
                              /\ g \in overlay'
                              /\ g \notin Flat => base' = "complete"
        BY DEF ActiveIsBacked
    <2> DEFINE g == index[i].active
    <2>2. /\ <<g, "json">> \in files[i] /\ domain[i] = g /\ g \in overlay
          /\ g \in Gen
        BY <2>1 DEF CreateInv, ActiveIsBacked, CreateTypeOK, Index
    <2>3. <<g, "json">> \in files'[i]
        BY <2>2 DEF SameManifests
    <2>4. g \in overlay'
        <3>1. pc[p] \in BuildLabels => g # target[p]
            BY <2>1 DEF CreateInv, TargetIsNew
        <3> QED
            BY <2>2, <3>1 DEF SparesOverlays
    <2>5. g \notin Flat => base' = "complete"
        BY <2>1, <2>2 DEF BaseIsShared, BaseInUse, Consumers
    <2> QED
        BY <2>2, <2>3, <2>4, <2>5
<1>9. DomainsAreOwned'
    <2>1. \A i \in Inst : domain[i] \in Gen \cup {NoGen}
        BY DEF CreateInv, CreateTypeOK
    <2> QED
        BY <2>1 DEF CreateInv, DomainsAreOwned, SameManifests
<1> QED
    BY <1>2, <1>3, <1>5, <1>6, <1>7, <1>8, <1>9 DEF CreateInv

-----------------------------------------------------------------------------
(* The shared base *)

\* Who holds the base or builds on it depends on the process alone.
LEMMA OthersOnBase ==
    ASSUME NEW p \in Proc, OthersKeep(p), NEW q \in Proc \ {p}
    PROVE  HoldsBase(q)' = HoldsBase(q) /\ BuildsOnBase(q)' = BuildsOnBase(q)
BY DEF OthersKeep, HoldsBase, BuildsOnBase

\* A step that leaves the base, the indexes and the domains alone keeps the
\* base shared if its process only builds on it when that is proved.
LEMMA MoveKeepsBase ==
    ASSUME BaseIsShared, NEW p \in Proc, OthersKeep(p),
           UNCHANGED <<index, domain, base>>,
           HoldsBase(p)' => HoldsBase(p),
           BuildsOnBase(p)' => \/ BuildsOnBase(p)
                               \/ /\ base = "complete"
                                  /\ \A q \in Proc \ {p} : ~HoldsBase(q)
    PROVE  BaseIsShared'
<1>1. BaseInUse' = BaseInUse
    BY DEF BaseInUse, Consumers
<1>2. \A q \in Proc \ {p} :
          HoldsBase(q)' = HoldsBase(q) /\ BuildsOnBase(q)' = BuildsOnBase(q)
    BY OthersOnBase
<1>3. ASSUME NEW q \in Proc, BuildsOnBase(q)'
      PROVE  base' = "complete"
    BY <1>2, <1>3 DEF BaseIsShared
<1>4. ASSUME NEW q \in Proc, HoldsBase(q)'
      PROVE  /\ base' # "absent"
             /\ ~BaseInUse'
             /\ \A r \in Proc \ {q} : ~HoldsBase(r)' /\ ~BuildsOnBase(r)'
    <2>1. HoldsBase(q)
        BY <1>2, <1>4
    <2> QED
        BY <1>1, <1>2, <2>1 DEF BaseIsShared
<1> QED
    BY <1>1, <1>3, <1>4 DEF BaseIsShared

\* The base may change in any way while nobody but p relies on it or holds it.
LEMMA HolderChangesBase ==
    ASSUME NEW p \in Proc, OthersKeep(p), UNCHANGED <<index, domain>>,
           ~BaseInUse,
           \A q \in Proc \ {p} : ~HoldsBase(q) /\ ~BuildsOnBase(q),
           HoldsBase(p)' => base' # "absent",
           BuildsOnBase(p)' => base' = "complete"
    PROVE  BaseIsShared'
<1>1. BaseInUse' = BaseInUse
    BY DEF BaseInUse, Consumers
<1>2. \A q \in Proc \ {p} : ~HoldsBase(q)' /\ ~BuildsOnBase(q)'
    BY OthersOnBase
<1> QED
    BY <1>1, <1>2 DEF BaseIsShared

-----------------------------------------------------------------------------
(* The moves of a process *)

\* What every move below leaves to prove.
LEMMA QuietMoveKeepsInv ==
    ASSUME CreateInv, NEW p \in Proc, Moves(p),
           UNCHANGED <<state, domain, base>>,
           overlay' \in SUBSET Gen, SparesOverlays(p), faults' \in 0..MaxFaults,
           pc'[p] \in BuildLabels => pc[p] \in BuildLabels,
           "base" \in made'[p] => /\ "base" \in made[p]
                                  /\ \/ pc'[p] \in RollbackLabels
                                     \/ pc'[p] = "create_activate_write",
           pc'[p] # "create_define",
           pc'[p] = "create_copy" => origin[p] # NoGen,
           pc'[p] \in WriteLabels => /\ domain[name[p]] = target[p]
                                     /\ target[p] \in overlay
                                     /\ overlay' = overlay,
           HoldsBase(p)' => HoldsBase(p),
           BuildsOnBase(p)' => \/ BuildsOnBase(p)
                               \/ /\ base = "complete"
                                  /\ \A q \in Proc \ {p} : ~HoldsBase(q)
    PROVE  CreateInv'
<1>1. MemoryTypeOK' /\ OthersKeep(p) /\ (Stopped(p) \/ KeepsHand(p))
    BY MoveEffect DEF CreateInv, CreateTypeOK, MemoryTypeOK
<1>2. BaseIsShared'
    BY <1>1, MoveKeepsBase DEF CreateInv, state
<1>3. DurableTypeOK' /\ SameManifests
    BY DEF DurableTypeOK, CreateInv, CreateTypeOK, SameManifests, state
<1>4. InHand(p)'
    <2>1. InHand(p) /\ pc[p] # "idle"
        BY DEF CreateInv, Moves
    <2> QED
        BY <1>1, <2>1, NoGenAssumption
           DEF InHand, Stopped, KeepsHand, BuildLabels, RollbackLabels
<1>5. TargetIsReady(p)'
    BY <1>1 DEF TargetIsReady, Stopped, KeepsHand, WriteLabels
<1> QED
    BY <1>2, <1>3, <1>4, <1>5, MoveKeepsInv DEF state

\* The moves of the last lemma that end in a given label.
LEMMA GotoEffect ==
    ASSUME CreateInv, NEW p \in Proc, NEW label \in CreateLabels,
           pc[p] # "idle", Goto(p, label)
    PROVE  /\ Moves(p) /\ pc'[p] = label /\ made' = made
           /\ origin'[p] = origin[p]
BY DEF CreateInv, CreateTypeOK, Goto, Moves

LEMMA StopEffect ==
    ASSUME CreateInv, NEW p \in Proc, pc[p] # "idle", Stop(p)
    PROVE  /\ Moves(p) /\ pc'[p] = "idle" /\ made'[p] = {}
           /\ ~HoldsBase(p)' /\ ~BuildsOnBase(p)'
BY DEF CreateInv, CreateTypeOK, Stop, Moves, HoldsBase, BuildsOnBase,
       RollbackLabels

\* A process may stop at any time.
LEMMA StopKeepsInv ==
    ASSUME CreateInv, NEW p \in Proc, pc[p] # "idle", Stop(p),
           UNCHANGED <<state, domain, storage>>, faults' \in 0..MaxFaults
    PROVE  CreateInv'
<1>1. overlay \in SUBSET Gen
    BY DEF CreateInv, CreateTypeOK
<1> QED
    BY <1>1, StopEffect, QuietMoveKeepsInv
       DEF storage, SparesOverlays, BuildLabels, WriteLabels

\* The effect of a proof is to count on the base.
LEMMA ProofOfBase ==
    ASSUME CreateInv, ProvenBase
    PROVE  base = "complete" /\ \A q \in Proc : ~HoldsBase(q)
BY DEF CreateInv, ProvenBase, BaseIsShared, BaseInUse

LEMMA RevalidateKeepsInv ==
    ASSUME CreateInv, NEW p \in Proc, CreateRevalidate(p) \/ CreateReprove(p)
    PROVE  CreateInv'
<1>1. /\ pc[p] \in {"create_revalidate", "create_reprove"}
      /\ UNCHANGED <<state, domain, storage, faults>>
    BY DEF CreateRevalidate, CreateReprove
<1>2. /\ overlay' \in SUBSET Gen /\ faults' \in 0..MaxFaults
      /\ SparesOverlays(p) /\ "base" \notin made[p]
    BY <1>1 DEF CreateInv, CreateTypeOK, storage, SparesOverlays, InHand,
                RollbackLabels
<1>3. ASSUME Stop(p)
      PROVE  CreateInv'
    BY <1>1, <1>2, <1>3, StopKeepsInv
<1>4. ASSUME NEW label \in {"create_copy", "create_import", "create_reprove",
                            "create_overlay", "create_rollback"},
             Goto(p, label),
             label = "create_overlay" => ProvenBase,
             label = "create_copy" => origin[p] # NoGen
      PROVE  CreateInv'
    <2>1. label \in CreateLabels
        BY DEF CreateLabels
    <2>2. /\ Moves(p) /\ pc'[p] = label /\ made' = made
          /\ origin'[p] = origin[p]
        BY <1>1, <1>4, <2>1, GotoEffect
    <2>3. ~HoldsBase(p)'
        BY <1>2, <2>2 DEF HoldsBase
    <2>4. BuildsOnBase(p)' => /\ base = "complete"
                              /\ \A q \in Proc \ {p} : ~HoldsBase(q)
        BY <1>4, <2>2, ProofOfBase DEF BuildsOnBase
    <2> QED
        BY <1>1, <1>2, <1>4, <2>2, <2>3, <2>4, QuietMoveKeepsInv
           DEF storage, BuildLabels, WriteLabels
<1> QED
    BY <1>3, <1>4 DEF CreateRevalidate, CreateReprove

\* Importing an absent base takes it from nobody, and who imports it holds it.
LEMMA ImportKeepsInv ==
    ASSUME CreateInv, NEW p \in Proc, CreateImport(p) \/ CreateUpload(p)
    PROVE  CreateInv'
<1>1. /\ pc[p] \in {"create_import", "create_upload"}
      /\ UNCHANGED <<state, domain, overlay>>
      /\ "base" \notin made[p]
    BY DEF CreateImport, CreateUpload, CreateInv, InHand, RollbackLabels
<1>2. faults' \in 0..MaxFaults
    BY StrikeTypes DEF CreateImport, CreateUpload, CreateInv, CreateTypeOK
<1>3. CASE UNCHANGED base /\ Goto(p, "create_rollback")
    <2>1. "create_rollback" \in CreateLabels
        BY DEF CreateLabels
    <2>2. /\ Moves(p) /\ pc'[p] = "create_rollback" /\ made' = made
          /\ origin'[p] = origin[p]
        BY <1>1, <1>3, <2>1, GotoEffect
    <2> QED
        BY <1>1, <1>2, <1>3, <2>2, QuietMoveKeepsInv
           DEF CreateInv, CreateTypeOK, SparesOverlays, HoldsBase,
               BuildsOnBase, BuildLabels, WriteLabels
<1>4. CASE \/ CreateUpload(p)
           \/ base = "absent" /\ base' = "partial" /\ Goto(p, "create_upload")
    <2>1. /\ ~BaseInUse
          /\ \A q \in Proc \ {p} : ~HoldsBase(q) /\ ~BuildsOnBase(q)
        <3>1. CASE CreateUpload(p)
            BY <3>1 DEF CreateUpload, HoldsBase, CreateInv, BaseIsShared
        <3>2. CASE base = "absent"
            BY <3>2 DEF CreateInv, BaseIsShared
        <3> QED
            BY <1>4, <3>1, <3>2
    <2>2. /\ base' \in {"absent", "partial", "complete"}
          /\ \/ Goto(p, "create_rollback")
             \/ Goto(p, "create_upload") /\ base' = "partial"
             \/ GotoWith(p, "create_overlay", "base") /\ base' = "complete"
        BY <1>4 DEF CreateUpload
    <2>3. /\ Moves(p)
          /\ \/ pc'[p] = "create_rollback" /\ made'[p] = made[p]
             \/ pc'[p] = "create_upload" /\ base' = "partial"
             \/ pc'[p] = "create_overlay" /\ base' = "complete"
          /\ pc'[p] = "create_upload" => made'[p] = made[p]
        BY <1>1, <2>2
           DEF Moves, Goto, GotoWith, CreateLabels, CreateInv, CreateTypeOK
    <2>4. MemoryTypeOK' /\ OthersKeep(p) /\ (Stopped(p) \/ KeepsHand(p))
        BY <2>3, MoveEffect DEF CreateInv, CreateTypeOK, MemoryTypeOK
    <2>5. KeepsHand(p)
        BY <2>3, <2>4 DEF Stopped
    <2>6. BaseIsShared'
        BY <1>1, <2>1, <2>3, <2>4, HolderChangesBase
           DEF HoldsBase, BuildsOnBase, state
    <2>7. InHand(p)'
        BY <1>1, <2>3, <2>5
           DEF InHand, KeepsHand, CreateInv, BuildLabels, RollbackLabels
    <2>8. DurableTypeOK' /\ SameManifests /\ SparesOverlays(p)
        BY <1>1, <1>2, <2>2 DEF DurableTypeOK, SameManifests, SparesOverlays,
           CreateInv, CreateTypeOK, state
    <2>9. TargetIsReady(p)' /\ (pc'[p] \in BuildLabels => pc[p] \in BuildLabels)
        BY <1>1, <2>3 DEF TargetIsReady, WriteLabels, BuildLabels
    <2> QED
        BY <1>1, <2>3, <2>6, <2>7, <2>8, <2>9, MoveKeepsInv DEF state
<1> QED
    BY <1>3, <1>4 DEF CreateImport

\* A new overlay, on the base or a copy.
LEMMA OverlayKeepsInv ==
    ASSUME CreateInv, NEW p \in Proc, CreateOverlay(p) \/ CreateCopy(p)
    PROVE  CreateInv'
<1>1. /\ pc[p] \in {"create_overlay", "create_copy"}
      /\ UNCHANGED <<state, domain, base>>
      /\ overlay' \in {overlay, overlay \cup {target[p]}}
      /\ \/ GotoWith(p, "create_inspect", "overlay")
         \/ Goto(p, "create_rollback")
    BY DEF CreateOverlay, CreateCopy, MakeOverlay
<1>2. \/ CreateOverlay(p)
      \/ pc[p] = "create_copy" /\ "base" \notin made[p]
    BY DEF CreateCopy, CreateInv, InHand, RollbackLabels
<1>3. faults' \in 0..MaxFaults
    BY StrikeTypes
       DEF CreateOverlay, CreateCopy, MakeOverlay, CreateInv, CreateTypeOK
<1>4. overlay' \in SUBSET Gen /\ SparesOverlays(p)
    BY <1>1 DEF CreateInv, CreateTypeOK, InHand, SparesOverlays
<1>5. /\ Moves(p)
      /\ pc'[p] \in {"create_inspect", "create_rollback"}
      /\ origin'[p] = origin[p]
      /\ "base" \in made'[p] <=> "base" \in made[p]
    BY <1>1 DEF Moves, Goto, GotoWith, CreateLabels, CreateInv, CreateTypeOK
<1>6. HoldsBase(p)' => HoldsBase(p)
    BY <1>1, <1>2, <1>5 DEF HoldsBase, CreateOverlay, RollbackLabels
<1>7. BuildsOnBase(p)' => BuildsOnBase(p)
    BY <1>1, <1>5 DEF BuildsOnBase, CreateInv, InHand
<1> QED
    BY <1>1, <1>3, <1>4, <1>5, <1>6, <1>7, QuietMoveKeepsInv
       DEF BuildLabels, RollbackLabels, WriteLabels

\* The inspection, and the first half of the rollback, which takes back no
\* overlay but the one of the process.
LEMMA InspectKeepsInv ==
    ASSUME CreateInv, NEW p \in Proc, CreateInspect(p) \/ CreateRollback(p)
    PROVE  CreateInv'
<1>1. PICK label \in {"create_publish", "create_rollback",
                      "create_rollback_base"} : Goto(p, label)
    BY DEF CreateInspect, CreateRollback
<1>2. /\ pc[p] \in {"create_inspect", "create_rollback"}
      /\ pc[p] = "create_rollback" <=> label = "create_rollback_base"
      /\ CreateInspect(p) => UNCHANGED overlay
      /\ UNCHANGED <<state, domain, base>>
    BY <1>1 DEF CreateInspect, CreateRollback, Goto, CreateInv, CreateTypeOK,
                storage
<1>3. overlay' \in SUBSET Gen /\ SparesOverlays(p)
    BY <1>2 DEF CreateRollback, CreateInv, CreateTypeOK, SparesOverlays,
                BuildLabels
<1>4. faults' \in 0..MaxFaults
    BY StrikeTypes DEF CreateInspect, CreateRollback, CreateInv, CreateTypeOK
<1>5. label \in CreateLabels
    BY DEF CreateLabels
<1>6. /\ Moves(p) /\ pc'[p] = label /\ made' = made
      /\ origin'[p] = origin[p]
    BY <1>1, <1>2, <1>5, GotoEffect
<1>7. HoldsBase(p)' => HoldsBase(p)
    BY <1>2, <1>6 DEF HoldsBase, RollbackLabels
<1>8. BuildsOnBase(p)' => BuildsOnBase(p)
    BY <1>2, <1>6 DEF BuildsOnBase
<1> QED
    BY <1>2, <1>3, <1>4, <1>6, <1>7, <1>8, QuietMoveKeepsInv
       DEF BuildLabels, RollbackLabels, WriteLabels

\* The temporary file is no manifest yet.
LEMMA PublishKeepsInv ==
    ASSUME CreateInv, NEW p \in Proc, CreatePublish(p)
    PROVE  CreateInv'
<1>1. PICK label \in {"create_rename", "create_rollback"} : Goto(p, label)
    BY DEF CreatePublish
<1>2. /\ pc[p] = "create_publish"
      /\ name[p] \in Inst /\ target[p] \in Gen
      /\ UNCHANGED <<index, domain, overlay, base>>
      /\ dir' \in {dir, dir \cup {name[p]}}
      /\ \/ UNCHANGED files
         \/ files' = [files EXCEPT ![name[p]] = @ \cup {<<target[p], "tmp">>}]
    BY DEF CreatePublish, CreateInv, InHand, storage
<1>3. faults' \in 0..MaxFaults
    BY StrikeTypes DEF CreatePublish, CreateInv, CreateTypeOK
<1>4. DurableTypeOK'
    BY <1>2, <1>3 DEF DurableTypeOK, CreateInv, CreateTypeOK
<1>5. SameManifests
    BY <1>2 DEF SameManifests, CreateInv, CreateTypeOK
<1>6. label \in CreateLabels
    BY DEF CreateLabels
<1>7. /\ Moves(p) /\ pc'[p] = label /\ made' = made
      /\ origin'[p] = origin[p]
    BY <1>1, <1>2, <1>6, GotoEffect
<1>8. OthersKeep(p) /\ (Stopped(p) \/ KeepsHand(p))
    BY <1>7, MoveEffect DEF CreateInv, CreateTypeOK, MemoryTypeOK
<1>9. BaseIsShared'
    BY <1>2, <1>7, <1>8, MoveKeepsBase
       DEF CreateInv, HoldsBase, BuildsOnBase, RollbackLabels
<1>10. InHand(p)' /\ TargetIsReady(p)'
    BY <1>2, <1>7, <1>8 DEF InHand, TargetIsReady, CreateInv, Stopped,
       KeepsHand, BuildLabels, RollbackLabels, WriteLabels
<1> QED
    BY <1>2, <1>4, <1>5, <1>7, <1>9, <1>10, MoveKeepsInv
       DEF SparesOverlays, BuildLabels

\* The second half of the rollback takes the base from nobody.
LEMMA RollbackBaseKeepsInv ==
    ASSUME CreateInv, NEW p \in Proc, CreateRollbackBase(p)
    PROVE  CreateInv'
<1>1. /\ pc[p] = "create_rollback_base" /\ Stop(p)
      /\ UNCHANGED <<state, domain, overlay>>
      /\ \/ UNCHANGED base
         \/ base' = "absent" /\ "base" \in made[p]
    BY DEF CreateRollbackBase
<1>2. faults' \in 0..MaxFaults
    BY StrikeTypes DEF CreateRollbackBase, CreateInv, CreateTypeOK
<1>3. CASE UNCHANGED base
    BY <1>1, <1>2, <1>3, StopKeepsInv DEF storage
<1>4. CASE base' = "absent" /\ "base" \in made[p]
    <2>1. /\ Moves(p) /\ pc'[p] = "idle" /\ made'[p] = {}
          /\ ~HoldsBase(p)' /\ ~BuildsOnBase(p)'
        BY <1>1, StopEffect
    <2>2. OthersKeep(p)
        BY <2>1, MoveEffect DEF CreateInv, CreateTypeOK, MemoryTypeOK
    <2>3. HoldsBase(p)
        BY <1>1, <1>4 DEF HoldsBase, RollbackLabels
    <2>4. BaseIsShared'
        BY <1>1, <2>1, <2>2, <2>3, HolderChangesBase
           DEF CreateInv, BaseIsShared, state
    <2>5. DurableTypeOK' /\ SameManifests /\ SparesOverlays(p)
        BY <1>1, <1>2, <1>4 DEF DurableTypeOK, SameManifests, SparesOverlays,
           CreateInv, CreateTypeOK, state
    <2>6. InHand(p)' /\ TargetIsReady(p)'
        BY <2>1 DEF InHand, TargetIsReady, BuildLabels, WriteLabels
    <2> QED
        BY <1>1, <2>1, <2>4, <2>5, <2>6, MoveKeepsInv DEF state, BuildLabels
<1> QED
    BY <1>1, <1>3, <1>4

\* The last looks before an index is written.
LEMMA ConfirmKeepsInv ==
    ASSUME CreateInv, NEW p \in Proc, CreateActivate(p) \/ RecoverConfirm(p)
    PROVE  CreateInv'
<1>1. /\ pc[p] \in {"create_activate", "recover_confirm"}
      /\ UNCHANGED <<state, domain, storage, faults>>
      /\ faults' \in 0..MaxFaults /\ overlay \in SUBSET Gen
    BY DEF CreateActivate, RecoverConfirm, CreateInv, CreateTypeOK
<1>2. CASE Stop(p)
    BY <1>1, <1>2, StopKeepsInv
<1>3. ASSUME NEW label \in WriteLabels, Goto(p, label),
             domain[name[p]] = target[p], target[p] \in overlay,
             label = "recover_write" => "base" \notin made[p],
             label = "create_activate_write" => pc[p] = "create_activate"
      PROVE  CreateInv'
    <2>1. label \in CreateLabels
        BY DEF WriteLabels, CreateLabels
    <2>2. /\ Moves(p) /\ pc'[p] = label /\ made' = made
          /\ origin'[p] = origin[p]
        BY <1>1, <1>3, <2>1, GotoEffect
    <2> QED
        BY <1>1, <1>3, <2>2, QuietMoveKeepsInv
           DEF storage, SparesOverlays, BuildLabels, WriteLabels, HoldsBase,
               BuildsOnBase, RollbackLabels
<1>4. CASE CreateActivate(p) /\ ~Stop(p)
    BY <1>3, <1>4 DEF CreateActivate, WriteLabels, ResourcesExist
<1>5. CASE RecoverConfirm(p) /\ ~Stop(p)
    <2>1. "base" \notin made[p]
        BY <1>5 DEF RecoverConfirm, CreateInv, InHand, RollbackLabels
    <2> QED
        BY <1>3, <1>5, <2>1
           DEF RecoverConfirm, WriteLabels, Recoverable, ResourcesExist
<1> QED
    BY <1>2, <1>4, <1>5

-----------------------------------------------------------------------------
(* The other steps of a process *)

\* A plan begins with nothing in hand: a create with a generation nobody
\* knows, a recovery with the generation of a domain.
LEMMA StartKeepsInv ==
    ASSUME CreateInv, NEW p \in Proc, NEW i \in Inst, NEW g \in Gen,
           NEW from \in Gen \cup {NoGen},
           NEW label \in {"create_revalidate", "recover_confirm"},
           Start(p, label, i, g, from),
           index[i] = NoIndex,
           label = "create_revalidate" =>
               UnusedGeneration(g) /\ (g \notin Flat => from = NoGen),
           label = "recover_confirm" => domain[i] = g
    PROVE  CreateInv'
<1>1. label \in CreateLabels
    BY DEF CreateLabels
<1>2. /\ MemoryTypeOK' /\ OthersKeep(p)
      /\ pc'[p] = label /\ name'[p] = i /\ target'[p] = g
      /\ origin'[p] = from /\ made' = made
    BY <1>1, StartEffect DEF CreateInv, CreateTypeOK, MemoryTypeOK
<1>3. /\ pc[p] = "idle" /\ "base" \notin made[p]
      /\ UNCHANGED <<index, dir, files, domain, overlay, base, faults>>
    BY DEF Start, state, storage, CreateInv, InHand, RollbackLabels
<1>4. CreateTypeOK'
    BY <1>2, <1>3 DEF CreateInv, CreateTypeOK, MemoryTypeOK
<1>5. \A q \in Proc : InHand(q)'
    BY <1>2, <1>3 DEF CreateInv, InHand, OthersKeep, BuildLabels
<1>6. ASSUME NEW q \in Proc \ {p}
      PROVE  TargetIsNew(q)' /\ TargetIsReady(q)'
    <2>1. /\ pc'[q] = pc[q] /\ target'[q] = target[q] /\ name'[q] = name[q]
          /\ TargetIsNew(q) /\ TargetIsReady(q)
        BY <1>2 DEF OthersKeep, CreateInv
    <2>2. pc[q] \in BuildLabels => g # target[q]
        <3>1. CASE label = "create_revalidate"
            BY <3>1 DEF UnusedGeneration
        <3>2. CASE label = "recover_confirm"
            BY <2>1, <3>2 DEF TargetIsNew
        <3> QED
            BY <3>1, <3>2
    <2>3. ASSUME NEW r \in Proc \ {q}, pc[q] \in BuildLabels
          PROVE  target'[r] # target'[q]
        BY <1>2, <2>1, <2>2, <2>3 DEF OthersKeep, TargetIsNew
    <2> QED
        BY <1>3, <2>1, <2>3 DEF TargetIsNew, TargetIsReady
<1>7. TargetIsNew(p)'
    <2>1. SUFFICES ASSUME label = "create_revalidate"
                   PROVE  TargetIsNew(p)'
        BY <1>2 DEF TargetIsNew, BuildLabels
    <2>2. /\ \A j \in Inst : <<g, "json">> \notin files[j]
          /\ \A q \in Proc : target[q] # g
        BY <2>1 DEF UnusedGeneration
    <2>3. \A j \in Inst : domain[j] # g
        BY <2>2, NoGenAssumption DEF CreateInv, DomainsAreOwned
    <2>4. \A j \in Inst : index[j] # NoIndex => index[j].active # g
        BY <2>2 DEF CreateInv, IndexesAreApart
    <2> QED
        BY <1>2, <1>3, <2>2, <2>3, <2>4 DEF TargetIsNew, OthersKeep
<1>8. TargetIsReady(p)'
    BY <1>2 DEF TargetIsReady, WriteLabels
<1>9. IndexesAreApart'
    <2>1. \A j \in Inst \ {i} : Unattended(j) => Unattended(j)'
        BY <1>2 DEF Unattended, OthersKeep
    <2> QED
        BY <1>3, <2>1 DEF CreateInv, IndexesAreApart
<1>10. ActiveIsBacked' /\ DomainsAreOwned'
    BY <1>3 DEF CreateInv, ActiveIsBacked, DomainsAreOwned
<1>11. BaseIsShared'
    BY <1>2, <1>3, MoveKeepsBase DEF CreateInv, HoldsBase, BuildsOnBase
<1> QED
    BY <1>4, <1>5, <1>6, <1>7, <1>8, <1>9, <1>10, <1>11 DEF CreateInv

LEMMA PlanKeepsInv ==
    ASSUME CreateInv, NEW p \in Proc, NEW i \in Inst, NEW g \in Gen,
           \/ CreatePlan(p, i, g)
           \/ RecoverPlan(p, i, g)
           \/ \E s \in Inst \ {i} : ClonePlan(p, i, s, g)
    PROVE  CreateInv'
<1>1. index[i] = NoIndex
    BY DEF CreatePlan, RecoverPlan, ClonePlan, TargetAbsent, Recoverable, Layout
<1>2. CASE CreatePlan(p, i, g)
    BY <1>1, <1>2, StartKeepsInv DEF CreatePlan
<1>3. CASE RecoverPlan(p, i, g)
    BY <1>1, <1>3, StartKeepsInv DEF RecoverPlan, Recoverable
<1>4. ASSUME NEW s \in Inst, ClonePlan(p, i, s, g)
      PROVE  CreateInv'
    <2>1. index[s].active \in Gen
        BY <1>4 DEF ClonePlan, CreateInv, CreateTypeOK, Index
    <2> QED
        BY <1>1, <1>4, <2>1, StartKeepsInv DEF ClonePlan
<1> QED
    BY <1>2, <1>3, <1>4

\* A manifest appears in the directory of the process that built it.
LEMMA PublishedKeepsInv ==
    ASSUME CreateInv, NEW p \in Proc, pc[p] = "create_rename",
           NEW label \in {"create_define", "create_rollback"}, Goto(p, label),
           UNCHANGED <<index, dir, domain, storage>>, faults' \in 0..MaxFaults,
           files' \in [Inst -> SUBSET (Gen \X {"json", "tmp"})],
           \A i \in Inst, g \in Gen :
               <<g, "json">> \in files'[i] <=>
                   <<g, "json">> \in files[i] \/ (i = name[p] /\ g = target[p])
    PROVE  CreateInv'
<1>1. label \in CreateLabels
    BY DEF CreateLabels
<1>2. /\ Moves(p) /\ pc'[p] = label /\ made' = made
      /\ origin'[p] = origin[p]
    BY <1>1, GotoEffect
<1>3. MemoryTypeOK' /\ OthersKeep(p) /\ (Stopped(p) \/ KeepsHand(p))
    BY <1>2, MoveEffect DEF CreateInv, CreateTypeOK, MemoryTypeOK
<1>4. /\ name[p] \in Inst /\ target[p] \in Gen
      /\ InHand(p) /\ TargetIsNew(p) /\ KeepsHand(p)
    BY <1>2, <1>3 DEF CreateInv, InHand, Stopped
<1>5. CreateTypeOK'
    BY <1>3 DEF CreateInv, CreateTypeOK, MemoryTypeOK, storage
<1>6. \A q \in Proc : InHand(q)'
    BY <1>2, <1>3, <1>4
       DEF CreateInv, InHand, OthersKeep, KeepsHand, BuildLabels, RollbackLabels
<1>7. ASSUME NEW q \in Proc
      PROVE  TargetIsNew(q)'
    <2>1. SUFFICES ASSUME pc'[q] \in BuildLabels
                   PROVE  TargetIsNew(q)'
        BY DEF TargetIsNew
    <2>2. /\ \A r \in Proc : target'[r] = target[r] /\ name'[r] = name[r]
          /\ pc[q] \in BuildLabels /\ target[q] \in Gen /\ TargetIsNew(q)
        BY <1>2, <1>3, <1>4, <2>1
           DEF OthersKeep, KeepsHand, BuildLabels, CreateInv, InHand
    <2>3. q # p => target[q] # target[p]
        BY <2>2 DEF TargetIsNew
    <2>4. ASSUME NEW i \in Inst, <<target[q], "json">> \in files'[i]
          PROVE  i = name[q]
        BY <2>2, <2>3, <2>4 DEF TargetIsNew
    <2> QED
        BY <2>2, <2>4 DEF TargetIsNew
<1>8. ASSUME NEW q \in Proc
      PROVE  TargetIsReady(q)'
    BY <1>2, <1>3, <1>4 DEF TargetIsReady, CreateInv, InHand, OthersKeep,
       KeepsHand, WriteLabels, storage
<1>9. IndexesAreApart'
    <2>1. \A i \in Inst : Unattended(i) => Unattended(i)'
        BY <1>3, <1>4 DEF Unattended, OthersKeep, KeepsHand
    <2>2. \A i \in Inst : <<target[p], "json">> \in files[i] => i = name[p]
        BY <1>4 DEF TargetIsNew, BuildLabels
    <2>3. \A i \in Inst : index[i] # NoIndex => index[i].active \in Gen
        BY DEF CreateInv, CreateTypeOK, Index
    <2> QED
        BY <2>1, <2>2, <2>3 DEF CreateInv, IndexesAreApart
<1>10. ActiveIsBacked' /\ DomainsAreOwned'
    <2>1. \A i \in Inst, g \in Gen :
              <<g, "json">> \in files[i] => <<g, "json">> \in files'[i]
        PROOF OBVIOUS
    <2>2. /\ \A i \in Inst : index[i] # NoIndex => index[i].active \in Gen
          /\ \A i \in Inst : domain[i] \in Gen \cup {NoGen}
        BY DEF CreateInv, CreateTypeOK, Index
    <2> QED
        BY <2>1, <2>2 DEF CreateInv, ActiveIsBacked, DomainsAreOwned, storage
<1>11. BaseIsShared'
    BY <1>2, <1>3, MoveKeepsBase
       DEF CreateInv, HoldsBase, BuildsOnBase, RollbackLabels, storage
<1> QED
    BY <1>5, <1>6, <1>7, <1>8, <1>9, <1>10, <1>11 DEF CreateInv

LEMMA RenameKeepsInv ==
    ASSUME CreateInv, NEW p \in Proc, CreateRename(p)
    PROVE  CreateInv'
<1>1. /\ pc[p] = "create_rename"
      /\ UNCHANGED <<index, dir, domain, storage>>
      /\ name[p] \in Inst /\ target[p] \in Gen
      /\ files \in [Inst -> SUBSET (Gen \X {"json", "tmp"})]
    BY DEF CreateRename, CreateInv, InHand, CreateTypeOK
<1>2. faults' \in 0..MaxFaults
    BY StrikeTypes DEF CreateRename, CreateInv, CreateTypeOK
<1>3. ASSUME NEW label \in {"create_define", "create_rollback"}, Goto(p, label),
             files' = [files EXCEPT ![name[p]] =
                           (@ \ {<<target[p], "tmp">>})
                               \cup {<<target[p], "json">>}]
      PROVE  CreateInv'
    <2>1. files' \in [Inst -> SUBSET (Gen \X {"json", "tmp"})]
        BY <1>1, <1>3
    <2>2. \A i \in Inst, g \in Gen :
              <<g, "json">> \in files'[i] <=>
                  <<g, "json">> \in files[i] \/ (i = name[p] /\ g = target[p])
        BY <1>1, <1>3
    <2> QED
        BY <1>1, <1>2, <1>3, <2>1, <2>2, PublishedKeepsInv
<1>4. ASSUME Goto(p, "create_rollback"),
             files' = [files EXCEPT ![name[p]] = @ \ {<<target[p], "tmp">>}]
      PROVE  CreateInv'
    <2>1. "create_rollback" \in CreateLabels
        BY DEF CreateLabels
    <2>2. /\ Moves(p) /\ pc'[p] = "create_rollback" /\ made' = made
          /\ origin'[p] = origin[p]
        BY <1>1, <1>4, <2>1, GotoEffect
    <2>3. OthersKeep(p) /\ (Stopped(p) \/ KeepsHand(p))
        BY <2>2, MoveEffect DEF CreateInv, CreateTypeOK, MemoryTypeOK
    <2>4. DurableTypeOK' /\ SameManifests
        BY <1>1, <1>2, <1>4
           DEF DurableTypeOK, SameManifests, CreateInv, CreateTypeOK, storage
    <2>5. BaseIsShared'
        BY <1>1, <2>2, <2>3, MoveKeepsBase
           DEF CreateInv, HoldsBase, BuildsOnBase, RollbackLabels, storage
    <2>6. InHand(p)' /\ TargetIsReady(p)'
        BY <1>1, <2>2, <2>3 DEF InHand, TargetIsReady, CreateInv, Stopped,
           KeepsHand, BuildLabels, RollbackLabels, WriteLabels
    <2> QED
        BY <1>1, <2>2, <2>4, <2>5, <2>6, MoveKeepsInv
           DEF SparesOverlays, BuildLabels, storage
<1> QED
    BY <1>3, <1>4 DEF CreateRename

\* A domain is defined for a generation whose manifest is published, on a name
\* that has no index.
LEMMA DefinedKeepsInv ==
    ASSUME CreateInv, NEW p \in Proc, pc[p] = "create_define",
           Goto(p, "create_activate") \/ Stop(p),
           domain[name[p]] = NoGen,
           domain' = [domain EXCEPT ![name[p]] = target[p]],
           UNCHANGED <<state, storage>>, faults' \in 0..MaxFaults
    PROVE  CreateInv'
<1>1. /\ Moves(p) /\ pc'[p] \in {"create_activate", "idle"}
      /\ "base" \in made'[p] => pc'[p] = "create_activate"
      /\ ~HoldsBase(p)'
    BY StopEffect, GotoEffect DEF CreateLabels, HoldsBase, RollbackLabels
<1>2. MemoryTypeOK' /\ OthersKeep(p) /\ (Stopped(p) \/ KeepsHand(p))
    BY <1>1, MoveEffect DEF CreateInv, CreateTypeOK, MemoryTypeOK
<1>3. /\ name[p] \in Inst /\ target[p] \in Gen /\ InHand(p)
      /\ TargetIsNew(p) /\ TargetIsReady(p)
      /\ UNCHANGED <<index, dir, files, overlay, base>>
      /\ domain \in [Inst -> Gen \cup {NoGen}]
    BY DEF CreateInv, InHand, state, storage, CreateTypeOK
<1>4. \A i \in Inst : domain'[i] = IF i = name[p] THEN target[p] ELSE domain[i]
    BY <1>3
<1>5. index[name[p]] = NoIndex
    <2>1. ~Unattended(name[p])
        BY DEF Unattended
    <2>2. index[name[p]] # NoIndex => index[name[p]].delete.phase = "None"
        BY <1>3, <2>1 DEF CreateInv, IndexesAreApart
    <2>3. index[name[p]] # NoIndex => index[name[p]].active \in Gen
        BY <1>3 DEF CreateInv, CreateTypeOK, Index
    <2> QED
        BY <1>3, <2>2, <2>3, NoGenAssumption DEF CreateInv, ActiveIsBacked
<1>6. CreateTypeOK'
    BY <1>2, <1>3 DEF CreateInv, CreateTypeOK, MemoryTypeOK
<1>7. \A q \in Proc : InHand(q)'
    BY <1>1, <1>2, <1>3 DEF CreateInv, InHand, OthersKeep, Stopped, KeepsHand,
       BuildLabels, RollbackLabels
<1>8. ASSUME NEW q \in Proc
      PROVE  TargetIsNew(q)' /\ TargetIsReady(q)'
    <2>1. CASE q = p
        BY <1>1, <2>1
           DEF TargetIsNew, TargetIsReady, BuildLabels, WriteLabels
    <2>2. CASE q # p
        <3>1. /\ pc'[q] = pc[q] /\ target'[q] = target[q]
              /\ name'[q] = name[q]
              /\ TargetIsNew(q) /\ TargetIsReady(q) /\ InHand(q)
            BY <1>2, <2>2 DEF OthersKeep, CreateInv
        <3>2. pc[q] \in BuildLabels => target[q] # target[p] /\ target[q] # NoGen
            BY <2>2, <3>1, NoGenAssumption DEF TargetIsNew, InHand, BuildLabels
        <3>3. pc[q] \in BuildLabels =>
                  \A r \in Proc \ {q} : target'[r] # target'[q]
            BY <1>2, <3>1, <3>2
               DEF TargetIsNew, OthersKeep, Stopped, KeepsHand
        <3>4. pc[q] \in WriteLabels => name[q] # name[p]
            BY <3>1, NoGenAssumption DEF TargetIsReady, InHand, WriteLabels
        <3>5. TargetIsNew(q)'
            BY <1>3, <1>4, <3>1, <3>2, <3>3 DEF TargetIsNew
        <3>6. TargetIsReady(q)'
            BY <1>3, <1>4, <3>1, <3>4 DEF TargetIsReady, InHand, WriteLabels
        <3> QED
            BY <3>5, <3>6
    <2> QED
        BY <2>1, <2>2
<1>9. IndexesAreApart'
    <2>1. \A i \in Inst : Unattended(i) => Unattended(i)'
        BY <1>2, NoInstAssumption
           DEF Unattended, OthersKeep, KeepsHand, Stopped
    <2> QED
        BY <1>3, <2>1 DEF CreateInv, IndexesAreApart
<1>10. ActiveIsBacked'
    BY <1>3, <1>4, <1>5 DEF CreateInv, ActiveIsBacked
<1>11. DomainsAreOwned'
    BY <1>3, <1>4, <1>5 DEF CreateInv, DomainsAreOwned, TargetIsReady
<1>12. BaseIsShared'
    <2>1. target[p] \notin Flat => BuildsOnBase(p)
        BY <1>3 DEF InHand, BuildsOnBase, BuildLabels
    <2>2. BaseInUse' => BaseInUse \/ BuildsOnBase(p)
        BY <1>3, <1>4, <2>1 DEF BaseInUse, Consumers
    <2>3. \A q \in Proc \ {p} :
              HoldsBase(q)' = HoldsBase(q) /\ BuildsOnBase(q)' = BuildsOnBase(q)
        BY <1>2, OthersOnBase
    <2>4. BuildsOnBase(p)' => BuildsOnBase(p)
        BY <1>1, <1>2, NoGenAssumption
           DEF BuildsOnBase, Stopped, KeepsHand
    <2>5. ASSUME NEW q \in Proc, HoldsBase(q)'
          PROVE  /\ base' # "absent"
                 /\ ~BaseInUse'
                 /\ \A r \in Proc \ {q} : ~HoldsBase(r)' /\ ~BuildsOnBase(r)'
        <3>1. HoldsBase(q) /\ q # p
            BY <1>1, <2>3, <2>5
        <3>2. /\ base # "absent" /\ ~BaseInUse
              /\ \A r \in Proc \ {q} : ~HoldsBase(r) /\ ~BuildsOnBase(r)
            BY <3>1 DEF CreateInv, BaseIsShared
        <3> QED
            BY <1>1, <1>3, <2>2, <2>3, <2>4, <3>1, <3>2
    <2>6. BaseInUse' => base' = "complete"
        BY <1>3, <2>2 DEF CreateInv, BaseIsShared
    <2>7. \A q \in Proc : BuildsOnBase(q)' => base' = "complete"
        BY <1>3, <2>3, <2>4 DEF CreateInv, BaseIsShared
    <2> QED
        BY <2>5, <2>6, <2>7 DEF BaseIsShared
<1> QED
    BY <1>6, <1>7, <1>8, <1>9, <1>10, <1>11, <1>12 DEF CreateInv

LEMMA DefineKeepsInv ==
    ASSUME CreateInv, NEW p \in Proc, CreateDefine(p)
    PROVE  CreateInv'
<1>1. faults' \in 0..MaxFaults
    BY StrikeTypes DEF CreateDefine, CreateInv, CreateTypeOK
<1>2. CASE Stop(p) /\ UNCHANGED domain
    BY <1>1, <1>2, StopKeepsInv DEF CreateDefine
<1>3. ASSUME domain[name[p]] = NoGen,
             domain' = [domain EXCEPT ![name[p]] = target[p]],
             Goto(p, "create_activate") \/ Stop(p)
      PROVE  CreateInv'
    BY <1>1, <1>3, DefinedKeepsInv DEF CreateDefine
<1> QED
    BY <1>2, <1>3 DEF CreateDefine

\* An index is written for the generation whose domain and overlay were found.
LEMMA WriteKeepsInv ==
    ASSUME CreateInv, NEW p \in Proc, pc[p] \in WriteLabels,
           WriteInitialIndex(p)
    PROVE  CreateInv'
<1>1. /\ Stop(p) /\ pc[p] # "idle"
      /\ UNCHANGED <<dir, files, domain, overlay, base, faults>>
    BY DEF WriteInitialIndex, storage, WriteLabels
<1>2. Moves(p) /\ pc'[p] = "idle" /\ ~HoldsBase(p)' /\ ~BuildsOnBase(p)'
    BY <1>1, StopEffect
<1>3. /\ MemoryTypeOK' /\ OthersKeep(p)
      /\ name'[p] = NoInst /\ target'[p] = NoGen /\ made'[p] = {}
    BY <1>1, <1>2, MoveEffect
       DEF CreateInv, CreateTypeOK, MemoryTypeOK, Stop
<1>4. /\ name[p] \in Inst /\ target[p] \in Gen
      /\ domain[name[p]] = target[p] /\ target[p] \in overlay
      /\ <<target[p], "json">> \in files[name[p]]
    BY <1>1, NoGenAssumption
       DEF CreateInv, InHand, TargetIsReady, DomainsAreOwned, WriteLabels
<1>5. /\ InitialIndex(target[p]) \in Index
      /\ InitialIndex(target[p]).active = target[p]
      /\ InitialIndex(target[p]).delete.phase = "None"
    BY <1>4 DEF InitialIndex, Index, NoDelete, DeleteState, Status
<1>6. \A i \in Inst : index'[i] = IF i = name[p] THEN InitialIndex(target[p])
                                   ELSE index[i]
    BY <1>4 DEF WriteInitialIndex, CreateInv, CreateTypeOK
<1>7. CreateTypeOK'
    BY <1>1, <1>3, <1>5
       DEF WriteInitialIndex, CreateInv, CreateTypeOK, MemoryTypeOK
<1>8. \A q \in Proc : InHand(q)'
    BY <1>2, <1>3 DEF CreateInv, InHand, OthersKeep, BuildLabels
<1>9. ASSUME NEW q \in Proc
      PROVE  TargetIsNew(q)' /\ TargetIsReady(q)'
    <2>1. CASE q = p
        BY <1>2, <2>1
           DEF TargetIsNew, TargetIsReady, BuildLabels, WriteLabels
    <2>2. CASE q # p
        <3>1. /\ pc'[q] = pc[q] /\ target'[q] = target[q]
              /\ name'[q] = name[q]
              /\ TargetIsNew(q) /\ TargetIsReady(q) /\ InHand(q)
            BY <1>3, <2>2 DEF OthersKeep, CreateInv
        <3>2. pc[q] \in BuildLabels => target[q] # target[p] /\ target[q] # NoGen
            BY <2>2, <3>1, NoGenAssumption DEF TargetIsNew, InHand, BuildLabels
        <3>3. pc[q] \in BuildLabels =>
                  \A r \in Proc \ {q} : target'[r] # target'[q]
            BY <1>3, <3>1, <3>2 DEF TargetIsNew, OthersKeep
        <3>4. TargetIsNew(q)'
            BY <1>1, <1>5, <1>6, <3>1, <3>2, <3>3 DEF TargetIsNew
        <3> QED
            BY <1>1, <3>1, <3>4 DEF TargetIsReady
    <2> QED
        BY <2>1, <2>2
<1>10. IndexesAreApart'
    <2>1. \A i \in Inst : Unattended(i) => Unattended(i)'
        BY <1>3, NoInstAssumption DEF Unattended, OthersKeep
    <2> QED
        BY <1>1, <1>4, <1>5, <1>6, <2>1 DEF CreateInv, IndexesAreApart
<1>11. BaseInUse' => BaseInUse
    BY <1>1, <1>4, <1>5, <1>6 DEF BaseInUse, Consumers
<1>12. BaseIsShared'
    <2>1. \A q \in Proc \ {p} :
              HoldsBase(q)' = HoldsBase(q) /\ BuildsOnBase(q)' = BuildsOnBase(q)
        BY <1>3, OthersOnBase
    <2> QED
        BY <1>1, <1>2, <1>11, <2>1 DEF CreateInv, BaseIsShared
<1>13. ActiveIsBacked'
    <2>1. target[p] \notin Flat => base = "complete"
        BY <1>4 DEF CreateInv, BaseIsShared, BaseInUse
    <2> QED
        BY <1>1, <1>4, <1>5, <1>6, <2>1 DEF CreateInv, ActiveIsBacked
<1>14. DomainsAreOwned'
    BY <1>1, <1>4, <1>5, <1>6 DEF CreateInv, DomainsAreOwned
<1> QED
    BY <1>7, <1>8, <1>9, <1>10, <1>12, <1>13, <1>14 DEF CreateInv

-----------------------------------------------------------------------------
(* The deletions and the theorems *)

\* A deletion touches an instance nobody works on.
LEMMA DeleteKeepsInv ==
    ASSUME CreateInv, NEW i \in Inst,
           \/ DeleteIntend(i)
           \/ DeleteRemoveDomain(i)
           \/ DeleteRemoveOverlay(i)
           \/ DeleteReport(i)
    PROVE  CreateInv'
<1> DEFINE old == index[i]
           g == index[i].active
<1>1. /\ UNCHANGED <<dir, files, base, memory, faults>>
      /\ index[i] # NoIndex
    BY DEF DeleteIntend, DeleteRemoveDomain, DeleteRemoveOverlay,
           DeleteReport, Deleting, state, storage
<1>2. index[i] \in Index /\ g \in Gen
    BY <1>1 DEF CreateInv, CreateTypeOK, Index
<1>3. Unattended(i)
    BY <1>1 DEF DeleteIntend, DeleteRemoveDomain, DeleteRemoveOverlay,
                DeleteReport, Deleting, CreateInv, IndexesAreApart
<1>4. PICK new \in Index :
          /\ index' = [index EXCEPT ![i] = new]
          /\ new.active = g
          /\ new.delete.phase # "None"
    <2>1. CASE DeleteIntend(i)
        <3>1. BeginDelete(old) \in Index
            BY <1>2 DEF BeginDelete, Index, DeleteState, Disposable, Role
        <3> QED
            BY <1>2, <2>1, <3>1 DEF DeleteIntend, BeginDelete, Index
    <2>2. CASE DeleteReport(i)
        <3> DEFINE next == [old EXCEPT !.delete =
                                [@ EXCEPT !.phase = "Deleted",
                                          !.domain = "Absent", !.pending = {}]]
        <3>1. next \in Index /\ next.active = g /\ next.delete.phase # "None"
            BY <1>2 DEF Index, DeleteState
        <3>2. index' = [index EXCEPT ![i] = next]
            BY <2>2 DEF DeleteReport
        <3> QED
            BY <3>1, <3>2
    <2>3. CASE DeleteRemoveDomain(i) \/ DeleteRemoveOverlay(i)
        BY <1>2, <2>3 DEF DeleteRemoveDomain, DeleteRemoveOverlay, Deleting,
           state, CreateInv, CreateTypeOK
    <2> QED
        BY <2>1, <2>2, <2>3
<1>5. \A j \in Inst : index'[j] = IF j = i THEN new ELSE index[j]
    BY <1>4 DEF CreateInv, CreateTypeOK
<1>6. /\ domain' \in [Inst -> Gen \cup {NoGen}]
      /\ \A j \in Inst : \/ domain'[j] = domain[j]
                         \/ j = i /\ domain'[j] = NoGen
    BY DEF DeleteIntend, DeleteRemoveDomain, DeleteRemoveOverlay,
           DeleteReport, CreateInv, CreateTypeOK
<1>7. overlay' \in {overlay, overlay \ {g}}
    BY DEF DeleteIntend, DeleteRemoveDomain, DeleteRemoveOverlay,
           DeleteReport, storage
<1>8. <<g, "json">> \in files[i]
    BY <1>1 DEF CreateInv, IndexesAreApart
<1>9. CreateTypeOK'
    BY <1>1, <1>4, <1>6, <1>7 DEF CreateInv, CreateTypeOK, memory
<1>10. ASSUME NEW q \in Proc
       PROVE  InHand(q)' /\ TargetIsNew(q)'
    <2>1. InHand(q) /\ TargetIsNew(q)
        BY DEF CreateInv
    <2>2. pc[q] \in BuildLabels => target[q] # NoGen
        BY <2>1, NoGenAssumption DEF InHand, BuildLabels
    <2>3. TargetIsNew(q)'
        BY <1>1, <1>4, <1>5, <1>6, <2>1, <2>2 DEF TargetIsNew, memory
    <2> QED
        BY <1>1, <2>1, <2>3 DEF InHand, memory
<1>11. ASSUME NEW q \in Proc
       PROVE  TargetIsReady(q)'
    <2>1. /\ InHand(q) /\ TargetIsReady(q) /\ name[q] # i
        BY <1>3 DEF CreateInv, Unattended
    <2>2. pc[q] \in WriteLabels => target[q] # g
        BY <1>8, <2>1, NoGenAssumption DEF CreateInv, DomainsAreOwned,
           IndexesAreApart, TargetIsReady, InHand, WriteLabels
    <2> QED
        BY <1>1, <1>6, <1>7, <2>1, <2>2
           DEF TargetIsReady, InHand, WriteLabels, memory
<1>12. IndexesAreApart'
    <2>1. \A j \in Inst : Unattended(j)' = Unattended(j)
        BY <1>1 DEF Unattended, memory
    <2> QED
        BY <1>1, <1>3, <1>4, <1>5, <1>8, <2>1 DEF CreateInv, IndexesAreApart
<1>13. ActiveIsBacked'
    <2>1. ASSUME NEW j \in Inst \ {i}, index[j] # NoIndex
          PROVE  index[j].active # g
        BY <1>2, <1>8, <2>1 DEF CreateInv, IndexesAreApart
    <2> QED
        BY <1>1, <1>4, <1>5, <1>6, <1>7, <2>1 DEF CreateInv, ActiveIsBacked
<1>14. DomainsAreOwned'
    BY <1>1, <1>4, <1>5, <1>6 DEF CreateInv, DomainsAreOwned
<1>15. BaseIsShared'
    <2>1. BaseInUse' => BaseInUse
        BY <1>1, <1>4, <1>5, <1>6, NoGenAssumption DEF BaseInUse, Consumers
    <2>2. \A q \in Proc :
              HoldsBase(q)' = HoldsBase(q) /\ BuildsOnBase(q)' = BuildsOnBase(q)
        BY <1>1 DEF HoldsBase, BuildsOnBase, memory
    <2> QED
        BY <1>1, <2>1, <2>2 DEF CreateInv, BaseIsShared
<1> QED
    BY <1>9, <1>10, <1>11, <1>12, <1>13, <1>14, <1>15 DEF CreateInv

LEMMA CommandKeepsInv ==
    ASSUME CreateInv, NEW p \in Proc, CreateCommand(p) \/ Crash(p)
    PROVE  CreateInv'
<1>1. ASSUME Crash(p)
      PROVE  CreateInv'
    <2>1. faults' \in 0..MaxFaults
        BY <1>1, StrikeTypes DEF Crash, CreateInv, CreateTypeOK
    <2> QED
        BY <1>1, <2>1, StopKeepsInv DEF Crash
<1>2. ASSUME CreateActivateWrite(p) \/ RecoverWrite(p)
      PROVE  CreateInv'
    BY <1>2, WriteKeepsInv DEF CreateActivateWrite, RecoverWrite, WriteLabels
<1>3. ASSUME CreateCommand(p)
      PROVE  CreateInv'
    BY <1>2, <1>3, PlanKeepsInv, RevalidateKeepsInv, ImportKeepsInv,
       OverlayKeepsInv, InspectKeepsInv, PublishKeepsInv, RenameKeepsInv,
       RollbackBaseKeepsInv, DefineKeepsInv, ConfirmKeepsInv
       DEF CreateCommand
<1> QED
    BY <1>1, <1>3

LEMMA CreateStepKeepsInv ==
    ASSUME CreateInv, [CreateNext]_createVars
    PROVE  CreateInv'
<1>1. CASE UNCHANGED createVars
    <2>1. UNCHANGED <<index, dir, files, domain, overlay, base>>
        BY <1>1 DEF createVars, state, storage
    <2>2. UNCHANGED <<pc, name, target, origin, made, faults>>
        BY <1>1 DEF createVars, memory
    <2>3. /\ CreateTypeOK' = CreateTypeOK
          /\ ActiveIsBacked' = ActiveIsBacked
          /\ DomainsAreOwned' = DomainsAreOwned
        BY <2>1, <2>2 DEF CreateTypeOK, ActiveIsBacked, DomainsAreOwned
    <2>4. \A p \in Proc :
              /\ InHand(p)' = InHand(p)
              /\ TargetIsNew(p)' = TargetIsNew(p)
              /\ TargetIsReady(p)' = TargetIsReady(p)
        BY <2>1, <2>2 DEF InHand, TargetIsNew, TargetIsReady
    <2>5. IndexesAreApart' = IndexesAreApart
        BY <2>1, <2>2 DEF IndexesAreApart, Unattended
    <2>6. BaseIsShared' = BaseIsShared
        BY <2>1, <2>2
           DEF BaseIsShared, BaseInUse, Consumers, HoldsBase, BuildsOnBase
    <2> QED
        BY <2>3, <2>4, <2>5, <2>6 DEF CreateInv
<1> QED
    BY <1>1, CommandKeepsInv, DeleteKeepsInv DEF CreateNext

\* Only an import that fails and a rollback remove the base.
LEMMA WhoRemovesTheBase ==
    ASSUME CreateInv, [CreateNext]_createVars, base = "complete", base' = "absent"
    PROVE  \E p \in Proc : HoldsBase(p) /\ ~BuildsOnBase(p)
<1>1. ~UNCHANGED base /\ ~UNCHANGED storage
    BY DEF storage
<1>2. PICK p \in Proc : CreateCommand(p)
    BY <1>1 DEF CreateNext, createVars, storage, Crash, DeleteIntend,
       DeleteRemoveDomain, DeleteRemoveOverlay, DeleteReport
<1>3. \A i \in Inst, g \in Gen :
          /\ ~CreatePlan(p, i, g)
          /\ ~RecoverPlan(p, i, g)
          /\ \A s \in Inst : ~ClonePlan(p, i, s, g)
    BY <1>1 DEF CreatePlan, RecoverPlan, ClonePlan, Start
<1>4. /\ ~CreateRevalidate(p) /\ ~CreateImport(p) /\ ~CreateReprove(p)
      /\ ~CreateOverlay(p) /\ ~CreateCopy(p) /\ ~CreateInspect(p)
      /\ ~CreatePublish(p) /\ ~CreateRename(p) /\ ~CreateRollback(p)
    BY <1>1 DEF CreateRevalidate, CreateImport, CreateReprove, CreateOverlay,
       CreateCopy, MakeOverlay, CreateInspect, CreatePublish, CreateRename,
       CreateRollback
<1>5. /\ ~CreateDefine(p) /\ ~CreateActivate(p) /\ ~CreateActivateWrite(p)
      /\ ~RecoverConfirm(p) /\ ~RecoverWrite(p)
    BY <1>1 DEF CreateDefine, CreateActivate, CreateActivateWrite,
       WriteInitialIndex, RecoverConfirm, RecoverWrite
<1>6. CreateUpload(p) \/ (CreateRollbackBase(p) /\ "base" \in made[p])
    BY <1>1, <1>2, <1>3, <1>4, <1>5 DEF CreateCommand, CreateRollbackBase
<1>7. HoldsBase(p) /\ ~BuildsOnBase(p)
    BY <1>6 DEF CreateUpload, CreateRollbackBase, HoldsBase, BuildsOnBase,
       RollbackLabels
<1> QED
    BY <1>7

\* The inductive invariant of creates, clones, recoveries and deletions that
\* run beside each other in any number, with crashes and errors of the backend.
THEOREM CreateInvariant == CreateSpec => []CreateInv
<1>1. CreateInit => CreateInv
    <2>1. SUFFICES ASSUME CreateInit
                   PROVE  CreateInv
        PROOF OBVIOUS
    <2>2. CreateTypeOK
        BY <2>1, FaultBoundAssumption DEF CreateInit, CreateTypeOK
    <2>3. \A p \in Proc : InHand(p) /\ TargetIsNew(p) /\ TargetIsReady(p)
        BY <2>1 DEF CreateInit, InHand, TargetIsNew, TargetIsReady,
           BuildLabels, WriteLabels
    <2>4. IndexesAreApart /\ ActiveIsBacked /\ DomainsAreOwned
        BY <2>1 DEF CreateInit, IndexesAreApart, ActiveIsBacked,
           DomainsAreOwned
    <2>5. BaseIsShared
        BY <2>1, NoGenAssumption DEF CreateInit, BaseIsShared, BaseInUse,
           Consumers, HoldsBase, BuildsOnBase
    <2> QED
        BY <2>2, <2>3, <2>4, <2>5 DEF CreateInv
<1>2. CreateInv /\ [CreateNext]_createVars => CreateInv'
    BY CreateStepKeepsInv
<1> QED
    BY <1>1, <1>2, PTL DEF CreateSpec

\* Every reachable state is typed.
THEOREM CreateTypeCorrect == CreateSpec => []CreateTypeOK
<1>1. CreateInv => CreateTypeOK
    BY DEF CreateInv
<1> QED
    BY <1>1, CreateInvariant, PTL

\* What the index of an instance that nobody deletes promises is there, however
\* many creates, clones, recoveries, rollbacks and deletions overlap.
THEOREM CreateKeepsActiveBacked == CreateSpec => []ActiveIsBacked
<1>1. CreateInv => ActiveIsBacked
    BY DEF CreateInv
<1> QED
    BY <1>1, CreateInvariant, PTL

\* Every domain has its manifest in the directory of its name, and the index
\* of that name, once there, names its generation.
THEOREM CreateOwnsItsDomains == CreateSpec => []DomainsAreOwned
<1>1. CreateInv => DomainsAreOwned
    BY DEF CreateInv
<1> QED
    BY <1>1, CreateInvariant, PTL

\* A rollback removes the shared base only while no index, no domain that can
\* be recovered and no other create relies on it.
THEOREM RollbacksSpareTheBase == CreateSpec => RollbackSparesOthers
<1>1. ASSUME CreateInv, [CreateNext]_createVars
      PROVE  [base = "complete" /\ base' = "absent" =>
                  /\ Consumers = {}
                  /\ \A i \in Inst, g \in Gen \ Flat : ~Recoverable(i, g)
                  /\ \A q \in Proc : ~BuildsOnBase(q)]_base
    <2>1. SUFFICES ASSUME base = "complete", base' = "absent"
                   PROVE  /\ Consumers = {}
                          /\ \A i \in Inst, g \in Gen \ Flat : ~Recoverable(i, g)
                          /\ \A q \in Proc : ~BuildsOnBase(q)
        PROOF OBVIOUS
    <2>2. PICK p \in Proc : HoldsBase(p) /\ ~BuildsOnBase(p)
        BY <1>1, <2>1, WhoRemovesTheBase
    <2>3. ~BaseInUse /\ \A q \in Proc \ {p} : ~BuildsOnBase(q)
        BY <1>1, <2>2 DEF CreateInv, BaseIsShared
    <2> QED
        BY <2>2, <2>3 DEF BaseInUse, Recoverable
<1> QED
    BY <1>1, CreateInvariant, PTL DEF CreateSpec, RollbackSparesOthers
=============================================================================
