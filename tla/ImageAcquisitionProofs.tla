------------------------ MODULE ImageAcquisitionProofs ------------------------
(***************************************************************************)
(* Proofs about ImageAcquisition, for any number of invocations, of        *)
(* extraction roots, and of replacements by the operator:                  *)
(*                                                                         *)
(*   ImagesTypeCorrect       ImageTypeOK,                                  *)
(*   ImagesNeverOverwritten  NeverOverwritten,                             *)
(*   ImportsWereProven       ImportedWasProven,                            *)
(*   ImportsAreAuthentic     ImportedIsAuthentic,                          *)
(*   RootsStayCovered        RootsAreCovered.                              *)
(*                                                                         *)
(* The first three hold whatever commands overlap and rest on ProvenInv:   *)
(* what a process knows of the files it works on.  The last two are about  *)
(* commands that run one after another and rest on AloneInv besides, which *)
(* follows the trust from the signature to the import.                     *)
(***************************************************************************)
EXTENDS ImageAcquisition, TLAPS

Label == {"idle", "download", "downloading", "authenticate", "digest",
          "intend", "intent", "root", "extract", "check", "promote", "verify",
          "cleanup", "cleanup_failed", "record", "metadata", "clear",
          "clear_failed", "prove", "proved", "opened", "recover",
          "recover_root", "recover_intent", "iso_download", "iso_downloading",
          "iso_verify", "iso_publish", "iso_record"}

\* The steps at which a fetch has named an extraction root of its own.
Rooted == {"intent", "root", "extract", "check", "promote", "verify",
           "cleanup", "cleanup_failed", "record", "metadata", "clear",
           "clear_failed"}

\* What is there for good once it is there: no command removes an archive, an
\* image or metadata.
Carries(p) ==
    /\ pc[p] \in {"download", "downloading"} => mem[p].art # "workstation"
    /\ pc[p] = "digest" => mem[p].art = "gateway"
    /\ pc[p] = "authenticate" /\ mem[p].art = "workstation" =>
          meta["gateway"] # NoFile
    /\ pc[p] \in {"digest", "intend", "intent", "root", "extract"} =>
          archive[BundleOf(mem[p].art)] # NoFile
    /\ pc[p] \in {"intend", "intent", "root", "extract", "check", "promote",
                  "verify", "cleanup", "record", "opened"} =>
          mem[p].archive \in Data
    /\ pc[p] \in {"promote", "verify", "cleanup", "record", "metadata", "clear",
                  "proved", "opened"} => mem[p].disk \in Data
    /\ pc[p] = "proved" => prepared[mem[p].art] # NoFile
    /\ pc[p] \in Rooted \cup {"recover", "recover_root"} =>
          mem[p].root \in Root

FilledRoots ==
    \A r \in Root : roots[r] # NoRoot /\ roots[r].fill = "all" =>
                        roots[r].data \in Data

ProcessOK ==
    /\ ImageTypeOK
    /\ pc \in [Proc -> Label]
    /\ FilledRoots
    /\ \A p \in Proc : Carries(p)

-----------------------------------------------------------------------------
(* What a process knows, whichever commands overlap *)

OwnRoots ==
    \A p, q \in Proc :
        /\ pc[p] \in Rooted /\ pc[q] \in Rooted
        /\ mem[p].root = mem[q].root
        => p = q

\* The disk that was checked is still the one in the root.
RootIsChecked(p) ==
    LET tree == roots[mem[p].root] IN
    pc[p] = "promote" /\ tree # NoRoot /\ tree.fill = "all"
        => tree.data = mem[p].disk

\* The Workstation image that the process has promoted is the one it checked.
PromotedIsChecked(p) ==
    /\ pc[p] \in {"verify", "cleanup", "record", "metadata", "clear"}
    /\ mem[p].art = "workstation"
    /\ prepared["workstation"] # NoFile /\ prepared["workstation"].by = p
    => prepared["workstation"].data = mem[p].disk

\* As long as no bound file has changed, a proof is about the image there is.
ProofHolds(p) ==
    pc[p] = "proved" /\ ~drift[p] =>
        /\ prepared[mem[p].art] # NoFile
        /\ prepared[mem[p].art].data = mem[p].disk

\* The open file is the one of the proof.
OpenedIsProven(p) == pc[p] = "opened" => mem[p].archive = mem[p].disk

Knows(p) ==
    RootIsChecked(p) /\ PromotedIsChecked(p) /\ ProofHolds(p)
        /\ OpenedIsProven(p)

ProvenInv ==
    /\ ProcessOK
    /\ OwnRoots
    /\ \A p \in Proc : Knows(p)
    /\ ImportedWasProven

-----------------------------------------------------------------------------
(* What a process knows when commands run one after another *)

Release == [archive |-> "release", disk |-> "release"]

NoRootOf(a) == \A r \in Root : Unpacked(r) => roots[r].of # a

\* The intent of the image that the process works on stands beside its root.
Intended(p) ==
    /\ intent[mem[p].art] # NoFile
    /\ mem[p].art = "workstation" => intent["workstation"].root = mem[p].root

\* No work is left over from the image that is about to be fetched.
StartsClean(p) ==
    pc[p] \in {"download", "downloading", "authenticate", "digest", "intend",
              "intent"} => intent[mem[p].art] = NoFile

\* What is unpacked, compared and recorded is the signed release.
CarriesRelease(p) ==
    /\ pc[p] \in {"digest", "intend", "intent", "root", "extract", "check"} =>
          archive[BundleOf(mem[p].art)] = "release"
    /\ pc[p] \in {"intend", "intent", "root", "extract", "check", "promote",
                  "verify", "cleanup", "record"} => mem[p].archive = "release"
    /\ pc[p] = "check" /\ roots[mem[p].root] # NoRoot =>
          roots[mem[p].root].data = "release"
    /\ pc[p] \in {"promote", "verify", "cleanup", "record", "metadata", "clear",
                  "proved", "opened"} => mem[p].disk = "release"

\* The intent brackets the root of the process, which is the only one of its
\* image.
BracketsRoot(p) ==
    /\ pc[p] = "intent" /\ mem[p].art = "workstation"
          /\ intTemp["workstation"] # NoFile =>
             intTemp["workstation"].root = mem[p].root
    /\ pc[p] = "root" => NoRootOf(mem[p].art)
    /\ pc[p] \in {"root", "extract"} => Intended(p)
    /\ pc[p] = "extract" /\ roots[mem[p].root] # NoRoot =>
          roots[mem[p].root].of = mem[p].art
    /\ pc[p] \in {"extract", "check", "promote", "verify", "cleanup",
                  "cleanup_failed"} =>
          \A r \in Root : Unpacked(r) /\ roots[r].of = mem[p].art =>
                              r = mem[p].root
    /\ pc[p] \in {"record", "metadata", "clear", "clear_failed"} =>
          NoRootOf(mem[p].art)
    /\ pc[p] = "recover_root" => intent["workstation"].root = mem[p].root
    /\ pc[p] = "recover_intent" => NoRootOf("workstation")

KnowsIso(p) ==
    /\ pc[p] = "iso_publish" => isoPart = "release"
    /\ pc[p] = "iso_record" => iso = "release"

KnowsAlone(p) ==
    StartsClean(p) /\ CarriesRelease(p) /\ BracketsRoot(p) /\ KnowsIso(p)

OneAtATime == \A p, q \in Proc : pc[p] # "idle" /\ pc[q] # "idle" => p = q

RecordedRelease ==
    \A a \in Artifact : /\ meta[a] # NoFile => meta[a] = Release
                        /\ metaTemp[a] # NoFile => metaTemp[a] = Release

Trusted ==
    /\ OneAtATime
    /\ RecordedRelease
    /\ \A p \in Proc : KnowsAlone(p)
    /\ ImportedIsAuthentic
    /\ RootsAreCovered

AloneInv == alone => Trusted

USE DEF Unpacked, Intended

-----------------------------------------------------------------------------
(* Moves and types *)

Files == <<archive, prepared, records, intents, roots, imported, scope, isos>>

LEMMA MoveTypes ==
    ASSUME ProcessOK, NEW p \in Proc, NEW label \in Label,
           NEW local \in Memory, Goto(p, label, local)
    PROVE  /\ pc' \in [Proc -> Label] /\ mem' \in [Proc -> Memory]
           /\ pc'[p] = label
           /\ label # "idle" => mem'[p] = local
           /\ \A q \in Proc \ {p} : pc'[q] = pc[q] /\ mem'[q] = mem[q]
<1>1. Idle \in Memory
  BY DEF Idle, Memory, Artifact
<1> QED
  BY <1>1 DEF ProcessOK, ImageTypeOK, Goto

LEMMA TouchTypes ==
    ASSUME ProcessOK, NEW files, Touch(files)
    PROVE  /\ drift' \in [Proc -> BOOLEAN]
           /\ \A q \in Proc :
                 drift'[q] <=> /\ pc'[q] # "idle"
                               /\ drift[q] \/ files \cap Bound(q) # {}
BY DEF Touch

\* What the types say of one process and of one image.
LEMMA TypesAt ==
    ASSUME ProcessOK
    PROVE  /\ \A p \in Proc : /\ mem[p] \in Memory /\ mem[p].art \in Artifact
                              /\ BundleOf(mem[p].art) \in Bundle
                              /\ pc[p] \in Label /\ drift[p] \in BOOLEAN
           /\ \A a \in Artifact :
                 /\ meta[a] # NoFile => meta[a] \in Metadata
                 /\ metaTemp[a] # NoFile => metaTemp[a] \in Metadata
                 /\ prepared[a] # NoFile => prepared[a] \in Image
                 /\ intTemp[a] # NoFile => intTemp[a] \in Intent
           /\ \A b \in Bundle : archive[b] # NoFile => archive[b] \in Data
           /\ \A r \in Root : roots[r] # NoRoot => roots[r] \in Tree
BY DEF ProcessOK, ImageTypeOK, Memory, BundleOf, Bundle, Artifact

LEMMA InitTypes == Init => ProcessOK
<1> SUFFICES ASSUME Init PROVE ProcessOK
  OBVIOUS
<1>1. Idle \in Memory /\ "idle" \in Label
  BY DEF Idle, Memory, Artifact, Label
<1>2. ImageTypeOK
  BY <1>1 DEF Init, ImageTypeOK
<1>3. FilledRoots /\ \A p \in Proc : Carries(p)
  BY DEF Init, FilledRoots, Carries, Rooted
<1> QED
  BY <1>1, <1>2, <1>3 DEF Init, ProcessOK



-----------------------------------------------------------------------------
(* One step of one process *)

\* The files of every kind have their types, and unpacked roots have data.
StoresOK ==
    /\ archive \in [Bundle -> Data \cup {NoFile}]
    /\ prepared \in [Artifact -> Image \cup {NoFile}]
    /\ meta \in [Artifact -> Metadata \cup {NoFile}]
    /\ metaTemp \in [Artifact -> Metadata \cup {NoFile}]
    /\ intent \in [Artifact -> Intent \cup {NoFile}]
    /\ intTemp \in [Artifact -> Intent \cup {NoFile}]
    /\ roots \in [Root -> Tree \cup {NoRoot}]
    /\ imported \in [Artifact -> [data : Data, proof : Data] \cup {NoFile}]
    /\ alone \in BOOLEAN
    /\ {isoPart, iso} \subseteq Data \cup {NoFile}
    /\ isoProven \in BOOLEAN
    /\ FilledRoots

\* What is there stays there.
NothingRemoved ==
    /\ \A b \in Bundle : archive[b] # NoFile => archive'[b] # NoFile
    /\ meta["gateway"] # NoFile => meta'["gateway"] # NoFile
    /\ \A a \in Artifact : prepared[a] # NoFile => prepared'[a] # NoFile

\* Identities that a process has found changed stay changed.
DriftGrows(p) ==
    /\ drift' \in [Proc -> BOOLEAN]
    /\ \A q \in Proc \ {p} : drift[q] /\ pc[q] # "idle" => drift'[q]

\* A step leaves the root that q has checked, and the images that q has
\* promoted or proven, unless q can tell.
RootKept(q) ==
    pc[q] = "promote" =>
        LET r == mem[q].root IN
        roots'[r] # NoRoot /\ roots'[r].fill = "all" =>
            /\ roots[r] # NoRoot /\ roots[r].fill = "all"
            /\ roots'[r].data = roots[r].data

PreparedKept(q) ==
    \A a \in Artifact :
        \/ prepared'[a] = prepared[a]
        \/ /\ prepared'[a].by # q
           /\ pc[q] = "proved" /\ mem[q].art = a => drift'[q]

\* The root a process goes on with is its own.
RootIsOwn(p, label, local) ==
    label \in Rooted =>
        \/ pc[p] \in Rooted /\ local.root = mem[p].root
        \/ \A q \in Proc \ {p} : pc[q] \in Rooted => mem[q].root # local.root

\* What the other processes know they still know.
LEMMA OthersKnow ==
    ASSUME ProvenInv, NEW q \in Proc, pc'[q] = pc[q], mem'[q] = mem[q],
           drift[q] /\ pc[q] # "idle" => drift'[q], RootKept(q),
           PreparedKept(q), NothingRemoved
    PROVE  Knows(q)' /\ Carries(q)'
<1>0. /\ mem[q].art \in Artifact /\ BundleOf(mem[q].art) \in Bundle
      /\ Knows(q) /\ Carries(q) /\ drift[q] \in BOOLEAN
      /\ "workstation" \in Artifact
  BY TypesAt DEF ProvenInv, ProcessOK, Artifact
<1>1. Carries(q)'
  BY <1>0 DEF Carries, NothingRemoved
<1>2. RootIsChecked(q)'
  BY <1>0 DEF Knows, RootIsChecked, RootKept
<1>3. PromotedIsChecked(q)'
  BY <1>0 DEF Knows, PromotedIsChecked, PreparedKept, NothingRemoved
<1>4. ProofHolds(q)'
  BY <1>0 DEF Knows, ProofHolds, PreparedKept, NothingRemoved, Carries
<1>5. OpenedIsProven(q)'
  BY <1>0 DEF Knows, OpenedIsProven
<1> QED
  BY <1>1, <1>2, <1>3, <1>4, <1>5 DEF Knows

LEMMA StepKeepsInv ==
    ASSUME ProvenInv, NEW p \in Proc, NEW label \in Label, NEW local \in Memory,
           Goto(p, label, local), RootIsOwn(p, label, local),
           StoresOK', NothingRemoved, DriftGrows(p),
           \A q \in Proc \ {p} : RootKept(q) /\ PreparedKept(q),
           Knows(p)', Carries(p)', ImportedWasProven'
    PROVE  ProvenInv'
<1>1. /\ pc' \in [Proc -> Label] /\ mem' \in [Proc -> Memory]
      /\ pc'[p] = label /\ (label # "idle" => mem'[p] = local)
      /\ \A q \in Proc \ {p} : pc'[q] = pc[q] /\ mem'[q] = mem[q]
  BY MoveTypes DEF ProvenInv
<1>2. ASSUME NEW q \in Proc PROVE Knows(q)' /\ Carries(q)'
  <2>1. CASE q = p
    BY <2>1
  <2>2. CASE q # p
    BY <2>2, <1>1, OthersKnow DEF DriftGrows
  <2> QED
    BY <2>1, <2>2
<1>3. OwnRoots'
  <2>1. "idle" \notin Rooted
    BY DEF Rooted
  <2>2. OwnRoots
    BY DEF ProvenInv
  <2> QED
    BY <1>1, <2>1, <2>2 DEF OwnRoots, RootIsOwn
<1>4. ImageTypeOK' /\ FilledRoots'
  BY <1>1 DEF StoresOK, DriftGrows, ImageTypeOK
<1>5. ProcessOK'
  BY <1>1, <1>2, <1>4 DEF ProcessOK
<1> QED
  BY <1>2, <1>3, <1>5 DEF ProvenInv

LEMMA StoresAreOK ==
    ASSUME ProvenInv
    PROVE  StoresOK
BY DEF ProvenInv, ProcessOK, ImageTypeOK, StoresOK

LEMMA TouchGrows ==
    ASSUME ProvenInv, NEW p \in Proc, NEW label \in Label, NEW local \in Memory,
           Goto(p, label, local), NEW files, Touch(files)
    PROVE  DriftGrows(p)
<1>1. \A q \in Proc \ {p} : pc'[q] = pc[q]
  BY MoveTypes DEF ProvenInv
<1> QED
  BY <1>1, TouchTypes DEF ProvenInv, DriftGrows

\* Images and roots that a step does not write are kept.
LEMMA Untouched ==
    /\ UNCHANGED prepared => \A q \in Proc : PreparedKept(q)
    /\ UNCHANGED roots => \A q \in Proc : RootKept(q)
BY DEF PreparedKept, RootKept

\* A step that writes no file.
LEMMA QuietKeepsInv ==
    ASSUME ProvenInv, NEW p \in Proc, NEW label \in Label, NEW local \in Memory,
           Goto(p, label, local), RootIsOwn(p, label, local),
           UNCHANGED Files, DriftGrows(p), Knows(p)', Carries(p)'
    PROVE  ProvenInv'
<1>1. UNCHANGED <<archive, prepared, meta, metaTemp, intent, intTemp, roots,
                  imported, alone, isoPart, iso, isoProven>>
  BY DEF Files, records, intents, scope, isos
<1>2. StoresOK'
  BY <1>1, StoresAreOK DEF StoresOK, FilledRoots
<1>3. NothingRemoved /\ ImportedWasProven'
  BY <1>1 DEF NothingRemoved, ProvenInv, ImportedWasProven
<1>4. \A q \in Proc : RootKept(q) /\ PreparedKept(q)
  BY <1>1, Untouched
<1> QED
  BY <1>2, <1>3, <1>4, StepKeepsInv

\* A process at one of these steps has only what it carries to keep.
KnowsLittle == Label \ {"promote", "verify", "cleanup", "record", "metadata",
                        "clear", "proved", "opened"}

LEMMA LittleIsKnown ==
    ASSUME NEW p \in Proc, pc'[p] \in KnowsLittle
    PROVE  Knows(p)'
BY DEF KnowsLittle, Knows, RootIsChecked, PromotedIsChecked, ProofHolds,
       OpenedIsProven

LEMMA IdleCarriesNothing ==
    ASSUME NEW p \in Proc, pc'[p] \in {"idle", "prove"}
    PROVE  Carries(p)'
BY DEF Carries, Rooted

\* The errors, the interruptions and the starts of the commands.
LEMMA StopKeepsInv ==
    ASSUME ProvenInv, NEW p \in Proc, Stop(p) \/ Fail(p)
    PROVE  ProvenInv'
<1>0. mem[p] \in Memory /\ Carries(p)
  BY TypesAt DEF ProvenInv, ProcessOK
<1>1. PICK label \in {"idle", "cleanup_failed"} :
         /\ Goto(p, label, mem[p])
         /\ label = "cleanup_failed" => pc[p] \in Rooted
  BY DEF Stop, Fail, Proceed, Rooted
<1>2. label \in Label
  BY DEF Label
<1>3. UNCHANGED Files /\ Touch({})
  BY DEF Stop, Fail, Files
<1>4. DriftGrows(p) /\ RootIsOwn(p, label, mem[p])
  BY <1>0, <1>1, <1>2, <1>3, TouchGrows DEF RootIsOwn, Rooted
<1>5. pc'[p] = label /\ (label # "idle" => mem'[p] = mem[p])
  BY <1>0, <1>1, <1>2, MoveTypes DEF ProvenInv
<1>6. Knows(p)'
  BY <1>2, <1>5, LittleIsKnown DEF KnowsLittle
<1>7. Carries(p)'
  BY <1>0, <1>1, <1>5 DEF Carries, Rooted
<1> QED
  BY <1>0, <1>1, <1>2, <1>3, <1>4, <1>6, <1>7, QuietKeepsInv

LEMMA BeginKeepsInv ==
    ASSUME ProvenInv, NEW p \in Proc, NEW local \in Memory,
           NEW label \in {"download", "authenticate", "prove", "recover"},
           Goto(p, label, local), UNCHANGED Files, Touch({}),
           label = "recover" => local.root \in Root,
           label = "download" => local.art # "workstation",
           label = "authenticate" => meta["gateway"] # NoFile
    PROVE  ProvenInv'
<1>1. label \in Label /\ label \notin Rooted /\ label \in KnowsLittle
  BY DEF Label, Rooted, KnowsLittle
<1>2. DriftGrows(p) /\ RootIsOwn(p, label, local)
  BY <1>1, TouchGrows DEF RootIsOwn
<1>3. pc'[p] = label /\ mem'[p] = local
  BY <1>1, MoveTypes DEF ProvenInv
<1>4. Knows(p)'
  BY <1>1, <1>3, LittleIsKnown
<1>5. Carries(p)'
  BY <1>3 DEF Carries, Rooted, Files, records
<1> QED
  BY <1>1, <1>2, <1>4, <1>5, QuietKeepsInv

LEMMA BeginningsKeepInv ==
    ASSUME ProvenInv, NEW p \in Proc,
           \/ \E a \in Artifact, use \in BOOLEAN : FetchBegins(p, a, use)
           \/ \E a \in Artifact : UseBegins(p, a)
           \/ \E r \in Root : RecoverBegins(p, r)
    PROVE  ProvenInv'
<1>1. ASSUME NEW a \in Artifact, NEW use \in BOOLEAN, FetchBegins(p, a, use)
      PROVE  ProvenInv'
  <2> DEFINE local == [Idle EXCEPT !.art = a, !.use = use]
             label == IF a = "workstation" THEN "authenticate" ELSE "download"
  <2>1. local \in Memory /\ local.art = a
    BY DEF Idle, Memory
  <2>2. Goto(p, label, local) /\ UNCHANGED Files /\ Touch({})
    BY <1>1 DEF FetchBegins, Files
  <2>3. /\ label = "download" => local.art # "workstation"
        /\ label = "authenticate" => meta["gateway"] # NoFile
    BY <1>1, <2>1 DEF FetchBegins, Matches
  <2> HIDE DEF local
  <2> QED
    BY <2>1, <2>2, <2>3, BeginKeepsInv
<1>2. ASSUME NEW a \in Artifact, UseBegins(p, a)
      PROVE  ProvenInv'
  <2> DEFINE local == [Idle EXCEPT !.art = a, !.use = TRUE]
  <2>1. local \in Memory
    BY DEF Idle, Memory
  <2>2. Goto(p, "prove", local) /\ UNCHANGED Files /\ Touch({})
    BY <1>2 DEF UseBegins, Files
  <2> HIDE DEF local
  <2> QED
    BY <2>1, <2>2, BeginKeepsInv
<1>3. ASSUME NEW r \in Root, RecoverBegins(p, r)
      PROVE  ProvenInv'
  <2> DEFINE local == [Idle EXCEPT !.art = "workstation", !.root = r]
  <2>1. local \in Memory /\ local.root = r
    BY DEF Idle, Memory, Artifact
  <2>2. Goto(p, "recover", local) /\ UNCHANGED Files /\ Touch({})
    BY <1>3 DEF RecoverBegins, Files
  <2> HIDE DEF local
  <2> QED
    BY <2>1, <2>2, BeginKeepsInv
<1> QED
  BY <1>1, <1>2, <1>3

\* The download writes the archive.
LEMMA DownloadKeepsInv ==
    ASSUME ProvenInv, NEW p \in Proc,
           DownloadStarts(p) \/ \E data \in Data : DownloadEnds(p, data)
    PROVE  ProvenInv'
<1> DEFINE b == BundleOf(mem[p].art)
<1>a. PICK label \in {"downloading", "authenticate"} : Proceed(p, label)
  BY DEF DownloadStarts, DownloadEnds
<1>b. PICK data \in Data : archive' = [archive EXCEPT ![b] = data]
  BY DEF DownloadStarts, DownloadEnds, Data
<1>c. PICK files : Touch(files)
  BY DEF DownloadStarts, DownloadEnds
<1>d. /\ pc[p] \in {"download", "downloading"}
      /\ UNCHANGED <<prepared, records, intents, roots, imported, scope, isos>>
  BY DEF DownloadStarts, DownloadEnds, At
<1>0. /\ mem[p] \in Memory /\ b \in Bundle /\ Carries(p)
      /\ label \in Label /\ label \notin Rooted /\ label \in KnowsLittle
  BY TypesAt DEF ProvenInv, ProcessOK, Label, Rooted, KnowsLittle
<1>1. UNCHANGED <<prepared, meta, metaTemp, intent, intTemp, roots, imported,
                  alone, isoPart, iso, isoProven>>
  BY <1>d DEF records, intents, scope, isos
<1>2. pc'[p] = label /\ mem'[p] = mem[p] /\ Goto(p, label, mem[p])
  BY <1>0, <1>a, MoveTypes DEF ProvenInv, Proceed, KnowsLittle
<1>3. DriftGrows(p) /\ RootIsOwn(p, label, mem[p])
  BY <1>0, <1>2, <1>c, TouchGrows DEF RootIsOwn
<1>4. StoresOK'
  BY <1>0, <1>1, <1>b, StoresAreOK DEF StoresOK, FilledRoots
<1>5. NothingRemoved
  BY <1>0, <1>1, <1>b, AbsenceAssumption DEF NothingRemoved, ProvenInv, ProcessOK,
     ImageTypeOK
<1>6. Knows(p)'
  BY <1>0, <1>2, LittleIsKnown
<1>7. Carries(p)'
  BY <1>0, <1>2, <1>d DEF Carries, Rooted
<1>8. \A q \in Proc : RootKept(q) /\ PreparedKept(q)
  BY <1>1, Untouched
<1>9. ImportedWasProven'
  BY <1>1 DEF ProvenInv, ImportedWasProven
<1> QED
  BY <1>0, <1>2, <1>3, <1>4, <1>5, <1>6, <1>7, <1>8, <1>9, StepKeepsInv

\* The steps of a fetch up to the intent, which only read.
LEMMA AuthenticateKeepsInv ==
    ASSUME ProvenInv, NEW p \in Proc, Authenticate(p) \/ DigestArchive(p)
    PROVE  ProvenInv'
<1>0. /\ mem[p] \in Memory /\ mem[p].art \in Artifact /\ Carries(p)
      /\ BundleOf(mem[p].art) \in Bundle
  BY TypesAt DEF ProvenInv, ProcessOK
<1>1. UNCHANGED Files /\ Touch({})
  BY DEF Authenticate, DigestArchive, Files
<1>2. UNCHANGED archive
  BY <1>1 DEF Files
<1>3. CASE Authenticate(p) /\ mem[p].art = "gateway"
  <2>1. Goto(p, "digest", mem[p]) /\ archive["whonix"] = "release"
    BY <1>3 DEF Authenticate, Proceed, SignedBundle
  <2>2. "digest" \in Label \ Rooted /\ "digest" \in KnowsLittle
    BY DEF Label, Rooted, KnowsLittle
  <2>3. pc'[p] = "digest" /\ mem'[p] = mem[p]
    BY <1>0, <2>1, <2>2, MoveTypes DEF ProvenInv
  <2>4. Knows(p)'
    BY <2>2, <2>3, LittleIsKnown
  <2>5. Carries(p)'
    BY <1>2, <1>3, <2>1, <2>3, AbsenceAssumption
    DEF Carries, Rooted, BundleOf, Data
  <2>6. DriftGrows(p) /\ RootIsOwn(p, "digest", mem[p])
    BY <1>0, <1>1, <2>1, <2>2, TouchGrows DEF RootIsOwn
  <2> QED
    BY <1>0, <1>1, <2>1, <2>2, <2>4, <2>5, <2>6, QuietKeepsInv
<1>4. CASE ~(Authenticate(p) /\ mem[p].art = "gateway")
  <2>1. PICK local \in Memory :
           /\ Goto(p, "intend", local) /\ local.art = mem[p].art
           /\ local.archive \in Data
           /\ archive[BundleOf(mem[p].art)] # NoFile
    <3>1. CASE DigestArchive(p)
      <4> DEFINE local == [mem[p] EXCEPT !.archive = archive["whonix"]]
      <4>1. mem[p].art = "gateway" /\ archive["whonix"] # NoFile
        BY <1>0, <3>1 DEF DigestArchive, At, Carries, BundleOf
      <4>2. archive["whonix"] \in Data
        BY <4>1, TypesAt DEF ProvenInv, Bundle
      <4>3. local \in Memory /\ local.art = mem[p].art
            /\ local.archive \in Data
        BY <1>0, <4>2 DEF Memory
      <4>4. Goto(p, "intend", local)
        BY <3>1 DEF DigestArchive
      <4> HIDE DEF local
      <4> QED
        BY <4>1, <4>3, <4>4 DEF BundleOf
    <3>2. CASE Authenticate(p) /\ mem[p].art = "kali"
      <4> DEFINE local == [mem[p] EXCEPT !.archive = "release"]
      <4>1. local \in Memory /\ local.art = mem[p].art
            /\ local.archive = "release"
        BY <1>0 DEF Memory, Data
      <4>2. Goto(p, "intend", local) /\ archive["kali"] = "release"
        BY <3>2 DEF Authenticate, SignedSums
      <4> HIDE DEF local
      <4> QED
        BY <3>2, <4>1, <4>2, AbsenceAssumption DEF Data, BundleOf
    <3>3. CASE Authenticate(p) /\ mem[p].art = "workstation"
      <4> DEFINE local == [mem[p] EXCEPT !.archive = meta["gateway"].archive,
                                         !.disk = meta["gateway"].disk]
      <4>1. meta["gateway"] \in Metadata
        BY <1>0, <3>3, TypesAt
        DEF Authenticate, At, Carries, ProvenInv, Artifact
      <4>2. local \in Memory /\ local.art = mem[p].art
            /\ local.archive \in Data
        BY <1>0, <4>1 DEF Memory, Metadata
      <4>3. Goto(p, "intend", local) /\ archive["whonix"] = "release"
        BY <3>3 DEF Authenticate, SignedBundle
      <4> HIDE DEF local
      <4> QED
        BY <3>3, <4>2, <4>3, AbsenceAssumption DEF Data, BundleOf
    <3> QED
      BY <1>0, <1>4, <3>1, <3>2, <3>3 DEF Artifact
  <2>2. "intend" \in Label \ Rooted /\ "intend" \in KnowsLittle
    BY DEF Label, Rooted, KnowsLittle
  <2>3. pc'[p] = "intend" /\ mem'[p] = local
    BY <2>1, <2>2, MoveTypes DEF ProvenInv
  <2>4. Knows(p)'
    BY <2>2, <2>3, LittleIsKnown
  <2>5. Carries(p)'
    BY <1>2, <2>1, <2>3 DEF Carries, Rooted
  <2>6. DriftGrows(p) /\ RootIsOwn(p, "intend", local)
    BY <1>1, <2>1, <2>2, TouchGrows DEF RootIsOwn
  <2> QED
    BY <1>1, <2>1, <2>2, <2>4, <2>5, <2>6, QuietKeepsInv
<1> QED
  BY <1>3, <1>4

\* The intent, which names the root, and then the root itself.
LEMMA IntendKeepsInv ==
    ASSUME ProvenInv, NEW p \in Proc, NEW r \in Root, IntendTemp(p, r)
    PROVE  ProvenInv'
<1> DEFINE local == [mem[p] EXCEPT !.root = r]
<1>0. /\ mem[p] \in Memory /\ mem[p].art \in Artifact /\ Carries(p)
      /\ "intent" \in Label /\ "intent" \in KnowsLittle
  BY TypesAt DEF ProvenInv, ProcessOK, Label, KnowsLittle
<1>1. /\ local \in Memory /\ local.art = mem[p].art /\ local.root = r
      /\ local.archive = mem[p].archive
  BY <1>0 DEF Memory
<1>2. /\ Goto(p, "intent", local) /\ Touch({}) /\ pc[p] = "intend"
      /\ UNCHANGED <<archive, prepared, meta, metaTemp, intent, roots,
                     imported, alone, isoPart, iso, isoProven>>
  BY DEF IntendTemp, At, records, scope, isos
<1>3. pc'[p] = "intent" /\ mem'[p] = local
  BY <1>0, <1>1, <1>2, MoveTypes DEF ProvenInv
<1>4. RootIsOwn(p, "intent", local)
  BY <1>1 DEF IntendTemp, RootIsOwn
<1>5. DriftGrows(p)
  BY <1>0, <1>1, <1>2, TouchGrows
<1>6. intTemp' \in [Artifact -> Intent \cup {NoFile}]
  BY <1>0, StoresAreOK DEF IntendTemp, Intent, StoresOK
<1>7. StoresOK' /\ NothingRemoved /\ ImportedWasProven'
  BY <1>2, <1>6, StoresAreOK
  DEF StoresOK, FilledRoots, NothingRemoved, ProvenInv, ImportedWasProven
<1>8. Knows(p)'
  BY <1>0, <1>3, LittleIsKnown
<1>9. Carries(p)'
  BY <1>0, <1>1, <1>2, <1>3 DEF Carries
<1>10. \A q \in Proc : RootKept(q) /\ PreparedKept(q)
  BY <1>2, Untouched
<1> HIDE DEF local
<1> QED
  BY <1>0, <1>1, <1>2, <1>4, <1>5, <1>7, <1>8, <1>9, <1>10, StepKeepsInv

\* A step on the road of a fetch that has its root, which leaves the images
\* and the archives alone.
LEMMA OnwardKeepsInv ==
    ASSUME ProvenInv, NEW p \in Proc, NEW label \in Label,
           label \in Rooted => pc[p] \in Rooted,
           Proceed(p, label), NEW files, Touch(files), StoresOK',
           UNCHANGED <<archive, prepared, imported>>,
           meta["gateway"] # NoFile => meta'["gateway"] # NoFile,
           \A q \in Proc \ {p} : RootKept(q), Knows(p)', Carries(p)'
    PROVE  ProvenInv'
<1>0. mem[p] \in Memory
  BY TypesAt DEF ProvenInv
<1>1. Goto(p, label, mem[p]) /\ RootIsOwn(p, label, mem[p])
  BY DEF Proceed, RootIsOwn
<1>2. DriftGrows(p)
  BY <1>0, <1>1, TouchGrows
<1>3. NothingRemoved /\ ImportedWasProven'
  BY DEF NothingRemoved, ProvenInv, ImportedWasProven
<1>4. \A q \in Proc : PreparedKept(q)
  BY Untouched
<1> QED
  BY <1>0, <1>1, <1>2, <1>3, <1>4, StepKeepsInv

\* A process works on a root of its own.
LEMMA OthersRootsKept ==
    ASSUME ProvenInv, NEW p \in Proc, pc[p] \in Rooted,
           \A s \in Root \ {mem[p].root} : roots'[s] = roots[s]
    PROVE  \A q \in Proc \ {p} : RootKept(q)
<1> SUFFICES ASSUME NEW q \in Proc \ {p}, pc[q] = "promote" PROVE RootKept(q)
  BY DEF RootKept
<1>1. pc[q] \in Rooted /\ Carries(q)
  BY DEF Rooted, ProvenInv, ProcessOK
<1>2. mem[q].root \in Root /\ mem[q].root # mem[p].root
  BY <1>1 DEF Carries, ProvenInv, OwnRoots
<1> QED
  BY <1>2 DEF RootKept

LEMMA PublishIntentKeepsInv ==
    ASSUME ProvenInv, NEW p \in Proc, PublishIntent(p)
    PROVE  ProvenInv'
<1> DEFINE a == mem[p].art
<1>0. /\ mem[p] \in Memory /\ a \in Artifact /\ Carries(p)
      /\ pc[p] = "intent" /\ pc[p] \in Rooted
      /\ "root" \in Label /\ "root" \in KnowsLittle
  BY TypesAt
  DEF ProvenInv, ProcessOK, Label, KnowsLittle, Rooted, PublishIntent, At
<1>1. /\ UNCHANGED <<archive, prepared, meta, metaTemp, roots, imported, alone,
                     isoPart, iso, isoProven>>
      /\ Proceed(p, "root")
  BY DEF PublishIntent, records, scope, isos
<1>2. /\ intent' \in [Artifact -> Intent \cup {NoFile}]
      /\ intTemp' \in [Artifact -> Intent \cup {NoFile}]
  BY <1>0, StoresAreOK DEF PublishIntent, StoresOK
<1>3. StoresOK'
  BY <1>1, <1>2, StoresAreOK DEF StoresOK, FilledRoots
<1>4. pc'[p] = "root" /\ mem'[p] = mem[p]
  BY <1>0, <1>1, MoveTypes DEF ProvenInv, Proceed
<1>5. Knows(p)' /\ Carries(p)'
  BY <1>0, <1>1, <1>4, LittleIsKnown DEF Carries
<1>6. \A q \in Proc : RootKept(q)
  BY <1>1, Untouched
<1> QED
  BY <1>0, <1>1, <1>3, <1>5, <1>6, OnwardKeepsInv DEF PublishIntent

\* The extraction root: created, filled in two steps.
LEMMA ExtractKeepsInv ==
    ASSUME ProvenInv, NEW p \in Proc,
           CreateRoot(p) \/ ExtractSome(p) \/ ExtractAll(p)
    PROVE  ProvenInv'
<1> DEFINE a == mem[p].art
           r == mem[p].root
<1>0. /\ mem[p] \in Memory /\ a \in Artifact /\ Carries(p)
      /\ BundleOf(a) \in Bundle
      /\ pc[p] \in {"root", "extract"} /\ pc[p] \in Rooted
  BY TypesAt
  DEF ProvenInv, ProcessOK, Rooted, CreateRoot, ExtractSome, ExtractAll, At
<1>1. r \in Root /\ roots \in [Root -> Tree \cup {NoRoot}]
      /\ (archive[BundleOf(a)] \in Data)
  BY <1>0, StoresAreOK, TypesAt DEF Carries, StoresOK, ProvenInv
<1>2. UNCHANGED <<archive, prepared, meta, metaTemp, intent, intTemp, imported,
                  alone, isoPart, iso, isoProven>>
  BY DEF CreateRoot, ExtractSome, ExtractAll, records, intents, scope, isos
<1>3. PICK label \in {"extract", "check"} : Proceed(p, label)
  BY DEF CreateRoot, ExtractSome, ExtractAll
<1>4. label \in Label /\ label \in KnowsLittle
  BY DEF Label, KnowsLittle
<1>5. PICK tree \in Tree :
         /\ roots' = [roots EXCEPT ![r] = tree]
         /\ tree.fill = "all" => tree.data \in Data
  <2>1. CASE CreateRoot(p)
    <3>1. NewRoot(a) \in Tree /\ NewRoot(a).fill = "empty"
      BY <1>0 DEF NewRoot, Tree
    <3> QED
      BY <2>1, <3>1 DEF CreateRoot
  <2>2. CASE ExtractSome(p)
    <3>1. roots[r] \in Tree
      BY <1>1, <2>2 DEF ExtractSome
    <3>2. [roots[r] EXCEPT !.fill = "some"] \in Tree
      BY <3>1 DEF Tree
    <3>3. roots' = [roots EXCEPT ![r] = [roots[r] EXCEPT !.fill = "some"]]
      BY <1>1, <2>2, <3>1 DEF ExtractSome, Tree
    <3> QED
      BY <3>1, <3>2, <3>3 DEF Tree
  <2>3. CASE ExtractAll(p)
    <3> DEFINE x == archive[BundleOf(a)]
    <3>1. roots[r] \in Tree
      BY <1>1, <2>3 DEF ExtractAll
    <3>2. /\ [roots[r] EXCEPT !.fill = "all", !.data = x] \in Tree
          /\ [roots[r] EXCEPT !.fill = "all", !.data = x].data = x
      BY <1>1, <3>1 DEF Tree
    <3>3. roots' = [roots EXCEPT ![r] = [roots[r] EXCEPT !.fill = "all",
                                                         !.data = x]]
      BY <1>1, <2>3, <3>1 DEF ExtractAll, Tree
    <3> HIDE DEF x
    <3> QED
      BY <1>1, <3>2, <3>3 DEF x
  <2> QED
    BY <2>1, <2>2, <2>3
<1>6. StoresOK'
  BY <1>1, <1>2, <1>5, StoresAreOK DEF StoresOK, FilledRoots
<1>7. pc'[p] = label /\ mem'[p] = mem[p]
  BY <1>0, <1>3, <1>4, MoveTypes DEF ProvenInv, Proceed
<1>8. Knows(p)' /\ Carries(p)'
  BY <1>0, <1>2, <1>4, <1>7, LittleIsKnown DEF Carries, Rooted
<1>9. \A q \in Proc \ {p} : RootKept(q)
  <2>1. \A s \in Root \ {mem[p].root} : roots'[s] = roots[s]
    BY <1>1, <1>5
  <2> QED
    BY <1>0, <2>1, OthersRootsKept
<1>10. \E files : Touch(files)
  BY DEF CreateRoot, ExtractSome, ExtractAll
<1> QED
  BY <1>0, <1>2, <1>3, <1>4, <1>6, <1>8, <1>9, <1>10, OnwardKeepsInv

\* A root that could not be created is empty, if it is there.
LEMMA CreateRootFailsKeepsInv ==
    ASSUME ProvenInv, NEW p \in Proc, CreateRootFails(p)
    PROVE  ProvenInv'
<1> DEFINE r == mem[p].root
<1>0. /\ mem[p] \in Memory /\ Carries(p) /\ pc[p] = "root"
      /\ pc[p] \in Rooted /\ "clear_failed" \in Label
      /\ "clear_failed" \in KnowsLittle
  BY TypesAt
  DEF ProvenInv, ProcessOK, Rooted, Label, KnowsLittle, CreateRootFails, At
<1>1. UNCHANGED <<archive, prepared, meta, metaTemp, intent, intTemp, imported,
                  alone, isoPart, iso, isoProven>>
  BY DEF CreateRootFails, records, intents, scope, isos
<1>2. Proceed(p, "clear_failed") /\ \E files : Touch(files)
  BY DEF CreateRootFails
<1>3. NewRoot("workstation") \in Tree /\ NewRoot("workstation").fill = "empty"
  BY DEF NewRoot, Tree, Artifact
<1>4. /\ roots' \in {roots, [roots EXCEPT ![r] = NewRoot("workstation")]}
      /\ roots \in [Root -> Tree \cup {NoRoot}] /\ r \in Root
  BY <1>0, StoresAreOK DEF CreateRootFails, Carries, StoresOK
<1>5. StoresOK'
  BY <1>1, <1>3, <1>4, StoresAreOK DEF StoresOK, FilledRoots
<1>6. pc'[p] = "clear_failed" /\ mem'[p] = mem[p]
  BY <1>0, <1>2, MoveTypes DEF ProvenInv, Proceed
<1>7. Knows(p)' /\ Carries(p)'
  BY <1>0, <1>1, <1>6, LittleIsKnown DEF Carries, Rooted
<1>8. \A q \in Proc \ {p} : RootKept(q)
  <2>1. \A s \in Root \ {mem[p].root} : roots'[s] = roots[s]
    BY <1>4
  <2> QED
    BY <1>0, <2>1, OthersRootsKept
<1> QED
  BY <1>0, <1>1, <1>2, <1>5, <1>7, <1>8, OnwardKeepsInv

\* The disk of the root is compared and remembered.
LEMMA CheckKeepsInv ==
    ASSUME ProvenInv, NEW p \in Proc, CheckExtracted(p)
    PROVE  ProvenInv'
<1> DEFINE r == mem[p].root
           local == [mem[p] EXCEPT !.disk = roots[r].data]
<1>0. /\ mem[p] \in Memory /\ Carries(p) /\ pc[p] = "check"
      /\ pc[p] \in Rooted /\ "promote" \in Label
  BY TypesAt DEF ProvenInv, ProcessOK, Label, Rooted, CheckExtracted, At
<1>1. /\ r \in Root /\ roots[r] # NoRoot /\ roots[r].fill = "all"
      /\ roots[r].data \in Data
  BY <1>0, StoresAreOK DEF Carries, CheckExtracted, StoresOK, FilledRoots
<1>2. /\ local \in Memory /\ local.root = r /\ local.disk = roots[r].data
      /\ local.archive = mem[p].archive /\ local.art = mem[p].art
  BY <1>0, <1>1 DEF Memory
<1>3. /\ Goto(p, "promote", local) /\ Touch({}) /\ UNCHANGED Files
  BY DEF CheckExtracted, Files
<1>4. pc'[p] = "promote" /\ mem'[p] = local
  BY <1>0, <1>2, <1>3, MoveTypes DEF ProvenInv
<1>5. DriftGrows(p) /\ RootIsOwn(p, "promote", local)
  BY <1>0, <1>2, <1>3, TouchGrows DEF RootIsOwn
<1>6. UNCHANGED roots
  BY <1>3 DEF Files
<1> HIDE DEF local
<1>7. Knows(p)'
  BY <1>2, <1>4, <1>6
  DEF Knows, RootIsChecked, PromotedIsChecked, ProofHolds, OpenedIsProven
<1>8. Carries(p)'
  BY <1>0, <1>1, <1>2, <1>4 DEF Carries
<1> QED
  BY <1>0, <1>2, <1>3, <1>5, <1>7, <1>8, QuietKeepsInv

\* The hard link: an image where there was none, and it is the one checked.
LEMMA PromoteKeepsInv ==
    ASSUME ProvenInv, NEW p \in Proc, Promote(p)
    PROVE  ProvenInv'
<1> DEFINE a == mem[p].art
           r == mem[p].root
<1>0. /\ mem[p] \in Memory /\ Carries(p) /\ Knows(p) /\ pc[p] = "promote"
      /\ a \in Artifact /\ pc[p] \in Rooted
      /\ "verify" \in Label /\ "workstation" \in Artifact
  BY TypesAt
  DEF ProvenInv, ProcessOK, Label, Rooted, Promote, At, Artifact
<1>1. /\ r \in Root /\ roots[r] # NoRoot /\ roots[r].fill = "all"
      /\ roots[r].data \in Data /\ roots[r].data = mem[p].disk
      /\ roots[r] \in Tree
  BY <1>0, StoresAreOK, TypesAt
  DEF Carries, Promote, StoresOK, FilledRoots, Knows, RootIsChecked, ProvenInv
<1>2. /\ UNCHANGED <<archive, meta, metaTemp, intent, intTemp, imported, alone,
                     isoPart, iso, isoProven>>
      /\ Goto(p, "verify", mem[p])
      /\ prepared[a] = NoFile
      /\ prepared' = [prepared EXCEPT ![a] = [data |-> mem[p].disk, by |-> p]]
  BY <1>1 DEF Promote, records, intents, scope, isos, Proceed
<1>3. roots' = [roots EXCEPT ![r] = [roots[r] EXCEPT !.fill = "some"]]
  BY <1>1, StoresAreOK DEF Promote, StoresOK, Tree
<1>4. /\ [roots[r] EXCEPT !.fill = "some"] \in Tree
      /\ [roots[r] EXCEPT !.fill = "some"].fill = "some"
  BY <1>1 DEF Tree
<1>5. [data |-> mem[p].disk, by |-> p] \in Image
  BY <1>1 DEF Image
<1>6. StoresOK'
  BY <1>0, <1>2, <1>3, <1>4, <1>5, StoresAreOK DEF StoresOK, FilledRoots
<1>7. pc'[p] = "verify" /\ mem'[p] = mem[p]
  BY <1>0, <1>2, MoveTypes DEF ProvenInv
<1>8. prepared'[a] = [data |-> mem[p].disk, by |-> p]
      /\ \A x \in Artifact \ {a} : prepared'[x] = prepared[x]
  BY <1>0, <1>2, StoresAreOK DEF StoresOK
<1>9. \A x \in Artifact : prepared[x] # NoFile => prepared'[x] # NoFile
  BY <1>2, <1>8
<1>10. Knows(p)'
  BY <1>0, <1>7, <1>8
  DEF Knows, RootIsChecked, PromotedIsChecked, ProofHolds, OpenedIsProven
<1>11. Carries(p)'
  BY <1>0, <1>2, <1>7 DEF Carries, Rooted
<1>12. \A q \in Proc \ {p} : RootKept(q)
  <2>1. \A s \in Root \ {mem[p].root} : roots'[s] = roots[s]
    BY <1>1, <1>3, StoresAreOK DEF StoresOK
  <2> QED
    BY <1>0, <2>1, OthersRootsKept
<1>13. DriftGrows(p) /\ RootIsOwn(p, "verify", mem[p])
  BY <1>0, <1>2, TouchGrows DEF Promote, RootIsOwn
<1>14. ASSUME NEW q \in Proc \ {p} PROVE PreparedKept(q)
  <2>1. pc[q] = "proved" /\ mem[q].art = a => FALSE
    BY <1>2 DEF ProvenInv, ProcessOK, Carries
  <2> QED
    BY <1>8, <2>1 DEF PreparedKept
<1>15. NothingRemoved /\ ImportedWasProven'
  BY <1>2, <1>9 DEF NothingRemoved, ProvenInv, ImportedWasProven
<1> QED
  BY <1>0, <1>2, <1>6, <1>10, <1>11, <1>12, <1>13, <1>14, <1>15, StepKeepsInv

\* From the promoted image to the metadata a process only goes on.
LEMMA PassesOn ==
    ASSUME ProvenInv, NEW p \in Proc, UNCHANGED prepared, mem'[p] = mem[p],
           \/ /\ pc[p] \in {"verify", "cleanup", "record", "metadata"}
              /\ pc'[p] \in {"cleanup", "record", "metadata", "clear"}
              /\ pc'[p] \in {"cleanup", "record"} =>
                    pc[p] \in {"verify", "cleanup", "record"}
           \/ pc[p] \in Rooted /\ pc'[p] \in {"cleanup_failed", "clear_failed"}
    PROVE  Knows(p)' /\ Carries(p)'
<1>1. Knows(p) /\ Carries(p)
  BY DEF ProvenInv, ProcessOK
<1>2. Carries(p)'
  BY <1>1 DEF Carries, Rooted
<1>3. Knows(p)'
  BY <1>1
  DEF Knows, RootIsChecked, PromotedIsChecked, ProofHolds, OpenedIsProven
<1> QED
  BY <1>2, <1>3

LEMMA VerifyKeepsInv ==
    ASSUME ProvenInv, NEW p \in Proc, VerifyPromoted(p)
    PROVE  ProvenInv'
<1>0. /\ mem[p] \in Memory /\ pc[p] = "verify" /\ pc[p] \in Rooted
      /\ "cleanup" \in Label
  BY TypesAt DEF ProvenInv, Label, Rooted, VerifyPromoted, At
<1>1. Goto(p, "cleanup", mem[p]) /\ Touch({}) /\ UNCHANGED Files
  BY DEF VerifyPromoted, Files, Proceed
<1>2. pc'[p] = "cleanup" /\ mem'[p] = mem[p]
  BY <1>0, <1>1, MoveTypes DEF ProvenInv
<1>3. Knows(p)' /\ Carries(p)'
  BY <1>0, <1>1, <1>2, PassesOn DEF Files
<1>4. DriftGrows(p) /\ RootIsOwn(p, "cleanup", mem[p])
  BY <1>0, <1>1, TouchGrows DEF RootIsOwn
<1> QED
  BY <1>0, <1>1, <1>3, <1>4, QuietKeepsInv

\* The root is removed, entry by entry.
LEMMA CleanupKeepsInv ==
    ASSUME ProvenInv, NEW p \in Proc, ShrinkRoot(p) \/ RemoveRoot(p)
    PROVE  ProvenInv'
<1> DEFINE r == mem[p].root
<1>0. /\ mem[p] \in Memory /\ Carries(p)
      /\ pc[p] \in {"cleanup", "cleanup_failed"} /\ pc[p] \in Rooted
  BY TypesAt DEF ProvenInv, ProcessOK, Rooted, ShrinkRoot, RemoveRoot
<1>1. r \in Root /\ roots \in [Root -> Tree \cup {NoRoot}]
  BY <1>0, StoresAreOK DEF Carries, StoresOK
<1>2. UNCHANGED <<archive, prepared, meta, metaTemp, intent, intTemp, imported,
                  alone, isoPart, iso, isoProven>>
  BY DEF ShrinkRoot, RemoveRoot, records, intents, scope, isos
<1>3. PICK label \in {"cleanup", "cleanup_failed", "record", "clear_failed"} :
         /\ Proceed(p, label)
         /\ label \in {"cleanup", "record"} => pc[p] = "cleanup"
  BY <1>0 DEF ShrinkRoot, RemoveRoot, At
<1>4. PICK tree \in Tree \cup {NoRoot} :
         /\ roots' = [roots EXCEPT ![r] = tree]
         /\ tree # NoRoot => tree.fill = "some"
  <2>1. CASE ShrinkRoot(p)
    <3>1. roots[r] \in Tree
      BY <1>1, <2>1 DEF ShrinkRoot
    <3>2. /\ [roots[r] EXCEPT !.fill = "some"] \in Tree
          /\ [roots[r] EXCEPT !.fill = "some"].fill = "some"
      BY <3>1 DEF Tree
    <3>3. roots' = [roots EXCEPT ![r] = [roots[r] EXCEPT !.fill = "some"]]
      BY <1>1, <2>1, <3>1 DEF ShrinkRoot, Tree
    <3> QED
      BY <3>2, <3>3
  <2>2. CASE RemoveRoot(p)
    BY <2>2 DEF RemoveRoot
  <2> QED
    BY <2>1, <2>2
<1>5. StoresOK'
  BY <1>1, <1>2, <1>4, StoresAreOK DEF StoresOK, FilledRoots
<1>6. label \in Label
  BY DEF Label
<1>7. pc'[p] = label /\ mem'[p] = mem[p]
  BY <1>0, <1>3, <1>6, MoveTypes DEF ProvenInv, Proceed
<1>8. Knows(p)' /\ Carries(p)'
  BY <1>0, <1>2, <1>3, <1>7, PassesOn
<1>9. \A q \in Proc \ {p} : RootKept(q)
  <2>1. \A s \in Root \ {mem[p].root} : roots'[s] = roots[s]
    BY <1>1, <1>4
  <2> QED
    BY <1>0, <2>1, OthersRootsKept
<1>10. \E files : Touch(files)
  BY DEF ShrinkRoot, RemoveRoot
<1> QED
  BY <1>0, <1>2, <1>3, <1>5, <1>6, <1>8, <1>9, <1>10, OnwardKeepsInv

\* The metadata, and its temporary file first.
LEMMA RecordKeepsInv ==
    ASSUME ProvenInv, NEW p \in Proc, RecordTemp(p) \/ PublishMetadata(p)
    PROVE  ProvenInv'
<1> DEFINE a == mem[p].art
<1>0. /\ mem[p] \in Memory /\ Carries(p) /\ a \in Artifact
      /\ pc[p] \in {"record", "metadata"} /\ pc[p] \in Rooted
  BY TypesAt
  DEF ProvenInv, ProcessOK, Rooted, RecordTemp, PublishMetadata, At
<1>1. UNCHANGED <<archive, prepared, intent, intTemp, roots, imported, alone,
                  isoPart, iso, isoProven>>
  BY DEF RecordTemp, PublishMetadata, intents, scope, isos
<1>2. PICK label \in {"metadata", "clear"} : Proceed(p, label)
  BY DEF RecordTemp, PublishMetadata
<1>3. /\ meta' \in [Artifact -> Metadata \cup {NoFile}]
      /\ metaTemp' \in [Artifact -> Metadata \cup {NoFile}]
      /\ meta["gateway"] # NoFile => meta'["gateway"] # NoFile
  <2>1. CASE RecordTemp(p)
    <3>1. [archive |-> mem[p].archive, disk |-> mem[p].disk] \in Metadata
      BY <1>0, <2>1 DEF RecordTemp, At, Carries, Metadata
    <3> QED
      BY <1>0, <2>1, <3>1, StoresAreOK DEF RecordTemp, StoresOK
  <2>2. CASE PublishMetadata(p)
    BY <1>0, <2>2, StoresAreOK DEF PublishMetadata, StoresOK, Artifact
  <2> QED
    BY <2>1, <2>2
<1>4. StoresOK'
  BY <1>1, <1>3, StoresAreOK DEF StoresOK, FilledRoots
<1>5. label \in Label
  BY DEF Label
<1>6. pc'[p] = label /\ mem'[p] = mem[p]
  BY <1>0, <1>2, <1>5, MoveTypes DEF ProvenInv, Proceed
<1>7. Knows(p)' /\ Carries(p)'
  BY <1>0, <1>1, <1>2, <1>6, PassesOn
<1>8. \E files : Touch(files)
  BY DEF RecordTemp, PublishMetadata
<1>9. \A q \in Proc : RootKept(q)
  BY <1>1, Untouched
<1> QED
  BY <1>0, <1>1, <1>2, <1>3, <1>4, <1>5, <1>7, <1>8, <1>9, OnwardKeepsInv

\* The intent goes; a Workstation counts as proven as it stands.
LEMMA ClearKeepsInv ==
    ASSUME ProvenInv, NEW p \in Proc, ClearIntent(p)
    PROVE  ProvenInv'
<1> DEFINE a == mem[p].art
<1>0. /\ mem[p] \in Memory /\ Carries(p) /\ Knows(p) /\ a \in Artifact
      /\ pc[p] \in {"clear", "clear_failed"} /\ drift[p] \in BOOLEAN
  BY TypesAt DEF ProvenInv, ProcessOK, ClearIntent
<1>1. UNCHANGED <<archive, prepared, meta, metaTemp, intTemp, roots, imported,
                  alone, isoPart, iso, isoProven>>
  BY DEF ClearIntent, records, scope, isos
<1>2. StoresOK'
  <2>1. intent' \in [Artifact -> Intent \cup {NoFile}]
    BY <1>0, StoresAreOK DEF ClearIntent, StoresOK
  <2> QED
    BY <1>1, <2>1, StoresAreOK DEF StoresOK, FilledRoots
<1>3. PICK label \in {"idle", "prove", "proved"} :
         /\ Proceed(p, label)
         /\ label = "proved" => /\ pc[p] = "clear" /\ a = "workstation"
                                /\ FinalInputsHold(p)
  BY <1>0 DEF ClearIntent, At
<1>4. label \in Label /\ label \notin Rooted
  BY DEF Label, Rooted
<1>5. pc'[p] = label /\ (label # "idle" => mem'[p] = mem[p])
  BY <1>0, <1>3, <1>4, MoveTypes DEF ProvenInv, Proceed
<1>6. Knows(p)' /\ Carries(p)'
  <2>1. CASE label = "proved"
    <3>1. /\ prepared["workstation"] # NoFile
          /\ prepared["workstation"].data = mem[p].disk
      BY <1>0, <1>3, <2>1 DEF FinalInputsHold, Knows, PromotedIsChecked
    <3>2. Knows(p)'
      BY <1>1, <1>3, <1>5, <2>1, <3>1
      DEF Knows, RootIsChecked, PromotedIsChecked, ProofHolds, OpenedIsProven
    <3>3. Carries(p)'
      BY <1>0, <1>1, <1>3, <1>5, <2>1, <3>1 DEF Carries, Rooted
    <3> QED
      BY <3>2, <3>3
  <2>2. CASE label # "proved"
    BY <1>4, <1>5, <2>2, LittleIsKnown, IdleCarriesNothing DEF KnowsLittle
  <2> QED
    BY <2>1, <2>2
<1>7. \A q \in Proc : RootKept(q)
  BY <1>1, Untouched
<1> QED
  BY <1>0, <1>1, <1>2, <1>3, <1>4, <1>6, <1>7, OnwardKeepsInv DEF ClearIntent

\* A proof is one look at all of its files.
LEMMA ProveKeepsInv ==
    ASSUME ProvenInv, NEW p \in Proc, Prove(p)
    PROVE  ProvenInv'
<1> DEFINE a == mem[p].art
           local == [mem[p] EXCEPT !.archive = meta[a].archive,
                                   !.disk = meta[a].disk]
<1>0. /\ mem[p] \in Memory /\ a \in Artifact
      /\ "proved" \in Label \ Rooted
  BY TypesAt DEF ProvenInv, Label, Rooted
<1>1. Matches(a)
  BY <1>0
  DEF Prove, Proven, WorkstationProven, WorkstationState, WhonixState, Artifact
<1>2. /\ meta[a] \in Metadata /\ prepared[a] # NoFile
      /\ prepared[a].data = meta[a].disk
  BY <1>0, <1>1, TypesAt DEF Matches, ProvenInv
<1>3. /\ local \in Memory /\ local.disk = meta[a].disk /\ local.art = a
      /\ local.disk \in Data
  BY <1>0, <1>2 DEF Memory, Metadata
<1>4. /\ Goto(p, "proved", local) /\ UNCHANGED Files
      /\ drift' = [drift EXCEPT ![p] = FALSE]
  BY DEF Prove, Files
<1> HIDE DEF local
<1>5. pc'[p] = "proved" /\ mem'[p] = local
  BY <1>0, <1>3, <1>4, MoveTypes DEF ProvenInv
<1>6. DriftGrows(p) /\ RootIsOwn(p, "proved", local)
  BY <1>0, <1>4 DEF DriftGrows, RootIsOwn, ProvenInv, ProcessOK, ImageTypeOK
<1>7. UNCHANGED prepared
  BY <1>4 DEF Files
<1>8. Knows(p)'
  BY <1>2, <1>3, <1>5, <1>7
  DEF Knows, RootIsChecked, PromotedIsChecked, ProofHolds, OpenedIsProven
<1>9. Carries(p)'
  BY <1>2, <1>3, <1>5, <1>7 DEF Carries, Rooted
<1> QED
  BY <1>0, <1>3, <1>4, <1>6, <1>8, <1>9, QuietKeepsInv

\* The descriptor is bound to the file of the proof.
LEMMA OpenKeepsInv ==
    ASSUME ProvenInv, NEW p \in Proc, OpenSource(p)
    PROVE  ProvenInv'
<1> DEFINE a == mem[p].art
           local == [mem[p] EXCEPT !.archive = prepared[a].data]
<1>0. /\ mem[p] \in Memory /\ a \in Artifact /\ Carries(p) /\ Knows(p)
      /\ "opened" \in Label \ Rooted /\ pc[p] = "proved" /\ ~drift[p]
  BY TypesAt DEF ProvenInv, ProcessOK, Label, Rooted, OpenSource, At, StillProven
<1>1. prepared[a].data = mem[p].disk /\ mem[p].disk \in Data
  BY <1>0 DEF Knows, ProofHolds, Carries
<1>2. /\ local \in Memory /\ local.archive = mem[p].disk
      /\ local.disk = mem[p].disk
  BY <1>0, <1>1 DEF Memory
<1>3. Goto(p, "opened", local) /\ Touch({}) /\ UNCHANGED Files
  BY DEF OpenSource, Files
<1> HIDE DEF local
<1>4. pc'[p] = "opened" /\ mem'[p] = local
  BY <1>0, <1>2, <1>3, MoveTypes DEF ProvenInv
<1>5. DriftGrows(p) /\ RootIsOwn(p, "opened", local)
  BY <1>0, <1>2, <1>3, TouchGrows DEF RootIsOwn
<1>6. Knows(p)' /\ Carries(p)'
  BY <1>1, <1>2, <1>4
  DEF Knows, RootIsChecked, PromotedIsChecked, ProofHolds, OpenedIsProven,
      Carries, Rooted
<1> QED
  BY <1>0, <1>2, <1>3, <1>5, <1>6, QuietKeepsInv

LEMMA ImportKeepsInv ==
    ASSUME ProvenInv, NEW p \in Proc, Import(p)
    PROVE  ProvenInv'
<1> DEFINE a == mem[p].art
           copy == [data |-> mem[p].archive, proof |-> mem[p].disk]
<1>0. /\ mem[p] \in Memory /\ a \in Artifact /\ Carries(p) /\ Knows(p)
      /\ "idle" \in Label \ Rooted /\ pc[p] = "opened"
  BY TypesAt DEF ProvenInv, ProcessOK, Label, Rooted, Import, At
<1>1. /\ mem[p].archive \in Data /\ mem[p].disk \in Data
      /\ mem[p].archive = mem[p].disk
  BY <1>0 DEF Knows, OpenedIsProven, Carries
<1>2. /\ UNCHANGED <<archive, prepared, meta, metaTemp, intent, intTemp, roots,
                     alone, isoPart, iso, isoProven>>
      /\ Goto(p, "idle", mem[p]) /\ Touch({})
      /\ imported' = [imported EXCEPT ![a] = copy]
  BY DEF Import, records, intents, scope, isos, Proceed
<1>3. copy \in [data : Data, proof : Data] /\ copy.data = copy.proof
  BY <1>1
<1> HIDE DEF copy
<1>4. StoresOK'
  BY <1>0, <1>2, <1>3, StoresAreOK DEF StoresOK, FilledRoots
<1>5. ImportedWasProven'
  BY <1>0, <1>2, <1>3, StoresAreOK DEF StoresOK, ImportedWasProven, ProvenInv
<1>6. pc'[p] = "idle"
  BY <1>0, <1>2, MoveTypes DEF ProvenInv
<1>7. Knows(p)' /\ Carries(p)'
  BY <1>0, <1>6, LittleIsKnown, IdleCarriesNothing DEF KnowsLittle
<1>8. DriftGrows(p) /\ RootIsOwn(p, "idle", mem[p])
  BY <1>0, <1>2, TouchGrows DEF RootIsOwn
<1>9. NothingRemoved /\ \A q \in Proc : RootKept(q) /\ PreparedKept(q)
  BY <1>2, Untouched DEF NothingRemoved
<1> QED
  BY <1>0, <1>2, <1>4, <1>5, <1>7, <1>8, <1>9, StepKeepsInv

\* The recovery empties and removes roots, and drops the intent.
LEMMA RecoverKeepsInv ==
    ASSUME ProvenInv, NEW p \in Proc,
           RecoverEntries(p) \/ RecoverRoot(p) \/ RecoverIntent(p)
    PROVE  ProvenInv'
<1> DEFINE r == mem[p].root
<1>0. mem[p] \in Memory /\ Carries(p)
  BY TypesAt DEF ProvenInv, ProcessOK
<1>1. UNCHANGED <<archive, prepared, meta, metaTemp, intTemp, imported, alone,
                  isoPart, iso, isoProven>>
  BY DEF RecoverEntries, RecoverRoot, RecoverIntent, records, intents, scope,
         isos
<1>2. PICK label \in {"recover_root", "recover_intent", "idle"} :
         /\ Proceed(p, label)
         /\ label = "recover_root" => pc[p] = "recover"
  BY DEF RecoverEntries, RecoverRoot, RecoverIntent, At
<1>3. label \in Label \ Rooted /\ label \in KnowsLittle
  BY DEF Label, Rooted, KnowsLittle
<1>4. pc'[p] = label /\ (label # "idle" => mem'[p] = mem[p])
  BY <1>0, <1>2, <1>3, MoveTypes DEF ProvenInv, Proceed
<1>5. Knows(p)' /\ Carries(p)'
  BY <1>0, <1>2, <1>3, <1>4, LittleIsKnown DEF Carries, Rooted
<1>6. intent' \in [Artifact -> Intent \cup {NoFile}]
  BY StoresAreOK
  DEF RecoverEntries, RecoverRoot, RecoverIntent, intents, StoresOK
<1>7. \/ UNCHANGED roots
      \/ /\ r \in Root
         /\ \E tree \in Tree \cup {NoRoot} :
               /\ roots' = [roots EXCEPT ![r] = tree]
               /\ tree # NoRoot => tree.fill = "some"
  <2>1. CASE RecoverEntries(p)
    <3>1. r \in Root /\ roots[r] \in Tree
      BY <2>1, TypesAt DEF RecoverEntries, Recoverable, RootsOf, ProvenInv
    <3>2. /\ [roots[r] EXCEPT !.fill = "some"] \in Tree
          /\ [roots[r] EXCEPT !.fill = "some"].fill = "some"
      BY <3>1 DEF Tree
    <3>3. roots' = [roots EXCEPT ![r] = [roots[r] EXCEPT !.fill = "some"]]
      BY <2>1, <3>1, StoresAreOK DEF RecoverEntries, Tree, StoresOK
    <3> QED
      BY <3>1, <3>2, <3>3
  <2>2. CASE RecoverRoot(p)
    BY <1>0, <2>2 DEF RecoverRoot, At, Carries
  <2>3. CASE RecoverIntent(p)
    BY <2>3 DEF RecoverIntent
  <2> QED
    BY <2>1, <2>2, <2>3
<1>8. StoresOK'
  BY <1>1, <1>6, <1>7, StoresAreOK DEF StoresOK, FilledRoots
<1>9. \A q \in Proc \ {p} : RootKept(q)
  <2> SUFFICES ASSUME NEW q \in Proc \ {p}, pc[q] = "promote"
               PROVE  RootKept(q)
    BY DEF RootKept
  <2>1. mem[q].root \in Root
    BY DEF ProvenInv, ProcessOK, Carries, Rooted
  <2> QED
    BY <1>7, <2>1, StoresAreOK DEF RootKept, StoresOK
<1>10. \E files : Touch(files)
  BY DEF RecoverEntries, RecoverRoot, RecoverIntent
<1> QED
  BY <1>0, <1>1, <1>2, <1>3, <1>5, <1>8, <1>9, <1>10, OnwardKeepsInv

\* The Workstation ISO is no business of the other images.
IsoLabel == {"idle", "iso_download", "iso_downloading", "iso_verify",
             "iso_publish", "iso_record"}

LEMMA IsoKeepsInv ==
    ASSUME ProvenInv, NEW p \in Proc, FetchIso(p)
    PROVE  ProvenInv'
<1>0. mem[p] \in Memory /\ IsoLabel \subseteq Label \ Rooted
      /\ IsoLabel \subseteq KnowsLittle
  BY TypesAt DEF ProvenInv, IsoLabel, Label, Rooted, KnowsLittle
<1>1. PICK label \in IsoLabel : Proceed(p, label)
  BY DEF FetchIso, IsoBegins, IsoDownloadStarts, IsoDownloadEnds, IsoVerify,
         IsoPublish, IsoRecord, IsoLabel
<1>2. UNCHANGED <<archive, prepared, meta, metaTemp, intent, intTemp, roots,
                  imported, alone, drift>>
  BY DEF FetchIso, IsoBegins, IsoDownloadStarts, IsoDownloadEnds, IsoVerify,
         IsoPublish, IsoRecord, IsoOnly, records, intents, scope
<1>3. {isoPart', iso'} \subseteq Data \cup {NoFile} /\ isoProven' \in BOOLEAN
  BY StoresAreOK
  DEF FetchIso, IsoBegins, IsoDownloadStarts, IsoDownloadEnds, IsoVerify,
      IsoPublish, IsoRecord, isos, StoresOK, Data
<1>4. StoresOK'
  BY <1>2, <1>3, StoresAreOK DEF StoresOK, FilledRoots
<1>5. pc'[p] = label /\ Goto(p, label, mem[p])
  BY <1>0, <1>1, MoveTypes DEF ProvenInv, Proceed
<1>6. Knows(p)'
  BY <1>0, <1>5, LittleIsKnown
<1>7. Carries(p)'
  BY <1>5 DEF Carries, Rooted, IsoLabel
<1>8. DriftGrows(p) /\ RootIsOwn(p, label, mem[p])
  BY <1>0, <1>2 DEF DriftGrows, RootIsOwn, ProvenInv, ProcessOK, ImageTypeOK
<1>9. /\ NothingRemoved /\ ImportedWasProven'
      /\ \A q \in Proc : RootKept(q) /\ PreparedKept(q)
  BY <1>2, Untouched DEF NothingRemoved, ProvenInv, ImportedWasProven
<1> QED
  BY <1>0, <1>4, <1>5, <1>6, <1>7, <1>8, <1>9, StepKeepsInv

\* The environment moves no process.
LEMMA EnvironmentKeepsInv ==
    ASSUME ProvenInv, UNCHANGED <<pc, mem>>, StoresOK', NothingRemoved,
           drift' \in [Proc -> BOOLEAN],
           \A q \in Proc : /\ drift[q] /\ pc[q] # "idle" => drift'[q]
                           /\ RootKept(q) /\ PreparedKept(q),
           ImportedWasProven'
    PROVE  ProvenInv'
<1>1. \A q \in Proc : Knows(q)' /\ Carries(q)'
  BY OthersKnow
<1>2. OwnRoots'
  BY DEF ProvenInv, OwnRoots
<1>3. ProcessOK'
  BY <1>1 DEF StoresOK, ProvenInv, ProcessOK, ImageTypeOK
<1> QED
  BY <1>1, <1>2, <1>3 DEF ProvenInv

\* Whoever has bound an image can tell that it is another one now.
LEMMA ReplaceKeepsInv ==
    ASSUME ProvenInv, NEW a \in Artifact, Replace(a)
    PROVE  ProvenInv'
<1> DEFINE other == [data |-> "other", by |-> Operator]
<1>1. UNCHANGED <<archive, meta, metaTemp, intent, intTemp, roots, imported,
                  alone, isoPart, iso, isoProven, pc, mem>>
  BY DEF Replace, records, intents, scope, isos, process
<1>2. /\ prepared[a] # NoFile /\ prepared' = [prepared EXCEPT ![a] = other]
      /\ Touch({<<"prepared", a>>})
  BY DEF Replace
<1>3. other \in Image /\ other.by = Operator
  BY DEF Image, Data
<1> HIDE DEF other
<1>4. /\ prepared'[a] = other
      /\ \A x \in Artifact \ {a} : prepared'[x] = prepared[x]
  BY <1>2, StoresAreOK DEF StoresOK
<1>5. other # NoFile
  BY <1>3, AbsenceAssumption
<1>6. /\ drift' \in [Proc -> BOOLEAN]
      /\ \A q \in Proc : drift[q] /\ pc[q] # "idle" => drift'[q]
  BY <1>1, <1>2, TouchTypes DEF ProvenInv
<1>7. ASSUME NEW q \in Proc PROVE PreparedKept(q)
  <2>1. other.by # q
    BY <1>3, OperatorAssumption
  <2>2. ASSUME pc[q] = "proved", mem[q].art = a PROVE drift'[q]
    <3>1. <<"prepared", a>> \in Bound(q)
      <4>1. FilesOf(a) \subseteq Bound(q)
        BY <2>2 DEF Bound
      <4> QED
        BY <4>1 DEF FilesOf
    <3>2. pc'[q] # "idle" /\ {<<"prepared", a>>} \cap Bound(q) # {}
      BY <1>1, <2>2, <3>1
    <3> QED
      BY <1>2, <3>2, TouchTypes DEF ProvenInv
  <2> QED
    BY <1>4, <2>1, <2>2 DEF PreparedKept
<1>8. StoresOK'
  BY <1>1, <1>2, <1>3, StoresAreOK DEF StoresOK, FilledRoots
<1>9. /\ NothingRemoved /\ ImportedWasProven'
      /\ \A q \in Proc : RootKept(q)
  BY <1>1, <1>4, <1>5, Untouched
  DEF NothingRemoved, ProvenInv, ImportedWasProven
<1> QED
  BY <1>1, <1>6, <1>7, <1>8, <1>9, EnvironmentKeepsInv

LEMMA OtherwiseKeepsInv ==
    ASSUME ProvenInv, IsoReplaced \/ UNCHANGED vars
    PROVE  ProvenInv'
<1>1. UNCHANGED <<archive, prepared, meta, metaTemp, intent, intTemp, roots,
                  imported, alone, isoPart, isoProven, pc, mem, drift>>
  BY DEF IsoReplaced, vars, records, intents, scope, process, isos
<1>2. iso' \in Data \cup {NoFile}
  BY StoresAreOK DEF IsoReplaced, vars, isos, StoresOK, Data
<1>3. StoresOK'
  BY <1>1, <1>2, StoresAreOK DEF StoresOK, FilledRoots
<1>4. drift' \in [Proc -> BOOLEAN]
  BY <1>1 DEF ProvenInv, ProcessOK, ImageTypeOK
<1>5. /\ NothingRemoved /\ ImportedWasProven'
      /\ \A q \in Proc : RootKept(q) /\ PreparedKept(q)
  BY <1>1, Untouched DEF NothingRemoved, ProvenInv, ImportedWasProven
<1> QED
  BY <1>1, <1>3, <1>4, <1>5, EnvironmentKeepsInv

LEMMA CommandKeepsInv ==
    ASSUME ProvenInv, NEW p \in Proc,
           Fetch(p) \/ FetchIso(p) \/ Use(p) \/ Recover(p) \/ Stop(p)
    PROVE  ProvenInv'
<1>1. CASE Fetch(p)
  <2>1. CASE \E a \in Artifact, use \in BOOLEAN : FetchBegins(p, a, use)
    BY <2>1, BeginningsKeepInv
  <2>2. CASE DownloadStarts(p)
    BY <2>2, DownloadKeepsInv
  <2>3. CASE \E data \in Data : DownloadEnds(p, data)
    BY <2>3, DownloadKeepsInv
  <2>4. CASE Authenticate(p) \/ DigestArchive(p)
    BY <2>4, AuthenticateKeepsInv
  <2>5. CASE \E r \in Root : IntendTemp(p, r)
    BY <2>5, IntendKeepsInv
  <2>6. CASE PublishIntent(p)
    BY <2>6, PublishIntentKeepsInv
  <2>7. CASE \/ CreateRoot(p) \/ CreateRootFails(p) \/ ExtractSome(p)
             \/ ExtractAll(p)
    BY <2>7, ExtractKeepsInv, CreateRootFailsKeepsInv
  <2>8. CASE CheckExtracted(p)
    BY <2>8, CheckKeepsInv
  <2>9. CASE Promote(p)
    BY <2>9, PromoteKeepsInv
  <2>10. CASE VerifyPromoted(p)
    BY <2>10, VerifyKeepsInv
  <2>11. CASE ShrinkRoot(p) \/ RemoveRoot(p)
    BY <2>11, CleanupKeepsInv
  <2>12. CASE RecordTemp(p) \/ PublishMetadata(p)
    BY <2>12, RecordKeepsInv
  <2>13. CASE ClearIntent(p)
    BY <2>13, ClearKeepsInv
  <2>14. CASE Fail(p)
    BY <2>14, StopKeepsInv
  <2> QED
    BY <1>1, <2>1, <2>2, <2>3, <2>4, <2>5, <2>6, <2>7, <2>8, <2>9, <2>10,
       <2>11, <2>12, <2>13, <2>14
    DEF Fetch
<1>2. CASE FetchIso(p)
  BY <1>2, IsoKeepsInv
<1>3. CASE Use(p)
  BY <1>3, BeginningsKeepInv, ProveKeepsInv, OpenKeepsInv, ImportKeepsInv
  DEF Use
<1>4. CASE Recover(p)
  BY <1>4, BeginningsKeepInv, RecoverKeepsInv DEF Recover
<1>5. CASE Stop(p)
  BY <1>5, StopKeepsInv
<1> QED
  BY <1>1, <1>2, <1>3, <1>4, <1>5

LEMMA ProvenInvInit == Init => ProvenInv
<1> SUFFICES ASSUME Init PROVE ProvenInv
  OBVIOUS
<1>1. ProcessOK
  BY InitTypes
<1>2. OwnRoots /\ ImportedWasProven
  BY DEF Init, OwnRoots, Rooted, ImportedWasProven
<1>3. \A p \in Proc : Knows(p)
  BY DEF Init, Knows, RootIsChecked, PromotedIsChecked, ProofHolds,
         OpenedIsProven
<1> QED
  BY <1>1, <1>2, <1>3 DEF ProvenInv

\* What a process knows of its root, of the image it has promoted, of the
\* image it has proven and of the file it has opened is so, whichever commands
\* overlap.
THEOREM ImageInvariant == Spec => []ProvenInv
<1>1. Init => ProvenInv
  BY ProvenInvInit
<1>2. ProvenInv /\ [Next]_vars => ProvenInv'
  BY CommandKeepsInv, ReplaceKeepsInv, OtherwiseKeepsInv DEF Next
<1> QED
  BY <1>1, <1>2, PTL DEF Spec

\* Every file is absent or of the shape its reader expects: ImageTypeOK.
THEOREM ImagesTypeCorrect == Spec => []ImageTypeOK
BY ImageInvariant, PTL DEF ProvenInv, ProcessOK

\* The bytes imported are those whose digest the proof has compared, whatever
\* is moved to their path meanwhile: ImportedWasProven.
THEOREM ImportsWereProven == Spec => []ImportedWasProven
BY ImageInvariant, PTL DEF ProvenInv

\* Only the hard link and the operator write a prepared image.
LEMMA ImageWriters ==
    ASSUME NEW p \in Proc,
           Fetch(p) \/ FetchIso(p) \/ Use(p) \/ Recover(p) \/ Stop(p)
    PROVE  UNCHANGED prepared \/ Promote(p)
BY DEF Fetch, FetchBegins, DownloadStarts, DownloadEnds, Authenticate,
       DigestArchive, IntendTemp, PublishIntent, CreateRoot, CreateRootFails, ExtractSome,
       ExtractAll, CheckExtracted, VerifyPromoted, ShrinkRoot, RemoveRoot,
       RecordTemp, PublishMetadata, ClearIntent, Fail, FetchIso, IsoBegins,
       IsoDownloadStarts, IsoDownloadEnds, IsoVerify, IsoPublish, IsoRecord,
       IsoOnly, Use, UseBegins, Prove, OpenSource, Import, Recover,
       RecoverBegins, RecoverEntries, RecoverRoot, RecoverIntent, Stop

\* A published image is never overwritten by forge, whichever commands
\* overlap: NeverOverwritten.
THEOREM ImagesNeverOverwritten == Spec => NeverOverwritten
<1> DEFINE Kept == \A a \in Artifact :
                      prepared[a] # NoFile /\ prepared'[a] # prepared[a] =>
                          prepared'[a] # NoFile /\ prepared'[a].by = Operator
<1>1. ProvenInv /\ [Next]_vars => Kept
  <2> SUFFICES ASSUME ProvenInv, [Next]_vars PROVE Kept
    OBVIOUS
  <2>0. prepared \in [Artifact -> Image \cup {NoFile}]
    BY StoresAreOK DEF StoresOK
  <2>1. CASE \E p \in Proc : Promote(p)
    BY <2>0, <2>1 DEF Promote
  <2>2. CASE \E a \in Artifact : Replace(a)
    <3>1. PICK a \in Artifact : Replace(a)
      BY <2>2
    <3>2. [data |-> "other", by |-> Operator] \in Image
      BY DEF Image, Data
    <3>3. /\ prepared'[a] = [data |-> "other", by |-> Operator]
          /\ \A x \in Artifact \ {a} : prepared'[x] = prepared[x]
      BY <2>0, <3>1 DEF Replace
    <3> QED
      BY <3>2, <3>3, AbsenceAssumption
  <2>3. CASE UNCHANGED prepared
    BY <2>3
  <2> QED
    BY <2>1, <2>2, <2>3, ImageWriters DEF Next, IsoReplaced, vars
<1> QED
  BY <1>1, ImageInvariant, PTL DEF Spec, NeverOverwritten

-----------------------------------------------------------------------------
(* Commands that run one after another *)

\* No command changes what a run is about.
LEMMA ScopeIsFixed ==
    ASSUME NEW p \in Proc,
           Fetch(p) \/ FetchIso(p) \/ Use(p) \/ Recover(p) \/ Stop(p)
    PROVE  UNCHANGED scope
BY DEF Fetch, FetchBegins, DownloadStarts, DownloadEnds, Authenticate,
       DigestArchive, IntendTemp, PublishIntent, CreateRoot, CreateRootFails, ExtractSome,
       ExtractAll, CheckExtracted, Promote, VerifyPromoted, ShrinkRoot,
       RemoveRoot, RecordTemp, PublishMetadata, ClearIntent, Fail, FetchIso,
       IsoBegins, IsoDownloadStarts, IsoDownloadEnds, IsoVerify, IsoPublish,
       IsoRecord, IsoOnly, Use, UseBegins, Prove, OpenSource, Import,
       Recover, RecoverBegins, RecoverEntries, RecoverRoot, RecoverIntent,
       Stop

\* A process that takes a step is the only one that runs.
Solo(p) == \A q \in Proc \ {p} : pc[q] = "idle"

LEMMA RunsAlone ==
    ASSUME NEW p \in Proc, alone, OneAtATime,
           Fetch(p) \/ FetchIso(p) \/ Use(p) \/ Recover(p) \/ Stop(p)
    PROVE  Solo(p) /\ alone' = alone
<1>1. pc[p] # "idle" \/ Begins(p)
  BY DEF Fetch, FetchBegins, DownloadStarts, DownloadEnds, Authenticate,
         DigestArchive, IntendTemp, PublishIntent, CreateRoot, CreateRootFails, ExtractSome,
         ExtractAll, CheckExtracted, Promote, VerifyPromoted, ShrinkRoot,
         RemoveRoot, RecordTemp, PublishMetadata, ClearIntent, Fail, FetchIso,
         IsoBegins, IsoDownloadStarts, IsoDownloadEnds, IsoVerify, IsoPublish,
         IsoRecord, Use, UseBegins, Prove, OpenSource, Import, Recover,
         RecoverBegins, RecoverEntries, RecoverRoot, RecoverIntent, Stop, At
<1>2. Solo(p)
  BY <1>1 DEF Begins, Solo, OneAtATime
<1>3. UNCHANGED scope
  BY ScopeIsFixed
<1> QED
  BY <1>2, <1>3 DEF scope

LEMMA IdleIsTrusted ==
    ASSUME NEW p \in Proc, pc[p] = "idle"
    PROVE  KnowsAlone(p)
BY DEF KnowsAlone, StartsClean, CarriesRelease, BracketsRoot, KnowsIso

LEMMA SoloKeepsTrust ==
    ASSUME ProvenInv, NEW p \in Proc, NEW label \in Label, NEW local \in Memory,
           Goto(p, label, local), Solo(p), label # "idle" => KnowsAlone(p)',
           RecordedRelease', ImportedIsAuthentic', RootsAreCovered'
    PROVE  Trusted'
<1>1. /\ pc'[p] = label
      /\ \A q \in Proc \ {p} : pc'[q] = "idle"
  BY MoveTypes DEF ProvenInv, Solo
<1>2. ASSUME NEW q \in Proc PROVE KnowsAlone(q)'
  <2>1. CASE pc'[q] = "idle"
    BY <2>1
    DEF KnowsAlone, StartsClean, CarriesRelease, BracketsRoot, KnowsIso
  <2>2. CASE pc'[q] # "idle"
    BY <1>1, <2>2
  <2> QED
    BY <2>1, <2>2
<1>3. OneAtATime'
  BY <1>1 DEF OneAtATime
<1> QED
  BY <1>2, <1>3 DEF Trusted

\* A step that writes no file, or none that trust rests on.
LEMMA QuietKeepsTrust ==
    ASSUME ProvenInv, Trusted, NEW p \in Proc, NEW label \in Label,
           NEW local \in Memory, Goto(p, label, local), Solo(p),
           label # "idle" => KnowsAlone(p)', alone' = alone,
           UNCHANGED <<meta, metaTemp, intent, roots, imported, iso, isoProven>>
    PROVE  Trusted'
<1>1. RecordedRelease' /\ ImportedIsAuthentic' /\ RootsAreCovered'
  BY DEF Trusted, RecordedRelease, ImportedIsAuthentic, RootsAreCovered
<1> QED
  BY <1>1, SoloKeepsTrust

\* The beginnings, the ends and the download.
LEMMA StopKeepsTrust ==
    ASSUME ProvenInv, Trusted, alone, NEW p \in Proc, Solo(p),
           Stop(p) \/ Fail(p)
    PROVE  Trusted'
<1>0. mem[p] \in Memory /\ KnowsAlone(p)
  BY TypesAt DEF ProvenInv, Trusted
<1>1. PICK label \in {"idle", "cleanup_failed"} :
         /\ Goto(p, label, mem[p])
         /\ label = "cleanup_failed" =>
               pc[p] \in {"extract", "check", "promote", "verify"}
  BY DEF Stop, Fail, Proceed
<1>2. label \in Label
  BY DEF Label
<1>3. UNCHANGED <<archive, meta, metaTemp, intent, intTemp, roots, imported,
                  alone, isoPart, iso, isoProven>>
  BY DEF Stop, Fail, records, intents, scope, isos
<1>4. pc'[p] = label /\ (label # "idle" => mem'[p] = mem[p])
  BY <1>0, <1>1, <1>2, MoveTypes DEF ProvenInv
<1>5. label # "idle" => KnowsAlone(p)'
  BY <1>0, <1>1, <1>3, <1>4
  DEF KnowsAlone, StartsClean, CarriesRelease, BracketsRoot, KnowsIso
<1> QED
  BY <1>0, <1>1, <1>2, <1>3, <1>5, QuietKeepsTrust

LEMMA BeginningsKeepTrust ==
    ASSUME ProvenInv, Trusted, alone, NEW p \in Proc, Solo(p),
           \/ \E a \in Artifact, use \in BOOLEAN : FetchBegins(p, a, use)
           \/ \E a \in Artifact : UseBegins(p, a)
           \/ \E r \in Root : RecoverBegins(p, r)
    PROVE  Trusted'
<1>1. UNCHANGED <<archive, meta, metaTemp, intent, intTemp, roots, imported,
                  alone, isoPart, iso, isoProven>>
  BY DEF FetchBegins, UseBegins, RecoverBegins, records, intents, scope, isos
<1>2. ASSUME NEW a \in Artifact, NEW use \in BOOLEAN, FetchBegins(p, a, use)
      PROVE  Trusted'
  <2> DEFINE local == [Idle EXCEPT !.art = a, !.use = use]
             label == IF a = "workstation" THEN "authenticate" ELSE "download"
  <2>1. local \in Memory /\ local.art = a
    BY DEF Idle, Memory
  <2>2. Goto(p, label, local) /\ label \in Label
    BY <1>2 DEF FetchBegins, Label
  <2>3. intent[a] = NoFile
    <3>1. State(a) = "Missing"
      BY <1>2 DEF FetchBegins
    <3>2. CASE a = "kali"
      BY <3>1, <3>2 DEF State, KaliState
    <3>3. CASE a = "gateway"
      BY <3>1, <3>3 DEF State, GatewayState, WhonixState
    <3>4. CASE a = "workstation"
      BY <3>1, <3>4 DEF State, WorkstationState, WhonixState
    <3> QED
      BY <3>2, <3>3, <3>4 DEF Artifact
  <2> HIDE DEF local
  <2>4. pc'[p] = label /\ mem'[p] = local
    BY <2>1, <2>2, MoveTypes DEF ProvenInv
  <2>5. KnowsAlone(p)'
    BY <1>1, <2>1, <2>3, <2>4
    DEF KnowsAlone, StartsClean, CarriesRelease, BracketsRoot, KnowsIso
  <2> QED
    BY <1>1, <2>1, <2>2, <2>5, QuietKeepsTrust
<1>3. ASSUME NEW a \in Artifact, UseBegins(p, a)
      PROVE  Trusted'
  <2> DEFINE local == [Idle EXCEPT !.art = a, !.use = TRUE]
  <2>1. local \in Memory
    BY DEF Idle, Memory
  <2>2. Goto(p, "prove", local) /\ "prove" \in Label
    BY <1>3 DEF UseBegins, Label
  <2> HIDE DEF local
  <2>3. pc'[p] = "prove"
    BY <2>1, <2>2, MoveTypes DEF ProvenInv
  <2>4. KnowsAlone(p)'
    BY <2>3
    DEF KnowsAlone, StartsClean, CarriesRelease, BracketsRoot, KnowsIso
  <2> QED
    BY <1>1, <2>1, <2>2, <2>4, QuietKeepsTrust
<1>4. ASSUME NEW r \in Root, RecoverBegins(p, r)
      PROVE  Trusted'
  <2> DEFINE local == [Idle EXCEPT !.art = "workstation", !.root = r]
  <2>1. local \in Memory
    BY DEF Idle, Memory, Artifact
  <2>2. Goto(p, "recover", local) /\ "recover" \in Label
    BY <1>4 DEF RecoverBegins, Label
  <2> HIDE DEF local
  <2>3. pc'[p] = "recover"
    BY <2>1, <2>2, MoveTypes DEF ProvenInv
  <2>4. KnowsAlone(p)'
    BY <2>3
    DEF KnowsAlone, StartsClean, CarriesRelease, BracketsRoot, KnowsIso
  <2> QED
    BY <1>1, <2>1, <2>2, <2>4, QuietKeepsTrust
<1> QED
  BY <1>2, <1>3, <1>4

LEMMA DownloadKeepsTrust ==
    ASSUME ProvenInv, Trusted, alone, NEW p \in Proc, Solo(p),
           DownloadStarts(p) \/ \E data \in Data : DownloadEnds(p, data)
    PROVE  Trusted'
<1>0. mem[p] \in Memory /\ KnowsAlone(p)
  BY TypesAt DEF ProvenInv, Trusted
<1>1. UNCHANGED <<meta, metaTemp, intent, intTemp, roots, imported, alone,
                  isoPart, iso, isoProven>>
  BY DEF DownloadStarts, DownloadEnds, records, intents, scope, isos
<1>2. PICK label \in {"downloading", "authenticate"} : Proceed(p, label)
  BY DEF DownloadStarts, DownloadEnds
<1>3. label \in Label /\ pc[p] \in {"download", "downloading"}
  BY DEF Label, DownloadStarts, DownloadEnds, At
<1>4. pc'[p] = label /\ mem'[p] = mem[p] /\ Goto(p, label, mem[p])
  BY <1>0, <1>2, <1>3, MoveTypes DEF ProvenInv, Proceed
<1>5. KnowsAlone(p)'
  BY <1>0, <1>1, <1>3, <1>4
  DEF KnowsAlone, StartsClean, CarriesRelease, BracketsRoot, KnowsIso
<1> QED
  BY <1>0, <1>1, <1>3, <1>4, <1>5, QuietKeepsTrust

LEMMA AuthenticateKeepsTrust ==
    ASSUME ProvenInv, Trusted, alone, NEW p \in Proc, Solo(p),
           Authenticate(p) \/ DigestArchive(p)
    PROVE  Trusted'
<1>0. /\ mem[p] \in Memory /\ KnowsAlone(p) /\ Carries(p)
      /\ mem[p].art \in Artifact
      /\ "digest" \in Label /\ "intend" \in Label
  BY TypesAt DEF ProvenInv, ProcessOK, Trusted, Label
<1>1. UNCHANGED <<archive, meta, metaTemp, intent, intTemp, roots, imported,
                  alone, isoPart, iso, isoProven>>
  BY DEF Authenticate, DigestArchive, records, intents, scope, isos
<1>2. pc[p] \in {"authenticate", "digest"} /\ intent[mem[p].art] = NoFile
  BY <1>0 DEF Authenticate, DigestArchive, At, KnowsAlone, StartsClean
<1>3. CASE Authenticate(p) /\ mem[p].art = "gateway"
  <2>1. Goto(p, "digest", mem[p]) /\ archive["whonix"] = "release"
    BY <1>3 DEF Authenticate, Proceed, SignedBundle
  <2>2. pc'[p] = "digest" /\ mem'[p] = mem[p]
    BY <1>0, <2>1, MoveTypes DEF ProvenInv
  <2>3. KnowsAlone(p)'
    BY <1>1, <1>2, <1>3, <2>1, <2>2
    DEF KnowsAlone, StartsClean, CarriesRelease, BracketsRoot, KnowsIso,
        BundleOf
  <2> QED
    BY <1>0, <1>1, <2>1, <2>3, QuietKeepsTrust
<1>4. CASE ~(Authenticate(p) /\ mem[p].art = "gateway")
  <2>1. PICK local \in Memory :
           /\ Goto(p, "intend", local) /\ local.art = mem[p].art
           /\ local.archive = "release"
           /\ archive[BundleOf(mem[p].art)] = "release"
    <3>1. CASE DigestArchive(p)
      <4> DEFINE local == [mem[p] EXCEPT !.archive = archive["whonix"]]
      <4>1. mem[p].art = "gateway" /\ archive["whonix"] = "release"
        BY <1>0, <3>1
        DEF DigestArchive, At, Carries, KnowsAlone, CarriesRelease, BundleOf
      <4>2. local \in Memory /\ local.art = mem[p].art
            /\ local.archive = "release"
        BY <1>0, <4>1 DEF Memory, Data
      <4>3. Goto(p, "intend", local)
        BY <3>1 DEF DigestArchive
      <4> HIDE DEF local
      <4> QED
        BY <4>1, <4>2, <4>3 DEF BundleOf
    <3>2. CASE Authenticate(p) /\ mem[p].art = "kali"
      <4> DEFINE local == [mem[p] EXCEPT !.archive = "release"]
      <4>1. local \in Memory /\ local.art = mem[p].art
            /\ local.archive = "release"
        BY <1>0 DEF Memory, Data
      <4>2. Goto(p, "intend", local) /\ archive["kali"] = "release"
        BY <3>2 DEF Authenticate, SignedSums
      <4> HIDE DEF local
      <4> QED
        BY <3>2, <4>1, <4>2 DEF BundleOf
    <3>3. CASE Authenticate(p) /\ mem[p].art = "workstation"
      <4> DEFINE local == [mem[p] EXCEPT !.archive = meta["gateway"].archive,
                                         !.disk = meta["gateway"].disk]
      <4>1. /\ meta["gateway"].archive = "release"
            /\ meta["gateway"].disk = "release"
        <5>1. meta["gateway"] = Release
          BY <1>0, <3>3
          DEF Authenticate, At, Carries, Trusted, RecordedRelease, Artifact
        <5> QED
          BY <5>1 DEF Release
      <4>2. local \in Memory /\ local.art = mem[p].art
            /\ local.archive = "release"
        BY <1>0, <4>1 DEF Memory, Data
      <4>3. Goto(p, "intend", local) /\ archive["whonix"] = "release"
        BY <3>3 DEF Authenticate, SignedBundle
      <4> HIDE DEF local
      <4> QED
        BY <3>3, <4>2, <4>3 DEF BundleOf
    <3> QED
      BY <1>0, <1>4, <3>1, <3>2, <3>3 DEF Artifact
  <2>2. pc'[p] = "intend" /\ mem'[p] = local
    BY <1>0, <2>1, MoveTypes DEF ProvenInv
  <2>3. KnowsAlone(p)'
    BY <1>1, <1>2, <2>1, <2>2
    DEF KnowsAlone, StartsClean, CarriesRelease, BracketsRoot, KnowsIso
  <2> QED
    BY <1>0, <1>1, <2>1, <2>3, QuietKeepsTrust
<1> QED
  BY <1>3, <1>4

LEMMA IntendKeepsTrust ==
    ASSUME ProvenInv, Trusted, alone, NEW p \in Proc, Solo(p),
           NEW r \in Root, IntendTemp(p, r)
    PROVE  Trusted'
<1> DEFINE local == [mem[p] EXCEPT !.root = r]
           named == [root |-> IF mem[p].art = "workstation" THEN r ELSE NoRoot]
<1>0. /\ mem[p] \in Memory /\ KnowsAlone(p) /\ pc[p] = "intend"
      /\ "intent" \in Label /\ mem[p].art \in Artifact
  BY TypesAt DEF ProvenInv, Trusted, Label, IntendTemp, At
<1>1. UNCHANGED <<archive, meta, metaTemp, intent, roots, imported, alone,
                  isoPart, iso, isoProven>>
  BY DEF IntendTemp, records, scope, isos
<1>2. /\ local \in Memory /\ local.art = mem[p].art /\ local.root = r
      /\ local.archive = mem[p].archive
  BY <1>0 DEF Memory
<1>3. Goto(p, "intent", local) /\ intTemp' = [intTemp EXCEPT ![mem[p].art] = named]
  BY DEF IntendTemp
<1>4. intTemp'[mem[p].art] = named
  BY <1>0, <1>3, StoresAreOK DEF StoresOK
<1>5. mem[p].art = "workstation" => intTemp'["workstation"].root = r
  BY <1>4
<1> HIDE DEF local, named
<1>6. pc'[p] = "intent" /\ mem'[p] = local
  BY <1>0, <1>2, <1>3, MoveTypes DEF ProvenInv
<1>7. KnowsAlone(p)'
  BY <1>0, <1>1, <1>2, <1>5, <1>6
  DEF KnowsAlone, StartsClean, CarriesRelease, BracketsRoot, KnowsIso
<1> QED
  BY <1>0, <1>1, <1>2, <1>3, <1>7, QuietKeepsTrust

\* No root was on disk without an intent, so that there is none yet.
LEMMA PublishIntentKeepsTrust ==
    ASSUME ProvenInv, Trusted, alone, NEW p \in Proc, Solo(p), PublishIntent(p)
    PROVE  Trusted'
<1> DEFINE a == mem[p].art
<1>0. /\ mem[p] \in Memory /\ KnowsAlone(p) /\ pc[p] = "intent"
      /\ "root" \in Label /\ a \in Artifact
  BY TypesAt DEF ProvenInv, Trusted, Label, PublishIntent, At
<1>1. UNCHANGED <<archive, meta, metaTemp, roots, imported, alone, isoPart, iso,
                  isoProven>>
  BY DEF PublishIntent, records, scope, isos
<1>2. /\ Proceed(p, "root") /\ intTemp[a] # NoFile
      /\ intent' = [intent EXCEPT ![a] = intTemp[a]]
  BY DEF PublishIntent
<1>3. /\ intent'[a] = intTemp[a]
      /\ \A x \in Artifact \ {a} : intent'[x] = intent[x]
  BY <1>0, <1>2, StoresAreOK DEF StoresOK
<1>4. intent[a] = NoFile
  BY <1>0 DEF KnowsAlone, StartsClean
<1>5. NoRootOf(a)
  BY <1>4 DEF Trusted, RootsAreCovered, NoRootOf
<1>6. RootsAreCovered'
  <2>1. \A r \in Root : Unpacked(r) => roots[r].of \in Artifact
    BY TypesAt DEF Tree, ProvenInv
  <2>2. "workstation" \in Artifact
    BY DEF Artifact
  <2> QED
    BY <1>1, <1>3, <1>5, <2>1, <2>2 DEF RootsAreCovered, NoRootOf, Trusted
<1>7. RecordedRelease' /\ ImportedIsAuthentic'
  BY <1>1 DEF Trusted, RecordedRelease, ImportedIsAuthentic
<1>8. pc'[p] = "root" /\ mem'[p] = mem[p] /\ Goto(p, "root", mem[p])
  BY <1>0, <1>2, MoveTypes DEF ProvenInv, Proceed
<1>9. a = "workstation" => intent'["workstation"].root = mem[p].root
  BY <1>0, <1>2, <1>3 DEF KnowsAlone, BracketsRoot
<1>10. KnowsAlone(p)'
  BY <1>0, <1>1, <1>2, <1>3, <1>5, <1>8, <1>9
  DEF KnowsAlone, StartsClean, CarriesRelease, BracketsRoot, KnowsIso, NoRootOf
<1> QED
  BY <1>0, <1>6, <1>7, <1>8, <1>10, SoloKeepsTrust

\* What the roots tell of: a step that neither fills one nor changes whose they
\* are.
LEMMA SameRootsKeepTrust ==
    ASSUME ProvenInv, Trusted, NEW p \in Proc, NEW label \in Label,
           NEW local \in Memory, Goto(p, label, local), Solo(p),
           label # "idle" => KnowsAlone(p)', alone' = alone,
           UNCHANGED <<meta, metaTemp, intent, imported, iso, isoProven>>,
           \A r \in Root : Unpacked(r)' =>
               Unpacked(r) /\ roots'[r].of = roots[r].of
    PROVE  Trusted'
<1>1. RecordedRelease' /\ ImportedIsAuthentic' /\ RootsAreCovered'
  BY DEF Trusted, RecordedRelease, ImportedIsAuthentic, RootsAreCovered
<1> QED
  BY <1>1, SoloKeepsTrust

\* A new root is empty; when its creation fails nothing is unpacked.
LEMMA CreateRootKeepsTrust ==
    ASSUME ProvenInv, Trusted, alone, NEW p \in Proc, Solo(p),
           CreateRoot(p) \/ CreateRootFails(p)
    PROVE  Trusted'
<1> DEFINE a == mem[p].art
           r == mem[p].root
<1>0. /\ mem[p] \in Memory /\ KnowsAlone(p) /\ Carries(p) /\ pc[p] = "root"
  BY TypesAt
  DEF ProvenInv, ProcessOK, Trusted, CreateRoot, CreateRootFails, At
<1>1. UNCHANGED <<archive, meta, metaTemp, intent, intTemp, imported, alone,
                  isoPart, iso, isoProven>>
  BY DEF CreateRoot, CreateRootFails, records, intents, scope, isos
<1>2. r \in Root
  BY <1>0 DEF Carries, Rooted
<1>3. PICK label \in {"extract", "clear_failed"} :
         /\ Proceed(p, label)
         /\ label = "extract" => CreateRoot(p)
  BY DEF CreateRoot, CreateRootFails
<1>4. label \in Label
  BY DEF Label
<1>5. /\ roots'[r] # NoRoot => roots'[r].fill = "empty"
      /\ label = "extract" => roots'[r].of = a
      /\ \A s \in Root \ {r} : roots'[s] = roots[s]
  <2>1. /\ NewRoot(a).fill = "empty" /\ NewRoot(a).of = a
        /\ NewRoot("workstation").fill = "empty"
    BY DEF NewRoot
  <2> QED
    BY <1>2, <1>3, <2>1, StoresAreOK DEF CreateRoot, CreateRootFails, StoresOK
<1>6. \A s \in Root : Unpacked(s)' =>
                          Unpacked(s) /\ roots'[s].of = roots[s].of
  BY <1>2, <1>5
<1>7. pc'[p] = label /\ mem'[p] = mem[p] /\ Goto(p, label, mem[p])
  BY <1>0, <1>3, <1>4, MoveTypes DEF ProvenInv, Proceed
<1>8. KnowsAlone(p)'
  BY <1>0, <1>1, <1>5, <1>6, <1>7
  DEF KnowsAlone, StartsClean, CarriesRelease, BracketsRoot, KnowsIso, NoRootOf
<1> QED
  BY <1>0, <1>1, <1>4, <1>6, <1>7, <1>8, SameRootsKeepTrust

LEMMA ExtractKeepsTrust ==
    ASSUME ProvenInv, Trusted, alone, NEW p \in Proc, Solo(p),
           ExtractSome(p) \/ ExtractAll(p)
    PROVE  Trusted'
<1> DEFINE a == mem[p].art
           r == mem[p].root
<1>0. /\ mem[p] \in Memory /\ KnowsAlone(p) /\ Carries(p) /\ pc[p] = "extract"
  BY TypesAt
  DEF ProvenInv, ProcessOK, Trusted, ExtractSome, ExtractAll, At
<1>1. UNCHANGED <<archive, meta, metaTemp, intent, intTemp, imported, alone,
                  isoPart, iso, isoProven>>
  BY DEF ExtractSome, ExtractAll, records, intents, scope, isos
<1>2. r \in Root /\ roots[r] # NoRoot /\ roots[r] \in Tree
  BY <1>0, TypesAt DEF Carries, Rooted, ExtractSome, ExtractAll, ProvenInv
<1>3. PICK label \in {"extract", "check"} :
         /\ Proceed(p, label)
         /\ label = "check" => ExtractAll(p)
  BY DEF ExtractSome, ExtractAll
<1>4. label \in Label
  BY DEF Label
<1>5. /\ roots'[r].of = roots[r].of
      /\ label = "check" => roots'[r].data = archive[BundleOf(a)]
      /\ \A s \in Root \ {r} : roots'[s] = roots[s]
  <2>1. CASE ExtractSome(p)
    <3>1. label = "extract" \/ ExtractAll(p)
      BY <1>3
    <3> QED
      BY <1>2, <1>3, <2>1, StoresAreOK DEF ExtractSome, ExtractAll, StoresOK, Tree
  <2>2. CASE ExtractAll(p)
    BY <1>2, <2>2, StoresAreOK DEF ExtractAll, StoresOK, Tree
  <2> QED
    BY <2>1, <2>2
<1>6. pc'[p] = label /\ mem'[p] = mem[p] /\ Goto(p, label, mem[p])
  BY <1>0, <1>3, <1>4, MoveTypes DEF ProvenInv, Proceed
<1>7. \A s \in Root : Unpacked(s)' =>
                          \/ Unpacked(s) /\ roots'[s].of = roots[s].of
                          \/ s = r /\ roots'[s].of = roots[s].of
  BY <1>2, <1>5
<1>8. RootsAreCovered'
  <2>1. /\ roots[r].of = a /\ intent[a] # NoFile
        /\ a = "workstation" => intent["workstation"].root = r
    BY <1>0, <1>2 DEF KnowsAlone, BracketsRoot
  <2> QED
    BY <1>1, <1>7, <2>1 DEF RootsAreCovered, Trusted
<1>9. RecordedRelease' /\ ImportedIsAuthentic'
  BY <1>1 DEF Trusted, RecordedRelease, ImportedIsAuthentic
<1>10. BracketsRoot(p)'
  BY <1>0, <1>1, <1>2, <1>5, <1>6, <1>7 DEF KnowsAlone, BracketsRoot
<1>11. KnowsAlone(p)'
  BY <1>0, <1>1, <1>5, <1>6, <1>10
  DEF KnowsAlone, StartsClean, CarriesRelease, KnowsIso
<1> QED
  BY <1>0, <1>4, <1>6, <1>8, <1>9, <1>11, SoloKeepsTrust

LEMMA CheckKeepsTrust ==
    ASSUME ProvenInv, Trusted, alone, NEW p \in Proc, Solo(p), CheckExtracted(p)
    PROVE  Trusted'
<1> DEFINE r == mem[p].root
           local == [mem[p] EXCEPT !.disk = roots[r].data]
<1>0. /\ mem[p] \in Memory /\ KnowsAlone(p) /\ Carries(p) /\ pc[p] = "check"
      /\ "promote" \in Label
  BY TypesAt DEF ProvenInv, ProcessOK, Trusted, Label, CheckExtracted, At
<1>1. UNCHANGED <<archive, meta, metaTemp, intent, intTemp, roots, imported,
                  alone, isoPart, iso, isoProven>>
  BY DEF CheckExtracted, records, intents, scope, isos
<1>2. roots[r] # NoRoot /\ roots[r].data = "release"
  BY <1>0 DEF CheckExtracted, KnowsAlone, CarriesRelease
<1>3. /\ local \in Memory /\ local.disk = "release" /\ local.root = r
      /\ local.art = mem[p].art /\ local.archive = mem[p].archive
  BY <1>0, <1>2 DEF Memory, Data
<1>4. Goto(p, "promote", local)
  BY DEF CheckExtracted
<1> HIDE DEF local
<1>5. pc'[p] = "promote" /\ mem'[p] = local
  BY <1>0, <1>3, <1>4, MoveTypes DEF ProvenInv
<1>6. KnowsAlone(p)'
  BY <1>0, <1>1, <1>3, <1>5
  DEF KnowsAlone, StartsClean, CarriesRelease, BracketsRoot, KnowsIso
<1> QED
  BY <1>0, <1>1, <1>3, <1>4, <1>6, QuietKeepsTrust

LEMMA PromoteKeepsTrust ==
    ASSUME ProvenInv, Trusted, alone, NEW p \in Proc, Solo(p),
           Promote(p) \/ VerifyPromoted(p)
    PROVE  Trusted'
<1> DEFINE r == mem[p].root
<1>0. /\ mem[p] \in Memory /\ KnowsAlone(p) /\ Carries(p)
      /\ pc[p] \in {"promote", "verify"} /\ r \in Root
  BY TypesAt
  DEF ProvenInv, ProcessOK, Trusted, Promote, VerifyPromoted, At, Carries,
      Rooted
<1>1. UNCHANGED <<archive, meta, metaTemp, intent, intTemp, imported, alone,
                  isoPart, iso, isoProven>>
  BY DEF Promote, VerifyPromoted, records, intents, scope, isos
<1>2. PICK label \in {"verify", "cleanup"} : Proceed(p, label)
  BY DEF Promote, VerifyPromoted
<1>3. label \in Label
  BY DEF Label
<1>4. \A s \in Root : Unpacked(s)' =>
                          Unpacked(s) /\ roots'[s].of = roots[s].of
  <2>1. CASE Promote(p)
    <3>1. Unpacked(r) /\ roots[r] \in Tree
      BY <1>0, <2>1, TypesAt DEF Promote, ProvenInv
    <3>2. /\ roots'[r].of = roots[r].of
          /\ \A s \in Root \ {r} : roots'[s] = roots[s]
      BY <1>0, <2>1, <3>1, StoresAreOK DEF Promote, StoresOK, Tree
    <3> QED
      BY <3>1, <3>2
  <2>2. CASE VerifyPromoted(p)
    BY <2>2 DEF VerifyPromoted
  <2> QED
    BY <2>1, <2>2
<1>5. pc'[p] = label /\ mem'[p] = mem[p] /\ Goto(p, label, mem[p])
  BY <1>0, <1>2, <1>3, MoveTypes DEF ProvenInv, Proceed
<1>6. KnowsAlone(p)'
  BY <1>0, <1>1, <1>4, <1>5
  DEF KnowsAlone, StartsClean, CarriesRelease, BracketsRoot, KnowsIso
<1> QED
  BY <1>0, <1>1, <1>3, <1>4, <1>5, <1>6, SameRootsKeepTrust

LEMMA CleanupKeepsTrust ==
    ASSUME ProvenInv, Trusted, alone, NEW p \in Proc, Solo(p),
           ShrinkRoot(p) \/ RemoveRoot(p)
    PROVE  Trusted'
<1> DEFINE r == mem[p].root
<1>0. /\ mem[p] \in Memory /\ KnowsAlone(p) /\ Carries(p)
      /\ pc[p] \in {"cleanup", "cleanup_failed"} /\ r \in Root
  BY TypesAt
  DEF ProvenInv, ProcessOK, Trusted, ShrinkRoot, RemoveRoot, Carries, Rooted
<1>1. UNCHANGED <<archive, meta, metaTemp, intent, intTemp, imported, alone,
                  isoPart, iso, isoProven>>
  BY DEF ShrinkRoot, RemoveRoot, records, intents, scope, isos
<1>2. PICK label \in {"cleanup", "cleanup_failed", "record", "clear_failed"} :
         /\ Proceed(p, label)
         /\ label \in {"record", "clear_failed"} => RemoveRoot(p)
         /\ label \in {"cleanup", "record"} => pc[p] = "cleanup"
  BY <1>0 DEF ShrinkRoot, RemoveRoot, At
<1>3. label \in Label
  BY DEF Label
<1>4. \A s \in Root \ {r} : roots'[s] = roots[s]
  BY <1>0, StoresAreOK DEF ShrinkRoot, RemoveRoot, StoresOK
<1>5. RemoveRoot(p) => roots'[r] = NoRoot
  BY <1>0, StoresAreOK DEF RemoveRoot, StoresOK
<1>6. ASSUME ShrinkRoot(p)
      PROVE  Unpacked(r) /\ roots'[r].of = roots[r].of
  <2>1. Unpacked(r) /\ roots[r] \in Tree
    BY <1>0, <1>6, TypesAt DEF ShrinkRoot, ProvenInv
  <2> QED
    BY <1>0, <1>6, <2>1, StoresAreOK DEF ShrinkRoot, StoresOK, Tree
<1>7. \A s \in Root : Unpacked(s)' =>
                          Unpacked(s) /\ roots'[s].of = roots[s].of
  BY <1>4, <1>5, <1>6
<1>8. pc'[p] = label /\ mem'[p] = mem[p] /\ Goto(p, label, mem[p])
  BY <1>0, <1>2, <1>3, MoveTypes DEF ProvenInv, Proceed
<1>9. BracketsRoot(p)'
  BY <1>0, <1>2, <1>4, <1>5, <1>7, <1>8
  DEF KnowsAlone, BracketsRoot, NoRootOf
<1>10. KnowsAlone(p)'
  BY <1>0, <1>1, <1>2, <1>8, <1>9
  DEF KnowsAlone, StartsClean, CarriesRelease, KnowsIso
<1> QED
  BY <1>0, <1>1, <1>3, <1>7, <1>8, <1>10, SameRootsKeepTrust

\* The recorded digests are those of the signed release.
LEMMA RecordKeepsTrust ==
    ASSUME ProvenInv, Trusted, alone, NEW p \in Proc, Solo(p),
           RecordTemp(p) \/ PublishMetadata(p)
    PROVE  Trusted'
<1> DEFINE a == mem[p].art
<1>0. /\ mem[p] \in Memory /\ KnowsAlone(p) /\ a \in Artifact
      /\ pc[p] \in {"record", "metadata"}
  BY TypesAt DEF ProvenInv, Trusted, RecordTemp, PublishMetadata, At
<1>1. UNCHANGED <<archive, intent, intTemp, roots, imported, alone, isoPart,
                  iso, isoProven>>
  BY DEF RecordTemp, PublishMetadata, intents, scope, isos
<1>2. PICK label \in {"metadata", "clear"} : Proceed(p, label)
  BY DEF RecordTemp, PublishMetadata
<1>3. label \in Label
  BY DEF Label
<1>4. RecordedRelease'
  <2>1. CASE RecordTemp(p)
    <3>1. [archive |-> mem[p].archive, disk |-> mem[p].disk] = Release
      BY <1>0, <2>1
      DEF RecordTemp, At, KnowsAlone, CarriesRelease, Release
    <3>2. /\ meta' = meta /\ metaTemp'[a] = Release
          /\ \A x \in Artifact \ {a} : metaTemp'[x] = metaTemp[x]
      BY <1>0, <2>1, <3>1, StoresAreOK DEF RecordTemp, StoresOK
    <3> QED
      BY <3>2 DEF RecordedRelease, Trusted
  <2>2. CASE PublishMetadata(p)
    <3>1. /\ meta'[a] = metaTemp[a] /\ metaTemp[a] # NoFile
          /\ metaTemp'[a] = NoFile
          /\ \A x \in Artifact \ {a} : /\ metaTemp'[x] = metaTemp[x]
                                       /\ meta'[x] = meta[x]
      BY <1>0, <2>2, StoresAreOK DEF PublishMetadata, StoresOK
    <3> QED
      BY <3>1 DEF RecordedRelease, Trusted
  <2> QED
    BY <2>1, <2>2
<1>5. ImportedIsAuthentic' /\ RootsAreCovered'
  BY <1>1 DEF Trusted, ImportedIsAuthentic, RootsAreCovered
<1>6. pc'[p] = label /\ mem'[p] = mem[p] /\ Goto(p, label, mem[p])
  BY <1>0, <1>2, <1>3, MoveTypes DEF ProvenInv, Proceed
<1>7. KnowsAlone(p)'
  BY <1>0, <1>1, <1>6
  DEF KnowsAlone, StartsClean, CarriesRelease, BracketsRoot, KnowsIso, NoRootOf
<1> QED
  BY <1>0, <1>3, <1>4, <1>5, <1>6, <1>7, SoloKeepsTrust

\* The intent goes when its root is gone.
LEMMA ClearKeepsTrust ==
    ASSUME ProvenInv, Trusted, alone, NEW p \in Proc, Solo(p), ClearIntent(p)
    PROVE  Trusted'
<1> DEFINE a == mem[p].art
<1>0. /\ mem[p] \in Memory /\ KnowsAlone(p) /\ a \in Artifact
      /\ pc[p] \in {"clear", "clear_failed"}
  BY TypesAt DEF ProvenInv, Trusted, ClearIntent
<1>1. UNCHANGED <<archive, meta, metaTemp, intTemp, roots, imported, alone,
                  isoPart, iso, isoProven>>
  BY DEF ClearIntent, records, scope, isos
<1>2. PICK label \in {"idle", "prove", "proved"} :
         /\ Proceed(p, label)
         /\ label = "proved" => pc[p] = "clear"
  BY <1>0 DEF ClearIntent, At
<1>3. label \in Label
  BY DEF Label
<1>4. NoRootOf(a) /\ \A x \in Artifact \ {a} : intent'[x] = intent[x]
  BY <1>0, StoresAreOK DEF KnowsAlone, BracketsRoot, ClearIntent, StoresOK
<1>5. RootsAreCovered'
  <2>1. \A r \in Root : Unpacked(r) => roots[r].of \in Artifact \ {a}
    BY <1>4, TypesAt DEF Tree, NoRootOf, ProvenInv
  <2> QED
    BY <1>1, <1>4, <2>1 DEF RootsAreCovered, Trusted
<1>6. RecordedRelease' /\ ImportedIsAuthentic'
  BY <1>1 DEF Trusted, RecordedRelease, ImportedIsAuthentic
<1>7. pc'[p] = label /\ (label # "idle" => mem'[p] = mem[p])
      /\ Goto(p, label, mem[p])
  BY <1>0, <1>2, <1>3, MoveTypes DEF ProvenInv, Proceed
<1>8. label # "idle" => KnowsAlone(p)'
  BY <1>0, <1>2, <1>7
  DEF KnowsAlone, StartsClean, CarriesRelease, BracketsRoot, KnowsIso
<1> QED
  BY <1>0, <1>3, <1>5, <1>6, <1>7, <1>8, SoloKeepsTrust

\* A proof compares with digests of the release, and what it opens it imports.
LEMMA UseKeepsTrust ==
    ASSUME ProvenInv, Trusted, alone, NEW p \in Proc, Solo(p),
           Prove(p) \/ OpenSource(p)
    PROVE  Trusted'
<1> DEFINE a == mem[p].art
<1>0. /\ mem[p] \in Memory /\ KnowsAlone(p) /\ Knows(p) /\ Carries(p)
      /\ a \in Artifact /\ drift[p] \in BOOLEAN
  BY TypesAt DEF ProvenInv, ProcessOK, Trusted
<1>1. UNCHANGED <<archive, meta, metaTemp, intent, intTemp, roots, imported,
                  alone, isoPart, iso, isoProven>>
  BY DEF Prove, OpenSource, records, intents, scope, isos
<1>2. PICK label \in {"proved", "opened"}, local \in Memory :
         Goto(p, label, local) /\ local.disk = "release"
  <2>1. CASE Prove(p)
    <3> DEFINE local == [mem[p] EXCEPT !.archive = meta[a].archive,
                                       !.disk = meta[a].disk]
    <3>1. Matches(a)
      BY <1>0, <2>1
      DEF Prove, Proven, WorkstationProven, WorkstationState, WhonixState,
          Artifact
    <3>2. meta[a] = Release
      BY <1>0, <3>1 DEF Matches, Trusted, RecordedRelease
    <3>3. meta[a].archive = "release" /\ meta[a].disk = "release"
      BY <3>2 DEF Release
    <3>4. local \in Memory /\ local.disk = "release"
      BY <1>0, <3>3 DEF Memory, Data
    <3>5. Goto(p, "proved", local)
      BY <2>1 DEF Prove
    <3> HIDE DEF local
    <3> QED
      BY <3>4, <3>5
  <2>2. CASE OpenSource(p)
    <3> DEFINE local == [mem[p] EXCEPT !.archive = prepared[a].data]
    <3>1. /\ prepared[a].data = mem[p].disk /\ mem[p].disk = "release"
      BY <1>0, <2>2
      DEF OpenSource, At, StillProven, Knows, ProofHolds, KnowsAlone,
          CarriesRelease
    <3>2. local \in Memory /\ local.disk = "release"
      BY <1>0, <3>1 DEF Memory, Data
    <3>3. Goto(p, "opened", local)
      BY <2>2 DEF OpenSource
    <3> HIDE DEF local
    <3> QED
      BY <3>2, <3>3
  <2> QED
    BY <2>1, <2>2
<1>3. label \in Label
  BY DEF Label
<1>4. pc'[p] = label /\ mem'[p] = local
  BY <1>0, <1>2, <1>3, MoveTypes DEF ProvenInv
<1>5. KnowsAlone(p)'
  BY <1>2, <1>4
  DEF KnowsAlone, StartsClean, CarriesRelease, BracketsRoot, KnowsIso
<1> QED
  BY <1>1, <1>2, <1>3, <1>5, QuietKeepsTrust

LEMMA ImportKeepsTrust ==
    ASSUME ProvenInv, Trusted, alone, NEW p \in Proc, Solo(p), Import(p)
    PROVE  Trusted'
<1> DEFINE a == mem[p].art
           copy == [data |-> mem[p].archive, proof |-> mem[p].disk]
<1>0. /\ mem[p] \in Memory /\ KnowsAlone(p) /\ Knows(p) /\ pc[p] = "opened"
      /\ a \in Artifact /\ "idle" \in Label
  BY TypesAt DEF ProvenInv, Trusted, Import, At, Label
<1>1. UNCHANGED <<meta, metaTemp, intent, roots, alone, iso, isoProven>>
  BY DEF Import, records, intents, scope, isos
<1>2. copy.data = "release"
  BY <1>0 DEF Knows, OpenedIsProven, KnowsAlone, CarriesRelease
<1>3. /\ Goto(p, "idle", mem[p])
      /\ imported' = [imported EXCEPT ![a] = copy]
  BY DEF Import, Proceed
<1> HIDE DEF copy
<1>4. imported'[a] = copy /\ \A x \in Artifact \ {a} : imported'[x] = imported[x]
  BY <1>0, <1>3, StoresAreOK DEF StoresOK
<1>5. ImportedIsAuthentic'
  BY <1>1, <1>2, <1>4 DEF Trusted, ImportedIsAuthentic
<1>6. RecordedRelease' /\ RootsAreCovered'
  BY <1>1 DEF Trusted, RecordedRelease, RootsAreCovered
<1> QED
  BY <1>0, <1>3, <1>5, <1>6, SoloKeepsTrust

\* A recovery removes the root that the intent names, and then the intent.
LEMMA RecoverKeepsTrust ==
    ASSUME ProvenInv, Trusted, alone, NEW p \in Proc, Solo(p),
           RecoverEntries(p) \/ RecoverRoot(p) \/ RecoverIntent(p)
    PROVE  Trusted'
<1> DEFINE r == mem[p].root
<1>0. /\ mem[p] \in Memory /\ KnowsAlone(p) /\ Carries(p)
  BY TypesAt DEF ProvenInv, ProcessOK, Trusted
<1>1. UNCHANGED <<archive, meta, metaTemp, intTemp, imported, alone, isoPart,
                  iso, isoProven>>
  BY DEF RecoverEntries, RecoverRoot, RecoverIntent, records, intents, scope,
         isos
<1>2. CASE RecoverEntries(p)
  <2>1. /\ Proceed(p, "recover_root") /\ "recover_root" \in Label
        /\ UNCHANGED intent /\ intent["workstation"] = [root |-> r]
    BY <1>2 DEF RecoverEntries, Recoverable, intents, Label
  <2>2. r \in Root /\ Unpacked(r) /\ roots[r] \in Tree
    BY <1>2, TypesAt DEF RecoverEntries, Recoverable, RootsOf, ProvenInv
  <2>3. /\ roots'[r].of = roots[r].of
        /\ \A s \in Root \ {r} : roots'[s] = roots[s]
    BY <1>2, <2>2, StoresAreOK DEF RecoverEntries, StoresOK, Tree
  <2>4. pc'[p] = "recover_root" /\ mem'[p] = mem[p]
        /\ Goto(p, "recover_root", mem[p])
    BY <1>0, <2>1, MoveTypes DEF ProvenInv, Proceed
  <2>5. KnowsAlone(p)'
    BY <2>1, <2>4
    DEF KnowsAlone, StartsClean, CarriesRelease, BracketsRoot, KnowsIso
  <2> QED
    BY <1>0, <1>1, <2>1, <2>2, <2>3, <2>4, <2>5, SameRootsKeepTrust
<1>3. CASE RecoverRoot(p)
  <2>1. /\ Proceed(p, "recover_intent") /\ "recover_intent" \in Label
        /\ UNCHANGED intent /\ pc[p] = "recover_root"
    BY <1>3 DEF RecoverRoot, At, intents, Label
  <2>2. r \in Root /\ intent["workstation"].root = r
    BY <1>0, <2>1 DEF Carries, KnowsAlone, BracketsRoot
  <2>3. /\ roots'[r] = NoRoot
        /\ \A s \in Root \ {r} : roots'[s] = roots[s]
    BY <1>3, <2>2, StoresAreOK DEF RecoverRoot, StoresOK
  <2>4. pc'[p] = "recover_intent" /\ mem'[p] = mem[p]
        /\ Goto(p, "recover_intent", mem[p])
    BY <1>0, <2>1, MoveTypes DEF ProvenInv, Proceed
  <2>5. \A s \in Root : Unpacked(s) /\ roots[s].of = "workstation" => s = r
    BY <2>2 DEF Trusted, RootsAreCovered
  <2>6. KnowsAlone(p)'
    BY <2>3, <2>4, <2>5
    DEF KnowsAlone, StartsClean, CarriesRelease, BracketsRoot, KnowsIso,
        NoRootOf
  <2> QED
    BY <1>0, <1>1, <2>1, <2>3, <2>4, <2>6, SameRootsKeepTrust
<1>4. CASE RecoverIntent(p)
  <2>1. /\ Goto(p, "idle", mem[p]) /\ "idle" \in Label
        /\ UNCHANGED roots /\ pc[p] = "recover_intent"
    BY <1>4 DEF RecoverIntent, At, Label, Proceed
  <2>2. NoRootOf("workstation")
    BY <1>0, <2>1 DEF KnowsAlone, BracketsRoot
  <2>3. \A x \in Artifact \ {"workstation"} : intent'[x] = intent[x]
    BY <1>4, StoresAreOK DEF RecoverIntent, StoresOK
  <2>4. RootsAreCovered'
    <3>1. \A s \in Root : Unpacked(s) =>
                              roots[s].of \in Artifact \ {"workstation"}
      BY <2>2, TypesAt DEF Tree, NoRootOf, ProvenInv
    <3> QED
      BY <1>1, <2>1, <2>3, <3>1 DEF RootsAreCovered, Trusted
  <2>5. RecordedRelease' /\ ImportedIsAuthentic'
    BY <1>1 DEF Trusted, RecordedRelease, ImportedIsAuthentic
  <2> QED
    BY <1>0, <2>1, <2>4, <2>5, SoloKeepsTrust
<1> QED
  BY <1>2, <1>3, <1>4

\* An ISO is recorded only after it was found to be the release.
LEMMA IsoKeepsTrust ==
    ASSUME ProvenInv, Trusted, alone, NEW p \in Proc, Solo(p), FetchIso(p)
    PROVE  Trusted'
<1>0. mem[p] \in Memory /\ KnowsAlone(p) /\ IsoLabel \subseteq Label
  BY TypesAt DEF ProvenInv, Trusted, IsoLabel, Label
<1>1. UNCHANGED <<meta, metaTemp, intent, roots, imported, alone>>
  BY DEF FetchIso, IsoBegins, IsoDownloadStarts, IsoDownloadEnds, IsoVerify,
         IsoPublish, IsoRecord, IsoOnly, records, intents, scope
<1>2. PICK label \in IsoLabel : Proceed(p, label)
  BY DEF FetchIso, IsoBegins, IsoDownloadStarts, IsoDownloadEnds, IsoVerify,
         IsoPublish, IsoRecord, IsoLabel
<1>3. /\ pc'[p] = label /\ Goto(p, label, mem[p])
  BY <1>0, <1>2, MoveTypes DEF ProvenInv, Proceed
<1>4. /\ label = "iso_publish" => isoPart' = "release"
      /\ label = "iso_record" => iso' = "release"
      /\ isoProven' => iso' = "release"
  <2>1. pc \in [Proc -> Label]
    BY DEF ProvenInv, ProcessOK
  <2>2. /\ isoProven => iso = "release"
        /\ pc[p] = "iso_publish" => isoPart = "release"
        /\ pc[p] = "iso_record" => iso = "release"
    BY <1>0 DEF Trusted, ImportedIsAuthentic, KnowsAlone, KnowsIso
  <2>3. CASE IsoBegins(p)
    BY <1>3, <2>1, <2>2, <2>3 DEF IsoBegins, Proceed, Goto, isos
  <2>4. CASE IsoDownloadStarts(p) \/ \E data \in Data : IsoDownloadEnds(p, data)
    BY <1>3, <2>1, <2>2, <2>4
    DEF IsoDownloadStarts, IsoDownloadEnds, Proceed, Goto
  <2>5. CASE IsoVerify(p)
    BY <1>3, <2>1, <2>2, <2>5 DEF IsoVerify, Proceed, Goto, isos
  <2>6. CASE IsoPublish(p)
    BY <1>3, <2>1, <2>2, <2>6 DEF IsoPublish, At, Proceed, Goto
  <2>7. CASE IsoRecord(p)
    BY <1>3, <2>1, <2>2, <2>7 DEF IsoRecord, At, Proceed, Goto
  <2> QED
    BY <2>3, <2>4, <2>5, <2>6, <2>7 DEF FetchIso
<1>5. ImportedIsAuthentic'
  BY <1>1, <1>4 DEF Trusted, ImportedIsAuthentic
<1>6. RecordedRelease' /\ RootsAreCovered'
  BY <1>1 DEF Trusted, RecordedRelease, RootsAreCovered
<1>7. KnowsAlone(p)'
  BY <1>3, <1>4
  DEF KnowsAlone, StartsClean, CarriesRelease, BracketsRoot, KnowsIso, IsoLabel
<1> QED
  BY <1>0, <1>3, <1>5, <1>6, <1>7, SoloKeepsTrust

\* Whoever replaces an image or an ISO by hand changes nothing that trust
\* rests on.
LEMMA OtherwiseKeepsTrust ==
    ASSUME ProvenInv, Trusted,
           (\E a \in Artifact : Replace(a)) \/ IsoReplaced \/ UNCHANGED vars
    PROVE  Trusted' /\ alone' = alone
<1>1. UNCHANGED <<archive, meta, metaTemp, intent, intTemp, roots, imported,
                  alone, isoPart, isoProven, pc, mem>>
  BY DEF Replace, IsoReplaced, vars, records, intents, scope, process, isos
<1>2. \/ UNCHANGED iso
      \/ ~isoProven /\ \A p \in Proc : pc[p] = "idle"
  BY DEF Replace, IsoReplaced, vars, isos
<1>3. OneAtATime' /\ RecordedRelease' /\ RootsAreCovered'
  BY <1>1 DEF Trusted, OneAtATime, RecordedRelease, RootsAreCovered
<1>4. ImportedIsAuthentic'
  BY <1>1, <1>2 DEF Trusted, ImportedIsAuthentic
<1>5. \A p \in Proc : KnowsAlone(p)'
  BY <1>1, <1>2
  DEF Trusted, KnowsAlone, StartsClean, CarriesRelease, BracketsRoot, KnowsIso,
      NoRootOf
<1> QED
  BY <1>1, <1>3, <1>4, <1>5 DEF Trusted

LEMMA CommandKeepsTrust ==
    ASSUME ProvenInv, AloneInv, NEW p \in Proc,
           Fetch(p) \/ FetchIso(p) \/ Use(p) \/ Recover(p) \/ Stop(p)
    PROVE  AloneInv'
<1>1. alone' = alone
  BY ScopeIsFixed DEF scope
<1> SUFFICES ASSUME alone PROVE Trusted'
  BY <1>1 DEF AloneInv
<1>2. Trusted /\ Solo(p)
  BY RunsAlone DEF AloneInv, Trusted
<1>3. CASE Fetch(p)
  <2>1. CASE \/ \E a \in Artifact, use \in BOOLEAN : FetchBegins(p, a, use)
             \/ DownloadStarts(p) \/ \E data \in Data : DownloadEnds(p, data)
             \/ Authenticate(p) \/ DigestArchive(p)
             \/ \E r \in Root : IntendTemp(p, r)
    BY <1>2, <2>1, BeginningsKeepTrust, DownloadKeepsTrust,
       AuthenticateKeepsTrust, IntendKeepsTrust
  <2>2. CASE \/ PublishIntent(p) \/ CreateRoot(p) \/ CreateRootFails(p)
             \/ ExtractSome(p) \/ ExtractAll(p) \/ CheckExtracted(p) \/ Promote(p)
             \/ VerifyPromoted(p)
    BY <1>2, <2>2, PublishIntentKeepsTrust, CreateRootKeepsTrust,
       ExtractKeepsTrust, CheckKeepsTrust, PromoteKeepsTrust
  <2>3. CASE \/ ShrinkRoot(p) \/ RemoveRoot(p) \/ RecordTemp(p)
             \/ PublishMetadata(p) \/ ClearIntent(p) \/ Fail(p)
    BY <1>2, <2>3, CleanupKeepsTrust, RecordKeepsTrust, ClearKeepsTrust,
       StopKeepsTrust
  <2> QED
    BY <1>3, <2>1, <2>2, <2>3 DEF Fetch
<1>4. CASE FetchIso(p)
  BY <1>2, <1>4, IsoKeepsTrust
<1>5. CASE Use(p)
  BY <1>2, <1>5, BeginningsKeepTrust, UseKeepsTrust, ImportKeepsTrust DEF Use
<1>6. CASE Recover(p)
  BY <1>2, <1>6, BeginningsKeepTrust, RecoverKeepsTrust DEF Recover
<1>7. CASE Stop(p)
  BY <1>2, <1>7, StopKeepsTrust
<1> QED
  BY <1>3, <1>4, <1>5, <1>6, <1>7

LEMMA AloneInvInit == Init => AloneInv
<1> SUFFICES ASSUME Init PROVE AloneInv
  OBVIOUS
<1>1. OneAtATime /\ RecordedRelease /\ ImportedIsAuthentic /\ RootsAreCovered
  BY DEF Init, OneAtATime, RecordedRelease, ImportedIsAuthentic, RootsAreCovered
<1>2. \A p \in Proc : KnowsAlone(p)
  BY IdleIsTrusted DEF Init
<1> QED
  BY <1>1, <1>2 DEF AloneInv, Trusted

\* Commands run one after another: what is unpacked, compared, recorded, proven
\* and imported is the signed release, and an intent brackets every root.
THEOREM TrustInvariant == Spec => []AloneInv
<1>1. Init => AloneInv
  BY AloneInvInit
<1>2. ProvenInv /\ AloneInv /\ [Next]_vars => AloneInv'
  <2> SUFFICES ASSUME ProvenInv, AloneInv, [Next]_vars PROVE AloneInv'
    OBVIOUS
  <2>1. ASSUME NEW p \in Proc,
               Fetch(p) \/ FetchIso(p) \/ Use(p) \/ Recover(p) \/ Stop(p)
        PROVE  AloneInv'
    BY <2>1, CommandKeepsTrust
  <2>2. CASE \/ \E a \in Artifact : Replace(a)
             \/ IsoReplaced \/ UNCHANGED vars
    <3>1. alone' = alone
      BY <2>2 DEF Replace, IsoReplaced, vars, scope
    <3> QED
      BY <2>2, <3>1, OtherwiseKeepsTrust DEF AloneInv
  <2> QED
    BY <2>1, <2>2 DEF Next
<1> QED
  BY <1>1, <1>2, ImageInvariant, PTL DEF Spec

\* A base is only ever imported with the bytes of the signed release, and an
\* ISO only recorded when it is that release: ImportedIsAuthentic.
THEOREM ImportsAreAuthentic == Spec => []ImportedIsAuthentic
<1>1. AloneInv => ImportedIsAuthentic
  BY DEF AloneInv, Trusted, ImportedIsAuthentic
<1> QED
  BY <1>1, TrustInvariant, PTL

\* An extraction root is on disk only beside its intent: RootsAreCovered.
THEOREM RootsStayCovered == Spec => []RootsAreCovered
<1>1. AloneInv => RootsAreCovered
  BY DEF AloneInv, Trusted, RootsAreCovered
<1> QED
  BY <1>1, TrustInvariant, PTL
=============================================================================
