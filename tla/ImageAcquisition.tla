--------------------------- MODULE ImageAcquisition ---------------------------
(***************************************************************************)
(* Acquisition and trust of the prepared images: crates/forge-images/src/  *)
(* lib.rs, with the "forge image fetch" and "forge image recover" commands *)
(* and the import of a base by "vm create" (crates/forge-cli/src/          *)
(* main.rs).                                                               *)
(*                                                                         *)
(* A signed archive is downloaded, authenticated and unpacked into an      *)
(* extraction root, one disk of it is promoted to the prepared image, and  *)
(* metadata records both digests.  An intent on disk brackets the work on  *)
(* the root.  A create proves the prepared image again and binds the proof *)
(* to the identities (inode, times, links) of the files it has read.       *)
(***************************************************************************)
CONSTANTS
    Proc,      \* invocations of forge
    Root,      \* names of extraction roots, unique to an invocation
    Operator,  \* whoever else replaces a prepared image
    NoRoot,    \* no extraction root
    NoFile     \* no such file

\* Whoever replaces an image by hand is no invocation of forge.
ASSUME OperatorAssumption == Operator \notin Proc

\* The Gateway and the Workstation are two disks of one Whonix bundle.
Artifact == {"kali", "gateway", "workstation"}

\* "fedora" stands for the Workstation ISO, which is not unpacked.
Bundle == {"kali", "whonix", "fedora"}

BundleOf(a) == IF a = "kali" THEN "kali" ELSE "whonix"

\* The signed release, a whole download that is not it, and half of one.
Data == {"release", "other", "half"}

VARIABLES
    archive,   \* the downloaded archive of each bundle
    prepared,  \* the prepared image, and who put it there
    meta,      \* the verified metadata
    metaTemp,  \* its temporary file
    intent,    \* the preparation intent
    intTemp,   \* its temporary file
    roots,     \* the extraction roots
    imported,  \* the shared base imported from it, and the digest it is proven by
    alone,     \* whether a command only starts after the last one ended
    bundle,    \* the bundle whose images a run is about: they share no file
    pc,        \* the next step of each process
    mem,       \* its local variables
    drift,     \* whether a file it has bound was written or replaced since
    isoPart,   \* the Workstation ISO while it is downloaded
    iso,       \* the Workstation ISO
    isoProven  \* whether its verified metadata exists

intents == <<intent, intTemp>>
isos    == <<isoPart, iso, isoProven>>
records == <<meta, metaTemp>>
process == <<pc, mem>>
scope   == <<alone, bundle>>
vars    == <<archive, prepared, records, intents, roots, imported, scope,
             process, drift, isos>>

Idle == [art |-> "kali", use |-> FALSE, archive |-> NoFile, disk |-> NoFile,
         root |-> NoRoot]

Memory == [art : Artifact, use : BOOLEAN, archive : Data \cup {NoFile},
           disk : Data \cup {NoFile}, root : Root \cup {NoRoot}]

Metadata == [archive : Data, disk : Data]
Image    == [data : Data, by : Proc \cup {Operator}]
\* An intent names its root when it is one of the Workstation.
Intent   == [root : Root \cup {NoRoot}]
Tree     == [of : Artifact, fill : {"empty", "some", "all"},
             data : Data \cup {NoFile}]

\* What stands for an absent file is no file.
ASSUME AbsenceAssumption == NoFile \notin Data \cup Image

-----------------------------------------------------------------------------
(* Observations and proofs *)

RootsOf(b) == {r \in Root : roots[r] # NoRoot /\ BundleOf(roots[r].of) = b}

\* The digests on record are those of the archive and of the prepared image.
Matches(a) ==
    /\ meta[a] # NoFile /\ prepared[a] # NoFile
    /\ archive[BundleOf(a)] = meta[a].archive
    /\ prepared[a].data = meta[a].disk

\* inspect_kali_preparation: metadata first, then the prepared image, then
\* whatever else there is.
KaliState ==
    IF meta["kali"] # NoFile
    THEN IF Matches("kali") THEN "Verified" ELSE "Conflict"
    ELSE IF prepared["kali"] # NoFile THEN "Orphaned"
    ELSE IF \/ intent["kali"] # NoFile
            \/ metaTemp["kali"] # NoFile
            \/ RootsOf("kali") # {}
         THEN "Interrupted"
         ELSE "Missing"

\* What the two Whonix disks have in common.
WhonixState(a, pending, proven) ==
    IF pending THEN "Preparing"
    ELSE IF meta[a] = NoFile
         THEN IF prepared[a] # NoFile THEN "Orphaned" ELSE "Missing"
    ELSE IF prepared[a] = NoFile THEN "Preparing"
    ELSE IF proven THEN "Verified" ELSE "Conflict"

\* inspect_whonix_preparation does not look at the intent's temporary file.
GatewayState ==
    WhonixState("gateway",
        intent["gateway"] # NoFile \/ metaTemp["gateway"] # NoFile,
        Matches("gateway"))

\* inspect_whonix_workstation_preparation trusts the provenance of the Gateway.
WorkstationState ==
    WhonixState("workstation",
        \/ intent["workstation"] # NoFile
        \/ intTemp["workstation"] # NoFile
        \/ metaTemp["workstation"] # NoFile,
        /\ GatewayState = "Verified"
        /\ Matches("workstation")
        /\ meta["workstation"] = meta["gateway"])

State(a) == CASE a = "kali"        -> KaliState
              [] a = "gateway"     -> GatewayState
              [] a = "workstation" -> WorkstationState

\* What prepare_..._for_execute reads before it decides whether to fetch.
KaliRecorded == meta["kali"] # NoFile

GatewayRecorded ==
    /\ intent["gateway"] = NoFile
    /\ metaTemp["gateway"] = NoFile
    /\ meta["gateway"] # NoFile
    /\ prepared["gateway"] # NoFile
    /\ archive["whonix"] # NoFile

WorkstationRecorded ==
    /\ \A d \in {"gateway", "workstation"} : meta[d] # NoFile /\ prepared[d] # NoFile
    /\ archive["whonix"] # NoFile

Recorded(a) == CASE a = "kali"        -> KaliRecorded
                 [] a = "gateway"     -> GatewayRecorded
                 [] a = "workstation" -> WorkstationRecorded

\* revalidate_whonix_workstation: the bytes of every input, and the signature
\* of the bundle once more.
WorkstationProven == WorkstationState = "Verified" /\ archive["whonix"] = "release"

\* prove_..._for_execute
Proven(a) == IF a = "workstation" THEN WorkstationProven ELSE Matches(a)

\* plan_whonix_workstation_recovery
Recoverable(r) ==
    /\ intTemp["workstation"] = NoFile
    /\ meta["workstation"] = NoFile /\ metaTemp["workstation"] = NoFile
    /\ prepared["workstation"] = NoFile
    /\ intent["workstation"] = [root |-> r]
    /\ RootsOf("whonix") = {r}
    /\ roots[r].fill = "all"

\* inspect_fedora_workstation_iso: metadata is believed without a digest.
IsoState == IF isoProven THEN "Verified" ELSE "Missing"

-----------------------------------------------------------------------------
(* Running a command *)

\* The downloads directory, whose times tell of a new entry.
Downloads == <<"directory", "downloads">>

\* The files that a proof of a prepared image is about.
FilesOf(a) == {<<"archive", BundleOf(a)>>, <<"prepared", a>>, <<"meta", a>>}

\* The files whose identity a process has bound: they are captured when it
\* enters the steps below, and compared before it goes on.
Bound(p) ==
    LET a == mem[p].art
    IN  CASE pc[p] \in {"proved", "opened"} ->
                 FilesOf(a) \cup (IF a = "workstation" THEN FilesOf("gateway")
                                                      ELSE {})
          [] pc[p] = "recover" ->
                 {Downloads, <<"root", mem[p].root>>, <<"intent", "workstation">>}
          [] /\ a = "workstation"
             /\ pc[p] \notin {"idle", "proved", "opened", "recover"} ->
                 FilesOf("gateway")
          [] OTHER -> {}

\* A step writes, creates, replaces or removes these files.
Touch(files) ==
    drift' = [q \in Proc |-> pc'[q] # "idle"
                             /\ (drift[q] \/ files \cap Bound(q) # {})]

Begins(p) ==
    /\ pc[p] = "idle"
    /\ alone => \A q \in Proc : pc[q] = "idle"

At(p, label) == pc[p] = label

Goto(p, label, local) ==
    /\ pc' = [pc EXCEPT ![p] = label]
    /\ mem' = [mem EXCEPT ![p] = IF label = "idle" THEN Idle ELSE local]

Proceed(p, label) == Goto(p, label, mem[p])

\* A refusal, an error of the system or the death of the process.
Stop(p) ==
    /\ pc[p] # "idle"
    /\ Proceed(p, "idle")
    /\ Touch({})
    /\ UNCHANGED <<archive, prepared, records, intents, roots, imported, scope, isos>>

\* Mutant: the intent is dropped while the root is still there.
FailForgetting(p) ==
    /\ pc[p] \in {"extract", "check", "promote", "verify"}
    /\ Proceed(p, "clear_failed")
    /\ Touch({})
    /\ UNCHANGED <<archive, prepared, records, intents, roots, imported, scope, isos>>

\* An error while the extraction root is there: the root is cleaned up first.
\* Kali and Gateway withdraw the link of a promotion whose source cannot be
\* unlinked; link and withdrawal are one step here, which fails at "promote".
Fail(p) ==
    /\ pc[p] \in {"extract", "check", "promote", "verify"}
    /\ Proceed(p, "cleanup_failed")
    /\ Touch({})
    /\ UNCHANGED <<archive, prepared, records, intents, roots, imported, scope, isos>>

-----------------------------------------------------------------------------
(* Fetching *)

\* forge image fetch kali, or a create that finds nothing on record.
FetchBegins(p, a, use) ==
    /\ Begins(p)
    /\ BundleOf(a) = bundle
    /\ IF use THEN ~Recorded(a) ELSE a = "kali"
    /\ State(a) = "Missing"
    /\ a = "workstation" => Matches("gateway")
    /\ Goto(p, IF a = "workstation" THEN "authenticate" ELSE "download",
            [Idle EXCEPT !.art = a, !.use = use])
    /\ Touch({})
    /\ UNCHANGED <<archive, prepared, records, intents, roots, imported, scope, isos>>

\* curl writes over what is there.
DownloadStarts(p) ==
    LET b == BundleOf(mem[p].art) IN
    /\ At(p, "download")
    /\ archive' = [archive EXCEPT ![b] = "half"]
    /\ Proceed(p, "downloading")
    /\ Touch({<<"archive", b>>} \cup (IF archive[b] = NoFile THEN {Downloads} ELSE {}))
    /\ UNCHANGED <<prepared, records, intents, roots, imported, scope, isos>>

DownloadEnds(p, data) ==
    LET b == BundleOf(mem[p].art) IN
    /\ At(p, "downloading")
    /\ data # "half"
    /\ archive' = [archive EXCEPT ![b] = data]
    /\ Proceed(p, "authenticate")
    /\ Touch({<<"archive", b>>})
    /\ UNCHANGED <<prepared, records, intents, roots, imported, scope, isos>>

\* Mutant: the signature is not checked.
AuthenticateUnsigned(p) ==
    LET a == mem[p].art IN
    /\ At(p, "authenticate")
    /\ a = "workstation" => ~drift[p]
    /\ CASE a = "gateway" -> Proceed(p, "digest")
         [] OTHER -> Goto(p, "intend", [mem[p] EXCEPT !.archive = archive[BundleOf(a)],
                                                      !.disk = archive[BundleOf(a)]])
    /\ Touch({})
    /\ UNCHANGED <<archive, prepared, records, intents, roots, imported, scope, isos>>

\* A signature over the checksums, and the digest of the archive among them.
SignedSums == archive["kali"] = "release"

\* A signature over the archive itself, made for this release.
SignedBundle == archive["whonix"] = "release"

\* The Workstation checks the signature again, over the archive that the
\* provenance of the Gateway has bound.
Authenticate(p) ==
    LET a == mem[p].art IN
    /\ At(p, "authenticate")
    /\ IF a = "kali" THEN SignedSums ELSE SignedBundle
    /\ a = "workstation" => ~drift[p]
    /\ CASE a = "kali" -> Goto(p, "intend", [mem[p] EXCEPT !.archive = "release"])
         [] a = "gateway" -> Proceed(p, "digest")
         [] a = "workstation" ->
                Goto(p, "intend", [mem[p] EXCEPT !.archive = meta["gateway"].archive,
                                                 !.disk = meta["gateway"].disk])
    /\ Touch({})
    /\ UNCHANGED <<archive, prepared, records, intents, roots, imported, scope, isos>>

\* fetch_whonix_gateway digests the archive after its signature is verified.
DigestArchive(p) ==
    /\ At(p, "digest")
    /\ Goto(p, "intend", [mem[p] EXCEPT !.archive = archive["whonix"]])
    /\ Touch({})
    /\ UNCHANGED <<archive, prepared, records, intents, roots, imported, scope, isos>>

\* write_json_atomic: a temporary file, renamed.  The intent of a Workstation
\* names the root that it is about to create.
IntendTemp(p, r) ==
    LET a == mem[p].art IN
    /\ At(p, "intend")
    /\ roots[r] = NoRoot
    /\ \A q \in Proc : mem[q].root # r
    /\ intTemp' = [intTemp EXCEPT ![a] =
                       [root |-> IF a = "workstation" THEN r ELSE NoRoot]]
    /\ Goto(p, "intent", [mem[p] EXCEPT !.root = r])
    /\ Touch({})
    /\ UNCHANGED <<archive, prepared, records, intent, roots, imported, scope, isos>>

PublishIntent(p) ==
    LET a == mem[p].art IN
    /\ At(p, "intent")
    /\ intTemp[a] # NoFile
    /\ intent' = [intent EXCEPT ![a] = intTemp[a]]
    /\ intTemp' = [intTemp EXCEPT ![a] = NoFile]
    /\ Proceed(p, "root")
    /\ Touch({<<"intent", a>>})
    /\ UNCHANGED <<archive, prepared, records, roots, imported, scope, isos>>

\* create_extraction_root_at
NewRoot(a) == [of |-> a, fill |-> "empty", data |-> NoFile]

CreateRoot(p) ==
    LET r == mem[p].root IN
    /\ At(p, "root")
    /\ roots[r] = NoRoot
    /\ roots' = [roots EXCEPT ![r] = NewRoot(mem[p].art)]
    /\ Proceed(p, "extract")
    /\ Touch({Downloads, <<"root", r>>})
    /\ UNCHANGED <<archive, prepared, records, intents, imported, scope, isos>>

\* The Workstation drops its intent when that fails, also when the directory is
\* there and only its mode or its sync failed.  (Kali and Gateway just stop.)
CreateRootFails(p) ==
    LET r == mem[p].root IN
    /\ At(p, "root")
    /\ mem[p].art = "workstation"
    /\ roots[r] = NoRoot
    /\ roots' \in {roots, [roots EXCEPT ![r] = NewRoot("workstation")]}
    /\ Proceed(p, "clear_failed")
    /\ Touch(IF roots' = roots THEN {} ELSE {Downloads, <<"root", r>>})
    /\ UNCHANGED <<archive, prepared, records, intents, imported, scope, isos>>

\* The archive formats carry checksums: unpacking one that is being written
\* fails, after some of it is unpacked.
ExtractSome(p) ==
    LET r == mem[p].root IN
    /\ At(p, "extract")
    /\ roots[r] # NoRoot /\ roots[r].fill = "empty"
    /\ roots' = [roots EXCEPT ![r].fill = "some"]
    /\ Proceed(p, "extract")
    /\ Touch({<<"root", r>>})
    /\ UNCHANGED <<archive, prepared, records, intents, imported, scope, isos>>

ExtractAll(p) ==
    LET a == mem[p].art r == mem[p].root IN
    /\ At(p, "extract")
    /\ roots[r] # NoRoot /\ roots[r].fill = "some"
    /\ archive[BundleOf(a)] # "half"
    /\ a = "workstation" => ~drift[p]
    /\ roots' = [roots EXCEPT ![r].fill = "all", ![r].data = archive[BundleOf(a)]]
    /\ Proceed(p, "check")
    /\ Touch({<<"root", r>>})
    /\ UNCHANGED <<archive, prepared, records, intents, imported, scope, isos>>

\* Kali and Gateway digest the archive again.
ArchiveUnchanged(p) == archive[BundleOf(mem[p].art)] = mem[p].archive

\* The Workstation compares every member with the provenance of the Gateway.
SameBundle(p) == roots[mem[p].root].data = mem[p].disk /\ ~drift[p]

\* The layout and the digests of the members.
CheckExtracted(p) ==
    LET a == mem[p].art r == mem[p].root IN
    /\ At(p, "check")
    /\ roots[r] # NoRoot /\ roots[r].fill = "all"
    /\ IF a = "workstation" THEN SameBundle(p) ELSE ArchiveUnchanged(p)
    /\ Goto(p, "promote", [mem[p] EXCEPT !.disk = roots[r].data])
    /\ Touch({})
    /\ UNCHANGED <<archive, prepared, records, intents, roots, imported, scope, isos>>

\* Mutant: a rename, which replaces.
PromoteByRename(p) ==
    LET a == mem[p].art r == mem[p].root IN
    /\ At(p, "promote")
    /\ roots[r] # NoRoot /\ roots[r].fill = "all"
    /\ prepared' = [prepared EXCEPT ![a] = [data |-> roots[r].data, by |-> p]]
    /\ roots' = [roots EXCEPT ![r].fill = "some"]
    /\ Proceed(p, "verify")
    /\ Touch({<<"prepared", a>>, <<"root", r>>})
    /\ UNCHANGED <<archive, records, intents, imported, scope, isos>>

\* promote_without_overwrite, promote_verified_without_overwrite: a hard link,
\* which never replaces, and the removal of the source.
Promote(p) ==
    LET a == mem[p].art r == mem[p].root IN
    /\ At(p, "promote")
    /\ roots[r] # NoRoot /\ roots[r].fill = "all"
    /\ prepared[a] = NoFile
    /\ prepared' = [prepared EXCEPT ![a] = [data |-> roots[r].data, by |-> p]]
    /\ roots' = [roots EXCEPT ![r].fill = "some"]
    /\ Proceed(p, "verify")
    /\ Touch({<<"prepared", a>>, <<"root", r>>})
    /\ UNCHANGED <<archive, records, intents, imported, scope, isos>>

\* The published file is digested again, or found to be the inode extracted.
VerifyPromoted(p) ==
    LET a == mem[p].art IN
    /\ At(p, "verify")
    /\ prepared[a] # NoFile
    /\ IF a = "workstation" THEN prepared[a].by = p
                            ELSE prepared[a].data = mem[p].disk
    /\ Proceed(p, "cleanup")
    /\ Touch({})
    /\ UNCHANGED <<archive, prepared, records, intents, roots, imported, scope, isos>>

\* cleanup_extraction_root_for removes the tree, entry by entry.
ShrinkRoot(p) ==
    LET r == mem[p].root IN
    /\ pc[p] \in {"cleanup", "cleanup_failed"}
    /\ roots[r] # NoRoot /\ roots[r].fill = "all"
    /\ roots' = [roots EXCEPT ![r].fill = "some"]
    /\ Proceed(p, pc[p])
    /\ Touch({<<"root", r>>})
    /\ UNCHANGED <<archive, prepared, records, intents, imported, scope, isos>>

RemoveRoot(p) ==
    LET r == mem[p].root IN
    /\ pc[p] \in {"cleanup", "cleanup_failed"}
    /\ roots' = [roots EXCEPT ![r] = NoRoot]
    /\ Proceed(p, IF At(p, "cleanup") THEN "record" ELSE "clear_failed")
    /\ Touch(IF roots[r] # NoRoot THEN {Downloads, <<"root", r>>} ELSE {})
    /\ UNCHANGED <<archive, prepared, records, intents, imported, scope, isos>>

RecordTemp(p) ==
    LET a == mem[p].art IN
    /\ At(p, "record")
    /\ prepared[a] # NoFile
    /\ metaTemp' = [metaTemp EXCEPT ![a] =
                        [archive |-> mem[p].archive, disk |-> mem[p].disk]]
    /\ Proceed(p, "metadata")
    /\ Touch({})
    /\ UNCHANGED <<archive, prepared, meta, intents, roots, imported, scope, isos>>

PublishMetadata(p) ==
    LET a == mem[p].art IN
    /\ At(p, "metadata")
    /\ metaTemp[a] # NoFile
    /\ meta' = [meta EXCEPT ![a] = metaTemp[a]]
    /\ metaTemp' = [metaTemp EXCEPT ![a] = NoFile]
    /\ Proceed(p, "clear")
    /\ Touch({<<"meta", a>>})
    /\ UNCHANGED <<archive, prepared, intents, roots, imported, scope, isos>>

\* Nothing that the Workstation was made from has changed, and the file at its
\* place is the one that was promoted.
FinalInputsHold(p) ==
    /\ ~drift[p]
    /\ prepared["workstation"] # NoFile /\ prepared["workstation"].by = p
    /\ meta["workstation"] # NoFile

\* clear_..._intent removes the intent by its path, whoever wrote it.  A
\* Workstation is proven as it stands, provided nothing it was made from has
\* changed; the other images are proven again.
ClearIntent(p) ==
    LET a == mem[p].art IN
    /\ pc[p] \in {"clear", "clear_failed"}
    /\ intent' = [intent EXCEPT ![a] = NoFile]
    /\ IF At(p, "clear_failed") \/ ~mem[p].use
       THEN Proceed(p, "idle")
       ELSE IF a # "workstation"
            THEN Proceed(p, "prove")
            ELSE FinalInputsHold(p) /\ Proceed(p, "proved")
    /\ Touch({<<"intent", a>>})
    /\ UNCHANGED <<archive, prepared, records, intTemp, roots, imported, scope, isos>>

-----------------------------------------------------------------------------
(* Consuming *)

\* A create that finds the image on record proves it.
UseBegins(p, a) ==
    /\ Begins(p)
    /\ Recorded(a)
    /\ Goto(p, "prove", [Idle EXCEPT !.art = a, !.use = TRUE])
    /\ Touch({})
    /\ UNCHANGED <<archive, prepared, records, intents, roots, imported, scope, isos>>

\* The identities are captured before and after the bytes are read and must be
\* the same, so that the proof is one look at all of them.
Prove(p) ==
    LET a == mem[p].art IN
    /\ At(p, "prove")
    /\ Proven(a)
    /\ Goto(p, "proved", [mem[p] EXCEPT !.archive = meta[a].archive,
                                        !.disk = meta[a].disk])
    /\ drift' = [drift EXCEPT ![p] = FALSE]
    /\ UNCHANGED <<archive, prepared, records, intents, roots, imported, scope, isos>>

\* Mutant: the file is opened by its path, and not compared with the proof.
OpenSourceByPath(p) ==
    LET a == mem[p].art IN
    /\ At(p, "proved")
    /\ imported[a] = NoFile
    /\ prepared[a] # NoFile
    /\ Goto(p, "opened", [mem[p] EXCEPT !.archive = prepared[a].data])
    /\ Touch({})
    /\ UNCHANGED <<archive, prepared, records, intents, roots, imported, scope, isos>>

\* prove_prepared_base: the identities are still those captured.
StillProven(p) == ~drift[p]

\* After the operator has answered.  The descriptor stays bound to the file
\* that it opens.
OpenSource(p) ==
    LET a == mem[p].art IN
    /\ At(p, "proved")
    /\ StillProven(p)
    /\ imported[a] = NoFile
    /\ Goto(p, "opened", [mem[p] EXCEPT !.archive = prepared[a].data])
    /\ Touch({})
    /\ UNCHANGED <<archive, prepared, records, intents, roots, imported, scope, isos>>

Import(p) ==
    LET a == mem[p].art IN
    /\ At(p, "opened")
    /\ imported[a] = NoFile
    /\ imported' = [imported EXCEPT ![a] =
                        [data |-> mem[p].archive, proof |-> mem[p].disk]]
    /\ Proceed(p, "idle")
    /\ Touch({})
    /\ UNCHANGED <<archive, prepared, records, intents, roots, scope, isos>>

-----------------------------------------------------------------------------
(* forge image recover whonix-workstation *)

RecoverBegins(p, r) ==
    /\ Begins(p)
    /\ Recoverable(r)
    /\ Goto(p, "recover", [Idle EXCEPT !.art = "workstation", !.root = r])
    /\ Touch({})
    /\ UNCHANGED <<archive, prepared, records, intents, roots, imported, scope, isos>>

\* After the operator has answered: the same plan, on the same files.  The
\* entries go first.
RecoverEntries(p) ==
    LET r == mem[p].root IN
    /\ At(p, "recover")
    /\ Recoverable(r)
    /\ ~drift[p]
    /\ roots' = [roots EXCEPT ![r].fill = "some"]
    /\ Proceed(p, "recover_root")
    /\ Touch({<<"root", r>>})
    /\ UNCHANGED <<archive, prepared, records, intents, imported, scope, isos>>

RecoverRoot(p) ==
    LET r == mem[p].root IN
    /\ At(p, "recover_root")
    /\ roots[r] # NoRoot
    /\ roots' = [roots EXCEPT ![r] = NoRoot]
    /\ Proceed(p, "recover_intent")
    /\ Touch({Downloads, <<"root", r>>})
    /\ UNCHANGED <<archive, prepared, records, intents, imported, scope, isos>>

RecoverIntent(p) ==
    /\ At(p, "recover_intent")
    /\ intent' = [intent EXCEPT !["workstation"] = NoFile]
    /\ Proceed(p, "idle")
    /\ Touch({<<"intent", "workstation">>})
    /\ UNCHANGED <<archive, prepared, records, intTemp, roots, imported, scope, isos>>

-----------------------------------------------------------------------------
(* forge image fetch fedora-workstation.  Bound: two of them do not overlap. *)

IsoOnly == UNCHANGED <<archive, prepared, records, intents, roots, imported,
                          scope, drift>>

\* Verified metadata ends the fetch at once.  The signed checksums come first;
\* then a file at the final path is taken as it is, and one that an
\* interrupted download left is refused.
IsoBegins(p) ==
    /\ Begins(p)
    /\ alone /\ bundle = "fedora"
    /\ IsoState = "Missing"
    /\ iso # NoFile \/ isoPart = NoFile
    /\ Proceed(p, IF iso # NoFile THEN "iso_verify" ELSE "iso_download")
    /\ IsoOnly
    /\ UNCHANGED isos

IsoDownloadStarts(p) ==
    /\ At(p, "iso_download")
    /\ isoPart' = "half"
    /\ Proceed(p, "iso_downloading")
    /\ IsoOnly
    /\ UNCHANGED <<iso, isoProven>>

IsoDownloadEnds(p, data) ==
    /\ At(p, "iso_downloading")
    /\ data # "half"
    /\ isoPart' = data
    /\ Proceed(p, "iso_verify")
    /\ IsoOnly
    /\ UNCHANGED <<iso, isoProven>>

\* Digest and size of the candidate, wherever it is.
IsoVerify(p) ==
    /\ At(p, "iso_verify")
    /\ (IF iso # NoFile THEN iso ELSE isoPart) = "release"
    /\ Proceed(p, IF iso # NoFile THEN "iso_record" ELSE "iso_publish")
    /\ IsoOnly
    /\ UNCHANGED isos

IsoPublish(p) ==
    /\ At(p, "iso_publish")
    /\ iso = NoFile
    /\ iso' = isoPart
    /\ isoPart' = NoFile
    /\ Proceed(p, "iso_record")
    /\ IsoOnly
    /\ UNCHANGED isoProven

IsoRecord(p) ==
    /\ At(p, "iso_record")
    /\ isoProven' = TRUE
    /\ Proceed(p, "idle")
    /\ IsoOnly
    /\ UNCHANGED <<isoPart, iso>>

-----------------------------------------------------------------------------
(* The environment *)

\* Somebody moves another file over a prepared image.
Replace(a) ==
    /\ prepared[a] # NoFile
    /\ prepared[a].by # Operator
    /\ prepared' = [prepared EXCEPT ![a] = [data |-> "other", by |-> Operator]]
    /\ UNCHANGED <<archive, records, intents, roots, imported, scope, isos, process>>
    /\ Touch({<<"prepared", a>>})

\* An ISO that no metadata vouches for yet is replaced at its place.
IsoReplaced ==
    /\ bundle = "fedora"
    /\ iso = "release" /\ ~isoProven
    /\ \A p \in Proc : pc[p] = "idle"
    /\ iso' = "other"
    /\ UNCHANGED <<archive, prepared, records, intents, roots, imported, scope,
                   process, drift, isoPart, isoProven>>

Init ==
    /\ archive = [b \in Bundle |-> NoFile]
    /\ prepared = [a \in Artifact |-> NoFile]
    /\ meta = [a \in Artifact |-> NoFile]
    /\ metaTemp = [a \in Artifact |-> NoFile]
    /\ intent = [a \in Artifact |-> NoFile]
    /\ intTemp = [a \in Artifact |-> NoFile]
    /\ roots = [r \in Root |-> NoRoot]
    /\ imported = [a \in Artifact |-> NoFile]
    /\ alone \in BOOLEAN
    /\ bundle \in Bundle
    /\ pc = [p \in Proc |-> "idle"]
    /\ mem = [p \in Proc |-> Idle]
    /\ drift = [p \in Proc |-> FALSE]
    /\ isoPart = NoFile
    /\ iso = NoFile
    /\ isoProven = FALSE

FetchIso(p) ==
    \/ IsoBegins(p)
    \/ IsoDownloadStarts(p)
    \/ \E data \in Data : IsoDownloadEnds(p, data)
    \/ IsoVerify(p)
    \/ IsoPublish(p)
    \/ IsoRecord(p)

Fetch(p) ==
    \/ \E a \in Artifact, use \in BOOLEAN : FetchBegins(p, a, use)
    \/ DownloadStarts(p)
    \/ \E data \in Data : DownloadEnds(p, data)
    \/ Authenticate(p)
    \/ DigestArchive(p)
    \/ \E r \in Root : IntendTemp(p, r)
    \/ PublishIntent(p)
    \/ CreateRoot(p)
    \/ CreateRootFails(p)
    \/ ExtractSome(p)
    \/ ExtractAll(p)
    \/ CheckExtracted(p)
    \/ Promote(p)
    \/ VerifyPromoted(p)
    \/ ShrinkRoot(p)
    \/ RemoveRoot(p)
    \/ RecordTemp(p)
    \/ PublishMetadata(p)
    \/ ClearIntent(p)
    \/ Fail(p)

Use(p) ==
    \/ \E a \in Artifact : UseBegins(p, a)
    \/ Prove(p)
    \/ OpenSource(p)
    \/ Import(p)

Recover(p) ==
    \/ \E r \in Root : RecoverBegins(p, r)
    \/ RecoverEntries(p)
    \/ RecoverRoot(p)
    \/ RecoverIntent(p)

Next ==
    \/ \E p \in Proc : Fetch(p) \/ FetchIso(p) \/ Use(p) \/ Recover(p) \/ Stop(p)
    \/ \E a \in Artifact : Replace(a)
    \/ IsoReplaced

Spec == Init /\ [][Next]_vars

-----------------------------------------------------------------------------
(* Properties *)

\* Every file is absent or of the shape its reader expects.
ImageTypeOK ==
    /\ archive \in [Bundle -> Data \cup {NoFile}]
    /\ prepared \in [Artifact -> Image \cup {NoFile}]
    /\ meta \in [Artifact -> Metadata \cup {NoFile}]
    /\ metaTemp \in [Artifact -> Metadata \cup {NoFile}]
    /\ intent \in [Artifact -> Intent \cup {NoFile}]
    /\ intTemp \in [Artifact -> Intent \cup {NoFile}]
    /\ roots \in [Root -> Tree \cup {NoRoot}]
    /\ imported \in [Artifact -> [data : Data, proof : Data] \cup {NoFile}]
    /\ alone \in BOOLEAN
    /\ mem \in [Proc -> Memory]
    /\ drift \in [Proc -> BOOLEAN]
    /\ {isoPart, iso} \subseteq Data \cup {NoFile}
    /\ isoProven \in BOOLEAN

\* Commands run one after another, interrupted anywhere, beside an operator who
\* replaces prepared images: a base is only ever imported with the bytes that
\* the signed release holds, and an ISO only recorded when it is that release,
\* also when an interrupted fetch left it at its place before.
ImportedIsAuthentic ==
    alone => /\ \A a \in Artifact :
                    imported[a] # NoFile => imported[a].data = "release"
             /\ isoProven => iso = "release"

\* Beside any other command, and whatever file is moved to the path between
\* the proof, the prompt, the open and the import: the bytes imported are those
\* whose digest the proof has compared.
ImportedWasProven ==
    \A a \in Artifact :
        imported[a] # NoFile => imported[a].data = imported[a].proof

Unpacked(r) == roots[r] # NoRoot /\ roots[r].fill # "empty"

\* Commands run one after another: an extraction root that anything was
\* unpacked into, up to a hundred gigabytes, is on disk only beside an intent,
\* and that of a Workstation is the one which its intent names.  (A root whose
\* creation failed may stay behind empty.)
RootsAreCovered ==
    alone => \A r \in Root : Unpacked(r) =>
                 LET a == roots[r].of IN
                 /\ intent[a] # NoFile
                 /\ a = "workstation" => intent[a].root = r

\* A prepared image, once published, is never overwritten by forge, whichever
\* commands overlap.
NeverOverwritten ==
    [][\A a \in Artifact :
          prepared[a] # NoFile /\ prepared'[a] # prepared[a] =>
              prepared'[a] # NoFile /\ prepared'[a].by = Operator]_vars

\* The user guide: the public recovery of an interrupted Workstation
\* preparation is forge image recover whonix-workstation.
InterruptedIsRecoverable ==
    (alone /\ intent["workstation"] # NoFile /\ \A p \in Proc : pc[p] = "idle")
        => \E r \in Root : Recoverable(r)

\* fetch_whonix_gateway: "from the authenticated Whonix bundle", also when two
\* of them overlap.
PublishedIsAuthentic ==
    \A a \in Artifact : meta[a] # NoFile => meta[a].archive = "release"
=============================================================================
