--------------------------- MODULE InstancePlanning ---------------------------
(***************************************************************************)
(* The road of a new instance from its profile to the execute boundary:    *)
(* "forge vm plan", "forge vm create" and "forge vm clone"                 *)
(* (crates/forge-cli/src/main.rs) over the catalog and the resource        *)
(* planner of crates/forge-profiles, the domain specification of           *)
(* crates/forge-domain, the links of crates/forge-core and the             *)
(* classification of the shared base in crates/forge-storage.              *)
(*                                                                         *)
(* One command plans, proves its sources, waits for a prompt or for hours  *)
(* of image work, and looks again at everything before the first mutation, *)
(* while other commands and the operator change the host.  What happens    *)
(* after the boundary is the business of InitialCreate.                    *)
(*                                                                         *)
(* Memory is in MiB and disks are in GiB.                                  *)
(***************************************************************************)
EXTENDS Integers, FiniteSets

CONSTANTS
    Host,        \* hardware: records of logical cores and memory
    Size,        \* the virtual size of the prepared disk of each source
    Name,        \* names an operator gives to instances
    MaxChanges   \* bound: changes of the host around one command

Hardware == [cores : Nat, memory : Nat]

ASSUME HostAssumption == Host \subseteq Hardware
ASSUME BoundAssumption == MaxChanges \in Nat

-----------------------------------------------------------------------------
(* The catalog *)

GiB == 1024
Step == 256

\* Ratios are per mille of the host, whatever it can spare.
Policy(cpu, minCpu, maxCpu, start, most, least, reserve, disk) ==
    [cpu |-> cpu, minCpu |-> minCpu, maxCpu |-> maxCpu, start |-> start,
     most |-> most, least |-> least * GiB, reserve |-> reserve * GiB,
     disk |-> disk]

Product(resources, source, check, network) ==
    [resources |-> resources, source |-> source, check |-> check,
     network |-> network]

WhonixGateway ==
    Product(Policy(0, 1, 1, 0, 0, 2, 2, 100), "whonix", "openpgp", "gateway")

WhonixWorkstation ==
    Product(Policy(0, 1, 1, 0, 0, 2, 2, 100),
            "whonix", "openpgp", "workstation")

KaliLab ==
    Product(Policy(250, 2, 4, 125, 250, 2, 2, 86), "kali", "signedSums", "nat")

FedoraWorkstation ==
    Product(Policy(250, 2, 8, 250, 375, 4, 4, 80), "promoted", "digest", "nat")

FedoraLab ==
    Product(Policy(250, 1, 4, 200, 250, 2, 2, 64), "cloud", "sums", "nat")

LunaDev ==
    Product(Policy(500, 2, 16, 375, 500, 4, 2, 160), "cloud", "sums", "nat")

LunaLab ==
    Product(Policy(250, 2, 8, 250, 375, 4, 2, 96), "cloud", "sums", "nat")

\* Kinds are named after the profile identifiers.
Catalog ==
    [gateway |-> WhonixGateway, workstation |-> WhonixWorkstation,
     kali |-> KaliLab, fedora |-> FedoraWorkstation, fedoraLab |-> FedoraLab,
     lunaDev |-> LunaDev, lunaLab |-> LunaLab]

Kind == DOMAIN Catalog

Retired(k) == Catalog[k].source = "cloud"

\* Name of the shared base: one for each source, two for the Whonix bundle.
BaseName(k) == IF k = "workstation" THEN "whonix-workstation"
                                    ELSE Catalog[k].source

\* The profiles that can be created have prepared artifacts of their own.
Artifact == {k \in Kind : ~Retired(k)}

Link ==
    [gateway     |-> [pair |-> "main", end |-> "gateway", local |-> 6688,
                      remote |-> 5577],
     workstation |-> [pair |-> "main", end |-> "workstation", local |-> 5577,
                      remote |-> 6688]]

UsableLink(l) == l.local # 0 /\ l.remote # 0 /\ l.local # l.remote

Complementary(l, m) ==
    /\ UsableLink(l) /\ UsableLink(m)
    /\ l.pair = m.pair /\ l.end # m.end
    /\ l.local = m.remote /\ l.remote = m.local

-----------------------------------------------------------------------------
(* Resources and the domain *)

AtLeast(x, y) == IF x < y THEN y ELSE x
AtMost(x, y)  == IF x < y THEN x ELSE y

Ratio(value, perMille) == (value * perMille) \div 1000

AvailableWithReserve(h, p) == h.memory

Available(h, p) == AtLeast(h.memory - p.reserve, 0)

Satisfies(h, p) == h.cores >= p.minCpu /\ Available(h, p) >= p.least

Resources(h, p) ==
    LET most == AtMost(AtLeast(Ratio(h.memory, p.most), p.least),
                       Available(h, p))
    IN [vcpus |-> AtMost(AtMost(AtLeast(Ratio(h.cores, p.cpu), p.minCpu),
                                p.maxCpu), h.cores),
        start |-> AtMost(AtLeast(Ratio(h.memory, p.start), p.least), most),
        most  |-> most,
        disk  |-> p.disk]

RoundDown(memory) == memory - (memory % Step)

Interfaces(k) ==
    CASE Catalog[k].network = "nat"         -> {"nat"}
      [] Catalog[k].network = "gateway"     -> {"passt", "udp"}
      [] Catalog[k].network = "workstation" -> {"udp"}

DomainSpecUnrounded(k, r) ==
    [vcpus |-> r.vcpus, start |-> r.start, most |-> r.most, disk |-> r.disk,
     interfaces |-> Interfaces(k)]

DomainSpec(k, r) ==
    [vcpus |-> r.vcpus, start |-> RoundDown(r.start),
     most |-> RoundDown(r.most), disk |-> r.disk,
     interfaces |-> Interfaces(k)]

ValidSpec(k, s) ==
    /\ s.vcpus > 0 /\ s.start > 0 /\ s.most > 0 /\ s.disk > 0
    /\ s.start <= s.most
    /\ s.start % Step = 0 /\ s.most % Step = 0
    /\ s.interfaces = Interfaces(k)
    /\ k \in DOMAIN Link => Link[k].end = k /\ UsableLink(Link[k])

\* How the base of a planned instance is prepared.
Preparation(k) ==
    CASE Catalog[k].source = "kali"     -> "sevenZip"
      [] Catalog[k].source = "whonix"   ->
            IF k = "workstation" THEN "bundleWorkstation" ELSE "bundleGateway"
      [] Catalog[k].source = "promoted" -> "canonical"
      [] OTHER                          -> "verifiedQcow2"

\* Source, verification, preparation and base name belong together.
Coherent(k) ==
    <<Catalog[k].source, Catalog[k].check, Preparation(k), BaseName(k)>> \in
        {<<"kali", "signedSums", "sevenZip", "kali">>,
         <<"promoted", "digest", "canonical", "promoted">>,
         <<"whonix", "openpgp", "bundleGateway", "whonix">>,
         <<"whonix", "openpgp", "bundleWorkstation", "whonix-workstation">>}

-----------------------------------------------------------------------------
(* The profile that later commands bind an instance to *)

\* The base is "none" for a flat clone.  A name of the catalog decides.
Candidates(name, volume) ==
    CASE name \in Kind    -> {name}
      [] volume = "none"  -> {"kali"}
      [] OTHER            -> {k \in Kind : BaseName(k) = volume}

BoundToAnySize(name, volume, disk) ==
    {k \in Candidates(name, volume) :
        /\ Cardinality(Candidates(name, volume)) = 1
        /\ volume # "none" => BaseName(k) = volume}

BoundTo(name, volume, disk) ==
    {k \in Candidates(name, volume) :
        /\ Cardinality(Candidates(name, volume)) = 1
        /\ Catalog[k].resources.disk = disk
        /\ volume # "none" => BaseName(k) = volume}

-----------------------------------------------------------------------------
VARIABLES
    host,     \* the hardware
    network,  \* whether the default network is active
    taken,    \* whether the target has durable state, a domain or an overlay
    pool,     \* whether the pool is active, and its room
    gateway,  \* generation of whonix-gateway, 0 without one; is it Consistent
    image,    \* which preparation of each artifact exists, 0 for none
    base,     \* each shared base: absent, proven by a consumer, or unproven
    origin,   \* the clone source: its generation, and whether it is shut off
    changes,  \* changes of all this so far
    pc,       \* the next step of the command
    request,  \* what it was asked for
    plan,     \* its resource plan
    source,   \* the files (or the clone source) it has proven
    pair,     \* its snapshot of the Whonix pair
    spec      \* the domain it will define

outside == <<host, network, taken, pool, gateway, image, base, origin, changes>>
results == <<request, plan, source, pair, spec>>
vars    == <<outside, pc, results>>

\* A pool without room, with room for some profiles only, and with plenty.
Room == {0, 85, 200}

Nothing == [vcpus |-> 0, start |-> 0, most |-> 0, disk |-> 0]
NoPair  == [generation |-> 0, bundle |-> 0]

Init ==
    /\ host \in Host
    /\ network = TRUE /\ taken = FALSE
    /\ pool = [active |-> TRUE, room |-> 200]
    /\ gateway \in {[generation |-> g, settled |-> g = 1] : g \in 0 .. 1}
    /\ \E prepared \in 0 .. 1 : image = [a \in Artifact |-> prepared]
    /\ \E b \in {"absent", "proven"} : base = [a \in Artifact |-> b]
    /\ origin = [generation |-> 1, off |-> TRUE]
    /\ changes = 0 /\ pc = "idle"
    /\ request = [kind |-> "kali", name |-> "free", clone |-> FALSE]
    /\ plan = Nothing /\ source = <<>> /\ pair = NoPair /\ spec = Nothing

-----------------------------------------------------------------------------
(* Observations *)

Profile == Catalog[request.kind]

\* The canonical volume of a promoted Workstation preparation.
Promoted == image["fedora"] # 0 /\ base["fedora"] = "proven"

\* The prepared image passes its own verification.  The Workstation disk must
\* come from the bundle of the Gateway image.
Verified(k) ==
    CASE k = "fedora"      -> Promoted
      [] k = "workstation" -> image[k] # 0 /\ image["gateway"] = image[k]
      [] OTHER             -> image[k] # 0

\* The files whose identity a proof captures.
Inputs(k) == IF k = "workstation" THEN {"gateway", "workstation"} ELSE {k}

Proof(k) == [a \in Inputs(k) |-> image[a]]

Cloneable == origin.generation # 0 /\ origin.off

OriginProof == [a \in {"origin"} |-> origin.generation]

PairEvidence ==
    /\ gateway.generation # 0 /\ gateway.settled
    /\ image["gateway"] # 0
    /\ Complementary(Link["gateway"], Link["workstation"])

Snapshot == [generation |-> gateway.generation, bundle |-> image["gateway"]]

SnapshotSameBundle == pair.bundle = Snapshot.bundle

SnapshotUnchanged == pair = Snapshot

TargetsFree == ~taken /\ (Profile.network = "nat" => network)

\* An absent base will be imported, a present one needs a durable consumer.
BaseUsable(k) == base[k] # "unproven"

-----------------------------------------------------------------------------
(* The command *)

\* One step of the command: on to the next, or the end of it.
Advance(from, ok, to) == pc = from /\ pc' = IF ok THEN to ELSE "refused"

\* The catalog, the retirement of the cloud products and the canonical names
\* are checked before the prompt of a create.
RequestCreate(k, n) ==
    /\ pc = "idle" /\ pc' = "plan"
    /\ ~Retired(k)
    /\ k \in {"gateway", "workstation"} => n = k
    /\ request' = [kind |-> k, name |-> n, clone |-> FALSE]
    /\ UNCHANGED <<outside, plan, source, pair, spec>>

\* A clone proves its source first.
RequestClone(n) ==
    /\ pc = "idle" /\ pc' = "plan"
    /\ Cloneable /\ ~taken
    /\ request' = [kind |-> "kali", name |-> n, clone |-> TRUE]
    /\ source' = OriginProof
    /\ UNCHANGED <<outside, plan, pair, spec>>

\* plan_instance and plan_create: nothing but the hardware is read.
Plan ==
    /\ Advance("plan", Satisfies(host, Profile.resources),
               IF request.clone THEN "define" ELSE "preflight")
    /\ plan' = IF Satisfies(host, Profile.resources)
               THEN Resources(host, Profile.resources) ELSE plan
    /\ UNCHANGED <<outside, request, source, pair, spec>>

Preflight ==
    /\ Advance("preflight", TargetsFree, "acquire")
    /\ UNCHANGED <<outside, results>>

\* The Workstation needs the Gateway image, the promoted base must exist, and
\* whatever else is missing is fetched.
Acquirable(k) ==
    /\ Coherent(k)
    /\ CASE k = "fedora"      -> Promoted
         [] k = "workstation" -> /\ image["gateway"] # 0
                                 /\ image[k] # 0 => Verified(k)
         [] OTHER             -> TRUE

Acquire ==
    LET k == request.kind
        fetched == IF k = "workstation" THEN image["gateway"] ELSE 1
    IN /\ Advance("acquire", Acquirable(k),
                  IF k = "workstation" THEN "pair" ELSE "define")
       /\ IF Acquirable(k)
          THEN /\ image' = [image EXCEPT ![k] = IF @ = 0 THEN fetched ELSE @]
               /\ source' = [a \in Inputs(k) |-> image'[a]]
          ELSE UNCHANGED <<image, source>>
       /\ UNCHANGED <<host, network, taken, pool, gateway, base, origin,
                      changes, request, plan, pair, spec>>

TakeSnapshot ==
    /\ Advance("pair", PairEvidence, "recheck")
    /\ pair' = IF PairEvidence THEN Snapshot ELSE pair
    /\ UNCHANGED <<outside, request, plan, source, spec>>

WorkstationFree == ~taken

RecheckPair ==
    /\ Advance("recheck", PairEvidence /\ SnapshotUnchanged /\ WorkstationFree,
               "define")
    /\ UNCHANGED <<outside, results>>

Define ==
    LET k == request.kind
        ok == Size[k] <= plan.disk /\ ValidSpec(k, DomainSpec(k, plan))
    IN /\ ~request.clone
       /\ Advance("define", ok, "boundary")
       /\ spec' = IF ok THEN DomainSpec(k, plan) ELSE spec
       /\ UNCHANGED <<outside, request, plan, source, pair>>

\* A clone has no capacity check of its own: its source is of its profile.
DefineClone ==
    LET ok == ValidSpec("kali", DomainSpec("kali", plan)) /\ ~taken
    IN /\ request.clone
       /\ Advance("define", ok, "boundary")
       /\ spec' = IF ok THEN DomainSpec("kali", plan) ELSE spec
       /\ UNCHANGED <<outside, request, plan, source, pair>>

SourcesCurrent ==
    IF request.clone
    THEN Cloneable /\ source = OriginProof
    ELSE source = Proof(request.kind)

BoundaryHoldsUnproven ==
    /\ request.kind = "workstation" => PairEvidence /\ SnapshotUnchanged
    /\ TargetsFree
    /\ pool.active /\ pool.room >= plan.disk
    /\ SourcesCurrent
    /\ request.kind = "fedora" => Promoted

\* revalidate_targets: the last look before the first mutation.
BoundaryHolds ==
    /\ request.kind = "workstation" => PairEvidence /\ SnapshotUnchanged
    /\ TargetsFree
    /\ pool.active /\ pool.room >= plan.disk
    /\ SourcesCurrent
    /\ request.kind = "fedora" => Promoted
    /\ ~request.clone => BaseUsable(request.kind)

Boundary ==
    /\ Advance("boundary", BoundaryHolds, "accepted")
    /\ UNCHANGED <<outside, results>>

\* The prompt is answered with no, or the command is interrupted.
Stop ==
    /\ pc \notin {"idle", "accepted", "refused", "stopped"}
    /\ pc' = "stopped"
    /\ UNCHANGED <<outside, results>>

Command == \/ Plan \/ Preflight \/ Acquire \/ TakeSnapshot \/ RecheckPair
           \/ Define \/ DefineClone \/ Boundary

-----------------------------------------------------------------------------
(* Everybody else: other commands, the operator, libvirt *)

Stamp == changes + 2

Change ==
    /\ pc \notin {"accepted", "refused", "stopped"}
    /\ changes < MaxChanges
    /\ changes' = changes + 1
    /\ UNCHANGED <<host, pc, results>>

NetworkChanges ==
    /\ Change /\ network' = ~network
    /\ UNCHANGED <<taken, pool, gateway, image, base, origin>>

TargetChanges ==
    /\ Change /\ taken' = ~taken
    /\ UNCHANGED <<network, pool, gateway, image, base, origin>>

PoolChanges ==
    /\ Change
    /\ \/ pool' = [pool EXCEPT !.active = ~@]
       \/ \E room \in Room \ {pool.room} : pool' = [pool EXCEPT !.room = room]
    /\ UNCHANGED <<network, taken, gateway, image, base, origin>>

\* A boundary opens or closes, or the instance is deleted or created anew.
GatewayChanges ==
    /\ Change
    /\ \/ /\ gateway.generation # 0
          /\ gateway' = [gateway EXCEPT !.settled = ~@]
       \/ gateway' = [generation |-> Stamp, settled |-> TRUE]
       \/ /\ gateway.generation # 0
          /\ gateway' = [generation |-> 0, settled |-> FALSE]
    /\ UNCHANGED <<network, taken, pool, image, base, origin>>

\* An image is removed or prepared again, the Workstation disk from the
\* bundle of the Gateway image.
ImageChanges ==
    /\ Change
    /\ \E a \in Artifact :
          LET again == IF a = "workstation" THEN image["gateway"] ELSE Stamp
          IN \E v \in {0, again} \ {image[a]} :
                image' = [image EXCEPT ![a] = v]
    /\ UNCHANGED <<network, taken, pool, gateway, base, origin>>

BaseChanges ==
    /\ Change
    /\ \E a \in Artifact, b \in {"absent", "proven", "unproven"} :
          b # base[a] /\ base' = [base EXCEPT ![a] = b]
    /\ UNCHANGED <<network, taken, pool, gateway, image, origin>>

\* The clone source is started or stopped, or replaced by a Fresh.
OriginChanges ==
    /\ Change
    /\ \/ origin' = [origin EXCEPT !.off = ~@]
       \/ origin' = [generation |-> Stamp, off |-> TRUE]
    /\ UNCHANGED <<network, taken, pool, gateway, image, base>>

Ask == \/ \E k \in Kind, n \in Name : RequestCreate(k, n)
       \/ \E n \in Name : RequestClone(n)

Outside == \/ NetworkChanges \/ TargetChanges \/ PoolChanges \/ GatewayChanges
           \/ ImageChanges \/ BaseChanges \/ OriginChanges

Next == Ask \/ Command \/ Stop \/ Outside

PlanningSpec == Init /\ [][Next]_vars

\* A command that was started runs: each of its steps is taken unless it is
\* stopped.
FairPlanningSpec == PlanningSpec /\ WF_vars(Command)

-----------------------------------------------------------------------------
(* The previews *)

\* forge vm plan: no pair, no pool, and only the promoted base is looked at.
VmPlanAccepts ==
    /\ Satisfies(host, Profile.resources)
    /\ LET r == Resources(host, Profile.resources)
       IN ValidSpec(request.kind, DomainSpec(request.kind, r))
    /\ request.kind = "fedora" => Promoted

\* An absent base needs no image, a present one a verified image and a proof.
DryRunBase(k) ==
    /\ pool.active
    /\ k = "fedora" \/ base[k] # "absent" => Verified(k) /\ BaseUsable(k)

\* forge vm create --dry-run: neither targets nor room nor network.
DryRunAccepts ==
    /\ VmPlanAccepts
    /\ request.kind = "workstation" => PairEvidence
    /\ DryRunBase(request.kind)

-----------------------------------------------------------------------------
(* Properties *)

\* A domain that reaches the boundary keeps within its profile and leaves the
\* reserve of its profile to the host, after all clamping and rounding.
PlanFits ==
    pc \in {"boundary", "accepted"} =>
        LET p == Profile.resources
        IN /\ spec.vcpus \in p.minCpu .. p.maxCpu
           /\ spec.vcpus <= host.cores
           /\ p.least <= spec.start /\ spec.start <= spec.most
           /\ spec.most + p.reserve <= host.memory

Accepts == pc # "accepted" /\ pc' = "accepted"

\* Whatever changed in the hours since the proofs, the boundary lets a create
\* pass only with the very files it proved and with the very Gateway whose
\* pair it checked, Consistent still and of the bundle of the Workstation disk,
\* and a clone only with its source shut off and on the generation it proved.
AcceptedIsCurrent ==
    [][Accepts => /\ \A a \in DOMAIN source \cap Artifact :
                          source[a] = image[a]
                  /\ request.kind = "workstation" =>
                        /\ pair.generation = gateway.generation
                        /\ gateway.settled
                        /\ pair.bundle = source["workstation"]
                  /\ request.clone =>
                        /\ origin.off
                        /\ source["origin"] = origin.generation]_vars

\* The previews never refuse what a create is allowed to do at that moment.
\* (The converse fails: they look at neither targets, nor network, nor room.)
AcceptedWasPreviewable ==
    [][Accepts /\ ~request.clone => VmPlanAccepts /\ DryRunAccepts]_vars

\* The name of the base that is recorded for an accepted instance.
RecordedBase == IF request.clone THEN "none" ELSE BaseName(request.kind)

\* Later commands find the profile of an instance from its name or from its
\* recorded base: never another profile than the one it was created from.
NeverMisbound ==
    pc = "accepted" =>
        BoundTo(request.name, RecordedBase, spec.disk) \subseteq {request.kind}

\* Profile resolution uses durable ownership and never the name: an accepted
\* instance binds back to its profile, whatever it is called.
BindingIgnoresName ==
    pc = "accepted" =>
        BoundTo(request.name, RecordedBase, spec.disk) = {request.kind}

\* A host on which a request has every reason to succeed.
Adequate ==
    LET k == request.kind
        p == Profile.resources
    IN /\ host.cores >= p.minCpu /\ host.memory >= p.reserve + p.least
       /\ ~taken /\ network
       /\ pool.active /\ pool.room >= p.disk
       /\ IF request.clone THEN Cloneable ELSE BaseUsable(k)
       /\ ~request.clone /\ k = "fedora" => Promoted
       /\ ~request.clone /\ k = "workstation" =>
             /\ gateway.generation # 0 /\ gateway.settled
             /\ image["gateway"] # 0 /\ image[k] \in {0, image["gateway"]}

\* The catalog, the planner, the domain rules and the two looks at the host
\* never contradict each other: on an adequate host that nobody disturbs, a
\* request that is not stopped reaches the boundary and passes it.
UndisturbedIsAccepted ==
    (pc = "plan" /\ changes = 0 /\ Adequate)
        ~> (pc \in {"accepted", "stopped"} \/ changes # 0)
=============================================================================
