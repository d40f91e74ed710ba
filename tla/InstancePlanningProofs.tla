------------------------ MODULE InstancePlanningProofs ------------------------
(***************************************************************************)
(* Proofs about InstancePlanning, for every set of hardware, every disk    *)
(* size, every set of names and any number of changes around the command:  *)
(*                                                                         *)
(*   PlanningInvariant   what a command knows at each of its steps,        *)
(*   PlansFit            PlanFits, the arithmetic of the resource planner, *)
(*   NeverBoundToOther   NeverMisbound,                                    *)
(*   AcceptsWhatItProved AcceptedIsCurrent,                                *)
(*   PreviewsAgree       AcceptedWasPreviewable.                           *)
(*                                                                         *)
(* What the host looks like at the boundary follows from the last look;    *)
(* what the plan, the files and the pair are worth there follows from      *)
(* PlanningInv, which carries the earlier looks over every change.         *)
(***************************************************************************)
EXTENDS InstancePlanning, TLAPS

-----------------------------------------------------------------------------
(* The resource planner *)

\* What the planner relies on in a policy of the catalog.
SoundPolicy(p) ==
    /\ p.cpu \in Nat /\ p.start \in Nat /\ p.most \in Nat /\ p.disk \in Nat
    /\ p.minCpu \in Nat /\ p.maxCpu \in Nat /\ p.minCpu <= p.maxCpu
    /\ p.reserve \in Nat
    /\ p.least \in Nat \ {0} /\ p.least % Step = 0

\* Every profile of the catalog has such a policy.
LEMMA CatalogPolicies ==
    ASSUME NEW k \in Kind
    PROVE  SoundPolicy(Catalog[k].resources)
BY DEF Kind, Catalog, SoundPolicy, Product, Policy, WhonixGateway,
       WhonixWorkstation, KaliLab, FedoraWorkstation, FedoraLab, LunaDev,
       LunaLab, GiB, Step

\* A ratio of a natural number is one.
LEMMA RatioIsNat ==
    ASSUME NEW value \in Nat, NEW perMille \in Nat
    PROVE  Ratio(value, perMille) \in Nat
<1>1. value * perMille \in Nat
  OBVIOUS
<1>2. ASSUME NEW n \in Nat PROVE n \div 1000 \in Nat
  OBVIOUS
<1> QED
  BY <1>1, <1>2 DEF Ratio

\* Rounding to a whole step never crosses a whole step.
LEMMA RoundDownFacts ==
    ASSUME NEW x \in Nat
    PROVE  /\ RoundDown(x) \in Nat
           /\ RoundDown(x) <= x
           /\ \A y \in Nat : y % Step = 0 /\ y <= x => y <= RoundDown(x)
           /\ \A y \in Nat : x <= y => RoundDown(x) <= RoundDown(y)
BY DEF RoundDown, Step

\* On hardware that satisfies a policy, all the clamping ends in a plan within
\* the policy that leaves its reserve to the host, also after rounding.
LEMMA ResourcesFit ==
    ASSUME NEW h \in Hardware, NEW p, SoundPolicy(p), Satisfies(h, p)
    PROVE  LET r == Resources(h, p)
           IN /\ r.vcpus \in p.minCpu .. p.maxCpu /\ r.vcpus <= h.cores
              /\ r.start \in Nat /\ r.most \in Nat
              /\ p.least <= RoundDown(r.start)
              /\ RoundDown(r.start) <= RoundDown(r.most)
              /\ RoundDown(r.most) + p.reserve <= h.memory
<1> DEFINE r == Resources(h, p)
<1>1. h.cores \in Nat /\ h.memory \in Nat
  BY DEF Hardware
<1>2. /\ Ratio(h.cores, p.cpu) \in Nat
      /\ Ratio(h.memory, p.start) \in Nat
      /\ Ratio(h.memory, p.most) \in Nat
  BY <1>1, RatioIsNat DEF SoundPolicy
<1>3. r.vcpus \in p.minCpu .. p.maxCpu /\ r.vcpus <= h.cores
  BY <1>1, <1>2 DEF SoundPolicy, Satisfies, Resources, AtLeast, AtMost
<1>4. /\ r.start \in Nat /\ r.most \in Nat
      /\ p.least <= r.start /\ r.start <= r.most
      /\ r.most + p.reserve <= h.memory
  <2>1. Available(h, p) \in Nat /\ p.least <= Available(h, p)
    BY <1>1 DEF Available, AtLeast, SoundPolicy, Satisfies
  <2>2. Available(h, p) = 0 \/ Available(h, p) + p.reserve = h.memory
    BY <1>1 DEF Available, AtLeast, SoundPolicy
  <2>3. Available(h, p) # 0 /\ r.most <= Available(h, p)
    BY <1>1, <1>2, <2>1 DEF SoundPolicy, Resources, AtLeast, AtMost
  <2>4. r.most \in Nat /\ p.least <= r.most
    BY <1>1, <1>2, <2>1 DEF SoundPolicy, Resources, AtLeast, AtMost
  <2>5. r.start \in Nat /\ p.least <= r.start /\ r.start <= r.most
    BY <1>1, <1>2, <2>1, <2>4 DEF SoundPolicy, Resources, AtLeast, AtMost
  <2>6. r.most + p.reserve <= h.memory
    BY <1>1, <2>1, <2>2, <2>3, <2>4 DEF SoundPolicy
  <2> QED
    BY <2>4, <2>5, <2>6
<1>5. p.least <= RoundDown(r.start)
  BY <1>4, RoundDownFacts DEF SoundPolicy
<1>6. RoundDown(r.start) <= RoundDown(r.most)
  BY <1>4, RoundDownFacts
<1>7. RoundDown(r.most) + p.reserve <= h.memory
  <2>1. RoundDown(r.most) \in Nat /\ RoundDown(r.most) <= r.most
    BY <1>4, RoundDownFacts
  <2> HIDE DEF r
  <2> QED
    BY <1>1, <1>4, <2>1 DEF SoundPolicy
<1> QED
  BY <1>3, <1>4, <1>5, <1>6, <1>7

-----------------------------------------------------------------------------
(* What a command knows at each of its steps *)

Request == [kind : Artifact, name : Name \cup {"free"}, clone : BOOLEAN]

PlanningTypeOK ==
    /\ host \in Hardware
    /\ request \in Request
    /\ image \in [Artifact -> Nat]
    /\ gateway \in [generation : Nat, settled : BOOLEAN]
    /\ changes \in Nat

\* The steps after plan_create or plan_instance, and after the images.
Planned == {"preflight", "acquire", "pair", "recheck", "define", "boundary",
            "accepted"}
Acquired == {"pair", "recheck", "define", "boundary", "accepted"}

\* The plan is the one of the profile for this very hardware.
PlanKnown ==
    /\ Satisfies(host, Profile.resources)
    /\ plan = Resources(host, Profile.resources)

\* The proven files were all there, the two of a Whonix bundle from the same.
SourcesKnown ==
    /\ source \in [Inputs(request.kind) -> Nat \ {0}]
    /\ request.kind = "workstation" =>
          source["gateway"] = source["workstation"]

SpecKnown ==
    /\ spec = DomainSpec(request.kind, plan)
    /\ ValidSpec(request.kind, spec)

PlanningInv ==
    /\ PlanningTypeOK
    /\ request.clone => request.kind = "kali"
    /\ pc \in Planned => PlanKnown
    /\ pc \in Acquired /\ ~request.clone => SourcesKnown
    /\ pc \in {"boundary", "accepted"} => SpecKnown

LEMMA ArtifactKinds ==
    /\ Artifact = {"gateway", "workstation", "kali", "fedora"}
    /\ Kind = {"gateway", "workstation", "kali", "fedora", "fedoraLab",
               "lunaDev", "lunaLab"}
BY DEF Artifact, Kind, Retired, Catalog, Product, Policy, WhonixGateway,
       WhonixWorkstation, KaliLab, FedoraWorkstation, FedoraLab, LunaDev,
       LunaLab

LEMMA InputsAreArtifacts ==
    ASSUME NEW k \in Artifact
    PROVE  Inputs(k) \subseteq Artifact /\ k \in Inputs(k)
BY ArtifactKinds DEF Inputs

LEMMA PlanningInvInit == Init => PlanningInv
<1> SUFFICES ASSUME Init PROVE PlanningInv
  OBVIOUS
<1>1. PlanningTypeOK
  <2>1. host \in Hardware
    BY HostAssumption DEF Init
  <2>2. request \in Request /\ image \in [Artifact -> Nat]
    BY ArtifactKinds DEF Init, Request
  <2>3. changes \in Nat
    BY DEF Init
  <2>4. gateway \in [generation : Nat, settled : BOOLEAN]
    <3>1. PICK g \in 0 .. 1 : gateway = [generation |-> g, settled |-> g = 1]
      BY DEF Init
    <3>2. (g = 1) \in BOOLEAN
      OBVIOUS
    <3> QED
      BY <3>1, <3>2
  <2> QED
    BY <2>1, <2>2, <2>3, <2>4 DEF PlanningTypeOK
<1> QED
  BY <1>1 DEF Init, PlanningInv, Planned, Acquired

\* What the command knows is its own: nothing that changes around it reaches
\* it.
LEMMA OutsideKeepsInv ==
    ASSUME PlanningInv, UNCHANGED <<host, pc, results>>, PlanningTypeOK'
    PROVE  PlanningInv'
BY DEF PlanningInv, PlanKnown, SourcesKnown, SpecKnown, results, Profile

LEMMA OutsideTypes ==
    ASSUME PlanningTypeOK, Outside
    PROVE  PlanningTypeOK' /\ UNCHANGED <<host, pc, results>>
<1>1. Change
  BY DEF Outside, NetworkChanges, TargetChanges, PoolChanges, GatewayChanges,
         ImageChanges, BaseChanges, OriginChanges
<1>2. changes' \in Nat /\ UNCHANGED <<host, pc, results>>
  BY <1>1 DEF Change, PlanningTypeOK
<1>3. request' \in Request /\ host' \in Hardware
  BY <1>2 DEF results, PlanningTypeOK
<1>4. Stamp \in Nat
  BY DEF Stamp, PlanningTypeOK
<1>5. gateway' \in [generation : Nat, settled : BOOLEAN]
  <2>1. CASE GatewayChanges
    <3>1. CASE gateway' = [gateway EXCEPT !.settled = ~@]
      <4>1. (~gateway.settled) \in BOOLEAN
        OBVIOUS
      <4> QED
        BY <3>1, <4>1 DEF PlanningTypeOK
    <3>2. CASE gateway' = [generation |-> Stamp, settled |-> TRUE]
      BY <3>2, <1>4
    <3>3. CASE gateway' = [generation |-> 0, settled |-> FALSE]
      BY <3>3
    <3> QED
      BY <2>1, <3>1, <3>2, <3>3 DEF GatewayChanges
  <2>2. CASE ~GatewayChanges
    BY <2>2 DEF Outside, NetworkChanges, TargetChanges, PoolChanges,
                ImageChanges, BaseChanges, OriginChanges, PlanningTypeOK
  <2> QED
    BY <2>1, <2>2
<1>6. image' \in [Artifact -> Nat]
  <2>1. CASE ImageChanges
    BY <2>1, <1>4, ArtifactKinds DEF ImageChanges, PlanningTypeOK
  <2>2. CASE ~ImageChanges
    BY <2>2 DEF Outside, NetworkChanges, TargetChanges, PoolChanges,
                GatewayChanges, BaseChanges, OriginChanges, PlanningTypeOK
  <2> QED
    BY <2>1, <2>2
<1> QED
  BY <1>2, <1>3, <1>5, <1>6 DEF PlanningTypeOK

\* A request starts a command that knows nothing yet.
LEMMA AskKeepsInv ==
    ASSUME PlanningInv, Ask
    PROVE  PlanningInv'
<1>1. UNCHANGED outside /\ pc' = "plan"
  BY DEF Ask, RequestCreate, RequestClone
<1>2. request' \in Request /\ (request'.clone => request'.kind = "kali")
  <2>1. ASSUME NEW k \in Kind, NEW n \in Name, RequestCreate(k, n)
        PROVE  request' \in Request /\ ~request'.clone
    BY <2>1 DEF RequestCreate, Request, Artifact
  <2>2. ASSUME NEW n \in Name, RequestClone(n)
        PROVE  request' \in Request /\ request'.kind = "kali"
    BY <2>2, ArtifactKinds DEF RequestClone, Request
  <2> QED
    BY <2>1, <2>2 DEF Ask
<1> QED
  BY <1>1, <1>2
  DEF PlanningInv, PlanningTypeOK, outside, Planned, Acquired

LEMMA PlanKeepsInv ==
    ASSUME PlanningInv, Plan
    PROVE  PlanningInv'
<1>1. UNCHANGED <<outside, request, source, spec>>
  BY DEF Plan
<1>2. PlanningTypeOK' /\ Profile' = Profile /\ host' = host
  BY <1>1 DEF PlanningInv, PlanningTypeOK, outside, Profile
<1>3. CASE Satisfies(host, Profile.resources)
  <2>1. PlanKnown'
    BY <1>2, <1>3 DEF Plan, PlanKnown
  <2>2. /\ pc' \in {"define", "preflight"}
        /\ pc' = "define" => request.clone
    BY <1>3 DEF Plan, Advance
  <2> QED
    BY <1>1, <1>2, <2>1, <2>2 DEF PlanningInv, Acquired
<1>4. CASE ~Satisfies(host, Profile.resources)
  <2>1. pc' = "refused"
    BY <1>4 DEF Plan, Advance
  <2> QED
    BY <1>1, <1>2, <2>1 DEF PlanningInv, Planned, Acquired
<1> QED
  BY <1>3, <1>4

LEMMA AcquireKeepsInv ==
    ASSUME PlanningInv, Acquire
    PROVE  PlanningInv'
<1> DEFINE k == request.kind
<1>1. /\ pc = "acquire"
      /\ UNCHANGED <<host, gateway, changes, request, plan, spec>>
  BY DEF Acquire, Advance
<1>2. k \in Artifact /\ image \in [Artifact -> Nat]
  BY DEF PlanningInv, PlanningTypeOK, Request
<1>3. PlanKnown'
  BY <1>1 DEF PlanningInv, Planned, PlanKnown, Profile
<1>4. CASE ~Acquirable(k)
  <2>1. pc' = "refused" /\ UNCHANGED <<image, source>>
    BY <1>4 DEF Acquire, Advance
  <2> QED
    BY <1>1, <2>1, <1>3
    DEF PlanningInv, PlanningTypeOK, Acquired
<1>5. CASE Acquirable(k)
  <2> DEFINE fetched == IF k = "workstation" THEN image["gateway"] ELSE 1
  <2>1. /\ pc' \in {"pair", "define"}
        /\ image' = [image EXCEPT ![k] = IF @ = 0 THEN fetched ELSE @]
        /\ source' = [a \in Inputs(k) |-> image'[a]]
    BY <1>5 DEF Acquire, Advance
  <2>2. image["gateway"] \in Nat /\ (k = "workstation" => image["gateway"] # 0)
    BY <1>2, <1>5, ArtifactKinds DEF Acquirable
  <2>3. image' \in [Artifact -> Nat] /\ image'[k] # 0
    BY <1>2, <2>1, <2>2
  <2>4. k = "workstation" => image'["gateway"] = image'[k]
    <3>1. CASE k = "workstation" /\ image[k] = 0
      BY <3>1, <1>2, <2>1, ArtifactKinds
    <3>2. CASE k = "workstation" /\ image[k] # 0
      <4>1. image["gateway"] = image[k]
        BY <3>2, <1>5 DEF Acquirable, Verified
      <4> QED
        BY <3>2, <4>1, <1>2, <2>1, ArtifactKinds
    <3> QED
      BY <3>1, <3>2
  <2>5. \A a \in Inputs(k) : image'[a] \in Nat \ {0}
    <3>1. CASE k = "workstation"
      BY <3>1, <2>3, <2>4, <1>2, ArtifactKinds DEF Inputs
    <3>2. CASE k # "workstation"
      BY <3>2, <2>3, <1>2 DEF Inputs
    <3> QED
      BY <3>1, <3>2
  <2>6. SourcesKnown'
    BY <1>1, <2>1, <2>4, <2>5 DEF SourcesKnown, Inputs
  <2>7. PlanningTypeOK'
    BY <1>1, <2>3 DEF PlanningInv, PlanningTypeOK
  <2> QED
    BY <1>1, <1>3, <2>1, <2>6, <2>7 DEF PlanningInv
<1> QED
  BY <1>4, <1>5

\* The looks that only pass or refuse, and the snapshot of the pair.
LEMMA LooksKeepInv ==
    ASSUME PlanningInv,
           Preflight \/ TakeSnapshot \/ RecheckPair \/ Boundary \/ Stop
    PROVE  PlanningInv'
<1>1. UNCHANGED <<outside, request, plan, source, spec>>
  BY DEF Preflight, TakeSnapshot, RecheckPair, Boundary, Stop, results
<1>2. PlanningTypeOK' /\ (request'.clone => request'.kind = "kali")
  BY <1>1 DEF PlanningInv, PlanningTypeOK, outside
<1>3. \/ pc' \in {"refused", "stopped"}
      \/ pc = "preflight" /\ pc' = "acquire"
      \/ pc \in {"pair", "recheck"} /\ pc' \in {"recheck", "define"}
      \/ pc = "boundary" /\ pc' = "accepted"
  BY DEF Preflight, TakeSnapshot, RecheckPair, Boundary, Stop, Advance
<1>4. pc' \in Planned => pc \in Planned
  BY <1>3 DEF Planned
<1>5. pc' \in Acquired => pc \in Acquired
  BY <1>3 DEF Acquired
<1>6. pc' \in {"boundary", "accepted"} => pc \in {"boundary", "accepted"}
  BY <1>3
<1>7. /\ PlanKnown => PlanKnown'
      /\ SourcesKnown => SourcesKnown'
      /\ SpecKnown => SpecKnown'
  BY <1>1 DEF PlanKnown, SourcesKnown, SpecKnown, Profile, outside
<1> QED
  BY <1>1, <1>2, <1>4, <1>5, <1>6, <1>7 DEF PlanningInv

LEMMA DefineKeepsInv ==
    ASSUME PlanningInv, Define \/ DefineClone
    PROVE  PlanningInv'
<1>1. /\ UNCHANGED <<outside, request, plan, source>>
      /\ pc = "define" /\ pc' \in {"boundary", "refused"}
  BY DEF Define, DefineClone, Advance
<1>2. PlanningTypeOK' /\ PlanKnown' /\ (request'.clone => request'.kind = "kali")
  BY <1>1 DEF PlanningInv, PlanningTypeOK, Planned, PlanKnown, Profile, outside
<1>3. ~request.clone => SourcesKnown'
  BY <1>1 DEF PlanningInv, Acquired, SourcesKnown
<1>4. pc' = "boundary" => SpecKnown'
  <2>1. CASE Define
    BY <2>1 DEF Define, Advance, SpecKnown
  <2>2. CASE DefineClone
    BY <2>2 DEF DefineClone, Advance, SpecKnown, PlanningInv
  <2> QED
    BY <2>1, <2>2
<1> QED
  BY <1>1, <1>2, <1>3, <1>4 DEF PlanningInv

LEMMA PlanningInvStep ==
    ASSUME PlanningInv, [Next]_vars
    PROVE  PlanningInv'
<1>1. CASE Ask
  BY <1>1, AskKeepsInv
<1>2. CASE Command
  BY <1>2, PlanKeepsInv, AcquireKeepsInv, LooksKeepInv, DefineKeepsInv
  DEF Command
<1>3. CASE Stop
  BY <1>3, LooksKeepInv
<1>4. CASE Outside
  BY <1>4, OutsideTypes, OutsideKeepsInv DEF PlanningInv
<1>5. CASE UNCHANGED vars
  BY <1>5
  DEF vars, outside, results, PlanningInv, PlanningTypeOK, PlanKnown,
      SourcesKnown, SpecKnown, Profile
<1> QED
  BY <1>1, <1>2, <1>3, <1>4, <1>5 DEF Next

\* At each of its steps a command knows its plan, its files and its domain,
\* and none of that is overtaken by what changes around it.
THEOREM PlanningInvariant == PlanningSpec => []PlanningInv
<1>1. Init => PlanningInv
  BY PlanningInvInit
<1>2. PlanningInv /\ [Next]_vars => PlanningInv'
  BY PlanningInvStep
<1> QED
  BY <1>1, <1>2, PTL DEF PlanningSpec

-----------------------------------------------------------------------------
(* What a create may rely on *)

\* A domain that reaches the boundary keeps within its profile and leaves its
\* reserve to the host, on every hardware: PlanFits.
THEOREM PlansFit == PlanningSpec => []PlanFits
<1>1. PlanningInv => PlanFits
  <2> SUFFICES ASSUME PlanningInv, pc \in {"boundary", "accepted"}
               PROVE  PlanFits
    BY DEF PlanFits
  <2> DEFINE p == Profile.resources
             r == Resources(host, p)
  <2>1. /\ host \in Hardware /\ request.kind \in Kind
        /\ PlanKnown /\ spec = DomainSpec(request.kind, plan)
    BY DEF PlanningInv, PlanningTypeOK, Request, Artifact, Planned, SpecKnown
  <2>2. SoundPolicy(p) /\ Satisfies(host, p)
    BY <2>1, CatalogPolicies DEF PlanKnown, Profile
  <2>3. /\ r.vcpus \in p.minCpu .. p.maxCpu /\ r.vcpus <= host.cores
        /\ p.least <= RoundDown(r.start)
        /\ RoundDown(r.start) <= RoundDown(r.most)
        /\ RoundDown(r.most) + p.reserve <= host.memory
    BY <2>1, <2>2, ResourcesFit
  <2>4. /\ spec.vcpus = r.vcpus /\ spec.start = RoundDown(r.start)
        /\ spec.most = RoundDown(r.most)
    BY <2>1 DEF PlanKnown, DomainSpec
  <2> QED
    BY <2>3, <2>4 DEF PlanFits
<1> QED
  BY <1>1, PlanningInvariant, PTL

\* The bases of the artifacts have different names, and only Kali has its
\* disk size: what a later command binds an instance by.
LEMMA DistinctBases ==
    ASSUME NEW k \in Artifact, NEW l \in Kind, BaseName(k) = BaseName(l)
    PROVE  k = l
<1>1. /\ BaseName("gateway") = "whonix"
      /\ BaseName("workstation") = "whonix-workstation"
      /\ BaseName("kali") = "kali" /\ BaseName("fedora") = "promoted"
      /\ BaseName("fedoraLab") = "cloud" /\ BaseName("lunaDev") = "cloud"
      /\ BaseName("lunaLab") = "cloud"
  BY DEF BaseName, Catalog, Product, WhonixGateway, KaliLab,
         FedoraWorkstation, FedoraLab, LunaDev, LunaLab
<1> QED
  BY <1>1, ArtifactKinds

LEMMA DistinctDisks ==
    ASSUME NEW k \in Kind,
           Catalog[k].resources.disk = Catalog["kali"].resources.disk
    PROVE  k = "kali"
BY ArtifactKinds DEF Catalog, Product, Policy, WhonixGateway, WhonixWorkstation,
       KaliLab, FedoraWorkstation, FedoraLab, LunaDev, LunaLab

\* Later commands find an accepted instance under its own profile or under
\* none: NeverMisbound.
THEOREM NeverBoundToOther == PlanningSpec => []NeverMisbound
<1>1. PlanningInv => NeverMisbound
  <2> SUFFICES ASSUME PlanningInv, pc = "accepted",
                      NEW k \in BoundTo(request.name, RecordedBase, spec.disk)
               PROVE  k = request.kind
    BY DEF NeverMisbound
  <2>1. /\ request.kind \in Artifact /\ request.clone \in BOOLEAN
        /\ request.clone => request.kind = "kali"
        /\ PlanKnown /\ spec = DomainSpec(request.kind, plan)
    BY DEF PlanningInv, PlanningTypeOK, Request, Planned, SpecKnown
  <2>2. /\ k \in Candidates(request.name, RecordedBase)
        /\ Catalog[k].resources.disk = spec.disk
        /\ RecordedBase # "none" => BaseName(k) = RecordedBase
    BY DEF BoundTo
  <2>3. BaseName(request.kind) # "none"
    BY <2>1, ArtifactKinds
    DEF BaseName, Catalog, Product, WhonixGateway, KaliLab, FedoraWorkstation
  <2>4. k \in Kind
    BY <2>2, ArtifactKinds DEF Candidates
  <2>5. CASE request.clone
    <3>1. spec.disk = Catalog["kali"].resources.disk
      BY <2>1, <2>5 DEF PlanKnown, DomainSpec, Resources, Profile
    <3> QED
      BY <2>1, <2>2, <2>4, <2>5, <3>1, DistinctDisks
  <2>6. CASE ~request.clone
    BY <2>1, <2>2, <2>3, <2>4, <2>6, DistinctBases DEF RecordedBase
  <2> QED
    BY <2>5, <2>6
<1> QED
  BY <1>1, PlanningInvariant, PTL

\* What a step that passes the boundary has seen of the host.
LEMMA AcceptanceLooks ==
    ASSUME PlanningInv, [Next]_vars, Accepts
    PROVE  /\ pc = "boundary" /\ BoundaryHolds
           /\ PlanKnown /\ SpecKnown
           /\ ~request.clone => SourcesKnown
           /\ request.kind \in Artifact
           /\ request.clone => request.kind = "kali"
<1>1. Boundary
  BY DEF Accepts, Next, Ask, RequestCreate, RequestClone, Command, Plan,
         Preflight, Acquire, TakeSnapshot, RecheckPair, Define, DefineClone,
         Advance, Stop, Outside, NetworkChanges, TargetChanges, PoolChanges,
         GatewayChanges, ImageChanges, BaseChanges, OriginChanges, Change, vars
<1>2. pc = "boundary" /\ BoundaryHolds
  BY <1>1 DEF Boundary, Advance, Accepts
<1> QED
  BY <1>2
  DEF PlanningInv, PlanningTypeOK, Request, Planned, Acquired

\* The boundary lets a create pass only with the files it proved and with the
\* Gateway and the bundle it checked the pair of, and a clone only with its
\* source shut off and on the proven generation: AcceptedIsCurrent.
THEOREM AcceptsWhatItProved == PlanningSpec => AcceptedIsCurrent
<1> DEFINE Current == /\ \A a \in DOMAIN source \cap Artifact :
                             source[a] = image[a]
                      /\ request.kind = "workstation" =>
                            /\ pair.generation = gateway.generation
                            /\ gateway.settled
                            /\ pair.bundle = source["workstation"]
                      /\ request.clone =>
                            /\ origin.off
                            /\ source["origin"] = origin.generation
<1>1. PlanningInv /\ [Next]_vars => (Accepts => Current)
  <2> SUFFICES ASSUME PlanningInv, [Next]_vars, Accepts PROVE Current
    OBVIOUS
  <2>1. /\ BoundaryHolds /\ request.kind \in Artifact
        /\ ~request.clone => SourcesKnown
        /\ request.clone => request.kind = "kali"
    BY AcceptanceLooks
  <2>2. CASE request.clone
    <3>1. source = OriginProof /\ origin.off
      BY <2>1, <2>2 DEF BoundaryHolds, SourcesCurrent, Cloneable
    <3>2. DOMAIN source \cap Artifact = {}
      BY <3>1, ArtifactKinds DEF OriginProof
    <3>3. source["origin"] = origin.generation
      BY <3>1 DEF OriginProof
    <3> QED
      BY <2>1, <2>2, <3>1, <3>2, <3>3
  <2>3. CASE ~request.clone
    <3>1. source = [a \in Inputs(request.kind) |-> image[a]]
      BY <2>1, <2>3 DEF BoundaryHolds, SourcesCurrent, Proof
    <3>2. \A a \in DOMAIN source \cap Artifact : source[a] = image[a]
      BY <3>1
    <3>3. ASSUME request.kind = "workstation"
          PROVE  /\ pair.generation = gateway.generation
                 /\ gateway.settled
                 /\ pair.bundle = source["workstation"]
      <4>1. /\ gateway.settled
            /\ pair = [generation |-> gateway.generation,
                       bundle |-> image["gateway"]]
        BY <2>1, <3>3
        DEF BoundaryHolds, PairEvidence, SnapshotUnchanged, Snapshot
      <4>2. source["gateway"] = image["gateway"]
        BY <3>1, <3>3 DEF Inputs
      <4>3. source["gateway"] = source["workstation"]
        BY <2>1, <2>3, <3>3 DEF SourcesKnown
      <4> QED
        BY <4>1, <4>2, <4>3
    <3> QED
      BY <2>3, <3>2, <3>3
  <2> QED
    BY <2>2, <2>3
<1> QED
  BY <1>1, PlanningInvariant, PTL DEF PlanningSpec, AcceptedIsCurrent

\* The previews never refuse what a create is allowed to do at that moment:
\* AcceptedWasPreviewable.
THEOREM PreviewsAgree == PlanningSpec => AcceptedWasPreviewable
<1>1. PlanningInv /\ [Next]_vars =>
        (Accepts /\ ~request.clone => VmPlanAccepts /\ DryRunAccepts)
  <2> SUFFICES ASSUME PlanningInv, [Next]_vars, Accepts, ~request.clone
               PROVE  VmPlanAccepts /\ DryRunAccepts
    OBVIOUS
  <2> DEFINE k == request.kind
  <2>1. /\ BoundaryHolds /\ PlanKnown /\ SpecKnown /\ SourcesKnown
        /\ k \in Artifact
    BY AcceptanceLooks
  <2>2. VmPlanAccepts
    <3>1. ValidSpec(k, DomainSpec(k, Resources(host, Profile.resources)))
      BY <2>1 DEF PlanKnown, SpecKnown
    <3> QED
      BY <2>1, <3>1 DEF VmPlanAccepts, PlanKnown, BoundaryHolds
  <2>3. Verified(k)
    <3>1. source = [a \in Inputs(k) |-> image[a]]
      BY <2>1 DEF BoundaryHolds, SourcesCurrent, Proof
    <3>2. image[k] # 0
      BY <2>1, <3>1, InputsAreArtifacts DEF SourcesKnown
    <3>3. k = "workstation" => image["gateway"] = image[k]
      BY <2>1, <3>1 DEF SourcesKnown, Inputs
    <3>4. k = "fedora" => Promoted
      BY <2>1 DEF BoundaryHolds
    <3> QED
      BY <2>1, <3>2, <3>3, <3>4, ArtifactKinds DEF Verified
  <2>4. DryRunBase(k)
    BY <2>1, <2>3 DEF DryRunBase, BoundaryHolds
  <2>5. k = "workstation" => PairEvidence
    BY <2>1 DEF BoundaryHolds
  <2> QED
    BY <2>2, <2>4, <2>5 DEF DryRunAccepts
<1> QED
  BY <1>1, PlanningInvariant, PTL DEF PlanningSpec, AcceptedWasPreviewable
=============================================================================
