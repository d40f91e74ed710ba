----------------------------- MODULE PowerControl -----------------------------
(***************************************************************************)
(* "forge vm start", "forge vm shutdown" and "forge vm stop --force":      *)
(* lifecycle_action of crates/forge-cli/src/main.rs, the planner of        *)
(* crates/forge-provisioning/src/lib.rs and the calls of                   *)
(* crates/forge-libvirt/src/lib.rs.                                        *)
(*                                                                         *)
(* None of the three writes a file.  A guest already in the state asked    *)
(* for ends the command with success before the question, which changes    *)
(* nothing and is no step here.                                            *)
(***************************************************************************)
EXTENDS ManagedHost

LifecycleAction == {"start", "shutdown", "force_stop"}

\* The state an action that is no repetition needs, and its call.
StateFor(action) == IF action = "start" THEN "shutoff" ELSE "running"
CallOf == [start |-> "starting", shutdown |-> "shutting_down",
           force_stop |-> "force_stopping"]

\* inspect_managed_lifecycle: what libvirt shows of the instance.
LifecycleStatus(i) ==
    [state |-> domain.state, persistent |-> domain.persistent,
     overlay |-> BoundDisk, complete |-> Inspectable(i.active)]

\* plan_instance_lifecycle: a persistent domain over the whole active
\* generation, in the state the action starts from.
LifecyclePlanned(i, status, action) ==
    /\ status.complete
    /\ status.persistent
    /\ status.overlay = i.active
    /\ status.state = StateFor(action)

\* Mutant: recovery boundaries and deletions are not looked at.
OperationalAnyway(i) == Listed(i) \subseteq manifest

\* operational_instance: every manifest is there and nothing is pending.
Operational(i) ==
    /\ Listed(i) \subseteq manifest
    /\ NormalLifecycle(i)

\* discover_lifecycle_status: the reconciliation must be Consistent.
PowerPlannable(i, action) ==
    /\ Operational(i)
    /\ ConsistentOn(i)
    /\ LifecyclePlanned(i, LifecycleStatus(i), action)

-----------------------------------------------------------------------------

PowerPlan(p, action) ==
    /\ MayStart(p)
    /\ PowerPlannable(index, action)
    /\ Start(p, action, NoGen, FALSE)
    /\ UNCHANGED <<durable, host, faults>>

\* The user answers; the files must be the same and the domain is inspected
\* again, without another reconciliation.
PowerConfirm(p, action) ==
    /\ pc[p] = action
    /\ \/ Stop(p)
       \/ Branch(p, /\ index = view[p]
                    /\ Operational(index)
                    /\ LifecyclePlanned(index, LifecycleStatus(index), action),
                 CallOf[action])
    /\ UNCHANGED <<durable, host, faults>>

\* libvirt create: whatever disk the definition names by now is opened.
PowerStart(p) ==
    /\ pc[p] = "starting"
    /\ IF DomainShutoff /\ VolumesOf(domain.disk) \subseteq volume
       THEN /\ domain' = [domain EXCEPT !.state = "running",
                                        !.live = domain.disk]
            /\ Goto(p, "power_wait")
       ELSE UNCHANGED domain /\ Stop(p)
    /\ UNCHANGED <<durable, volume, faults>>

\* One request to the guest, which follows it (PowerOff) or does not.
PowerShutdown(p) ==
    /\ pc[p] = "shutting_down"
    /\ Branch(p, DomainRunning, "power_wait")
    /\ UNCHANGED <<durable, host, faults>>

\* force_stop_and_wait: only a domain that still runs is destroyed.
PowerForceStop(p) ==
    /\ pc[p] = "force_stopping"
    /\ domain' = IF DomainRunning THEN Halted ELSE domain
    /\ Branch(p, DomainRunning /\ domain.persistent, "power_wait")
    /\ UNCHANGED <<durable, volume, faults>>

\* The poll for the new state ends with it or with a timeout, and a
\* force-stop reconciles once more; either way only the report differs.
PowerWait(p) ==
    /\ pc[p] = "power_wait"
    /\ Stop(p)
    /\ UNCHANGED <<durable, host, faults>>

PowerCommand(p) ==
    \/ \E action \in LifecycleAction :
           PowerPlan(p, action) \/ PowerConfirm(p, action)
    \/ PowerStart(p)
    \/ PowerShutdown(p)
    \/ PowerForceStop(p)
    \/ PowerWait(p)

-----------------------------------------------------------------------------
(* Properties *)

\* Forge starts a guest only between boundaries: never while a deletion or a
\* replacement of the instance is on record, however it was interrupted, and
\* only on the disk of the generation that the index calls Active.
StartsAreSettled ==
    [][\A p \in Proc :
         pc[p] = "starting" /\ pc'[p] = "power_wait" =>
             /\ index.delete.phase = "None"
             /\ WithStatus(index, "Preparing") = {}
             /\ domain'.live = index.active]_<<pc, domain>>
=============================================================================
