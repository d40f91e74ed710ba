SPECIFICATION FairPlanningSpec
CONSTANTS
    Host <- Hosts
    Size <- Sizes
    Name = {"free", "gateway", "workstation"}
    MaxChanges = 2
INVARIANTS
    PlanFits
    NeverMisbound
PROPERTIES
    AcceptedIsCurrent
    AcceptedWasPreviewable
    UndisturbedIsAccepted
CHECK_DEADLOCK FALSE
