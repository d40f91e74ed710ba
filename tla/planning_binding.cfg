SPECIFICATION PlanningSpec
CONSTANTS
    Host <- Hosts
    Size <- Sizes
    Name = {"free", "kali", "fedora"}
    MaxChanges = 0
INVARIANTS
    BindingIgnoresName
CHECK_DEADLOCK FALSE
