---------------------------- MODULE OwnedRemoval ----------------------------
(***************************************************************************)
(* What deleting an instance promises, whoever does it and however often   *)
(* it is interrupted: nothing is removed before the intent is on record,   *)
(* the domain goes before the disks it names, and the result is reported   *)
(* only when nothing is left.                                              *)
(***************************************************************************)
CONSTANTS
    Item,      \* what the instance owns besides its domain
    Reopens    \* TRUE: a report may be taken back (competing commands)

VARIABLES
    intended,  \* the intent to delete is on record
    present,   \* what is left
    reported   \* the deletion is on record as complete

vars == <<intended, present, reported>>

Init ==
    /\ intended = FALSE
    /\ \E S \in SUBSET Item : S # {} /\ present = S \cup {"domain"}
    /\ reported = FALSE

Intend ==
    /\ ~intended
    /\ intended' = TRUE
    /\ UNCHANGED <<present, reported>>

Remove(x) ==
    /\ intended
    /\ x \in present
    /\ x # "domain" => "domain" \notin present
    /\ present' = present \ {x}
    /\ UNCHANGED <<intended, reported>>

Report ==
    /\ intended
    /\ present = {}
    /\ reported' = TRUE
    /\ UNCHANGED <<intended, present>>

Reopen ==
    /\ Reopens
    /\ reported' = FALSE
    /\ UNCHANGED <<intended, present>>

Next == Intend \/ (\E x \in Item \cup {"domain"} : Remove(x)) \/ Report \/ Reopen

Spec == Init /\ [][Next]_vars
=============================================================================
