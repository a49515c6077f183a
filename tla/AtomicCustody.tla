--------------------------- MODULE AtomicCustody ---------------------------
(***************************************************************************)
(* What a storage operation promises of the entries it was approved for:   *)
(* a copy arrives whole, a source leaves only for the OS Trash and only    *)
(* over what it relies on, and each item's outcome says what happened.     *)
(* STO-FR-05, STO-FR-07 and STO-FR-08 of specs/071-storage-custody/spec.md *)
(* with no journal, no partial copy and no crash.                          *)
(***************************************************************************)
CONSTANTS
    Items,      \* the entries the operation was approved for
    ReliedOn    \* per item: the items whose entries are the copies it keeps

VARIABLES
    kind,       \* "copy", "move" or "trash"
    there,      \* items whose whole copy is at its destination
    away,       \* items whose source went to the OS Trash
    result      \* per item: its outcome

vars == <<kind, there, away, result>>

Init ==
    /\ kind \in {"copy", "move", "trash"}
    /\ there = {}
    /\ away = {}
    /\ result = [i \in Items |-> "none"]

Open(i) == result[i] = "none"

Deliver(i) ==
    /\ Open(i)
    /\ kind # "trash"
    /\ there' = there \cup {i}
    /\ UNCHANGED <<kind, away, result>>

\* A Move relies on its own copy, a Trash item on the copies kept elsewhere.
Retire(i) ==
    /\ Open(i)
    /\ \/ kind = "move" /\ i \in there
       \/ kind = "trash" /\ ReliedOn[i] \cap away = {}
    /\ away' = away \cup {i}
    /\ UNCHANGED <<kind, there, result>>

Truthful(i, o) ==
    \/ o = "copied" /\ kind = "copy" /\ i \in there
    \/ o = "moved" /\ kind = "move" /\ i \in there /\ i \in away
    \/ o = "sourceKept" /\ kind = "move" /\ i \in there /\ i \notin away
    \/ o = "trashed" /\ kind = "trash" /\ i \in away
    \/ o = "blocked" /\ i \notin away
    \/ o = "uncertain"

End(i, o) ==
    /\ Open(i)
    /\ Truthful(i, o)
    /\ result' = [result EXCEPT ![i] = o]
    /\ UNCHANGED <<kind, there, away>>

Next ==
    \E i \in Items :
        \/ Deliver(i)
        \/ Retire(i)
        \/ \E o \in {"copied", "moved", "sourceKept", "trashed", "blocked", "uncertain"} :
              End(i, o)

Spec == Init /\ [][Next]_vars
=============================================================================
