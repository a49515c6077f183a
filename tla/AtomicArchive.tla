--------------------------- MODULE AtomicArchive ---------------------------
(***************************************************************************)
(* What an archive promises of each frame: its record moves to a whole     *)
(* copy first, every kept View reads that copy next, and only then does    *)
(* the original leave; and its Project ends Archived exactly when a record *)
(* moved.  STO-FR-06, STO-FR-08 and STO-FR-13 of                           *)
(* specs/071-storage-custody/spec.md with no journal, no link being        *)
(* rebuilt and no stop.                                                    *)
(***************************************************************************)
CONSTANTS
    Files,   \* the frames of the archive
    Links,   \* the links of kept Views that read one of them
    FileOf   \* the frame each reads

VARIABLES
    project, \* "none" for an archive no Project closed with
    moved,   \* frames whose record is the copy's
    reads,   \* links recorded to read the copy
    away,    \* frames whose original went to the OS Trash
    result   \* per frame: its outcome

vars == <<project, moved, reads, away, result>>

Init ==
    /\ project \in {"none", "closing"}
    /\ moved = {} /\ reads = {} /\ away = {}
    /\ result = [f \in Files |-> "none"]

Open(f) == result[f] = "none"

Move(f) ==
    /\ Open(f) /\ moved' = moved \cup {f}
    /\ UNCHANGED <<project, reads, away, result>>

Repoint(l) ==
    /\ Open(FileOf[l]) /\ FileOf[l] \in moved
    /\ reads' = reads \cup {l}
    /\ UNCHANGED <<project, moved, away, result>>

Retire(f) ==
    /\ Open(f) /\ f \in moved
    /\ \A l \in Links : FileOf[l] = f => l \in reads
    /\ away' = away \cup {f}
    /\ UNCHANGED <<project, moved, reads, result>>

Truthful(f, o) ==
    \/ o = "archived" /\ f \in moved /\ f \in away
    \/ o = "sourceRetained" /\ f \in moved /\ f \notin away
    \/ o = "blocked" /\ f \notin moved /\ f \notin away
    \/ o = "uncertain"

End(f, o) ==
    /\ Open(f) /\ Truthful(f, o)
    /\ result' = [result EXCEPT ![f] = o]
    /\ UNCHANGED <<project, moved, reads, away>>

Settle ==
    /\ project = "closing" /\ \A f \in Files : ~Open(f)
    /\ project' = IF moved # {} THEN "archived" ELSE "closed"
    /\ UNCHANGED <<moved, reads, away, result>>

Next ==
    \/ \E f \in Files :
          \/ Move(f) \/ Retire(f)
          \/ \E o \in {"archived", "sourceRetained", "blocked", "uncertain"} : End(f, o)
    \/ \E l \in Links : Repoint(l)
    \/ Settle

Spec == Init /\ [][Next]_vars
=============================================================================
