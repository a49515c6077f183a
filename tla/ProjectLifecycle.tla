-------------------------- MODULE ProjectLifecycle --------------------------
(***************************************************************************)
(* What Wrap up promises of one Project, whatever files it moves: at most  *)
(* one operation runs on it, the steps are recorded once each and in       *)
(* order, Close comes after all of them, and a Project reads Closing       *)
(* exactly while its archive runs.                                         *)
(*                                                                         *)
(* Sources: crates/persistence/library/src/project_lifecycle.sql,          *)
(* project_operations.rs, project_wrap_up.rs and                           *)
(* crates/platevault-model/src/project_lifecycle.rs.                       *)
(***************************************************************************)
EXTENDS Naturals

VARIABLES
    lifecycle,  \* "open", "closing", "closed" or "archived"
    running,    \* the kind of the operation running on the Project, or "none"
    steps       \* the outcome recorded of each step, or "none"

vars == <<lifecycle, running, steps>>

Lifecycles == {"open", "closing", "closed", "archived"}
Kinds      == {"apply", "copyToOutput", "cleanUp", "trash", "archive"}
Steps      == {"cleanUp", "trash", "archive"}
Outcomes   == {"finished", "skipped"}

\* `WrapUpStep::ORDER`.
Position == [cleanUp |-> 1, trash |-> 2, archive |-> 3]
Before(step) == {s \in Steps : Position[s] < Position[step]}
From(step)   == {s \in Steps : Position[s] >= Position[step]}

IsCurrent(step) ==
    /\ steps[step] = "none"
    /\ \A s \in Before(step) : steps[s] # "none"

Init ==
    /\ lifecycle = "open"
    /\ running = "none"
    /\ steps = [s \in Steps |-> "none"]

\* An operation is reserved on an open Project; a step's own only when the
\* step is the current one.
Reserve(kind) ==
    /\ lifecycle = "open"
    /\ running = "none"
    /\ kind \in Steps => IsCurrent(kind)
    /\ running' = kind
    /\ UNCHANGED <<lifecycle, steps>>

\* It ends without a step: an Apply or a copy ends, an interrupted Clean up
\* is released.
Release ==
    /\ running \in {"apply", "copyToOutput", "cleanUp"}
    /\ running' = "none"
    /\ UNCHANGED <<lifecycle, steps>>

\* Clean up and Trash end with their step, in one transaction.
Finish ==
    /\ running \in {"cleanUp", "trash"}
    /\ steps' = [steps EXCEPT ![running] = "finished"]
    /\ running' = "none"
    /\ UNCHANGED lifecycle

\* A step is recorded with nothing to move, while nothing runs.
Pass(step, outcome) ==
    /\ lifecycle = "open"
    /\ running = "none"
    /\ IsCurrent(step)
    /\ steps' = [steps EXCEPT ![step] = outcome]
    /\ UNCHANGED <<lifecycle, running>>

\* A step and the later ones are no longer recorded.
Reopen(step) ==
    /\ lifecycle = "open"
    /\ running = "none"
    /\ steps' = [s \in Steps |-> IF s \in From(step) THEN "none" ELSE steps[s]]
    /\ UNCHANGED <<lifecycle, running>>

\* Close, for good: with an archive to run, or without.
Close ==
    /\ lifecycle = "open"
    /\ running = "none"
    /\ IsCurrent("archive")
    /\ \/ /\ lifecycle' = "closing"
          /\ running' = "archive"
          /\ steps' = [steps EXCEPT !["archive"] = "finished"]
       \/ /\ lifecycle' = "closed"
          /\ steps' = [steps EXCEPT !["archive"] = "skipped"]
          /\ UNCHANGED running

Settle ==
    /\ lifecycle = "closing"
    /\ running = "archive"
    /\ lifecycle' \in {"closed", "archived"}
    /\ running' = "none"
    /\ UNCHANGED steps

Next ==
    \/ \E kind \in Kinds \ {"archive"} : Reserve(kind)
    \/ Release
    \/ Finish
    \/ \E step \in {"cleanUp", "trash"}, outcome \in Outcomes : Pass(step, outcome)
    \/ \E step \in Steps : Reopen(step)
    \/ Close
    \/ Settle

Spec == Init /\ [][Next]_vars

-----------------------------------------------------------------------------

TypeOK ==
    /\ lifecycle \in Lifecycles
    /\ running \in Kinds \cup {"none"}
    /\ steps \in [Steps -> Outcomes \cup {"none"}]

\* A step is recorded only with every earlier one.
InOrder == \A s \in Steps : steps[s] # "none" => \A t \in Before(s) : steps[t] # "none"

\* A locked Project has all its steps; an open one has not closed.
LockedIsComplete == (lifecycle # "open") <=> (steps["archive"] # "none")

\* It reads Closing exactly while its archive runs, and a locked Project
\* takes no other operation.
ClosingRunsArchive ==
    /\ (lifecycle = "closing") <=> (running = "archive")
    /\ lifecycle # "open" => running \in {"archive", "none"}

\* The step of a running operation is the current one: it is not recorded
\* and can be, when the operation ends.
RunningIsCurrent == running \in {"cleanUp", "trash"} => IsCurrent(running)

Promise ==
    /\ TypeOK
    /\ InOrder
    /\ LockedIsComplete
    /\ ClosingRunsArchive
    /\ RunningIsCurrent
=============================================================================
