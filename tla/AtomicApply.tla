---------------------------- MODULE AtomicApply ----------------------------
(***************************************************************************)
(* What an Apply promises a Project: one View at a time, replaced at one   *)
(* instant by the whole of the next, and an Apply that did not reach that  *)
(* instant changes nothing.  PREP-FR-09 and PREP-FR-18 of                  *)
(* specs/069-application-handoff/spec.md; no phases, no folders, no crash. *)
(***************************************************************************)
EXTENDS Integers

CONSTANTS Gens, None

VARIABLES
    current,    \* the View tools are given, by its generation
    busy,       \* the generation being applied, or 0
    result      \* how each Apply ended

vars == <<current, busy, result>>

Init ==
    /\ current = None
    /\ busy = 0
    /\ result = [g \in Gens |-> "none"]

Begin ==
    /\ busy = 0
    /\ \E g \in Gens : result[g] = "none" /\ busy' = g
    /\ UNCHANGED <<current, result>>

\* The one instant at which tools are given the new View.
Switch ==
    /\ busy # 0
    /\ current # busy
    /\ current' = busy
    /\ UNCHANGED <<busy, result>>

Finish(outcome) ==
    /\ busy # 0
    /\ result' = [result EXCEPT ![busy] = outcome]
    /\ busy' = 0
    /\ UNCHANGED current

\* Applied exactly when the switch happened.
Succeed == current = busy /\ Finish("applied")
GiveUp  == current # busy /\ (Finish("failed") \/ Finish("canceled"))

Next == Begin \/ Switch \/ Succeed \/ GiveUp

Spec == Init /\ [][Next]_vars
=============================================================================
