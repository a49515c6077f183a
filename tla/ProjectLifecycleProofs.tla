----------------------- MODULE ProjectLifecycleProofs -----------------------
(***************************************************************************)
(* What ProjectLifecycle promises holds of every Project: the promise is   *)
(* inductive as it stands.                                                 *)
(***************************************************************************)
EXTENDS ProjectLifecycle, TLAPS

\* A new Project keeps the promise.
LEMMA InitPromise == Init => Promise
BY DEF Init, Promise, TypeOK, InOrder, LockedIsComplete, ClosingRunsArchive, RunningIsCurrent,
       Lifecycles, Kinds, Steps, Outcomes

\* Every step keeps it.
LEMMA NextPromise == Promise /\ [Next]_vars => Promise'
<1> SUFFICES ASSUME Promise, [Next]_vars
             PROVE  Promise'
  OBVIOUS
<1> USE DEF Promise, TypeOK, InOrder, LockedIsComplete, ClosingRunsArchive, RunningIsCurrent,
            IsCurrent, Lifecycles, Kinds, Steps, Outcomes, Before, From, Position
<1>1. ASSUME NEW kind \in Kinds \ {"archive"}, Reserve(kind)
      PROVE  Promise'
  BY <1>1 DEF Reserve
<1>2. CASE Release
  BY <1>2 DEF Release
<1>3. CASE Finish
  BY <1>3 DEF Finish
<1>4. ASSUME NEW step \in {"cleanUp", "trash"}, NEW outcome \in Outcomes, Pass(step, outcome)
      PROVE  Promise'
  BY <1>4 DEF Pass
<1>5. ASSUME NEW step \in Steps, Reopen(step)
      PROVE  Promise'
  BY <1>5 DEF Reopen
<1>6. CASE Close
  BY <1>6 DEF Close
<1>7. CASE Settle
  BY <1>7 DEF Settle
<1>8. CASE UNCHANGED vars
  BY <1>8 DEF vars
<1> QED
  BY <1>1, <1>2, <1>3, <1>4, <1>5, <1>6, <1>7, <1>8 DEF Next

\* The steps of a Project are recorded in order, it is locked exactly with all
\* of them, and it reads Closing exactly while its archive runs.
THEOREM KeepsPromise == Spec => []Promise
BY InitPromise, NextPromise, PTL DEF Spec
=============================================================================
