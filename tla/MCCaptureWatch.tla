--------------------------- MODULE MCCaptureWatch ---------------------------
(***************************************************************************)
(* Instances of CaptureWatch for TLC: where the roots are, and what the    *)
(* outside does.                                                           *)
(***************************************************************************)
EXTENDS CaptureWatch, TLC

CONSTANTS v1, v2, r1, r2, r3

\* Two roots share a volume, and a third is on another.
TwoAndOne == (r1 :> v1) @@ (r2 :> v1) @@ (r3 :> v2)
OneVolume == [r \in Roots |-> v1]
\* Each root on a volume of its own.
RootEach == (r1 :> v1) @@ (r3 :> v2)

\* Windows decides a removal before discovery stops waiting for it.
Prompt == WorldEvents \ {"slow"}
=============================================================================
