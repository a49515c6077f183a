----------------------------- MODULE MCArchive -----------------------------
(***************************************************************************)
(* Instances of Archive for TLC: the first of two frames is read by the    *)
(* links of two kept Views, the second by none.                            *)
(***************************************************************************)
EXTENDS Archive

OneFile  == {0}
TwoFiles == {0, 1}
OneLink  == {10}
TwoLinks == {10, 11}
OfFirst  == [l \in Links |-> 0]

BothSwaps == {"exchange", "aside"}
Renames   == {"aside"}

Everything == WorldEvents
OnlyRoot   == {"root"}
OnlyHold   == {"hold"}
=============================================================================
