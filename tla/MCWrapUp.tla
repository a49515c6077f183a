------------------------------ MODULE MCWrapUp ------------------------------
(***************************************************************************)
(* Instances of WrapUp for TLC.                                            *)
(***************************************************************************)
EXTENDS WrapUp

NoCopies  == {}
NoEntries == {}
TwoEntries == {0, 1}
OneLeftover == {2}
\* Two copies of one rejected frame.
OneFrame == {0, 1}
FrameOfOne  == [c \in Copies |-> IF c < 2 THEN 1 ELSE 0]

Same    == [s \in Entries |-> s]
Swapped == [s \in Entries |-> 1 - s]
OneLayout == {Same}
BothLayouts == {Same, Swapped}

ViewWorld  == {"entry", "extra"}
CopyWorld  == {"copy", "refuse", "retire"}
OnlyRetire == {"retire"}
=============================================================================
