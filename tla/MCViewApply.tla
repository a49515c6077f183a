---------------------------- MODULE MCViewApply ----------------------------
(***************************************************************************)
(* Instances of ViewApply for TLC: the worlds the runs put it in.          *)
(***************************************************************************)
EXTENDS ViewApply

CONSTANTS f1, c1, c2

OneTool    == {f1}
OneCaller  == {c1}
TwoCallers == {c1, c2}

\* Tools write into View/ and hold it; edits fall at any moment.
Tools == {"edit", "hold", "write"}

\* The user reviews what is left over, not while an Apply runs, and a tool may
\* hold its file for ever.
Reviewing == {"write", "hold", "kept", "moved"}

\* Nothing PlateVault placed is safe from the user's file manager.
FileManager == {"write", "kept", "trashed", "litter", "vanish", "remove", "occupy"}

\* What the refuted statements need.
Quiet        == {}
Occupying    == {"occupy"}
Overlapping  == {"write", "trashed", "overlap"}
Interrupting == {"write", "kept", "moved", "overlap"}
Deleting     == {"write", "kept", "litter", "vanish"}
=============================================================================
