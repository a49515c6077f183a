------------------------------ MODULE MCImport ------------------------------
(***************************************************************************)
(* Instances of Import for TLC.                                            *)
(***************************************************************************)
EXTENDS Import

CONSTANTS a, b

OneImport  == {a}
OneFile    == {0}
TwoFiles   == {0, 1}
BothModes  == {"copy", "move"}
Moves      == {"move"}
Everything == WorldEvents
OnlyMounts == {"source", "dest"}
=============================================================================
