------------------------------ MODULE MCOutput ------------------------------
(***************************************************************************)
(* Instances of Output for TLC.                                            *)
(***************************************************************************)
EXTENDS Output

OneProject  == {1}
TwoProjects == {1, 2}

Everything  == WorldEvents
OnlyDeletes == {"delete"}
OnlySaves   == {"save"}
OnlyVolumes == {"unmount"}
=============================================================================
