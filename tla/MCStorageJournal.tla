-------------------------- MODULE MCStorageJournal --------------------------
(***************************************************************************)
(* Instances of StorageJournal for TLC.                                    *)
(***************************************************************************)
EXTENDS StorageJournal

CONSTANT k1

One  == {0}
Two  == {0, 1}
NoKeeps == {}
OneKeep == {k1}

\* Nothing kept elsewhere; two copies that rely on each other, one of them on
\* a third besides.
Alone  == [i \in Items |-> {}]
Mutual == [i \in Items |-> IF i = 0 THEN {1} ELSE {0} \cup Keeps]

Transfers == {"copy", "move"}
AllKinds  == {"copy", "move", "trash"}

Copying  == {[publish |-> "copy", stable |-> FALSE]}
Any      == [publish : Publishings, stable : BOOLEAN]

Everything == WorldEvents
OnlySources == {"edit", "replace", "delete", "io"}
Quiet == {}
=============================================================================
