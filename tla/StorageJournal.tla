--------------------------- MODULE StorageJournal ---------------------------
(***************************************************************************)
(* One storage operation of custody: a Copy, a Move or a move to the OS    *)
(* Trash of reviewed entries, advanced item by item through the journal,   *)
(* resumed after a crash from what the journal recorded, beside a user who *)
(* changes sources, kept copies and destinations at any moment.            *)
(*                                                                         *)
(* Sources: crates/platevault-core/src/custody/{journal,transfer,trash}.rs,*)
(* custody.rs and crates/persistence/library/src/storage.rs.               *)
(***************************************************************************)
EXTENDS Integers, FiniteSets

CONSTANTS
    Items,       \* the operation's items, by their sequence number
    Keeps,       \* kept copies no item names as its source
    ReliedOn,    \* per item: the kept copies it relies on
    Kinds,       \* the kinds of operation of this instance
    Volumes,     \* the destination volumes of this instance
    MaxFaults,   \* bound: crashes and broken-off runs
    MaxChanges,  \* bound: changes from outside
    World        \* what the outside may do in this instance

\* A source or kept copy is edited in place with its size and times kept, is
\* replaced, is deleted, comes back out of the Trash; a destination name is
\* taken, its file edited, or cleared; the OS Trash refuses; a disk fails.
WorldEvents == {"edit", "replace", "delete", "putback", "take", "spoil", "clear",
                "refuse", "io"}

\* How the destination's volume puts a file at a new name without replacing:
\* a no-replace rename, a hard link and an unlink, or a verified copy.
Publishings == {"rename", "link", "copy"}

ASSUME ItemsAssumption ==
    /\ Items \subseteq Nat
    /\ IsFiniteSet(Items)
    /\ Items \cap Keeps = {}
    /\ ReliedOn \in [Items -> SUBSET (Items \cup Keeps)]
    /\ \A i \in Items : i \notin ReliedOn[i]     \* `validate_kept`

ASSUME InstanceAssumption ==
    /\ Kinds \subseteq {"copy", "move", "trash"}
    /\ Volumes \subseteq [publish : Publishings, stable : BOOLEAN]
    /\ MaxFaults \in Nat
    /\ MaxChanges \in Nat
    /\ World \subseteq WorldEvents

Entries == Items \cup Keeps

Phases   == {"pending", "writing", "installed", "verified", "retiring", "settled"}
Outcomes == {"none", "trashed", "copied", "moved", "sourceKept", "blocked", "uncertain"}

\* What stands at a reviewed path.  "edited" keeps the recorded identity,
\* size and times and holds other bytes; "other" is another entry.
Standing == {"reviewed", "edited", "other", "gone"}

\* The file at a destination name: whose it is and how much of the reviewed
\* bytes it holds.  "ours" is the partial copy the item recorded, "made" a
\* file created at the destination to be copied onto.
Copy   == [by : {"none", "ours", "made", "theirs"}, holds : {"nothing", "prefix", "whole", "other"}]
NoCopy == [by |-> "none", holds |-> "nothing"]

VARIABLES
    \* what the operation was recorded with
    kind,       \* "copy", "move" or "trash"
    volume,     \* the destination's volume
    trashable,  \* items whose volume keeps what its OS Trash receives
    \* the disk
    entry,      \* what stands at each source and kept copy
    bin,        \* per item: what the OS Trash holds of its source
    copy,       \* per item: the file at the destination
    partial,    \* per item: the partial copy beside it
    aside,      \* items whose partial stands under a hidden name
    \* the catalog
    operation,  \* "reviewed", "running" or "settled"
    phase, outcome, written,
    \* the process
    at,         \* where the one executor stands
    item,       \* the item it advances
    next,       \* the change it is about to record
    refused,    \* the OS Trash reported a refusal
    lapsed,     \* a change from outside fell after a check still relied on
    faults, changes

setting == <<kind, volume, trashable>>
disk    == <<entry, bin, copy, partial, aside>>
catalog == <<operation, phase, outcome, written>>
process == <<at, item, next, refused, lapsed>>
bounds  == <<faults, changes>>
vars    == <<kind, volume, trashable, entry, bin, copy, partial, aside, operation, phase,
             outcome, written, at, item, next, refused, lapsed, faults, changes>>

Change   == [phase : Phases, outcome : Outcomes, written : {"none", "ours", "made"}]
NoChange == [phase |-> "pending", outcome |-> "none", written |-> "none"]

\* After these a check was made and its result is not used up yet.
Relying == {"verifyKept", "verifySource", "trash", "observe", "record"}
\* A copy is being written; the retirement is under way.
Writing  == {"fill", "install", "again", "unlink", "copying", "aside", "removing"}
Retiring == {"support", "verifyCopy", "verifyKept", "verifySource", "trash", "observe"}
Places   == Relying \cup Writing \cup Retiring \cup {"idle", "step"}

Init ==
    /\ kind \in Kinds
    /\ volume \in Volumes
    /\ trashable \in SUBSET Items
    /\ entry = [f \in Entries |-> "reviewed"]
    /\ bin = [i \in Items |-> "gone"]
    /\ copy = [i \in Items |-> NoCopy]
    /\ partial = [i \in Items |-> "none"]
    /\ aside = {}
    /\ operation = "reviewed"
    /\ phase = [i \in Items |-> "pending"]
    /\ outcome = [i \in Items |-> "none"]
    /\ written = [i \in Items |-> "none"]
    /\ at = "idle"
    /\ item \in Items
    /\ next = NoChange
    /\ refused = FALSE
    /\ lapsed = FALSE
    /\ faults = 0
    /\ changes = 0

-----------------------------------------------------------------------------
(* Helpers.  A definition marked `variant` is what a slip in the code it   *)
(* stands beside would make of that code; no action uses one.              *)

Open == {i \in Items : outcome[i] = "none"}

\* `in_place`: the recorded identity, size and times, the bytes not read.
InPlace(f) == entry[f] \in {"reviewed", "edited"}

\* `holds`: without stable file IDs any file there carries the recorded one.
Holds(i) ==
    /\ copy[i].by # "none"
    /\ volume.stable => copy[i].by = written[i]

\* variant: the destination is not read again.
HoldsSome(i) == Holds(i)
\* `verify_bytes`: the recorded copy is there and holds the reviewed bytes.
HoldsWhole(i) == Holds(i) /\ copy[i].holds = "whole"

\* variant: only the entry itself is proven.
KeptAssumed(i) == TRUE
\* `verify_kept` of every copy the item relies on; a transfer names none.
KeptProven(i) == kind = "trash" => \A k \in ReliedOn[i] : entry[k] = "reviewed"

\* variant: whatever took the name makes way.
AnyFile(i) == copy[i].by # "none"
\* `remove_unfinished_copy`: nothing there but what the partial begins with.
UnfinishedCopy(i) == copy[i].by # "none" /\ copy[i].holds \in {"prefix", "whole"}

\* variant: the outcome is recorded and the phase left as it was.
SettleInPhase(i, o) == [phase |-> phase[i], outcome |-> o, written |-> written[i]]
\* `change` and `settled`.
To(p, w)       == [phase |-> p, outcome |-> "none", written |-> w]
SettleAs(i, o) == [phase |-> "settled", outcome |-> o, written |-> written[i]]

\* variant: an item whose move was interrupted stopped before it moved.
InterruptedBlocked(i) == SettleAs(i, "blocked")
\* variant: an item whose entry is gone waits for it to come back.
InterruptedWaits(i) == To("retiring", written[i])
\* `interrupted`: an entry gone after its move was requested proves nothing.
Interrupted(i) == SettleAs(i, "uncertain")

Goto(p)   == at' = p /\ UNCHANGED <<item, next, refused, lapsed>>
Decide(c) == at' = "record" /\ next' = c /\ UNCHANGED <<item, refused, lapsed>>
Blocked   == Decide(SettleAs(item, "blocked"))

\* `validate_change`: what the catalog accepts of an operation of this kind.
PhaseFits(p)   == \/ kind = "trash" /\ p \in {"pending", "retiring", "settled"}
                  \/ kind = "copy" /\ p # "retiring"
                  \/ kind = "move"
OutcomeFits(o) == \/ o = "trashed" /\ kind = "trash"
                  \/ o = "copied" /\ kind = "copy"
                  \/ o \in {"moved", "sourceKept"} /\ kind = "move"
                  \/ o \in {"none", "blocked", "uncertain"}
Accepted(p, o, w) ==
    /\ PhaseFits(p) /\ OutcomeFits(o)
    /\ p = "settled" <=> o # "none"
    /\ p \in {"writing", "installed", "verified"} => w # "none"
    /\ p = "retiring" /\ kind = "move" => w # "none"
    /\ kind = "trash" => w = "none"

\* The item's partial name no longer holds a file: `discard`, or a rename.
Discarded == [partial EXCEPT ![item] = "none"]
Placed(by, holds) == [copy EXCEPT ![item] = [by |-> by, holds |-> holds]]

-----------------------------------------------------------------------------
(* The executor: `run_storage_operation` and `step_storage_operation`.     *)

\* Claim the operation and start it, or resume it where it was left.
Claim ==
    /\ at = "idle"
    /\ operation # "settled"
    /\ operation' = "running"
    /\ at' = "step"
    /\ lapsed' = FALSE
    /\ UNCHANGED <<setting, disk, phase, outcome, written, item, next, refused, bounds>>

\* The first item without an outcome is advanced by one durable step.
First(i) == i \in Open /\ \A j \in Open : i <= j

Advances(i, k, p) ==
    /\ at = "step"
    /\ First(i)
    /\ kind \in k
    /\ phase[i] = p
    /\ item' = i

SettleOperation ==
    /\ at = "step"
    /\ Open = {}
    /\ operation' = "settled"
    /\ at' = "idle"
    /\ UNCHANGED <<setting, disk, phase, outcome, written, item, next, refused, lapsed, bounds>>

\* `record`: the change is committed, and the executor goes on or, called for
\* one step, returns.
Record ==
    /\ at = "record"
    /\ phase' = [phase EXCEPT ![item] = next.phase]
    /\ outcome' = [outcome EXCEPT ![item] = next.outcome]
    /\ written' = [written EXCEPT ![item] = next.written]
    /\ \/ at' = "step"
       \/ Open' # {} /\ at' = "idle"
    /\ lapsed' = FALSE
    /\ next' = NoChange
    /\ refused' = FALSE
    /\ UNCHANGED <<setting, disk, operation, item, bounds>>

-----------------------------------------------------------------------------
(* A transfer: Pending to Installed. *)

Changing(c) ==
    /\ at' = "record"
    /\ next' = c
    /\ UNCHANGED <<setting, catalog, refused, lapsed, bounds>>

\* `begin`: an empty partial copy, refused where the destination is taken.
Begin(i) ==
    /\ Advances(i, {"copy", "move"}, "pending")
    /\ IF copy[i].by = "none"
       THEN /\ partial' = [partial EXCEPT ![i] = "empty"]
            /\ Changing(To("writing", "ours"))
       ELSE /\ Changing(SettleAs(i, "blocked"))
            /\ UNCHANGED partial
    /\ UNCHANGED <<entry, bin, copy, aside>>

\* `write`, resumed with no partial: the destination holds the recorded copy,
\* or nothing tells where it went.
ResumeInstalled(i) ==
    /\ Advances(i, {"copy", "move"}, "writing")
    /\ partial[i] = "none"
    /\ Changing(IF Holds(i) THEN To("installed", written[i]) ELSE SettleAs(i, "blocked"))
    /\ UNCHANGED disk

\* variant: the second name of the installed copy stays.
SecondNameKept(i) == partial
\* `second_link`: an install by link stopped before it unlinked the partial.
SecondNameGone(i) == [partial EXCEPT ![i] = "none"]

ResumeLinked(i) ==
    /\ Advances(i, {"copy", "move"}, "writing")
    /\ partial[i] # "none"
    /\ copy[i].by = "ours"
    /\ partial' = SecondNameGone(i)
    /\ Changing(To("installed", written[i]))
    /\ UNCHANGED <<entry, bin, copy, aside>>

\* `fill_partial` truncates the partial and streams the source into it.
StartFill(i) ==
    /\ Advances(i, {"copy", "move"}, "writing")
    /\ partial[i] # "none"
    /\ copy[i].by # "ours"
    /\ partial' = [partial EXCEPT ![i] = "prefix"]
    /\ at' = "fill"
    /\ UNCHANGED <<setting, catalog, entry, bin, copy, aside, next, refused, lapsed, bounds>>

Fill ==
    /\ at = "fill"
    /\ entry[item] = "reviewed"
    /\ partial' = [partial EXCEPT ![item] = "whole"]
    /\ Goto("install")
    /\ UNCHANGED <<setting, catalog, entry, bin, copy, aside, bounds>>

\* The source is not what was reviewed, or the copy could not be written.
FillFails ==
    /\ at = "fill"
    /\ entry[item] # "reviewed" \/ "io" \in World
    /\ partial' = Discarded
    /\ Blocked
    /\ UNCHANGED <<setting, catalog, entry, bin, copy, aside, bounds>>

Installing == at \in {"install", "again"}

\* The folder is synced last: without it the copy stays and the item stops.
Synced(w) == Decide(To("installed", w)) \/ ("io" \in World /\ Blocked)

\* `install` by a no-replace rename.
InstallRenamed ==
    /\ Installing
    /\ volume.publish = "rename"
    /\ copy[item].by = "none"
    /\ copy' = Placed("ours", "whole")
    /\ partial' = Discarded
    /\ Synced("ours")
    /\ UNCHANGED <<setting, catalog, entry, bin, aside, bounds>>

\* By a hard link, which leaves the partial as a second name.
InstallLinked ==
    /\ Installing
    /\ volume.publish = "link"
    /\ copy[item].by = "none"
    /\ copy' = Placed("ours", "whole")
    /\ Goto("unlink")
    /\ UNCHANGED <<setting, catalog, entry, bin, partial, aside, bounds>>

Unlink ==
    /\ at = "unlink"
    /\ partial' = Discarded
    /\ Synced("ours")
    /\ UNCHANGED <<setting, catalog, entry, bin, copy, aside, bounds>>

\* By a copy onto a file created at the destination: `copy_onto_new`.
InstallCreated ==
    /\ Installing
    /\ volume.publish = "copy"
    /\ copy[item].by = "none"
    /\ copy' = Placed("made", "prefix")
    /\ Goto("copying")
    /\ UNCHANGED <<setting, catalog, entry, bin, partial, aside, bounds>>

\* The created file is read again and still stands at its name.
Copied ==
    /\ at = "copying"
    /\ copy[item] = [by |-> "made", holds |-> "prefix"]
    /\ copy' = Placed("made", "whole")
    /\ Goto("aside")
    /\ UNCHANGED <<setting, catalog, entry, bin, partial, aside, bounds>>

\* It is not, or a write fails: the created file goes while it is there.
CopyFails ==
    /\ \/ at = "copying" /\ (copy[item] # [by |-> "made", holds |-> "prefix"] \/ "io" \in World)
       \/ at \in {"aside", "removing"} /\ "io" \in World
    /\ copy' = IF copy[item].by = "made" THEN Placed("none", "nothing") ELSE copy
    /\ partial' = Discarded
    /\ aside' = aside \ {item}
    /\ Blocked
    /\ UNCHANGED <<setting, catalog, entry, bin, bounds>>

\* `remove_source`: the partial moves to a hidden name and is unlinked there.
MoveAside ==
    /\ at = "aside"
    /\ partial' = Discarded
    /\ aside' = aside \cup {item}
    /\ Goto("removing")
    /\ UNCHANGED <<setting, catalog, entry, bin, copy, bounds>>

RemoveAside ==
    /\ at = "removing"
    /\ aside' = aside \ {item}
    /\ Synced("made")
    /\ UNCHANGED <<setting, catalog, entry, bin, copy, partial, bounds>>

\* The name is taken: an unfinished copy of the partial makes way, once.
MakeWay ==
    /\ at = "install"
    /\ UnfinishedCopy(item)
    /\ copy' = Placed("none", "nothing")
    /\ Goto("again")
    /\ UNCHANGED <<setting, catalog, entry, bin, partial, aside, bounds>>

InstallFails ==
    /\ Installing
    /\ \/ copy[item].by # "none" /\ (at = "again" \/ ~UnfinishedCopy(item))
       \/ copy[item].by = "none" /\ "io" \in World
    /\ partial' = Discarded
    /\ Blocked
    /\ UNCHANGED <<setting, catalog, entry, bin, copy, aside, bounds>>

\* `verify`: the destination is read again.  A Copy ends here.
Verify(i) ==
    /\ Advances(i, {"copy", "move"}, "installed")
    /\ Changing(IF ~HoldsWhole(i) THEN SettleAs(i, "blocked")
                ELSE IF kind = "copy" THEN SettleAs(i, "copied")
                ELSE To("verified", written[i]))
    /\ UNCHANGED disk

-----------------------------------------------------------------------------
(* Retirement: the source of a Move, or an entry of a Trash operation. *)

\* The intent is committed before the OS Trash is asked.
RecordIntent(i) ==
    /\ \/ Advances(i, {"trash"}, "pending")
       \/ Advances(i, {"move"}, "verified")
    /\ phase' = [phase EXCEPT ![i] = "retiring"]
    /\ at' = "support"
    /\ UNCHANGED <<setting, disk, operation, outcome, written, next, refused, lapsed, bounds>>

\* An intent recorded before an interruption: the entry is still in place and
\* is retired now, or it is gone and nobody knows where.
ResumeRetiring(i) ==
    /\ Advances(i, {"trash", "move"}, "retiring")
    /\ InPlace(i)
    /\ at' = "support"
    /\ UNCHANGED <<setting, disk, catalog, next, refused, lapsed, bounds>>

ResumeInterrupted(i) ==
    /\ Advances(i, {"trash", "move"}, "retiring")
    /\ ~InPlace(i)
    /\ Changing(Interrupted(i))
    /\ UNCHANGED disk

\* `retire`: support first, then the destination, the kept copies and the
\* source itself, then the move.
CheckSupport ==
    /\ at = "support"
    /\ IF item \in trashable THEN Goto("verifyCopy")
       ELSE Decide(SettleAs(item, IF kind = "move" THEN "sourceKept" ELSE "blocked"))
    /\ UNCHANGED <<setting, disk, catalog, bounds>>

VerifyCopy ==
    /\ at = "verifyCopy"
    /\ IF kind = "move" => HoldsWhole(item) THEN Goto("verifyKept") ELSE Blocked
    /\ UNCHANGED <<setting, disk, catalog, bounds>>

VerifyKept ==
    /\ at = "verifyKept"
    /\ IF KeptProven(item) THEN Goto("verifySource") ELSE Blocked
    /\ UNCHANGED <<setting, disk, catalog, bounds>>

VerifySource ==
    /\ at = "verifySource"
    /\ IF entry[item] = "reviewed" THEN Goto("trash") ELSE Blocked
    /\ UNCHANGED <<setting, disk, catalog, bounds>>

\* The OS moves what stands at the path now.  Where it may refuse, what it
\* reports and what it did may differ.
MoveToTrash ==
    /\ at = "trash"
    /\ \E moved, reports \in BOOLEAN :
          /\ moved => entry[item] # "gone"
          /\ reports = moved \/ "refuse" \in World
          /\ moved \/ entry[item] = "gone" \/ "refuse" \in World
          /\ entry' = IF moved THEN [entry EXCEPT ![item] = "gone"] ELSE entry
          /\ bin' = IF moved THEN [bin EXCEPT ![item] = entry[item]] ELSE bin
          /\ refused' = ~reports
    /\ at' = "observe"
    /\ UNCHANGED <<setting, catalog, copy, partial, aside, item, next, lapsed, bounds>>

\* Only the entry's own path says what became of it.
Observed ==
    IF entry[item] = "gone" /\ ~refused
    THEN SettleAs(item, IF kind = "move" THEN "moved" ELSE "trashed")
    ELSE SettleAs(item, IF InPlace(item) THEN "blocked" ELSE "uncertain")

Observe ==
    /\ at = "observe"
    /\ Decide(Observed)
    /\ UNCHANGED <<setting, disk, catalog, bounds>>

-----------------------------------------------------------------------------
(* Faults and the world outside. *)

\* The process stops, or an error ends the run; the next one resumes.
Crash ==
    /\ at # "idle"
    /\ faults < MaxFaults
    /\ faults' = faults + 1
    /\ at' = "idle"
    /\ next' = NoChange
    /\ refused' = FALSE
    /\ UNCHANGED <<setting, disk, catalog, item, lapsed, changes>>

Outside(event) ==
    /\ event \in World
    /\ changes < MaxChanges
    /\ changes' = changes + 1
    /\ lapsed' = (lapsed \/ at \in Relying)
    /\ UNCHANGED <<setting, catalog, partial, aside, at, item, next, refused, faults>>

EditEntry(f) ==
    /\ entry[f] = "reviewed"
    /\ entry' = [entry EXCEPT ![f] = "edited"]
    /\ Outside("edit")
    /\ UNCHANGED <<bin, copy>>

ReplaceEntry(f) ==
    /\ entry' = [entry EXCEPT ![f] = "other"]
    /\ Outside("replace")
    /\ UNCHANGED <<bin, copy>>

DeleteEntry(f) ==
    /\ entry' = [entry EXCEPT ![f] = "gone"]
    /\ Outside("delete")
    /\ UNCHANGED <<bin, copy>>

PutBack(i) ==
    /\ bin[i] # "gone"
    /\ entry[i] = "gone"
    /\ entry' = [entry EXCEPT ![i] = bin[i]]
    /\ bin' = [bin EXCEPT ![i] = "gone"]
    /\ Outside("putback")
    /\ UNCHANGED copy

TakeName(i, holds) ==
    /\ copy[i].by = "none"
    /\ copy' = [copy EXCEPT ![i] = [by |-> "theirs", holds |-> holds]]
    /\ Outside("take")
    /\ UNCHANGED <<entry, bin>>

SpoilCopy(i) ==
    /\ copy[i].by # "none"
    /\ copy' = [copy EXCEPT ![i].holds = "other"]
    /\ Outside("spoil")
    /\ UNCHANGED <<entry, bin>>

ClearName(i) ==
    /\ copy[i].by # "none"
    /\ copy' = [copy EXCEPT ![i] = NoCopy]
    /\ Outside("clear")
    /\ UNCHANGED <<entry, bin>>

-----------------------------------------------------------------------------
Transfer ==
    \/ \E i \in Items : Begin(i) \/ ResumeInstalled(i) \/ ResumeLinked(i) \/ StartFill(i) \/ Verify(i)
    \/ Fill \/ FillFails
    \/ InstallRenamed \/ InstallLinked \/ Unlink \/ InstallCreated \/ Copied \/ CopyFails
    \/ MoveAside \/ RemoveAside \/ MakeWay \/ InstallFails

Retire ==
    \/ \E i \in Items : RecordIntent(i) \/ ResumeRetiring(i) \/ ResumeInterrupted(i)
    \/ CheckSupport \/ VerifyCopy \/ VerifyKept \/ VerifySource \/ MoveToTrash \/ Observe

Execute == Claim \/ SettleOperation \/ Record \/ Transfer \/ Retire

ChangedOutside ==
    \/ \E f \in Entries : EditEntry(f) \/ ReplaceEntry(f) \/ DeleteEntry(f)
    \/ \E i \in Items :
          \/ PutBack(i) \/ SpoilCopy(i) \/ ClearName(i)
          \/ \E holds \in {"prefix", "whole", "other"} : TakeName(i, holds)

Next == Execute \/ Crash \/ ChangedOutside

Spec == Init /\ [][Next]_vars

\* The executor is a task of the process, and every start resumes what an
\* earlier process left running (`recover_wrap_up`).
FairSpec == Spec /\ WF_vars(Execute)

-----------------------------------------------------------------------------
(* Properties. *)

DiskOK ==
    /\ entry \in [Entries -> Standing]
    /\ bin \in [Items -> Standing]
    /\ copy \in [Items -> Copy]
    /\ partial \in [Items -> {"none", "empty", "prefix", "whole"}]
    /\ aside \in SUBSET Items
CatalogOK ==
    /\ operation \in {"reviewed", "running", "settled"}
    /\ phase \in [Items -> Phases]
    /\ outcome \in [Items -> Outcomes]
    /\ written \in [Items -> {"none", "ours", "made"}]
    /\ \A i \in Items : Accepted(phase[i], outcome[i], written[i])
ProcessOK ==
    /\ at \in Places /\ item \in Items /\ next \in Change
    /\ refused \in BOOLEAN /\ lapsed \in BOOLEAN
    /\ at = "record" => Accepted(next.phase, next.outcome, next.written)
BoundsOK == faults \in 0..MaxFaults /\ changes \in 0..MaxChanges

\* Every variable has its type, the bounds included, and the catalog accepts
\* every change the executor is about to record: a change it refused
\* (`validate_change`) would end the run, again at every resume.
TypeOK ==
    /\ kind \in Kinds /\ volume \in Volumes /\ trashable \in SUBSET Items
    /\ DiskOK /\ CatalogOK /\ ProcessOK /\ BoundsOK

\* An item settles as what happened to it, across a crash between the request
\* to the OS Trash and its record: Blocked, Copied and source-kept items have
\* nothing in the Trash, Trashed and Moved ones do, Copied and Moved ones have
\* their bytes at the destination (ItemOutcome).
SettledAsHappened(i) ==
    outcome[i] = "none" =>
        /\ outcome'[i] \in {"blocked", "copied", "sourceKept"} => bin[i] = "gone"
        /\ outcome'[i] \in {"trashed", "moved"} /\ ~lapsed => bin[i] # "gone"
        /\ outcome'[i] \in {"copied", "moved"} /\ ~lapsed => copy[i].holds = "whole"
SettlesTruthfully == [][\A i \in Items : SettledAsHappened(i)]_vars

\* An entry leaves for the Trash only as reviewed, over a destination and kept
\* copies that hold their bytes, however long ago the journal proved them;
\* only a change after the last check is out of reach (D19).
RetiredAsProven(i) ==
    bin[i] = "gone" /\ bin'[i] # "gone" /\ ~lapsed =>
        /\ entry[i] = "reviewed"
        /\ kind = "move" => copy[i].holds = "whole"
        /\ kind = "trash" => \A k \in ReliedOn[i] : entry[k] = "reviewed"
RetiresProven == [][\A i \in Items : RetiredAsProven(i)]_vars

\* Of two entries that rely on each other at most one is in the Trash.
OneCopyStays ==
    \A i, j \in Items : i \in ReliedOn[j] /\ j \in ReliedOn[i] /\ kind = "trash"
        => bin[i] = "gone" \/ bin[j] = "gone"

\* No step of the executor takes a file of someone else's with bytes of its own
\* from a destination, crashed and resumed as often as it may be.
ForeignKept(i) ==
    changes' = changes /\ copy[i].by = "theirs" /\ copy[i].holds = "other" => copy'[i] = copy[i]
ForeignBytesStay == [][\A i \in Items : ForeignKept(i)]_vars

\* A settled operation leaves no bytes under a hidden name, on a volume with a
\* no-replace rename or links: a partial is at its destination or removed.
NothingHidden ==
    operation = "settled" /\ volume.publish # "copy" =>
        aside = {} /\ \A i \in Items : partial[i] \in {"none", "empty"}

\* Liveness.  Started, an operation ends with an outcome for every item,
\* however it is interrupted.
OperationSettles == operation = "running" ~> operation = "settled"

(***************************************************************************)
(* The journal implements AtomicCustody.  A copy is there once it is whole *)
(* at the destination and no step takes it back: the partial's name is     *)
(* gone, and so is the partial where the volume made a copy of it.         *)
(***************************************************************************)
Delivered == {i \in Items :
    /\ copy[i].holds = "whole"
    /\ partial[i] = "none"
    /\ written[i] # "none"
    /\ ~(at = "removing" /\ item = i)}

Promise == INSTANCE AtomicCustody WITH
    there  <- Delivered,
    away   <- {i \in Items : bin[i] # "gone"},
    result <- outcome

\* Refinement, where nobody outside touches destinations or the Trash: crashed
\* anywhere, every step is one of the promise's or none.
ImplementsPromise == Promise!Spec

-----------------------------------------------------------------------------
(* What the code's words say of it, and a run refutes. *)

\* "the partial goes once the copy is verified" (`install`), on a volume that
\* publishes by copy too.
PartialGoes ==
    operation = "settled" => aside = {}
=============================================================================
