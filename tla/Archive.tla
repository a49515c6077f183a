------------------------------ MODULE Archive ------------------------------
(***************************************************************************)
(* One archive, of a closing Project or of Sessions > Archive: each frame  *)
(* is copied and verified, its record moves, the links of kept Views that  *)
(* read it are rebuilt, and its original leaves for the OS Trash; stopped  *)
(* anywhere and resumed from what was recorded, beside a user who changes  *)
(* files and links, disks that go away, scans and other Projects.          *)
(*                                                                         *)
(* Sources: crates/platevault-core/src/wrap_up/archive.rs, custody/        *)
(* journal.rs and crates/persistence/library/src/{project_wrap_up,         *)
(* storage}.rs.  The steps of one transfer are StorageJournal's.           *)
(***************************************************************************)
EXTENDS Integers, FiniteSets

CONSTANTS
    Files,       \* the frames, by the sequence number of their move
    Links,       \* links of kept Views, by their order
    FileOf,      \* the frame each link reads
    Swaps,       \* how this platform puts a link in another's place
    MaxFaults,   \* bound: crashes, failed calls and stops asked for
    MaxChanges,  \* bound: changes from outside
    World        \* what the outside may do in this instance

\* A source is edited, or deleted; the copy is spoiled; a link is replaced or
\* deleted; the destination goes away and comes back; the transfer, the OS Trash
\* or a call on a link is refused; a scan changes the frame's record; another
\* Project takes the session in, and applies.
WorldEvents == {"source", "copy", "link", "root", "refuse", "scan", "hold"}

ASSUME InstanceAssumption ==
    /\ Files \subseteq Nat /\ IsFiniteSet(Files) /\ Files # {}
    /\ Links \subseteq Nat /\ IsFiniteSet(Links)
    /\ FileOf \in [Links -> Files]
    /\ Swaps \subseteq {"exchange", "aside"}
    /\ MaxFaults \in Nat /\ MaxChanges \in Nat
    /\ World \subseteq WorldEvents

Outcomes == {"none", "archived", "sourceRetained", "blocked", "uncertain"}

VARIABLES
    \* what it was journaled with
    swap,        \* this platform's way
    own,         \* a closing Project's, not Sessions > Archive's
    \* the disk
    source,      \* each original: "there", "changed" or "gone"
    bin,         \* originals moved to the OS Trash
    copy,        \* each copy: "none", "whole" or "spoiled"
    root,        \* the destination is the registered folder
    name,        \* at a link's name: "old" reads the original, "new" the copy,
                 \* "other" is someone else's, "none" is nothing
    staged,      \* beside it, under the staged name
    aside,       \* and under the name the old one waits at
    touched,     \* links changed from outside
    \* the catalog
    storage,     \* the storage operation: "reviewed", "running" or "settled"
    phase,       \* of each item: "pending", "verified", "retiring" or "settled"
    item,        \* of each item: its outcome, "none" until then
    repointed,   \* moves whose record reads the copy
    linked,      \* links recorded to read it
    outcome,     \* of each move
    changed,     \* records a scan changed since the review
    lifecycle,   \* of the closing Project
    held,        \* what another open Project's View places of each frame
    \* the run
    at, file, links, keeping,
    faults, changes

setting == <<swap, own>>
frames  == <<source, bin, copy, root>>
entries == <<name, staged, aside, touched>>
journal == <<storage, phase, item>>
moves   == <<repointed, linked, outcome>>
catalog == <<changed, lifecycle, held>>
process == <<at, file, links, keeping>>
bounds  == <<faults, changes>>
world   == <<setting, frames, entries, journal, moves, catalog, bounds>>
vars    == <<swap, own, source, bin, copy, root, name, staged, aside, touched, storage, phase, item,
             repointed, linked, outcome, changed, lifecycle, held, at, file, links, keeping,
             faults, changes>>

\* The outcome `keep_source` was asked to record.
NoKeeping == "none"

Init ==
    /\ swap \in Swaps
    /\ own \in BOOLEAN
    /\ source = [f \in Files |-> "there"] /\ bin = {}
    /\ copy = [f \in Files |-> "none"] /\ root = TRUE
    /\ name = [l \in Links |-> "old"]
    /\ staged = [l \in Links |-> "none"] /\ aside = [l \in Links |-> "none"]
    /\ touched = {}
    /\ storage = "reviewed"
    /\ phase = [f \in Files |-> "pending"] /\ item = [f \in Files |-> "none"]
    /\ repointed = {} /\ linked = {}
    /\ outcome = [f \in Files |-> "none"]
    /\ changed = {} /\ held = [f \in Files |-> "none"]
    /\ lifecycle = IF own THEN "closing" ELSE "none"
    /\ at = "pick" /\ file \in {CHOOSE f \in Files : \A g \in Files : f <= g}
    /\ links = {} /\ keeping = NoKeeping
    /\ faults = 0 /\ changes = 0

-----------------------------------------------------------------------------
(* Helpers.  A definition marked `variant` is what a slip in the code it   *)
(* stands beside would make of that code; no action uses one.              *)

Least(S) == CHOOSE n \in S : \A m \in S : n <= m
Open     == {f \in Files : outcome[f] = "none"}
LinksTo(f) == {l \in Links : FileOf[l] = f}

Goto(where) == at' = where /\ UNCHANGED <<file, links, keeping>>
Rests(where) == at = where /\ UNCHANGED world

\* Settle this file without retiring its original.
Keep(o) == at' = "keepItem" /\ keeping' = o /\ UNCHANGED <<file, links>>

\* `settle_move`: the outcome of a move whose item settled.
OutcomeOf(o, moved) ==
    CASE o = "moved" /\ moved  -> "archived"
      [] o = "uncertain"       -> "uncertain"
      [] o # "uncertain" /\ moved /\ o # "moved" -> "sourceRetained"
      [] OTHER                 -> "blocked"

-----------------------------------------------------------------------------
(* `run_archive` and `archive_one`.                                        *)

\* The next move without an outcome, in order; or none is left.
Pick ==
    /\ at = "pick" /\ Open # {}
    /\ file' = Least(Open)
    /\ at' = "item"
    /\ UNCHANGED <<links, keeping, world>>

PickNone ==
    /\ Rests("pick") /\ Open = {}
    /\ Goto("settleStorage")

\* The item's phase says where a run goes on.
ItemSettled ==
    /\ Rests("item") /\ item[file] # "none"
    /\ Goto("settleMove")

ItemVerified ==
    /\ Rests("item") /\ phase[file] = "verified"
    /\ Goto("check")

\* A retirement already requested is resumed whatever the root.
ItemRetiring ==
    /\ Rests("item") /\ phase[file] = "retiring"
    /\ Goto("last")

\* The root is checked before each step of the journal that writes below it.
ItemPending ==
    /\ Rests("item") /\ phase[file] = "pending"
    /\ IF root THEN Goto("transfer") ELSE Keep("blocked")

SetItem(f, ph, o) == phase' = [phase EXCEPT ![f] = ph] /\ item' = [item EXCEPT ![f] = o]

\* A step that gives the last item its outcome settles the operation too.
AfterItem(o) ==
    IF o # "none" /\ \A f \in Files \ {file} : item[f] # "none" THEN "settled" ELSE "running"

\* The transfer up to its verified copy, or an outcome without one.
Transfer ==
    /\ at = "transfer" /\ root /\ source[file] = "there" /\ copy[file] = "none"
    /\ copy' = [copy EXCEPT ![file] = "whole"]
    /\ SetItem(file, "verified", "none")
    /\ storage' = AfterItem("none")
    /\ Goto("item")
    /\ UNCHANGED <<source, bin, root, setting, entries, moves, catalog, bounds>>

TransferBlocked ==
    /\ at = "transfer"
    /\ ~root \/ source[file] # "there" \/ copy[file] # "none" \/ "refuse" \in World
    /\ SetItem(file, "settled", "blocked")
    /\ storage' = AfterItem("blocked")
    /\ Goto("item")
    /\ UNCHANGED <<setting, frames, entries, moves, catalog, bounds>>

\* `destination_root` and `verified_copy`: read again before anything moves.
VerifiedNow(f) == root /\ copy[f] = "whole"

\* variant: a record that moved is taken as moved with its links.
NextAfterCheckOnce(f) == IF f \in repointed THEN "last" ELSE "moveRecord"
\* Where a checked file goes on.
NextAfterCheck(f) == IF f \in repointed THEN "links" ELSE "moveRecord"

CheckCopy ==
    /\ Rests("check")
    /\ IF VerifiedNow(file) THEN Goto(NextAfterCheck(file))
       ELSE Keep(IF file \in repointed THEN "sourceRetained" ELSE "blocked")

\* `record_archive_repoint`: the record is the one reviewed, no other frame is
\* recorded where its copy is, and it moves.
MoveRecord ==
    /\ at = "moveRecord" /\ file \notin changed
    /\ repointed' = repointed \cup {file}
    /\ Goto("links")
    /\ UNCHANGED <<linked, outcome, setting, frames, entries, journal, catalog, bounds>>

MoveRecordConflict ==
    /\ Rests("moveRecord") /\ file \in changed
    /\ Keep("blocked")

\* `kept_view_links`, less those recorded.
ListLinks ==
    /\ at = "links"
    /\ links' = LinksTo(file) \ linked
    /\ at' = "link"
    /\ UNCHANGED <<file, keeping, world>>

\* The second loop: the root again, then the journal's last step.
LinksDone ==
    /\ Rests("link") /\ links = {}
    /\ Goto("last")

Last ==
    /\ Rests("last") /\ item[file] = "none"
    /\ IF phase[file] = "verified" /\ ~root THEN Keep("sourceRetained") ELSE Goto("retire")

LastSettled ==
    /\ Rests("last") /\ item[file] # "none"
    /\ Goto("settleMove")

\* The intent is recorded before the original moves.
RecordIntent ==
    /\ at = "retire" /\ phase[file] = "verified"
    /\ SetItem(file, "retiring", "none")
    /\ storage' = AfterItem("none")
    /\ Goto("trash")
    /\ UNCHANGED <<setting, frames, entries, moves, catalog, bounds>>

ResumeRetiring ==
    /\ Rests("retire") /\ phase[file] = "retiring" /\ source[file] = "there"
    /\ Goto("trash")

ResumeInterrupted ==
    /\ at = "retire" /\ phase[file] = "retiring" /\ source[file] # "there"
    /\ SetItem(file, "settled", "uncertain")
    /\ storage' = AfterItem("uncertain")
    /\ Goto("last")
    /\ UNCHANGED <<setting, frames, entries, moves, catalog, bounds>>

\* The copy and the original are verified once more.
RetiresProven(f) == source[f] = "there" /\ root /\ copy[f] = "whole"

MoveToTrash ==
    /\ at = "trash" /\ RetiresProven(file)
    /\ source' = [source EXCEPT ![file] = "gone"]
    /\ bin' = bin \cup {file}
    /\ Goto("observe")
    /\ UNCHANGED <<copy, root, setting, entries, journal, moves, catalog, bounds>>

KeepAtTrash ==
    /\ at = "trash" /\ (~RetiresProven(file) \/ "refuse" \in World)
    /\ \E o \in {"sourceKept", "blocked"} :
         SetItem(file, "settled", o) /\ storage' = AfterItem(o)
    /\ Goto("last")
    /\ UNCHANGED <<setting, frames, entries, moves, catalog, bounds>>

RecordMoved ==
    /\ at = "observe"
    /\ SetItem(file, "settled", "moved")
    /\ storage' = AfterItem("moved")
    /\ Goto("last")
    /\ UNCHANGED <<setting, frames, entries, moves, catalog, bounds>>

SettleMove ==
    /\ at = "settleMove"
    /\ outcome' = [outcome EXCEPT ![file] = OutcomeOf(item[file], file \in repointed)]
    /\ Goto("pick")
    /\ UNCHANGED <<repointed, linked, setting, frames, entries, journal, catalog, bounds>>

\* `keep_source`: the item settles, then its move, in two writes.
KeepItem ==
    /\ at = "keepItem"
    /\ SetItem(file, "settled", IF phase[file] = "verified" THEN "sourceKept" ELSE "blocked")
    /\ storage' = "running"
    /\ Goto("keepMove")
    /\ UNCHANGED <<setting, frames, entries, moves, catalog, bounds>>

KeepMove ==
    /\ at = "keepMove"
    /\ outcome' = [outcome EXCEPT ![file] = keeping]
    /\ at' = "pick" /\ keeping' = NoKeeping
    /\ UNCHANGED <<file, links, repointed, linked, setting, frames, entries, journal, catalog, bounds>>

SettleStorage ==
    /\ at = "settleStorage"
    /\ storage' = "settled"
    /\ Goto("settleArchive")
    /\ UNCHANGED <<phase, item, setting, frames, entries, moves, catalog, bounds>>

\* variant: by what was archived whole.
SettlesArchived == \E f \in Files : outcome[f] = "archived"
\* `settle_archive`: Archived once a record moved, else Closed.
SettlesMoved == repointed # {}

SettleArchive ==
    /\ at = "settleArchive"
    /\ lifecycle' = IF lifecycle # "closing" THEN lifecycle
                    ELSE IF SettlesMoved THEN "archived" ELSE "closed"
    /\ Goto("idle")
    /\ UNCHANGED <<changed, held, setting, frames, entries, journal, moves, bounds>>

-----------------------------------------------------------------------------
(* `repoint_link`: the next kept link.  Nothing but the recorded link is   *)
(* moved or deleted, by a check of what is found that follows no link.     *)

\* variant: what was renamed there is taken as the recorded link.
FoundAt(where, l) == where[l] # "none"
\* `recorded_at`.
RecordedAt(where, l) == where[l] = "old"
\* What `discard` leaves at the staged name.
Discarded(entry) == IF entry = "new" THEN "none" ELSE entry

LinkAt(where)      == at = where /\ links # {}
LinkRestsAt(where) == LinkAt(where) /\ UNCHANGED world
EntriesOnly        == UNCHANGED <<touched, setting, frames, journal, moves, catalog>>
Set(f, l, v)       == [f EXCEPT ![l] = v]

\* A call on the disk fails for this reason, or for one of its own.
Refused ==
    /\ "refuse" \in World /\ faults < MaxFaults
    /\ faults' = faults + 1 /\ UNCHANGED changes
Fails(reason) == (reason /\ UNCHANGED bounds) \/ Refused
\* Every name stays as it is, and so does the original.
NamesStay == Keep("sourceRetained") /\ UNCHANGED <<name, staged, aside>> /\ EntriesOnly

LinkRootGone ==
    /\ LinkRestsAt("link") /\ ~root
    /\ Keep("sourceRetained")

\* variant: the old link a stop left aside is taken as rubbish.
FreeName(l) == FALSE
\* `vacant`: the link's own name is free to be put back at.
Vacant(l) == name[l] = "none"

\* One of the two names beside it holds the old link.
Waits(l) == RecordedAt(staged, l) \/ RecordedAt(aside, l)

\* `settle_leftovers`: the old link is put back while its name is free and
\* deleted once the new one has it; a new one not in place is removed.
SettleLeftovers ==
    /\ LinkAt("link") /\ root
    /\ LET l       == Least(links)
           settled == Waits(l) /\ name[l] \in {"none", "new"}
       IN /\ name' = IF Waits(l) /\ Vacant(l) THEN Set(name, l, "old") ELSE name
          /\ staged' = Set(staged, l, IF settled /\ RecordedAt(staged, l) THEN "none"
                                      ELSE Discarded(staged[l]))
          /\ aside' = IF settled /\ RecordedAt(aside, l) THEN Set(aside, l, "none") ELSE aside
    /\ Goto("proveLink")
    /\ EntriesOnly /\ UNCHANGED bounds

\* The old link can't be put back.
LeftoversRefused ==
    /\ LinkAt("link") /\ root /\ Waits(Least(links)) /\ Vacant(Least(links))
    /\ Refused
    /\ NamesStay

ReadsCopy ==
    /\ LinkRestsAt("proveLink") /\ name[Least(links)] = "new"
    /\ Goto("readBack")

StageLink ==
    /\ LinkAt("proveLink")
    /\ LET l == Least(links) IN
          /\ RecordedAt(name, l) /\ staged[l] = "none"
          /\ staged' = Set(staged, l, "new")
    /\ Goto("swap")
    /\ UNCHANGED <<name, aside, bounds>> /\ EntriesOnly

\* Something else is at the name or at the staged one, the name can't be read,
\* or no link be made.
StageRefused ==
    /\ LinkAt("proveLink")
    /\ LET l == Least(links) IN
          Fails(name[l] \notin {"old", "new"} \/ (RecordedAt(name, l) /\ staged[l] # "none"))
    /\ NamesStay

\* `exchange`: one step swaps the two names.
Exchange ==
    /\ LinkAt("swap") /\ swap = "exchange"
    /\ LET l == Least(links) IN
          /\ name[l] # "none"
          /\ name' = Set(name, l, staged[l]) /\ staged' = Set(staged, l, name[l])
    /\ Goto("proveOld")
    /\ UNCHANGED <<aside, bounds>> /\ EntriesOnly

\* `move_aside`, where no exchange is to be had: two renames, and the name is
\* free between them.  Neither replaces an entry.
MoveAside ==
    /\ LinkAt("swap") /\ swap = "aside"
    /\ LET l == Least(links) IN
          /\ name[l] # "none" /\ aside[l] = "none"
          /\ aside' = Set(aside, l, name[l]) /\ name' = Set(name, l, "none")
    /\ Goto("install")
    /\ UNCHANGED <<staged, bounds>> /\ EntriesOnly

\* Neither the exchange nor the first rename: the new link is discarded.
SwapRefused ==
    /\ LinkAt("swap")
    /\ LET l == Least(links) IN
          /\ Fails(name[l] = "none" \/ (swap = "aside" /\ aside[l] # "none"))
          /\ staged' = Set(staged, l, Discarded(staged[l]))
    /\ Keep("sourceRetained")
    /\ UNCHANGED <<name, aside>> /\ EntriesOnly

ProveOld ==
    /\ LinkAt("proveOld") /\ RecordedAt(staged, Least(links))
    /\ staged' = Set(staged, Least(links), "none")
    /\ Goto("readBack")
    /\ UNCHANGED <<name, aside, bounds>> /\ EntriesOnly

\* Something else was there, or it can't be read: it goes back.
ExchangeBack ==
    /\ LinkAt("proveOld")
    /\ LET l == Least(links) IN
          /\ Fails(~RecordedAt(staged, l)) /\ name[l] # "none"
          /\ name' = Set(name, l, staged[l])
          /\ staged' = Set(staged, l, Discarded(name[l]))
    /\ Keep("sourceRetained")
    /\ UNCHANGED aside /\ EntriesOnly

Install ==
    /\ LinkAt("install")
    /\ LET l == Least(links) IN
          /\ RecordedAt(aside, l) /\ name[l] = "none"
          /\ name' = Set(name, l, staged[l]) /\ staged' = Set(staged, l, "none")
    /\ Goto("dropOld")
    /\ UNCHANGED <<aside, bounds>> /\ EntriesOnly

\* Not the recorded link, or the install is refused: it goes back.
PutBack ==
    /\ LinkAt("install")
    /\ LET l == Least(links) IN
          /\ Fails(~RecordedAt(aside, l)) /\ name[l] = "none"
          /\ name' = Set(name, l, aside[l]) /\ aside' = Set(aside, l, "none")
          /\ staged' = Set(staged, l, Discarded(staged[l]))
    /\ Keep("sourceRetained")
    /\ EntriesOnly

\* By either way it can't go back, and waits beside its name (`stranded`).
Stranded ==
    /\ LET l == Least(links) IN
          \/ LinkAt("proveOld") /\ Fails(~RecordedAt(staged, l) /\ name[l] = "none")
          \/ LinkAt("install") /\ Fails(name[l] # "none")
    /\ NamesStay

DropOld ==
    /\ LinkAt("dropOld")
    /\ aside' = Set(aside, Least(links), "none")
    /\ Goto("readBack")
    /\ UNCHANGED <<name, staged, bounds>> /\ EntriesOnly

\* The old link can't be deleted, by either way.
DropRefused ==
    /\ \/ LinkAt("proveOld") /\ RecordedAt(staged, Least(links))
       \/ LinkAt("dropOld")
    /\ Refused
    /\ NamesStay

\* `link_identity`: what the name holds now is what the record says of it.
ReadBack ==
    /\ LinkRestsAt("readBack") /\ name[Least(links)] # "none"
    /\ Goto("recordLink")

ReadBackRefused ==
    /\ LinkAt("readBack")
    /\ Fails(name[Least(links)] = "none")
    /\ NamesStay

\* `record_kept_link_repoint`.
RecordLink ==
    /\ LinkAt("recordLink")
    /\ linked' = linked \cup {Least(links)}
    /\ links' = links \ {Least(links)} /\ at' = "link"
    /\ UNCHANGED <<file, keeping, repointed, outcome, setting, frames, entries, journal, catalog,
                   bounds>>

-----------------------------------------------------------------------------
(* Stops, the next start, and the world outside.                           *)

\* A stop asked for, a failed call or a crash: what was recorded stays.
Stop ==
    /\ at # "idle" /\ faults < MaxFaults
    /\ at' = "idle" /\ links' = {} /\ keeping' = NoKeeping /\ faults' = faults + 1
    /\ UNCHANGED <<file, setting, frames, entries, journal, moves, catalog, changes>>

\* variant: only an archive a Project closed with.
UnsettledOwned == own /\ lifecycle = "closing"
\* `unsettled_archives`.
Unsettled == Open # {} \/ (own /\ lifecycle = "closing")

\* `recover_wrap_up`.
Resume ==
    /\ Rests("idle") /\ Unsettled
    /\ Goto("pick")

Outside(event) ==
    /\ event \in World /\ changes < MaxChanges
    /\ changes' = changes + 1
    /\ UNCHANGED <<setting, process, journal, moves, lifecycle, faults, bin, staged, aside>>

ChangeSource ==
    /\ Outside("source")
    /\ \E f \in Files, s \in {"changed", "gone"} :
          source[f] = "there" /\ source' = [source EXCEPT ![f] = s]
    /\ UNCHANGED <<copy, root, name, touched, changed, held>>

SpoilCopy ==
    /\ Outside("copy")
    /\ \E f \in Files : copy[f] = "whole" /\ copy' = [copy EXCEPT ![f] = "spoiled"]
    /\ UNCHANGED <<source, root, name, touched, changed, held>>

\* A link is deleted, replaced, or its free name taken.
ChangeLink ==
    /\ Outside("link")
    /\ \E l \in Links, e \in {"other", "none"} :
          /\ name[l] # e
          /\ name' = [name EXCEPT ![l] = e]
          /\ touched' = touched \cup {l}
    /\ UNCHANGED <<source, copy, root, changed, held>>

SwitchRoot ==
    /\ Outside("root")
    /\ root' = ~root
    /\ UNCHANGED <<source, copy, name, touched, changed, held>>

\* A scan refreshes the record of an edited original, or records the copy as a
\* frame of its own: either way the record can't move.
Scan ==
    /\ Outside("scan")
    /\ \E f \in Files \ repointed :
          /\ source[f] = "changed" \/ copy[f] # "none"
          /\ changed' = changed \cup {f}
    /\ UNCHANGED <<source, copy, root, name, touched, held>>

\* Another Project takes the session in and applies: its View places a link
\* to where the record is now.
Hold ==
    /\ Outside("hold")
    /\ \E f \in Files :
          /\ held[f] = "none"
          /\ held' = [held EXCEPT ![f] = IF f \in repointed THEN "copy" ELSE "original"]
    /\ UNCHANGED <<source, copy, root, name, touched, changed>>

Changed == ChangeSource \/ SpoilCopy \/ ChangeLink \/ SwitchRoot \/ Scan \/ Hold

Run ==
    \/ Pick \/ PickNone \/ ItemSettled \/ ItemVerified \/ ItemRetiring \/ ItemPending
    \/ Transfer \/ TransferBlocked \/ CheckCopy \/ MoveRecord \/ MoveRecordConflict
    \/ ListLinks \/ LinksDone \/ Last \/ LastSettled
    \/ RecordIntent \/ ResumeRetiring \/ ResumeInterrupted \/ MoveToTrash \/ KeepAtTrash
    \/ RecordMoved \/ SettleMove \/ KeepItem \/ KeepMove \/ SettleStorage \/ SettleArchive
    \/ LinkRootGone \/ SettleLeftovers \/ LeftoversRefused \/ ReadsCopy \/ StageLink
    \/ StageRefused \/ Exchange \/ MoveAside \/ SwapRefused \/ ProveOld \/ ExchangeBack
    \/ Install \/ PutBack \/ Stranded \/ DropOld \/ DropRefused \/ ReadBack \/ ReadBackRefused
    \/ RecordLink

Done == at = "idle" /\ ~Unsettled

Next == Run \/ Stop \/ Resume \/ Changed

Spec == Init /\ [][Next]_vars

\* PlateVault runs what it started and, stopped, starts again; nothing else is
\* owed to it.
FairSpec == Spec /\ WF_vars(Run) /\ WF_vars(Resume)

-----------------------------------------------------------------------------
(* Properties.                                                             *)

\* Every variable stays in its range.
TypeOK ==
    /\ swap \in Swaps /\ own \in BOOLEAN
    /\ source \in [Files -> {"there", "changed", "gone"}] /\ bin \subseteq Files
    /\ copy \in [Files -> {"none", "whole", "spoiled"}] /\ root \in BOOLEAN
    /\ name \in [Links -> {"old", "new", "other", "none"}]
    /\ staged \in [Links -> {"old", "new", "other", "none"}]
    /\ aside \in [Links -> {"old", "other", "none"}] /\ touched \subseteq Links
    /\ storage \in {"reviewed", "running", "settled"}
    /\ phase \in [Files -> {"pending", "verified", "retiring", "settled"}]
    /\ item \in [Files -> {"none", "moved", "sourceKept", "blocked", "uncertain"}]
    /\ repointed \subseteq Files /\ linked \subseteq Links
    /\ outcome \in [Files -> Outcomes] /\ changed \subseteq Files
    /\ lifecycle \in {"none", "closing", "closed", "archived"}
    /\ held \in [Files -> {"none", "original", "copy"}]
    /\ file \in Files /\ links \subseteq Links /\ keeping \in Outcomes
    /\ faults \in 0..MaxFaults /\ changes \in 0..MaxChanges

\* An original is in the OS Trash only when the catalog reads the copy and
\* every kept link nobody touched reads it too, by its name and by its record
\* ("a link that can't be repointed keeps the original").
KeptLinksRead ==
    \A f \in bin :
       /\ f \in repointed
       /\ \A l \in LinksTo(f) \ touched : name[l] = "new" /\ l \in linked

\* A recorded link nobody touched is always somewhere: at its name, or, while
\* a swap or a stop is in the middle, beside it.
NoLinkLost ==
    \A l \in Links \ touched :
       name[l] \in {"old", "new"} \/ staged[l] = "old" \/ aside[l] = "old"

\* A link the user put in a kept link's place is moved back or left; no step of
\* an archive, before or after a stop, deletes it.
Entries(l) == {e \in {<<"name", name[l]>>, <<"staged", staged[l]>>, <<"aside", aside[l]>>} :
                  e[2] = "other"}
ForeignLinkStays == [][Run => \A l \in Links : Cardinality(Entries(l)') >= Cardinality(Entries(l))]_vars

\* Every step keeps the order an archive promises, its outcomes say what became
\* of the record and of the original, and a Closing Project ends Archived
\* exactly when a record moved (STO-FR-06, `settle_move`, `settle_archive`).
Promised == INSTANCE AtomicArchive WITH
    project <- lifecycle, moved <- repointed, reads <- linked, away <- bin, result <- outcome
ImplementsPromise == Promised!Spec

\* Whatever stopped it, an archive settles: every frame has its outcome and a
\* Closing Project is Closed or Archived for good.
ArchiveSettles == <>[](Open = {} /\ lifecycle # "closing")

-----------------------------------------------------------------------------
(* What the code says of itself and a run refutes.                         *)

\* "A stop in between leaves the old link aside, which the next run puts back
\* before it checks the link again" (archive.rs, `move_aside`): an archive that
\* settled left no untouched link beside its own free name.
LinkPutBack == Done => \A l \in Links \ touched : name[l] # "none"

\* "keeps each session another open Project holds (or whose files its View
\* places) at its path" (archive.rs): an open View never reads an original the
\* archive trashed.
OpenViewReads == \A f \in Files : held[f] = "original" => f \notin bin
=============================================================================
