--------------------------- MODULE ArchiveProofs ---------------------------
(***************************************************************************)
(* Theorems of Archive: for any frames, kept links, ways of swapping them, *)
(* stops and changes from outside, in every world.                         *)
(***************************************************************************)
EXTENDS Archive, FiniteSetTheorems, WellFoundedInduction, TLAPS

\* Where a run is when it holds one frame, and when it holds one link of it.
LinkPlaces == {"link", "proveLink", "swap", "proveOld", "install", "dropOld", "readBack",
               "recordLink"}
FilePlaces == {"item", "transfer", "check", "keepItem", "keepMove", "moveRecord", "links", "last",
               "retire", "trash", "observe", "settleMove"} \cup LinkPlaces
Places     == {"pick", "settleStorage", "settleArchive", "idle"} \cup FilePlaces

Types == TypeOK /\ at \in Places

\* The phase of an item, the record and the original of its frame agree.
PhaseFits ==
    \A f \in Files :
       /\ phase[f] = "settled" <=> item[f] # "none"
       /\ phase[f] = "pending" => f \notin repointed
       /\ phase[f] = "retiring" => f \in repointed /\ LinksTo(f) \subseteq linked

\* An original in the OS Trash was asked to go there, with its record and its
\* links; and what the item says of it is so.
BinFits ==
    \A f \in Files :
       /\ f \in bin => /\ phase[f] \in {"retiring", "settled"} /\ source[f] = "gone"
                       /\ f \in repointed /\ LinksTo(f) \subseteq linked
       /\ item[f] = "moved" => f \in bin
       /\ item[f] \in {"sourceKept", "blocked"} => f \notin bin

\* The names of a link nobody touched hold only links of PlateVault, and the
\* recorded one reads the copy.
NamesFit ==
    /\ \A l \in Links \ touched : name[l] # "other" /\ staged[l] # "other" /\ aside[l] # "other"
    /\ \A l \in linked \ touched : name[l] = "new"

\* What a run at each place knows of its frame.
AtFile ==
    /\ at \in FilePlaces => outcome[file] = "none"
    /\ at \in {"settleStorage", "settleArchive"} => Open = {}
    /\ at = "transfer" => phase[file] = "pending"
    /\ at \in {"check", "moveRecord", "links"} \cup LinkPlaces => phase[file] = "verified"
    /\ at = "moveRecord" => file \notin repointed
    /\ at \in {"links", "last", "retire", "trash", "observe"} \cup LinkPlaces =>
           file \in repointed \/ phase[file] = "settled"
    /\ at \in {"last", "retire", "trash", "observe"} =>
           LinksTo(file) \subseteq linked \/ phase[file] = "settled"
    /\ at = "last" => phase[file] # "pending"
    /\ at = "retire" => phase[file] \in {"verified", "retiring"}
    /\ at \in {"trash", "observe"} => phase[file] = "retiring"
    /\ at = "trash" => file \notin bin
    /\ at = "observe" => file \in bin
    /\ at = "settleMove" => item[file] # "none"

\* What it keeps the original for.
AtKeep ==
    /\ at \in {"keepItem", "keepMove"} =>
          /\ keeping = IF file \in repointed THEN "sourceRetained" ELSE "blocked"
          /\ file \notin bin
    /\ at = "keepItem" => phase[file] \in {"pending", "verified"}

\* What it knows of its links, and of the names of the one it is at.
Untouched == Least(links) \notin touched
AtLink ==
    /\ at \in LinkPlaces => links = LinksTo(file) \ linked
    /\ at \in LinkPlaces \ {"link"} => links # {}
    /\ at = "proveLink" /\ Untouched => name[Least(links)] \in {"old", "new"}
    /\ at = "swap" => /\ staged[Least(links)] = "new" /\ name[Least(links)] # "new"
                      /\ Untouched => name[Least(links)] = "old"
    /\ at = "proveOld" => /\ staged[Least(links)] # "new"
                          /\ Untouched => staged[Least(links)] = "old" /\ name[Least(links)] = "new"
    /\ at = "install" => /\ staged[Least(links)] = "new"
                         /\ Untouched => aside[Least(links)] = "old" /\ name[Least(links)] = "none"
    /\ at = "dropOld" => /\ aside[Least(links)] = "old"
                         /\ Untouched => name[Least(links)] = "new"
    /\ at \in {"readBack", "recordLink"} => (Untouched => name[Least(links)] = "new")

Recorded == Types /\ PhaseFits /\ BinFits /\ NamesFit /\ NoLinkLost
Placed   == AtFile /\ AtKeep /\ AtLink
Inv      == Recorded /\ Placed

-----------------------------------------------------------------------------
(* The operators of the model. *)

\* `ORDER BY` with `LIMIT 1`: the least of some numbers is one of them.
LEMMA LeastIn == ASSUME NEW S, S \subseteq Nat, S # {} PROVE Least(S) \in S
<1> DEFINE T == {0..n : n \in S}
<1>1. T \subseteq FiniteSubsetsOf(Nat) /\ T # {}
  <2>1. ASSUME NEW n \in S PROVE 0..n \in FiniteSubsetsOf(Nat)
    <3>1. n \in Nat /\ 0 \in Int /\ n \in Int /\ 0..n \subseteq Nat
      OBVIOUS
    <3>2. IsFiniteSet(0..n)
      BY <3>1, FS_Interval
    <3> QED BY <3>1, <3>2 DEF FiniteSubsetsOf
  <2>2. T # {}
    OBVIOUS
  <2> QED BY <2>1, <2>2
<1>2. PICK t \in T : \A u \in T : <<u, t>> \notin StrictSubsetOrdering(Nat)
  <2> HIDE DEF T
  <2> QED BY <1>1, FS_StrictSubsetOrderingWellFounded, WFMin
<1>3. PICK n \in S : t = 0..n
  OBVIOUS
<1>4. ASSUME NEW m \in S PROVE n <= m
  <2> SUFFICES ASSUME m < n PROVE FALSE
    OBVIOUS
  <2>1. 0..m \subseteq 0..n /\ 0..m # 0..n /\ 0..n \subseteq Nat
    <3>1. n \in 0..n /\ n \notin 0..m
      OBVIOUS
    <3> QED BY <3>1
  <2>2. 0..m \in T
    OBVIOUS
  <2> QED BY <1>2, <1>3, <2>1, <2>2 DEF StrictSubsetOrdering
<1> QED BY <1>4 DEF Least

\* What the instance assumption says of the constants.
LEMMA Values == /\ Files \subseteq Nat /\ Links \subseteq Nat /\ Files # {}
                /\ \A l \in Links : FileOf[l] \in Files
                /\ 0 \in 0..MaxFaults /\ 0 \in 0..MaxChanges
BY InstanceAssumption

\* A reviewed archive, nothing moved yet.
LEMMA InitHolds == Init => Inv
<1> SUFFICES ASSUME Init PROVE Inv
  OBVIOUS
<1>1. (CHOOSE f \in Files : \A g \in Files : f <= g) \in Files
  BY LeastIn, Values DEF Least
<1>2. Types
  <2>1. at \in Places
    BY DEF Init, Places
  <2>2. TypeOK
    BY <1>1, Values DEF Init, TypeOK, NoKeeping, Outcomes
  <2> QED BY <2>1, <2>2 DEF Types
<1>3. PhaseFits /\ BinFits /\ NamesFit /\ NoLinkLost
  BY DEF Init, PhaseFits, BinFits, NamesFit, NoLinkLost
<1>4. Placed
  BY DEF Init, Placed, AtFile, AtKeep, AtLink, FilePlaces, LinkPlaces
<1> QED BY <1>2, <1>3, <1>4 DEF Inv, Recorded

-----------------------------------------------------------------------------
(* A step that only decides where the run goes on. *)

\* What was recorded does not depend on where the run is.
LEMMA RecordedStays ==
    ASSUME Inv, UNCHANGED world, at' \in Places, file' \in Files, links' \subseteq Links,
           keeping' \in Outcomes
    PROVE  Recorded'
<1> USE DEF world, setting, frames, entries, journal, moves, catalog, bounds
<1>1. Types'
  BY DEF Inv, Recorded, Types, TypeOK
<1>2. PhaseFits' /\ BinFits' /\ NamesFit' /\ NoLinkLost'
  BY DEF Inv, Recorded, PhaseFits, BinFits, NamesFit, NoLinkLost, LinksTo
<1> QED BY <1>1, <1>2 DEF Recorded

\* What a step that only decides needs to know of what was recorded.
Facts ==
    /\ Open \subseteq Files /\ file \in Files /\ links \subseteq Links /\ at \in Places
    /\ keeping \in Outcomes
    /\ item[file] = "none" <=> phase[file] # "settled"
    /\ phase[file] \in {"pending", "verified", "retiring", "settled"}

\* The invariant gives them.
LEMMA FactsHold == Inv => Facts
BY DEF Inv, Recorded, Types, TypeOK, PhaseFits, Facts, Open

\* The next frame, or none is left.
PickStep == Pick \/ PickNone
LEMMA PickKeeps == ASSUME Inv, PickStep PROVE Inv'
<1> USE DEF PickStep, world, setting, frames, entries, journal, moves, catalog, bounds
<1>1. CASE Pick
  <2>1. file' \in Open
    BY <1>1, LeastIn, Values, FactsHold DEF Pick, Facts
  <2>2. Recorded'
    BY <1>1, <2>1, FactsHold, RecordedStays DEF Pick, Facts, Places, FilePlaces
  <2>3. Placed'
    BY <1>1, <2>1 DEF Pick, Placed, AtFile, AtKeep, AtLink, FilePlaces, LinkPlaces, Open
  <2> QED BY <2>2, <2>3 DEF Inv
<1>2. CASE PickNone
  <2>1. Recorded'
    BY <1>2, FactsHold, RecordedStays DEF PickNone, Rests, Goto, Facts, Places
  <2>2. Placed'
    BY <1>2 DEF PickNone, Rests, Goto, Placed, AtFile, AtKeep, AtLink, FilePlaces, LinkPlaces, Open
  <2> QED BY <2>1, <2>2 DEF Inv
<1> QED BY <1>1, <1>2

\* Where the journal says its run goes on.
ItemStep == ItemSettled \/ ItemVerified \/ ItemRetiring \/ ItemPending
LEMMA ItemKeeps == ASSUME Inv, ItemStep PROVE Inv'
<1> USE DEF ItemStep, ItemSettled, ItemVerified, ItemRetiring, ItemPending, Rests, Goto, Keep
<1>1. Recorded'
  BY FactsHold, RecordedStays DEF Facts, Places, FilePlaces, Outcomes
<1>2. AtFile'
  BY FactsHold DEF Inv, Recorded, PhaseFits, Facts, Placed, AtFile, FilePlaces, LinkPlaces, Open,
     world, setting, frames, entries, journal, moves, catalog, bounds
<1>3. AtKeep' /\ AtLink'
  BY FactsHold DEF Inv, Recorded, PhaseFits, BinFits, Facts, AtKeep, AtLink, FilePlaces, LinkPlaces, Open,
     world, setting, frames, entries, journal, moves, catalog, bounds
<1> QED BY <1>1, <1>2, <1>3 DEF Inv, Placed

\* Its copy proved again, and the links it has.
CheckStep == CheckCopy \/ MoveRecordConflict \/ ListLinks
LEMMA CheckKeeps == ASSUME Inv, CheckStep PROVE Inv'
<1> USE DEF CheckStep, CheckCopy, MoveRecordConflict, ListLinks, NextAfterCheck, Rests, Goto, Keep
<1>1. Recorded'
  <2>1. LinksTo(file) \ linked \subseteq Links
    BY DEF LinksTo
  <2> QED BY <2>1, FactsHold, RecordedStays DEF Facts, Places, FilePlaces, LinkPlaces, Outcomes
<1>2. AtFile'
  BY FactsHold DEF Inv, Placed, AtFile, FilePlaces, LinkPlaces, Open, LinksTo,
     world, setting, frames, entries, journal, moves, catalog, bounds
<1>3. AtKeep' /\ AtLink'
  BY DEF Inv, Placed, Recorded, BinFits, Types, TypeOK, AtFile, AtKeep, AtLink, FilePlaces,
     LinkPlaces, Open, LinksTo, world, setting, frames, entries, journal, moves, catalog, bounds
<1> QED BY <1>1, <1>2, <1>3 DEF Inv, Placed

\* The end of its links, the journal's last step, the next start.
LastStep == LinksDone \/ Last \/ LastSettled \/ ResumeRetiring \/ Resume
LEMMA LastKeeps == ASSUME Inv, LastStep PROVE Inv'
<1> USE DEF LastStep, LinksDone, Last, LastSettled, ResumeRetiring, Resume, Rests, Goto, Keep
<1>1. Recorded'
  BY FactsHold, RecordedStays DEF Facts, Places, FilePlaces, LinkPlaces, Outcomes
<1>2. AtFile'
  BY FactsHold DEF Inv, Recorded, BinFits, PhaseFits, Facts, Placed, AtFile, AtLink, FilePlaces,
     LinkPlaces, Open, LinksTo, world, setting, frames, entries, journal, moves, catalog, bounds
<1>3. AtKeep' /\ AtLink'
  BY FactsHold DEF Inv, Facts, Placed, Recorded, BinFits, PhaseFits, AtFile, AtKeep, AtLink, FilePlaces,
     LinkPlaces, Open, LinksTo, world, setting, frames, entries, journal, moves, catalog, bounds
<1> QED BY <1>1, <1>2, <1>3 DEF Inv, Placed

\* What a link's own name holds.
ProveStep == LinkRootGone \/ ReadsCopy \/ ReadBack
LEMMA ProveKeeps == ASSUME Inv, ProveStep PROVE Inv'
<1> USE DEF ProveStep, LinkRootGone, ReadsCopy, ReadBack, LinkRestsAt, LinkAt, Goto, Keep
<1>1. Recorded'
  BY FactsHold, RecordedStays DEF Facts, Places, FilePlaces, LinkPlaces, Outcomes
<1>2. AtFile'
  BY DEF Inv, Placed, AtFile, FilePlaces,
     LinkPlaces, Open, LinksTo, world, setting, frames, entries, journal, moves, catalog, bounds
<1>3. AtKeep' /\ AtLink'
  BY FactsHold DEF Inv, Facts, Placed, Recorded, BinFits, AtFile, AtKeep, AtLink, FilePlaces, Untouched,
     LinkPlaces, Open, LinksTo, world, setting, frames, entries, journal, moves, catalog, bounds
<1> QED BY <1>1, <1>2, <1>3 DEF Inv, Placed

\* The transfer of one frame, up to its verified copy.
TransferStep == Transfer \/ TransferBlocked \/ MoveRecord
LEMMA TransferKeeps == ASSUME Inv, TransferStep PROVE Inv'
<1> USE DEF TransferStep, Transfer, TransferBlocked, MoveRecord, SetItem, AfterItem
<1>1. Types'
  BY FactsHold DEF Inv, Recorded, Types, TypeOK, Facts, Placed, AtFile, Places, FilePlaces, Outcomes,
     Goto, setting, frames, entries, journal, moves, catalog, bounds
<1>2. PhaseFits' /\ BinFits'
  BY FactsHold DEF Inv, Recorded, Types, TypeOK, PhaseFits, BinFits, Facts, Placed, AtFile, AtKeep,
     Goto, LinksTo, setting, frames, entries, journal, moves, catalog, bounds
<1>3. NamesFit' /\ NoLinkLost'
  BY DEF Inv, Recorded, NamesFit, NoLinkLost, Goto,
     setting, frames, entries, journal, moves, catalog, bounds
<1>4. AtFile'
  BY FactsHold DEF Inv, Recorded, Types, TypeOK, PhaseFits, BinFits, Facts, Placed, AtFile, AtKeep,
     FilePlaces, LinkPlaces, Open, Goto, LinksTo, setting, frames, entries, journal, moves, catalog, bounds
<1>5. AtKeep' /\ AtLink'
  BY DEF Inv, Placed, AtFile, AtKeep, AtLink, FilePlaces, LinkPlaces, Untouched, Goto, LinksTo,
     setting, frames, entries, journal, moves, catalog, bounds
<1> QED BY <1>1, <1>2, <1>3, <1>4, <1>5 DEF Inv, Recorded, Placed


\* The retirement of its original, and what the journal says of it.
RetireStep == RecordIntent \/ ResumeInterrupted \/ MoveToTrash \/ KeepAtTrash \/ RecordMoved
LEMMA RetireKeeps == ASSUME Inv, RetireStep PROVE Inv'
<1> USE DEF RetireStep, RecordIntent, ResumeInterrupted, MoveToTrash, KeepAtTrash, RecordMoved,
            SetItem, AfterItem, RetiresProven
<1>1. Types'
  BY FactsHold DEF Inv, Recorded, Types, TypeOK, Facts, Placed, AtFile, Places, FilePlaces, Outcomes,
     Goto, setting, frames, entries, journal, moves, catalog, bounds
<1>2. PhaseFits' /\ BinFits'
  BY FactsHold DEF Inv, Recorded, Types, TypeOK, PhaseFits, BinFits, Facts, Placed, AtFile, AtKeep,
     Goto, LinksTo, setting, frames, entries, journal, moves, catalog, bounds
<1>3. NamesFit' /\ NoLinkLost'
  BY DEF Inv, Recorded, NamesFit, NoLinkLost, Goto,
     setting, frames, entries, journal, moves, catalog, bounds
<1>4. AtFile'
  BY FactsHold DEF Inv, Recorded, Types, TypeOK, PhaseFits, BinFits, Facts, Placed, AtFile, AtKeep,
     FilePlaces, LinkPlaces, Open, Goto, LinksTo, setting, frames, entries, journal, moves, catalog, bounds
<1>5. AtKeep' /\ AtLink'
  BY DEF Inv, Placed, AtFile, AtKeep, AtLink, FilePlaces, LinkPlaces, Untouched, Goto, LinksTo,
     setting, frames, entries, journal, moves, catalog, bounds
<1> QED BY <1>1, <1>2, <1>3, <1>4, <1>5 DEF Inv, Recorded, Placed


\* The outcome of a frame, of the operation and of the archive.
SettleStep == SettleMove \/ KeepItem \/ KeepMove \/ SettleStorage \/ SettleArchive
LEMMA SettleKeeps == ASSUME Inv, SettleStep PROVE Inv'
<1> USE DEF SettleStep, SettleMove, KeepItem, KeepMove, SettleStorage, SettleArchive,
            SetItem, OutcomeOf, SettlesMoved, NoKeeping
<1>1. Types'
  BY FactsHold DEF Inv, Recorded, Types, TypeOK, Facts, Placed, AtFile, Places, FilePlaces, Outcomes,
     Goto, setting, frames, entries, journal, moves, catalog, bounds
<1>2. PhaseFits' /\ BinFits'
  BY FactsHold DEF Inv, Recorded, Types, TypeOK, PhaseFits, BinFits, Facts, Placed, AtFile, AtKeep,
     Goto, LinksTo, setting, frames, entries, journal, moves, catalog, bounds
<1>3. NamesFit' /\ NoLinkLost'
  BY DEF Inv, Recorded, NamesFit, NoLinkLost, Goto,
     setting, frames, entries, journal, moves, catalog, bounds
<1>4. AtFile'
  BY FactsHold DEF Inv, Recorded, Types, TypeOK, PhaseFits, BinFits, Facts, Placed, AtFile, AtKeep,
     FilePlaces, LinkPlaces, Open, Goto, LinksTo, setting, frames, entries, journal, moves, catalog, bounds
<1>5. AtKeep' /\ AtLink'
  BY DEF Inv, Placed, AtFile, AtKeep, AtLink, FilePlaces, LinkPlaces, Untouched, Goto, LinksTo,
     setting, frames, entries, journal, moves, catalog, bounds
<1> QED BY <1>1, <1>2, <1>3, <1>4, <1>5 DEF Inv, Recorded, Placed

-----------------------------------------------------------------------------
(* A step on the names of one link. *)

\* The link a run is at is one of its frame, not recorded yet.
LEMMA AtOneLink ==
    ASSUME Inv, at \in LinkPlaces, links # {}
    PROVE  /\ Least(links) \in Links /\ Least(links) \notin linked /\ FileOf[Least(links)] = file
           /\ Least(links) \in links
<1>1. links = LinksTo(file) \ linked /\ links \subseteq Nat
  BY Values DEF Inv, Placed, AtLink, LinksTo
<1>2. Least(links) \in links
  BY <1>1, LeastIn
<1> QED BY <1>1, <1>2 DEF LinksTo


\* A refused call counts as one fault.
LEMMA Counted ==
    ASSUME Inv, (UNCHANGED bounds) \/ Refused
    PROVE  faults' \in 0..MaxFaults /\ changes' \in 0..MaxChanges
<1>1. CASE UNCHANGED bounds
  BY <1>1 DEF Inv, Recorded, Types, TypeOK, bounds
<1>2. CASE Refused
  BY <1>2, InstanceAssumption DEF Inv, Recorded, Types, TypeOK, Refused
<1> QED BY <1>1, <1>2

\* A refused call that leaves every name as it was keeps the original.
RefusedStep == LeftoversRefused \/ StageRefused \/ Stranded \/ DropRefused \/ ReadBackRefused
LEMMA RefusedKeeps == ASSUME Inv, RefusedStep PROVE Inv'
<1>1. /\ at \in LinkPlaces /\ links # {}
      /\ at' = "keepItem" /\ keeping' = "sourceRetained" /\ UNCHANGED <<file, links>>
      /\ UNCHANGED <<setting, frames, entries, journal, moves, catalog>>
  BY DEF RefusedStep, LeftoversRefused, StageRefused, Stranded, DropRefused, ReadBackRefused, LinkAt,
     LinkPlaces, NamesStay, Keep, EntriesOnly, entries
<1>2. (UNCHANGED bounds) \/ Refused
  BY DEF RefusedStep, LeftoversRefused, StageRefused, Stranded, DropRefused, ReadBackRefused, Fails
<1> USE DEF setting, frames, entries, journal, moves, catalog
<1>3. Types'
  BY <1>1, <1>2, Counted DEF Inv, Recorded, Types, TypeOK, Places, FilePlaces, Outcomes
<1>4. PhaseFits' /\ BinFits' /\ NamesFit' /\ NoLinkLost'
  BY <1>1 DEF Inv, Recorded, PhaseFits, BinFits, NamesFit, NoLinkLost, LinksTo
<1>5. AtFile'
  BY <1>1 DEF Inv, Placed, AtFile, FilePlaces, LinkPlaces, Open, LinksTo
<1>6. AtKeep' /\ AtLink'
  BY <1>1 DEF Inv, Recorded, Types, TypeOK, BinFits, Placed, AtFile, AtKeep, AtLink, FilePlaces,
     LinkPlaces
<1> QED BY <1>3, <1>4, <1>5, <1>6 DEF Inv, Recorded, Placed

\* Leftovers of an earlier swap: what a stop left beside a name.
LEMMA SettleLeftoversKeeps == ASSUME Inv, SettleLeftovers PROVE Inv'
<1> USE DEF SettleLeftovers, Waits, LinkAt, Goto, Keep, EntriesOnly, Set, RecordedAt, Vacant, Discarded
<1>1. Least(links) \in Links /\ Least(links) \notin linked /\ at = "link" /\ links # {}
  BY AtOneLink DEF LinkPlaces
<1>2. Types'
  BY <1>1, Counted DEF Inv, Recorded, Placed, Types, TypeOK, AtLink, Places, FilePlaces, LinkPlaces, Outcomes,
     setting, frames, journal, moves, catalog, bounds
<1>3. PhaseFits' /\ BinFits'
  BY DEF Inv, Recorded, PhaseFits, BinFits, LinksTo, setting, frames, journal, moves, catalog, bounds
<1>4. NamesFit' /\ NoLinkLost'
  BY <1>1 DEF Inv, Recorded, Types, TypeOK, NamesFit, NoLinkLost, Placed, AtLink, Untouched, LinkPlaces,
     setting, frames, journal, moves, catalog, bounds
<1>5. AtFile'
  BY <1>1 DEF Inv, Placed, AtFile, FilePlaces, LinkPlaces, Open, LinksTo,
     setting, frames, journal, moves, catalog, bounds
<1>6. AtKeep'
  BY <1>1 DEF Inv, Recorded, Types, TypeOK, BinFits, Placed, AtFile, AtKeep, LinkPlaces,
     setting, frames, journal, moves, catalog, bounds
<1>7. AtLink'
  BY <1>1 DEF Inv, Recorded, Types, TypeOK, NamesFit, NoLinkLost, Placed, AtLink, LinkPlaces, Untouched,
     LinksTo, setting, frames, journal, moves, catalog, bounds
<1> QED BY <1>2, <1>3, <1>4, <1>5, <1>6, <1>7 DEF Inv, Recorded, Placed


\* The new link, beside the old one.
LEMMA StageLinkKeeps == ASSUME Inv, StageLink PROVE Inv'
<1> USE DEF StageLink, LinkAt, Goto, Keep, EntriesOnly, Set, RecordedAt
<1>1. Least(links) \in Links /\ Least(links) \notin linked /\ at = "proveLink" /\ links # {}
  BY AtOneLink DEF LinkPlaces
<1>2. Types'
  BY <1>1, Counted DEF Inv, Recorded, Placed, Types, TypeOK, AtLink, Places, FilePlaces, LinkPlaces, Outcomes,
     setting, frames, journal, moves, catalog, bounds
<1>3. PhaseFits' /\ BinFits'
  BY DEF Inv, Recorded, PhaseFits, BinFits, LinksTo, setting, frames, journal, moves, catalog, bounds
<1>4. NamesFit' /\ NoLinkLost'
  BY <1>1 DEF Inv, Recorded, Types, TypeOK, NamesFit, NoLinkLost, Placed, AtLink, Untouched, LinkPlaces,
     setting, frames, journal, moves, catalog, bounds
<1>5. AtFile'
  BY <1>1 DEF Inv, Placed, AtFile, FilePlaces, LinkPlaces, Open, LinksTo,
     setting, frames, journal, moves, catalog, bounds
<1>6. AtKeep'
  BY <1>1 DEF Inv, Recorded, Types, TypeOK, BinFits, Placed, AtFile, AtKeep, LinkPlaces,
     setting, frames, journal, moves, catalog, bounds
<1>7. AtLink'
  BY <1>1 DEF Inv, Recorded, Types, TypeOK, NamesFit, NoLinkLost, Placed, AtLink, LinkPlaces, Untouched,
     LinksTo, setting, frames, journal, moves, catalog, bounds
<1> QED BY <1>2, <1>3, <1>4, <1>5, <1>6, <1>7 DEF Inv, Recorded, Placed


\* The two names swapped in one step.
LEMMA ExchangeKeeps == ASSUME Inv, Exchange PROVE Inv'
<1> USE DEF Exchange, LinkAt, Goto, Keep, EntriesOnly, Set, RecordedAt, Discarded
<1>1. Least(links) \in Links /\ Least(links) \notin linked /\ at = "swap" /\ links # {}
  BY AtOneLink DEF LinkPlaces
<1>2. Types'
  BY <1>1, Counted DEF Inv, Recorded, Placed, Types, TypeOK, AtLink, Places, FilePlaces, LinkPlaces, Outcomes,
     setting, frames, journal, moves, catalog, bounds
<1>3. PhaseFits' /\ BinFits'
  BY DEF Inv, Recorded, PhaseFits, BinFits, LinksTo, setting, frames, journal, moves, catalog, bounds
<1>4. NamesFit' /\ NoLinkLost'
  BY <1>1 DEF Inv, Recorded, Types, TypeOK, NamesFit, NoLinkLost, Placed, AtLink, Untouched, LinkPlaces,
     setting, frames, journal, moves, catalog, bounds
<1>5. AtFile'
  BY <1>1 DEF Inv, Placed, AtFile, FilePlaces, LinkPlaces, Open, LinksTo,
     setting, frames, journal, moves, catalog, bounds
<1>6. AtKeep'
  BY <1>1 DEF Inv, Recorded, Types, TypeOK, BinFits, Placed, AtFile, AtKeep, LinkPlaces,
     setting, frames, journal, moves, catalog, bounds
<1>7. AtLink'
  BY <1>1 DEF Inv, Recorded, Types, TypeOK, NamesFit, NoLinkLost, Placed, AtLink, LinkPlaces, Untouched,
     LinksTo, setting, frames, journal, moves, catalog, bounds
<1> QED BY <1>2, <1>3, <1>4, <1>5, <1>6, <1>7 DEF Inv, Recorded, Placed


\* The recorded link, once out of its name, is deleted.
LEMMA ProveOldKeeps == ASSUME Inv, ProveOld PROVE Inv'
<1> USE DEF ProveOld, LinkAt, Goto, Keep, EntriesOnly, Set, RecordedAt
<1>1. Least(links) \in Links /\ Least(links) \notin linked /\ at = "proveOld" /\ links # {}
  BY AtOneLink DEF LinkPlaces
<1>2. Types'
  BY <1>1, Counted DEF Inv, Recorded, Placed, Types, TypeOK, AtLink, Places, FilePlaces, LinkPlaces, Outcomes,
     setting, frames, journal, moves, catalog, bounds
<1>3. PhaseFits' /\ BinFits'
  BY DEF Inv, Recorded, PhaseFits, BinFits, LinksTo, setting, frames, journal, moves, catalog, bounds
<1>4. NamesFit' /\ NoLinkLost'
  BY <1>1 DEF Inv, Recorded, Types, TypeOK, NamesFit, NoLinkLost, Placed, AtLink, Untouched, LinkPlaces,
     setting, frames, journal, moves, catalog, bounds
<1>5. AtFile'
  BY <1>1 DEF Inv, Placed, AtFile, FilePlaces, LinkPlaces, Open, LinksTo,
     setting, frames, journal, moves, catalog, bounds
<1>6. AtKeep'
  BY <1>1 DEF Inv, Recorded, Types, TypeOK, BinFits, Placed, AtFile, AtKeep, LinkPlaces,
     setting, frames, journal, moves, catalog, bounds
<1>7. AtLink'
  BY <1>1 DEF Inv, Recorded, Types, TypeOK, NamesFit, NoLinkLost, Placed, AtLink, LinkPlaces, Untouched,
     LinksTo, setting, frames, journal, moves, catalog, bounds
<1> QED BY <1>2, <1>3, <1>4, <1>5, <1>6, <1>7 DEF Inv, Recorded, Placed


\* What was not the recorded link is exchanged back.
LEMMA ExchangeBackKeeps == ASSUME Inv, ExchangeBack PROVE Inv'
<1> USE DEF ExchangeBack, LinkAt, Goto, Keep, EntriesOnly, Set, Fails, RecordedAt, Discarded
<1>1. Least(links) \in Links /\ Least(links) \notin linked /\ at = "proveOld" /\ links # {}
  BY AtOneLink DEF LinkPlaces
<1>2. Types'
  BY <1>1, Counted DEF Inv, Recorded, Placed, Types, TypeOK, AtLink, Places, FilePlaces, LinkPlaces, Outcomes,
     setting, frames, journal, moves, catalog, bounds
<1>3. PhaseFits' /\ BinFits'
  BY DEF Inv, Recorded, PhaseFits, BinFits, LinksTo, setting, frames, journal, moves, catalog, bounds
<1>4. NamesFit' /\ NoLinkLost'
  BY <1>1 DEF Inv, Recorded, Types, TypeOK, NamesFit, NoLinkLost, Placed, AtLink, Untouched, LinkPlaces,
     setting, frames, journal, moves, catalog, bounds
<1>5. AtFile'
  BY <1>1 DEF Inv, Placed, AtFile, FilePlaces, LinkPlaces, Open, LinksTo,
     setting, frames, journal, moves, catalog, bounds
<1>6. AtKeep'
  BY <1>1 DEF Inv, Recorded, Types, TypeOK, BinFits, Placed, AtFile, AtKeep, LinkPlaces,
     setting, frames, journal, moves, catalog, bounds
<1>7. AtLink'
  BY <1>1 DEF Inv, Recorded, Types, TypeOK, NamesFit, NoLinkLost, Placed, AtLink, LinkPlaces, Untouched,
     LinksTo, setting, frames, journal, moves, catalog, bounds
<1> QED BY <1>2, <1>3, <1>4, <1>5, <1>6, <1>7 DEF Inv, Recorded, Placed


\* The recorded link moved aside, its name free.
LEMMA MoveAsideKeeps == ASSUME Inv, MoveAside PROVE Inv'
<1> USE DEF MoveAside, LinkAt, Goto, Keep, EntriesOnly, Set, RecordedAt, Discarded
<1>1. Least(links) \in Links /\ Least(links) \notin linked /\ at = "swap" /\ links # {}
  BY AtOneLink DEF LinkPlaces
<1>2. Types'
  BY <1>1, Counted DEF Inv, Recorded, Placed, Types, TypeOK, AtLink, Places, FilePlaces, LinkPlaces, Outcomes,
     setting, frames, journal, moves, catalog, bounds
<1>3. PhaseFits' /\ BinFits'
  BY DEF Inv, Recorded, PhaseFits, BinFits, LinksTo, setting, frames, journal, moves, catalog, bounds
<1>4. NamesFit' /\ NoLinkLost'
  BY <1>1 DEF Inv, Recorded, Types, TypeOK, NamesFit, NoLinkLost, Placed, AtLink, Untouched, LinkPlaces,
     setting, frames, journal, moves, catalog, bounds
<1>5. AtFile'
  BY <1>1 DEF Inv, Placed, AtFile, FilePlaces, LinkPlaces, Open, LinksTo,
     setting, frames, journal, moves, catalog, bounds
<1>6. AtKeep'
  BY <1>1 DEF Inv, Recorded, Types, TypeOK, BinFits, Placed, AtFile, AtKeep, LinkPlaces,
     setting, frames, journal, moves, catalog, bounds
<1>7. AtLink'
  BY <1>1 DEF Inv, Recorded, Types, TypeOK, NamesFit, NoLinkLost, Placed, AtLink, LinkPlaces, Untouched,
     LinksTo, setting, frames, journal, moves, catalog, bounds
<1> QED BY <1>2, <1>3, <1>4, <1>5, <1>6, <1>7 DEF Inv, Recorded, Placed


\* The new link under the free name.
LEMMA InstallKeeps == ASSUME Inv, Install PROVE Inv'
<1> USE DEF Install, LinkAt, Goto, Keep, EntriesOnly, Set, RecordedAt
<1>1. Least(links) \in Links /\ Least(links) \notin linked /\ at = "install" /\ links # {}
  BY AtOneLink DEF LinkPlaces
<1>2. Types'
  BY <1>1, Counted DEF Inv, Recorded, Placed, Types, TypeOK, AtLink, Places, FilePlaces, LinkPlaces, Outcomes,
     setting, frames, journal, moves, catalog, bounds
<1>3. PhaseFits' /\ BinFits'
  BY DEF Inv, Recorded, PhaseFits, BinFits, LinksTo, setting, frames, journal, moves, catalog, bounds
<1>4. NamesFit' /\ NoLinkLost'
  BY <1>1 DEF Inv, Recorded, Types, TypeOK, NamesFit, NoLinkLost, Placed, AtLink, Untouched, LinkPlaces,
     setting, frames, journal, moves, catalog, bounds
<1>5. AtFile'
  BY <1>1 DEF Inv, Placed, AtFile, FilePlaces, LinkPlaces, Open, LinksTo,
     setting, frames, journal, moves, catalog, bounds
<1>6. AtKeep'
  BY <1>1 DEF Inv, Recorded, Types, TypeOK, BinFits, Placed, AtFile, AtKeep, LinkPlaces,
     setting, frames, journal, moves, catalog, bounds
<1>7. AtLink'
  BY <1>1 DEF Inv, Recorded, Types, TypeOK, NamesFit, NoLinkLost, Placed, AtLink, LinkPlaces, Untouched,
     LinksTo, setting, frames, journal, moves, catalog, bounds
<1> QED BY <1>2, <1>3, <1>4, <1>5, <1>6, <1>7 DEF Inv, Recorded, Placed


\* The new link is discarded, the old one still at its name.
LEMMA SwapRefusedKeeps == ASSUME Inv, SwapRefused PROVE Inv'
<1> USE DEF SwapRefused, LinkAt, Goto, Keep, EntriesOnly, Set, RecordedAt, Discarded, Fails
<1>1. Least(links) \in Links /\ Least(links) \notin linked /\ at = "swap" /\ links # {}
  BY AtOneLink DEF LinkPlaces
<1>2. Types'
  BY <1>1, Counted DEF Inv, Recorded, Placed, Types, TypeOK, AtLink, Places, FilePlaces, LinkPlaces, Outcomes,
     setting, frames, journal, moves, catalog, bounds
<1>3. PhaseFits' /\ BinFits'
  BY DEF Inv, Recorded, PhaseFits, BinFits, LinksTo, setting, frames, journal, moves, catalog, bounds
<1>4. NamesFit' /\ NoLinkLost'
  BY <1>1 DEF Inv, Recorded, Types, TypeOK, NamesFit, NoLinkLost, Placed, AtLink, Untouched, LinkPlaces,
     setting, frames, journal, moves, catalog, bounds
<1>5. AtFile'
  BY <1>1 DEF Inv, Placed, AtFile, FilePlaces, LinkPlaces, Open, LinksTo,
     setting, frames, journal, moves, catalog, bounds
<1>6. AtKeep'
  BY <1>1 DEF Inv, Recorded, Types, TypeOK, BinFits, Placed, AtFile, AtKeep, LinkPlaces,
     setting, frames, journal, moves, catalog, bounds
<1>7. AtLink'
  BY <1>1 DEF Inv, Recorded, Types, TypeOK, NamesFit, NoLinkLost, Placed, AtLink, LinkPlaces, Untouched,
     LinksTo, setting, frames, journal, moves, catalog, bounds
<1> QED BY <1>2, <1>3, <1>4, <1>5, <1>6, <1>7 DEF Inv, Recorded, Placed


\* What was moved aside goes back.
LEMMA PutBackKeeps == ASSUME Inv, PutBack PROVE Inv'
<1> USE DEF PutBack, LinkAt, Goto, Keep, EntriesOnly, Set, RecordedAt, Discarded, Fails
<1>1. Least(links) \in Links /\ Least(links) \notin linked /\ at = "install" /\ links # {}
  BY AtOneLink DEF LinkPlaces
<1>2. Types'
  BY <1>1, Counted DEF Inv, Recorded, Placed, Types, TypeOK, AtLink, Places, FilePlaces, LinkPlaces, Outcomes,
     setting, frames, journal, moves, catalog, bounds
<1>3. PhaseFits' /\ BinFits'
  BY DEF Inv, Recorded, PhaseFits, BinFits, LinksTo, setting, frames, journal, moves, catalog, bounds
<1>4. NamesFit' /\ NoLinkLost'
  BY <1>1 DEF Inv, Recorded, Types, TypeOK, NamesFit, NoLinkLost, Placed, AtLink, Untouched, LinkPlaces,
     setting, frames, journal, moves, catalog, bounds
<1>5. AtFile'
  BY <1>1 DEF Inv, Placed, AtFile, FilePlaces, LinkPlaces, Open, LinksTo,
     setting, frames, journal, moves, catalog, bounds
<1>6. AtKeep'
  BY <1>1 DEF Inv, Recorded, Types, TypeOK, BinFits, Placed, AtFile, AtKeep, LinkPlaces,
     setting, frames, journal, moves, catalog, bounds
<1>7. AtLink'
  BY <1>1 DEF Inv, Recorded, Types, TypeOK, NamesFit, NoLinkLost, Placed, AtLink, LinkPlaces, Untouched,
     LinksTo, setting, frames, journal, moves, catalog, bounds
<1> QED BY <1>2, <1>3, <1>4, <1>5, <1>6, <1>7 DEF Inv, Recorded, Placed


\* The recorded link, moved aside, is deleted.
LEMMA DropOldKeeps == ASSUME Inv, DropOld PROVE Inv'
<1> USE DEF DropOld, LinkAt, Goto, Keep, EntriesOnly, Set, RecordedAt
<1>1. Least(links) \in Links /\ Least(links) \notin linked /\ at = "dropOld" /\ links # {}
  BY AtOneLink DEF LinkPlaces
<1>2. Types'
  BY <1>1, Counted DEF Inv, Recorded, Placed, Types, TypeOK, AtLink, Places, FilePlaces, LinkPlaces, Outcomes,
     setting, frames, journal, moves, catalog, bounds
<1>3. PhaseFits' /\ BinFits'
  BY DEF Inv, Recorded, PhaseFits, BinFits, LinksTo, setting, frames, journal, moves, catalog, bounds
<1>4. NamesFit' /\ NoLinkLost'
  BY <1>1 DEF Inv, Recorded, Types, TypeOK, NamesFit, NoLinkLost, Placed, AtLink, Untouched, LinkPlaces,
     setting, frames, journal, moves, catalog, bounds
<1>5. AtFile'
  BY <1>1 DEF Inv, Placed, AtFile, FilePlaces, LinkPlaces, Open, LinksTo,
     setting, frames, journal, moves, catalog, bounds
<1>6. AtKeep'
  BY <1>1 DEF Inv, Recorded, Types, TypeOK, BinFits, Placed, AtFile, AtKeep, LinkPlaces,
     setting, frames, journal, moves, catalog, bounds
<1>7. AtLink'
  BY <1>1 DEF Inv, Recorded, Types, TypeOK, NamesFit, NoLinkLost, Placed, AtLink, LinkPlaces, Untouched,
     LinksTo, setting, frames, journal, moves, catalog, bounds
<1> QED BY <1>2, <1>3, <1>4, <1>5, <1>6, <1>7 DEF Inv, Recorded, Placed

\* The record of the link that reads the copy now.
LEMMA RecordLinkKeeps == ASSUME Inv, RecordLink PROVE Inv'
<1> USE DEF RecordLink, LinkAt
<1>1. Least(links) \in Links /\ Least(links) \notin linked /\ at = "recordLink" /\ links # {}
      /\ Least(links) \in links
  BY AtOneLink DEF LinkPlaces
<1>2. Types'
  BY <1>1 DEF Inv, Recorded, Types, TypeOK, Places, FilePlaces, LinkPlaces,
     setting, frames, entries, journal, moves, catalog, bounds
<1>3. PhaseFits' /\ BinFits'
  BY DEF Inv, Recorded, PhaseFits, BinFits, LinksTo, setting, frames, entries, journal, moves, catalog, bounds
<1>4. NamesFit' /\ NoLinkLost'
  BY <1>1 DEF Inv, Recorded, NamesFit, NoLinkLost, Placed, AtLink, Untouched,
     setting, frames, entries, journal, moves, catalog, bounds
<1>5. AtFile' /\ AtKeep'
  BY <1>1 DEF Inv, Placed, AtFile, AtKeep, FilePlaces, LinkPlaces, Open, LinksTo,
     setting, frames, entries, journal, moves, catalog, bounds
<1>6. AtLink'
  BY <1>1 DEF Inv, Placed, AtLink, LinkPlaces, LinksTo,
     setting, frames, entries, journal, moves, catalog, bounds
<1> QED BY <1>2, <1>3, <1>4, <1>5, <1>6 DEF Inv, Recorded, Placed

-----------------------------------------------------------------------------
(* A stop, and what the world outside does. *)

\* A stop forgets the place, the links and the reason to keep.
LEMMA StopKeeps == ASSUME Inv, Stop PROVE Inv'
<1> USE DEF Stop, setting, frames, entries, journal, moves, catalog
<1>1. Types'
  <2>1. faults' \in 0..MaxFaults
    BY InstanceAssumption DEF Inv, Recorded, Types, TypeOK
  <2> QED BY <2>1 DEF Inv, Recorded, Types, TypeOK, Places, Outcomes, NoKeeping
<1>2. PhaseFits' /\ BinFits' /\ NamesFit' /\ NoLinkLost'
  BY DEF Inv, Recorded, PhaseFits, BinFits, NamesFit, NoLinkLost, LinksTo
<1>3. Placed'
  BY DEF Placed, AtFile, AtKeep, AtLink, FilePlaces, LinkPlaces
<1> QED BY <1>1, <1>2, <1>3 DEF Inv, Recorded

\* The world never brings an original back, and only touches links at their
\* own names.
LEMMA ChangedKeeps == ASSUME Inv, Changed PROVE Inv'
<1> USE DEF Changed, ChangeSource, SpoilCopy, ChangeLink, SwitchRoot, Scan, Hold, Outside,
            setting, process, journal, moves
<1>1. Types'
  <2>1. changes' \in 0..MaxChanges
    BY InstanceAssumption DEF Inv, Recorded, Types, TypeOK
  <2>2. CASE ChangeSource \/ SpoilCopy
    BY <2>1, <2>2 DEF Inv, Recorded, Types, TypeOK
  <2>3. CASE ChangeLink
    BY <2>1, <2>3 DEF Inv, Recorded, Types, TypeOK
  <2>4. CASE SwitchRoot
    <3>1. root' \in BOOLEAN
      BY <2>4
    <3> QED BY <2>1, <2>4, <3>1 DEF Inv, Recorded, Types, TypeOK
  <2>5. CASE Scan \/ Hold
    BY <2>1, <2>5 DEF Inv, Recorded, Types, TypeOK
  <2> QED BY <2>2, <2>3, <2>4, <2>5
<1>2. PhaseFits'
  BY DEF Inv, Recorded, PhaseFits, LinksTo
<1>3. BinFits'
  BY DEF Inv, Recorded, Types, TypeOK, BinFits, LinksTo
<1>4. NamesFit' /\ NoLinkLost'
  BY DEF Inv, Recorded, Types, TypeOK, NamesFit, NoLinkLost
<1>5. AtFile' /\ AtKeep'
  BY DEF Inv, Placed, AtFile, AtKeep, Open, LinksTo
<1>6. AtLink'
  <2>1. ASSUME UNCHANGED <<name, touched>> PROVE AtLink'
    BY <2>1 DEF Inv, Placed, AtLink, Untouched, LinksTo
  <2>2. CASE ChangeLink
    BY <2>2, AtOneLink DEF Inv, Recorded, Types, TypeOK, Placed, AtLink, Untouched, LinksTo, LinkPlaces
  <2> QED BY <2>1, <2>2
<1> QED BY <1>1, <1>2, <1>3, <1>4, <1>5, <1>6 DEF Inv, Recorded, Placed

\* Every step keeps the invariant.
LEMMA NextKeeps == Inv /\ [Next]_vars => Inv'
<1> SUFFICES ASSUME Inv, [Next]_vars PROVE Inv'
  OBVIOUS
<1>1. CASE Run
  BY <1>1, PickKeeps, ItemKeeps, CheckKeeps, LastKeeps, ProveKeeps, TransferKeeps, RetireKeeps,
     SettleKeeps, SettleLeftoversKeeps, StageLinkKeeps, ExchangeKeeps, ProveOldKeeps,
     ExchangeBackKeeps, MoveAsideKeeps, InstallKeeps, SwapRefusedKeeps, PutBackKeeps,
     RefusedKeeps, DropOldKeeps,
     RecordLinkKeeps
  DEF Run, PickStep, ItemStep, CheckStep, LastStep, ProveStep, RefusedStep, TransferStep, RetireStep,
      SettleStep
<1>2. CASE UNCHANGED vars
  BY <1>2 DEF vars, Inv, Recorded, Placed, Types, TypeOK, PhaseFits, BinFits, NamesFit, NoLinkLost,
     AtFile, AtKeep, AtLink, Untouched, Open, LinksTo
<1> QED BY <1>1, <1>2, StopKeeps, LastKeeps, ChangedKeeps DEF Next, LastStep

\* So it holds of every run.
LEMMA InvHolds == Spec => []Inv
<1> QED BY InitHolds, NextKeeps, PTL DEF Spec

-----------------------------------------------------------------------------
(* Entries of someone else's. *)

\* One when an entry is someone else's.
Bit(entry)    == IF entry = "other" THEN 1 ELSE 0
Others(a, b, c) == {e \in {<<"name", a>>, <<"staged", b>>, <<"aside", c>>} : e[2] = "other"}
Foreign(l)    == Bit(name[l]) + Bit(staged[l]) + Bit(aside[l])

\* Of the three names of a link, as many are counted as hold one.
LEMMA OthersCount ==
    ASSUME NEW a, NEW b, NEW c
    PROVE  Cardinality(Others(a, b, c)) = Bit(a) + Bit(b) + Bit(c)
<1> DEFINE One(tag, v) == IF v = "other" THEN {<<tag, v>>} ELSE {}
           A == One("name", a)
           B == A \cup One("staged", b)
<1>1. IsFiniteSet(A) /\ Cardinality(A) = Bit(a)
  BY FS_EmptySet, FS_Singleton DEF Bit
<1>2. IsFiniteSet(B) /\ Cardinality(B) = Bit(a) + Bit(b)
  <2>1. CASE b = "other"
    <3>1. B = A \cup {<<"staged", b>>} /\ <<"staged", b>> \notin A
      BY <2>1
    <3> HIDE DEF A, B
    <3> QED BY <1>1, <2>1, <3>1, FS_AddElement DEF Bit
  <2>2. CASE b # "other"
    <3>1. B = A
      BY <2>2
    <3> HIDE DEF A, B
    <3> QED BY <1>1, <2>2, <3>1 DEF Bit
  <2> QED BY <2>1, <2>2
<1>3. CASE c = "other"
  <2>1. Others(a, b, c) = B \cup {<<"aside", c>>} /\ <<"aside", c>> \notin B
    BY <1>3 DEF Others
  <2> HIDE DEF A, B
  <2> QED BY <1>2, <1>3, <2>1, FS_AddElement DEF Bit
<1>4. CASE c # "other"
  <2>1. Others(a, b, c) = B
    BY <1>4 DEF Others
  <2> HIDE DEF A, B
  <2> QED BY <1>2, <1>4, <2>1 DEF Bit
<1> QED BY <1>3, <1>4

\* `Entries` counts as the sum of the three.
LEMMA EntriesCount == \A l \in Links : Cardinality(Entries(l)) = Foreign(l)
BY OthersCount DEF Entries, Others, Foreign

\* The steps on one link's names, and all the others.
LinkStep == SettleLeftovers \/ StageLink \/ Exchange \/ ProveOld \/ ExchangeBack \/ MoveAside
            \/ Install \/ SwapRefused \/ PutBack \/ DropOld

\* Every other step of a run leaves every name alone.
LEMMA OthersAlone == Run => LinkStep \/ UNCHANGED <<name, staged, aside>>
<1> USE DEF Rests, world, entries
<1>1. PickStep \/ ItemStep \/ CheckStep \/ LastStep \/ ProveStep => UNCHANGED <<name, staged, aside>>
  BY DEF PickStep, Pick, PickNone, ItemStep, ItemSettled, ItemVerified, ItemRetiring, ItemPending,
     CheckStep, CheckCopy, MoveRecordConflict, ListLinks, LastStep, LinksDone, Last, LastSettled,
     ResumeRetiring, Resume, ProveStep, LinkRootGone, ReadsCopy, ReadBack, LinkRestsAt
<1>2. TransferStep \/ RetireStep \/ SettleStep \/ RecordLink => UNCHANGED <<name, staged, aside>>
  BY DEF TransferStep, Transfer, TransferBlocked, MoveRecord, RetireStep, RecordIntent,
     ResumeInterrupted, MoveToTrash, KeepAtTrash, RecordMoved, SettleStep, SettleMove, KeepItem,
     KeepMove, SettleStorage, SettleArchive, RecordLink
<1>3. RefusedStep => UNCHANGED <<name, staged, aside>>
  BY DEF RefusedStep, LeftoversRefused, StageRefused, Stranded, DropRefused, ReadBackRefused, NamesStay
<1> QED BY <1>1, <1>2, <1>3 DEF Run, LinkStep, RefusedStep, PickStep, ItemStep, CheckStep, LastStep, ProveStep,
     TransferStep, RetireStep, SettleStep

\* A step on the names of one link leaves those of the others.
LEMMA OneLinkAt ==
    ASSUME Inv, LinkStep, NEW l \in Links
    PROVE  l = Least(links) \/ UNCHANGED <<name[l], staged[l], aside[l]>>
BY DEF Inv, Recorded, Types, TypeOK, LinkStep, SettleLeftovers, StageLink, Exchange, ProveOld,
   ExchangeBack, MoveAside, Install, SwapRefused, PutBack, DropOld, Set

\* What is there of someone else stays, under one of the three names.
LEMMA ForeignKept == ASSUME Inv, Run, NEW l \in Links PROVE Foreign(l)' >= Foreign(l)
<1>1. Foreign(l) \in Nat
  BY DEF Foreign, Bit
<1>2. CASE UNCHANGED <<name[l], staged[l], aside[l]>>
  BY <1>1, <1>2 DEF Foreign, Bit
<1>3. CASE LinkStep /\ l = Least(links)
  <2> USE DEF LinkAt, Set, RecordedAt
  <2>1. CASE SettleLeftovers
    BY <1>3, <2>1 DEF Inv, Recorded, Types, TypeOK, SettleLeftovers, Waits, Vacant, Discarded, Foreign, Bit
  <2>2. CASE StageLink
    BY <1>3, <2>2 DEF Inv, Recorded, Types, TypeOK, StageLink, Foreign, Bit
  <2>3. CASE Exchange
    BY <1>3, <2>3 DEF Inv, Recorded, Types, TypeOK, Exchange, Discarded, Foreign, Bit
  <2>4. CASE ProveOld
    BY <1>3, <2>4 DEF Inv, Recorded, Types, TypeOK, ProveOld, Foreign, Bit
  <2>5. CASE ExchangeBack
    BY <1>3, <2>5 DEF Inv, Recorded, Types, TypeOK, ExchangeBack, Discarded, Foreign, Bit
  <2>6. CASE MoveAside
    BY <1>3, <2>6 DEF Inv, Recorded, Types, TypeOK, MoveAside, Discarded, Foreign, Bit
  <2>7. CASE Install
    BY <1>3, <2>7 DEF Inv, Recorded, Types, TypeOK, Install, Foreign, Bit
  <2>8. CASE SwapRefused \/ PutBack
    BY <1>3, <2>8 DEF Inv, Recorded, Types, TypeOK, SwapRefused, PutBack, Discarded, Foreign, Bit
  <2>9. CASE DropOld
    BY <1>3, <2>9 DEF Inv, Recorded, Types, TypeOK, Placed, AtLink, DropOld, Foreign, Bit
  <2> QED BY <1>3, <2>1, <2>2, <2>3, <2>4, <2>5, <2>6, <2>7, <2>8, <2>9 DEF LinkStep
<1> QED BY <1>2, <1>3, OthersAlone, OneLinkAt

-----------------------------------------------------------------------------
(* What the archive promises, step by step. *)

\* It starts where the promise starts.
LEMMA PromisedInit == Init => Promised!Init
BY DEF Init, Promised!Init

\* Six steps are steps of the promise, by what the invariant knows of each;
\* the others change none of what it is about.
LEMMA PromisedStep == ASSUME Inv, [Next]_vars PROVE [Promised!Next]_(Promised!vars)
<1> USE DEF Promised!vars, Promised!Open
<1>1. CASE MoveRecord
  <2>1. file \in Files /\ Promised!Move(file)
    BY <1>1 DEF Inv, Recorded, Types, TypeOK, Placed, AtFile, FilePlaces, MoveRecord, catalog,
       frames, Promised!Move
  <2> QED BY <2>1 DEF Promised!Next
<1>2. CASE RecordLink
  <2>1. Least(links) \in Links /\ FileOf[Least(links)] = file
    BY <1>2, AtOneLink DEF RecordLink, LinkAt, LinkPlaces
  <2>2. Promised!Repoint(Least(links))
    BY <1>2, <2>1 DEF Inv, Placed, AtFile, FilePlaces, LinkPlaces, RecordLink, LinkAt, catalog,
       frames, Promised!Repoint
  <2> QED BY <2>1, <2>2 DEF Promised!Next
<1>3. CASE MoveToTrash
  <2>1. file \in Files /\ Promised!Retire(file)
    BY <1>3 DEF Inv, Recorded, Types, TypeOK, PhaseFits, Placed, AtFile, FilePlaces, MoveToTrash,
       LinksTo, catalog, moves, Promised!Retire
  <2> QED BY <2>1 DEF Promised!Next
<1>4. CASE SettleMove
  <2>1. file \in Files /\ item[file] \in {"moved", "sourceKept", "blocked", "uncertain"}
    BY <1>4 DEF Inv, Recorded, Types, TypeOK, Placed, AtFile, SettleMove
  <2> DEFINE o == OutcomeOf(item[file], file \in repointed)
  <2>2. Promised!Truthful(file, o)
    BY <2>1 DEF Inv, Recorded, BinFits, OutcomeOf, Promised!Truthful
  <2>3. o \in {"archived", "sourceRetained", "blocked", "uncertain"}
    BY <2>1 DEF OutcomeOf
  <2>4. Promised!End(file, o)
    BY <1>4, <2>2 DEF Inv, Placed, AtFile, FilePlaces, SettleMove, catalog, frames, Promised!End
  <2> QED BY <2>1, <2>3, <2>4 DEF Promised!Next
<1>5. CASE KeepMove
  <2>1. file \in Files /\ keeping \in {"sourceRetained", "blocked"}
        /\ Promised!Truthful(file, keeping)
    BY <1>5 DEF Inv, Recorded, Types, TypeOK, Placed, AtKeep, KeepMove, Promised!Truthful
  <2>2. Promised!End(file, keeping)
    BY <1>5, <2>1 DEF Inv, Placed, AtFile, FilePlaces, KeepMove, catalog, frames, Promised!End
  <2> QED BY <2>1, <2>2 DEF Promised!Next
<1>6. CASE SettleArchive
  <2>1. \A f \in Files : outcome[f] # "none"
    BY <1>6 DEF Inv, Placed, AtFile, SettleArchive, Open
  <2>2. Promised!Settle \/ UNCHANGED Promised!vars
    BY <1>6, <2>1 DEF SettleArchive, SettlesMoved, frames, moves, Promised!Settle
  <2> QED BY <2>2 DEF Promised!Next
<1>7. ASSUME Run, ~MoveRecord, ~RecordLink, ~MoveToTrash, ~SettleMove, ~KeepMove, ~SettleArchive
      PROVE  UNCHANGED Promised!vars
  <2> USE DEF Rests, world, frames, moves, catalog
  <2>1. CASE PickStep \/ ItemStep \/ CheckStep \/ LastStep \/ ProveStep
    BY <2>1 DEF PickStep, Pick, PickNone, ItemStep, ItemSettled, ItemVerified, ItemRetiring,
       ItemPending, CheckStep, CheckCopy, MoveRecordConflict, ListLinks, LastStep, LinksDone, Last,
       LastSettled, ResumeRetiring, Resume, ProveStep, LinkRootGone, ReadsCopy, ReadBack, LinkRestsAt
  <2>2. CASE TransferStep \/ RetireStep \/ SettleStep
    BY <1>7, <2>2 DEF TransferStep, Transfer, TransferBlocked, RetireStep, RecordIntent,
       ResumeInterrupted, KeepAtTrash, RecordMoved, SettleStep, KeepItem, SettleStorage
  <2>3. CASE LinkStep \/ RefusedStep
    BY <2>3 DEF RefusedStep, LeftoversRefused, StageRefused, Stranded, DropRefused, ReadBackRefused,
       NamesStay, LinkStep, SettleLeftovers, StageLink, Exchange, ProveOld, ExchangeBack, MoveAside,
       Install, SwapRefused, PutBack, DropOld, EntriesOnly
  <2> QED BY <1>7, <2>1, <2>2, <2>3 DEF Run, LinkStep, RefusedStep, PickStep, ItemStep, CheckStep, LastStep,
       ProveStep, TransferStep, RetireStep, SettleStep
<1>8. CASE Stop \/ Resume \/ Changed \/ UNCHANGED vars
  BY <1>8 DEF Stop, Resume, Rests, world, frames, moves, catalog, vars, Changed, ChangeSource,
     SpoilCopy, ChangeLink, SwitchRoot, Scan, Hold, Outside
<1> QED BY <1>1, <1>2, <1>3, <1>4, <1>5, <1>6, <1>7, <1>8 DEF Next

-----------------------------------------------------------------------------
(* The theorems. *)

\* Every variable stays in its range, for any frames, kept links, stops and
\* changes from outside (`run_archive` and what it drives).
THEOREM TypeCorrect == Spec => []TypeOK
<1>1. Inv => TypeOK
  BY DEF Inv, Recorded, Types
<1> QED BY <1>1, InvHolds, PTL

\* `archive_one` retires an original only once its record and every kept link
\* read the copy: whatever stopped it in between, an original in the OS Trash
\* has no untouched reader left.
THEOREM ReadersFollow == Spec => []KeptLinksRead
<1>1. Inv => KeptLinksRead
  BY DEF Inv, Recorded, Types, TypeOK, BinFits, NamesFit, KeptLinksRead, LinksTo
<1> QED BY <1>1, InvHolds, PTL

\* `repoint_link` and `settle_leftovers` never delete the last entry of a link
\* nobody touched, by either way of swapping and across any stops.
THEOREM LinksSurvive == Spec => []NoLinkLost
<1>1. Inv => NoLinkLost
  BY DEF Inv, Recorded
<1> QED BY <1>1, InvHolds, PTL

\* `repoint_link` moves back or leaves what the user put at any of a link's
\* names: no step of a run has fewer of someone else's entries after it.
THEOREM ForeignStays == Spec => ForeignLinkStays
<1>1. Inv /\ [Next]_vars => [Run => \A l \in Links : Cardinality(Entries(l)') >= Cardinality(Entries(l))]_vars
  <2> SUFFICES ASSUME Inv, Run, NEW l \in Links
               PROVE  Cardinality(Entries(l)') >= Cardinality(Entries(l))
    OBVIOUS
  <2>1. Cardinality(Entries(l)) = Foreign(l)
    BY EntriesCount
  <2>2. Cardinality(Entries(l)') = Foreign(l)'
    BY OthersCount DEF Entries, Others, Foreign
  <2> QED BY <2>1, <2>2, ForeignKept
<1> QED BY <1>1, InvHolds, PTL DEF Spec, ForeignLinkStays

\* An archive implements the order it promises: a record moves, its readers
\* follow, its original leaves, its outcome says so, its Project ends by what
\* moved; every other step, stop and change from outside is a stutter.
THEOREM KeepsPromise == Spec => ImplementsPromise
<1>1. Inv /\ [Next]_vars => [Promised!Next]_(Promised!vars)
  BY PromisedStep
<1> QED BY <1>1, PromisedInit, InvHolds, PTL DEF Spec, ImplementsPromise, Promised!Spec
=============================================================================
