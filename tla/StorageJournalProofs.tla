------------------------ MODULE StorageJournalProofs ------------------------
(***************************************************************************)
(* Theorems of StorageJournal: for every number of items and kept copies,  *)
(* on every volume, in every world and for any number of crashes.          *)
(***************************************************************************)
EXTENDS StorageJournal, TLAPS

\* A copy is written for a Copy or a Move, a source retired for a Move or a
\* Trash operation.
PlaceFits ==
    /\ at \in Writing => kind # "trash"
    /\ at \in Retiring => kind # "copy"

\* What the Trash holds is not at its path, unless another entry is; it went
\* there under a recorded intent.
Away ==
    \A i \in Items : bin[i] # "gone" =>
        /\ entry[i] \in {"other", "gone"}
        /\ outcome[i] = "none" => phase[i] = "retiring"

\* Until the OS Trash is asked it has nothing of the item.
NotYetAway ==
    at \in Writing \cup (Retiring \ {"observe"}) => bin[item] = "gone"

\* No retirement is under way without its recorded intent.
Intended == at \in Retiring => phase[item] = "retiring"

\* A check's result is void only where it is still relied on, or after a crash.
Fresh == at \notin Relying \cup {"idle"} => ~lapsed

\* Each check, once made, holds until it is used up, if nothing changed since.
Proven == ~lapsed =>
    /\ at \in {"verifyKept", "verifySource", "trash", "observe"} /\ kind = "move"
           => copy[item].holds = "whole"
    /\ at \in {"verifySource", "trash"} => KeptProven(item)
    /\ at = "trash" => entry[item] = "reviewed"
    /\ at = "observe" /\ entry[item] = "gone" => bin[item] # "gone"

\* And whatever changed since, no kept copy verified is in the Trash.
KeptHere ==
    at \in {"verifySource", "trash"} /\ kind = "trash"
        => \A k \in ReliedOn[item] \cap Items : bin[k] = "gone"

\* The outcome about to be recorded is what happened.
Truthful ==
    at = "record" =>
        /\ next.outcome \in {"none", "blocked", "copied", "sourceKept"} => bin[item] = "gone"
        /\ next.outcome \in {"trashed", "moved"} /\ ~lapsed => bin[item] # "gone"
        /\ next.outcome \in {"copied", "moved"} /\ ~lapsed => copy[item].holds = "whole"

TypeInv == TypeOK /\ PlaceFits

Safe ==
    /\ Away
    /\ NotYetAway
    /\ Intended
    /\ Fresh
    /\ Proven
    /\ KeptHere
    /\ Truthful
    /\ OneCopyStays

Inv == TypeInv /\ Safe

-----------------------------------------------------------------------------
(* Types. *)

\* The places of the process, spelled out.
LEMMA PlaceNames ==
    /\ Relying = {"verifyKept", "verifySource", "trash", "observe", "record"}
    /\ Writing = {"fill", "install", "again", "unlink", "copying", "aside", "removing"}
    /\ Retiring = {"support", "verifyCopy", "verifyKept", "verifySource", "trash", "observe"}
    /\ Places = Relying \cup Writing \cup Retiring \cup {"idle", "step"}
BY DEF Relying, Writing, Retiring, Places

\* What the executor may put at a destination is a copy, the values it starts
\* from are of their types.
LEMMA Values ==
    /\ NoCopy \in Copy
    /\ NoChange \in Change
    /\ \A by \in {"none", "ours", "made", "theirs"}, holds \in {"nothing", "prefix", "whole", "other"} :
           [by |-> by, holds |-> holds] \in Copy
BY DEF NoCopy, Copy, NoChange, Change, Phases, Outcomes

LEMMA InitType == Init => TypeInv
<1> SUFFICES ASSUME Init PROVE TypeInv
  OBVIOUS
<1>1. DiskOK
  BY Values DEF Init, DiskOK, Standing
<1>2. CatalogOK
  BY Values, InstanceAssumption DEF Init, CatalogOK, Phases, Outcomes, Accepted, PhaseFits, OutcomeFits
<1>3. ProcessOK /\ PlaceFits
  BY Values DEF Init, ProcessOK, PlaceFits, PlaceNames, Places, Writing, Retiring, Relying
<1>4. BoundsOK
  BY InstanceAssumption DEF Init, BoundsOK
<1> QED BY <1>1, <1>2, <1>3, <1>4 DEF Init, TypeInv, TypeOK

\* A group of variables a step leaves alone keeps its types.
LEMMA Unchanged ==
    /\ DiskOK /\ UNCHANGED disk => DiskOK'
    /\ CatalogOK /\ UNCHANGED <<kind, catalog>> => CatalogOK'
    /\ BoundsOK /\ UNCHANGED bounds => BoundsOK'
<1>1. DiskOK /\ UNCHANGED disk => DiskOK'
  BY DEF DiskOK, disk
<1>2. CatalogOK /\ UNCHANGED <<kind, catalog>> => CatalogOK'
  BY DEF CatalogOK, catalog, Accepted, PhaseFits, OutcomeFits
<1>3. BoundsOK /\ UNCHANGED bounds => BoundsOK'
  BY DEF BoundsOK, bounds
<1> QED BY <1>1, <1>2, <1>3

\* The disk keeps its types where the step changes one entry, copy or partial.
LEMMA DiskChanged ==
    ASSUME DiskOK,
           NEW f \in Entries, NEW s \in Standing, NEW i \in Items, NEW b \in Standing,
           NEW c \in Copy, NEW p \in {"none", "empty", "prefix", "whole"}
    PROVE  /\ [entry EXCEPT ![f] = s] \in [Entries -> Standing]
           /\ [bin EXCEPT ![i] = b] \in [Items -> Standing]
           /\ [copy EXCEPT ![i] = c] \in [Items -> Copy]
           /\ [partial EXCEPT ![i] = p] \in [Items -> {"none", "empty", "prefix", "whole"}]
BY DEF DiskOK

\* What the executor goes on to record is a change the catalog accepts.
LEMMA Recordable ==
    ASSUME TypeInv, NEW i \in Items
    PROVE  /\ SettleAs(i, "blocked") \in Change /\ SettleAs(i, "uncertain") \in Change
           /\ \A o \in {"blocked", "uncertain"} : Accepted("settled", o, written[i])
           /\ SettleAs(i, "copied") \in Change
           /\ SettleAs(i, "moved") \in Change /\ SettleAs(i, "sourceKept") \in Change
           /\ SettleAs(i, "trashed") \in Change
           /\ kind = "copy" => Accepted("settled", "copied", written[i])
           /\ kind = "move" => \A o \in {"moved", "sourceKept"} : Accepted("settled", o, written[i])
           /\ kind = "trash" => Accepted("settled", "trashed", written[i])
BY InstanceAssumption
   DEF TypeInv, TypeOK, CatalogOK, SettleAs, Change, Phases, Outcomes, Accepted, PhaseFits, OutcomeFits

\* The process goes on to another place.
LEMMA GoneOn ==
    ASSUME TypeInv, at' \in Places, at' # "record", item' \in Items, next' \in Change,
           refused' \in BOOLEAN, lapsed' \in BOOLEAN, UNCHANGED kind,
           at' \in Writing => kind # "trash", at' \in Retiring => kind # "copy"
    PROVE  ProcessOK' /\ PlaceFits'
BY DEF ProcessOK, PlaceFits

\* It goes on to record a change the catalog accepts.
LEMMA GoneToRecord ==
    ASSUME TypeInv, NEW c \in Change, Accepted(c.phase, c.outcome, c.written),
           at' = "record", next' = c, item' \in Items, UNCHANGED <<kind, refused, lapsed>>
    PROVE  ProcessOK' /\ PlaceFits'
<1>1. PlaceFits'
  BY DEF PlaceFits, Writing, Retiring
<1>2. at' \in Places
  BY DEF Places, Relying
<1>3. Accepted(c.phase, c.outcome, c.written)'
  BY DEF Accepted, PhaseFits, OutcomeFits
<1>4. refused \in BOOLEAN /\ lapsed \in BOOLEAN
  BY DEF TypeInv, TypeOK, ProcessOK
<1> QED BY <1>1, <1>2, <1>3, <1>4 DEF ProcessOK

\* The groups of types make up the invariant again.
LEMMA Together ==
    ASSUME TypeInv, UNCHANGED setting, DiskOK', CatalogOK', ProcessOK', PlaceFits', BoundsOK'
    PROVE  TypeInv'
BY DEF TypeInv, TypeOK, setting

LEMMA JournalKeepsType == TypeInv /\ (Claim \/ SettleOperation \/ Record) => TypeInv'
<1> SUFFICES ASSUME TypeInv, Claim \/ SettleOperation \/ Record PROVE TypeInv'
  OBVIOUS
<1>0. DiskOK /\ CatalogOK /\ ProcessOK /\ BoundsOK
  BY DEF TypeInv, TypeOK
<1> USE <1>0, Unchanged, Together, PlaceNames
<1>1. CASE Claim
  <2>1. CatalogOK'
    BY <1>1 DEF Claim, CatalogOK, setting, Accepted, PhaseFits, OutcomeFits
  <2>2. ProcessOK' /\ PlaceFits'
    BY <1>1, GoneOn DEF Claim, ProcessOK, setting
  <2> QED BY <1>1, <2>1, <2>2 DEF Claim
<1>2. CASE SettleOperation
  <2>1. CatalogOK'
    BY <1>2 DEF SettleOperation, CatalogOK, setting, Accepted, PhaseFits, OutcomeFits
  <2>2. ProcessOK' /\ PlaceFits'
    BY <1>2, GoneOn DEF SettleOperation, ProcessOK, setting
  <2> QED BY <1>2, <2>1, <2>2 DEF SettleOperation
<1>3. CASE Record
  <2>1. Accepted(next.phase, next.outcome, next.written) /\ next \in Change
    BY <1>3 DEF Record, ProcessOK
  <2>2. CatalogOK'
    <3>1. next.phase \in Phases /\ next.outcome \in Outcomes /\ next.written \in {"none", "ours", "made"}
      BY <2>1 DEF Change
    <3>2. operation' \in {"reviewed", "running", "settled"}
      BY <1>3 DEF Record, CatalogOK
    <3>3. phase' \in [Items -> Phases] /\ outcome' \in [Items -> Outcomes]
          /\ written' \in [Items -> {"none", "ours", "made"}]
      BY <1>3, <3>1 DEF Record, CatalogOK
    <3>4. \A i \in Items : Accepted(phase'[i], outcome'[i], written'[i])
      BY <1>3, <2>1 DEF Record, CatalogOK
    <3>5. \A i \in Items : Accepted(phase[i], outcome[i], written[i])'
      BY <1>3, <3>4 DEF Record, setting, Accepted, PhaseFits, OutcomeFits
    <3> QED BY <3>2, <3>3, <3>5 DEF CatalogOK
  <2>3. ProcessOK' /\ PlaceFits'
    BY <1>3, GoneOn, Values DEF Record, ProcessOK, setting
  <2> QED BY <1>3, <2>2, <2>3 DEF Record
<1> QED BY <1>1, <1>2, <1>3

\* The item starts from its recorded phase.
LEMMA FromPhase ==
    ASSUME TypeInv, NEW i \in Items, NEW k, NEW p, Advances(i, k, p)
    PROVE  /\ item' \in Items /\ kind \in k /\ outcome[i] = "none" /\ phase[i] = p
           /\ Accepted(p, "none", written[i])
           /\ written[i] \in {"none", "ours", "made"}
BY DEF Advances, First, Open, TypeInv, TypeOK, CatalogOK

LEMMA OnwardRecordable ==
    ASSUME TypeInv, NEW p \in Phases, NEW w \in {"none", "ours", "made"}
    PROVE  To(p, w) \in Change
BY DEF To, Change, Outcomes

\* `Blocked` can be recorded from everywhere.
LEMMA BlockedRecorded ==
    ASSUME TypeInv, Blocked, UNCHANGED kind
    PROVE  ProcessOK' /\ PlaceFits'
<1>1. item \in Items
  BY DEF TypeInv, TypeOK, ProcessOK
<1>2. SettleAs(item, "blocked") \in Change
      /\ Accepted("settled", "blocked", written[item])
  BY <1>1, Recordable
<1>3. SettleAs(item, "blocked").phase = "settled" /\ SettleAs(item, "blocked").outcome = "blocked"
      /\ SettleAs(item, "blocked").written = written[item]
  BY DEF SettleAs
<1> QED BY <1>1, <1>2, <1>3, GoneToRecord DEF Blocked, Decide

\* An install that ends is recorded, with the folder synced or not.
LEMMA SyncedRecorded ==
    ASSUME TypeInv, NEW w \in {"ours", "made"}, Synced(w), kind # "trash", UNCHANGED kind
    PROVE  ProcessOK' /\ PlaceFits'
<1>1. CASE Blocked
  BY <1>1, BlockedRecorded
<1>2. CASE Decide(To("installed", w))
  <2>1. To("installed", w) \in Change
    BY OnwardRecordable DEF Phases
  <2>2. Accepted("installed", "none", w)
    BY InstanceAssumption DEF TypeInv, TypeOK, Accepted, PhaseFits, OutcomeFits
  <2>3. item \in Items
    BY DEF TypeInv, TypeOK, ProcessOK
  <2>4. To("installed", w).phase = "installed" /\ To("installed", w).outcome = "none"
        /\ To("installed", w).written = w
    BY DEF To
  <2> QED BY <1>2, <2>1, <2>2, <2>3, <2>4, GoneToRecord DEF Decide
<1> QED BY <1>1, <1>2 DEF Synced

\* The disk after a step of a transfer, which touches one item's copy and
\* partial only.
LEMMA TransferDisk ==
    ASSUME TypeInv, NEW i \in Items, UNCHANGED <<entry, bin>>,
           \/ partial' = partial
           \/ \E p \in {"none", "empty", "prefix", "whole"} : partial' = [partial EXCEPT ![i] = p],
           \/ copy' = copy
           \/ \E c \in Copy : copy' = [copy EXCEPT ![i] = c],
           aside' \in {aside, aside \cup {i}, aside \ {i}}
    PROVE  DiskOK'
BY DEF TypeInv, TypeOK, DiskOK

\* The item's recorded change, decided where it is advanced from.
LEMMA ChangeRecorded ==
    ASSUME TypeInv, NEW c \in Change, Accepted(c.phase, c.outcome, c.written),
           item' \in Items, Changing(c)
    PROVE  ProcessOK' /\ PlaceFits' /\ CatalogOK' /\ BoundsOK' /\ UNCHANGED setting
<1>1. ProcessOK' /\ PlaceFits'
  BY GoneToRecord DEF Changing, setting
<1>2. CatalogOK' /\ BoundsOK'
  BY Unchanged DEF Changing, setting, TypeInv, TypeOK
<1> QED BY <1>1, <1>2 DEF Changing

LEMMA AdvancesKeepsType ==
    ASSUME TypeInv, NEW i \in Items,
           Begin(i) \/ ResumeInstalled(i) \/ ResumeLinked(i) \/ StartFill(i) \/ Verify(i)
    PROVE  TypeInv'
<1>0. DiskOK /\ CatalogOK /\ ProcessOK /\ BoundsOK
  BY DEF TypeInv, TypeOK
<1> USE <1>0, Unchanged, Together, PlaceNames
<1> DEFINE blocked == SettleAs(i, "blocked")
<1>a. blocked \in Change /\ Accepted(blocked.phase, blocked.outcome, blocked.written)
  BY Recordable DEF SettleAs
<1>b. ASSUME NEW p \in {"writing", "installed", "verified"}, NEW w \in {"ours", "made"}, kind \in {"copy", "move"}
      PROVE  To(p, w) \in Change /\ Accepted(To(p, w).phase, To(p, w).outcome, To(p, w).written)
  BY <1>b, OnwardRecordable DEF To, Accepted, PhaseFits, OutcomeFits, Phases
<1> HIDE DEF blocked
<1>1. CASE Begin(i)
  <2>1. item' \in Items /\ kind \in {"copy", "move"}
    BY <1>1, FromPhase DEF Begin
  <2>2. CASE copy[i].by = "none"
    <3>1. Changing(To("writing", "ours")) /\ partial' = [partial EXCEPT ![i] = "empty"]
      BY <1>1, <2>2 DEF Begin
    <3>2. ProcessOK' /\ PlaceFits' /\ CatalogOK' /\ BoundsOK' /\ UNCHANGED setting
      BY <1>b, <2>1, <3>1, ChangeRecorded
    <3>3. DiskOK'
      BY <1>1, <3>1, TransferDisk DEF Begin
    <3> QED BY <3>2, <3>3
  <2>3. CASE copy[i].by # "none"
    <3>1. Changing(blocked) /\ UNCHANGED disk
      BY <1>1, <2>3 DEF Begin, blocked, disk
    <3> QED BY <1>a, <2>1, <3>1, ChangeRecorded
  <2> QED BY <2>2, <2>3
<1>2. CASE ResumeInstalled(i)
  <2>1. item' \in Items /\ kind \in {"copy", "move"} /\ written[i] \in {"ours", "made"}
    BY <1>2, FromPhase DEF ResumeInstalled, Accepted
  <2>2. (Changing(To("installed", written[i])) \/ Changing(blocked)) /\ UNCHANGED disk
    BY <1>2 DEF ResumeInstalled, blocked
  <2> QED BY <1>a, <1>b, <2>1, <2>2, ChangeRecorded
<1>3. CASE ResumeLinked(i)
  <2>1. item' \in Items /\ kind \in {"copy", "move"} /\ written[i] \in {"ours", "made"}
    BY <1>3, FromPhase DEF ResumeLinked, Accepted
  <2>2. DiskOK'
    BY <1>3, TransferDisk DEF ResumeLinked, SecondNameGone
  <2>3. Changing(To("installed", written[i]))
    BY <1>3 DEF ResumeLinked
  <2> QED BY <1>b, <2>1, <2>2, <2>3, ChangeRecorded
<1>4. CASE StartFill(i)
  <2>1. item' \in Items /\ kind \in {"copy", "move"}
    BY <1>4, FromPhase DEF StartFill
  <2>2. DiskOK'
    BY <1>4, TransferDisk DEF StartFill
  <2>3. ProcessOK' /\ PlaceFits'
    BY <1>4, <2>1, GoneOn DEF StartFill, ProcessOK, setting
  <2> QED BY <1>4, <2>2, <2>3 DEF StartFill, setting
<1>5. CASE Verify(i)
  <2>1. item' \in Items /\ kind \in {"copy", "move"} /\ written[i] \in {"ours", "made"}
    BY <1>5, FromPhase DEF Verify, Accepted
  <2>2. CASE HoldsWhole(i) /\ kind = "copy"
    <3>1. Changing(SettleAs(i, "copied")) /\ UNCHANGED disk
      BY <1>5, <2>2 DEF Verify
    <3>2. SettleAs(i, "copied") \in Change
          /\ Accepted(SettleAs(i, "copied").phase, SettleAs(i, "copied").outcome,
                      SettleAs(i, "copied").written)
      BY <2>2, Recordable DEF SettleAs
    <3> QED BY <2>1, <3>1, <3>2, ChangeRecorded
  <2>3. CASE ~HoldsWhole(i)
    <3>1. Changing(blocked) /\ UNCHANGED disk
      BY <1>5, <2>3 DEF Verify, blocked
    <3> QED BY <1>a, <2>1, <3>1, ChangeRecorded
  <2>4. CASE HoldsWhole(i) /\ kind # "copy"
    <3>1. Changing(To("verified", written[i])) /\ UNCHANGED disk
      BY <1>5, <2>4 DEF Verify
    <3> QED BY <1>b, <2>1, <3>1, ChangeRecorded
  <2> QED BY <2>2, <2>3, <2>4
<1> QED BY <1>1, <1>2, <1>3, <1>4, <1>5

\* The places where a copy is written.
WritingStep ==
    \/ Fill \/ FillFails
    \/ InstallRenamed \/ InstallLinked \/ Unlink \/ InstallCreated \/ Copied \/ CopyFails
    \/ MoveAside \/ RemoveAside \/ MakeWay \/ InstallFails

\* All of them keep to one item and to its copy and partial.
LEMMA WritingFrame ==
    ASSUME TypeInv, WritingStep
    PROVE  /\ at \in Writing /\ kind # "trash" /\ item \in Items
           /\ UNCHANGED <<setting, catalog, bounds, entry, bin>>
BY PlaceNames DEF WritingStep, Fill, FillFails, InstallRenamed, InstallLinked, Unlink,
   InstallCreated, Copied, CopyFails, MoveAside, RemoveAside, MakeWay, InstallFails, Installing,
   TypeInv, TypeOK, ProcessOK, PlaceFits

LEMMA WritingKeepsType == TypeInv /\ WritingStep => TypeInv'
<1> SUFFICES ASSUME TypeInv, WritingStep PROVE TypeInv'
  OBVIOUS
<1>0. DiskOK /\ CatalogOK /\ ProcessOK /\ BoundsOK
  BY DEF TypeInv, TypeOK
<1>1. /\ kind # "trash" /\ item \in Items
      /\ UNCHANGED <<setting, catalog, bounds, entry, bin>>
  BY WritingFrame
<1>2. CatalogOK' /\ BoundsOK' /\ UNCHANGED kind
  BY <1>0, <1>1, Unchanged DEF setting
<1>3. DiskOK'
  <2>1. /\ partial' = partial \/ \E p \in {"none", "empty", "prefix", "whole"} :
                                     partial' = [partial EXCEPT ![item] = p]
        /\ aside' \in {aside, aside \cup {item}, aside \ {item}}
    BY DEF WritingStep, Fill, FillFails, InstallRenamed, InstallLinked, Unlink, InstallCreated,
       Copied, CopyFails, MoveAside, RemoveAside, MakeWay, InstallFails, Discarded
  <2>2. copy' = copy \/ \E by \in {"none", "ours", "made", "theirs"},
                            holds \in {"nothing", "prefix", "whole", "other"} :
                            copy' = [copy EXCEPT ![item] = [by |-> by, holds |-> holds]]
    BY DEF WritingStep, Fill, FillFails, InstallRenamed, InstallLinked, Unlink, InstallCreated,
       Copied, CopyFails, MoveAside, RemoveAside, MakeWay, InstallFails, Placed
  <2>3. copy' = copy \/ \E c \in Copy : copy' = [copy EXCEPT ![item] = c]
    BY <2>2, Values
  <2> QED BY <1>1, <2>1, <2>3, TransferDisk
<1>4. ProcessOK' /\ PlaceFits'
  <2>1. CASE Blocked
    BY <1>2, <2>1, BlockedRecorded
  <2>2. CASE \E p \in Writing : Goto(p)
    BY <1>0, <1>1, <1>2, <2>2, GoneOn, PlaceNames DEF Goto, ProcessOK
  <2>3. CASE \E w \in {"ours", "made"} : Synced(w)
    BY <1>1, <1>2, <2>3, SyncedRecorded
  <2>4. Blocked \/ (\E p \in Writing : Goto(p)) \/ (\E w \in {"ours", "made"} : Synced(w))
    BY PlaceNames DEF WritingStep, Fill, FillFails, InstallRenamed, InstallLinked, Unlink,
       InstallCreated, Copied, CopyFails, MoveAside, RemoveAside, MakeWay, InstallFails
  <2> QED BY <2>1, <2>2, <2>3, <2>4
<1> QED BY <1>1, <1>2, <1>3, <1>4, Together

\* A decision in a retirement that the catalog accepts is recorded.
LEMMA OutcomeRecorded ==
    ASSUME TypeInv, NEW o \in Outcomes, Decide(SettleAs(item, o)), UNCHANGED kind,
           \/ o \in {"blocked", "uncertain"}
           \/ kind = "move" /\ o \in {"moved", "sourceKept"}
           \/ kind = "trash" /\ o = "trashed"
    PROVE  ProcessOK' /\ PlaceFits'
<1>1. item \in Items
  BY DEF TypeInv, TypeOK, ProcessOK
<1>2. SettleAs(item, o) \in Change /\ Accepted("settled", o, written[item])
  BY <1>1, Recordable
<1>3. SettleAs(item, o).phase = "settled" /\ SettleAs(item, o).outcome = o
      /\ SettleAs(item, o).written = written[item]
  BY DEF SettleAs
<1> QED BY <1>1, <1>2, <1>3, GoneToRecord DEF Decide

LEMMA ResumeKeepsType ==
    ASSUME TypeInv, NEW i \in Items, RecordIntent(i) \/ ResumeRetiring(i) \/ ResumeInterrupted(i)
    PROVE  TypeInv'
<1>0. DiskOK /\ CatalogOK /\ ProcessOK /\ BoundsOK
  BY DEF TypeInv, TypeOK
<1> USE <1>0, Unchanged, Together, PlaceNames
<1>1. CASE RecordIntent(i)
  <2>1. item' \in Items /\ kind \in {"trash", "move"}
        /\ (kind = "trash" => Accepted("pending", "none", written[i]))
        /\ (kind = "move" => Accepted("verified", "none", written[i]))
    BY <1>1, FromPhase DEF RecordIntent
  <2>2. Accepted("retiring", "none", written[i]) /\ outcome[i] = "none"
    BY <1>1, <2>1, FromPhase DEF RecordIntent, Accepted, PhaseFits, OutcomeFits
  <2>3. UNCHANGED kind
    BY <1>1 DEF RecordIntent, setting
  <2>4. phase' = [phase EXCEPT ![i] = "retiring"] /\ UNCHANGED <<operation, outcome, written>>
    BY <1>1 DEF RecordIntent
  <2>5. CatalogOK'
    <3>1. phase' \in [Items -> Phases]
      BY <2>4 DEF CatalogOK, Phases
    <3>2. \A j \in Items : Accepted(phase'[j], outcome'[j], written'[j])
      BY <2>2, <2>4 DEF CatalogOK
    <3>3. \A j \in Items : Accepted(phase[j], outcome[j], written[j])'
      BY <2>3, <3>2 DEF Accepted, PhaseFits, OutcomeFits
    <3> QED BY <2>4, <3>1, <3>3 DEF CatalogOK
  <2>6. ProcessOK' /\ PlaceFits'
    BY <1>1, <2>1, <2>3, GoneOn DEF RecordIntent, ProcessOK
  <2> QED BY <1>1, <2>5, <2>6 DEF RecordIntent
<1>2. CASE ResumeRetiring(i)
  <2>1. item' \in Items /\ kind \in {"trash", "move"}
    BY <1>2, FromPhase DEF ResumeRetiring
  <2>2. ProcessOK' /\ PlaceFits'
    BY <1>2, <2>1, GoneOn DEF ResumeRetiring, ProcessOK, setting
  <2> QED BY <1>2, <2>2 DEF ResumeRetiring, setting
<1>3. CASE ResumeInterrupted(i)
  <2>1. item' \in Items
    BY <1>3, FromPhase DEF ResumeInterrupted
  <2>2. Changing(SettleAs(i, "uncertain")) /\ UNCHANGED disk
    BY <1>3 DEF ResumeInterrupted, Interrupted
  <2>3. SettleAs(i, "uncertain") \in Change
        /\ Accepted(SettleAs(i, "uncertain").phase, SettleAs(i, "uncertain").outcome,
                    SettleAs(i, "uncertain").written)
    BY Recordable DEF SettleAs
  <2> QED BY <2>1, <2>2, <2>3, ChangeRecorded
<1> QED BY <1>1, <1>2, <1>3

\* The checks of a retirement, the move and what is made of it.
RetiringStep ==
    CheckSupport \/ VerifyCopy \/ VerifyKept \/ VerifySource \/ MoveToTrash \/ Observe

LEMMA RetiringKeepsType == TypeInv /\ RetiringStep => TypeInv'
<1> SUFFICES ASSUME TypeInv, RetiringStep PROVE TypeInv'
  OBVIOUS
<1>0. DiskOK /\ CatalogOK /\ ProcessOK /\ BoundsOK
  BY DEF TypeInv, TypeOK
<1> USE <1>0, PlaceNames
<1>1. /\ at \in Retiring /\ kind # "copy" /\ item \in Items
      /\ UNCHANGED <<setting, catalog, bounds>>
  BY DEF RetiringStep, CheckSupport, VerifyCopy, VerifyKept, VerifySource, MoveToTrash, Observe,
     ProcessOK, TypeInv, PlaceFits
<1>2. CatalogOK' /\ BoundsOK' /\ UNCHANGED kind
  BY <1>1, Unchanged DEF setting
<1>3. kind \in {"move", "trash"}
  BY <1>1, InstanceAssumption DEF TypeInv, TypeOK
<1>4. CASE MoveToTrash
  <2>1. PICK moved \in BOOLEAN : /\ entry' = IF moved THEN [entry EXCEPT ![item] = "gone"] ELSE entry
                                 /\ bin' = IF moved THEN [bin EXCEPT ![item] = entry[item]] ELSE bin
    BY <1>4 DEF MoveToTrash
  <2>2. item \in Entries /\ entry[item] \in Standing /\ "gone" \in Standing
    BY <1>1 DEF Entries, DiskOK, Standing
  <2>3. entry' \in [Entries -> Standing] /\ bin' \in [Items -> Standing]
    BY <1>1, <2>1, <2>2 DEF DiskOK
  <2>4. DiskOK'
    BY <1>4, <2>3 DEF MoveToTrash, DiskOK
  <2>5. refused' \in BOOLEAN
    BY <1>4 DEF MoveToTrash
  <2>6. ProcessOK' /\ PlaceFits'
    BY <1>1, <1>2, <1>4, <2>5, GoneOn DEF MoveToTrash, ProcessOK
  <2> QED BY <1>1, <1>2, <2>4, <2>6, Together
<1>5. CASE ~MoveToTrash
  <2>1. DiskOK'
    BY <1>5, Unchanged DEF RetiringStep, CheckSupport, VerifyCopy, VerifyKept, VerifySource, Observe
  <2>2. CASE \E p \in Retiring : Goto(p)
    <3>1. ProcessOK' /\ PlaceFits'
      BY <1>1, <1>2, <2>2, GoneOn DEF Goto, ProcessOK
    <3> QED BY <1>1, <1>2, <2>1, <3>1, Together
  <2>3. CASE \E o \in Outcomes : /\ Decide(SettleAs(item, o))
                                 /\ \/ o \in {"blocked", "uncertain"}
                                    \/ kind = "move" /\ o \in {"moved", "sourceKept"}
                                    \/ kind = "trash" /\ o = "trashed"
    <3>1. ProcessOK' /\ PlaceFits'
      BY <1>2, <2>3, OutcomeRecorded
    <3> QED BY <1>1, <1>2, <2>1, <3>1, Together
  <2>4. (\E p \in Retiring : Goto(p)) \/
        \E o \in Outcomes : /\ Decide(SettleAs(item, o))
                            /\ \/ o \in {"blocked", "uncertain"}
                               \/ kind = "move" /\ o \in {"moved", "sourceKept"}
                               \/ kind = "trash" /\ o = "trashed"
    <3>1. {"blocked", "uncertain", "moved", "sourceKept", "trashed"} \subseteq Outcomes
      BY DEF Outcomes
    <3>2. CASE CheckSupport
      BY <1>3, <3>1, <3>2 DEF CheckSupport
    <3>3. CASE VerifyCopy \/ VerifyKept \/ VerifySource
      BY <3>1, <3>3 DEF VerifyCopy, VerifyKept, VerifySource, Blocked
    <3>4. CASE Observe
      BY <1>3, <3>1, <3>4 DEF Observe, Observed
    <3> QED BY <1>5, <3>2, <3>3, <3>4 DEF RetiringStep
  <2> QED BY <2>2, <2>3, <2>4
<1> QED BY <1>4, <1>5

LEMMA CrashKeepsType == TypeInv /\ Crash => TypeInv'
<1> SUFFICES ASSUME TypeInv, Crash PROVE TypeInv'
  OBVIOUS
<1>0. DiskOK /\ CatalogOK /\ ProcessOK /\ BoundsOK
  BY DEF TypeInv, TypeOK
<1>1. DiskOK' /\ CatalogOK'
  BY <1>0, Unchanged DEF Crash, setting
<1>2. ProcessOK' /\ PlaceFits'
  BY <1>0, GoneOn, PlaceNames, Values DEF Crash, ProcessOK, setting
<1>3. BoundsOK'
  BY <1>0, InstanceAssumption DEF Crash, BoundsOK
<1> QED BY <1>1, <1>2, <1>3, Together DEF Crash

LEMMA OutsideKeepsType == TypeInv /\ ChangedOutside => TypeInv'
<1> SUFFICES ASSUME TypeInv, ChangedOutside PROVE TypeInv'
  OBVIOUS
<1>0. DiskOK /\ CatalogOK /\ ProcessOK /\ BoundsOK
  BY DEF TypeInv, TypeOK
<1>1. PICK event : Outside(event)
  BY DEF ChangedOutside, EditEntry, ReplaceEntry, DeleteEntry, PutBack, SpoilCopy, ClearName, TakeName
<1>2. CatalogOK' /\ UNCHANGED setting
  BY <1>0, <1>1, Unchanged DEF Outside, setting
<1>3. BoundsOK'
  BY <1>0, <1>1, InstanceAssumption DEF Outside, BoundsOK
<1>4. ProcessOK' /\ PlaceFits'
  <2>1. lapsed' \in BOOLEAN /\ UNCHANGED <<at, item, next, refused, kind>>
    BY <1>0, <1>1 DEF Outside, ProcessOK, setting
  <2>2. PlaceFits'
    BY <2>1 DEF PlaceFits, TypeInv
  <2>3. at = "record" => Accepted(next.phase, next.outcome, next.written)'
    BY <1>0, <2>1 DEF ProcessOK, Accepted, PhaseFits, OutcomeFits
  <2> QED BY <1>0, <2>1, <2>2, <2>3 DEF ProcessOK
<1>5. DiskOK'
  <2>0. UNCHANGED <<partial, aside>>
    BY <1>1 DEF Outside
  <2>1. ASSUME NEW f \in Entries, EditEntry(f) \/ ReplaceEntry(f) \/ DeleteEntry(f)
        PROVE  DiskOK'
    BY <1>0, <2>0, <2>1 DEF EditEntry, ReplaceEntry, DeleteEntry, DiskOK, Standing
  <2>2. ASSUME NEW i \in Items, PutBack(i) PROVE DiskOK'
    <3>1. i \in Entries /\ bin[i] \in Standing /\ "gone" \in Standing
      BY <1>0 DEF Entries, DiskOK, Standing
    <3> QED BY <1>0, <2>0, <2>2, <3>1 DEF PutBack, DiskOK
  <2>3. ASSUME NEW i \in Items, ClearName(i) PROVE DiskOK'
    BY <1>0, <2>0, <2>3, Values DEF ClearName, DiskOK
  <2>4. ASSUME NEW i \in Items, SpoilCopy(i) PROVE DiskOK'
    <3>1. [copy[i] EXCEPT !.holds = "other"] \in Copy
      BY <1>0 DEF DiskOK, Copy
    <3>2. copy' = [copy EXCEPT ![i] = [copy[i] EXCEPT !.holds = "other"]]
      BY <1>0, <2>4 DEF SpoilCopy, DiskOK
    <3> DEFINE c == [copy[i] EXCEPT !.holds = "other"]
    <3>3. c \in Copy /\ copy' = [copy EXCEPT ![i] = c]
      BY <3>1, <3>2
    <3> HIDE DEF c
    <3> QED BY <1>0, <2>0, <2>4, <3>3 DEF SpoilCopy, DiskOK
  <2>5. ASSUME NEW i \in Items, NEW holds \in {"prefix", "whole", "other"}, TakeName(i, holds)
        PROVE  DiskOK'
    <3>1. [by |-> "theirs", holds |-> holds] \in Copy
      BY DEF Copy
    <3> QED BY <1>0, <2>0, <2>5, <3>1 DEF TakeName, DiskOK
  <2> QED BY <2>1, <2>2, <2>3, <2>4, <2>5 DEF ChangedOutside
<1> QED BY <1>2, <1>3, <1>4, <1>5, Together

LEMMA TypeStep == TypeInv /\ [Next]_vars => TypeInv'
<1>1. TypeInv /\ UNCHANGED vars => TypeInv'
  BY DEF vars, TypeInv, TypeOK, DiskOK, CatalogOK, ProcessOK, BoundsOK, PlaceFits, Accepted,
         PhaseFits, OutcomeFits
<1> QED
  BY <1>1, JournalKeepsType, AdvancesKeepsType, WritingKeepsType, ResumeKeepsType,
     RetiringKeepsType, CrashKeepsType, OutsideKeepsType
  DEF Next, Execute, Transfer, Retire, WritingStep, RetiringStep

\* Every variable holds a value of its kind in every reachable state, and
\* every change the executor is about to record is one the catalog accepts of
\* that kind of operation: no run ends at a change `validate_change` refuses.
THEOREM TypeCorrect == Spec => []TypeOK
<1>1. TypeInv => TypeOK
  BY DEF TypeInv
<1> QED BY <1>1, InitType, TypeStep, PTL DEF Spec

-----------------------------------------------------------------------------
(* Safety. *)

LEMMA InitSafe == Init => Safe
<1> SUFFICES ASSUME Init PROVE Safe
  OBVIOUS
<1> USE PlaceNames
<1>1. Away /\ OneCopyStays
  BY DEF Init, Away, OneCopyStays
<1>2. at = "idle" /\ lapsed = FALSE
  BY DEF Init
<1> QED BY <1>1, <1>2 DEF Safe, NotYetAway, Intended, Fresh, Proven, KeptHere, Truthful

LEMMA JournalKeepsSafe == Inv /\ (Claim \/ SettleOperation \/ Record) => Safe'
<1> SUFFICES ASSUME Inv, Claim \/ SettleOperation \/ Record PROVE Safe'
  OBVIOUS
<1> USE PlaceNames
<1>1. at' \in {"step", "idle"} /\ UNCHANGED <<entry, bin, copy, kind>>
  BY DEF Claim, SettleOperation, Record, disk, setting
<1>2. at' = "step" => ~lapsed'
  BY DEF Claim, SettleOperation, Record
<1>3. Away'
  <2>1. CASE Claim \/ SettleOperation
    BY <1>1, <2>1 DEF Claim, SettleOperation, Inv, Safe, Away
  <2>2. CASE Record
    <3>1. bin[item] # "gone" => next.outcome # "none"
      BY <2>2 DEF Record, Inv, Safe, Truthful
    <3>2. \A i \in Items : outcome'[i] = IF i = item THEN next.outcome ELSE outcome[i]
      BY <2>2 DEF Record, Inv, TypeInv, TypeOK, CatalogOK
    <3>3. \A i \in Items : i # item => phase'[i] = phase[i]
      BY <2>2 DEF Record, Inv, TypeInv, TypeOK, CatalogOK
    <3> QED BY <1>1, <3>1, <3>2, <3>3 DEF Inv, Safe, Away
  <2> QED BY <2>1, <2>2
<1>4. OneCopyStays'
  BY <1>1 DEF Inv, Safe, OneCopyStays
<1> QED BY <1>1, <1>2, <1>3, <1>4 DEF Safe, NotYetAway, Intended, Fresh, Proven, KeptHere, Truthful

\* Nothing of an item that has not come to its retirement is in the Trash.
LEMMA NotRetiredYet ==
    ASSUME Inv, NEW i \in Items, NEW k, NEW p, Advances(i, k, p), p # "retiring"
    PROVE  bin[i] = "gone"
BY FromPhase DEF Inv, Safe, Away

LEMMA AdvancesKeepsSafe ==
    ASSUME Inv, NEW i \in Items,
           Begin(i) \/ ResumeInstalled(i) \/ ResumeLinked(i) \/ StartFill(i) \/ Verify(i)
    PROVE  Safe'
<1> USE PlaceNames
<1>1. /\ at = "step" /\ item' = i /\ at' \in {"fill", "record"}
      /\ UNCHANGED <<entry, bin, kind, phase, outcome, lapsed>>
  BY DEF Begin, ResumeInstalled, ResumeLinked, StartFill, Verify, Advances, Changing, disk,
         setting, catalog
<1>2. bin[i] = "gone"
  BY NotRetiredYet DEF Begin, ResumeInstalled, ResumeLinked, StartFill, Verify
<1>3. ~lapsed
  BY <1>1 DEF Inv, Safe, Fresh
<1>4. at' = "record" => next'.outcome \in {"none", "blocked", "copied"}
  BY <1>1 DEF Begin, ResumeInstalled, ResumeLinked, StartFill, Verify, Changing, To, SettleAs
<1>5. at' = "record" /\ next'.outcome = "copied" => copy'[i].holds = "whole"
  <2>1. CASE Verify(i)
    BY <2>1 DEF Verify, Changing, SettleAs, To, HoldsWhole, disk
  <2>2. CASE ~Verify(i)
    BY <1>1, <2>2 DEF Begin, ResumeInstalled, ResumeLinked, StartFill, Changing, To, SettleAs
  <2> QED BY <2>1, <2>2
<1>6. Away' /\ OneCopyStays'
  BY <1>1 DEF Inv, Safe, Away, OneCopyStays
<1> QED BY <1>1, <1>2, <1>3, <1>4, <1>5, <1>6
        DEF Safe, NotYetAway, Intended, Fresh, Proven, KeptHere, Truthful

LEMMA WritingKeepsSafe == Inv /\ WritingStep => Safe'
<1> SUFFICES ASSUME Inv, WritingStep PROVE Safe'
  OBVIOUS
<1> USE PlaceNames
<1>1. /\ at \in Writing
      /\ UNCHANGED <<setting, catalog, bounds, entry, bin>>
  BY WritingFrame DEF Inv
<1>2. bin[item] = "gone" /\ ~lapsed
  BY <1>1 DEF Inv, Safe, NotYetAway, Fresh
<1>3. item' = item /\ lapsed' = lapsed /\ at' \in Writing \cup {"record"}
  BY DEF WritingStep, Fill, FillFails, InstallRenamed, InstallLinked, Unlink, InstallCreated,
     Copied, CopyFails, MoveAside, RemoveAside, MakeWay, InstallFails, Goto, Blocked, Synced, Decide
<1>4. at' = "record" => next'.outcome \in {"none", "blocked"}
  BY DEF WritingStep, Fill, FillFails, InstallRenamed, InstallLinked, Unlink, InstallCreated,
     Copied, CopyFails, MoveAside, RemoveAside, MakeWay, InstallFails, Goto, Blocked, Synced,
     Decide, To, SettleAs
<1>5. Away' /\ OneCopyStays'
  BY <1>1 DEF Inv, Safe, Away, OneCopyStays, setting, catalog
<1> QED BY <1>1, <1>2, <1>3, <1>4, <1>5
        DEF Safe, NotYetAway, Intended, Fresh, Proven, KeptHere, Truthful

LEMMA ResumeKeepsSafe ==
    ASSUME Inv, NEW i \in Items, RecordIntent(i) \/ ResumeRetiring(i) \/ ResumeInterrupted(i)
    PROVE  Safe'
<1> USE PlaceNames
<1>1. /\ at = "step" /\ item' = i
      /\ UNCHANGED <<entry, bin, copy, kind, outcome, lapsed>>
      /\ phase' \in {phase, [phase EXCEPT ![i] = "retiring"]}
  BY DEF RecordIntent, ResumeRetiring, ResumeInterrupted, Advances, Changing, disk, setting, catalog
<1>2. ~lapsed
  BY <1>1 DEF Inv, Safe, Fresh
<1>3. \/ at' = "support" /\ bin[i] = "gone"
      \/ at' = "record" /\ next'.outcome = "uncertain"
  <2>1. CASE RecordIntent(i)
    BY <2>1, NotRetiredYet DEF RecordIntent
  <2>2. CASE ResumeRetiring(i)
    BY <2>2 DEF ResumeRetiring, InPlace, Inv, Safe, Away
  <2>3. CASE ResumeInterrupted(i)
    BY <2>3 DEF ResumeInterrupted, Interrupted, SettleAs, Changing
  <2> QED BY <2>1, <2>2, <2>3
<1>4. Away' /\ OneCopyStays'
  BY <1>1 DEF Inv, TypeInv, TypeOK, CatalogOK, Safe, Away, OneCopyStays
<1>5. at' = "support" => phase'[i] = "retiring"
  BY <1>1 DEF RecordIntent, ResumeRetiring, ResumeInterrupted, Advances, Changing, catalog, Inv,
     TypeInv, TypeOK, CatalogOK
<1> QED BY <1>1, <1>2, <1>3, <1>4, <1>5 DEF Safe, NotYetAway, Intended, Fresh, Proven, KeptHere, Truthful

\* What every step of a retirement leaves alone.
LEMMA RetiringFrame ==
    ASSUME Inv, RetiringStep
    PROVE  /\ at \in Retiring /\ item \in Items /\ phase[item] = "retiring"
           /\ UNCHANGED <<kind, copy, phase, outcome, item, lapsed>>
BY PlaceNames DEF RetiringStep, CheckSupport, VerifyCopy, VerifyKept, VerifySource, MoveToTrash,
   Observe, Goto, Decide, Blocked, disk, setting, catalog, Inv, TypeInv, TypeOK, ProcessOK, Safe, Intended

LEMMA MoveKeepsSafe == Inv /\ MoveToTrash => Safe'
<1> SUFFICES ASSUME Inv, MoveToTrash PROVE Safe'
  OBVIOUS
<1> USE PlaceNames
<1>1. /\ at = "trash" /\ at' = "observe" /\ item \in Items /\ phase[item] = "retiring"
      /\ UNCHANGED <<kind, copy, phase, outcome, item, lapsed>>
  BY RetiringFrame DEF MoveToTrash, RetiringStep
<1>2. PICK moved \in BOOLEAN :
         /\ moved => entry[item] # "gone"
         /\ entry' = IF moved THEN [entry EXCEPT ![item] = "gone"] ELSE entry
         /\ bin' = IF moved THEN [bin EXCEPT ![item] = entry[item]] ELSE bin
  BY <1>1 DEF MoveToTrash
<1>3. item \in Entries /\ entry \in [Entries -> Standing] /\ bin \in [Items -> Standing]
      /\ Items \subseteq Entries
  BY <1>1 DEF Entries, Inv, TypeInv, TypeOK, DiskOK
<1>4. Away'
  BY <1>1, <1>2, <1>3 DEF Inv, Safe, Away
<1>5. Proven'
  BY <1>1, <1>2, <1>3 DEF Inv, Safe, Proven
<1>6. OneCopyStays'
  <2>1. \A i \in Items : i # item => bin'[i] = bin[i]
    BY <1>2, <1>3
  <2>2. \A i \in Items : i \notin ReliedOn[i]
    BY ItemsAssumption
  <2>3. kind = "trash" => \A k \in ReliedOn[item] \cap Items : bin[k] = "gone"
    BY <1>1 DEF Inv, Safe, KeptHere
  <2>4. ASSUME NEW i \in Items, NEW j \in Items, i \in ReliedOn[j], j \in ReliedOn[i], kind' = "trash"
        PROVE  bin'[i] = "gone" \/ bin'[j] = "gone"
    <3>1. i # j
      BY <2>2, <2>4
    <3>2. CASE i = item
      BY <1>1, <2>1, <2>3, <2>4, <3>1, <3>2
    <3>3. CASE j = item
      BY <1>1, <2>1, <2>3, <2>4, <3>1, <3>3
    <3>4. CASE i # item /\ j # item
      BY <1>1, <2>1, <2>4, <3>4 DEF Inv, Safe, OneCopyStays
    <3> QED BY <3>2, <3>3, <3>4
  <2> QED BY <2>4 DEF OneCopyStays
<1> QED BY <1>1, <1>4, <1>5, <1>6 DEF Safe, NotYetAway, Intended, Fresh, KeptHere, Truthful

LEMMA RetiringKeepsSafe == Inv /\ RetiringStep => Safe'
<1> SUFFICES ASSUME Inv, RetiringStep PROVE Safe'
  OBVIOUS
<1> USE PlaceNames
<1>1. CASE MoveToTrash
  BY <1>1, MoveKeepsSafe
<1>2. CASE ~MoveToTrash
  <2>1. /\ item \in Items /\ phase[item] = "retiring"
        /\ UNCHANGED <<kind, entry, bin, copy, phase, outcome, item, lapsed>>
    BY <1>2, RetiringFrame DEF RetiringStep, CheckSupport, VerifyCopy, VerifyKept, VerifySource,
       Observe, disk
  <2>2. Away' /\ OneCopyStays'
    BY <2>1 DEF Inv, Safe, Away, OneCopyStays
  <2>3. CASE CheckSupport
    <3>1. ~lapsed /\ bin[item] = "gone"
      BY <2>3 DEF CheckSupport, Inv, Safe, Fresh, NotYetAway
    <3>2. at' = "verifyCopy" \/ (at' = "record" /\ next'.outcome \in {"sourceKept", "blocked"})
      BY <2>3 DEF CheckSupport, Goto, Decide, SettleAs
    <3> QED BY <2>1, <2>2, <3>1, <3>2
            DEF Safe, NotYetAway, Intended, Fresh, Proven, KeptHere, Truthful
  <2>4. CASE VerifyCopy
    <3>1. ~lapsed /\ bin[item] = "gone"
      BY <2>4 DEF VerifyCopy, Inv, Safe, Fresh, NotYetAway
    <3>2. \/ at' = "verifyKept" /\ (kind = "move" => copy[item].holds = "whole")
          \/ at' = "record" /\ next'.outcome = "blocked"
      BY <2>4 DEF VerifyCopy, Goto, Blocked, Decide, SettleAs, HoldsWhole
    <3> QED BY <2>1, <2>2, <3>1, <3>2
            DEF Safe, NotYetAway, Intended, Fresh, Proven, KeptHere, Truthful
  <2>5. CASE VerifyKept
    <3>1. bin[item] = "gone" /\ Proven /\ at = "verifyKept"
      BY <2>5 DEF VerifyKept, Inv, Safe, NotYetAway
    <3>2. \/ at' = "verifySource" /\ KeptProven(item)
          \/ at' = "record" /\ next'.outcome = "blocked"
      BY <2>5 DEF VerifyKept, Goto, Blocked, Decide, SettleAs
    <3>3. KeptProven(item) => KeptProven(item)'
      BY <2>1 DEF KeptProven
    <3>4. KeptProven(item) /\ kind = "trash" => \A k \in ReliedOn[item] \cap Items : bin[k] = "gone"
      BY DEF KeptProven, Inv, Safe, Away
    <3>5. Proven'
      BY <2>1, <3>1, <3>2, <3>3 DEF Proven
    <3>6. KeptHere'
      BY <2>1, <3>2, <3>4 DEF KeptHere
    <3> QED BY <2>1, <2>2, <3>1, <3>2, <3>5, <3>6 DEF Safe, NotYetAway, Intended, Fresh, Truthful
  <2>6. CASE VerifySource
    <3>1. bin[item] = "gone" /\ Proven /\ KeptHere /\ at = "verifySource"
      BY <2>6 DEF VerifySource, Inv, Safe, NotYetAway
    <3>2. \/ at' = "trash" /\ entry[item] = "reviewed"
          \/ at' = "record" /\ next'.outcome = "blocked"
      BY <2>6 DEF VerifySource, Goto, Blocked, Decide, SettleAs
    <3>3. KeptProven(item) => KeptProven(item)'
      BY <2>1 DEF KeptProven
    <3>4. Proven'
      BY <2>1, <3>1, <3>2, <3>3 DEF Proven
    <3>5. KeptHere'
      BY <2>1, <3>1, <3>2 DEF KeptHere
    <3> QED BY <2>1, <2>2, <3>1, <3>2, <3>4, <3>5 DEF Safe, NotYetAway, Intended, Fresh, Truthful
  <2>7. CASE Observe
    <3>1. at = "observe" /\ at' = "record" /\ next' = Observed /\ Proven
      BY <2>7 DEF Observe, Decide, Inv, Safe
    <3>2. next'.outcome \in {"blocked", "none", "copied", "sourceKept"} => bin[item] = "gone"
      BY <2>1, <3>1 DEF Observed, SettleAs, InPlace, Inv, Safe, Away
    <3>3. next'.outcome \in {"trashed", "moved"} => entry[item] = "gone"
      BY <3>1 DEF Observed, SettleAs
    <3>4. next'.outcome = "moved" => kind = "move"
      BY <3>1 DEF Observed, SettleAs
    <3>5. next'.outcome # "copied"
      BY <3>1 DEF Observed, SettleAs
    <3>6. Truthful'
      BY <2>1, <3>1, <3>2, <3>3, <3>4, <3>5 DEF Truthful, Proven
    <3> QED BY <2>1, <2>2, <3>1, <3>6 DEF Safe, NotYetAway, Intended, Fresh, Proven, KeptHere
  <2> QED BY <1>2, <2>3, <2>4, <2>5, <2>6, <2>7 DEF RetiringStep
<1> QED BY <1>1, <1>2

LEMMA CrashKeepsSafe == Inv /\ Crash => Safe'
<1> SUFFICES ASSUME Inv, Crash PROVE Safe'
  OBVIOUS
<1>1. at' = "idle" /\ UNCHANGED <<kind, entry, bin, phase, outcome>>
  BY DEF Crash, setting, disk, catalog
<1>2. Away' /\ OneCopyStays'
  BY <1>1 DEF Inv, Safe, Away, OneCopyStays
<1> QED BY <1>1, <1>2, PlaceNames DEF Safe, NotYetAway, Intended, Fresh, Proven, KeptHere, Truthful

LEMMA OutsideKeepsSafe == Inv /\ ChangedOutside => Safe'
<1> SUFFICES ASSUME Inv, ChangedOutside PROVE Safe'
  OBVIOUS
<1> USE PlaceNames
<1>1. PICK event : Outside(event)
  BY DEF ChangedOutside, EditEntry, ReplaceEntry, DeleteEntry, PutBack, SpoilCopy, ClearName, TakeName
<1>2. /\ UNCHANGED <<kind, at, item, next, phase, outcome>>
      /\ lapsed' = (lapsed \/ at \in Relying)
  BY <1>1 DEF Outside, setting, catalog
<1>3. /\ entry \in [Entries -> Standing] /\ bin \in [Items -> Standing] /\ Items \subseteq Entries
  BY DEF Inv, TypeInv, TypeOK, DiskOK, Entries
\* Nothing enters the Trash from outside.
<1>4. \A j \in Items : bin'[j] \in {bin[j], "gone"}
  BY <1>3 DEF ChangedOutside, EditEntry, ReplaceEntry, DeleteEntry, PutBack, SpoilCopy, ClearName,
     TakeName
<1>5. Away'
  <2>1. \A j \in Items : bin'[j] # "gone" => entry'[j] \in {"other", "gone"}
    <3>1. \A j \in Items : bin[j] # "gone" => entry[j] \in {"other", "gone"}
      BY DEF Inv, Safe, Away
    <3>2. ASSUME NEW f \in Entries, EditEntry(f) \/ ReplaceEntry(f) \/ DeleteEntry(f)
          PROVE  \A j \in Items : bin'[j] # "gone" => entry'[j] \in {"other", "gone"}
      BY <1>3, <3>1, <3>2 DEF EditEntry, ReplaceEntry, DeleteEntry
    <3>3. ASSUME NEW i \in Items, PutBack(i)
          PROVE  \A j \in Items : bin'[j] # "gone" => entry'[j] \in {"other", "gone"}
      BY <1>3, <3>1, <3>3 DEF PutBack
    <3>4. ASSUME UNCHANGED <<entry, bin>>
          PROVE  \A j \in Items : bin'[j] # "gone" => entry'[j] \in {"other", "gone"}
      BY <3>1, <3>4
    <3> QED BY <3>2, <3>3, <3>4 DEF ChangedOutside, SpoilCopy, ClearName, TakeName
  <2> QED BY <1>2, <1>4, <2>1 DEF Inv, Safe, Away
<1>6. OneCopyStays'
  BY <1>2, <1>4 DEF Inv, Safe, OneCopyStays
<1>7. NotYetAway' /\ KeptHere'
  <2>1. item \in Items
    BY DEF Inv, TypeInv, TypeOK, ProcessOK
  <2> QED BY <1>2, <1>4, <2>1 DEF Inv, Safe, NotYetAway, KeptHere
<1>8. Fresh' /\ Intended'
  BY <1>2 DEF Inv, Safe, Fresh, Intended
<1>9. Proven'
  BY <1>2 DEF Inv, Safe, Fresh, Proven
<1>10. Truthful'
  <2>1. item \in Items
    BY DEF Inv, TypeInv, TypeOK, ProcessOK
  <2> QED BY <1>2, <1>4, <2>1 DEF Inv, Safe, Truthful
<1> QED BY <1>5, <1>6, <1>7, <1>8, <1>9, <1>10 DEF Safe

LEMMA InvStep == Inv /\ [Next]_vars => Inv'
<1>1. Inv /\ UNCHANGED vars => Safe'
  BY DEF vars, Inv, Safe, Away, NotYetAway, Intended, Fresh, Proven, KeptHere, Truthful,
         OneCopyStays, KeptProven
<1>2. Inv /\ Next => Safe'
  BY JournalKeepsSafe, AdvancesKeepsSafe, WritingKeepsSafe, ResumeKeepsSafe, RetiringKeepsSafe,
     CrashKeepsSafe, OutsideKeepsSafe
  DEF Next, Execute, Transfer, Retire, WritingStep, RetiringStep
<1> QED BY <1>1, <1>2, TypeStep DEF Inv

LEMMA Always == Spec => []Inv
<1>1. Init => Inv
  BY InitType, InitSafe DEF Inv
<1> QED BY <1>1, InvStep, PTL DEF Spec

\* Of two entries that are each other's kept copy at most one is ever in the
\* Trash, whatever is changed, deleted or put back from outside and however
\* often the operation is interrupted: `verify_kept` before every move.
THEOREM OneCopyAlwaysStays == Spec => []OneCopyStays
<1>1. Inv => OneCopyStays
  BY DEF Inv, Safe
<1> QED BY <1>1, Always, PTL

\* Only the request to the OS Trash takes an entry there.
LEMMA OnlyMoveRetires ==
    ASSUME Inv, [Next]_vars, NEW i \in Items, bin[i] = "gone", bin'[i] # "gone"
    PROVE  MoveToTrash /\ i = item
<1>1. bin \in [Items -> Standing] /\ item \in Items
  BY DEF Inv, TypeInv, TypeOK, DiskOK, ProcessOK
<1>2. CASE MoveToTrash
  BY <1>1, <1>2 DEF MoveToTrash
<1>3. CASE WritingStep
  BY <1>3, WritingFrame DEF Inv
<1>4. CASE ~MoveToTrash /\ ~WritingStep
  BY <1>1, <1>4 DEF Next, Execute, Transfer, Retire, WritingStep, vars, disk, Claim,
     SettleOperation, Record, Begin, ResumeInstalled, ResumeLinked, StartFill, Verify, RecordIntent,
     ResumeRetiring, ResumeInterrupted, CheckSupport, VerifyCopy, VerifyKept, VerifySource,
     Observe, Crash, ChangedOutside, EditEntry, ReplaceEntry, DeleteEntry, PutBack, TakeName,
     SpoilCopy, ClearName
<1> QED BY <1>2, <1>3, <1>4

\* An entry leaves for the Trash as it was reviewed and over copies that hold
\* their bytes, after any number of interruptions between the checks and the
\* move, unless it or they were changed after the last check (`retire`, D19).
THEOREM RetiresOnlyProven == Spec => RetiresProven
<1>1. Inv /\ [Next]_vars => [\A i \in Items : RetiredAsProven(i)]_vars
  <2> SUFFICES ASSUME Inv, [Next]_vars, NEW i \in Items,
                      bin[i] = "gone", bin'[i] # "gone", ~lapsed
               PROVE  RetiredAsProven(i)
    BY DEF RetiredAsProven
  <2>1. at = "trash" /\ i = item
    BY OnlyMoveRetires DEF MoveToTrash
  <2>2. Proven
    BY DEF Inv, Safe
  <2> QED BY <2>1, <2>2 DEF Proven, RetiredAsProven, KeptProven
<1> QED BY <1>1, Always, PTL DEF Spec, RetiresProven

\* Only a record gives an item its outcome.
LEMMA OnlyRecordSettles ==
    ASSUME Inv, [Next]_vars, NEW i \in Items, outcome'[i] # outcome[i]
    PROVE  Record /\ i = item /\ outcome'[i] = next.outcome
<1>1. outcome \in [Items -> Outcomes] /\ item \in Items
  BY DEF Inv, TypeInv, TypeOK, CatalogOK, ProcessOK
<1>2. CASE Record
  BY <1>1, <1>2 DEF Record
<1>3. CASE WritingStep
  BY <1>3, WritingFrame DEF Inv, catalog
<1>4. CASE ~Record /\ ~WritingStep
  BY <1>1, <1>4 DEF Next, Execute, Transfer, Retire, WritingStep, vars, catalog, Claim, Changing,
     SettleOperation, Begin, ResumeInstalled, ResumeLinked, StartFill, Verify, RecordIntent,
     ResumeRetiring, ResumeInterrupted, CheckSupport, VerifyCopy, VerifyKept, VerifySource,
     MoveToTrash, Observe, Crash, ChangedOutside, Outside, EditEntry, ReplaceEntry, DeleteEntry,
     PutBack, TakeName, SpoilCopy, ClearName
<1> QED BY <1>2, <1>3, <1>4

\* Every outcome is what happened to the item: one that says nothing moved has
\* nothing in the Trash though the process stopped after the request, one that
\* says it moved does (`interrupted`, `retire`, ItemOutcome).
THEOREM SettlesAsHappened == Spec => SettlesTruthfully
<1>1. Inv /\ [Next]_vars => [\A i \in Items : SettledAsHappened(i)]_vars
  <2> SUFFICES ASSUME Inv, [Next]_vars, NEW i \in Items
               PROVE  SettledAsHappened(i)
    OBVIOUS
  <2>1. CASE outcome'[i] = outcome[i]
    BY <2>1 DEF SettledAsHappened
  <2>2. CASE outcome'[i] # outcome[i]
    <3>1. at = "record" /\ i = item /\ outcome'[i] = next.outcome
      BY <2>2, OnlyRecordSettles DEF Record
    <3>2. Truthful
      BY DEF Inv, Safe
    <3> QED BY <3>1, <3>2 DEF Truthful, SettledAsHappened
  <2> QED BY <2>1, <2>2
<1> QED BY <1>1, Always, PTL DEF Spec, SettlesTruthfully

\* No step of the executor takes a file with bytes of its own from a
\* destination: it makes way for no file but an unfinished copy of the partial,
\* and removes none but the one it created (`remove_unfinished_copy`).
THEOREM ForeignBytesAlwaysStay == Spec => ForeignBytesStay
<1>1. Inv /\ [Next]_vars => [\A i \in Items : ForeignKept(i)]_vars
  <2> SUFFICES ASSUME Inv, [Next]_vars, NEW i \in Items, changes' = changes,
                      copy[i].by = "theirs", copy[i].holds = "other"
               PROVE  copy'[i] = copy[i]
    BY DEF ForeignKept
  <2>1. copy \in [Items -> Copy] /\ item \in Items /\ changes \in Nat
    BY InstanceAssumption DEF Inv, TypeInv, TypeOK, DiskOK, ProcessOK, BoundsOK
  <2>2. CASE WritingStep
    BY <2>1, <2>2 DEF WritingStep, Fill, FillFails, InstallRenamed, InstallLinked, Unlink,
       InstallCreated, Copied, CopyFails, MoveAside, RemoveAside, MakeWay, InstallFails,
       UnfinishedCopy, Placed
  <2>3. CASE ChangedOutside
    BY <2>1, <2>3 DEF ChangedOutside, Outside, EditEntry, ReplaceEntry, DeleteEntry, PutBack,
       TakeName, SpoilCopy, ClearName
  <2>4. CASE ~WritingStep /\ ~ChangedOutside
    BY <2>4 DEF Next, Execute, Transfer, Retire, WritingStep, vars, disk, Claim, SettleOperation,
       Record, Begin, ResumeInstalled, ResumeLinked, StartFill, Verify, RecordIntent,
       ResumeRetiring, ResumeInterrupted, CheckSupport, VerifyCopy, VerifyKept, VerifySource,
       MoveToTrash, Observe, Crash
  <2> QED BY <2>2, <2>3, <2>4
<1> QED BY <1>1, Always, PTL DEF Spec, ForeignBytesStay

-----------------------------------------------------------------------------
(* Nothing hidden. *)

\* On a volume that renames or links, bytes stand in a partial only while its
\* item is being written, and never under a hidden name.
Visible ==
    volume.publish # "copy" =>
        /\ aside = {}
        /\ at \notin {"copying", "aside", "removing"}
        /\ \A i \in Items : partial[i] \in {"prefix", "whole"} =>
               /\ phase[i] = "writing" /\ outcome[i] = "none"
               /\ ~(at = "record" /\ item = i)

\* A copy is written of an item recorded as Writing.
WritingRecorded == at \in Writing => phase[item] = "writing" /\ outcome[item] = "none"

\* A settled operation has an outcome for every item and no executor.
SettledWhole == operation = "settled" => Open = {} /\ at = "idle"

VisibleInv == Visible /\ WritingRecorded /\ SettledWhole

LEMMA InitVisible == Init => VisibleInv
BY PlaceNames DEF Init, VisibleInv, Visible, WritingRecorded, SettledWhole

LEMMA VisibleStep == Inv /\ VisibleInv /\ [Next]_vars => VisibleInv'
<1> SUFFICES ASSUME Inv, VisibleInv, [Next]_vars PROVE VisibleInv'
  OBVIOUS
<1> USE PlaceNames DEF VisibleInv
<1>0. /\ partial \in [Items -> {"none", "empty", "prefix", "whole"}] /\ item \in Items
      /\ phase \in [Items -> Phases] /\ outcome \in [Items -> Outcomes]
  BY DEF Inv, TypeInv, TypeOK, DiskOK, CatalogOK, ProcessOK
<1>1. CASE Claim \/ SettleOperation
  BY <1>1 DEF Claim, SettleOperation, setting, disk, Visible, WritingRecorded, SettledWhole, Open
<1>2. CASE Record
  <2>1. Visible'
    BY <1>0, <1>2 DEF Record, setting, disk, Visible
  <2>2. SettledWhole'
    BY <1>2 DEF Record, SettledWhole
  <2> QED BY <1>2, <2>1, <2>2 DEF Record, WritingRecorded
<1>3. ASSUME NEW i \in Items,
             Begin(i) \/ ResumeInstalled(i) \/ ResumeLinked(i) \/ StartFill(i) \/ Verify(i)
      PROVE  VisibleInv'
  <2>1. /\ at = "step" /\ item' = i /\ outcome[i] = "none" /\ at' \in {"fill", "record"}
        /\ UNCHANGED <<volume, aside, catalog>>
    BY <1>3, FromPhase DEF Inv, Begin, ResumeInstalled, ResumeLinked, StartFill, Verify, Advances,
       Changing, disk, setting
  <2>2. CASE StartFill(i)
    BY <1>0, <2>1, <2>2 DEF StartFill, Advances, Visible, WritingRecorded, SettledWhole, catalog
  <2>3. CASE ~StartFill(i)
    <3>1. /\ at' = "record"
          /\ volume.publish # "copy" => partial'[i] \notin {"prefix", "whole"}
          /\ \A j \in Items : j # i => partial'[j] = partial[j]
      <4>1. CASE Begin(i)
        <5>1. phase[i] = "pending"
          BY <4>1 DEF Begin, Advances
        <5>2. volume.publish # "copy" => partial[i] \notin {"prefix", "whole"}
          BY <5>1 DEF Visible
        <5> QED BY <1>0, <4>1, <5>2 DEF Begin, Changing
      <4>2. CASE Verify(i)
        BY <1>0, <4>2 DEF Verify, Advances, Changing, disk, Visible
      <4>3. CASE ResumeInstalled(i) \/ ResumeLinked(i)
        BY <1>0, <4>3 DEF ResumeInstalled, ResumeLinked, SecondNameGone, Changing, disk
      <4> QED BY <1>3, <2>3, <4>1, <4>2, <4>3
    <3> QED BY <2>1, <3>1 DEF Visible, WritingRecorded, SettledWhole, catalog
  <2> QED BY <2>2, <2>3
<1>4. CASE WritingStep
  <2>1. /\ at \in Writing /\ item \in Items /\ UNCHANGED <<setting, catalog>> /\ item' = item
    BY <1>4, WritingFrame DEF Inv, WritingStep, Fill, FillFails, InstallRenamed, InstallLinked,
       Unlink, InstallCreated, Copied, CopyFails, MoveAside, RemoveAside, MakeWay, InstallFails,
       Goto, Blocked, Synced, Decide
  <2>2. /\ at' \in Writing \cup {"record"}
        /\ at' = "record" => partial' = [partial EXCEPT ![item] = "none"]
                             \/ at = "removing"
        /\ \A j \in Items : j # item => partial'[j] = partial[j]
    BY <1>0, <1>4 DEF WritingStep, Fill, FillFails, InstallRenamed, InstallLinked,
       Unlink, InstallCreated, Copied, CopyFails, MoveAside, RemoveAside, MakeWay, InstallFails,
       Goto, Blocked, Synced, Decide, Discarded
  <2>3. volume.publish # "copy" => aside' = {} /\ at' \notin {"copying", "aside", "removing"}
    BY <1>4 DEF WritingStep, Fill, FillFails, InstallRenamed, InstallLinked,
       Unlink, InstallCreated, Copied, CopyFails, MoveAside, RemoveAside, MakeWay, InstallFails,
       Goto, Blocked, Synced, Decide, Visible
  <2>4. Visible'
    BY <1>0, <2>1, <2>2, <2>3 DEF Visible, WritingRecorded, setting, catalog
  <2> QED BY <2>1, <2>2, <2>4 DEF WritingRecorded, SettledWhole, catalog
<1>5. ASSUME NEW i \in Items, RecordIntent(i) \/ ResumeRetiring(i) \/ ResumeInterrupted(i)
      PROVE  VisibleInv'
  <2>1. /\ at = "step" /\ item' = i /\ at' \in {"support", "record"} /\ phase[i] # "writing"
        /\ UNCHANGED <<volume, partial, aside, outcome, operation>>
        /\ phase' \in {phase, [phase EXCEPT ![i] = "retiring"]}
    BY <1>5 DEF RecordIntent, ResumeRetiring, ResumeInterrupted, Advances, Changing, disk, setting, catalog
  <2>2. volume.publish # "copy" => partial[i] \notin {"prefix", "whole"}
    BY <2>1 DEF Visible
  <2> QED BY <1>0, <2>1, <2>2 DEF Visible, WritingRecorded, SettledWhole
<1>6. CASE RetiringStep
  <2>1. /\ at \in Retiring /\ phase[item] = "retiring"
        /\ UNCHANGED <<volume, partial, aside, catalog, item>>
    BY <1>6, RetiringFrame DEF RetiringStep, CheckSupport, VerifyCopy, VerifyKept, VerifySource,
       MoveToTrash, Observe, setting, disk
  <2>2. at' \in Retiring \cup {"record"}
    BY <1>6 DEF RetiringStep, CheckSupport, VerifyCopy, VerifyKept, VerifySource, MoveToTrash,
       Observe, Goto, Blocked, Decide
  <2> QED BY <1>0, <2>1, <2>2 DEF Visible, WritingRecorded, SettledWhole, catalog
<1>7. CASE Crash
  BY <1>7 DEF Crash, setting, disk, catalog, Visible, WritingRecorded, SettledWhole, Open
<1>8. CASE ChangedOutside
  <2>1. UNCHANGED <<volume, partial, aside, catalog, at, item>>
    BY <1>8 DEF ChangedOutside, Outside, EditEntry, ReplaceEntry, DeleteEntry, PutBack,
       TakeName, SpoilCopy, ClearName, setting
  <2> QED BY <2>1 DEF Visible, WritingRecorded, SettledWhole, Open, catalog
<1>9. CASE UNCHANGED vars
  BY <1>9 DEF vars, Visible, WritingRecorded, SettledWhole, Open
<1> QED
  BY <1>1, <1>2, <1>3, <1>4, <1>5, <1>6, <1>7, <1>8, <1>9
  DEF Next, Execute, Transfer, Retire, WritingStep, RetiringStep

\* A settled operation leaves no bytes under a hidden name on a volume with a
\* no-replace rename or links, however often its install was interrupted.
THEOREM NothingEverHidden == Spec => []NothingHidden
<1>1. Inv /\ VisibleInv => NothingHidden
  <2> SUFFICES ASSUME Inv, VisibleInv, operation = "settled", volume.publish # "copy"
               PROVE  aside = {} /\ \A i \in Items : partial[i] \in {"none", "empty"}
    BY DEF NothingHidden
  <2>1. ASSUME NEW i \in Items
        PROVE  partial[i] \in {"none", "empty", "prefix", "whole"} /\ outcome[i] # "none"
    BY DEF Inv, TypeInv, TypeOK, DiskOK, VisibleInv, SettledWhole, Open
  <2> QED BY <2>1 DEF VisibleInv, Visible
<1> QED BY <1>1, InitVisible, VisibleStep, Always, PTL DEF Spec

-----------------------------------------------------------------------------
(* The refinement. *)

\* Nobody outside touches a destination or the Trash, which does what it says.
Undisturbed == World \cap {"putback", "take", "spoil", "clear", "refuse"} = {}

\* The copy is whole at its destination and its partial gone.
Arrived(i) == copy[i].holds = "whole" /\ partial[i] = "none" /\ written[i] # "none"

\* The partial lasts until it is installed or moved aside.
PartialLasts ==
    /\ at \in Writing \ {"removing"} => partial[item] # "none"
    /\ at = "removing" => partial[item] = "none"

\* What a recorded phase says of the disk.
PhasesHold ==
    \A i \in Items :
        /\ phase[i] = "pending" => written[i] = "none"
        /\ kind # "trash" /\ phase[i] \in {"installed", "verified", "retiring"} => partial[i] = "none"
        /\ kind = "move" /\ phase[i] \in {"verified", "retiring"} => copy[i].holds = "whole"

\* What the change about to be recorded says of it.
NextHolds ==
    at = "record" =>
        /\ outcome[item] = "none"
        /\ next.outcome = "none" => next.phase \in {"writing", "installed", "verified"}
        /\ next.outcome # "none" => next.written = written[item]
        /\ next.phase \in {"installed", "verified"} => partial[item] = "none"
        /\ next.phase = "verified" => copy[item].holds = "whole"
        /\ next.outcome \in {"copied", "moved", "sourceKept"} => Arrived(item)
        /\ next.outcome \in {"trashed", "moved"} => bin[item] # "gone"

\* The OS Trash reported the move it made.
ReportHolds == at = "observe" /\ ~refused => bin[item] # "gone"

Kept == PartialLasts /\ PhasesHold /\ NextHolds /\ ReportHolds

LEMMA InitKept == Init => Kept
BY PlaceNames DEF Init, Kept, PartialLasts, PhasesHold, NextHolds, ReportHolds

\* The item being retired, and its copy if it is moved, are as recorded.
LEMMA Retired ==
    ASSUME Inv, Kept, RetiringStep
    PROVE  /\ item \in Items /\ outcome[item] = "none"
           /\ kind = "move" => Arrived(item)
<1>1. item \in Items /\ phase[item] = "retiring"
  BY RetiringFrame
<1>2. Accepted(phase[item], outcome[item], written[item])
  BY <1>1 DEF Inv, TypeInv, TypeOK, CatalogOK
<1> QED BY <1>1, <1>2 DEF Accepted, Kept, PhasesHold, Arrived

LEMMA JournalKeeps == Inv /\ Kept /\ (Claim \/ SettleOperation \/ Record) => Kept'
<1> SUFFICES ASSUME Inv, Kept, Claim \/ SettleOperation \/ Record PROVE Kept'
  OBVIOUS
<1> USE PlaceNames
<1>1. at' \in {"step", "idle"} /\ UNCHANGED <<entry, bin, copy, partial, kind>>
  BY DEF Claim, SettleOperation, Record, disk, setting
<1>2. PhasesHold'
  <2>1. CASE Record
    <3>1. /\ phase \in [Items -> Phases] /\ written \in [Items -> {"none", "ours", "made"}]
          /\ Accepted(next.phase, next.outcome, next.written)
      BY <2>1 DEF Record, Inv, TypeInv, TypeOK, CatalogOK, ProcessOK
    <3>2. next.phase \in {"writing", "installed", "verified", "settled"}
      BY <2>1, <3>1 DEF Accepted, Record, Kept, NextHolds
    <3>3. \A i \in Items : i # item => phase'[i] = phase[i] /\ written'[i] = written[i]
      BY <2>1, <3>1 DEF Record
    <3>4. \A i \in Items : i = item => phase'[i] = next.phase
      BY <2>1, <3>1 DEF Record
    <3> QED BY <1>1, <2>1, <3>2, <3>3, <3>4 DEF Record, Kept, PhasesHold, NextHolds
  <2>2. CASE Claim \/ SettleOperation
    BY <1>1, <2>2 DEF Claim, SettleOperation, Kept, PhasesHold
  <2> QED BY <2>1, <2>2
<1> QED BY <1>1, <1>2 DEF Kept, PartialLasts, NextHolds, ReportHolds

LEMMA AdvancesKeeps ==
    ASSUME Inv, Kept, NEW i \in Items,
           Begin(i) \/ ResumeInstalled(i) \/ ResumeLinked(i) \/ StartFill(i) \/ Verify(i)
    PROVE  Kept'
<1> USE PlaceNames
<1>1. /\ item' = i /\ at' \in {"fill", "record"} /\ outcome[i] = "none" /\ kind # "trash"
      /\ UNCHANGED <<copy, kind, phase, outcome, written>>
      /\ partial \in [Items -> {"none", "empty", "prefix", "whole"}]
  BY FromPhase DEF Inv, TypeInv, TypeOK, DiskOK, Begin, ResumeInstalled, ResumeLinked, StartFill,
     Verify, Advances, Changing, disk, setting, catalog
<1>2. PhasesHold'
  <2>1. \A j \in Items : partial'[j] # partial[j] => j = i /\ phase[i] \in {"pending", "writing"}
    BY <1>1 DEF Begin, ResumeInstalled, ResumeLinked, StartFill, Verify, Advances, disk, SecondNameGone
  <2> QED BY <1>1, <2>1 DEF Kept, PhasesHold
<1>3. CASE Begin(i)
  BY <1>1, <1>2, <1>3 DEF Begin, Changing, To, SettleAs, Kept, PartialLasts, NextHolds, ReportHolds
<1>4. CASE ResumeInstalled(i)
  BY <1>1, <1>2, <1>4
  DEF ResumeInstalled, Changing, To, SettleAs, disk, Kept, PartialLasts, NextHolds, ReportHolds
<1>5. CASE ResumeLinked(i)
  BY <1>1, <1>2, <1>5
  DEF ResumeLinked, Changing, To, SecondNameGone, Kept, PartialLasts, NextHolds, ReportHolds
<1>6. CASE StartFill(i)
  BY <1>1, <1>2, <1>6 DEF StartFill, Kept, PartialLasts, NextHolds, ReportHolds
<1>7. CASE Verify(i)
  <2>1. partial[i] = "none" /\ written[i] # "none"
    BY <1>1, <1>7, FromPhase DEF Verify, Advances, Kept, PhasesHold, Inv, Accepted
  <2>2. UNCHANGED <<partial, bin>>
    BY <1>7 DEF Verify, disk
  <2>3. /\ at' = "record" /\ next'.outcome \in {"none", "blocked", "copied"}
        /\ next'.phase \in {"verified", "settled"}
        /\ (next'.outcome = "none" <=> next'.phase = "verified")
        /\ next'.written = written[i]
        /\ next'.outcome = "blocked" \/ copy[i].holds = "whole"
    BY <1>7 DEF Verify, Changing, To, SettleAs, HoldsWhole
  <2> QED BY <1>1, <1>2, <2>1, <2>2, <2>3 DEF Kept, PartialLasts, NextHolds, ReportHolds, Arrived
<1> QED BY <1>3, <1>4, <1>5, <1>6, <1>7

LEMMA WritingKeeps == Inv /\ VisibleInv /\ Kept /\ WritingStep => Kept'
<1> SUFFICES ASSUME Inv, VisibleInv, Kept, WritingStep PROVE Kept'
  OBVIOUS
<1> USE PlaceNames
<1>1. /\ at \in Writing /\ kind # "trash" /\ item \in Items
      /\ UNCHANGED <<setting, catalog, bounds, entry, bin>>
      /\ phase[item] = "writing" /\ outcome[item] = "none"
      /\ partial \in [Items -> {"none", "empty", "prefix", "whole"}] /\ copy \in [Items -> Copy]
  BY WritingFrame DEF Inv, TypeInv, TypeOK, DiskOK, VisibleInv, WritingRecorded
<1>2. item' = item /\ at' \in Writing \cup {"record"}
  BY DEF WritingStep, Fill, FillFails, InstallRenamed, InstallLinked, Unlink, InstallCreated,
     Copied, CopyFails, MoveAside, RemoveAside, MakeWay, InstallFails, Goto, Blocked, Synced, Decide
<1>3. PhasesHold'
  <2>1. \A j \in Items : j # item => partial'[j] = partial[j] /\ copy'[j] = copy[j]
    BY <1>1 DEF WritingStep, Fill, FillFails, InstallRenamed, InstallLinked, Unlink, InstallCreated,
       Copied, CopyFails, MoveAside, RemoveAside, MakeWay, InstallFails, Discarded, Placed
  <2> QED BY <1>1, <2>1 DEF Kept, PhasesHold, setting, catalog
<1>4. CASE Fill \/ InstallLinked \/ InstallCreated \/ Copied \/ MoveAside \/ MakeWay
  <2>1. at' # "record" /\ at' # "observe"
    BY <1>4 DEF Fill, InstallLinked, InstallCreated, Copied, MoveAside, MakeWay, Goto
  <2>2. partial[item] # "none"
    BY <1>4 DEF Fill, InstallLinked, InstallCreated, Copied, MoveAside, MakeWay, Installing, Kept, PartialLasts
  <2>3. PartialLasts'
    <3>1. CASE Fill
      BY <1>1, <1>2, <3>1 DEF Fill, Goto, PartialLasts
    <3>2. CASE MoveAside
      BY <1>1, <1>2, <3>2 DEF MoveAside, Goto, Discarded, PartialLasts
    <3>3. CASE InstallLinked \/ InstallCreated \/ Copied \/ MakeWay
      BY <1>1, <1>2, <2>2, <3>3 DEF InstallLinked, InstallCreated, Copied, MakeWay, Goto, PartialLasts
    <3> QED BY <1>4, <3>1, <3>2, <3>3
  <2> QED BY <1>3, <2>1, <2>3 DEF Kept, NextHolds, ReportHolds
<1>5. CASE FillFails \/ CopyFails \/ InstallFails \/ InstallRenamed \/ Unlink \/ RemoveAside
  <2>1. Blocked \/ \E w \in {"ours", "made"} : Decide(To("installed", w))
    BY <1>5 DEF FillFails, CopyFails, InstallFails, InstallRenamed, Unlink, RemoveAside, Synced
  <2>2. CASE Blocked
    <3>1. at' = "record" /\ next' = SettleAs(item, "blocked")
      BY <2>2 DEF Blocked, Decide
    <3>2. next'.outcome = "blocked" /\ next'.phase = "settled" /\ next'.written = written[item]
      BY <3>1 DEF SettleAs
    <3> QED BY <1>1, <1>2, <1>3, <3>1, <3>2 DEF catalog, Kept, PartialLasts, NextHolds, ReportHolds
  <2>3. CASE ~Blocked
    <3>1. PICK w \in {"ours", "made"} : Decide(To("installed", w))
      BY <2>1, <2>3
    <3>2. at' = "record" /\ next'.outcome = "none" /\ next'.phase = "installed"
      BY <3>1 DEF Decide, To
    <3>3. partial'[item] = "none"
      <4>1. CASE InstallRenamed \/ Unlink
        BY <1>1, <4>1 DEF InstallRenamed, Unlink, Discarded
      <4>2. CASE RemoveAside
        BY <1>1, <4>2 DEF RemoveAside, Kept, PartialLasts
      <4> QED BY <1>5, <2>3, <4>1, <4>2 DEF FillFails, CopyFails, InstallFails
    <3> QED BY <1>1, <1>2, <1>3, <3>2, <3>3 DEF catalog, Kept, PartialLasts, NextHolds, ReportHolds
  <2> QED BY <2>2, <2>3
<1> QED BY <1>4, <1>5 DEF WritingStep

LEMMA ResumeKeeps ==
    ASSUME Inv, Kept, NEW i \in Items, RecordIntent(i) \/ ResumeRetiring(i) \/ ResumeInterrupted(i)
    PROVE  Kept'
<1> USE PlaceNames
<1>1. /\ at' \in {"support", "record"} /\ item' = i /\ outcome[i] = "none"
      /\ UNCHANGED <<kind, copy, partial, bin, outcome, written>>
      /\ phase \in [Items -> Phases]
  BY FromPhase DEF Inv, TypeInv, TypeOK, CatalogOK, RecordIntent, ResumeRetiring, ResumeInterrupted,
     Advances, Changing, disk, setting, catalog
<1>2. PhasesHold'
  <2>1. CASE RecordIntent(i)
    <3>1. phase' = [phase EXCEPT ![i] = "retiring"]
          /\ \/ kind = "trash" /\ phase[i] = "pending"
             \/ kind = "move" /\ phase[i] = "verified"
      BY <2>1 DEF RecordIntent, Advances
    <3> QED BY <1>1, <3>1 DEF Kept, PhasesHold
  <2>2. CASE ResumeRetiring(i) \/ ResumeInterrupted(i)
    BY <1>1, <2>2 DEF ResumeRetiring, ResumeInterrupted, Changing, catalog, Kept, PhasesHold
  <2> QED BY <2>1, <2>2
<1>3. NextHolds'
  <2>1. CASE ResumeInterrupted(i)
    BY <1>1, <2>1 DEF ResumeInterrupted, Interrupted, Changing, SettleAs, NextHolds
  <2>2. CASE RecordIntent(i) \/ ResumeRetiring(i)
    BY <2>2 DEF RecordIntent, ResumeRetiring, NextHolds
  <2> QED BY <2>1, <2>2
<1> QED BY <1>1, <1>2, <1>3 DEF Kept, PartialLasts, ReportHolds

LEMMA RetiringKeeps == Inv /\ Kept /\ Undisturbed /\ RetiringStep => Kept'
<1> SUFFICES ASSUME Inv, Kept, Undisturbed, RetiringStep PROVE Kept'
  OBVIOUS
<1> USE PlaceNames
<1>1. /\ item \in Items /\ outcome[item] = "none" /\ (kind = "move" => Arrived(item))
      /\ UNCHANGED <<kind, copy, phase, outcome, item, lapsed>> /\ UNCHANGED <<partial, written>>
      /\ at' \in Retiring \cup {"record"}
  BY Retired, RetiringFrame DEF RetiringStep, CheckSupport, VerifyCopy, VerifyKept, VerifySource,
     MoveToTrash, Observe, Goto, Decide, Blocked, disk, catalog
<1>2. PhasesHold' /\ PartialLasts'
  BY <1>1 DEF Kept, PhasesHold, PartialLasts
<1>3. CASE MoveToTrash
  <2>1. at' = "observe" /\ (~refused' => bin'[item] # "gone")
    BY <1>1, <1>3 DEF MoveToTrash, Undisturbed, Inv, TypeInv, TypeOK, DiskOK, Entries
  <2> QED BY <1>1, <1>2, <2>1 DEF Kept, NextHolds, ReportHolds
<1>4. CASE Observe
  <2>1. at' = "record" /\ next' = Observed /\ bin' = bin /\ at = "observe"
    BY <1>4 DEF Observe, Decide, disk
  <2>2. /\ next'.phase = "settled" /\ next'.written = written[item] /\ next'.outcome # "none"
        /\ next'.outcome = "moved" => kind = "move"
        /\ next'.outcome \in {"trashed", "moved"} => ~refused
        /\ next'.outcome \notin {"copied", "sourceKept"}
    BY <2>1 DEF Observed, SettleAs
  <2> QED BY <1>1, <1>2, <2>1, <2>2 DEF Kept, NextHolds, ReportHolds, Arrived
<1>5. CASE CheckSupport \/ VerifyCopy \/ VerifyKept \/ VerifySource
  <2>1. bin' = bin /\ at' # "observe"
    BY <1>5 DEF CheckSupport, VerifyCopy, VerifyKept, VerifySource, Goto, Decide, Blocked, disk
  <2>2. at' = "record" => /\ next'.phase = "settled"
                          /\ next'.written = written[item]
                          /\ next'.outcome \in {"blocked", "sourceKept"}
                          /\ next'.outcome = "sourceKept" => kind = "move"
    BY <1>5 DEF CheckSupport, VerifyCopy, VerifyKept, VerifySource, Goto, Decide, Blocked, SettleAs
  <2> QED BY <1>1, <1>2, <2>1, <2>2 DEF Kept, NextHolds, ReportHolds, Arrived
<1> QED BY <1>3, <1>4, <1>5 DEF RetiringStep

\* Undisturbed, only a source or a kept copy changes from outside.
LEMMA OutsideFrame ==
    ASSUME Undisturbed, ChangedOutside
    PROVE  UNCHANGED <<setting, catalog, bin, copy, partial, aside, at, item, next, refused>>
BY DEF Undisturbed, ChangedOutside, EditEntry, ReplaceEntry, DeleteEntry, PutBack, SpoilCopy,
   ClearName, TakeName, Outside

LEMMA KeptStep == Inv /\ VisibleInv /\ Kept /\ Undisturbed /\ [Next]_vars => Kept'
<1> SUFFICES ASSUME Inv, VisibleInv, Kept, Undisturbed, [Next]_vars PROVE Kept'
  OBVIOUS
<1>1. CASE UNCHANGED vars
  BY <1>1 DEF vars, Kept, PartialLasts, PhasesHold, NextHolds, ReportHolds, Arrived
<1>2. CASE Crash
  BY <1>2, PlaceNames
  DEF Crash, setting, disk, catalog, Kept, PartialLasts, PhasesHold, NextHolds, ReportHolds
<1>3. CASE ChangedOutside
  BY <1>3, OutsideFrame
  DEF setting, catalog, Kept, PartialLasts, PhasesHold, NextHolds, ReportHolds, Arrived
<1> QED
  BY <1>1, <1>2, <1>3, JournalKeeps, AdvancesKeeps, WritingKeeps, ResumeKeeps, RetiringKeeps
  DEF Next, Execute, Transfer, Retire, WritingStep, RetiringStep

\* What has been delivered is settled by a copy, its partial, what is recorded
\* of it and whether a created copy still has its partial under a hidden name.
LEMMA DeliveredFrame ==
    ASSUME UNCHANGED <<copy, partial, written>>, at # "removing", at' # "removing"
    PROVE  Delivered' = Delivered
BY DEF Delivered

LEMMA DeliveredOne ==
    ASSUME NEW i \in Items, i \notin Delivered,
           \A j \in Items : j # i =>
               /\ copy'[j] = copy[j] /\ partial'[j] = partial[j] /\ written'[j] = written[j]
               /\ (at' = "removing" /\ item' = j) <=> (at = "removing" /\ item = j)
    PROVE  Delivered' \in {Delivered, Delivered \cup {i}}
<1>1. \A j \in Items : j # i => (j \in Delivered' <=> j \in Delivered)
  BY DEF Delivered
<1>2. Delivered' \subseteq Items /\ Delivered \subseteq Items
  BY DEF Delivered
<1>3. CASE i \in Delivered'
  BY <1>1, <1>2, <1>3
<1>4. CASE i \notin Delivered'
  BY <1>1, <1>2, <1>4
<1> QED BY <1>3, <1>4

\* A step that delivers at most one open item's copy is the promise's, or none.
LEMMA DeliversOrStays ==
    ASSUME UNCHANGED <<kind, bin, outcome>>,
           \/ Delivered' = Delivered
           \/ \E i \in Items : /\ outcome[i] = "none" /\ kind # "trash"
                               /\ Delivered' \in {Delivered, Delivered \cup {i}}
    PROVE  [Promise!Next]_(Promise!vars)
<1>1. CASE Delivered' = Delivered
  BY <1>1 DEF Promise!vars
<1>2. CASE Delivered' # Delivered
  <2>1. PICK i \in Items : outcome[i] = "none" /\ kind # "trash" /\ Delivered' = Delivered \cup {i}
    BY <1>2
  <2>2. Promise!Deliver(i)
    BY <2>1 DEF Promise!Deliver, Promise!Open
  <2> QED BY <2>1, <2>2 DEF Promise!Next
<1> QED BY <1>1, <1>2

LEMMA JournalMaps == Inv /\ Kept /\ (Claim \/ SettleOperation) => [Promise!Next]_(Promise!vars)
<1> SUFFICES ASSUME Claim \/ SettleOperation PROVE [Promise!Next]_(Promise!vars)
  OBVIOUS
<1>1. UNCHANGED <<kind, bin, outcome>> /\ UNCHANGED <<copy, partial, written>>
      /\ at # "removing" /\ at' # "removing"
  BY DEF Claim, SettleOperation, setting, disk
<1> QED BY <1>1, DeliveredFrame, DeliversOrStays

\* The record of an outcome ends the item, that of a phase may let its copy count.
LEMMA RecordMaps == Inv /\ Kept /\ Record => [Promise!Next]_(Promise!vars)
<1> SUFFICES ASSUME Inv, Kept, Record PROVE [Promise!Next]_(Promise!vars)
  OBVIOUS
<1>1. /\ item \in Items /\ next \in Change /\ Accepted(next.phase, next.outcome, next.written)
      /\ written \in [Items -> {"none", "ours", "made"}] /\ outcome \in [Items -> Outcomes]
      /\ kind \in {"copy", "move", "trash"}
  BY InstanceAssumption DEF Record, Inv, TypeInv, TypeOK, CatalogOK, ProcessOK
<1>2. /\ at = "record" /\ at' # "removing" /\ UNCHANGED <<kind, bin, copy, partial>>
      /\ outcome' = [outcome EXCEPT ![item] = next.outcome]
      /\ written' = [written EXCEPT ![item] = next.written]
  BY DEF Record, setting, disk
<1>3. outcome[item] = "none"
  BY <1>2 DEF Kept, NextHolds
<1>4. CASE next.outcome = "none"
  <2>1. next.written # "none" /\ kind # "trash"
    BY <1>1, <1>2, <1>4 DEF Kept, NextHolds, Accepted
  <2>2. outcome' = outcome
    BY <1>1, <1>2, <1>3, <1>4
  <2>3. CASE item \in Delivered
    <3>1. Delivered' = Delivered
      BY <1>1, <1>2, <2>1, <2>3 DEF Delivered
    <3> QED BY <1>2, <2>2, <3>1, DeliversOrStays
  <2>4. CASE item \notin Delivered
    <3>1. Delivered' \in {Delivered, Delivered \cup {item}}
      BY <1>1, <1>2, <2>4, DeliveredOne
    <3> QED BY <1>1, <1>2, <1>3, <2>1, <2>2, <3>1, DeliversOrStays
  <2> QED BY <2>3, <2>4
<1>5. CASE next.outcome # "none"
  <2>1. written' = written
    BY <1>1, <1>2, <1>5 DEF Kept, NextHolds
  <2>2. Delivered' = Delivered
    BY <1>2, <2>1, DeliveredFrame
  <2>3. next.outcome \in {"trashed", "copied", "moved", "sourceKept", "blocked", "uncertain"}
    BY <1>1, <1>5 DEF Change, Outcomes
  <2>4. OutcomeFits(next.outcome)
    BY <1>1 DEF Accepted
  <2>5. next.outcome \in {"copied", "moved", "sourceKept"} => item \in Delivered
    BY <1>1, <1>2 DEF Kept, NextHolds, Arrived, Delivered
  <2>6. /\ next.outcome \in {"sourceKept", "blocked"} => bin[item] = "gone"
        /\ next.outcome \in {"trashed", "moved"} => bin[item] # "gone"
    BY <1>2 DEF Inv, Safe, Truthful, Kept, NextHolds
  <2>7. Promise!Truthful(item, next.outcome)
    BY <1>1, <2>3, <2>4, <2>5, <2>6 DEF OutcomeFits, Promise!Truthful
  <2>8. Promise!End(item, next.outcome)
    BY <1>2, <1>3, <2>2, <2>7 DEF Promise!End, Promise!Open
  <2> QED BY <1>1, <2>3, <2>8 DEF Promise!Next
<1> QED BY <1>4, <1>5

LEMMA AdvancesMaps ==
    ASSUME Inv, Kept, NEW i \in Items,
           Begin(i) \/ ResumeInstalled(i) \/ ResumeLinked(i) \/ StartFill(i) \/ Verify(i)
    PROVE  [Promise!Next]_(Promise!vars)
<1>1. /\ at # "removing" /\ at' # "removing" /\ kind # "trash" /\ outcome[i] = "none"
      /\ UNCHANGED <<kind, bin, outcome>> /\ UNCHANGED <<copy, written>>
  BY FromPhase DEF Inv, Begin, ResumeInstalled, ResumeLinked, StartFill, Verify, Advances, Changing,
     disk, setting, catalog
<1>2. CASE UNCHANGED partial
  BY <1>1, <1>2, DeliveredFrame, DeliversOrStays
<1>3. CASE ~UNCHANGED partial
  <2>1. \A j \in Items : j # i => partial'[j] = partial[j]
    BY <1>3 DEF Inv, TypeInv, TypeOK, DiskOK, Begin, ResumeInstalled, ResumeLinked, StartFill, Verify,
       SecondNameGone, disk
  <2>2. written[i] = "none" \/ partial[i] # "none"
    BY <1>3 DEF Begin, ResumeInstalled, ResumeLinked, StartFill, Verify, Advances, disk, Kept, PhasesHold
  <2>3. Delivered' \in {Delivered, Delivered \cup {i}}
    BY <1>1, <2>1, <2>2, DeliveredOne DEF Delivered
  <2> QED BY <1>1, <2>3, DeliversOrStays
<1> QED BY <1>2, <1>3

LEMMA WritingMaps == Inv /\ VisibleInv /\ Kept /\ WritingStep => [Promise!Next]_(Promise!vars)
<1> SUFFICES ASSUME Inv, VisibleInv, Kept, WritingStep PROVE [Promise!Next]_(Promise!vars)
  OBVIOUS
<1>1. /\ at \in Writing /\ kind # "trash" /\ item \in Items
      /\ UNCHANGED <<setting, catalog, bounds, entry, bin>>
      /\ outcome[item] = "none"
      /\ partial \in [Items -> {"none", "empty", "prefix", "whole"}] /\ copy \in [Items -> Copy]
  BY WritingFrame DEF Inv, TypeInv, TypeOK, DiskOK, VisibleInv, WritingRecorded
<1>2. item' = item /\ \A j \in Items : j # item => partial'[j] = partial[j] /\ copy'[j] = copy[j]
  BY <1>1 DEF WritingStep, Fill, FillFails, InstallRenamed, InstallLinked, Unlink, InstallCreated,
     Copied, CopyFails, MoveAside, RemoveAside, MakeWay, InstallFails, Discarded, Placed, Goto,
     Blocked, Synced, Decide
<1>3. item \notin Delivered
  BY <1>1 DEF Kept, PartialLasts, Delivered
<1>4. Delivered' \in {Delivered, Delivered \cup {item}}
  BY <1>1, <1>2, <1>3, DeliveredOne DEF catalog
<1> QED BY <1>1, <1>4, DeliversOrStays DEF setting, catalog

LEMMA ResumeMaps ==
    ASSUME NEW i \in Items, RecordIntent(i) \/ ResumeRetiring(i) \/ ResumeInterrupted(i)
    PROVE  [Promise!Next]_(Promise!vars)
<1>1. /\ at # "removing" /\ at' # "removing"
      /\ UNCHANGED <<kind, bin, outcome>> /\ UNCHANGED <<copy, partial, written>>
  BY DEF RecordIntent, ResumeRetiring, ResumeInterrupted, Advances, Changing, disk, setting, catalog
<1> QED BY <1>1, DeliveredFrame, DeliversOrStays

\* The move to the OS Trash retires the item over what it relies on.
LEMMA MoveMaps == Inv /\ Kept /\ MoveToTrash => [Promise!Next]_(Promise!vars)
<1> SUFFICES ASSUME Inv, Kept, MoveToTrash PROVE [Promise!Next]_(Promise!vars)
  OBVIOUS
<1> DEFINE gone == {j \in Items : bin[j] # "gone"}
<1>1. /\ kind = "move" => Arrived(item)
      /\ item \in Items /\ outcome[item] = "none" /\ kind \in {"move", "trash"}
      /\ bin \in [Items -> Standing]
  BY Retired, RetiringFrame, InstanceAssumption, PlaceNames
  DEF RetiringStep, Inv, TypeInv, TypeOK, DiskOK, PlaceFits
<1>2. /\ at = "trash" /\ at' = "observe" /\ UNCHANGED <<kind, copy, partial, outcome, written>>
  BY DEF MoveToTrash, setting, catalog
<1>3. Delivered' = Delivered
  BY <1>2, DeliveredFrame
<1>4. CASE bin' = bin
  BY <1>2, <1>3, <1>4, DeliversOrStays
<1>5. CASE bin' # bin
  <2>1. entry[item] # "gone" /\ bin' = [bin EXCEPT ![item] = entry[item]]
    BY <1>5 DEF MoveToTrash
  <2>2. {j \in Items : bin'[j] # "gone"} = gone \cup {item}
    BY <1>1, <2>1
  <2>3. kind = "move" => item \in Delivered
    BY <1>1, <1>2 DEF Arrived, Delivered
  <2>4. kind = "trash" => ReliedOn[item] \cap gone = {}
    BY <1>2 DEF Inv, Safe, KeptHere
  <2>5. PICK i \in Items : i = item
    BY <1>1
  <2>6. Promise!Retire(i)
    BY <1>1, <1>2, <1>3, <2>2, <2>3, <2>4, <2>5 DEF Promise!Retire, Promise!Open
  <2> QED BY <2>6 DEF Promise!Next
<1> QED BY <1>4, <1>5

LEMMA RetiringMaps == Inv /\ Kept /\ RetiringStep => [Promise!Next]_(Promise!vars)
<1> SUFFICES ASSUME Inv, Kept, RetiringStep, ~MoveToTrash PROVE [Promise!Next]_(Promise!vars)
  BY MoveMaps
<1>1. /\ at # "removing" /\ at' # "removing"
      /\ UNCHANGED <<kind, bin, outcome>> /\ UNCHANGED <<copy, partial, written>>
  BY PlaceNames DEF RetiringStep, CheckSupport, VerifyCopy, VerifyKept, VerifySource, Observe, Goto,
     Decide, Blocked, disk, setting, catalog
<1> QED BY <1>1, DeliveredFrame, DeliversOrStays

\* A crash while a created copy's partial is removed leaves the copy delivered.
LEMMA CrashMaps == Inv /\ VisibleInv /\ Crash => [Promise!Next]_(Promise!vars)
<1> SUFFICES ASSUME Inv, VisibleInv, Crash PROVE [Promise!Next]_(Promise!vars)
  OBVIOUS
<1>1. at' = "idle" /\ UNCHANGED <<kind, bin, outcome>> /\ UNCHANGED <<copy, partial, written, item>>
  BY DEF Crash, setting, disk, catalog
<1>2. CASE at = "removing"
  <2>1. item \in Items /\ outcome[item] = "none" /\ kind # "trash"
    BY <1>2, PlaceNames DEF Inv, TypeInv, TypeOK, ProcessOK, PlaceFits, VisibleInv, WritingRecorded
  <2>2. Delivered' \in {Delivered, Delivered \cup {item}}
    BY <1>1, <1>2, <2>1, DeliveredOne DEF Delivered
  <2> QED BY <1>1, <2>1, <2>2, DeliversOrStays
<1>3. CASE at # "removing"
  BY <1>1, <1>3, DeliveredFrame, DeliversOrStays
<1> QED BY <1>2, <1>3

LEMMA StepMaps ==
    Inv /\ VisibleInv /\ Kept /\ Undisturbed /\ [Next]_vars => [Promise!Next]_(Promise!vars)
<1> SUFFICES ASSUME Inv, VisibleInv, Kept, Undisturbed, [Next]_vars
             PROVE  [Promise!Next]_(Promise!vars)
  OBVIOUS
<1>1. CASE UNCHANGED vars \/ ChangedOutside
  <2>1. UNCHANGED <<kind, bin, outcome>> /\ UNCHANGED <<copy, partial, written, at, item>>
    BY <1>1, OutsideFrame DEF vars, setting, catalog
  <2>2. Delivered' = Delivered
    BY <2>1 DEF Delivered
  <2> QED BY <2>1, <2>2, DeliversOrStays
<1> QED
  BY <1>1, JournalMaps, RecordMaps, AdvancesMaps, WritingMaps, ResumeMaps, RetiringMaps, CrashMaps
  DEF Next, Execute, Transfer, Retire, WritingStep, RetiringStep

LEMMA InitMaps == Init => Promise!Init
BY InstanceAssumption DEF Init, NoCopy, Delivered, Promise!Init

\* Where nobody outside touches destinations or the Trash, the journal keeps
\* the promise: crashed and resumed anywhere, on a volume of any kind, while
\* sources and kept copies change, each step of it is one of AtomicCustody's
\* or none.
THEOREM ImplementsAtomic ==
    ASSUME Undisturbed
    PROVE  Spec => ImplementsPromise
<1>1. Init /\ []Inv /\ []VisibleInv /\ [][Next]_vars => []Kept
  BY InitKept, KeptStep, PTL
<1>2. Spec => []VisibleInv
  BY InitVisible, VisibleStep, Always, PTL DEF Spec
<1> QED BY <1>1, <1>2, Always, InitMaps, StepMaps, PTL DEF Spec, ImplementsPromise, Promise!Spec
=============================================================================
