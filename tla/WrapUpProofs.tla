---------------------------- MODULE WrapUpProofs ----------------------------
(***************************************************************************)
(* Theorems of WrapUp: for any View, copies and frames, any number of      *)
(* operations, stops and changes from outside, in every world.             *)
(***************************************************************************)
EXTENDS WrapUp, WellFoundedInduction, FiniteSetTheorems, TLAPS

\* What a run keeps in memory.
Jobs ==
    [op : 0..MaxOps, step : Steps \cup {"none"}, outcome : {"none", "finished", "skipped"},
     rev : 0..MaxRev, place : Layouts \cup {<<>>}, gen : 0..MaxGen,
     rows : SUBSET (Entries \cup Leftovers \cup Copies), frames : SUBSET Frames,
     archives : SUBSET Archives, touched : BOOLEAN, gone : BOOLEAN]

Types == TypeOK /\ job \in [Procs -> Jobs]

\* The operation that runs: ids are given once, an Apply is reserved only when
\* another View fits the bound, and the journal is the latest Trash step's.
OpFits ==
    /\ op.id <= ops /\ run <= ops
    /\ op.id = 0 <=> op.kind = "none"
    /\ op = NoOp \/ op.id # 0
    /\ op.kind = "apply" => gen < MaxGen
    /\ op.kind = "trash" => op.id = run
    /\ run # 0 /\ op.id = run => op.kind = "trash"

\* No View stands without its folder, none is recorded without it, and what
\* is recorded removed was taken from it.
FolderFits ==
    /\ ~folder => ~extra /\ \A n \in Entries : view[n] = Nothing
    /\ manifest = 0 => ~folder
    /\ removals \subseteq deleted

\* Where the command is while it runs Clean up.
CleanUpPlaces == {"remove", "recordRemoval", "reviewLeftover", "retirePrevious", "finishCleanUp"}

\* The operation a run drives is of its kind, as long as it is the Project's.
Drive(p, kind) == job[p].op \in 1..ops /\ (op.id = job[p].op => op.kind = kind)

\* What the command knows of the step it was asked for.
AskFits ==
    /\ at["command"] \in {"pass", "begin"} =>
          /\ job["command"].step \in {"cleanUp", "trash"}
          /\ job["command"].step = "trash" => job["command"].rows \subseteq Copies
          /\ job["command"].step = "cleanUp" => /\ job["command"].rows \subseteq Entries \cup Leftovers
                                                /\ job["command"].place \in Layouts
    /\ at["command"] = "pass" => job["command"].outcome \in {"finished", "skipped"}

\* What it knows while it cleans up: the entry it took away is in no View, and
\* the View it found gone stays so while its operation runs.
CleanUpFits ==
    /\ at["command"] \in CleanUpPlaces =>
          /\ Drive("command", "cleanUp")
          /\ job["command"].rows \subseteq Entries \cup Leftovers
          /\ job["command"].place \in Layouts
    /\ at["command"] = "recordRemoval" =>
          /\ job["command"].rows # {} /\ Row \in Entries /\ job["command"].gen # 0
          /\ <<job["command"].gen, Row>> \in deleted
    /\ at["command"] \in {"retirePrevious", "finishCleanUp"} /\ op.id = job["command"].op
          /\ job["command"].gone => ~folder

\* What recovery knows of the operation it found.
ReleaseFits == at["recovery"] = "release" => Drive("recovery", "cleanUp")

\* Where a run of a Trash step is when it moves its items, and past it.
MovePlaces == {"run", "retire", "observe"}
PastPlaces == {"recordTrashed", "mark", "finishTrash"}

\* Every copy moved is recorded moved.
AllRecorded == \A c \in Trashed : FrameOf[c] # 0 => asset[c] = "trashed"

\* What a run of a Trash step knows of its journal.
TrashFits(p) ==
    /\ at[p] \in TrashPlaces => Drive(p, "trash")
    /\ at[p] = "refusing" => job[p].rows # {} /\ job[p].rows \subseteq Copies
    /\ at[p] \in MovePlaces => claim = p
    /\ at[p] \in {"retire", "observe"} /\ job[p].op = run =>
          Unsettled # {} /\ status[Item] = "retiring"
    /\ at[p] = "observe" /\ job[p].op = run => Item \in bin
    /\ at[p] \in PastPlaces /\ job[p].op = run => Unsettled = {}
    /\ at[p] \in {"mark", "finishTrash"} /\ job[p].op = run => AllRecorded

\* What the journal says and the catalog took is in the OS Trash; a step that
\* let go of the Project has settled and recorded every item.
JournalFits ==
    /\ \A c \in Copies : status[c] = "trashed" \/ asset[c] = "trashed" => c \in bin
    /\ \A c \in marked : FrameOf[c] # 0 => asset[c] = "trashed"
    /\ run # 0 /\ op.id # run => Unsettled = {} /\ AllRecorded

AtRest  == Types /\ OpFits /\ LockedIsApplied /\ FolderFits /\ JournalFits
Running == AskFits /\ CleanUpFits /\ ReleaseFits /\ \A p \in Procs : TrashFits(p)
Inv     == AtRest /\ Running /\ Promised!Promise

-----------------------------------------------------------------------------
(* The operators of the model. *)

\* `ORDER BY` with `LIMIT 1`: the least of some numbers is one of them.
LEMMA LeastIn == ASSUME NEW S, S \subseteq Nat, S # {}
                 PROVE  Least(S) \in S /\ \A m \in S : Least(S) <= m
<1> DEFINE T == {0..n : n \in S}
<1>1. T \subseteq FiniteSubsetsOf(Nat) /\ T # {}
  <2>1. ASSUME NEW n \in S PROVE 0..n \in FiniteSubsetsOf(Nat)
    <3>1. n \in Nat /\ 0 \in Int /\ n \in Int /\ 0..n \subseteq Nat
      OBVIOUS
    <3>2. IsFiniteSet(0..n)
      BY <3>1, FS_Interval
    <3> QED BY <3>1, <3>2 DEF FiniteSubsetsOf
  <2>2. T # {}
    OBVIOUS
  <2> QED BY <2>1, <2>2
<1>2. PICK t \in T : \A u \in T : <<u, t>> \notin StrictSubsetOrdering(Nat)
  <2> HIDE DEF T
  <2> QED BY <1>1, FS_StrictSubsetOrderingWellFounded, WFMin
<1>3. PICK n \in S : t = 0..n
  OBVIOUS
<1>4. ASSUME NEW m \in S PROVE n <= m
  <2> SUFFICES ASSUME m < n PROVE FALSE
    OBVIOUS
  <2>1. 0..m \subseteq 0..n /\ 0..m # 0..n /\ 0..n \subseteq Nat
    <3>1. n \in 0..n /\ n \notin 0..m
      OBVIOUS
    <3> QED BY <3>1
  <2>2. 0..m \in T
    OBVIOUS
  <2> QED BY <1>2, <1>3, <2>1, <2>2 DEF StrictSubsetOrdering
<1> QED BY <1>4 DEF Least

\* And it is the only one below all of them.
LEMMA LeastIs == ASSUME NEW S, S \subseteq Nat, NEW n \in S, \A m \in S : n <= m
                 PROVE  Least(S) = n
<1>1. Least(S) \in S /\ \A m \in S : Least(S) <= m
  BY LeastIn
<1>2. Least(S) <= n
  BY <1>1
<1>3. n <= Least(S)
  BY <1>1
<1>4. n \in Int /\ Least(S) \in Int
  <2>1. Least(S) \in Nat /\ n \in Nat
    BY <1>1
  <2> QED BY <2>1
<1> QED BY <1>2, <1>3, <1>4

\* What the instance assumption says of the constants.
LEMMA Values ==
    /\ Entries \subseteq Nat /\ Leftovers \subseteq Nat /\ Copies \subseteq Nat
    /\ Entries \cap Leftovers = {}
    /\ \A l \in Layouts : l \in [Entries -> Entries]
    /\ \A l \in Layouts, n \in Entries : \E s \in Entries : l[s] = n
    /\ FrameOf \in [Copies -> Nat]
    /\ MaxOps \in Nat /\ MaxFaults \in Nat /\ MaxChanges \in Nat
    /\ MaxGen \in Nat \ {0} /\ MaxRev \in Nat \ {0}
BY InstanceAssumption

\* The View an Apply makes: each name holds an entry of its generation.
LEMMA ViewMade ==
    ASSUME NEW l \in Layouts, NEW g \in 1..MaxGen
    PROVE  [n \in Entries |-> <<g, CHOOSE s \in Entries : l[s] = n>>]
               \in [Entries -> ((1..MaxGen) \X Entries) \cup {Nothing, Foreign}]
<1>1. ASSUME NEW n \in Entries PROVE (CHOOSE s \in Entries : l[s] = n) \in Entries
  BY Values
<1> QED BY <1>1

\* The next row of a run, and the next item of a journal, are among them.
LEMMA RowIsOne == ASSUME job["command"].rows \subseteq Entries \cup Leftovers, job["command"].rows # {}
                  PROVE  Row \in job["command"].rows
BY LeastIn, Values DEF Row

\* The next item of a journal is one not settled yet.
LEMMA ItemIsOne == ASSUME Unsettled # {}
                   PROVE  Item \in Copies /\ status[Item] # "out" /\ status[Item] \notin Settled
<1>1. Unsettled \subseteq Nat
  BY Values DEF Unsettled, Items
<1>2. Item \in Unsettled
  BY <1>1, LeastIn DEF Item
<1> QED BY <1>2 DEF Unsettled, Items

\* A new Project with its first View.
LEMMA InitHolds == Init => Inv
<1> SUFFICES ASSUME Init PROVE Inv
  OBVIOUS
<1>1. Types
  <2>1. view \in [Entries -> ((1..MaxGen) \X Entries) \cup {Nothing, Foreign}]
    <3>1. 1 \in 1..MaxGen
      BY Values
    <3> QED BY <3>1, ViewMade DEF Init
  <2>2. job \in [Procs -> Jobs]
    BY Values DEF Init, NoJob, Jobs
  <2>3. /\ op \in [id : 0..MaxOps, kind : Kinds \cup {"none"}] /\ ops \in 0..MaxOps
        /\ rev \in 1..MaxRev /\ applied \in 1..MaxRev
        /\ manifest \in 0..MaxGen /\ gen \in 1..MaxGen /\ place \in Layouts
        /\ run \in 0..MaxOps /\ faults \in 0..MaxFaults /\ changes \in 0..MaxChanges
    BY Values DEF Init, NoOp
  <2>4. previous \in BOOLEAN
    BY DEF Init
  <2>5. /\ at \in [Procs -> Places]
        /\ claim \in Procs \cup {"none"} /\ runner \in [Archives -> Procs \cup {"none"}]
        /\ archive \in [Archives -> {"none", "unsettled", "settled"}] /\ moved \in BOOLEAN
    BY DEF Init, Places, Resting, Procs, Archives
  <2>6. /\ lifecycle \in {"open", "closing", "closed", "archived"}
        /\ steps \in [Steps -> {"none", "finished", "skipped"}]
        /\ removals \subseteq (1..MaxGen) \X Entries
        /\ listed \subseteq Leftovers /\ left \subseteq Leftovers
        /\ deleted \subseteq (1..MaxGen) \X Entries
        /\ folder \in BOOLEAN /\ extra \in BOOLEAN
        /\ storage \in {"none", "reviewed", "running", "settled"}
        /\ status \in [Copies -> Status] /\ marked \subseteq Copies
        /\ file \in [Copies -> {"reviewed", "changed", "gone"}] /\ bin \subseteq Copies
        /\ asset \in [Copies -> {"live", "trashed", "retired"}]
    BY DEF Init, Steps, Status
  <2> QED BY <2>1, <2>2, <2>3, <2>4, <2>5, <2>6 DEF Types, TypeOK
<1>2. OpFits /\ LockedIsApplied /\ FolderFits
  BY DEF Init, OpFits, LockedIsApplied, FolderFits, NoOp
<1>3. Promised!Promise
  BY DEF Init, NoOp, Steps, Promised!Promise, Promised!TypeOK, Promised!InOrder,
         Promised!LockedIsComplete, Promised!ClosingRunsArchive, Promised!RunningIsCurrent,
         Promised!Lifecycles, Promised!Kinds, Promised!Steps, Promised!Outcomes, Promised!Before
<1>4. AskFits /\ CleanUpFits /\ ReleaseFits
  BY DEF Init, AskFits, CleanUpFits, CleanUpPlaces, ReleaseFits, Procs
<1>5. \A p \in Procs : TrashFits(p)
  BY DEF Init, TrashFits, TrashPlaces, MovePlaces, PastPlaces, Procs
<1>6. JournalFits
  BY DEF Init, JournalFits
<1> QED BY <1>1, <1>2, <1>3, <1>4, <1>5, <1>6 DEF Inv, AtRest, Running

-----------------------------------------------------------------------------
(* The lifecycle: every step is one of ProjectLifecycle's, or none of its. *)

\* The step a run checks for is the one ProjectLifecycle says is current.
LEMMA RequiredIsCurrent ==
    ASSUME Inv, NEW step \in Steps, NEW r, RequireStep(step, r)
    PROVE  lifecycle = "open" /\ op = NoOp /\ op.kind = "none" /\ Promised!IsCurrent(step)
<1>1. lifecycle = "open" /\ op = NoOp /\ Current = step
  BY DEF RequireStep, WrapUpOpens
<1>2. steps["archive"] = "none"
  BY <1>1 DEF Inv, AtRest, Running, Promised!Promise, Promised!LockedIsComplete
<1>3. Promised!IsCurrent(step)
  BY <1>1, <1>2 DEF Current, Recorded, Steps, Promised!IsCurrent, Promised!Before,
                    Promised!Steps, Promised!Position
<1> QED BY <1>1, <1>3 DEF NoOp

\* What a step does to the lifecycle.
LEMMA CleanUpMove == ASSUME Inv, CleanUpRuns PROVE [Promised!Next]_(Promised!vars)
<1> USE DEF Promised!vars
<1>1. CASE PassStep
  <2>1. job["command"].step \in {"cleanUp", "trash"}
        /\ job["command"].outcome \in {"finished", "skipped"}
    BY <1>1 DEF PassStep, Inv, Running, AskFits
  <2>2. Promised!Pass(job["command"].step, job["command"].outcome)
    BY <1>1, <2>1, RequiredIsCurrent DEF PassStep, Promised!Pass, Steps
  <2> QED BY <2>1, <2>2 DEF Promised!Next, Promised!Outcomes
<1>2. CASE BeginCleanUp
  <2>1. Promised!Reserve("cleanUp")
    BY <1>2, RequiredIsCurrent DEF BeginCleanUp, Reserve, Promised!Reserve, Steps
  <2> QED BY <2>1 DEF Promised!Next, Promised!Kinds
<1>3. CASE FinishCleanUp
  <2>1. op.kind = "cleanUp"
    BY <1>3 DEF FinishCleanUp, Active, Inv, Running, CleanUpFits, CleanUpPlaces, Drive
  <2>2. Promised!Finish
    BY <1>3, <2>1 DEF FinishCleanUp, FinishStep, NoOp, Promised!Finish
  <2> QED BY <2>2 DEF Promised!Next
<1>4. CASE RefuseStep \/ KeepRow \/ RemoveEntry \/ RecordRemoval \/ RefuseRemoval \/ TrashLeftover
           \/ ReviewLeftover \/ EmptyFolders \/ RetirePrevious \/ RefuseFinish
  BY <1>4 DEF RefuseStep, KeepRow, RemoveEntry, RecordRemoval, RefuseRemoval, TrashLeftover,
              ReviewLeftover, EmptyFolders, RetirePrevious, RefuseFinish, Refused, world, project
<1> QED BY <1>1, <1>2, <1>3, <1>4 DEF CleanUpRuns

\* A run of Trash reserves the Project at its begin, and ends with its step.
LEMMA TrashMove == ASSUME Inv, NEW p \in Procs, BeginTrash \/ TrashRuns(p)
                   PROVE  [Promised!Next]_(Promised!vars)
<1> USE DEF Promised!vars
<1>1. CASE BeginTrash
  <2>1. Promised!Reserve("trash")
    BY <1>1, RequiredIsCurrent DEF BeginTrash, Reserve, Promised!Reserve, Steps
  <2> QED BY <2>1 DEF Promised!Next, Promised!Kinds
<1>2. CASE FinishTrash(p)
  <2>1. op.kind = "trash"
    BY <1>2 DEF FinishTrash, Drives, Active, Inv, Running, TrashFits, TrashPlaces, Drive
  <2>2. Promised!Finish
    BY <1>2, <2>1 DEF FinishTrash, FinishStep, NoOp, Promised!Finish
  <2> QED BY <2>2 DEF Promised!Next
<1>3. CASE \/ StartStorage(p) \/ CheckFrame(p) \/ RefuseCopy(p) \/ RefuseStale(p)
           \/ ClaimStorage(p) \/ RefuseSecondRun(p) \/ NextItem(p) \/ MoveToTrash(p) \/ BlockMove(p)
           \/ SettleMove(p) \/ SettleStorage(p) \/ RecordTrashed(p) \/ RefuseTrashed(p)
           \/ MarkRecorded(p) \/ RefuseFinishTrash(p)
  BY <1>3 DEF StartStorage, CheckFrame, RefuseCopy, RefuseStale, ClaimStorage, RefuseSecondRun,
              NextItem, MoveToTrash, BlockMove, SettleMove, SettleStorage, RecordTrashed,
              RefuseTrashed, MarkRecorded, RefuseFinishTrash, Refused, world, project
<1> QED BY <1>1, <1>2, <1>3 DEF TrashRuns

\* A run of an archive ends the Close of the Project, or changes nothing of it.
LEMMA ArchiveMove == ASSUME Inv, NEW p \in Procs, ArchiveRuns(p) PROVE [Promised!Next]_(Promised!vars)
<1> USE DEF Promised!vars
<1>1. CASE SettleArchive(p)
  <2>1. CASE UNCHANGED <<lifecycle, op>>
    BY <1>1, <2>1 DEF SettleArchive
  <2>2. CASE lifecycle = "closing" /\ lifecycle' = SettledLifecycle /\ op' = NoOp
    <3>1. op.kind = "archive"
      BY <2>2 DEF Inv, AtRest, Running, Promised!Promise, Promised!ClosingRunsArchive
    <3>2. Promised!Settle
      BY <1>1, <2>2, <3>1 DEF SettleArchive, SettledLifecycle, NoOp, Promised!Settle
    <3> QED BY <3>2 DEF Promised!Next
  <2> QED BY <1>1, <2>1, <2>2 DEF SettleArchive
<1>2. CASE RunArchive(p) \/ RefuseSecondArchive(p) \/ MoveRecord(p) \/ EndArchives(p)
  BY <1>2 DEF RunArchive, RefuseSecondArchive, MoveRecord, EndArchives, Refused, world, project
<1> QED BY <1>1, <1>2 DEF ArchiveRuns

\* Recovery releases an interrupted Clean up.
LEMMA RecoveryMove == ASSUME Inv, Recover PROVE [Promised!Next]_(Promised!vars)
<1> USE DEF Promised!vars
<1>1. CASE ReleaseCleanUp
  <2>1. op.kind = "cleanUp"
    BY <1>1 DEF ReleaseCleanUp, Active, Inv, Running, ReleaseFits, Drive
  <2>2. Promised!Release
    BY <1>1, <2>1 DEF ReleaseCleanUp, NoOp, Promised!Release
  <2> QED BY <2>2 DEF Promised!Next
<1>2. CASE ListCleanUps \/ RefuseRelease \/ ListTrashes \/ ListArchives
  BY <1>2 DEF ListCleanUps, RefuseRelease, ListTrashes, ListArchives, Refused, world, project
<1> QED BY <1>1, <1>2 DEF Recover

\* What the user asks for reserves, reopens or closes the Project.
LEMMA AsksMove == ASSUME Inv, Asks PROVE [Promised!Next]_(Promised!vars)
<1> USE DEF Promised!vars
<1>1. CASE Close
  <2>1. lifecycle = "open" /\ op.kind = "none" /\ Promised!IsCurrent("archive")
    BY <1>1, RequiredIsCurrent DEF Close, Steps
  <2>2. Promised!Close
    BY <1>1, <2>1 DEF Close, Reserve, Promised!Close
  <2> QED BY <2>2 DEF Promised!Next
<1>2. ASSUME NEW step \in Steps, Reopen(step) PROVE Promised!Next
  <2>1. Promised!Reopen(step)
    BY <1>2 DEF Reopen, NoOp, Promised!Reopen, Promised!From, Promised!Steps, Promised!Position,
                Steps, Position
  <2> QED BY <2>1 DEF Promised!Next, Promised!Steps, Steps
<1>3. ASSUME NEW kind \in {"apply", "copyToOutput"}, BeginOther(kind) PROVE Promised!Next
  <2>1. Promised!Reserve(kind)
    BY <1>3 DEF BeginOther, Reserve, NoOp, Promised!Reserve, Promised!Steps
  <2> QED BY <2>1 DEF Promised!Next, Promised!Kinds
<1>4. CASE AskCleanUp \/ AskTrash \/ ArchiveSessions \/ EditDesired
  BY <1>4 DEF AskCleanUp, AskTrash, ArchiveSessions, EditDesired, world, project
<1> QED BY <1>1, <1>2, <1>3, <1>4 DEF Asks

\* Every step of Wrap up is one of the Project's lifecycle, or none.
LEMMA EveryMove == Inv /\ [Next]_vars => [Promised!Next]_(Promised!vars)
<1> SUFFICES ASSUME Inv, [Next]_vars PROVE [Promised!Next]_(Promised!vars)
  OBVIOUS
<1>1. ASSUME NEW p \in Procs, Runs(p) PROVE [Promised!Next]_(Promised!vars)
  BY <1>1, CleanUpMove, TrashMove, ArchiveMove, RecoveryMove DEF Runs
<1>2. CASE EndOther \/ InstallView
  <2>1. Promised!Release
    BY <1>2 DEF EndOther, InstallView, NoOp, Promised!Release
  <2> QED BY <2>1 DEF Promised!Next
<1>3. CASE \/ Outside \/ (\E p \in Procs : Fail(p)) \/ Crash \/ Quit \/ Start \/ UNCHANGED vars
  BY <1>3 DEF Outside, Fail, Crash, Quit, Down, Start, vars, world, project, Promised!vars
<1> QED BY <1>1, <1>2, <1>3, AsksMove DEF Next

\* So the Project keeps the promise of ProjectLifecycle.
LEMMA PromiseKept == ASSUME Inv, [Next]_vars PROVE Promised!Promise'
<1>1. [Promised!Next]_(Promised!vars)
  BY EveryMove
<1>2. Promised!Promise
  BY DEF Inv, AtRest, Running
<1> QED
  BY <1>1, <1>2 DEF Promised!Promise, Promised!TypeOK, Promised!InOrder, Promised!LockedIsComplete,
            Promised!ClosingRunsArchive, Promised!RunningIsCurrent, Promised!IsCurrent,
            Promised!Before, Promised!From, Promised!Position, Promised!Next, Promised!vars,
            Promised!Reserve, Promised!Release, Promised!Finish, Promised!Pass, Promised!Reopen,
            Promised!Close, Promised!Settle, Promised!Lifecycles, Promised!Kinds, Promised!Steps,
            Promised!Outcomes

-----------------------------------------------------------------------------
(* What a step leaves alone still fits. *)

\* All but the processes and the bounds.
lasting == <<project, desired, record, files, journal, copies, archival>>

\* A step that changes only where a run is leaves the rest fitting.
LEMMA LastingFits ==
    ASSUME Inv, UNCHANGED lasting
    PROVE  /\ OpFits' /\ LockedIsApplied' /\ FolderFits' /\ JournalFits' /\ Promised!Promise'
           /\ Unsettled' = Unsettled /\ Item' = Item /\ AllRecorded' = AllRecorded
<1> USE DEF lasting, project, desired, record, files, journal, copies
<1>1. OpFits' /\ LockedIsApplied' /\ FolderFits'
  BY DEF Inv, AtRest, OpFits, LockedIsApplied, FolderFits, NoOp
<1>2. Items' = Items
  BY DEF Items
<1>3. Unsettled' = Unsettled /\ Trashed' = Trashed
  BY <1>2 DEF Unsettled, Trashed
<1>4. Item' = Item /\ AllRecorded' = AllRecorded
  BY <1>3 DEF Item, AllRecorded
<1>5. JournalFits'
  BY <1>3, <1>4 DEF Inv, AtRest, JournalFits
<1>6. Promised!Promise'
  BY DEF Inv, Promised!Promise, Promised!TypeOK, Promised!InOrder, Promised!LockedIsComplete,
         Promised!ClosingRunsArchive, Promised!RunningIsCurrent, Promised!IsCurrent
<1> QED BY <1>1, <1>3, <1>4, <1>5, <1>6


\* Where a run of the Trash step stands while another process moves and the
\* Project's operation stays, ends or is a new one.
OpMoves == \/ UNCHANGED <<op, ops>>
           \/ op' = NoOp /\ UNCHANGED ops
           \/ op'.id = ops + 1 /\ ops' = ops + 1

\* What that run knows is still so.
LEMMA TrashStays ==
    ASSUME Inv, NEW q \in Procs, at'[q] = at[q], job'[q] = job[q], claim = q => claim' = q, OpMoves,
           UNCHANGED <<journal, copies>>
    PROVE  TrashFits(q)'
<1> USE DEF journal, copies
<1>1. Items' = Items
  BY DEF Items
<1>2. Unsettled' = Unsettled /\ Trashed' = Trashed
  BY <1>1 DEF Unsettled, Trashed
<1>3. Item' = Item /\ AllRecorded' = AllRecorded
  BY <1>2 DEF Item, AllRecorded
<1>4. ops \in Nat /\ op.id \in Nat /\ op.id <= ops
  BY Values DEF Inv, AtRest, Types, TypeOK, OpFits
<1>5. TrashFits(q)
  BY DEF Inv, AtRest, Running
<1>6. at[q] \in TrashPlaces => Drive(q, "trash")'
  BY SMTT(30), <1>4, <1>5 DEF TrashFits, Drive, OpMoves, NoOp, Inv, AtRest, Running, Types, TypeOK, Jobs
<1> QED BY <1>2, <1>3, <1>5, <1>6 DEF TrashFits

\* And so is what the journal says, when no Trash step ends.
LEMMA JournalStays ==
    ASSUME Inv, UNCHANGED <<journal, copies>>, op.kind # "trash" \/ op' = op
    PROVE  JournalFits'
<1> USE DEF journal, copies
<1>1. Items' = Items
  BY DEF Items
<1>2. Unsettled' = Unsettled /\ Trashed' = Trashed
  BY <1>1 DEF Unsettled, Trashed
<1>3. AllRecorded' = AllRecorded
  BY <1>2 DEF AllRecorded
<1>4. op' = op \/ (run # 0 => op.id # run)
  BY DEF Inv, AtRest, OpFits
<1> QED BY <1>2, <1>3, <1>4 DEF Inv, AtRest, JournalFits

\* What recovery found of a Clean up, likewise.
LEMMA ReleaseStays ==
    ASSUME Inv, at'["recovery"] = at["recovery"], job'["recovery"] = job["recovery"], OpMoves
    PROVE  ReleaseFits'
<1>1. ops \in Nat /\ op.id \in Nat /\ op.id <= ops
  BY Values DEF Inv, AtRest, Types, TypeOK, OpFits
<1> QED BY SMTT(30), <1>1 DEF Inv, AtRest, Running, ReleaseFits, Drive, OpMoves, NoOp, Types, TypeOK, Jobs,
                    Procs

\* What the command knows of its Clean up, likewise.
LEMMA CleanUpStays ==
    ASSUME Inv, at'["command"] = at["command"], job'["command"] = job["command"], OpMoves,
           folder' = folder \/ op'.id # job["command"].op, deleted' = deleted
    PROVE  CleanUpFits'
<1>1. ops \in Nat /\ op.id \in Nat /\ op.id <= ops
  BY Values DEF Inv, AtRest, Types, TypeOK, OpFits
<1>2. Row' = Row
  BY DEF Row
<1>3. CleanUpFits
  BY DEF Inv, Running
<1>4. Drive("command", "cleanUp") => Drive("command", "cleanUp")'
  BY <1>1 DEF Drive, OpMoves, NoOp
<1> QED BY <1>1, <1>2, <1>3, <1>4 DEF CleanUpFits, CleanUpPlaces, OpMoves, NoOp, Drive

\* A run's memory with a row dropped or a finding noted.
LEMMA DroppedIsJob ==
    ASSUME NEW j \in Jobs
    PROVE  /\ Dropped(j) \in Jobs /\ Dropped(j).rows \subseteq j.rows
           /\ Dropped(j).op = j.op /\ Dropped(j).place = j.place
BY DEF Dropped, Jobs

\* A finding noted.
LEMMA NotedIsJob ==
    ASSUME NEW j \in Jobs, NEW b \in BOOLEAN
    PROVE  /\ [j EXCEPT !.touched = b] \in Jobs /\ [j EXCEPT !.gone = b] \in Jobs
           /\ [j EXCEPT !.touched = b].op = j.op /\ [j EXCEPT !.touched = b].rows = j.rows
           /\ [j EXCEPT !.touched = b].place = j.place
           /\ [j EXCEPT !.gone = b].op = j.op /\ [j EXCEPT !.gone = b].rows = j.rows
           /\ [j EXCEPT !.gone = b].place = j.place /\ [j EXCEPT !.gone = b].gone = b
BY DEF Jobs

\* Archives listed.
LEMMA ListedIsJob ==
    ASSUME NEW j \in Jobs, NEW A \in SUBSET Archives
    PROVE  [j EXCEPT !.archives = A] \in Jobs
BY DEF Jobs

\* A run that ends, or a stop of PlateVault.
Ends == {"idle", "done", "stopped", "down", "trashes", "archivesLeft"}

\* A run that goes where it holds nothing of a step.
Away == Ends \cup {"archives", "move", "cleanUps"}

\* Then what the runs know fits.
LEMMA AwayRuns ==
    ASSUME Inv, NEW p \in Procs, at'[p] \in Away, OpMoves,
           \A q \in Procs \ {p} : at'[q] = at[q] /\ job'[q] = job[q] /\ (claim = q => claim' = q),
           UNCHANGED <<journal, copies, folder, deleted>>
    PROVE  Running'
<1> USE DEF Away, Ends
<1>1. AskFits'
  BY DEF Inv, Running, AskFits, Procs
<1>2. ReleaseFits'
  <2>1. CASE p = "recovery"
    BY <2>1 DEF ReleaseFits
  <2>2. CASE p # "recovery"
    BY <2>2, ReleaseStays DEF Procs
  <2> QED BY <2>1, <2>2
<1>3. CleanUpFits'
  <2>1. CASE p = "command"
    BY <2>1 DEF CleanUpFits, CleanUpPlaces
  <2>2. CASE p # "command"
    BY <2>2, CleanUpStays DEF Procs
  <2> QED BY <2>1, <2>2
<1>4. \A q \in Procs : TrashFits(q)'
  <2> SUFFICES ASSUME NEW q \in Procs PROVE TrashFits(q)'
    OBVIOUS
  <2>1. CASE q = p
    BY <2>1 DEF TrashFits, TrashPlaces, MovePlaces, PastPlaces
  <2>2. CASE q # p
    BY <2>2, TrashStays
  <2> QED BY <2>1, <2>2
<1> QED BY <1>1, <1>2, <1>3, <1>4 DEF Running

\* A run that returns is one of these, and holds no claim.
LEMMA ReturnRuns ==
    ASSUME Inv, NEW p \in Procs, NEW where \in Ends, Return(p, where), OpMoves,
           UNCHANGED <<journal, copies, folder, deleted>>
    PROVE  /\ at' \in [Procs -> Places] /\ job' \in [Procs -> Jobs]
           /\ claim' \in Procs \cup {"none"} /\ runner' \in [Archives -> Procs \cup {"none"}]
           /\ Running'
<1> USE DEF Return
<1>1. Types
  BY DEF Inv, AtRest
<1>2. /\ at' \in [Procs -> Places]
      /\ claim' \in Procs \cup {"none"} /\ runner' \in [Archives -> Procs \cup {"none"}]
  BY <1>1 DEF Types, TypeOK, Ends, Places, Resting
<1>3. job' \in [Procs -> Jobs]
  <2>1. NoJob \in Jobs
    BY Values DEF NoJob, Jobs
  <2> QED BY <1>1, <2>1 DEF Types
<1>4. /\ at'[p] \in Away
      /\ \A q \in Procs \ {p} : at'[q] = at[q] /\ job'[q] = job[q] /\ (claim = q => claim' = q)
  BY <1>1 DEF Types, TypeOK, Away
<1>5. Running'
  BY <1>4, AwayRuns
<1> QED BY <1>2, <1>3, <1>5

\* A run that returns with nothing changed.
LEMMA Returning ==
    ASSUME Inv, NEW p \in Procs, NEW where \in Ends, Return(p, where), UNCHANGED lasting,
           UNCHANGED changes, faults' \in 0..MaxFaults
    PROVE  Inv'
<1>1. /\ at' \in [Procs -> Places] /\ job' \in [Procs -> Jobs]
      /\ claim' \in Procs \cup {"none"} /\ runner' \in [Archives -> Procs \cup {"none"}]
      /\ Running'
  BY ReturnRuns DEF lasting, project, files, OpMoves
<1>2. Types'
  BY <1>1 DEF Inv, AtRest, Types, TypeOK, lasting, project, desired, record, files, journal,
              copies, archival
<1> QED BY <1>1, <1>2, LastingFits DEF Inv, AtRest

\* An error that ends a run.
LEMMA Refusing ==
    ASSUME Inv, NEW p \in Procs, NEW where, Refused(p, where)
    PROVE  Inv'
<1>1. Fails(p) \in Ends
  BY DEF Fails, Ends
<1>2. faults \in 0..MaxFaults
  BY DEF Inv, AtRest, Types, TypeOK
<1> QED BY <1>1, <1>2, Returning DEF Refused, world, lasting, bounds

\* A failed call, a crash, and PlateVault quit.
LEMMA FaultHolds == ASSUME Inv, NEW p \in Procs, Fail(p) \/ Crash \/ Quit PROVE Inv'
<1>1. CASE Fail(p)
  <2>1. Fails(p) \in Ends
    BY DEF Fails, Ends
  <2>2. faults' \in 0..MaxFaults
    BY <1>1, Values DEF Fail, Inv, AtRest, Types, TypeOK
  <2> QED BY <1>1, <2>1, <2>2, Returning DEF Fail, lasting
<1>2. CASE Crash \/ Quit
  <2>1. Down /\ UNCHANGED lasting
    BY <1>2 DEF Crash, Quit, Down, lasting
  <2>2. faults' \in 0..MaxFaults /\ changes' \in 0..MaxChanges
    BY <1>2, Values DEF Crash, Quit, bounds, Inv, AtRest, Types, TypeOK
  <2>3. Types'
    <3>1. job' \in [Procs -> Jobs]
      BY <2>1, Values DEF Down, NoJob, Jobs
    <3>2. at' \in [Procs -> Places]
      BY <2>1 DEF Down, Places, Resting
    <3> QED BY <2>1, <2>2, <3>1, <3>2 DEF Down, Inv, AtRest, Types, TypeOK, lasting, project, desired,
                                  record, files, journal, copies, archival
  <2>4. \A q \in Procs : at'[q] = "down"
    BY <2>1 DEF Down
  <2>5. AskFits' /\ ReleaseFits' /\ CleanUpFits'
    BY <2>4 DEF AskFits, ReleaseFits, CleanUpFits, CleanUpPlaces, Procs
  <2>6. \A q \in Procs : TrashFits(q)'
    BY <2>4 DEF TrashFits, TrashPlaces, MovePlaces, PastPlaces
  <2> QED BY <2>1, <2>3, <2>5, <2>6, LastingFits DEF Inv, AtRest, Running
<1> QED BY <1>1, <1>2

-----------------------------------------------------------------------------
(* Clean up. *)

CleanUpStep ==
    KeepRow \/ RemoveEntry \/ RecordRemoval \/ TrashLeftover \/ ReviewLeftover \/ EmptyFolders
    \/ RetirePrevious

\* One step of it, its operation running all along.
LEMMA CleanUpStepHolds == ASSUME Inv, CleanUpStep PROVE AtRest' /\ Running'
<1> USE DEF CleanUpStep
<1>1. /\ Types /\ OpFits /\ FolderFits /\ CleanUpFits /\ Promised!Promise
      /\ Drive("command", "cleanUp") /\ job["command"].rows \subseteq Entries \cup Leftovers
      /\ job["command"].place \in Layouts
  BY DEF Inv, AtRest, Running, CleanUpFits, CleanUpPlaces, KeepRow, RemoveEntry, RecordRemoval,
         TrashLeftover, ReviewLeftover, EmptyFolders, RetirePrevious, AtRow
<1>2. /\ UNCHANGED <<project, desired, journal, copies, archival, bounds, claim, runner, gen, place,
                     manifest>>
      /\ at'["recovery"] = at["recovery"] /\ job'["recovery"] = job["recovery"]
  BY <1>1 DEF KeepRow, RemoveEntry, RecordRemoval, TrashLeftover, ReviewLeftover, EmptyFolders,
              RetirePrevious, Goto, world, record, Procs, Types, TypeOK
<1>3. job' \in [Procs -> Jobs]
  <2>1. CASE KeepRow
    <3> DEFINE j == Dropped(job["command"])
               b == j.touched \/ Row \in Leftovers
    <3>1. job' = [job EXCEPT !["command"] = [j EXCEPT !.touched = b]]
      <4>1. job["command"] \in Jobs /\ job \in [Procs -> Jobs] /\ "command" \in Procs
        BY <1>1 DEF Types, Procs
      <4>2. j.touched = job["command"].touched
        BY <4>1 DEF Dropped, Jobs
      <4> QED BY <2>1, <4>1, <4>2 DEF KeepRow
    <3>2. b \in BOOLEAN
      OBVIOUS
    <3>3. j \in Jobs
      BY <1>1, DroppedIsJob DEF Types, Procs
    <3> HIDE DEF j, b
    <3> QED BY <1>1, <3>1, <3>2, <3>3, NotedIsJob DEF Types
  <2>2. CASE RemoveEntry \/ RetirePrevious
    BY <1>1, <2>2 DEF RemoveEntry, RetirePrevious, Goto, Types
  <2>3. CASE RecordRemoval \/ ReviewLeftover
    BY <1>1, <2>3 DEF RecordRemoval, ReviewLeftover, Dropped, Types, Jobs, Procs
  <2>4. CASE TrashLeftover
    BY ZenonT(120), <1>1, <2>4 DEF TrashLeftover, Types, Jobs, Procs
  <2>5. CASE EmptyFolders
    <3>1. PICK b \in BOOLEAN : job' = [job EXCEPT !["command"].gone = b]
      BY <2>5 DEF EmptyFolders
    <3>2. [job["command"] EXCEPT !.gone = b] \in Jobs
      BY <1>1, NotedIsJob DEF Types, Procs
    <3> QED BY <1>1, <3>1, <3>2 DEF Types
  <2> QED BY <2>1, <2>2, <2>3, <2>4, <2>5
<1>4. at' \in [Procs -> Places]
  BY <1>1 DEF KeepRow, RemoveEntry, RecordRemoval, TrashLeftover, ReviewLeftover, EmptyFolders,
              RetirePrevious, Goto, Types, TypeOK, Places
<1>5. /\ removals' \subseteq (1..MaxGen) \X Entries /\ deleted' \subseteq (1..MaxGen) \X Entries
      /\ removals' \subseteq deleted'
      /\ view' \in [Entries -> ((1..MaxGen) \X Entries) \cup {Nothing, Foreign}]
      /\ listed' \subseteq Leftovers /\ left' \subseteq Leftovers
  <2>1. CASE RemoveEntry
    <3>1. view[job["command"].place[Row]] \in (1..MaxGen) \X Entries
      BY <1>1, <2>1, Values DEF RemoveEntry, AtRow, StillPlaced, Types, Jobs, Procs
    <3> QED BY ZenonT(60), <1>1, <2>1, <3>1 DEF RemoveEntry, FolderFits, Types, TypeOK, record
  <2>2. CASE RecordRemoval
    <3>1. /\ Row \in Entries /\ job["command"].gen \in 1..MaxGen
          /\ <<job["command"].gen, Row>> \in deleted
      <4>1. job["command"].gen \in 0..MaxGen
        BY <1>1 DEF Types, Jobs, Procs
      <4> QED BY <1>1, <2>2, <4>1, Values DEF RecordRemoval, CleanUpFits
    <3> QED BY <1>1, <2>2, <3>1 DEF RecordRemoval, FolderFits, Types, TypeOK, files
  <2>3. CASE TrashLeftover \/ ReviewLeftover \/ RetirePrevious \/ KeepRow \/ EmptyFolders
    BY <1>1, <2>3 DEF TrashLeftover, ReviewLeftover, RetirePrevious, KeepRow, EmptyFolders,
                      FolderFits,
                      Types, TypeOK, record, files, world
  <2> QED BY <2>1, <2>2, <2>3
<1>6. folder' \in BOOLEAN /\ extra' \in BOOLEAN /\ previous' \in BOOLEAN
  <2>1. CASE EmptyFolders
    BY <1>1, <2>1 DEF EmptyFolders, Types, TypeOK, record
  <2>2. CASE ~EmptyFolders
    BY <1>1, <2>2 DEF KeepRow, RemoveEntry, RecordRemoval, TrashLeftover, ReviewLeftover,
                      RetirePrevious, Types, TypeOK, record, files, world
  <2> QED BY <2>1, <2>2
<1>7. Types'
  BY <1>1, <1>2, <1>3, <1>4, <1>5, <1>6 DEF Types, TypeOK, project, desired, journal, copies,
                                             archival, bounds
<1>8. OpFits' /\ LockedIsApplied'
  BY <1>1, <1>2 DEF OpFits, Inv, AtRest, LockedIsApplied, project, desired, journal
<1>9. FolderFits'
  <2>1. (~folder => ~extra /\ \A n \in Entries : view[n] = Nothing)'
    <3>1. CASE EmptyFolders
      BY <1>1, <3>1 DEF EmptyFolders, FolderFits
    <3>2. CASE RemoveEntry
      BY <1>1, <3>2 DEF RemoveEntry, FolderFits, Types, TypeOK
    <3>3. CASE ~EmptyFolders /\ ~RemoveEntry
      BY <1>1, <3>3 DEF KeepRow, RecordRemoval, TrashLeftover, ReviewLeftover, RetirePrevious,
                        FolderFits, files, world
    <3> QED BY <3>1, <3>2, <3>3
  <2>2. (manifest = 0 => ~folder)'
    <3>1. CASE EmptyFolders
      BY <1>1, <1>2, <3>1 DEF EmptyFolders, FolderFits
    <3>2. CASE ~EmptyFolders
      BY <1>1, <1>2, <3>2 DEF KeepRow, RemoveEntry, RecordRemoval, TrashLeftover, ReviewLeftover,
                        RetirePrevious, FolderFits, files, world
    <3> QED BY <3>1, <3>2
  <2> QED BY <1>5, <2>1, <2>2 DEF FolderFits
<1>10. JournalFits'
  BY <1>2, JournalStays DEF OpMoves, project
<1>11. AskFits'
  BY <1>1 DEF KeepRow, RemoveEntry, RecordRemoval, TrashLeftover, ReviewLeftover, EmptyFolders,
              RetirePrevious, AtRow, Goto, AskFits, Types, TypeOK, Procs
<1>12. CleanUpFits'
  <2>1. CASE RemoveEntry
    <3>1. at'["command"] = "recordRemoval" /\ job' = job /\ UNCHANGED <<op, ops>>
      BY <1>1, <2>1 DEF RemoveEntry, Goto, project, Types, TypeOK, Procs
    <3>2. Row \in Entries /\ job["command"].rows # {} /\ job["command"].gen # 0
          /\ <<job["command"].gen, Row>> \in deleted'
      BY <2>1 DEF RemoveEntry, AtRow, StillPlaced
    <3>3. Row' = Row
      BY <3>1 DEF Row
    <3> QED BY <1>1, <3>1, <3>2, <3>3 DEF CleanUpFits, Drive
  <2>2. CASE EmptyFolders
    <3>1. PICK b \in BOOLEAN : job' = [job EXCEPT !["command"].gone = b] /\ (b => ~folder')
      BY <2>2 DEF EmptyFolders, ViewGone
    <3>2. /\ job'["command"].op = job["command"].op /\ job'["command"].rows = job["command"].rows
          /\ job'["command"].place = job["command"].place /\ job'["command"].gone = b
      BY <1>1, <3>1, NotedIsJob DEF Types, Procs
    <3>3. at'["command"] \in {"retirePrevious", "finishCleanUp"}
      BY <1>1, <2>2 DEF EmptyFolders, Types, TypeOK, Procs
    <3> QED BY <1>1, <1>2, <3>1, <3>2, <3>3 DEF CleanUpFits, Drive, project
  <2>3. CASE RetirePrevious
    BY <1>1, <1>2, <2>3 DEF RetirePrevious, Goto, CleanUpFits, CleanUpPlaces, Drive, Types, TypeOK,
                            Procs, project, files
  <2>4. CASE KeepRow \/ RecordRemoval \/ TrashLeftover \/ ReviewLeftover
    <3>1. /\ at'["command"] \in {"remove", "reviewLeftover"}
          /\ job'["command"].op = job["command"].op /\ job'["command"].place = job["command"].place
          /\ job'["command"].rows \subseteq job["command"].rows
      BY SMTT(30), <1>1, <2>4 DEF KeepRow, RecordRemoval, TrashLeftover, ReviewLeftover, Dropped, Types, TypeOK,
                        Jobs, Procs
    <3> QED BY <1>1, <1>2, <3>1 DEF CleanUpFits, Drive, project
  <2> QED BY <2>1, <2>2, <2>3, <2>4
<1>13. ReleaseFits'
  BY <1>2, ReleaseStays DEF OpMoves, project
<1>14. \A q \in Procs : TrashFits(q)'
  <2>1. TrashFits("recovery")'
    BY <1>2, TrashStays DEF OpMoves, project, Procs
  <2>2. at'["command"] \in CleanUpPlaces
    BY <1>1 DEF KeepRow, RemoveEntry, RecordRemoval, TrashLeftover, ReviewLeftover, EmptyFolders,
                RetirePrevious, AtRow, Goto, CleanUpPlaces, Types, TypeOK, Procs
  <2>3. TrashFits("command")'
    BY <2>2 DEF TrashFits, TrashPlaces, MovePlaces, PastPlaces, CleanUpPlaces
  <2> QED BY <2>1, <2>3 DEF Procs
<1> QED BY <1>7, <1>8, <1>9, <1>10, <1>11, <1>12, <1>13, <1>14 DEF AtRest, Running

\* The ends of Clean up: a step recorded with nothing to move, and one of its
\* own operation.
LEMMA StepRecorded == ASSUME Inv, PassStep \/ FinishCleanUp PROVE AtRest' /\ Running'
<1>1. /\ Types /\ OpFits /\ FolderFits /\ Promised!Promise
      /\ Return("command", "idle") /\ "idle" \in Ends /\ "command" \in Procs
      /\ UNCHANGED <<journal, copies, files, archival, bounds, desired, lifecycle, ops>>
      /\ UNCHANGED <<place, removals, listed, previous, gen>>
  BY DEF Inv, AtRest, PassStep, FinishCleanUp, FinishStep, record, Procs, Ends
<1>2. OpMoves
  BY DEF PassStep, FinishCleanUp, FinishStep, OpMoves
<1>3. /\ at' \in [Procs -> Places] /\ job' \in [Procs -> Jobs]
      /\ claim' \in Procs \cup {"none"} /\ runner' \in [Archives -> Procs \cup {"none"}]
      /\ Running'
  BY <1>1, <1>2, ReturnRuns DEF files
<1>4. CASE PassStep
  <2>1. job["command"].outcome \in {"finished", "skipped"}
    BY <1>4 DEF PassStep, Inv, Running, AskFits
  <2>2. Types'
    <3>1. steps' \in [Steps -> {"none", "finished", "skipped"}] /\ op' = op
          /\ UNCHANGED record
      BY <1>1, <1>4, <2>1 DEF PassStep, Types, TypeOK
    <3> QED BY <1>1, <1>3, <3>1 DEF Types, TypeOK, desired, record, files, journal, copies,
                                    archival, bounds
  <2>3. OpFits' /\ LockedIsApplied' /\ FolderFits'
    BY <1>1, <1>4 DEF PassStep, Inv, AtRest, OpFits, NoOp, LockedIsApplied, FolderFits, desired,
                      record,
                      files, journal
  <2>4. JournalFits'
    BY <1>1, <1>2, <1>4, JournalStays DEF PassStep
  <2> QED BY <1>3, <2>2, <2>3, <2>4 DEF AtRest
<1>5. CASE FinishCleanUp
  <2>1. op.kind = "cleanUp" /\ (job["command"].gone => ~folder)
    BY <1>5 DEF FinishCleanUp, Active, Inv, Running, CleanUpFits, CleanUpPlaces, Drive
  <2>2. manifest' \in 0..MaxGen
    BY <1>1, <1>5, Values DEF FinishCleanUp, Types, TypeOK
  <2>3. Types'
    BY <1>1, <1>3, <1>5, <2>2, Values DEF FinishCleanUp, FinishStep, NoOp, Steps, Types, TypeOK,
                                          desired,
                                  files, journal, copies, archival, bounds
  <2>4. OpFits' /\ LockedIsApplied'
    BY <1>1, <1>5, Values DEF FinishCleanUp, FinishStep, Inv, AtRest, OpFits, NoOp, LockedIsApplied,
                              desired,
                      journal, Types, TypeOK
  <2>5. FolderFits'
    BY <1>1, <1>5, <2>1 DEF FinishCleanUp, FolderFits, files
  <2>6. JournalFits'
    BY <1>1, <1>2, <2>1, JournalStays
  <2> QED BY <1>3, <2>3, <2>4, <2>5, <2>6 DEF AtRest
<1> QED BY <1>4, <1>5

\* What a review offers, and what is asked for.
LEMMA AskHolds == ASSUME Inv, AskCleanUp \/ AskTrash PROVE AtRest' /\ Running'
<1>1. /\ Types /\ UNCHANGED <<claim, runner, world>> /\ at["command"] = "idle"
      /\ UNCHANGED lasting
  BY DEF AskCleanUp, AskTrash, Inv, AtRest, world, lasting
<1>2. PICK j \in Jobs : /\ job' = [job EXCEPT !["command"] = j]
                        /\ j.step \in {"cleanUp", "trash"} /\ j.outcome \in {"finished", "skipped"}
                        /\ j.step = "trash" => j.rows \subseteq Copies
                        /\ j.step = "cleanUp" => j.rows \subseteq Entries \cup Leftovers
                                                 /\ j.place \in Layouts
                        /\ at' = [at EXCEPT !["command"] = IF j.rows = {} THEN "pass" ELSE "begin"]
  <2>1. CASE AskCleanUp
    <3>1. PICK rows \in SUBSET Offered :
              /\ job' = [job EXCEPT !["command"] =
                            [NoJob EXCEPT !.step = "cleanUp", !.rev = rev, !.place = place,
                                          !.rows = rows,
                                          !.outcome = IF Offered = {} THEN "finished" ELSE "skipped"]]
              /\ at' = [at EXCEPT !["command"] = IF rows = {} THEN "pass" ELSE "begin"]
      BY <2>1 DEF AskCleanUp
    <3> DEFINE j == [NoJob EXCEPT !.step = "cleanUp", !.rev = rev, !.place = place, !.rows = rows,
                                  !.outcome = IF Offered = {} THEN "finished" ELSE "skipped"]
    <3>2. rows \subseteq Entries \cup Leftovers
      BY <1>1 DEF Offered, Types, TypeOK
    <3>3. j \in Jobs
      <4>1. NoJob \in Jobs
        BY Values DEF NoJob, Jobs
      <4>2. rev \in 0..MaxRev /\ place \in Layouts \cup {<<>>} /\ "cleanUp" \in Steps
        BY <1>1, Values DEF Types, TypeOK, Steps
      <4>3. PICK o \in {"finished", "skipped"} : o = IF Offered = {} THEN "finished" ELSE "skipped"
        OBVIOUS
      <4> QED BY <3>2, <4>1, <4>2, <4>3 DEF Jobs
    <3>4. /\ j.step = "cleanUp" /\ j.rows = rows /\ j.place = place
          /\ j.outcome \in {"finished", "skipped"}
      BY DEF NoJob
    <3>5. job' = [job EXCEPT !["command"] = j]
      BY <3>1
    <3> HIDE DEF j
    <3>6. place \in Layouts
      BY <1>1 DEF Types, TypeOK
    <3> QED BY ZenonT(120), <3>1, <3>2, <3>3, <3>4, <3>5, <3>6
  <2>2. CASE AskTrash
    <3>1. PICK items \in SUBSET CanMove :
              /\ job' = [job EXCEPT !["command"] =
                            [NoJob EXCEPT !.step = "trash", !.rev = rev, !.rows = items,
                                          !.outcome = IF CanMove = {} THEN "finished" ELSE "skipped"]]
              /\ at' = [at EXCEPT !["command"] = IF items = {} THEN "pass" ELSE "begin"]
      BY <2>2 DEF AskTrash
    <3> DEFINE j == [NoJob EXCEPT !.step = "trash", !.rev = rev, !.rows = items,
                                  !.outcome = IF CanMove = {} THEN "finished" ELSE "skipped"]
    <3>2. items \subseteq Copies
      BY DEF CanMove
    <3>3. j \in Jobs
      <4>1. NoJob \in Jobs
        BY Values DEF NoJob, Jobs
      <4>2. rev \in 0..MaxRev /\ "trash" \in Steps
        BY <1>1, Values DEF Types, TypeOK, Steps
      <4>3. PICK o \in {"finished", "skipped"} : o = IF CanMove = {} THEN "finished" ELSE "skipped"
        OBVIOUS
      <4> QED BY <3>2, <4>1, <4>2, <4>3 DEF Jobs
    <3>4. j.step = "trash" /\ j.rows = items /\ j.outcome \in {"finished", "skipped"}
      BY DEF NoJob
    <3>5. job' = [job EXCEPT !["command"] = j]
      BY <3>1
    <3> HIDE DEF j
    <3> QED BY ZenonT(120), <3>1, <3>2, <3>3, <3>4, <3>5
  <2> QED BY <2>1, <2>2
<1>3. Types'
  BY <1>1, <1>2 DEF Types, TypeOK, Places, Procs, world, project, desired, record, files, journal,
                    copies, archival, bounds
<1>4. /\ at'["command"] \in {"pass", "begin"} /\ job'["command"] = j
      /\ at'["recovery"] = at["recovery"] /\ job'["recovery"] = job["recovery"]
      /\ claim' = claim /\ OpMoves /\ UNCHANGED <<journal, copies>>
  BY <1>1, <1>2 DEF Types, TypeOK, Procs, OpMoves, world, project
<1>5. AskFits' /\ CleanUpFits'
  BY <1>2, <1>4 DEF AskFits, CleanUpFits, CleanUpPlaces
<1>6. ReleaseFits'
  BY <1>4, ReleaseStays
<1>7. TrashFits("recovery")'
  BY <1>4, TrashStays DEF Procs
<1>8. TrashFits("command")'
  BY <1>4 DEF TrashFits, TrashPlaces, MovePlaces, PastPlaces
<1> QED BY <1>1, <1>3, <1>5, <1>6, <1>7, <1>8, LastingFits DEF AtRest, Running, Procs

\* An operation reserved: its id is new to every run and to the journal.
LEMMA Reserving ==
    ASSUME Inv, NEW kind, Reserve(kind), op = NoOp
    PROVE  /\ OpMoves /\ op'.id = ops + 1 /\ op'.kind = kind /\ ops' \in 1..MaxOps
           /\ ops' = ops + 1 /\ \A p \in Procs : job[p].op <= MaxOps
           /\ kind \in Kinds => op' \in [id : 0..MaxOps, kind : Kinds \cup {"none"}]
BY Values DEF Inv, AtRest, Types, TypeOK, Jobs, Reserve, OpMoves

\* Clean up begins.
LEMMA BeginHolds == ASSUME Inv, BeginCleanUp PROVE AtRest' /\ Running'
<1>1. /\ Types /\ OpFits /\ op = NoOp /\ Reserve("cleanUp") /\ at["command"] = "begin"
      /\ UNCHANGED <<claim, runner, lifecycle, steps, desired, record, files, journal, copies,
                     archival, bounds>>
      /\ job' = [job EXCEPT !["command"].op = ops + 1, !["command"].gen = manifest]
      /\ at' = [at EXCEPT !["command"] = "remove"]
  BY DEF BeginCleanUp, RequireStep, WrapUpOpens, Inv, AtRest
<1>2. /\ OpMoves /\ op'.id = ops + 1 /\ op'.kind = "cleanUp" /\ ops' \in 1..MaxOps
      /\ ops' = ops + 1 /\ op' \in [id : 0..MaxOps, kind : Kinds \cup {"none"}]
  BY <1>1, Reserving DEF Kinds, Steps
<1>3. /\ job' \in [Procs -> Jobs] /\ job'["command"].op = ops + 1
      /\ job'["command"].rows = job["command"].rows /\ job'["command"].place = job["command"].place
      /\ job'["recovery"] = job["recovery"]
  <2>1. ops + 1 \in 0..MaxOps /\ manifest \in 0..MaxGen
    BY <1>1, <1>2, Values DEF Types, TypeOK
  <2> QED BY ZenonT(120), <1>1, <2>1 DEF Types, Jobs, Procs
<1>4. at' \in [Procs -> Places] /\ at'["command"] = "remove" /\ at'["recovery"] = at["recovery"]
  BY <1>1 DEF Types, TypeOK, Places, Procs
<1>5. Types'
  BY <1>1, <1>2, <1>3, <1>4 DEF Types, TypeOK, desired, record, files, journal, copies, archival,
                                bounds
<1>6. OpFits' /\ LockedIsApplied' /\ FolderFits'
  BY <1>1, <1>2, Values DEF Inv, AtRest, OpFits, NoOp, LockedIsApplied, FolderFits, desired, record,
                            files,
                    journal, Types, TypeOK
<1>7. JournalFits'
  BY <1>1, <1>2, JournalStays DEF NoOp
<1>8. AskFits' /\ CleanUpFits'
  <2>1. job["command"].rows \subseteq Entries \cup Leftovers /\ job["command"].place \in Layouts
    BY DEF BeginCleanUp, Inv, Running, AskFits
  <2>2. Drive("command", "cleanUp")'
    BY <1>1, <1>2, <1>3, Values DEF Drive, Types, TypeOK
  <2> QED BY <1>3, <1>4, <2>1, <2>2 DEF AskFits, CleanUpFits, CleanUpPlaces
<1>9. ReleaseFits'
  BY <1>2, <1>3, <1>4, ReleaseStays
<1>10. TrashFits("recovery")'
  BY <1>1, <1>2, <1>3, <1>4, TrashStays DEF Procs
<1>11. TrashFits("command")'
  BY <1>4 DEF TrashFits, TrashPlaces, MovePlaces, PastPlaces
<1> QED BY <1>5, <1>6, <1>7, <1>8, <1>9, <1>10, <1>11 DEF AtRest, Running, Procs

-----------------------------------------------------------------------------
(* Trash: the runs of the journal, one of which may be recovery's. *)

\* The step begins: its journal is new to every run.
LEMMA BeginTrashHolds == ASSUME Inv, BeginTrash PROVE AtRest' /\ Running'
<1>1. /\ Types /\ OpFits /\ op = NoOp /\ Reserve("trash") /\ at["command"] = "begin"
      /\ UNCHANGED <<claim, runner, lifecycle, steps, desired, record, files, copies, archival,
                     bounds>>
      /\ run' = ops + 1 /\ storage' = "reviewed" /\ marked' = {}
      /\ status' = [c \in Copies |-> IF c \in job["command"].rows THEN "pending" ELSE "out"]
      /\ job' = [job EXCEPT !["command"] = [NoJob EXCEPT !.op = ops + 1]]
      /\ at' = [at EXCEPT !["command"] = "start"]
  BY DEF BeginTrash, RequireStep, WrapUpOpens, Inv, AtRest
<1>2. /\ OpMoves /\ op'.id = ops + 1 /\ op'.kind = "trash" /\ ops' \in 1..MaxOps
      /\ ops' = ops + 1 /\ op' \in [id : 0..MaxOps, kind : Kinds \cup {"none"}]
  BY <1>1, Reserving DEF Kinds, Steps
<1>3. /\ job' \in [Procs -> Jobs] /\ job'["command"].op = ops + 1
      /\ job'["recovery"] = job["recovery"]
  <2>1. ops + 1 \in 0..MaxOps
    BY <1>1, <1>2, Values DEF Types, TypeOK
  <2>2. NoJob \in Jobs
    BY Values DEF NoJob, Jobs
  <2>3. [NoJob EXCEPT !.op = ops + 1] \in Jobs /\ [NoJob EXCEPT !.op = ops + 1].op = ops + 1
    BY <2>1, <2>2 DEF Jobs
  <2> QED BY <1>1, <2>3 DEF Types, Procs
<1>4. at' \in [Procs -> Places] /\ at'["command"] = "start" /\ at'["recovery"] = at["recovery"]
  BY <1>1 DEF Types, TypeOK, Places, TrashPlaces, Procs
<1>5. Types'
  <2>1. status' \in [Copies -> Status]
    BY <1>1 DEF Status
  <2> QED BY <1>1, <1>2, <1>3, <1>4, <2>1 DEF Types, TypeOK, desired, record, files, copies,
                                            archival, bounds
<1>6. OpFits' /\ LockedIsApplied' /\ FolderFits'
  BY <1>1, <1>2, Values DEF Inv, AtRest, OpFits, NoOp, LockedIsApplied, FolderFits, desired, record,
                            files, Types, TypeOK
<1>7. JournalFits'
  BY <1>1, <1>2 DEF Inv, AtRest, JournalFits, copies
<1>8. AskFits' /\ CleanUpFits'
  BY <1>4 DEF AskFits, CleanUpFits, CleanUpPlaces
<1>9. ReleaseFits'
  BY <1>2, <1>3, <1>4, ReleaseStays
<1>10. TrashFits("recovery")'
  <2>1. TrashFits("recovery") /\ ops \in Nat /\ "recovery" \in Procs
    BY <1>1, Values DEF Inv, Running, Procs, Types, TypeOK
  <2> QED BY <1>1, <1>2, <1>3, <1>4, <2>1 DEF TrashFits, TrashPlaces, MovePlaces, PastPlaces, Drive
<1>11. TrashFits("command")'
  <2>1. Drive("command", "trash")'
    BY <1>1, <1>2, <1>3, Values DEF Drive, Types, TypeOK
  <2> QED BY <1>4, <2>1 DEF TrashFits, TrashPlaces, MovePlaces, PastPlaces
<1> QED BY <1>5, <1>6, <1>7, <1>8, <1>9, <1>10, <1>11 DEF AtRest, Running, Procs

\* A step of one run of the journal, its operation as it was.
TrashStep(p) ==
    \/ StartStorage(p) \/ CheckFrame(p) \/ RefuseCopy(p) \/ ClaimStorage(p) \/ NextItem(p)
    \/ MoveToTrash(p) \/ BlockMove(p) \/ SettleMove(p) \/ SettleStorage(p) \/ RecordTrashed(p)
    \/ MarkRecorded(p)

\* It leaves the other runs and the Project as they were.
LEMMA TrashStepKeeps ==
    ASSUME Inv, NEW p \in Procs, TrashStep(p)
    PROVE  /\ at[p] \in TrashPlaces /\ job[p].op = run
           /\ at' = [at EXCEPT ![p] = at'[p]] /\ at'[p] \in TrashPlaces
           /\ \A q \in Procs : q # p => at'[q] = at[q] /\ job'[q] = job[q]
           /\ UNCHANGED <<runner, run, project, desired, record, files, archival, bounds>>
<1> USE DEF TrashStep
<1>1. at \in [Procs -> Places] /\ job \in [Procs -> Jobs]
  BY DEF Inv, AtRest, Types, TypeOK
<1>2. CASE StartStorage(p) \/ CheckFrame(p) \/ RefuseCopy(p) \/ ClaimStorage(p)
  BY <1>1, <1>2 DEF StartStorage, CheckFrame, RefuseCopy, ClaimStorage, Drives, TrashPlaces, world,
                    journal
<1>3. CASE NextItem(p) \/ MoveToTrash(p) \/ BlockMove(p) \/ SettleMove(p) \/ SettleStorage(p)
  BY <1>1, <1>3 DEF NextItem, MoveToTrash, BlockMove, SettleMove, SettleStorage, SetStatus, Goto,
                    Drives, TrashPlaces, journal
<1>4. CASE RecordTrashed(p) \/ MarkRecorded(p)
  BY <1>1, <1>4 DEF RecordTrashed, MarkRecorded, Goto, Drives, TrashPlaces, journal
<1> QED BY <1>2, <1>3, <1>4

\* Its memory: frames to look at, and the copies of one.
LEMMA TrashStepJob ==
    ASSUME Inv, NEW p \in Procs, TrashStep(p)
    PROVE  /\ job' \in [Procs -> Jobs] /\ job'[p].op = job[p].op
           /\ at'[p] = "refusing" => job'[p].rows # {} /\ job'[p].rows \subseteq Copies
<1> USE DEF TrashStep
<1>1. at \in [Procs -> Places] /\ job \in [Procs -> Jobs] /\ job[p] \in Jobs
  BY DEF Inv, AtRest, Types, TypeOK
<1>2. CASE StartStorage(p)
  <2>1. {FrameOf[c] : c \in Items} \ {0} \subseteq Frames
    BY DEF Items, Frames
  <2> QED BY <1>1, <1>2, <2>1 DEF StartStorage, Jobs
<1>3. CASE CheckFrame(p)
  <2> DEFINE f == Least(job[p].frames)
             rows == IF RefusedFrame(f) THEN OfFrame(f) ELSE {}
  <2>1. rows \subseteq Copies
    BY DEF OfFrame, Items
  <2>2. /\ job' = [job EXCEPT ![p].frames = @ \ {f}, ![p].rows = rows]
        /\ at' = [at EXCEPT ![p] = IF job'[p].rows = {} THEN "refuse" ELSE "refusing"]
    BY <1>3 DEF CheckFrame
  <2> HIDE DEF f, rows
  <2> QED BY <1>1, <2>1, <2>2 DEF Jobs
<1>4. CASE RefuseCopy(p)
  <2>1. /\ job' = [job EXCEPT ![p] = Dropped(@)]
        /\ at' = [at EXCEPT ![p] = IF job'[p].rows = {} THEN "refuse" ELSE "refusing"]
        /\ at[p] = "refusing"
    BY <1>4 DEF RefuseCopy, Drives
  <2>2. job[p].rows \subseteq Copies
    BY <2>1 DEF Inv, Running, TrashFits
  <2>3. job'[p] = Dropped(job[p])
    BY <1>1, <2>1
  <2> QED BY <1>1, <2>1, <2>2, <2>3, DroppedIsJob
<1>5. CASE \/ ClaimStorage(p) \/ NextItem(p) \/ MoveToTrash(p) \/ BlockMove(p) \/ SettleMove(p)
           \/ SettleStorage(p) \/ RecordTrashed(p) \/ MarkRecorded(p)
  BY <1>1, <1>5 DEF ClaimStorage, NextItem, MoveToTrash, BlockMove, SettleMove, SettleStorage,
                    RecordTrashed, MarkRecorded, Goto
<1> QED BY <1>2, <1>3, <1>4, <1>5

\* What the journal, the copies and the catalog hold after it.
LEMMA TrashStepTypes == ASSUME Inv, NEW p \in Procs, TrashStep(p) PROVE Types'
<1> USE DEF TrashStep
<1>1. Types /\ job' \in [Procs -> Jobs]
  BY TrashStepJob DEF Inv, AtRest
<1>2. at' \in [Procs -> Places]
  BY <1>1, TrashStepKeeps DEF Types, TypeOK, Places
<1>3. claim' \in Procs \cup {"none"}
  BY <1>1 DEF Types, TypeOK, StartStorage, CheckFrame, RefuseCopy, ClaimStorage, NextItem,
              MoveToTrash,
              BlockMove, SettleMove, SettleStorage, RecordTrashed, MarkRecorded, Goto
<1>4. /\ storage' \in {"none", "reviewed", "running", "settled"}
      /\ status' \in [Copies -> Status] /\ marked' \subseteq Copies
  <2>1. CASE StartStorage(p)
    BY <1>1, <2>1 DEF Types, TypeOK, StartStorage
  <2>2. CASE RefuseCopy(p)
    BY <1>1, <2>2 DEF Types, TypeOK, RefuseCopy, Status
  <2>3. CASE NextItem(p) \/ BlockMove(p) \/ SettleMove(p)
    BY <1>1, <2>3 DEF Types, TypeOK, NextItem, BlockMove, SettleMove, SetStatus, Resumed, Status
  <2>4. CASE SettleStorage(p) \/ MarkRecorded(p)
    BY <1>1, <2>4 DEF Types, TypeOK, SettleStorage, MarkRecorded, Trashed, Items
  <2>5. CASE CheckFrame(p) \/ ClaimStorage(p) \/ MoveToTrash(p) \/ RecordTrashed(p)
    BY <1>1, <2>5 DEF Types, TypeOK, CheckFrame, ClaimStorage, MoveToTrash, RecordTrashed, world,
                      journal
  <2> QED BY <2>1, <2>2, <2>3, <2>4, <2>5
<1>5. /\ file' \in [Copies -> {"reviewed", "changed", "gone"}] /\ bin' \subseteq Copies
      /\ asset' \in [Copies -> {"live", "trashed", "retired"}]
  <2>1. CASE MoveToTrash(p)
    <3>1. Item \in Copies
      BY <2>1, ItemIsOne DEF MoveToTrash, Drives, Inv, Running, TrashFits
    <3> QED BY <1>1, <2>1, <3>1 DEF Types, TypeOK, MoveToTrash
  <2>2. CASE RecordTrashed(p)
    BY <1>1, <2>2 DEF Types, TypeOK, RecordTrashed
  <2>3. CASE ~MoveToTrash(p) /\ ~RecordTrashed(p)
    BY <1>1, <2>3 DEF Types, TypeOK, StartStorage, CheckFrame, RefuseCopy, ClaimStorage, NextItem,
                      BlockMove, SettleMove, SettleStorage, MarkRecorded, world, copies
  <2> QED BY <2>1, <2>2, <2>3
<1> QED BY <1>1, <1>2, <1>3, <1>4, <1>5, TrashStepKeeps DEF Types, TypeOK, project, desired, record,
                                                          files, archival, bounds

\* Its runs that neither settle an item nor record one.
QuietStep(p) ==
    StartStorage(p) \/ CheckFrame(p) \/ ClaimStorage(p) \/ SettleStorage(p) \/ MoveToTrash(p)

\* What such a step leaves of the journal.
LEMMA QuietKeeps ==
    ASSUME Inv, NEW p \in Procs, QuietStep(p)
    PROVE  /\ UNCHANGED <<status, marked, asset, run, op, ops>> /\ bin \subseteq bin'
           /\ Unsettled' = Unsettled /\ Item' = Item /\ AllRecorded' = AllRecorded
<1>1. UNCHANGED <<status, marked, asset, run, op, ops>> /\ bin \subseteq bin'
  BY DEF QuietStep, StartStorage, CheckFrame, ClaimStorage, SettleStorage, MoveToTrash, world,
         journal,
         copies, project
<1>2. Items' = Items
  BY <1>1 DEF Items
<1>3. Unsettled' = Unsettled /\ Trashed' = Trashed
  BY <1>1, <1>2 DEF Unsettled, Trashed
<1> QED BY <1>1, <1>3 DEF Item, AllRecorded

\* So the journal fits, and every run of it.
LEMMA QuietHolds ==
    ASSUME Inv, NEW p \in Procs, QuietStep(p)
    PROVE  JournalFits' /\ \A q \in Procs : TrashFits(q)'
<1>1. TrashStep(p)
  BY DEF QuietStep, TrashStep
<1>2. Types
  BY DEF Inv, AtRest
<1>3. JournalFits'
  BY QuietKeeps DEF Inv, AtRest, JournalFits
<1>4. ASSUME NEW q \in Procs, q # p PROVE TrashFits(q)'
  <2>1. claim = q /\ at[q] \in MovePlaces => claim' = q
    BY <1>2, <1>4 DEF QuietStep, StartStorage, CheckFrame, ClaimStorage, SettleStorage, MoveToTrash,
                      Goto,
                      Inv, Running, TrashFits, Drives, MovePlaces, Procs
  <2>2. TrashFits(q)
    BY DEF Inv, Running
  <2> QED BY <1>1, <1>4, <2>1, <2>2, QuietKeeps, TrashStepKeeps DEF TrashFits, Drive, MovePlaces
<1>5. TrashFits(p)'
  <2>1. Drive(p, "trash")'
    BY <1>1, QuietKeeps, TrashStepKeeps, TrashStepJob DEF Inv, Running, TrashFits, Drive
  <2>2. CASE StartStorage(p) \/ CheckFrame(p)
    <3>1. at'[p] \in {"refuse", "refusing"}
      BY <1>2, <2>2 DEF StartStorage, CheckFrame, Types, TypeOK
    <3> QED BY <1>1, <2>1, <3>1, TrashStepJob DEF TrashFits, MovePlaces, PastPlaces
  <2>3. CASE ClaimStorage(p)
    <3>1. at'[p] = "run" /\ claim' = p
      BY <1>2, <2>3 DEF ClaimStorage, Types, TypeOK
    <3> QED BY <2>1, <3>1 DEF TrashFits, MovePlaces, PastPlaces
  <2>4. CASE SettleStorage(p)
    <3>1. at'[p] = "recordTrashed" /\ Unsettled = {}
      BY <1>2, <2>4 DEF SettleStorage, Types, TypeOK
    <3> QED BY <2>1, <3>1, QuietKeeps DEF TrashFits, MovePlaces, PastPlaces
  <2>5. CASE MoveToTrash(p)
    <3>1. at[p] = "retire" /\ at'[p] = "observe" /\ claim' = claim /\ Item \in bin' /\ UNCHANGED job
      BY <1>2, <2>5 DEF MoveToTrash, Goto, Drives, Types, TypeOK
    <3>2. claim = p /\ Unsettled # {} /\ status[Item] = "retiring"
      BY <2>5, <3>1 DEF MoveToTrash, Drives, Inv, Running, TrashFits, MovePlaces
    <3> QED BY <2>1, <3>1, <3>2, QuietKeeps DEF TrashFits, MovePlaces, PastPlaces
  <2> QED BY <2>2, <2>3, <2>4, <2>5 DEF QuietStep
<1> QED BY <1>3, <1>4, <1>5

\* A copy refused, settled or blocked, or on its way: no other run is at an
\* item then, nor past the journal, and the Project is still reserved.
ItemStep(p) == NextItem(p) \/ BlockMove(p) \/ SettleMove(p)

\* While it moves, an item is open.
LEMMA OneIsOpen ==
    ASSUME Inv, NEW p \in Procs, ItemStep(p) \/ RefuseCopy(p)
    PROVE  /\ Unsettled # {} /\ (run = 0 \/ op.id = run)
           /\ \A q \in Procs : at[q] \in PastPlaces => job[q].op # run
           /\ ItemStep(p) => claim = p
<1>1. Unsettled # {}
  <2>1. CASE RefuseCopy(p)
    <3> DEFINE c == Least(job[p].rows)
    <3>1. job[p].rows # {} /\ job[p].rows \subseteq Copies
      BY <2>1 DEF RefuseCopy, Drives, Inv, Running, TrashFits
    <3>2. c \in Copies
      BY <3>1, LeastIn, Values
    <3>3. status[c] = "pending"
      BY <2>1 DEF RefuseCopy
    <3> HIDE DEF c
    <3> QED BY <3>2, <3>3 DEF Unsettled, Items, Settled
  <2>2. CASE ItemStep(p)
    BY <2>2 DEF ItemStep, NextItem, BlockMove, SettleMove, Drives, Inv, Running, TrashFits
  <2> QED BY <2>1, <2>2
<1>2. run = 0 \/ op.id = run
  BY <1>1 DEF Inv, AtRest, JournalFits
<1>3. \A q \in Procs : at[q] \in PastPlaces => job[q].op # run
  BY <1>1 DEF Inv, Running, TrashFits
<1>4. ItemStep(p) => claim = p
  BY DEF ItemStep, NextItem, BlockMove, SettleMove, Drives, Inv, Running, TrashFits, MovePlaces
<1> QED BY <1>1, <1>2, <1>3, <1>4

\* A copy of a frame refused: no item on its way is touched.
LEMMA RefuseHolds ==
    ASSUME Inv, NEW p \in Procs, RefuseCopy(p)
    PROVE  JournalFits' /\ \A q \in Procs : TrashFits(q)'
<1> DEFINE c == Least(job[p].rows)
<1>1. TrashStep(p) /\ Types
  BY DEF TrashStep, Inv, AtRest
<1>2. /\ status[c] = "pending" /\ status' = [status EXCEPT ![c] = "refused"]
      /\ at'[p] \in {"refuse", "refusing"}
      /\ UNCHANGED <<claim, run, marked, copies, project>>
  BY <1>1 DEF RefuseCopy, Types, TypeOK
<1> HIDE DEF c
<1>3. /\ \A d \in Copies : status'[d] = IF d = c THEN "refused" ELSE status[d]
      /\ Items' = Items /\ Unsettled' = Unsettled \ {c} /\ Trashed' = Trashed
  BY <1>1, <1>2 DEF Types, TypeOK, Items, Unsettled, Trashed, Settled
<1>4. AllRecorded' = AllRecorded
  BY <1>2, <1>3 DEF AllRecorded, copies
<1>5. JournalFits'
  BY <1>1, <1>2, <1>3, <1>4, OneIsOpen DEF Inv, AtRest, JournalFits, copies, project
<1>6. ASSUME NEW q \in Procs, q # p PROVE TrashFits(q)'
  <2>1. TrashFits(q) /\ at'[q] = at[q] /\ job'[q] = job[q]
    BY <1>1, <1>6, TrashStepKeeps DEF Inv, Running
  <2>2. ASSUME at[q] \in {"retire", "observe"}, job[q].op = run
        PROVE  Unsettled' # {} /\ status'[Item'] = "retiring" /\ Item' = Item
    <3>1. Unsettled # {} /\ status[Item] = "retiring"
      BY <2>1, <2>2 DEF TrashFits
    <3>2. Item \in Copies /\ Item \in Unsettled /\ Item # c
      BY <1>2, <3>1, ItemIsOne DEF Unsettled, Items
    <3>3. Unsettled \subseteq Nat /\ \A d \in Unsettled : Item <= d
      <4>1. Unsettled \subseteq Nat
        BY Values DEF Unsettled, Items
      <4> QED BY <3>1, <4>1, LeastIn DEF Item
    <3>4. Item' = Item
      <4>1. Item \in Unsettled' /\ Unsettled' \subseteq Nat /\ \A d \in Unsettled' : Item <= d
        BY <1>3, <3>2, <3>3
      <4>2. Least(Unsettled') = Item
        BY <4>1, LeastIs
      <4> QED BY <4>2 DEF Item
    <3> QED BY <1>3, <3>1, <3>2, <3>4
  <2> QED BY <1>2, <1>3, <1>4, <2>1, <2>2, OneIsOpen DEF TrashFits, Drive, copies, project
<1>7. TrashFits(p)'
  <2>1. Drive(p, "trash")'
    BY <1>1, <1>2, TrashStepKeeps, TrashStepJob DEF Inv, Running, TrashFits, Drive, project
  <2> QED BY <1>1, <1>2, <2>1, TrashStepJob DEF TrashFits, MovePlaces, PastPlaces
<1> QED BY <1>5, <1>6, <1>7

\* An item taken up, blocked or settled: its run alone moves items.
LEMMA ItemHolds ==
    ASSUME Inv, NEW p \in Procs, ItemStep(p)
    PROVE  JournalFits' /\ \A q \in Procs : TrashFits(q)'
<1>1. TrashStep(p) /\ Types
  BY DEF ItemStep, TrashStep, Inv, AtRest
<1>2. Item \in Copies /\ status[Item] # "out" /\ status[Item] \notin Settled
  BY OneIsOpen, ItemIsOne
<1>3. PICK s \in {"retiring", "uncertain", "blocked", "trashed"} :
          /\ status' = [status EXCEPT ![Item] = s] /\ UNCHANGED <<run, marked, copies, project>>
          /\ at'[p] = IF s = "retiring" THEN "retire" ELSE "run"
          /\ claim' = claim /\ (s = "trashed" => Item \in bin)
  <2>1. CASE NextItem(p)
    <3>1. PICK s \in {"retiring", "uncertain"} :
              s = IF status[Item] = "pending" THEN "retiring" ELSE Resumed
      BY DEF Resumed
    <3>2. /\ status' = [status EXCEPT ![Item] = s] /\ UNCHANGED <<run, marked, copies, project>>
          /\ at' = [at EXCEPT ![p] = IF status'[Item] = "retiring" THEN "retire" ELSE "run"]
          /\ claim' = claim
      BY <2>1, <3>1 DEF NextItem, SetStatus, Goto
    <3>3. status'[Item] = s
      BY <1>1, <1>2, <3>2 DEF Types, TypeOK
    <3> QED BY <1>1, <3>2, <3>3 DEF Types, TypeOK
  <2>2. CASE BlockMove(p)
    BY <1>1, <2>2 DEF BlockMove, SetStatus, Goto, Types, TypeOK
  <2>3. CASE SettleMove(p)
    <3>1. Item \in bin
      BY <2>3 DEF SettleMove, Drives, Inv, Running, TrashFits
    <3> QED BY <1>1, <2>3, <3>1 DEF SettleMove, SetStatus, Goto, Types, TypeOK
  <2> QED BY <2>1, <2>2, <2>3 DEF ItemStep
<1>4. \A d \in Copies : status'[d] = IF d = Item THEN s ELSE status[d]
  BY <1>1, <1>3 DEF Types, TypeOK
<1>5. JournalFits'
  BY <1>1, <1>3, <1>4, OneIsOpen DEF Inv, AtRest, JournalFits, copies, project
<1>6. ASSUME NEW q \in Procs, q # p PROVE TrashFits(q)'
  <2>1. TrashFits(q) /\ at'[q] = at[q] /\ job'[q] = job[q]
    BY <1>1, <1>6, TrashStepKeeps DEF Inv, Running
  <2>2. claim = p /\ at[q] \notin MovePlaces
    BY <1>6, <2>1, OneIsOpen DEF TrashFits
  <2> QED BY <1>3, <2>1, <2>2, OneIsOpen DEF TrashFits, MovePlaces, PastPlaces, Drive, project
<1>7. TrashFits(p)'
  <2>1. Drive(p, "trash")'
    BY <1>1, <1>3, TrashStepKeeps, TrashStepJob DEF Inv, Running, TrashFits, Drive, project
  <2>2. ASSUME s = "retiring" PROVE Unsettled' # {} /\ status'[Item'] = "retiring"
    <3>1. Items' = Items /\ Unsettled' = Unsettled
      BY <1>2, <1>4, <2>2 DEF Items, Unsettled, Settled
    <3>2. Item' = Item
      BY <3>1 DEF Item
    <3> QED BY <1>2, <1>4, <2>2, <3>1, <3>2, OneIsOpen
  <2>3. claim' = p
    BY <1>3, OneIsOpen
  <2> QED BY <1>3, <2>1, <2>2, <2>3 DEF TrashFits, MovePlaces, PastPlaces
<1> QED BY <1>5, <1>6, <1>7

\* The moved copies are recorded, all at once; then the journal notes it.
LEMMA RecordHolds ==
    ASSUME Inv, NEW p \in Procs, RecordTrashed(p) \/ MarkRecorded(p)
    PROVE  JournalFits' /\ \A q \in Procs : TrashFits(q)'
<1>1. TrashStep(p) /\ Types
  BY DEF TrashStep, Inv, AtRest
<1>2. /\ UNCHANGED <<status, run, claim, bin, project>>
      /\ job' = job
  BY DEF RecordTrashed, MarkRecorded, Goto, journal, copies
<1>3. Items' = Items
  BY <1>2 DEF Items
<1>4. Unsettled' = Unsettled /\ Trashed' = Trashed
  BY <1>2, <1>3 DEF Unsettled, Trashed
<1>5. Item' = Item
  BY <1>4 DEF Item
<1>6. /\ \A c \in Copies : asset[c] = "trashed" => asset'[c] = "trashed"
      /\ \A c \in Copies : asset'[c] = "trashed" => c \in bin
  <2>1. CASE RecordTrashed(p)
    BY <2>1 DEF RecordTrashed, Taken, Untaken, Trashed, Items, Inv, AtRest, JournalFits
  <2>2. CASE MarkRecorded(p)
    BY <2>2 DEF MarkRecorded, copies, Inv, AtRest, JournalFits
  <2> QED BY <2>1, <2>2
<1>7. AllRecorded => AllRecorded'
  BY <1>4, <1>6 DEF AllRecorded, Trashed, Items
<1>8. AllRecorded'
  <2>1. CASE RecordTrashed(p)
    <3> SUFFICES ASSUME NEW c \in Trashed, FrameOf[c] # 0 PROVE asset'[c] = "trashed"
      BY <1>4 DEF AllRecorded
    <3>1. c \in Copies
      BY DEF Trashed, Items
    <3>2. c \in marked => asset[c] = "trashed"
      BY DEF Inv, AtRest, JournalFits
    <3> QED BY <1>6, <2>1, <3>1, <3>2 DEF RecordTrashed, Taken, Untaken
  <2>2. CASE MarkRecorded(p)
    BY <1>7, <2>2 DEF MarkRecorded, Drives, Inv, Running, TrashFits
  <2> QED BY <2>1, <2>2
<1>9. JournalFits'
  <2>1. \A c \in marked' : FrameOf[c] # 0 => asset'[c] = "trashed"
    <3>1. CASE RecordTrashed(p)
      BY <1>1, <1>6, <3>1 DEF RecordTrashed, journal, Inv, AtRest, JournalFits, Types, TypeOK
    <3>2. CASE MarkRecorded(p)
      BY <1>4, <1>8, <3>2 DEF MarkRecorded, copies, Inv, AtRest, JournalFits, AllRecorded
    <3> QED BY <3>1, <3>2
  <2> QED BY <1>2, <1>4, <1>6, <1>8, <2>1 DEF Inv, AtRest, JournalFits, project
<1>10. ASSUME NEW q \in Procs PROVE TrashFits(q)'
  <2>1. TrashFits(q) /\ TrashFits(p)
    BY DEF Inv, Running
  <2>2. CASE q # p
    <3>1. at'[q] = at[q]
      BY <1>1, <2>2, TrashStepKeeps
    <3> QED BY <1>2, <1>4, <1>5, <1>8, <2>1, <3>1 DEF TrashFits, Drive, project
  <2>3. CASE q = p
    <3>1. /\ at[p] \in {"recordTrashed", "mark"} /\ job[p].op = run
          /\ at'[p] \in {"mark", "finishTrash"}
      BY <1>1 DEF RecordTrashed, MarkRecorded, Drives, Goto, Types, TypeOK
    <3> QED BY <1>2, <1>4, <1>8, <2>1, <2>3, <3>1 DEF TrashFits, TrashPlaces, MovePlaces, PastPlaces,
                                                  Drive, project
  <2> QED BY <2>2, <2>3
<1> QED BY <1>9, <1>10

\* A step of a run of the journal, whichever it is.
LEMMA TrashStepHolds == ASSUME Inv, NEW p \in Procs, TrashStep(p) PROVE AtRest' /\ Running'
<1>1. Types'
  BY TrashStepTypes
<1>2. OpFits' /\ LockedIsApplied' /\ FolderFits'
  BY TrashStepKeeps DEF Inv, AtRest, OpFits, NoOp, LockedIsApplied, FolderFits, project, desired,
                        record,
                        files
<1>3. JournalFits' /\ \A q \in Procs : TrashFits(q)'
  BY QuietHolds, RefuseHolds, ItemHolds, RecordHolds DEF TrashStep, QuietStep, ItemStep
<1>4. /\ at'[p] \in TrashPlaces /\ at[p] \in TrashPlaces
      /\ OpMoves /\ folder' = folder /\ deleted' = deleted
  BY TrashStepKeeps DEF OpMoves, project, files
<1>5. AskFits' /\ CleanUpFits'
  <2>1. CASE p = "command"
    BY <1>4, <2>1 DEF AskFits, CleanUpFits, CleanUpPlaces, TrashPlaces
  <2>2. CASE p # "command"
    <3>1. at'["command"] = at["command"] /\ job'["command"] = job["command"]
      BY <2>2, TrashStepKeeps DEF Procs
    <3> QED BY <1>4, <3>1, CleanUpStays DEF Inv, Running, AskFits
  <2> QED BY <2>1, <2>2
<1>6. ReleaseFits'
  <2>1. CASE p = "recovery"
    BY <1>4, <2>1 DEF ReleaseFits, TrashPlaces
  <2>2. CASE p # "recovery"
    BY <1>4, <2>2, ReleaseStays, TrashStepKeeps DEF Procs
  <2> QED BY <2>1, <2>2
<1> QED BY <1>1, <1>2, <1>3, <1>5, <1>6 DEF AtRest, Running

\* The end of the step: what its run says of the journal is what the Project,
\* let go of, is promised.
LEMMA FinishTrashHolds == ASSUME Inv, NEW p \in Procs, FinishTrash(p) PROVE AtRest' /\ Running'
<1> DEFINE where == IF p = "command" THEN "idle" ELSE "archivesLeft"
<1>1. /\ Types /\ OpFits /\ at[p] = "finishTrash" /\ job[p].op = run /\ op.id = run /\ run # 0
      /\ Return(p, where) /\ where \in Ends
      /\ op' = NoOp /\ steps' = [steps EXCEPT !["trash"] = "finished"]
      /\ UNCHANGED <<lifecycle, ops, desired, record, files, journal, copies, archival, bounds>>
  BY DEF FinishTrash, FinishStep, Drives, Active, Inv, AtRest, Ends
<1>2. /\ at' \in [Procs -> Places] /\ job' \in [Procs -> Jobs]
      /\ claim' \in Procs \cup {"none"} /\ runner' \in [Archives -> Procs \cup {"none"}]
      /\ Running'
  BY <1>1, ReturnRuns DEF files, OpMoves
<1>3. Types'
  <2>1. steps' \in [Steps -> {"none", "finished", "skipped"}]
    BY <1>1 DEF Types, TypeOK
  <2>2. op' \in [id : 0..MaxOps, kind : Kinds \cup {"none"}]
    BY <1>1, Values DEF NoOp
  <2> QED BY <1>1, <1>2, <2>1, <2>2 DEF Types, TypeOK, desired, record, files, journal, copies,
                                        archival, bounds
<1>4. OpFits' /\ LockedIsApplied' /\ FolderFits'
  BY <1>1, Values DEF Inv, AtRest, OpFits, NoOp, LockedIsApplied, FolderFits, desired, record,
                      files, journal, Types, TypeOK
<1>5. Unsettled = {} /\ AllRecorded
  BY <1>1 DEF Inv, Running, TrashFits, PastPlaces
<1>6. Items' = Items
  BY <1>1 DEF Items, journal
<1>7. Unsettled' = Unsettled /\ Trashed' = Trashed
  BY <1>1, <1>6 DEF Unsettled, Trashed, journal
<1>8. JournalFits'
  BY <1>1, <1>5, <1>7 DEF Inv, AtRest, JournalFits, AllRecorded, journal, copies
<1> QED BY <1>2, <1>3, <1>4, <1>8 DEF AtRest

-----------------------------------------------------------------------------
(* Archives, recovery, and what the Project does besides. *)

\* Close, an archive of sessions, and the runs of either.
LEMMA ArchiveHolds ==
    ASSUME Inv, NEW p \in Procs, Close \/ ArchiveSessions \/ ArchiveRuns(p)
    PROVE  AtRest' /\ Running'
<1>1. Types /\ OpFits
  BY DEF Inv, AtRest
<1>2. CASE RefuseSecondArchive(p) \/ EndArchives(p)
  <2>1. CASE RefuseSecondArchive(p)
    BY <2>1, Refusing DEF RefuseSecondArchive, Inv
  <2>2. CASE EndArchives(p)
    <3> DEFINE where == IF p = "command" THEN "idle" ELSE "done"
    <3>1. where \in Ends /\ Return(p, where) /\ UNCHANGED lasting /\ UNCHANGED bounds
      BY <2>2 DEF EndArchives, Ends, world, lasting
    <3>2. faults \in 0..MaxFaults
      BY <1>1 DEF Types, TypeOK
    <3> HIDE DEF where
    <3> QED BY <3>1, <3>2, Returning DEF Inv, bounds
  <2> QED BY <1>2, <2>1, <2>2
<1>3. CASE Close
  <2>1. /\ op = NoOp /\ lifecycle = "open" /\ (manifest # 0 => applied = rev)
        /\ at["command"] = "idle"
        /\ UNCHANGED <<moved, claim, runner, desired, record, files, journal, copies, bounds>>
    BY <1>3 DEF Close, RequireStep, WrapUpOpens, Pending
  <2>2. steps' \in [Steps -> {"none", "finished", "skipped"}]
        /\ archive' \in [Archives -> {"none", "unsettled", "settled"}]
        /\ lifecycle' \in {"closing", "closed"}
    BY <1>1, <1>3 DEF Close, SetArchive, Types, TypeOK
  <2>3. job' \in [Procs -> Jobs] /\ job'["recovery"] = job["recovery"]
    <3>1. {"own"} \subseteq Archives
      BY DEF Archives
    <3> QED BY <1>1, <1>3, <3>1 DEF Close, Types, Jobs, Procs
  <2>4. /\ at' \in [Procs -> Places] /\ at'["command"] \in Away /\ at'["recovery"] = at["recovery"]
    BY <1>1, <1>3, <2>1 DEF Close, Types, TypeOK, Places, Procs, Away, Ends
  <2>5. CASE Reserve("archive")
    <3>1. /\ OpMoves /\ op'.id = ops + 1 /\ op'.kind = "archive" /\ ops' \in 1..MaxOps
          /\ ops' = ops + 1 /\ op' \in [id : 0..MaxOps, kind : Kinds \cup {"none"}]
      BY <2>1, <2>5, Reserving DEF Kinds, Steps
    <3>2. Types'
      BY <1>1, <2>1, <2>2, <2>3, <2>4, <3>1 DEF Types, TypeOK, desired, record, files, journal,
                                                copies,
                                                bounds
    <3>3. OpFits' /\ LockedIsApplied' /\ FolderFits'
      BY <1>1, <2>1, <3>1, Values DEF Inv, AtRest, OpFits, NoOp, LockedIsApplied, FolderFits, desired,
                                      record, files, journal, Types, TypeOK
    <3>4. JournalFits'
      BY <2>1, <3>1, JournalStays DEF NoOp
    <3>5. Running'
      <4>1. \A q \in Procs \ {"command"} :
                at'[q] = at[q] /\ job'[q] = job[q] /\ (claim = q => claim' = q)
        BY <2>1, <2>3, <2>4 DEF Procs
      <4> QED BY <2>1, <2>4, <3>1, <4>1, AwayRuns DEF files, Procs
    <3> QED BY <3>2, <3>3, <3>4, <3>5 DEF AtRest
  <2>6. CASE UNCHANGED <<op, ops, archive, job, at>>
    <3>1. Types'
      BY <1>1, <2>1, <2>2, <2>6 DEF Types, TypeOK, desired, record, files, journal, copies, bounds
    <3>2. OpFits' /\ LockedIsApplied' /\ FolderFits'
      BY <1>1, <2>1, <2>6 DEF Inv, AtRest, OpFits, LockedIsApplied, FolderFits, desired,
                              record, files, journal
    <3>3. JournalFits'
      BY <2>1, <2>6, JournalStays DEF NoOp, OpMoves
    <3>4. Running'
      BY <2>1, <2>4, <2>6, AwayRuns DEF files, Procs, OpMoves
    <3> QED BY <3>1, <3>2, <3>3, <3>4 DEF AtRest
  <2> QED BY <1>3, <2>5, <2>6 DEF Close
<1>4. CASE ArchiveSessions \/ RunArchive(p) \/ MoveRecord(p)
  <2> DEFINE q == IF ArchiveSessions THEN "command" ELSE p
  <2>1. /\ UNCHANGED <<claim, project, desired, record, files, journal, copies, bounds>>
        /\ q \in Procs
    BY <1>4 DEF ArchiveSessions, RunArchive, MoveRecord, process, world, Procs
  <2>2. job' \in [Procs -> Jobs] /\ \A r \in Procs \ {q} : job'[r] = job[r]
    <3>1. CASE ArchiveSessions
      <4>1. {"other"} \in SUBSET Archives /\ job["command"] \in Jobs
        BY <1>1 DEF Archives, Types, Procs
      <4>2. [job["command"] EXCEPT !.archives = {"other"}] \in Jobs
        BY <4>1, ListedIsJob
      <4> QED BY <1>1, <3>1, <4>2 DEF ArchiveSessions, Types
    <3>2. CASE RunArchive(p) \/ MoveRecord(p)
      BY <1>1, <3>2 DEF RunArchive, MoveRecord, process, Types
    <3> QED BY <1>4, <3>1, <3>2
  <2>3. /\ at' \in [Procs -> Places] /\ at'[q] \in Away
        /\ \A r \in Procs \ {q} : at'[r] = at[r]
    BY <1>1, <1>4, <2>1 DEF ArchiveSessions, RunArchive, MoveRecord, process, Types, TypeOK, Places,
                            Away
  <2>4. /\ runner' \in [Archives -> Procs \cup {"none"}]
        /\ archive' \in [Archives -> {"none", "unsettled", "settled"}] /\ moved' \in BOOLEAN
    <3>1. moved' \in BOOLEAN
      BY <1>1, <1>4 DEF ArchiveSessions, RunArchive, MoveRecord, archival, world, Types, TypeOK
    <3> QED BY <1>1, <1>4, <3>1 DEF ArchiveSessions, RunArchive, MoveRecord, SetArchive, process,
                                    archival,
                                    world, Types, TypeOK
  <2>5. Types'
    BY <1>1, <2>1, <2>2, <2>3, <2>4 DEF Types, TypeOK, project, desired, record, files, journal,
                                        copies,
                                        bounds
  <2>6. OpFits' /\ LockedIsApplied' /\ FolderFits'
    BY <1>1, <2>1 DEF Inv, AtRest, OpFits, NoOp, LockedIsApplied, FolderFits, project, desired,
                      record,
                      files, journal
  <2>7. JournalFits'
    BY <2>1, JournalStays DEF OpMoves, project
  <2> HIDE DEF q
  <2>8. Running'
    BY <2>1, <2>2, <2>3, AwayRuns DEF OpMoves, project, files
  <2> QED BY <2>5, <2>6, <2>7, <2>8 DEF AtRest
<1>5. CASE SettleArchive(p)
  <2>1. PICK a \in Archives :
            /\ archive' = [archive EXCEPT ![a] = "settled"]
            /\ IF a = "own" /\ lifecycle = "closing"
               THEN lifecycle' = SettledLifecycle /\ op' = NoOp
               ELSE UNCHANGED <<lifecycle, op>>
            /\ job' = [job EXCEPT ![p].archives = @ \ {a}]
            /\ runner' = [runner EXCEPT ![a] = "none"]
    BY <1>5 DEF SettleArchive, SetArchive
  <2>2. /\ at[p] = "move" /\ at' = [at EXCEPT ![p] = "archives"]
        /\ UNCHANGED <<claim, moved, steps, ops, desired, record, files, journal, copies, bounds>>
    BY <1>5 DEF SettleArchive
  <2>3. lifecycle = "closing" => op.kind = "archive"
    BY DEF Inv, Promised!Promise, Promised!ClosingRunsArchive
  <2>4. OpMoves /\ (op' = op \/ (op.kind # "trash" /\ op' = NoOp))
    BY <2>1, <2>2, <2>3 DEF OpMoves
  <2>5. Types'
    <3>1. op' \in [id : 0..MaxOps, kind : Kinds \cup {"none"}]
      BY <1>1, <2>4, Values DEF NoOp, Types, TypeOK
    <3>2. lifecycle' \in {"open", "closing", "closed", "archived"}
      BY <1>1, <2>1 DEF SettledLifecycle, Types, TypeOK
    <3>3. job' \in [Procs -> Jobs]
      <4>1. job[p] \in Jobs /\ job[p].archives \ {a} \in SUBSET Archives
        BY <1>1 DEF Types, Jobs
      <4>2. [job[p] EXCEPT !.archives = @ \ {a}] \in Jobs
        BY <4>1, ListedIsJob
      <4> QED BY <1>1, <2>1, <4>2 DEF Types
    <3> QED BY <1>1, <2>1, <2>2, <3>1, <3>2, <3>3 DEF Types, TypeOK, Places, desired, record, files,
                                                      journal, copies, bounds
  <2>6. OpFits' /\ LockedIsApplied' /\ FolderFits'
    BY <1>1, <2>1, <2>2, <2>4, Values DEF Inv, AtRest, OpFits, NoOp, LockedIsApplied,
                                          SettledLifecycle,
                      FolderFits, desired, record, files, journal, Types, TypeOK
  <2>7. JournalFits'
    BY <2>2, <2>4, JournalStays
  <2>8. Running'
    <3>1. /\ at'[p] \in Away
          /\ \A q \in Procs \ {p} : at'[q] = at[q] /\ job'[q] = job[q] /\ (claim = q => claim' = q)
      BY <1>1, <2>1, <2>2 DEF Types, TypeOK, Away
    <3> QED BY <2>2, <2>4, <3>1, AwayRuns DEF files
  <2> QED BY <2>5, <2>6, <2>7, <2>8 DEF AtRest
<1> QED BY <1>2, <1>3, <1>4, <1>5 DEF ArchiveRuns

\* Recovery, between the steps it resumes.
LEMMA RecoverHolds == ASSUME Inv, Recover \/ Start PROVE AtRest' /\ Running'
<1>1. Types /\ OpFits /\ "recovery" \in Procs
  BY DEF Inv, AtRest, Procs
<1>2. CASE RefuseRelease
  BY <1>1, <1>2, Refusing DEF RefuseRelease, Inv
<1>3. CASE ReleaseCleanUp
  <2>1. op.kind = "cleanUp"
    BY <1>3 DEF ReleaseCleanUp, Active, Inv, Running, ReleaseFits, Drive
  <2>2. /\ op' = NoOp /\ Return("recovery", "trashes") /\ "trashes" \in Ends
        /\ UNCHANGED <<lifecycle, steps, ops, desired, record, files, journal, copies, archival,
                       bounds>>
    BY <1>3 DEF ReleaseCleanUp, Ends
  <2>3. OpMoves
    BY <2>2 DEF OpMoves
  <2>4. /\ at' \in [Procs -> Places] /\ job' \in [Procs -> Jobs]
        /\ claim' \in Procs \cup {"none"} /\ runner' \in [Archives -> Procs \cup {"none"}]
        /\ Running'
    BY <1>1, <2>2, <2>3, ReturnRuns DEF files
  <2>5. Types'
    BY <1>1, <2>2, <2>4, Values DEF NoOp, Types, TypeOK, desired, record, files, journal, copies,
                                    archival,
                                    bounds
  <2>6. OpFits' /\ LockedIsApplied' /\ FolderFits'
    BY <1>1, <2>2, Values DEF Inv, AtRest, OpFits, NoOp, LockedIsApplied, FolderFits, desired, record,
                              files, journal, Types, TypeOK
  <2>7. JournalFits'
    BY <2>1, <2>2, <2>3, JournalStays
  <2> QED BY <2>4, <2>5, <2>6, <2>7 DEF AtRest
<1>4. CASE ListCleanUps \/ ListTrashes \/ ListArchives
  <2>1. UNCHANGED <<claim, runner, world>>
    BY <1>4 DEF ListCleanUps, ListTrashes, ListArchives
  <2>2. /\ job' \in [Procs -> Jobs] /\ job'["command"] = job["command"]
    <3>1. UnsettledArchives \subseteq Archives /\ op.id \in 0..MaxOps
      BY <1>1 DEF UnsettledArchives, Types, TypeOK
    <3> QED BY <1>1, <1>4, <3>1 DEF ListCleanUps, ListTrashes, ListArchives, Types, Jobs, Procs
  <2>3. at' \in [Procs -> Places] /\ at'["command"] = at["command"]
    BY <1>1, <1>4 DEF ListCleanUps, ListTrashes, ListArchives, Types, TypeOK, Places, TrashPlaces,
                      Resting,
                      Procs
  <2>4. Types'
    BY <1>1, <2>1, <2>2, <2>3 DEF Types, TypeOK, world, project, desired, record, files, journal,
                                  copies,
                                  archival, bounds
  <2>5. OpMoves /\ UNCHANGED lasting /\ UNCHANGED <<journal, copies, folder, deleted>>
    BY <2>1 DEF OpMoves, world, project, lasting, files
  <2>6. CASE at'["recovery"] \in Away
    <3>1. \A q \in Procs \ {"recovery"} :
              at'[q] = at[q] /\ job'[q] = job[q] /\ (claim = q => claim' = q)
      BY <2>1, <2>2, <2>3 DEF Procs
    <3>2. Running'
      BY <1>1, <2>5, <2>6, <3>1, AwayRuns
    <3> QED BY <2>4, <2>5, <3>2, LastingFits DEF AtRest
  <2>7. CASE at'["recovery"] \notin Away
    <3>1. /\ \/ at'["recovery"] = "release" /\ op.kind = "cleanUp"
             \/ at'["recovery"] = "start" /\ op.kind = "trash"
          /\ job'["recovery"].op = op.id
      <4>1. job["recovery"] \in Jobs /\ at \in [Procs -> Places]
        BY <1>1 DEF Types, TypeOK
      <4>2. CASE ListCleanUps
        <5>1. op.kind = "cleanUp"
          BY <1>1, <2>7, <4>1, <4>2 DEF ListCleanUps, Away, Ends
        <5> QED BY <1>1, <4>1, <4>2, <5>1 DEF ListCleanUps, Types, Jobs
      <4>3. CASE ListTrashes
        <5>1. op.kind = "trash"
          BY <1>1, <2>7, <4>1, <4>3 DEF ListTrashes, Away, Ends
        <5> QED BY <1>1, <4>1, <4>3, <5>1 DEF ListTrashes, Types, Jobs
      <4>4. CASE ListArchives
        BY <1>1, <2>7, <4>1, <4>4 DEF ListArchives, Away
      <4> QED BY <1>4, <4>2, <4>3, <4>4
    <3>2. op.id \in 1..ops /\ UNCHANGED <<op, ops>>
      BY <1>1, <2>1, <3>1, Values DEF OpFits, Types, TypeOK, world, project
    <3>3. AskFits' /\ CleanUpFits' /\ TrashFits("command")'
      <4>1. "command" \in Procs /\ claim' = claim
        BY <2>1 DEF Procs
      <4> QED BY <2>2, <2>3, <2>5, <4>1, CleanUpStays, TrashStays DEF Inv, Running, AskFits
    <3>4. ReleaseFits'
      BY <3>1, <3>2 DEF ReleaseFits, Drive
    <3>5. TrashFits("recovery")'
      BY <3>1, <3>2 DEF TrashFits, TrashPlaces, MovePlaces, PastPlaces, Drive
    <3> QED BY <2>4, <2>5, <3>3, <3>4, <3>5, LastingFits DEF AtRest, Running, Procs
  <2> QED BY <2>6, <2>7
<1>5. CASE Start
  <2>1. /\ at' = [q \in Procs |-> IF q = "command" THEN "idle" ELSE "cleanUps"]
        /\ UNCHANGED <<job, claim, runner, world>> /\ UNCHANGED lasting
    BY <1>5 DEF Start, world, lasting
  <2>2. Types'
    BY <1>1, <2>1 DEF Types, TypeOK, Places, Resting, world, project, desired, record, files, journal,
                      copies, archival, bounds
  <2>3. at'["command"] = "idle" /\ at'["recovery"] = "cleanUps"
    BY <2>1 DEF Procs
  <2>4. Running'
    BY <2>3 DEF Running, AskFits, CleanUpFits, CleanUpPlaces, ReleaseFits, TrashFits, TrashPlaces,
                MovePlaces, PastPlaces, Procs
  <2> QED BY <2>1, <2>2, <2>4, LastingFits DEF AtRest
<1> QED BY <1>2, <1>3, <1>4, <1>5 DEF Recover

\* The Project besides: a step reopened, its desired state edited, an Apply or
\* a copy to Output reserved and ended, and a new View.
LEMMA ProjectHolds ==
    ASSUME Inv, \/ \E step \in Steps : Reopen(step)
                \/ EditDesired
                \/ \E kind \in {"apply", "copyToOutput"} : BeginOther(kind)
                \/ EndOther
    PROVE  AtRest' /\ Running'
<1>1. /\ Types /\ OpFits
      /\ UNCHANGED <<lifecycle, applied, process, record, files, journal, copies, archival, bounds>>
  BY DEF Inv, AtRest, Reopen, EditDesired, BeginOther, EndOther, project, desired
<1>2. /\ steps' \in [Steps -> {"none", "finished", "skipped"}]
      /\ rev' \in 1..MaxRev
      /\ lifecycle # "open" => rev' = rev
  <2>1. CASE EditDesired
    BY <1>1, <2>1, Values DEF EditDesired, project, Types, TypeOK
  <2>2. CASE ~EditDesired
    BY <1>1, <2>2 DEF Reopen, BeginOther, EndOther, desired, Types, TypeOK
  <2> QED BY <2>1, <2>2
<1>3. /\ OpMoves /\ (op' = op \/ op.kind # "trash")
      /\ op' \in [id : 0..MaxOps, kind : Kinds \cup {"none"}] /\ ops' \in 0..MaxOps
      /\ OpFits'
  <2>1. CASE (\E step \in Steps : Reopen(step)) \/ EditDesired
    BY <1>1, <2>1 DEF Reopen, EditDesired, project, OpMoves, Types, TypeOK, OpFits, NoOp, journal,
                      record
  <2>2. CASE EndOther
    BY <1>1, <2>2, Values DEF EndOther, OpMoves, Types, TypeOK, OpFits, NoOp, journal, record
  <2>3. ASSUME NEW kind \in {"apply", "copyToOutput"}, BeginOther(kind)
        PROVE  /\ OpMoves /\ op.kind # "trash"
               /\ op' \in [id : 0..MaxOps, kind : Kinds \cup {"none"}] /\ ops' \in 0..MaxOps
               /\ OpFits'
    <3>1. Reserve(kind) /\ op = NoOp /\ (kind = "apply" => gen < MaxGen)
      BY <2>3 DEF BeginOther
    <3>2. /\ OpMoves /\ op'.id = ops + 1 /\ op'.kind = kind /\ ops' \in 1..MaxOps
          /\ ops' = ops + 1 /\ op' \in [id : 0..MaxOps, kind : Kinds \cup {"none"}]
      BY <3>1, Reserving DEF Kinds
    <3> QED BY <1>1, <2>3, <3>1, <3>2, Values DEF OpFits, NoOp, Types, TypeOK, journal, record
  <2> QED BY <2>1, <2>2, <2>3
<1>4. Types'
  BY <1>1, <1>2, <1>3 DEF Types, TypeOK, process, record, files, journal, copies, archival, bounds
<1>5. LockedIsApplied' /\ FolderFits'
  BY <1>1, <1>2 DEF Inv, AtRest, LockedIsApplied, FolderFits, record, files
<1>6. JournalFits'
  BY <1>1, <1>3, JournalStays
<1>7. Running'
  <2>1. AskFits' /\ ReleaseFits' /\ CleanUpFits'
    BY <1>1, <1>3, ReleaseStays, CleanUpStays DEF Inv, Running, AskFits, process, files
  <2>2. \A q \in Procs : TrashFits(q)'
    BY <1>1, <1>3, TrashStays DEF process
  <2> QED BY <2>1, <2>2 DEF Running
<1> QED BY <1>3, <1>4, <1>5, <1>6, <1>7 DEF AtRest

\* An Apply installs a new View, and ends.
LEMMA InstallHolds == ASSUME Inv, InstallView PROVE AtRest' /\ Running'
<1>1. /\ Types /\ OpFits /\ op.kind = "apply" /\ op' = NoOp
      /\ gen' = gen + 1 /\ manifest' = gen + 1 /\ applied' = rev /\ place' \in Layouts
      /\ UNCHANGED <<deleted, removals, rev, lifecycle, steps, ops, process, journal, copies, archival,
                     bounds>>
  BY DEF Inv, AtRest, InstallView
<1>2. gen + 1 \in 1..MaxGen /\ gen \in Nat
  BY <1>1, Values DEF OpFits, Types, TypeOK
<1>3. view' \in [Entries -> ((1..MaxGen) \X Entries) \cup {Nothing, Foreign}]
  <2>1. view' = [n \in Entries |-> <<gen + 1, CHOOSE s \in Entries : place'[s] = n>>]
    BY DEF InstallView
  <2> QED BY <1>1, <1>2, <2>1, ViewMade
<1>4. folder' = TRUE /\ extra' = FALSE /\ left' \subseteq Leftovers /\ listed' = left'
  BY DEF InstallView
<1>5. previous' \in BOOLEAN
  <2>1. previous' = (left' # {})
    BY DEF InstallView
  <2> QED BY <2>1
<1>6. OpMoves
  BY <1>1 DEF OpMoves
<1>7. Types'
  <2>1. op' \in [id : 0..MaxOps, kind : Kinds \cup {"none"}]
    BY <1>1, Values DEF NoOp
  <2>2. manifest' \in 0..MaxGen /\ gen' \in 1..MaxGen /\ applied' \in 1..MaxRev /\ rev' \in 1..MaxRev
    BY <1>1, <1>2, Values DEF Types, TypeOK
  <2>3. folder' \in BOOLEAN /\ extra' \in BOOLEAN
    BY <1>4
  <2>4. /\ place' \in Layouts /\ listed' \subseteq Leftovers /\ left' \subseteq Leftovers
        /\ removals' \subseteq (1..MaxGen) \X Entries /\ deleted' \subseteq (1..MaxGen) \X Entries
    BY <1>1, <1>4 DEF Types, TypeOK
  <2> QED BY <1>1, <1>3, <1>5, <2>1, <2>2, <2>3, <2>4 DEF Types, TypeOK, process, journal, copies,
                                                           archival, bounds
<1>8. OpFits' /\ LockedIsApplied' /\ FolderFits'
  BY <1>1, <1>2, <1>4, Values DEF Inv, AtRest, OpFits, NoOp, LockedIsApplied, FolderFits, journal,
                                  Types, TypeOK
<1>9. JournalFits'
  BY <1>1, <1>6, JournalStays
<1>10. AskFits' /\ ReleaseFits' /\ CleanUpFits'
  <2>1. CleanUpFits'
    <3>1. Row' = Row /\ CleanUpFits /\ UNCHANGED <<at, job>>
      BY <1>1 DEF Row, Inv, Running, process
    <3> QED BY <1>1, <3>1 DEF CleanUpFits, CleanUpPlaces, Drive, NoOp
  <2> QED BY <1>1, <1>6, <2>1, ReleaseStays DEF Inv, Running, AskFits, process
<1>11. \A q \in Procs : TrashFits(q)'
  BY <1>1, <1>6, TrashStays DEF process
<1> QED BY <1>7, <1>8, <1>9, <1>10, <1>11 DEF AtRest, Running

\* What the outside does to the View and to the copies.
LEMMA OutsideHolds == ASSUME Inv, Outside PROVE AtRest' /\ Running'
<1>1. /\ Types /\ UNCHANGED <<faults, project, desired, record, journal, archival, process>>
      /\ \/ (\E n \in Entries : ChangeEntry(n)) \/ AddFile
         \/ (\E c \in Copies : ChangeCopy(c)) \/ (\E c \in Copies : RetireLocation(c))
  BY DEF Outside, Inv, AtRest
<1>2. changes' \in 0..MaxChanges
  BY Values DEF Outside, Inv, AtRest, Types, TypeOK
<1>3. /\ UNCHANGED <<left, deleted, folder, bin>>
      /\ view' \in [Entries -> ((1..MaxGen) \X Entries) \cup {Nothing, Foreign}]
      /\ ~folder => UNCHANGED <<view, extra>>
  <2>1. ASSUME NEW n \in Entries, ChangeEntry(n)
        PROVE  /\ view' \in [Entries -> ((1..MaxGen) \X Entries) \cup {Nothing, Foreign}]
               /\ folder
    BY <1>1, <2>1 DEF ChangeEntry, Types, TypeOK, Inv, AtRest, FolderFits
  <2>2. ASSUME NEW n \in Entries, ChangeEntry(n) PROVE UNCHANGED <<left, deleted, folder, bin>>
    BY <2>2 DEF ChangeEntry, copies
  <2>3. CASE AddFile \/ (\E c \in Copies : ChangeCopy(c)) \/ (\E c \in Copies : RetireLocation(c))
    BY <1>1, <2>3 DEF AddFile, ChangeCopy, RetireLocation, files, copies, Types, TypeOK
  <2> QED BY <1>1, <2>1, <2>2, <2>3
<1>4. extra' \in BOOLEAN
  BY <1>1 DEF ChangeEntry, AddFile, ChangeCopy, RetireLocation, files, Types, TypeOK
<1>5. /\ file' \in [Copies -> {"reviewed", "changed", "gone"}]
      /\ asset' \in [Copies -> {"live", "trashed", "retired"}]
      /\ \A c \in Copies : asset'[c] = "trashed" <=> asset[c] = "trashed"
  BY <1>1 DEF ChangeEntry, AddFile, ChangeCopy, RetireLocation, copies, Types, TypeOK
<1>6. Types'
  BY <1>1, <1>2, <1>3, <1>4, <1>5 DEF Types, TypeOK, project, desired, record, journal, archival,
                                      process
<1>7. OpFits' /\ LockedIsApplied' /\ FolderFits'
  BY <1>1, <1>3 DEF Inv, AtRest, OpFits, NoOp, LockedIsApplied, FolderFits, project, desired,
                    record, journal
<1>8. Items' = Items
  BY <1>1 DEF Items, journal
<1>9. Unsettled' = Unsettled /\ Trashed' = Trashed
  BY <1>1, <1>8 DEF Unsettled, Trashed, journal
<1>10. Item' = Item /\ (AllRecorded => AllRecorded')
  <2>1. Item' = Item
    BY <1>9 DEF Item
  <2>2. Trashed \subseteq Copies
    BY DEF Trashed, Items
  <2> QED BY <1>5, <1>9, <2>1, <2>2 DEF AllRecorded
<1>11. JournalFits'
  BY <1>1, <1>3, <1>5, <1>9, <1>10 DEF Inv, AtRest, JournalFits, journal, project, Types, TypeOK
<1>12. AskFits' /\ ReleaseFits' /\ CleanUpFits'
  <2>1. OpMoves /\ UNCHANGED <<at, job>>
    BY <1>1 DEF OpMoves, project, process
  <2> QED BY <1>3, <2>1, ReleaseStays, CleanUpStays DEF Inv, Running, AskFits
<1>13. \A q \in Procs : TrashFits(q)'
  BY <1>1, <1>3, <1>9, <1>10 DEF Inv, Running, TrashFits, Drive, journal, project, process
<1> QED BY <1>6, <1>7, <1>11, <1>12, <1>13 DEF AtRest, Running

\* Every step, of the command, of recovery and of the outside.
LEMMA NextHolds == Inv /\ [Next]_vars => Inv'
<1> SUFFICES ASSUME Inv, [Next]_vars PROVE Inv'
  OBVIOUS
<1>1. Promised!Promise'
  BY PromiseKept
<1> SUFFICES AtRest' /\ Running'
  BY <1>1 DEF Inv
<1>2. ASSUME CleanUpRuns PROVE AtRest' /\ Running'
  <2>1. CASE RefuseStep \/ RefuseRemoval \/ RefuseFinish
    <3>1. \E where : Refused("command", where)
      BY <2>1 DEF RefuseStep, RefuseRemoval, RefuseFinish
    <3> QED BY <3>1, Refusing DEF Procs, Inv
  <2> QED BY <1>2, <2>1, StepRecorded, BeginHolds, CleanUpStepHolds DEF CleanUpRuns, CleanUpStep
<1>3. ASSUME NEW p \in Procs, TrashRuns(p) PROVE AtRest' /\ Running'
  <2>1. CASE RefuseStale(p) \/ RefuseSecondRun(p) \/ RefuseTrashed(p) \/ RefuseFinishTrash(p)
    <3>1. \E where : Refused(p, where)
      BY <2>1 DEF RefuseStale, RefuseSecondRun, RefuseTrashed, RefuseFinishTrash
    <3> QED BY <3>1, Refusing DEF Inv
  <2> QED BY <1>3, <2>1, TrashStepHolds, FinishTrashHolds DEF TrashRuns, TrashStep
<1>4. ASSUME NEW p \in Procs, Runs(p) PROVE AtRest' /\ Running'
  BY <1>2, <1>3, <1>4, BeginTrashHolds, RecoverHolds, ArchiveHolds DEF Runs
<1>5. CASE Asks
  <2>1. CASE AskCleanUp \/ AskTrash
    BY <2>1, AskHolds
  <2>2. CASE Close \/ ArchiveSessions
    <3>1. "command" \in Procs
      BY DEF Procs
    <3> QED BY <2>2, <3>1, ArchiveHolds
  <2>3. CASE ~(AskCleanUp \/ AskTrash \/ Close \/ ArchiveSessions)
    BY <1>5, <2>3, ProjectHolds DEF Asks
  <2> QED BY <2>1, <2>2, <2>3
<1>6. CASE EndOther \/ InstallView
  <2>1. CASE EndOther
    BY <2>1, ProjectHolds
  <2>2. CASE InstallView
    BY <2>2, InstallHolds
  <2> QED BY <1>6, <2>1, <2>2
<1>7. ASSUME NEW p \in Procs, Fail(p) \/ Crash \/ Quit PROVE AtRest' /\ Running'
  BY <1>7, FaultHolds DEF Inv
<1>8. CASE UNCHANGED vars
  <2>1. UNCHANGED lasting /\ UNCHANGED <<at, job, claim, runner, faults, changes>>
    BY <1>8 DEF vars, lasting, project, desired, record, files, journal, copies, archival
  <2>2. Types'
    BY <2>1 DEF Inv, AtRest, Types, TypeOK, lasting, project, desired, record, files, journal, copies,
                archival
  <2>3. OpMoves /\ UNCHANGED <<journal, copies, folder, deleted>>
    BY <2>1 DEF OpMoves, lasting, project, files
  <2>4. Running'
    BY <2>1, <2>3, ReleaseStays, CleanUpStays, TrashStays DEF Inv, Running, AskFits
  <2>5. OpFits' /\ LockedIsApplied' /\ FolderFits' /\ JournalFits'
    BY <2>1, LastingFits
  <2> QED BY <2>2, <2>4, <2>5 DEF AtRest
<1>9. CASE Outside
  BY <1>9, OutsideHolds
<1>10. CASE Start
  BY <1>10, RecoverHolds
<1>11. CASE Crash \/ Quit
  <2>1. "command" \in Procs
    BY DEF Procs
  <2> QED BY <1>7, <1>11, <2>1
<1> QED BY <1>4, <1>5, <1>6, <1>7, <1>8, <1>9, <1>10, <1>11 DEF Next

\* The invariant holds throughout.
LEMMA Inductive == Spec => []Inv
BY InitHolds, NextHolds, PTL DEF Spec

-----------------------------------------------------------------------------
(* Theorems. *)

\* The variables keep their types, and what a run remembers too.
THEOREM TypeCorrect == Spec => []TypeOK
<1>1. Inv => TypeOK
  BY DEF Inv, AtRest, Types
<1> QED BY <1>1, Inductive, PTL

\* A Project is locked with the View its desired state describes, whatever
\* edits, Applies and steps came before (`pending_changes`, `wrap_up_opens`).
THEOREM LockedWhole == Spec => []LockedIsApplied
<1>1. Inv => LockedIsApplied
  BY DEF Inv, AtRest
<1> QED BY <1>1, Inductive, PTL

\* What Clean up recorded removed it took from View/, and a View the catalog
\* has forgotten is gone with all it held (`record_view_entry_removal`,
\* `finish_clean_up`).
THEOREM RemovedAsRecorded == Spec => []RecordedIsRemoved
<1>1. Inv => RecordedIsRemoved
  BY DEF Inv, AtRest, FolderFits, RecordedIsRemoved
<1> QED BY <1>1, Inductive, PTL

\* A copy the catalog calls Trashed is in the OS Trash, and a Trash step lets
\* go of the Project with every file it moved recorded, though the command and
\* recovery may both have run it (`record_trashed`, `drive_trash`).
THEOREM TrashedAsRecorded == Spec => []RecordedIsTrashed
<1>1. Inv => RecordedIsTrashed
  <2> SUFFICES ASSUME Inv PROVE RecordedIsTrashed
    OBVIOUS
  <2>1. JournalFits
    BY DEF Inv, AtRest
  <2>2. Unsettled = {} => \A c \in Items : status[c] \in Settled
    BY DEF Unsettled
  <2>3. AllRecorded => \A c \in Items : status[c] = "trashed" /\ FrameOf[c] # 0 => asset[c] = "trashed"
    BY DEF AllRecorded, Trashed
  <2> QED BY <2>1, <2>2, <2>3 DEF JournalFits, RecordedIsTrashed
<1> QED BY <1>1, Inductive, PTL

\* Wrap up keeps what ProjectLifecycle says of a Project: each of its steps,
\* errors and stops, and each of recovery's, is one step of that specification
\* or none.
THEOREM KeepsLifecycle == Spec => ImplementsLifecycle
<1>1. Init => Promised!Init
  BY DEF Init, NoOp, Steps, Promised!Init, Promised!Steps
<1>2. Inv /\ [Next]_vars => [Promised!Next]_(Promised!vars)
  BY EveryMove
<1> QED BY <1>1, <1>2, Inductive, PTL DEF Spec, ImplementsLifecycle, Promised!Spec
=============================================================================
