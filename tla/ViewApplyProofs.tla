-------------------------- MODULE ViewApplyProofs --------------------------
(***************************************************************************)
(* Theorems of ViewApply, for every number of Applies, paths, callers and  *)
(* faults and in every world.                                              *)
(***************************************************************************)
EXTENDS ViewApply, TLAPS

\* A run works on the Project's one reservation, whose journal is unsettled.
\* TypeOK is not inductive without it: the phase an Apply settles from is the
\* phase its own journal stands at.
Owned == Running => active \in Gens /\ journal[active].phase \in Reserved..RetiringPrevious

\* A run that ends without installing knows whether it failed or was canceled.
Ending == pc = "ending" => run.stop \in {"failed", "canceled"}

RunInv == RunOK /\ Ending

TypeInv == TypeOK /\ Owned /\ Ending

-----------------------------------------------------------------------------
(* The values the variables start from and return to. *)

\* The phases, as the numbers they are.
LEMMA Phases ==
    /\ Unwritten = -1 /\ Reserved = 0 /\ SourcesVerified = 1 /\ Building = 2
    /\ BuildVerified = 3 /\ WaitingForRelease = 4 /\ OldMoved = 5 /\ NewInstalled = 6
    /\ ManifestCommitted = 7 /\ ForeignTransferred = 8 /\ RetiringPrevious = 9 /\ Settled = 10
BY DEF Unwritten, Reserved, SourcesVerified, Building, BuildVerified, WaitingForRelease,
       OldMoved, NewInstalled, ManifestCommitted, ForeignTransferred, RetiringPrevious, Settled

\* Every count starts within its bound.
LEMMA Zeros == 0 \in 0..MaxGen /\ 0 \in 0..MaxRev /\ 0 \in 0..MaxFaults
BY BoundsAssumption

\* The empty records are of their types.
LEMMA EmptyRecords ==
    NoFolder \in Folder /\ NoRun \in Run /\ NoJournal \in Journal
    /\ NoSheet \in Sheet /\ NoReview \in Review
<1>1. NoFolder \in Folder
  BY DEF NoFolder, Folder, Identities
<1>2. NoRun \in Run
  BY BoundsAssumption DEF NoRun, Run, Stops, Files
<1>3. NoJournal \in Journal
  BY BoundsAssumption, Phases DEF NoJournal, Journal, Outcomes, Identities
<1>4. NoSheet \in Sheet
  BY BoundsAssumption DEF NoSheet, Sheet, Identities
<1>5. NoReview \in Review
  BY DEF NoReview, Review, Files, Reviews
<1> QED BY <1>1, <1>2, <1>3, <1>4, <1>5

LEMMA InitType == Init => TypeInv
<1> SUFFICES ASSUME Init PROVE TypeInv
  OBVIOUS
<1>1. DiskOK
  BY EmptyRecords DEF Init, DiskOK
<1>2. RecordsOK
  <2>1. [review |-> "none", in |-> Absent] \in [review : Reviews, in : Identities]
    BY DEF Reviews, Identities
  <2>2. "none" \in ManifestStates /\ "none" \in ForeignStates
    BY DEF ManifestStates, ForeignStates
  <2> QED BY <2>1, <2>2 DEF Init, RecordsOK
<1>3. StatusOK
  BY Zeros, EmptyRecords DEF Init, StatusOK
<1>4. OthersOK
  BY Zeros, EmptyRecords DEF Init, OthersOK
<1>5. RunInv
  BY EmptyRecords DEF Init, RunInv, RunOK, Ending
<1>6. Owned
  BY DEF Init, Owned, Running, RunPlaces
<1> QED BY <1>1, <1>2, <1>3, <1>4, <1>5, <1>6 DEF TypeInv, TypeOK, RunInv

-----------------------------------------------------------------------------
(* What the helpers of the actions keep. *)

\* A group of variables a step leaves alone keeps its types.
LEMMA Unchanged ==
    /\ DiskOK /\ UNCHANGED disk => DiskOK'
    /\ RecordsOK /\ UNCHANGED records => RecordsOK'
    /\ StatusOK /\ UNCHANGED status => StatusOK'
    /\ OthersOK /\ UNCHANGED others => OthersOK'
    /\ Owned /\ UNCHANGED <<active, journal, pc>> => Owned'
BY DEF DiskOK, disk, RecordsOK, records, StatusOK, status, OthersOK, others, Owned, Running

\* The files of one folder are replaced.
LEMMA FilesReplaced ==
    ASSUME DiskOK, NEW p \in Places, NEW files \in SUBSET Files
    PROVE  [dir EXCEPT ![p].files = files] \in [Places -> Folder]
BY DEF DiskOK, Folder

\* A file moves from View (previous)/ into View/.
LEMMA MovedBack ==
    ASSUME DiskOK, NEW f \in Files,
           \/ dir' = [dir EXCEPT !["previous"].files = @ \ {f}, !["view"].files = @ \cup {f}]
           \/ UNCHANGED dir
    PROVE  dir' \in [Places -> Folder]
BY DEF DiskOK, Folder, Places

\* One folder is replaced.
LEMMA FolderReplaced ==
    ASSUME DiskOK, NEW p \in Places, NEW folder \in Folder
    PROVE  [dir EXCEPT ![p] = folder] \in [Places -> Folder]
BY DEF DiskOK

\* A folder is a folder, and so is what `remove_empty_folders` leaves of one.
LEMMA FoldersKept ==
    ASSUME DiskOK, NEW p \in Places
    PROVE  /\ dir[p] \in Folder
           /\ dir[p].id \in Identities
           /\ dir[p].files \in SUBSET Files
           /\ Emptied(dir[p]) \in Folder
BY EmptyRecords DEF DiskOK, Folder, Emptied

\* The same with some of its files gone.
LEMMA EmptiedFiles ==
    ASSUME DiskOK, NEW p \in Places, NEW files \in SUBSET Files
    PROVE  Emptied([dir[p] EXCEPT !.files = files]) \in Folder
<1>1. [dir[p] EXCEPT !.files = files] \in Folder
  BY DEF DiskOK, Folder
<1> QED BY <1>1, EmptyRecords DEF Emptied

\* A rename keeps every folder a folder.
LEMMA RenamedType ==
    ASSUME DiskOK, NEW p \in Places, NEW q \in Places
    PROVE  Renamed(p, q) \in [Places -> Folder]
BY EmptyRecords DEF DiskOK, Renamed

\* Files of leftovers that moved keep rows of the same kind.
LEMMA KeptMovedType ==
    ASSUME RecordsOK, NEW gone
    PROVE  KeptMoved(gone) \in [Files -> [review : Reviews, in : Identities]]
BY DEF RecordsOK, KeptMoved, Reviews

LEMMA PreviousRetiredType ==
    ASSUME RecordsOK
    PROVE  PreviousRetired \in [Gens -> ManifestStates]
BY DEF RecordsOK, PreviousRetired, ManifestStates

\* A run's steps that leave the journal alone still own it.
LEMMA StillOwned ==
    ASSUME TypeInv, Running, UNCHANGED status
    PROVE  StatusOK' /\ Owned'
BY DEF TypeInv, TypeOK, StatusOK, status, Owned

\* A phase that advances to an unsettled one is still owned.
LEMMA AdvanceOwned ==
    ASSUME TypeInv, Running, NEW phase \in Reserved..RetiringPrevious,
           Advance(phase), UNCHANGED active
    PROVE  StatusOK' /\ Owned'
<1>1. active \in Gens
  BY DEF TypeInv, Owned
<1>2. phase \in Unwritten..Settled
  BY Phases
<1>3. journal' = [journal EXCEPT ![active].phase = phase] /\ wait' = FALSE /\ active' = active
  BY DEF Advance
<1>4. journal' \in [Gens -> Journal]
  BY <1>1, <1>2, <1>3 DEF TypeInv, TypeOK, StatusOK, Journal
<1>5. journal'[active].phase = phase
  BY <1>1, <1>3 DEF TypeInv, TypeOK, StatusOK, Journal
<1> QED BY <1>1, <1>3, <1>4, <1>5 DEF TypeInv, TypeOK, StatusOK, Owned

\* A settled journal is released.
LEMMA SettledReleased ==
    ASSUME TypeInv, Running, NEW outcome \in Outcomes, SettledAs(outcome), pc' \notin RunPlaces
    PROVE  StatusOK' /\ Owned'
<1>1. active \in Gens /\ journal[active].phase \in Unwritten..RetiringPrevious
  BY Phases DEF TypeInv, Owned
<1>2. Settled \in Unwritten..Settled
  BY Phases
<1>3. journal' = [journal EXCEPT ![active].from = journal[active].phase,
                                 ![active].phase = Settled,
                                 ![active].outcome = outcome]
  BY DEF SettledAs
<1>4. journal' \in [Gens -> Journal]
  <2> DEFINE settled == [journal[active] EXCEPT !.from = journal[active].phase,
                                                !.phase = Settled, !.outcome = outcome]
  <2>1. journal[active] \in Journal
    BY <1>1 DEF TypeInv, TypeOK, StatusOK
  <2>2. settled \in Journal
    BY <1>1, <1>2, <2>1 DEF Journal
  <2>3. journal' = [journal EXCEPT ![active] = settled]
    BY <1>1, <1>3 DEF TypeInv, TypeOK, StatusOK, Journal
  <2> QED BY <2>2, <2>3 DEF TypeInv, TypeOK, StatusOK
<1>5. active' \in 0..MaxGen /\ wait' \in BOOLEAN
  BY Zeros DEF SettledAs
<1> QED BY <1>4, <1>5 DEF StatusOK, Owned, Running

\* A fault is counted within its bound.
LEMMA FaultCounted ==
    ASSUME OthersOK, Fault \/ UNCHANGED faults
    PROVE  faults' \in 0..MaxFaults
BY BoundsAssumption DEF OthersOK, Fault

\* A run goes to another place, ends, or breaks off.
LEMMA Moves ==
    ASSUME RunInv, UNCHANGED mode
    PROVE  /\ \A place \in RunPlaces \ {"ending"} : Goto(place) => RunInv'
           /\ End("failed") \/ End("canceled") => RunInv'
<1>1. ASSUME NEW place \in RunPlaces \ {"ending"}, Goto(place) PROVE RunInv'
  BY <1>1 DEF RunInv, RunOK, Ending, Goto
<1>2. ASSUME NEW stop \in {"failed", "canceled"}, End(stop) PROVE RunInv'
  <2>1. run' = [run EXCEPT !.stop = stop] /\ pc' = "ending"
    BY <1>2 DEF End
  <2>2. run' \in Run /\ run'.stop = stop
    BY <2>1 DEF RunInv, RunOK, Run, Stops
  <2> QED BY <2>1, <2>2 DEF RunInv, RunOK, Ending, RunPlaces
<1> QED BY <1>1, <1>2

LEMMA BrokenOff ==
    ASSUME BreakOff
    PROVE  RunInv' /\ Owned'
BY EmptyRecords DEF BreakOff, RunInv, RunOK, Ending, Owned, Running, RunPlaces

-----------------------------------------------------------------------------
(* The steps, one by one. *)

\* What every step of the run starts from.
LEMMA AtWork ==
    ASSUME TypeInv, Running
    PROVE  /\ DiskOK /\ RecordsOK /\ StatusOK /\ OthersOK /\ RunInv
           /\ active \in Gens
           /\ run.todo \in SUBSET Files /\ run.missing \in SUBSET Files /\ run.at \in Files
           /\ run.stop \in Stops
BY DEF TypeInv, TypeOK, Owned, RunInv, RunOK, Ending, Run

\* The names this module uses for what a step keeps.
LEMMA Together ==
    (DiskOK /\ RecordsOK /\ StatusOK /\ OthersOK /\ RunInv /\ Owned)' <=> TypeInv'
BY DEF TypeInv, TypeOK, RunInv

LEMMA BuildKeepsType == TypeInv /\ BuildStep => TypeInv'
<1> SUFFICES ASSUME TypeInv, BuildStep PROVE TypeInv'
  OBVIOUS
<1>0. Running
  BY DEF BuildStep, Reread, VerifySources, MakeBuilding, RecordBuilding, Place, VerifyBuild,
         Running, RunPlaces
<1> USE AtWork, <1>0, Unchanged, Moves, StillOwned, Together
<1>1. CASE Reread
  BY <1>1 DEF Reread, RunPlaces, Stops
<1>2. CASE VerifySources
  <2>1. CASE Advance(SourcesVerified) /\ UNCHANGED active
    BY <1>2, <2>1, AdvanceOwned, Phases DEF VerifySources, RunPlaces, Stops
  <2>2. CASE UNCHANGED status
    BY <1>2, <2>2 DEF VerifySources, RunPlaces, Stops
  <2> QED BY <1>2, <2>1, <2>2 DEF VerifySources, status
<1>3. CASE MakeBuilding
  <2> DEFINE stays(unproven) == dir["building"].files \ ({Entry} \ unproven)
  <2>1. PICK unproven \in SUBSET {Entry} :
           IF stays(unproven) = {}
             THEN /\ dir' = [dir EXCEPT !["building"] = [id |-> active, files |-> {}]]
                  /\ run' = [run EXCEPT !.made = TRUE]
                  /\ pc' = "made"
             ELSE /\ dir' = [dir EXCEPT !["building"].files = stays(unproven)]
                  /\ End("failed")
    BY <1>3 DEF MakeBuilding
  <2>2. stays(unproven) \in SUBSET Files /\ "building" \in Places
    BY FoldersKept DEF Places
  <2>3. [id |-> active, files |-> {}] \in Folder
    BY DEF Folder, Identities
  <2>4. dir' \in [Places -> Folder]
    <3>1. [dir EXCEPT !["building"] = [id |-> active, files |-> {}]] \in [Places -> Folder]
      BY <2>2, <2>3, FolderReplaced
    <3>2. [dir EXCEPT !["building"].files = stays(unproven)] \in [Places -> Folder]
      BY <2>2, FilesReplaced
    <3> HIDE DEF stays
    <3> QED BY <2>1, <3>1, <3>2
  <2>5. RunInv'
    BY ZenonT(120), <1>3, <2>1 DEF MakeBuilding, RunInv, RunOK, Ending, Run, RunPlaces, End, Stops
  <2> QED BY <1>3, <2>4, <2>5 DEF MakeBuilding, DiskOK
<1>4. CASE RecordBuilding
  <2>1. dir["building"].id \in Identities /\ Building \in Reserved..RetiringPrevious
        /\ Building \in Unwritten..Settled
    BY FoldersKept, Phases DEF Places
  <2>2. journal' = [journal EXCEPT ![active].phase = Building,
                                   ![active].building = dir["building"].id]
    BY <1>4 DEF RecordBuilding
  <2>3. journal' \in [Gens -> Journal] /\ journal'[active].phase = Building
    BY <2>1, <2>2 DEF StatusOK, Journal
  <2> QED BY <1>4, <2>1, <2>3 DEF RecordBuilding, StatusOK, Owned, RunPlaces
<1>5. CASE Place
  <2>1. PICK made \in SUBSET {Entry} :
           dir' = [dir EXCEPT !["building"].files = dir["building"].files \cup made]
    BY <1>5 DEF Place
  <2>2. dir["building"].files \cup made \in SUBSET Files /\ "building" \in Places
    BY FoldersKept DEF Places, Files
  <2>3. dir' \in [Places -> Folder]
    BY <2>1, <2>2, FilesReplaced
  <2> QED BY <1>5, <2>3 DEF Place, DiskOK, RunPlaces, Stops
<1>6. CASE VerifyBuild
  <2>1. CASE Advance(BuildVerified) /\ Goto("verified")
    <3> DEFINE listed == IF InState("installed") = {} THEN {} ELSE dir["view"].files \ {Entry}
    <3>1. /\ foreign' = [f \in Files |-> IF f \in listed THEN "pending" ELSE "none"]
          /\ ticked' \in SUBSET listed
      BY <1>6, <2>1 DEF VerifyBuild, Advance, Goto, End, Stops
    <3>2. listed \in SUBSET Files
      BY FoldersKept DEF Places
    <3>3. foreign' \in [Files -> ForeignStates] /\ ticked' \subseteq Files
      BY <3>1, <3>2 DEF ForeignStates
    <3>4. RecordsOK'
      BY <1>6, <3>3 DEF VerifyBuild, RecordsOK
    <3>5. BuildVerified \in Reserved..RetiringPrevious
      BY Phases
    <3> QED BY <1>6, <2>1, <3>4, <3>5, AdvanceOwned DEF VerifyBuild, RunPlaces
  <2>2. CASE End("failed") /\ UNCHANGED <<foreign, ticked, journal, wait>>
    BY <1>6, <2>2 DEF VerifyBuild, records, status, Stops
  <2> QED BY <1>6, <2>1, <2>2 DEF VerifyBuild
<1> QED BY <1>1, <1>2, <1>3, <1>4, <1>5, <1>6 DEF BuildStep

LEMMA SwapKeepsType == TypeInv /\ SwapStep => TypeInv'
<1> SUFFICES ASSUME TypeInv, SwapStep PROVE TypeInv'
  OBVIOUS
<1>0. Running
  BY DEF SwapStep, EnterSwap, ClaimKept, SkipKept, MoveKept, RecordKept, RecordMissing,
         ClearPrevious, RetirePrevious, CheckSwap, MoveAside, AsideFails, StartWait, CancelWait,
         RecordAside, AfterWait, Install, InstallFails, Restore, RestoreFails, RecordInstalled,
         Running, RunPlaces
<1> USE AtWork, <1>0, Unchanged, Moves, StillOwned, Together
<1>1. CASE EnterSwap
  <2>1. CASE End("failed") \/ End("canceled")
    BY <1>1, <2>1 DEF EnterSwap, Stops
  <2>2. CASE pc' = "keeping" /\ run' = [run EXCEPT !.todo = dir["previous"].files]
    <3>1. dir["previous"].files \in SUBSET Files
      BY FoldersKept DEF Places
    <3>2. RunInv'
      BY <1>1, <2>2, <3>1 DEF EnterSwap, RunInv, RunOK, Ending, Run, RunPlaces
    <3> QED BY <1>1, <3>2 DEF EnterSwap
  <2> QED BY <1>1, <2>1, <2>2 DEF EnterSwap
<1>2. ASSUME NEW f \in Files, ClaimKept(f) PROVE TypeInv'
  <2>1. kclaim' \in [Files -> Nat]
    BY <1>2 DEF ClaimKept, RecordsOK, DiskOK
  <2>2. RunInv'
    BY <1>2 DEF ClaimKept, RunInv, RunOK, Ending, Run, RunPlaces
  <2> QED BY <1>2, <2>1, <2>2 DEF ClaimKept, RecordsOK
<1>3. ASSUME NEW f \in Files, SkipKept(f) PROVE TypeInv'
  <2>1. PICK missing \in BOOLEAN :
           /\ run' = [run EXCEPT !.todo = @ \ {f}, !.keptFailed = @ \/ ~missing]
           /\ leftover' = IF missing THEN KeptMoved({f}) ELSE leftover
    BY <1>3 DEF SkipKept
  <2>2. RecordsOK'
    BY <1>3, <2>1, KeptMovedType DEF SkipKept, RecordsOK
  <2>3. (run.keptFailed \/ ~missing) \in BOOLEAN
    OBVIOUS
  <2>4. RunInv'
    BY <1>3, <2>1, <2>3 DEF SkipKept, RunInv, RunOK, Ending, Run
  <2> QED BY <1>3, <2>2, <2>4 DEF SkipKept
<1>4. CASE MoveKept
  <2>1. \/ /\ dir' = [dir EXCEPT !["previous"].files = dir["previous"].files \ {run.at}]
           /\ kept' = [kept EXCEPT ![run.at] = kept[run.at] + 1]
        \/ UNCHANGED <<dir, kept>>
    BY <1>4 DEF MoveKept
  <2>2. dir["previous"].files \ {run.at} \in SUBSET Files /\ "previous" \in Places
    BY FoldersKept DEF Places
  <2>3. DiskOK'
    <3>1. kept' \in [Files -> Nat]
      BY <2>1 DEF DiskOK
    <3>2. [dir EXCEPT !["previous"].files = dir["previous"].files \ {run.at}]
             \in [Places -> Folder]
      BY <2>2, FilesReplaced
    <3>3. dir' \in [Places -> Folder]
      BY <2>1, <3>2 DEF DiskOK
    <3> QED BY <1>4, <3>1, <3>3 DEF MoveKept, DiskOK
  <2>4. \/ \E proven \in BOOLEAN :
               run' = [run EXCEPT !.left = TRUE, !.keptFailed = @ \/ ~proven]
        \/ run' = [run EXCEPT !.left = FALSE, !.keptFailed = TRUE]
        \/ run' = [run EXCEPT !.left = TRUE]
    BY <1>4, Zenon DEF MoveKept
  <2>5. run' \in Run
    BY ZenonT(60), <2>4 DEF RunInv, RunOK, Ending, Run
  <2>6. RunInv'
    BY <1>4, <2>5 DEF MoveKept, RunInv, RunOK, Ending, RunPlaces
  <2> QED BY <1>4, <2>3, <2>6 DEF MoveKept
<1>5. CASE RecordKept
  <2>1. RecordsOK'
    BY <1>5, KeptMovedType DEF RecordKept, RecordsOK
  <2>2. RunInv'
    BY <1>5 DEF RecordKept, RunInv, RunOK, Ending, Run, RunPlaces
  <2> QED BY <1>5, <2>1, <2>2 DEF RecordKept
<1>6. CASE RecordMissing
  <2>1. RecordsOK'
    BY <1>6, KeptMovedType DEF RecordMissing, RecordsOK
  <2> QED BY <1>6, <2>1 DEF RecordMissing, RunPlaces
<1>7. CASE ClearPrevious
  <2>1. DiskOK'
    BY <1>7, FoldersKept, FolderReplaced DEF ClearPrevious, DiskOK, Places
  <2>2. RunInv'
    BY <1>7 DEF ClearPrevious, RunPlaces, Stops
  <2> QED BY <1>7, <2>1, <2>2 DEF ClearPrevious
<1>8. CASE RetirePrevious
  <2>1. RecordsOK'
    BY <1>8, PreviousRetiredType DEF RetirePrevious, RecordsOK
  <2> QED BY <1>8, <2>1 DEF RetirePrevious, RunPlaces
<1>9. CASE CheckSwap
  <2>1. RunInv'
    BY <1>9 DEF CheckSwap, RunPlaces, Stops
  <2> QED BY <1>9, <2>1 DEF CheckSwap
<1>10. CASE MoveAside
  <2>1. DiskOK'
    BY <1>10, RenamedType DEF MoveAside, DiskOK, Places
  <2> QED BY <1>10, <2>1 DEF MoveAside, RunPlaces
<1>11. CASE AsideFails
  BY <1>11 DEF AsideFails, Stops
<1>12. CASE StartWait
  <2>1. RunInv'
    BY <1>12 DEF StartWait, RunInv, RunOK, Ending, Run, RunPlaces
  <2>2. StatusOK' /\ Owned'
    BY <1>12 DEF StartWait, StatusOK, TypeInv, Owned
  <2> QED BY <1>12, <2>1, <2>2 DEF StartWait
<1>13. CASE CancelWait
  BY <1>13 DEF CancelWait, Stops
<1>14. CASE RecordAside
  <2>1. RunInv'
    BY <1>14 DEF RecordAside, RunPlaces
  <2>2. StatusOK' /\ Owned'
    BY <1>14, AdvanceOwned, Phases DEF RecordAside
  <2> QED BY <1>14, <2>1, <2>2 DEF RecordAside
<1>15. CASE AfterWait
  <2>1. RunInv'
    BY <1>15 DEF AfterWait, RunPlaces
  <2>2. StatusOK' /\ Owned'
    BY <1>15, AdvanceOwned, Phases DEF AfterWait, status
  <2> QED BY <1>15, <2>1, <2>2 DEF AfterWait
<1>16. CASE Install
  <2>1. DiskOK'
    BY <1>16, RenamedType DEF Install, DiskOK, Places
  <2> QED BY <1>16, <2>1 DEF Install, RunPlaces
<1>17. CASE InstallFails
  <2>1. RunInv'
    BY <1>17 DEF InstallFails, RunPlaces, Stops
  <2> QED BY <1>17, <2>1 DEF InstallFails
<1>18. CASE Restore
  <2>1. DiskOK'
    BY <1>18, RenamedType DEF Restore, DiskOK, Places
  <2> QED BY <1>18, <2>1 DEF Restore, Stops
<1>19. CASE RestoreFails
  <2>1. OthersOK'
    BY <1>19, FaultCounted DEF RestoreFails, OthersOK
  <2> QED BY <1>19, <2>1, BrokenOff DEF RestoreFails
<1>20. CASE RecordInstalled
  <2>1. StatusOK' /\ Owned'
    BY <1>20, AdvanceOwned, Phases DEF RecordInstalled
  <2> QED BY <1>20, <2>1 DEF RecordInstalled, RunPlaces
<1> QED BY SMTT(30), <1>1, <1>2, <1>3, <1>4, <1>5, <1>6, <1>7, <1>8, <1>9, <1>10, <1>11, <1>12, <1>13,
           <1>14, <1>15, <1>16, <1>17, <1>18, <1>19, <1>20 DEF SwapStep

LEMMA FinishKeepsType == TypeInv /\ FinishStep => TypeInv'
<1> SUFFICES ASSUME TypeInv, FinishStep PROVE TypeInv'
  OBVIOUS
<1>0. Running
  BY DEF FinishStep, Commit, CommitRefused, ReadInstalled, LeaveForeign, ClaimForeign,
         MoveForeign, RecordForeign, EndForeign, SettleFirst, StartRetiring, Retire, Settle,
         SettleRefused, Running, RunPlaces
<1> USE AtWork, <1>0, Unchanged, Moves, StillOwned, Together
<1>1. CASE Commit
  <2>1. Committed \in [Gens -> ManifestStates]
    BY DEF Committed, RecordsOK, ManifestStates
  <2>2. RecordsOK'
    BY <1>1, <2>1 DEF Commit, RecordsOK
  <2>3. StatusOK' /\ Owned'
    BY <1>1, AdvanceOwned, Phases DEF Commit
  <2> QED BY <1>1, <2>2, <2>3 DEF Commit, RunPlaces
<1>2. CASE CommitRefused
  BY <1>2, BrokenOff DEF CommitRefused
<1>3. CASE ReadInstalled
  <2>1. run' \in Run
    BY <1>3 DEF ReadInstalled, RunInv, RunOK, Ending, Run
  <2>2. RunInv'
    BY <1>3, <2>1 DEF ReadInstalled, RunInv, RunOK, Ending, RunPlaces
  <2> QED BY <1>3, <2>2 DEF ReadInstalled
<1>4. ASSUME NEW f \in Files, LeaveForeign(f) PROVE TypeInv'
  <2>1. RecordsOK'
    BY <1>4 DEF LeaveForeign, RecordsOK, ForeignStates
  <2>2. RunInv'
    BY <1>4 DEF LeaveForeign, RunInv, RunOK, Ending
  <2> QED BY <1>4, <2>1, <2>2 DEF LeaveForeign
<1>5. ASSUME NEW f \in Files, ClaimForeign(f) PROVE TypeInv'
  <2>1. RecordsOK'
    BY <1>5 DEF ClaimForeign, RecordsOK
  <2>2. run' \in Run
    <3> DEFINE resumed == f \in fclaim
    <3>1. resumed \in BOOLEAN
      OBVIOUS
    <3>2. run' = [run EXCEPT !.at = f, !.resumed = resumed]
      BY <1>5, Zenon DEF ClaimForeign
    <3> HIDE DEF resumed
    <3> QED BY <3>1, <3>2 DEF RunInv, RunOK, Run
  <2>3. RunInv'
    BY <1>5, <2>2 DEF ClaimForeign, RunInv, RunOK, Ending, RunPlaces
  <2> QED BY <1>5, <2>1, <2>3 DEF ClaimForeign
<1>6. CASE MoveForeign
  <2>1. \/ /\ run.at \in dir["previous"].files
           /\ dir' = [dir EXCEPT !["previous"].files = @ \ {run.at},
                                 !["view"].files = @ \cup {run.at}]
        \/ UNCHANGED dir
    BY <1>6 DEF MoveForeign
  <2>2. dir' \in [Places -> Folder]
    BY <2>1, MovedBack
  <2>3. \E left \in BOOLEAN : run' = [run EXCEPT !.left = left]
    BY <1>6 DEF MoveForeign
  <2>4. RunInv'
    BY <1>6, <2>3 DEF MoveForeign, RunInv, RunOK, Ending, Run, RunPlaces
  <2> QED BY <1>6, <2>2, <2>4 DEF MoveForeign, DiskOK
<1>7. CASE RecordForeign
  <2>1. RecordsOK'
    BY <1>7 DEF RecordForeign, RecordsOK, ForeignStates
  <2> QED BY <1>7, <2>1 DEF RecordForeign, RunPlaces
<1>8. CASE EndForeign
  <2>1. StatusOK' /\ Owned'
    BY <1>8, AdvanceOwned, Phases DEF EndForeign
  <2> QED BY <1>8, <2>1 DEF EndForeign, RunPlaces
<1>9. CASE SettleFirst
  <2>1. RecordsOK'
    BY <1>9, PreviousRetiredType DEF SettleFirst, RecordsOK
  <2>2. RunInv' /\ pc' \notin RunPlaces
    BY <1>9, EmptyRecords DEF SettleFirst, RunInv, RunOK, Ending, RunPlaces
  <2>3. StatusOK' /\ Owned'
    BY <1>9, <2>2, SettledReleased DEF SettleFirst, Outcomes
  <2> QED BY <1>9, <2>1, <2>2, <2>3 DEF SettleFirst
<1>10. CASE StartRetiring
  <2>1. StatusOK' /\ Owned'
    BY <1>10, AdvanceOwned, Phases DEF StartRetiring
  <2> QED BY <1>10, <2>1 DEF StartRetiring, RunPlaces
<1>11. CASE Retire
  <2> DEFINE stays(unproven) == dir["previous"].files \ ({Entry} \ unproven)
  <2>1. PICK unproven \in SUBSET {Entry} :
           /\ dir' = [dir EXCEPT !["previous"] =
                         Emptied([dir["previous"] EXCEPT !.files = stays(unproven)])]
           /\ run' = [run EXCEPT !.todo = stays(unproven)]
    BY <1>11 DEF Retire
  <2>2. stays(unproven) \in SUBSET Files /\ "previous" \in Places
    BY FoldersKept DEF Places
  <2> HIDE DEF stays
  <2>3. dir' \in [Places -> Folder]
    BY <2>1, <2>2, EmptiedFiles, FolderReplaced
  <2>4. RunInv'
    BY <1>11, <2>1, <2>2 DEF Retire, RunInv, RunOK, Ending, Run, RunPlaces
  <2> QED BY <1>11, <2>3, <2>4 DEF Retire, DiskOK
<1>12. CASE Settle
  <2>1. RecordsOK'
    <3>1. dir["previous"].id \in Identities
      BY FoldersKept DEF Places
    <3>2. manifest' \in [Gens -> ManifestStates]
      BY <1>12, PreviousRetiredType DEF Settle, RecordsOK
    <3>3. leftover' \in [Files -> [review : Reviews, in : Identities]]
      BY <1>12, <3>1 DEF Settle, RecordsOK, Reviews
    <3> QED BY <1>12, <3>2, <3>3 DEF Settle, RecordsOK
  <2>2. RunInv' /\ pc' \notin RunPlaces
    BY <1>12, EmptyRecords DEF Settle, RunInv, RunOK, Ending, RunPlaces
  <2>3. StatusOK' /\ Owned'
    BY <1>12, <2>2, SettledReleased DEF Settle, Outcomes
  <2> QED BY <1>12, <2>1, <2>2, <2>3 DEF Settle
<1>13. CASE SettleRefused
  BY <1>13, BrokenOff DEF SettleRefused
<1> QED BY <1>1, <1>2, <1>3, <1>4, <1>5, <1>6, <1>7, <1>8, <1>9, <1>10, <1>11, <1>12, <1>13
        DEF FinishStep

LEMMA EndKeepsType == TypeInv /\ EndStep => TypeInv'
<1> SUFFICES ASSUME TypeInv, EndStep PROVE TypeInv'
  OBVIOUS
<1>0. Running
  BY DEF EndStep, ClearBuilding, Discard, Running, RunPlaces
<1> USE AtWork, <1>0, Unchanged, StillOwned, Together
<1>1. CASE ClearBuilding
  <2> DEFINE stays(unproven) == dir["building"].files \ ({Entry} \ unproven)
  <2>1. PICK unproven \in SUBSET {Entry} :
           dir' = [dir EXCEPT !["building"] =
                      Emptied([dir["building"] EXCEPT !.files = stays(unproven)])]
    BY <1>1 DEF ClearBuilding
  <2>2. stays(unproven) \in SUBSET Files /\ "building" \in Places
    BY FoldersKept DEF Places
  <2> HIDE DEF stays
  <2>4. dir' \in [Places -> Folder]
    BY <2>1, <2>2, EmptiedFiles, FolderReplaced
  <2>5. RunInv'
    BY <1>1 DEF ClearBuilding, RunInv, RunOK, Ending, Run
  <2> QED BY <1>1, <2>4, <2>5 DEF ClearBuilding, DiskOK
<1>2. CASE Discard
  <2>1. RecordsOK'
    BY <1>2 DEF Discard, RecordsOK, ManifestStates
  <2>2. RunInv' /\ pc' \notin RunPlaces
    BY <1>2, EmptyRecords DEF Discard, RunInv, RunOK, Ending, RunPlaces
  <2>3. run.stop \in Outcomes
    BY <1>2 DEF Discard, RunInv, Ending, Outcomes
  <2>4. StatusOK' /\ Owned'
    BY <1>2, <2>2, <2>3, SettledReleased DEF Discard
  <2> QED BY <1>2, <2>1, <2>2, <2>4 DEF Discard
<1> QED BY <1>1, <1>2 DEF EndStep

LEMMA RecoveryKeepsType == TypeInv /\ RecoveryStep => TypeInv'
<1> SUFFICES ASSUME TypeInv, RecoveryStep PROVE TypeInv'
  OBVIOUS
<1> USE Unchanged, Together
<1>1. CASE Start
  <2>1. /\ DiskOK /\ RecordsOK /\ StatusOK /\ OthersOK /\ RunInv /\ Owned
    BY DEF TypeInv, TypeOK, RunInv
  <2>2. RunInv'
    BY <1>1, <2>1 DEF Start, RunInv, RunOK, Ending, RunPlaces
  <2>3. CASE Unsettled = {}
    BY <1>1, <2>1, <2>2, <2>3 DEF Start, status
  <2>4. CASE Unsettled # {}
    <3>1. active' \in Gens /\ journal[active'].phase \in Reserved..RetiringPrevious
      BY <1>1, <2>4 DEF Start, Unsettled
    <3>2. StatusOK' /\ Owned'
      BY <1>1, <2>1, <3>1, BoundsAssumption DEF Start, StatusOK, Owned, Gens
    <3> QED BY <1>1, <2>1, <2>2, <3>2 DEF Start
  <2> QED BY <2>3, <2>4
<1>2. CASE RecoverFolders
  <2>0. Running
    BY <1>2 DEF RecoverFolders, Running, RunPlaces
  <2> USE <2>0, AtWork, StillOwned
  <2>1. \/ UNCHANGED dir
        \/ dir' = Renamed("building", "view")
        \/ dir' = Renamed("previous", "view")
    BY <1>2, Zenon DEF RecoverFolders
  <2>2. DiskOK'
    BY <1>2, <2>1, RenamedType DEF RecoverFolders, DiskOK, Places
  <2>3. \/ RecoverAs("failed") \/ RecoverAs("installed")
        \/ Stuck(TRUE) \/ Stuck(FALSE)
    BY <1>2, Zenon DEF RecoverFolders
  <2>4. CASE RecoverAs("failed") \/ RecoverAs("installed")
    <3>1. run' \in Run /\ pc' = "settleClaims" /\ UNCHANGED <<mode, faults>>
      BY <2>4, EmptyRecords DEF RecoverAs, Run, Stops
    <3>2. RunInv'
      BY <3>1 DEF RunInv, RunOK, Ending, RunPlaces
    <3> QED BY <1>2, <2>2, <3>1, <3>2 DEF RecoverFolders, others
  <2>5. CASE Stuck(TRUE) \/ Stuck(FALSE)
    <3>1. OthersOK'
      BY <1>2, <2>5, FaultCounted DEF Stuck, RecoverFolders, OthersOK
    <3> QED BY <1>2, <2>2, <2>5, <3>1, BrokenOff DEF RecoverFolders, Stuck
  <2> QED BY <2>3, <2>4, <2>5
<1>3. CASE Recovered
  <2>0. Running
    BY <1>3 DEF Recovered, Running, RunPlaces
  <2> USE <2>0, AtWork, StillOwned, Moves
  <2>1. CASE run.stop = "failed"
    <3>1. pc' = "ending" /\ run' = run /\ UNCHANGED status
      BY <1>3, <2>1 DEF Recovered, Goto, status
    <3>2. RunInv'
      BY <1>3, <2>1, <3>1 DEF Recovered, RunInv, RunOK, Ending, RunPlaces
    <3> QED BY <1>3, <3>1, <3>2 DEF Recovered
  <2>2. CASE run.stop # "failed"
    <3>1. RunInv'
      BY <1>3, <2>2 DEF Recovered, RunPlaces
    <3>2. StatusOK' /\ Owned'
      BY <1>3, <2>2, AdvanceOwned, Phases DEF Recovered, status
    <3> QED BY <1>3, <3>1, <3>2 DEF Recovered
  <2> QED BY <2>1, <2>2
<1>4. ASSUME NEW f \in Files, SettleClaim(f) PROVE TypeInv'
  <2>0. Running
    BY <1>4 DEF SettleClaim, Running, RunPlaces
  <2> USE <2>0, AtWork, StillOwned
  <2>1. RecordsOK'
    BY <1>4, KeptMovedType DEF SettleClaim, RecordsOK
  <2>2. RunInv'
    BY <1>4 DEF SettleClaim, RunInv, RunOK, Ending
  <2> QED BY <1>4, <2>1, <2>2 DEF SettleClaim
<1> QED BY <1>1, <1>2, <1>3, <1>4 DEF RecoveryStep

-----------------------------------------------------------------------------
(* The steps beside the run. *)

\* What a step that leaves the journals and the run alone keeps.
LEMMA Beside ==
    ASSUME TypeInv, UNCHANGED status, UNCHANGED <<mode, pc, run>>
    PROVE  StatusOK' /\ RunInv' /\ Owned'
BY Unchanged DEF TypeInv, TypeOK, status, RunInv, RunOK, Ending

LEMMA ReviewKeepsType == TypeInv /\ ReviewStep => TypeInv'
<1> SUFFICES ASSUME TypeInv, ReviewStep PROVE TypeInv'
  OBVIOUS
<1>0. /\ DiskOK /\ RecordsOK /\ OthersOK
      /\ rv \in Review /\ rv.file \in Files /\ rv.becomes \in Reviews
  BY DEF TypeInv, TypeOK, OthersOK, Review
<1> USE <1>0, Unchanged, Beside, Together
<1>1. CASE ActReview
  <2>1. \/ UNCHANGED dir
        \/ dir' = [dir EXCEPT !["previous"].files = @ \ {rv.file},
                              !["view"].files = @ \cup {rv.file}]
        \/ dir' = [dir EXCEPT !["previous"].files = dir["previous"].files \ {rv.file}]
    BY <1>1 DEF ActReview
  <2>2. [dir EXCEPT !["previous"].files = dir["previous"].files \ {rv.file}]
           \in [Places -> Folder]
    BY FoldersKept, FilesReplaced DEF Places
  <2>3. dir' \in [Places -> Folder]
    BY <2>1, <2>2, MovedBack
  <2>4. trash' \in [Files -> Nat]
    BY <1>1 DEF ActReview, DiskOK
  <2>5. rv' \in Review
    BY <1>1, EmptyRecords DEF ActReview, Review
  <2>6. DiskOK' /\ OthersOK'
    BY <1>1, <2>3, <2>4, <2>5 DEF ActReview, DiskOK, OthersOK
  <2> QED BY <1>1, <2>6 DEF ActReview
<1>2. CASE RecordReview
  <2>1. leftover' \in [Files -> [review : Reviews, in : Identities]]
    BY <1>2 DEF RecordReview, RecordsOK
  <2>2. rv' \in Review
    BY <1>2, EmptyRecords DEF RecordReview, Review
  <2>3. RecordsOK' /\ OthersOK'
    BY <1>2, <2>1, <2>2 DEF RecordReview, RecordsOK, OthersOK
  <2> QED BY <1>2, <2>3 DEF RecordReview
<1>3. CASE ClearReviewed
  <2>1. DiskOK'
    BY <1>3, FoldersKept, FolderReplaced DEF ClearReviewed, DiskOK, Places
  <2>2. rv' \in Review
    BY <1>3, EmptyRecords DEF ClearReviewed, Review
  <2>3. OthersOK'
    BY <1>3, <2>2 DEF ClearReviewed, OthersOK
  <2> QED BY <1>3, <2>1, <2>3 DEF ClearReviewed
<1>4. CASE RetireReviewed
  <2>1. RecordsOK' /\ OthersOK'
    BY <1>4, EmptyRecords, PreviousRetiredType DEF RetireReviewed, RecordsOK, OthersOK
  <2> QED BY <1>4, <2>1 DEF RetireReviewed
<1> QED BY <1>1, <1>2, <1>3, <1>4 DEF ReviewStep

LEMMA RequestKeepsType == TypeInv /\ Request => TypeInv'
<1> SUFFICES ASSUME TypeInv, Request PROVE TypeInv'
  OBVIOUS
<1>0. DiskOK /\ RecordsOK /\ StatusOK /\ OthersOK /\ RunInv /\ Owned
  BY DEF TypeInv, TypeOK, RunInv
<1> USE <1>0, Unchanged, Beside, Together
<1>1. ASSUME NEW c \in Callers, CheckSheet(c) PROVE TypeInv'
  <2> DEFINE sheet == [open |-> TRUE, rev |-> rev, installed |-> InState("installed"),
                       view |-> dir["view"].id, gone |-> HoldsNothing("previous"),
                       missing |-> {f \in Files : leftover[f].review = "kept"
                                                  /\ f \notin dir["previous"].files}]
  <2>1. sheet \in Sheet
    BY FoldersKept DEF Sheet, OthersOK, InState, HoldsNothing, Places
  <2>2. prep' = [prep EXCEPT ![c] = sheet]
    BY <1>1 DEF CheckSheet
  <2> HIDE DEF sheet
  <2>3. OthersOK'
    BY <1>1, <2>1, <2>2 DEF CheckSheet, OthersOK
  <2>4. DiskOK'
    BY <1>1, FoldersKept, FolderReplaced DEF CheckSheet, DiskOK, Places
  <2> QED BY <1>1, <2>3, <2>4 DEF CheckSheet
<1>2. ASSUME NEW c \in Callers, Reserve(c) PROVE TypeInv'
  <2>1. prep[c] \in Sheet /\ prep[c].view \in Identities
        /\ prep[c].rev \in 0..MaxRev /\ prep[c].missing \in SUBSET Files
    BY DEF OthersOK, Sheet
  <2>2. PICK g \in Gens :
           /\ active' = g
           /\ manifest' = [(IF prep[c].gone THEN PreviousRetired ELSE manifest)
                              EXCEPT ![g] = "building"]
           /\ journal' = [journal EXCEPT ![g] =
                 [phase |-> Reserved, from |-> Unwritten, outcome |-> "none",
                  view |-> prep[c].view, building |-> Absent]]
    BY <1>2 DEF Reserve
  <2>3. [phase |-> Reserved, from |-> Unwritten, outcome |-> "none",
         view |-> prep[c].view, building |-> Absent] \in Journal
    BY <2>1, Phases DEF Journal, Outcomes, Identities
  <2>4. StatusOK' /\ Owned'
    <3>1. journal' \in [Gens -> Journal]
      BY <2>2, <2>3 DEF StatusOK
    <3>2. journal'[g].phase = Reserved
      BY <2>2 DEF StatusOK
    <3>3. Reserved \in Reserved..RetiringPrevious /\ g \in 0..MaxGen
      BY Phases, BoundsAssumption DEF Gens
    <3> QED BY <1>2, <2>2, <3>1, <3>2, <3>3 DEF Reserve, StatusOK, Owned
  <2>5. RecordsOK'
    <3>1. manifest' \in [Gens -> ManifestStates]
      BY <2>2, PreviousRetiredType DEF RecordsOK, ManifestStates
    <3>2. leftover' \in [Files -> [review : Reviews, in : Identities]]
      BY <1>2, KeptMovedType DEF Reserve, RecordsOK
    <3> QED BY <1>2, <3>1, <3>2 DEF Reserve, RecordsOK, ForeignStates
  <2>6. RunInv'
    <3>1. run' \in Run
      BY <1>2, <2>1, EmptyRecords DEF Reserve, Run
    <3> QED BY <1>2, <3>1 DEF Reserve, RunInv, RunOK, Ending, RunPlaces
  <2>7. OthersOK'
    BY <1>2, EmptyRecords DEF Reserve, OthersOK
  <2> QED BY <1>2, <2>4, <2>5, <2>6, <2>7 DEF Reserve
<1>3. ASSUME NEW c \in Callers, CloseSheet(c) PROVE TypeInv'
  <2>1. OthersOK'
    BY <1>3, EmptyRecords DEF CloseSheet, OthersOK
  <2> QED BY <1>3, <2>1 DEF CloseSheet
<1>4. ASSUME NEW f \in Files, NEW review \in {"kept", "moved", "trashed"}, StartReview(f, review)
      PROVE  TypeInv'
  <2>1. rv' \in Review
    BY <1>4 DEF StartReview, Review, Reviews
  <2>2. OthersOK'
    BY <1>4, <2>1 DEF StartReview, OthersOK
  <2> QED BY <1>4, <2>2 DEF StartReview
<1>5. CASE CancelApply
  <2>1. run' \in Run /\ run'.stop = run.stop
    BY <1>5 DEF CancelApply, RunInv, RunOK, Run
  <2>2. RunInv'
    BY <1>5, <2>1 DEF CancelApply, RunInv, RunOK, Ending
  <2>3. StatusOK' /\ Owned'
    BY <1>5 DEF CancelApply, status
  <2> QED BY <1>5, <2>2, <2>3 DEF CancelApply
<1> QED BY <1>1, <1>2, <1>3, <1>4, <1>5 DEF Request

LEMMA FailureKeepsType == TypeInv /\ Failure => TypeInv'
<1> SUFFICES ASSUME TypeInv, Failure PROVE TypeInv'
  OBVIOUS
<1>0. DiskOK /\ RecordsOK /\ StatusOK /\ OthersOK /\ RunInv /\ Owned
  BY DEF TypeInv, TypeOK, RunInv
<1> USE <1>0, Unchanged, Together
<1>1. faults' \in 0..MaxFaults
  BY FaultCounted DEF Failure, Crash, RunBreaksOff, Quit
<1>2. CASE Crash \/ Quit
  <2>1. Down
    BY <1>2 DEF Crash, Quit
  <2>2. OthersOK'
    BY <1>1, <2>1, EmptyRecords DEF Down, OthersOK
  <2>3. RunInv' /\ Owned'
    BY <2>1, EmptyRecords DEF Down, RunInv, RunOK, Ending, Owned, Running, RunPlaces
  <2> QED BY <2>1, <2>2, <2>3 DEF Down
<1>3. CASE RunBreaksOff
  <2>1. OthersOK'
    BY <1>1, <1>3 DEF RunBreaksOff, OthersOK
  <2> QED BY <1>3, <2>1, BrokenOff DEF RunBreaksOff
<1> QED BY <1>2, <1>3 DEF Failure

LEMMA OutsideKeepsType == TypeInv /\ Outside => TypeInv'
<1> SUFFICES ASSUME TypeInv, Outside PROVE TypeInv'
  OBVIOUS
<1>0. DiskOK /\ RecordsOK /\ OthersOK
  BY DEF TypeInv, TypeOK
<1> USE <1>0, Unchanged, Beside, Together
<1>1. CASE Edit
  <2>1. OthersOK'
    BY <1>1, BoundsAssumption DEF Edit, OthersOK
  <2> QED BY <1>1, <2>1 DEF Edit
<1>2. CASE Hold \/ Release
  <2>1. OthersOK'
    BY <1>2 DEF Hold, Release, OthersOK
  <2> QED BY <1>2, <2>1 DEF Hold, Release
<1>3. CASE Occupy \/ Remove \/ DeletePrevious
  <2>1. [id |-> Alien, files |-> {}] \in Folder
    BY DEF Folder, Identities
  <2>2. DiskOK'
    BY <1>3, <2>1, EmptyRecords, FolderReplaced DEF Occupy, Remove, DeletePrevious, DiskOK, Places
  <2> QED BY <1>3, <2>2 DEF Occupy, Remove, DeletePrevious
<1>4. ASSUME NEW f \in Files, WriteView(f) \/ Litter(f) \/ Vanish(f) PROVE TypeInv'
  <2>1. PICK p \in Places, files \in SUBSET Files : FilesChange(p, files)
    BY <1>4, FoldersKept DEF WriteView, Litter, Vanish, Places
  <2>2. DiskOK'
    BY <2>1, FilesReplaced DEF FilesChange, DiskOK
  <2> QED BY <2>1, <2>2 DEF FilesChange
<1>5. Tool \subseteq Files
  BY DEF Files
<1> QED BY <1>1, <1>2, <1>3, <1>4, <1>5 DEF Outside, UserDeletes

-----------------------------------------------------------------------------

LEMMA TypeStep == TypeInv /\ [Next]_vars => TypeInv'
<1>1. TypeInv /\ UNCHANGED vars => TypeInv'
  BY DEF vars, TypeInv, TypeOK, DiskOK, RecordsOK, StatusOK, OthersOK, RunOK, Owned, Running,
         Ending
<1> QED
  BY <1>1, BuildKeepsType, SwapKeepsType, FinishKeepsType, EndKeepsType, RecoveryKeepsType,
     ReviewKeepsType, RequestKeepsType, FailureKeepsType, OutsideKeepsType DEF Next, RunStep

\* Every variable holds a value of its kind in every reachable state: no step,
\* no crash and no recovery leaves a phase out of its range, settles an Apply
\* with an outcome that is none, or runs without a reservation.
THEOREM TypeCorrect == Spec => []TypeOK
<1>1. TypeInv => TypeOK
  BY DEF TypeInv
<1> QED BY <1>1, InitType, TypeStep, PTL DEF Spec

-----------------------------------------------------------------------------
(* The journal, the manifests and the reservation agree. *)

\* Where a run has built its View and not yet moved the old one.
ReadyPlaces == {"verified", "keeping", "claimed", "recording", "clearing", "retirePrevious",
                "way", "aside", "waiting"}

\* Where a run moves foreign files.
ForeignPlaces == {"foreign", "moving", "moved"}

\* The phase the journal stands at while the run stands at a place: a recovery
\* that found no new View is short of NewInstalled, one that found it has built it.
PhaseFits ==
    /\ pc \in {"reserved", "reread"} => Now.phase = Reserved
    /\ pc \in {"sources", "made"} => Now.phase = SourcesVerified
    /\ pc \in {"building", "built"} => Now.phase = Building
    /\ pc \in ReadyPlaces \cup {"asideDone"} => Now.phase = BuildVerified
    /\ pc = "afterWait" => Now.phase = WaitingForRelease
    /\ pc \in {"install", "restore", "placed"} => Now.phase \in BuildVerified..OldMoved
    /\ pc = "installed" => Now.phase = NewInstalled
    /\ pc = "committed" => Now.phase \in ManifestCommitted..RetiringPrevious
    /\ pc \in ForeignPlaces => Now.phase = ManifestCommitted
    /\ pc = "transferred" => Now.phase \in ForeignTransferred..RetiringPrevious
    /\ pc \in {"retiring", "settling"} => Now.phase = RetiringPrevious
    /\ pc = "ending" => Now.phase \in Reserved..OldMoved
    /\ pc = "settleClaims" =>
          \/ run.stop = "failed" /\ Now.phase \in Reserved..OldMoved
          \/ run.stop = "installed" /\ Now.phase \in BuildVerified..RetiringPrevious

Recorded == TypeInv /\ Agreement /\ PhaseFits

\* Both phases before the commit, or both after it: the manifest fits both.
SameSide(a, b) ==
    \/ a \in Reserved..NewInstalled /\ b \in Reserved..NewInstalled
    \/ a \in ManifestCommitted..RetiringPrevious /\ b \in ManifestCommitted..RetiringPrevious

\* What `outcome_fits` asks of each outcome.
LEMMA OutcomeSplit ==
    ASSUME NEW j, j.outcome \in Outcomes
    PROVE  OutcomeFits(j) <=>
             /\ j.outcome = "none" => j.phase < Settled
             /\ j.outcome = "applied" => j.phase = Settled /\ j.from >= ManifestCommitted
             /\ j.outcome \in {"failed", "canceled"} =>
                   j.phase = Settled /\ j.from \in Reserved..OldMoved
BY DEF OutcomeFits, Outcomes

\* What a run knows of its own journal and manifest.
LEMMA OwnJournal ==
    ASSUME TypeInv, Agreement, Running
    PROVE  /\ active \in Gens /\ active # 0 /\ Now \in Journal
           /\ Now.phase \in Reserved..RetiringPrevious /\ Now.outcome = "none"
           /\ Unsettled = {active}
           /\ manifest[active] = "building" <=> Now.phase \in Reserved..NewInstalled
           /\ manifest[active] \notin {"none", "discarded"}
<1>1. active \in Gens /\ Now \in Journal /\ Now.phase \in Reserved..RetiringPrevious
  BY DEF TypeInv, TypeOK, StatusOK, Owned, Now
<1>2. active # 0
  BY <1>1, BoundsAssumption DEF Gens
<1>3. Now.outcome = "none"
  <2>1. OutcomeFits(Now) /\ Now.outcome \in Outcomes
    BY <1>1 DEF Agreement, Now, Journal
  <2> QED BY <1>1, <2>1, OutcomeSplit, Phases DEF Outcomes
<1>4. Unsettled = {active}
  BY <1>2 DEF Agreement
<1>5. ManifestFits(active)
  BY <1>1 DEF Agreement
<1>6. /\ manifest[active] = "building" <=> Now.phase \in Reserved..NewInstalled
      /\ manifest[active] \notin {"none", "discarded"}
  BY <1>1, <1>3, <1>5, Phases DEF ManifestFits, Now
<1> QED BY <1>1, <1>2, <1>3, <1>4, <1>6

\* A step that leaves the records alone leaves them in agreement.
LEMMA AgreementStays ==
    ASSUME Agreement, UNCHANGED <<journal, active, wait, manifest>>
    PROVE  Agreement'
BY DEF Agreement, Unsettled, ManifestFits, OutcomeFits, InState, AtMostOne, Now

\* The run's own journal moves on, on its side of the commit.
LEMMA MovesOn ==
    ASSUME TypeInv, Agreement, Running,
           NEW j \in Journal, journal' = [journal EXCEPT ![active] = j],
           j.outcome = Now.outcome, SameSide(Now.phase, j.phase),
           UNCHANGED <<active, manifest>>, wait' => j.phase = BuildVerified
    PROVE  Agreement' /\ Now' = j
<1>1. /\ journal \in [Gens -> Journal]
      /\ \A g \in Gens : journal'[g] = IF g = active THEN j ELSE journal[g]
      /\ Now' = j
  BY OwnJournal DEF TypeInv, TypeOK, StatusOK, Now
<1>2. Unsettled' = {active}
  <2>1. \A g \in Gens : journal'[g].phase \in Reserved..RetiringPrevious
                          <=> journal[g].phase \in Reserved..RetiringPrevious
    BY <1>1, OwnJournal, Phases DEF SameSide, Now
  <2> QED BY <2>1, OwnJournal DEF Unsettled
<1>3. \A g \in Gens : OutcomeFits(journal'[g])
  <2>1. OutcomeFits(j)
    BY OwnJournal, OutcomeSplit, Phases DEF SameSide, Outcomes, Journal
  <2> QED BY <1>1, <2>1 DEF Agreement
<1>4. \A g \in Gens : ManifestFits(g)'
  <2> SUFFICES ASSUME NEW g \in Gens PROVE ManifestFits(g)'
    OBVIOUS
  <2>1. ManifestFits(g)
    BY DEF Agreement
  <2>2. CASE g # active
    BY <1>1, <2>1, <2>2 DEF ManifestFits
  <2>3. CASE g = active
    BY <1>1, <2>3, OwnJournal, Phases DEF ManifestFits, SameSide
  <2> QED BY <2>2, <2>3
<1>5. AtMostOne(InState("installed"))' /\ AtMostOne(InState("previous"))'
  BY DEF Agreement, AtMostOne, InState
<1>6. wait' => active' # 0 /\ Now'.phase = BuildVerified
  BY <1>1, OwnJournal
<1> QED BY <1>1, <1>2, <1>3, <1>4, <1>5, <1>6, OwnJournal DEF Agreement

\* The same of `advance`.
LEMMA Advances ==
    ASSUME TypeInv, Agreement, Running, NEW phase \in Reserved..RetiringPrevious,
           Advance(phase), SameSide(Now.phase, phase), UNCHANGED <<active, manifest>>
    PROVE  Agreement' /\ Now'.phase = phase
<1> DEFINE j == [Now EXCEPT !.phase = phase]
<1>1. j \in Journal /\ j.phase = phase /\ j.outcome = Now.outcome
  BY OwnJournal, Phases DEF Journal
<1>2. journal' = [journal EXCEPT ![active] = j] /\ wait' = FALSE
  BY OwnJournal DEF Advance, Now, TypeInv, TypeOK, StatusOK
<1> HIDE DEF j
<1> QED BY <1>1, <1>2, MovesOn

\* `retire_previous` takes no manifest from where its journal wants it.
LEMMA RetiredAgrees ==
    ASSUME TypeInv, Agreement, UNCHANGED status, manifest' = PreviousRetired
    PROVE  Agreement'
<1>1. \A g \in Gens : manifest'[g] = IF manifest[g] = "previous" THEN "retired" ELSE manifest[g]
  BY DEF PreviousRetired
<1>2. \A g \in Gens : ManifestFits(g)'
  BY <1>1 DEF Agreement, ManifestFits, status
<1>3. InState("installed")' = InState("installed") /\ InState("previous")' = {}
  BY <1>1 DEF InState
<1>4. AtMostOne(InState("installed"))' /\ AtMostOne(InState("previous"))'
  BY <1>3 DEF Agreement, AtMostOne
<1>5. /\ Unsettled' = Unsettled /\ \A g \in Gens : OutcomeFits(journal'[g])
      /\ wait' => active' # 0 /\ Now'.phase = BuildVerified
  BY DEF Agreement, Unsettled, status, Now
<1> QED BY <1>2, <1>4, <1>5 DEF Agreement, status

\* An Apply settles with the outcome and the manifest its phase allows.
LEMMA SettlesAgrees ==
    ASSUME TypeInv, Agreement, Running, NEW outcome, SettledAs(outcome),
           \/ /\ outcome = "applied" /\ Now.phase \in ManifestCommitted..RetiringPrevious
              /\ manifest' \in {manifest, PreviousRetired}
           \/ /\ outcome \in {"failed", "canceled"} /\ Now.phase \in Reserved..OldMoved
              /\ manifest' = [manifest EXCEPT ![active] = "discarded"]
    PROVE  Agreement'
<1> DEFINE j == [Now EXCEPT !.from = Now.phase, !.phase = Settled, !.outcome = outcome]
<1>1. /\ j.phase = Settled /\ j.from = Now.phase /\ j.outcome = outcome
      /\ outcome \in Outcomes \ {"none"}
  BY OwnJournal DEF Journal, Outcomes
<1>2. /\ journal' = [journal EXCEPT ![active] = j]
      /\ active' = 0 /\ wait' = FALSE /\ journal \in [Gens -> Journal]
  BY OwnJournal DEF SettledAs, Now, TypeInv, TypeOK, StatusOK
<1> HIDE DEF j
<1>3. \A g \in Gens : journal'[g] = IF g = active THEN j ELSE journal[g]
  BY <1>2
<1>4. Unsettled' = {}
  BY <1>1, <1>3, OwnJournal, Phases DEF Unsettled
<1>5. \A g \in Gens : OutcomeFits(journal'[g])
  <2>1. OutcomeFits(j)
    BY <1>1, OutcomeSplit, OwnJournal, Phases DEF Outcomes
  <2> QED BY <1>3, <2>1 DEF Agreement
<1>6. manifest \in [Gens -> ManifestStates]
  BY DEF TypeInv, TypeOK, RecordsOK
<1>7. \A g \in Gens : ManifestFits(g)'
  <2> SUFFICES ASSUME NEW g \in Gens PROVE ManifestFits(g)'
    OBVIOUS
  <2>1. ManifestFits(g)
    BY DEF Agreement
  <2>2. CASE outcome = "applied"
    <3>1. \/ manifest'[g] = manifest[g]
          \/ manifest[g] = "previous" /\ manifest'[g] = "retired"
      BY <2>2 DEF PreviousRetired
    <3>2. CASE g # active
      BY <1>3, <2>1, <3>1, <3>2 DEF ManifestFits
    <3>3. CASE g = active
      BY <1>1, <1>3, <2>1, <2>2, <3>1, <3>3, OwnJournal, Phases DEF ManifestFits
    <3> QED BY <3>2, <3>3
  <2>3. CASE outcome # "applied"
    <3>1. manifest'[g] = IF g = active THEN "discarded" ELSE manifest[g]
      BY <1>6, <2>3
    <3> QED BY <1>1, <1>3, <2>1, <2>3, <3>1, Phases DEF ManifestFits
  <2> QED BY <2>2, <2>3
<1>8. \A s \in {"installed", "previous"} : InState(s)' \subseteq InState(s)
  BY <1>6 DEF InState, PreviousRetired
<1>9. AtMostOne(InState("installed"))' /\ AtMostOne(InState("previous"))'
  BY <1>8 DEF Agreement, AtMostOne
<1> QED BY <1>2, <1>4, <1>5, <1>7, <1>9 DEF Agreement

\* Every step of a run starts from what the records say of its journal.
LEMMA RecordedAtWork ==
    ASSUME Recorded, Running
    PROVE  /\ TypeInv /\ Agreement /\ PhaseFits
           /\ active \in Gens /\ Now.phase \in Reserved..RetiringPrevious
           /\ run \in Run /\ run.stop \in Stops
BY OwnJournal, AtWork DEF Recorded, TypeInv, TypeOK, RunOK

\* A run that stands nowhere has no phase to fit.
LEMMA NowhereFits ==
    ASSUME pc' \in {"idle", "stopped", "recover"}
    PROVE  PhaseFits'
BY DEF PhaseFits, ReadyPlaces, ForeignPlaces

LEMMA BuildKeepsRecords == Recorded /\ BuildStep => Agreement' /\ PhaseFits'
<1> SUFFICES ASSUME Recorded, BuildStep PROVE Agreement' /\ PhaseFits'
  OBVIOUS
<1>0. Running
  BY DEF BuildStep, Reread, VerifySources, MakeBuilding, RecordBuilding, Place, VerifyBuild,
         Running, RunPlaces
<1> USE RecordedAtWork, <1>0
<1>1. ASSUME \/ Reread \/ MakeBuilding \/ Place
             \/ /\ VerifySources \/ VerifyBuild
                /\ End("failed") /\ UNCHANGED <<journal, wait>>
      PROVE  Agreement' /\ PhaseFits'
  <2>1. UNCHANGED <<journal, active, wait, manifest>> /\ Now' = Now
    BY <1>1 DEF Reread, MakeBuilding, Place, VerifySources, VerifyBuild, status, records, Now
  <2>2. PhaseFits'
    BY <1>1, <2>1, Phases DEF Reread, VerifySources, MakeBuilding,
       Place, VerifyBuild, Goto, End, PhaseFits, ReadyPlaces, ForeignPlaces
  <2> QED BY <2>1, <2>2, AgreementStays
<1>2. CASE VerifySources /\ Advance(SourcesVerified)
  <2>1. SourcesVerified \in Reserved..RetiringPrevious /\ SameSide(Now.phase, SourcesVerified)
    BY <1>2, Phases DEF VerifySources, PhaseFits, SameSide
  <2>2. Agreement' /\ Now'.phase = SourcesVerified
    BY <1>2, <2>1, Advances DEF VerifySources, records
  <2>3. PhaseFits'
    BY <1>2, <2>2, Phases DEF VerifySources, Goto, End, PhaseFits, ReadyPlaces, ForeignPlaces
  <2> QED BY <2>2, <2>3
<1>3. CASE RecordBuilding
  <2> DEFINE j == [Now EXCEPT !.phase = Building, !.building = dir["building"].id]
  <2>1. dir["building"].id \in Identities
    BY FoldersKept DEF Places, TypeInv, TypeOK
  <2>2. j \in Journal /\ j.phase = Building /\ j.outcome = Now.outcome
    <3>1. Now \in Journal /\ Building \in Unwritten..Settled
      BY OwnJournal, Phases
    <3> QED BY <2>1, <3>1 DEF Journal
  <2>3. journal' = [journal EXCEPT ![active] = j] /\ wait' = FALSE
        /\ UNCHANGED <<active, manifest>>
    BY <1>3, OwnJournal DEF RecordBuilding, records, Now, TypeInv, TypeOK, StatusOK
  <2> HIDE DEF j
  <2>4. SameSide(Now.phase, j.phase)
    BY <1>3, <2>2, Phases DEF RecordBuilding, PhaseFits, SameSide
  <2>5. Agreement' /\ Now' = j
    BY <2>2, <2>3, <2>4, MovesOn
  <2>6. PhaseFits'
    BY <1>3, <2>2, <2>5, Phases DEF RecordBuilding, Goto, PhaseFits, ReadyPlaces, ForeignPlaces
  <2> QED BY <2>5, <2>6
<1>4. CASE VerifyBuild /\ Advance(BuildVerified)
  <2>1. BuildVerified \in Reserved..RetiringPrevious /\ SameSide(Now.phase, BuildVerified)
    BY <1>4, Phases DEF VerifyBuild, PhaseFits, SameSide
  <2>2. Agreement' /\ Now'.phase = BuildVerified
    BY <1>4, <2>1, Advances DEF VerifyBuild
  <2>3. PhaseFits'
    BY <1>4, <2>2, Phases DEF VerifyBuild, Goto, End, PhaseFits, ReadyPlaces, ForeignPlaces
  <2> QED BY <2>2, <2>3
<1> QED
  BY <1>1, <1>2, <1>3, <1>4 DEF BuildStep, VerifySources, VerifyBuild

LEMMA SwapKeepsRecords == Recorded /\ SwapStep => Agreement' /\ PhaseFits'
<1> SUFFICES ASSUME Recorded, SwapStep PROVE Agreement' /\ PhaseFits'
  OBVIOUS
<1>0. Running
  BY DEF SwapStep, EnterSwap, ClaimKept, SkipKept, MoveKept, RecordKept, RecordMissing,
         ClearPrevious, RetirePrevious, CheckSwap, MoveAside, AsideFails, StartWait, CancelWait,
         RecordAside, AfterWait, Install, InstallFails, Restore, RestoreFails, RecordInstalled,
         Running, RunPlaces
<1> USE RecordedAtWork, <1>0
<1>1. ASSUME \/ EnterSwap \/ \E f \in Files : ClaimKept(f) \/ SkipKept(f)
             \/ MoveKept \/ RecordKept \/ RecordMissing \/ ClearPrevious \/ CheckSwap
             \/ MoveAside \/ AsideFails \/ CancelWait \/ Install \/ InstallFails \/ Restore
             \/ RestoreFails \/ (AfterWait /\ Goto("restore") /\ UNCHANGED <<journal, wait>>)
      PROVE  Agreement' /\ PhaseFits'
  <2>1. UNCHANGED <<journal, active, wait, manifest>> /\ Now' = Now
    BY <1>1 DEF EnterSwap, ClaimKept, SkipKept, MoveKept, RecordKept, RecordMissing,
       ClearPrevious, CheckSwap, MoveAside, AsideFails, CancelWait, AfterWait, Install,
       InstallFails, Restore, RestoreFails, status, records, Now
  <2>2. PhaseFits'
    <3>1. CASE pc \in ReadyPlaces
      <4>1. pc' \in ReadyPlaces \cup {"asideDone", "install", "ending"}
        BY <1>1, <3>1 DEF EnterSwap, ClaimKept, SkipKept, MoveKept, RecordKept, RecordMissing,
           ClearPrevious, CheckSwap, MoveAside, AsideFails, CancelWait, AfterWait, Install,
           InstallFails, Restore, RestoreFails, Goto, End, ReadyPlaces
      <4>2. Now.phase = BuildVerified
        BY <3>1 DEF PhaseFits
      <4> QED BY SMTT(30), <2>1, <4>1, <4>2, Phases DEF PhaseFits, ReadyPlaces, ForeignPlaces
    <3>2. CASE pc \notin ReadyPlaces
      <4>1. pc \in {"afterWait", "install", "restore"}
            /\ pc' \in {"restore", "placed", "ending", "stopped"}
        BY <1>1, <3>2 DEF EnterSwap, ClaimKept, SkipKept, MoveKept, RecordKept, RecordMissing,
           ClearPrevious, CheckSwap, MoveAside, AsideFails, CancelWait, AfterWait, Install,
           InstallFails, Restore, RestoreFails, BreakOff, Goto, End, ReadyPlaces
      <4>2. Now.phase \in BuildVerified..OldMoved
        BY <4>1, Phases DEF PhaseFits
      <4> QED BY SMTT(30), <2>1, <4>1, <4>2, Phases DEF PhaseFits, ReadyPlaces, ForeignPlaces
    <3> QED BY <3>1, <3>2
  <2> QED BY <2>1, <2>2, AgreementStays
<1>2. CASE RetirePrevious
  <2>1. Agreement' /\ Now' = Now
    BY <1>2, RetiredAgrees DEF RetirePrevious, status, Now
  <2>2. PhaseFits'
    BY <1>2, <2>1 DEF RetirePrevious, Goto, PhaseFits, ReadyPlaces, ForeignPlaces
  <2> QED BY <2>1, <2>2
<1>3. CASE StartWait
  <2>1. Now \in Journal /\ Now.phase = BuildVerified /\ SameSide(Now.phase, Now.phase)
    BY <1>3, OwnJournal, Phases DEF StartWait, PhaseFits, ReadyPlaces, SameSide
  <2>2. journal' = [journal EXCEPT ![active] = Now]
    BY <1>3 DEF StartWait, Now, TypeInv, TypeOK, StatusOK
  <2>3. Agreement' /\ Now' = Now
    BY <1>3, <2>1, <2>2, MovesOn DEF StartWait, records
  <2>4. PhaseFits'
    BY <1>3, <2>1, <2>3 DEF StartWait, PhaseFits, ReadyPlaces, ForeignPlaces
  <2> QED BY <2>3, <2>4
<1>4. ASSUME NEW phase \in {WaitingForRelease, OldMoved, NewInstalled},
             RecordAside \/ AfterWait \/ RecordInstalled, Advance(phase)
      PROVE  Agreement' /\ PhaseFits'
  <2>1. phase \in Reserved..RetiringPrevious /\ SameSide(Now.phase, phase)
    BY <1>4, Phases DEF RecordAside, AfterWait, RecordInstalled, PhaseFits, ReadyPlaces, SameSide
  <2>2. Agreement' /\ Now'.phase = phase
    BY <1>4, <2>1, Advances DEF RecordAside, AfterWait, RecordInstalled, records
  <2>3. PhaseFits'
    <3>1. CASE RecordAside
      <4>1. journal'[active].phase = phase /\ journal'[active].phase = Now'.phase
        BY <2>2, <3>1 DEF RecordAside, Now
      <4>2. \/ pc' = "afterWait" /\ Now'.phase = WaitingForRelease
            \/ pc' = "install" /\ Now'.phase = OldMoved
        BY <3>1, <4>1 DEF RecordAside, Advance, Goto, TypeInv, TypeOK, StatusOK, Journal
      <4> QED BY <4>2, Phases DEF PhaseFits, ReadyPlaces, ForeignPlaces
    <3>2. CASE AfterWait
      <4>1. journal'[active].phase = phase /\ journal'[active].phase = Now'.phase
        BY <2>2, <3>2 DEF AfterWait, Now
      <4>2. \/ pc' = "install" /\ Now'.phase = OldMoved
            \/ pc' = "restore" /\ UNCHANGED journal
        BY <3>2, <4>1 DEF AfterWait, Advance, Goto, TypeInv, TypeOK, StatusOK, Journal
      <4>3. pc' = "restore" /\ UNCHANGED journal => Now'.phase = WaitingForRelease
        BY <3>2 DEF AfterWait, PhaseFits, Now
      <4> QED BY <4>2, <4>3, Phases DEF PhaseFits, ReadyPlaces, ForeignPlaces
    <3>3. CASE RecordInstalled
      <4>1. journal'[active].phase = phase /\ journal'[active].phase = Now'.phase
        BY <2>2, <3>3 DEF RecordInstalled, Now
      <4>2. pc' = "installed" /\ Now'.phase = NewInstalled
        BY <3>3, <4>1 DEF RecordInstalled, Advance, Goto, TypeInv, TypeOK, StatusOK, Journal
      <4> QED BY <4>2, Phases DEF PhaseFits, ReadyPlaces, ForeignPlaces
    <3> QED BY <1>4, <3>1, <3>2, <3>3
  <2> QED BY <2>2, <2>3
<1> QED BY SMTT(30), <1>1, <1>2, <1>3, <1>4 DEF SwapStep, RecordAside, AfterWait, RecordInstalled

LEMMA FinishKeepsRecords == Recorded /\ FinishStep => Agreement' /\ PhaseFits'
<1> SUFFICES ASSUME Recorded, FinishStep PROVE Agreement' /\ PhaseFits'
  OBVIOUS
<1>0. Running
  BY DEF FinishStep, Commit, CommitRefused, ReadInstalled, LeaveForeign, ClaimForeign,
         MoveForeign, RecordForeign, EndForeign, SettleFirst, StartRetiring, Retire, Settle,
         SettleRefused, Running, RunPlaces
<1> USE RecordedAtWork, <1>0
<1>1. ASSUME \/ CommitRefused \/ ReadInstalled \/ \E f \in Files : LeaveForeign(f) \/ ClaimForeign(f)
             \/ MoveForeign \/ RecordForeign \/ Retire \/ SettleRefused
      PROVE  Agreement' /\ PhaseFits'
  <2>1. UNCHANGED <<journal, active, wait, manifest>> /\ Now' = Now
    BY <1>1 DEF CommitRefused, ReadInstalled, LeaveForeign, ClaimForeign, MoveForeign,
       RecordForeign, Retire, SettleRefused, status, records, Now
  <2>2. PhaseFits'
    <3>1. CASE ReadInstalled
      <4>1. pc = "committed" /\ pc' = IF Now.phase < ForeignTransferred THEN "foreign"
                                      ELSE "transferred"
        BY <3>1 DEF ReadInstalled
      <4> QED BY <2>1, <4>1, Phases DEF PhaseFits, ReadyPlaces, ForeignPlaces
    <3>2. CASE ~ReadInstalled
      <4>1. \/ pc \in ForeignPlaces /\ pc' \in ForeignPlaces
            \/ pc = "retiring" /\ pc' = "settling"
            \/ pc' = "stopped"
        BY <1>1, <3>2 DEF CommitRefused, BreakOff, LeaveForeign, ClaimForeign, MoveForeign,
           RecordForeign, Retire, SettleRefused, Goto, ForeignPlaces
      <4> QED BY SMTT(30), <2>1, <4>1, NowhereFits DEF PhaseFits, ReadyPlaces, ForeignPlaces
    <3> QED BY <3>1, <3>2
  <2> QED BY <2>1, <2>2, AgreementStays
<1>2. CASE Commit
  <2> DEFINE j == [Now EXCEPT !.phase = ManifestCommitted]
  <2>1. j \in Journal /\ j.phase = ManifestCommitted /\ j.outcome = "none"
    BY OwnJournal, Phases DEF Journal
  <2>2. /\ journal' = [journal EXCEPT ![active] = j]
        /\ wait' = FALSE /\ UNCHANGED active /\ manifest' = Committed
        /\ journal \in [Gens -> Journal]
    BY <1>2, OwnJournal DEF Commit, Advance, Now, TypeInv, TypeOK, StatusOK
  <2> HIDE DEF j
  <2>3. /\ \A g \in Gens : journal'[g] = IF g = active THEN j ELSE journal[g]
        /\ Now' = j
    BY <2>2 DEF Now
  <2>4. \A g \in Gens : manifest'[g] = IF g = active THEN "installed"
                          ELSE IF manifest[g] = "installed" THEN "previous" ELSE manifest[g]
    BY <2>2 DEF Committed
  <2>5. Unsettled' = {active}
    <3>1. \A g \in Gens : journal'[g].phase \in Reserved..RetiringPrevious
                            <=> journal[g].phase \in Reserved..RetiringPrevious
      BY <2>1, <2>3, OwnJournal, Phases DEF Now
    <3> QED BY <3>1, OwnJournal DEF Unsettled
  <2>6. \A g \in Gens : OutcomeFits(journal'[g])
    <3>1. OutcomeFits(j)
      BY <2>1, OutcomeSplit, Phases DEF Outcomes
    <3> QED BY <2>3, <3>1 DEF Agreement
  <2>7. \A g \in Gens : ManifestFits(g)'
    <3> SUFFICES ASSUME NEW g \in Gens PROVE ManifestFits(g)'
      OBVIOUS
    <3>1. ManifestFits(g)
      BY DEF Agreement
    <3>2. CASE g # active
      BY <2>3, <2>4, <3>1, <3>2 DEF ManifestFits
    <3>3. CASE g = active
      BY <2>1, <2>3, <2>4, <3>3, Phases DEF ManifestFits
    <3> QED BY <3>2, <3>3
  <2>8. AtMostOne(InState("installed"))' /\ AtMostOne(InState("previous"))'
    <3>1. InState("installed")' = {active}
      BY <2>4 DEF InState
    <3>2. InState("previous")' = InState("previous") \cup (InState("installed") \ {active})
      BY <2>4, OwnJournal, Phases, <1>2 DEF InState, Commit, PhaseFits
    <3>3. InState("installed") = {} \/ InState("previous") = {}
      BY <1>2 DEF Commit
    <3> QED BY <3>1, <3>2, <3>3 DEF Agreement, AtMostOne
  <2>9. PhaseFits'
    BY <1>2, <2>1, <2>3, Phases DEF Commit, Goto, PhaseFits, ReadyPlaces, ForeignPlaces
  <2> QED BY <2>2, <2>5, <2>6, <2>7, <2>8, <2>9, OwnJournal DEF Agreement
<1>3. ASSUME NEW phase \in {ForeignTransferred, RetiringPrevious},
             \/ EndForeign /\ phase = ForeignTransferred
             \/ StartRetiring /\ phase = RetiringPrevious
      PROVE  Agreement' /\ PhaseFits'
  <2>1. phase \in Reserved..RetiringPrevious /\ SameSide(Now.phase, phase)
    BY <1>3, Phases DEF EndForeign, StartRetiring, PhaseFits, ForeignPlaces, SameSide
  <2>2. Agreement' /\ Now'.phase = phase
    BY <1>3, <2>1, Advances DEF EndForeign, StartRetiring, records
  <2>3. PhaseFits'
    BY <1>3, <2>2, Phases DEF EndForeign, StartRetiring, Goto, PhaseFits, ReadyPlaces,
       ForeignPlaces
  <2> QED BY <2>2, <2>3
<1>4. CASE SettleFirst \/ Settle
  <2>1. Now.phase \in ManifestCommitted..RetiringPrevious
    BY <1>4, Phases DEF SettleFirst, Settle, PhaseFits
  <2>2. SettledAs("applied") /\ manifest' \in {manifest, PreviousRetired}
    BY <1>4 DEF SettleFirst, Settle
  <2>3. PhaseFits'
    BY <1>4, NowhereFits DEF SettleFirst, Settle
  <2> QED BY <2>1, <2>2, <2>3, SettlesAgrees
<1> QED
  BY SMTT(30), <1>1, <1>2, <1>3, <1>4 DEF FinishStep

LEMMA EndKeepsRecords == Recorded /\ EndStep => Agreement' /\ PhaseFits'
<1> SUFFICES ASSUME Recorded, EndStep PROVE Agreement' /\ PhaseFits'
  OBVIOUS
<1>0. Running
  BY DEF EndStep, ClearBuilding, Discard, Running, RunPlaces
<1> USE RecordedAtWork, <1>0
<1>1. CASE ClearBuilding
  <2>1. Agreement' /\ Now' = Now
    BY <1>1, AgreementStays DEF ClearBuilding, status, records, Now
  <2> QED BY <1>1, <2>1 DEF ClearBuilding, PhaseFits, ReadyPlaces, ForeignPlaces
<1>2. CASE Discard
  <2>1. Now.phase \in Reserved..OldMoved /\ run.stop \in {"failed", "canceled"}
    BY <1>2 DEF Discard, PhaseFits, TypeInv, Ending
  <2>2. SettledAs(run.stop) /\ manifest' = [manifest EXCEPT ![active] = "discarded"]
    BY <1>2 DEF Discard
  <2>3. PhaseFits'
    BY <1>2, NowhereFits DEF Discard
  <2> QED BY <2>1, <2>2, <2>3, SettlesAgrees
<1> QED BY <1>1, <1>2 DEF EndStep

LEMMA RecoveryKeepsRecords == Recorded /\ RecoveryStep => Agreement' /\ PhaseFits'
<1> SUFFICES ASSUME Recorded, RecoveryStep PROVE Agreement' /\ PhaseFits'
  OBVIOUS
<1>0. TypeInv /\ Agreement /\ PhaseFits
  BY DEF Recorded
<1>1. CASE Start
  <2>1. active' = active
    BY <1>0, <1>1 DEF Start, Agreement
  <2>2. Agreement'
    BY <1>0, <1>1, <2>1, AgreementStays DEF Start, records
  <2>3. pc' = "recover" \/ (pc' = pc /\ run' = run /\ Now' = Now)
    BY <1>1 DEF Start, Now
  <2> QED BY <1>0, <2>2, <2>3, NowhereFits DEF PhaseFits, ReadyPlaces, ForeignPlaces
<1>2. CASE RecoverFolders
  <2>0. Running
    BY <1>2 DEF RecoverFolders, Running, RunPlaces
  <2> USE <2>0, RecordedAtWork
  <2>1. Agreement' /\ Now' = Now
    BY <1>2, AgreementStays DEF RecoverFolders, status, records, Now
  <2>2. \/ pc' = "stopped"
        \/ pc' = "settleClaims" /\ run'.stop = "failed" /\ Now.phase \in Reserved..OldMoved
        \/ /\ pc' = "settleClaims" /\ run'.stop = "installed"
           /\ Now.phase \in BuildVerified..RetiringPrevious
    <3> DEFINE Failed    == pc' = "settleClaims" /\ run'.stop = "failed"
               Installed == pc' = "settleClaims" /\ run'.stop = "installed"
    <3>1. /\ RecoverAs("failed") => Failed
          /\ RecoverAs("installed") => Installed
          /\ Stuck(TRUE) \/ Stuck(FALSE) => pc' = "stopped"
      BY DEF RecoverAs, NoRun, Stuck, BreakOff
    <3>2. CASE Now.phase < BuildVerified
      <4>1. /\ ~(Now.phase >= BuildVerified) /\ ~(Now.phase >= NewInstalled)
            /\ ~(Now.phase \in BuildVerified..OldMoved)
        BY <3>2, Phases
      <4>2. RecoverAs("failed")
        BY <1>2, <3>2, <4>1, Zenon DEF RecoverFolders
      <4> QED BY <3>1, <3>2, <4>2, Phases
    <3>3. CASE Now.phase >= BuildVerified /\ NewInPlace
      <4>1. ~(Now.phase < BuildVerified)
        BY <3>3, Phases
      <4>2. RecoverAs("installed")
        BY <1>2, <3>3, <4>1, Zenon DEF RecoverFolders
      <4> QED BY <3>1, <3>3, <4>2, Phases
    <3>4. CASE Now.phase >= NewInstalled /\ ~NewInPlace
      <4>1. ~(Now.phase < BuildVerified) /\ ~(Now.phase \in BuildVerified..OldMoved)
        BY <3>4, Phases
      <4>2. RecoverAs("installed") \/ Stuck(TRUE) \/ Stuck(FALSE)
        BY <1>2, <3>4, <4>1, Zenon DEF RecoverFolders
      <4>3. Installed \/ pc' = "stopped"
        BY <3>1, <4>2, Zenon
      <4> QED BY <3>4, <4>3, Phases
    <3>5. CASE Now.phase \in BuildVerified..OldMoved /\ ~NewInPlace
      <4>1. ~(Now.phase < BuildVerified) /\ ~(Now.phase >= NewInstalled)
        BY <3>5, Phases
      <4>2. RecoverAs("failed") \/ Stuck(TRUE) \/ Stuck(FALSE)
        BY <1>2, <3>5, <4>1, Zenon DEF RecoverFolders
      <4>3. Failed \/ pc' = "stopped"
        BY <3>1, <4>2, Zenon
      <4> QED BY <3>5, <4>3, Phases
    <3> QED BY <3>2, <3>3, <3>4, <3>5, Phases
  <2> QED BY <2>1, <2>2, NowhereFits DEF PhaseFits, ReadyPlaces, ForeignPlaces
<1>3. CASE Recovered
  <2>0. Running
    BY <1>3 DEF Recovered, Running, RunPlaces
  <2> USE <2>0, RecordedAtWork
  <2>1. CASE UNCHANGED <<journal, wait>>
    <3>1. Agreement' /\ Now' = Now
      BY <1>3, <2>1, AgreementStays DEF Recovered, records, Now
    <3>2. PhaseFits'
      <4>1. Advance(NewInstalled) => Now'.phase = NewInstalled
        BY <1>3, OwnJournal DEF Recovered, Advance, Now, TypeInv, TypeOK, StatusOK, Journal
      <4> QED BY <1>3, <3>1, <4>1, Phases DEF Recovered, Goto, PhaseFits, ReadyPlaces, ForeignPlaces
    <3> QED BY <3>1, <3>2
  <2>2. CASE Advance(NewInstalled) /\ run.stop # "failed" /\ Now.phase < NewInstalled
    <3>1. NewInstalled \in Reserved..RetiringPrevious /\ SameSide(Now.phase, NewInstalled)
      BY <1>3, <2>2, Phases DEF Recovered, PhaseFits, SameSide
    <3>2. Agreement' /\ Now'.phase = NewInstalled
      BY <1>3, <2>2, <3>1, Advances DEF Recovered, records
    <3>3. PhaseFits'
      BY <1>3, <2>2, <3>2, Phases DEF Recovered, Goto, PhaseFits, ReadyPlaces, ForeignPlaces
    <3> QED BY <3>2, <3>3
  <2> QED BY <1>3, <2>1, <2>2 DEF Recovered
<1>4. ASSUME NEW f \in Files, SettleClaim(f) PROVE Agreement' /\ PhaseFits'
  <2>1. Agreement' /\ Now' = Now
    BY <1>0, <1>4, AgreementStays DEF SettleClaim, status, Now
  <2> QED BY <1>0, <1>4, <2>1 DEF SettleClaim, PhaseFits, ReadyPlaces, ForeignPlaces
<1> QED BY <1>1, <1>2, <1>3, <1>4 DEF RecoveryStep

LEMMA RequestKeepsRecords == Recorded /\ Request => Agreement' /\ PhaseFits'
<1> SUFFICES ASSUME Recorded, Request PROVE Agreement' /\ PhaseFits'
  OBVIOUS
<1>0. TypeInv /\ Agreement /\ PhaseFits
  BY DEF Recorded
<1>1. ASSUME NEW c \in Callers, CheckSheet(c) \/ CloseSheet(c) PROVE Agreement' /\ PhaseFits'
  <2>1. UNCHANGED <<journal, active, wait, manifest, pc, run>> /\ Now' = Now
    BY <1>1 DEF CheckSheet, CloseSheet, status, records, Now
  <2> QED BY <1>0, <2>1, AgreementStays DEF PhaseFits
<1>2. ASSUME NEW f \in Files, NEW review \in {"kept", "moved", "trashed"}, StartReview(f, review)
      PROVE  Agreement' /\ PhaseFits'
  <2>1. UNCHANGED <<journal, active, wait, manifest, pc, run>> /\ Now' = Now
    BY <1>2 DEF StartReview, status, records, Now
  <2> QED BY <1>0, <2>1, AgreementStays DEF PhaseFits
<1>3. CASE CancelApply
  <2>1. UNCHANGED <<journal, active, wait, manifest, pc>> /\ Now' = Now /\ run'.stop = run.stop
    BY <1>0, <1>3 DEF CancelApply, status, records, Now, TypeInv, TypeOK, RunOK, Run
  <2> QED BY <1>0, <2>1, AgreementStays DEF PhaseFits
<1>4. ASSUME NEW c \in Callers, Reserve(c) PROVE Agreement' /\ PhaseFits'
  <2>1. PICK g \in Gens :
           /\ \A h \in Gens : manifest[h] = "none" <=> h >= g
           /\ active' = g
           /\ manifest' = [(IF prep[c].gone THEN PreviousRetired ELSE manifest)
                              EXCEPT ![g] = "building"]
           /\ journal' = [journal EXCEPT ![g] =
                 [phase |-> Reserved, from |-> Unwritten, outcome |-> "none",
                  view |-> prep[c].view, building |-> Absent]]
    BY <1>4 DEF Reserve
  <2>2. /\ journal \in [Gens -> Journal] /\ manifest \in [Gens -> ManifestStates]
        /\ PreviousRetired \in [Gens -> ManifestStates]
        /\ active = 0 /\ ~wait /\ wait' = wait /\ g # 0 /\ pc' = "reserved"
    BY <1>0, <1>4, PreviousRetiredType, BoundsAssumption DEF Reserve, SheetHolds, Agreement,
       TypeInv, TypeOK, StatusOK, RecordsOK, Gens
  <2>3. \A h \in Gens : manifest'[h] = IF h = g THEN "building"
             ELSE IF prep[c].gone /\ manifest[h] = "previous" THEN "retired" ELSE manifest[h]
    BY <2>1, <2>2 DEF PreviousRetired
  <2>4. /\ \A h \in Gens : h # g => journal'[h] = journal[h]
        /\ journal'[g].phase = Reserved /\ journal'[g].outcome = "none"
        /\ Now'.phase = Reserved
    BY <2>1, <2>2 DEF Now
  <2>5. Unsettled' = {g}
    <3>1. \A h \in Gens : journal[h].phase \notin Reserved..RetiringPrevious
      BY <1>0, <2>2 DEF Agreement, Unsettled
    <3> QED BY <2>4, <3>1, Phases DEF Unsettled
  <2>6. \A h \in Gens : OutcomeFits(journal'[h])
    <3>1. OutcomeFits(journal'[g])
      BY <2>4, OutcomeSplit, Phases DEF Outcomes
    <3> QED BY <1>0, <2>4, <3>1 DEF Agreement
  <2>7. \A h \in Gens : ManifestFits(h)'
    <3> SUFFICES ASSUME NEW h \in Gens PROVE ManifestFits(h)'
      OBVIOUS
    <3>1. ManifestFits(h)
      BY <1>0 DEF Agreement
    <3>2. CASE h # g
      BY <2>3, <2>4, <3>1, <3>2 DEF ManifestFits
    <3>3. CASE h = g
      BY <2>3, <2>4, <3>3, Phases DEF ManifestFits
    <3> QED BY <3>2, <3>3
  <2>8. AtMostOne(InState("installed"))' /\ AtMostOne(InState("previous"))'
    <3>1. \A s \in {"installed", "previous"} : InState(s)' \subseteq InState(s)
      BY <2>3 DEF InState
    <3> QED BY <1>0, <3>1 DEF Agreement, AtMostOne
  <2>9. PhaseFits'
    BY <2>2, <2>4 DEF PhaseFits, ReadyPlaces, ForeignPlaces
  <2> QED BY <2>1, <2>2, <2>5, <2>6, <2>7, <2>8, <2>9 DEF Agreement
<1> QED BY <1>1, <1>2, <1>3, <1>4 DEF Request

LEMMA BesideKeepsRecords == Recorded /\ (ReviewStep \/ Failure \/ Outside) => Agreement' /\ PhaseFits'
<1> SUFFICES ASSUME Recorded, ReviewStep \/ Failure \/ Outside PROVE Agreement' /\ PhaseFits'
  OBVIOUS
<1>0. TypeInv /\ Agreement /\ PhaseFits
  BY DEF Recorded
<1>1. CASE UNCHANGED <<status, manifest, pc, run>>
  <2>1. Now' = Now
    BY <1>1 DEF status, Now
  <2> QED BY <1>0, <1>1, <2>1, AgreementStays DEF PhaseFits, status
<1>2. CASE RetireReviewed
  <2>1. Now' = Now
    BY <1>2 DEF RetireReviewed, status, Now
  <2> QED BY <1>0, <1>2, <2>1, RetiredAgrees DEF RetireReviewed, PhaseFits
<1>3. CASE Failure
  <2>1. UNCHANGED <<journal, active, wait, manifest>> /\ pc' \in {"idle", "stopped"}
    BY <1>3 DEF Failure, Crash, RunBreaksOff, Quit, Down, BreakOff, status, records
  <2> QED BY <1>0, <2>1, AgreementStays, NowhereFits
<1> QED
  BY <1>1, <1>2, <1>3 DEF ReviewStep, ActReview, RecordReview, ClearReviewed, Outside, Edit, Hold,
     Release, Occupy, UserDeletes, Remove, DeletePrevious, Vanish, WriteView, Litter, FilesChange,
     status, records

LEMMA RecordedInit == Init => Recorded
<1> SUFFICES ASSUME Init PROVE Recorded
  OBVIOUS
<1>1. TypeInv
  BY InitType
<1>2. /\ \A g \in Gens : journal[g] = NoJournal /\ manifest[g] = "none"
      /\ active = 0 /\ wait = FALSE /\ pc = "idle"
  BY DEF Init
<1>3. Agreement
  <2>1. Unsettled = {} /\ InState("installed") = {} /\ InState("previous") = {}
    BY <1>2, Phases DEF Unsettled, InState, NoJournal
  <2>2. \A g \in Gens : OutcomeFits(journal[g]) /\ ManifestFits(g)
    BY <1>2, Phases DEF OutcomeFits, ManifestFits, NoJournal
  <2> QED BY <1>2, <2>1, <2>2 DEF Agreement, AtMostOne
<1>4. PhaseFits
  BY <1>2 DEF PhaseFits, ReadyPlaces, ForeignPlaces
<1> QED BY <1>1, <1>3, <1>4 DEF Recorded

LEMMA RecordedStep == Recorded /\ [Next]_vars => Recorded'
<1> SUFFICES ASSUME Recorded, [Next]_vars PROVE Recorded'
  OBVIOUS
<1>1. TypeInv'
  BY TypeStep DEF Recorded
<1>2. CASE UNCHANGED vars
  <2>1. UNCHANGED <<journal, active, wait, manifest, pc, run>> /\ Now' = Now
    BY <1>2 DEF vars, Now
  <2> QED BY <1>1, <2>1, AgreementStays DEF Recorded, PhaseFits
<1> QED
  BY <1>1, <1>2, BuildKeepsRecords, SwapKeepsRecords, FinishKeepsRecords, EndKeepsRecords,
     RecoveryKeepsRecords, RequestKeepsRecords, BesideKeepsRecords DEF Next, RunStep, Recorded

\* The journal, the manifests and the Project's reservation tell one story in
\* every world and across every fault: an Apply is unsettled exactly while it
\* holds the Project, it settles only with an outcome its phase allows, its
\* manifest follows its phase, and one View at most is installed or previous.
THEOREM RecordsAgree == Spec => []Agreement
<1>1. Recorded => Agreement
  BY DEF Recorded
<1> QED BY <1>1, RecordedInit, RecordedStep, PTL DEF Spec

-----------------------------------------------------------------------------
(* No step destroys a file someone wrote.                                  *)

\* Where the folder a run builds stands at View (building)/.
BuiltPlaces == ReadyPlaces \cup {"made", "building", "built", "asideDone", "afterWait", "install"}

\* No file without its folder, and the folder of the Apply that builds is its own.
FoldersFit ==
    /\ \A p \in Places : ~Present(p) => dir[p].files = {}
    /\ pc \in BuiltPlaces => dir["building"].id = active

Founded == Recorded /\ FoldersFit

\* The names of a folder are different ones, and what an Apply made is there.
LEMMA Names ==
    /\ Absent # Alien /\ \A g \in Gens : g # Absent /\ g # Alien
    /\ Tool \subseteq Files /\ Entry \in Files /\ Entry \notin Tool
BY NamesAssumption DEF Gens, Files

\* What `remove_empty_folders` makes of a folder.
LEMMA EmptiedFits ==
    ASSUME NEW d \in Folder, d.id = Absent => d.files = {}
    PROVE  /\ Emptied(d).files = d.files
           /\ Emptied(d).id = IF d.files = {} THEN Absent ELSE d.id
BY DEF Emptied, NoFolder

\* The disk, by name.
LEMMA Disk ==
    ASSUME DiskOK
    PROVE  /\ \A p \in Places : dir[p] \in Folder /\ dir[p].files \subseteq Files
           /\ "view" \in Places /\ "building" \in Places /\ "previous" \in Places
           /\ \A f \in Files : kept[f] \in Nat /\ trash[f] \in Nat
BY DEF DiskOK, Folder, Places

\* A step that leaves each name its files keeps all copies.
LEMMA CopiesStay ==
    ASSUME TypeInv, \A p \in Places : dir'[p].files = dir[p].files, UNCHANGED <<kept, trash>>
    PROVE  \A f \in Tool : Copies(f)' >= Copies(f)
<1> SUFFICES ASSUME NEW f \in Tool PROVE Copies(f)' >= Copies(f)
  OBVIOUS
<1>1. kept[f] \in Nat /\ trash[f] \in Nat
  BY Disk, Names DEF TypeInv, TypeOK
<1>2. Copies(f)' = Copies(f)
  BY Disk DEF Copies, TypeInv, TypeOK
<1>3. Copies(f) \in Nat
  BY <1>1 DEF Copies
<1> QED BY <1>2, <1>3

\* One name may get more files, or lose what PlateVault placed.
LEMMA CopiesGrow ==
    ASSUME TypeInv, NEW q \in Places, \A p \in Places \ {q} : dir'[p].files = dir[p].files,
           dir[q].files \ {Entry} \subseteq dir'[q].files, UNCHANGED <<kept, trash>>
    PROVE  \A f \in Tool : Copies(f)' >= Copies(f)
<1> SUFFICES ASSUME NEW f \in Tool PROVE Copies(f)' >= Copies(f)
  OBVIOUS
<1>1. kept[f] \in Nat /\ trash[f] \in Nat /\ f # Entry
  BY Disk, Names DEF TypeInv, TypeOK
<1>2. \A p \in Places : f \in dir[p].files => f \in dir'[p].files
  BY <1>1
<1> QED BY <1>1, <1>2, Disk DEF Copies, TypeInv, TypeOK

\* A step that keeps what a folder is, and every copy of what someone wrote.
Harmless == FoldersFit' /\ \A f \in Tool : Copies(f)' >= Copies(f)

\* A step that leaves the disk alone does no harm.
LEMMA DiskStays ==
    ASSUME Founded, UNCHANGED disk,
           pc' \in BuiltPlaces => pc \in BuiltPlaces /\ active' = active
    PROVE  Harmless
<1>1. UNCHANGED <<dir, kept, trash>>
  BY DEF disk
<1>2. \A f \in Tool : Copies(f)' >= Copies(f)
  BY <1>1, CopiesStay DEF Founded, Recorded
<1>3. FoldersFit'
  BY <1>1 DEF Founded, FoldersFit, Present
<1> QED BY <1>2, <1>3 DEF Harmless

\* Nor does one that changes one folder, of which only PlateVault's entries go.
LEMMA OneFolder ==
    ASSUME Founded, NEW q \in Places, NEW d \in Folder, dir' = [dir EXCEPT ![q] = d],
           d.id = Absent => d.files = {}, dir[q].files \ {Entry} \subseteq d.files,
           UNCHANGED <<kept, trash>>,
           pc' \in BuiltPlaces => IF q = "building" THEN d.id = active'
                                  ELSE pc \in BuiltPlaces /\ active' = active
    PROVE  Harmless
<1>1. \A p \in Places : dir'[p] = IF p = q THEN d ELSE dir[p]
  BY DEF Founded, Recorded, TypeInv, TypeOK, DiskOK
<1>2. \A f \in Tool : Copies(f)' >= Copies(f)
  BY <1>1, CopiesGrow DEF Founded, Recorded
<1>3. FoldersFit'
  BY <1>1 DEF Founded, FoldersFit, Present, Places
<1> QED BY <1>2, <1>3 DEF Harmless

\* The files of one folder that is there change.
LEMMA OneFolderFiles ==
    ASSUME Founded, NEW q \in Places, NEW files \in SUBSET Files,
           dir' = [dir EXCEPT ![q].files = files],
           Present(q) \/ files = {}, dir[q].files \ {Entry} \subseteq files,
           UNCHANGED <<kept, trash>>,
           pc' \in BuiltPlaces => pc \in BuiltPlaces /\ active' = active
    PROVE  Harmless
<1> DEFINE d == [dir[q] EXCEPT !.files = files]
<1>1. d \in Folder /\ d.id = dir[q].id /\ d.files = files
  BY Disk DEF Founded, Recorded, TypeInv, TypeOK, Folder
<1>2. dir' = [dir EXCEPT ![q] = d]
  BY DEF Founded, Recorded, TypeInv, TypeOK, DiskOK
<1> HIDE DEF d
<1>3. pc' \in BuiltPlaces => IF q = "building" THEN d.id = active'
                             ELSE pc \in BuiltPlaces /\ active' = active
  BY <1>1 DEF Founded, FoldersFit
<1>4. d.id = Absent => d.files = {}
  BY <1>1 DEF Present
<1> QED BY <1>1, <1>2, <1>3, <1>4, OneFolder

\* `remove_empty_folders` on a folder, of which PlateVault's entries went first.
LEMMA OneFolderEmptied ==
    ASSUME Founded, NEW q \in Places, NEW files \in SUBSET dir[q].files,
           dir' = [dir EXCEPT ![q] = Emptied([dir[q] EXCEPT !.files = files])],
           dir[q].files \ {Entry} \subseteq files, UNCHANGED <<kept, trash>>,
           pc' \in BuiltPlaces => q # "building" /\ pc \in BuiltPlaces /\ active' = active
    PROVE  Harmless
<1> DEFINE d == [dir[q] EXCEPT !.files = files]
<1>1. d \in Folder /\ d.id = dir[q].id /\ d.files = files
  BY Disk DEF Founded, Recorded, TypeInv, TypeOK, Folder
<1>2. d.id = Absent => d.files = {}
  BY <1>1 DEF Founded, FoldersFit, Present
<1> HIDE DEF d
<1>3. dir' = [dir EXCEPT ![q] = Emptied(d)]
  BY DEF d
<1>4. Emptied(d) \in Folder
  BY <1>1, EmptyRecords DEF Emptied
<1>5. Emptied(d).files = files /\ (Emptied(d).id = Absent => files = {})
  BY <1>1, <1>2, EmptiedFits
<1> QED BY <1>3, <1>4, <1>5, OneFolder

\* Nor does a rename, which takes a folder, files and all, to a free name.
LEMMA Moved ==
    ASSUME Founded, NEW p \in Places, NEW q \in Places, CanRename(p, q),
           dir' = Renamed(p, q), UNCHANGED <<kept, trash>>,
           pc' \in BuiltPlaces => p # "building" /\ q # "building" /\ pc \in BuiltPlaces
                                  /\ active' = active
    PROVE  Harmless
<1>0. p # q /\ dir \in [Places -> Folder] /\ FoldersFit
  BY DEF CanRename, Founded, Recorded, TypeInv, TypeOK, DiskOK
<1>1. \A s \in Places : dir'[s] = IF s = q THEN dir[p] ELSE IF s = p THEN NoFolder ELSE dir[s]
  BY <1>0 DEF Renamed
<1>2. FoldersFit'
  BY <1>0, <1>1 DEF Present, NoFolder, FoldersFit, Places
<1>3. dir[q].files = {} /\ dir'[q].files = dir[p].files /\ dir'[p].files = {}
  BY <1>0, <1>1 DEF CanRename, FoldersFit, NoFolder
<1>4. ASSUME NEW f \in Tool PROVE Copies(f)' >= Copies(f)
  <2>1. kept[f] \in Nat /\ trash[f] \in Nat
    BY Disk, Names DEF Founded, Recorded, TypeInv, TypeOK
  <2> QED BY <1>0, <1>1, <1>3, <2>1 DEF Copies, Places
<1> QED BY <1>2, <1>4 DEF Harmless

\* A file of View (previous)/ goes to its free name in View/.
MovesBack(f) ==
    /\ f \in dir["previous"].files /\ Present("view") /\ f \notin dir["view"].files
    /\ dir' = [dir EXCEPT !["previous"].files = @ \ {f}, !["view"].files = @ \cup {f}]

LEMMA MovesBackWhole ==
    ASSUME Founded, NEW f \in Files, MovesBack(f), UNCHANGED <<kept, trash>>,
           pc' \in BuiltPlaces => pc \in BuiltPlaces /\ active' = active
    PROVE  Harmless
<1>0. dir \in [Places -> Folder] /\ FoldersFit
  BY DEF Founded, Recorded, TypeInv, TypeOK, DiskOK
<1>1. \A p \in Places : /\ dir'[p].id = dir[p].id
                        /\ dir'[p].files = CASE p = "previous" -> dir[p].files \ {f}
                                             [] p = "view" -> dir[p].files \cup {f}
                                             [] p = "building" -> dir[p].files
  BY <1>0 DEF MovesBack, Folder, Places
<1>2. FoldersFit'
  BY <1>0, <1>1 DEF MovesBack, FoldersFit, Present, Places
<1>3. ASSUME NEW h \in Tool PROVE Copies(h)' >= Copies(h)
  <2>1. kept[h] \in Nat /\ trash[h] \in Nat
    BY Disk, Names DEF Founded, Recorded, TypeInv, TypeOK
  <2>2. /\ dir'["building"].files = dir["building"].files
        /\ dir'["previous"].files = dir["previous"].files \ {f}
        /\ dir'["view"].files = dir["view"].files \cup {f}
    BY <1>1 DEF Places
  <2>3. CASE h = f
    <3>1. /\ h \in dir["previous"].files /\ h \notin dir["view"].files
          /\ h \notin dir'["previous"].files /\ h \in dir'["view"].files
      BY <2>2, <2>3 DEF MovesBack
    <3> QED BY <2>1, <2>2, <3>1 DEF Copies
  <2>4. CASE h # f
    BY <2>1, <2>2, <2>4 DEF Copies
  <2> QED BY <2>3, <2>4
<1> QED BY <1>2, <1>3 DEF Harmless

LEMMA BuildDoesNoHarm == Founded /\ BuildStep => Harmless
<1> SUFFICES ASSUME Founded, BuildStep PROVE Harmless
  OBVIOUS
<1>0. TypeInv /\ DiskOK /\ dir \in [Places -> Folder] /\ "building" \in Places
      /\ dir["building"].files \subseteq Files /\ FoldersFit
  BY Disk DEF Founded, Recorded, TypeInv, TypeOK, DiskOK
<1>1. CASE Reread \/ VerifySources \/ RecordBuilding \/ VerifyBuild
  <2>1. UNCHANGED disk /\ (pc' \in BuiltPlaces => pc \in BuiltPlaces /\ active' = active)
    BY <1>1 DEF Reread, VerifySources, RecordBuilding, VerifyBuild, Goto, End, BuiltPlaces,
       ReadyPlaces, status
  <2> QED BY <2>1, DiskStays
<1>2. CASE MakeBuilding
  <2> DEFINE stays(unproven) == dir["building"].files \ ({Entry} \ unproven)
  <2>1. PICK unproven \in SUBSET {Entry} :
           IF stays(unproven) = {}
             THEN /\ dir' = [dir EXCEPT !["building"] = [id |-> active, files |-> {}]]
                  /\ pc' = "made"
             ELSE /\ dir' = [dir EXCEPT !["building"].files = stays(unproven)]
                  /\ pc' = "ending"
    BY <1>2 DEF MakeBuilding, End
  <2>2. active' = active /\ UNCHANGED <<kept, trash>> /\ active \in Gens
    BY <1>2, <1>0, AtWork DEF MakeBuilding, status, Running, RunPlaces
  <2>3. CASE stays(unproven) = {}
    <3> DEFINE d == [id |-> active, files |-> {}]
    <3>1. d \in Folder /\ d.id = active /\ d.files = {} /\ active # Absent
      BY <2>2, Names DEF Folder, Identities
    <3>2. dir' = [dir EXCEPT !["building"] = d] /\ dir["building"].files \ {Entry} \subseteq d.files
      BY <2>1, <2>3
    <3> HIDE DEF d
    <3> QED BY <1>0, <2>2, <3>1, <3>2, OneFolder
  <2>4. CASE stays(unproven) # {}
    <3>1. /\ dir' = [dir EXCEPT !["building"].files = stays(unproven)]
          /\ stays(unproven) \in SUBSET Files
          /\ dir["building"].files \ {Entry} \subseteq stays(unproven)
      BY <1>0, <2>1, <2>4
    <3>2. Present("building") /\ pc' \notin BuiltPlaces
      BY <1>0, <2>1, <2>4 DEF FoldersFit, BuiltPlaces, ReadyPlaces
    <3> HIDE DEF stays
    <3> QED BY <1>0, <2>2, <3>1, <3>2, OneFolderFiles
  <2> QED BY <2>3, <2>4
<1>3. CASE Place
  <2>1. PICK made \in SUBSET {Entry} :
           dir' = [dir EXCEPT !["building"].files = dir["building"].files \cup made]
    BY <1>3 DEF Place
  <2>2. Present("building")
    BY <1>0, <1>3, AtWork, Names
       DEF Place, FoldersFit, BuiltPlaces, Present, Running, RunPlaces
  <2>3. UNCHANGED <<kept, trash>> /\ pc \in BuiltPlaces /\ active' = active
    BY <1>3 DEF Place, BuiltPlaces, status
  <2>4. dir["building"].files \cup made \in SUBSET Files
    BY SMTT(30), <1>0, Names
  <2> QED BY <1>0, <2>1, <2>2, <2>3, <2>4, OneFolderFiles
<1> QED BY <1>1, <1>2, <1>3 DEF BuildStep

LEMMA SwapDoesNoHarm == Founded /\ SwapStep => Harmless
<1> SUFFICES ASSUME Founded, SwapStep PROVE Harmless
  OBVIOUS
<1>0. /\ TypeInv /\ DiskOK /\ dir \in [Places -> Folder] /\ FoldersFit
      /\ "previous" \in Places /\ dir["previous"].files \subseteq Files
  BY Disk DEF Founded, Recorded, TypeInv, TypeOK, DiskOK
<1>1. CASE UNCHANGED disk
  <2>1. pc' \in BuiltPlaces => pc \in BuiltPlaces /\ active' = active
    BY <1>1 DEF SwapStep, EnterSwap, ClaimKept, SkipKept, MoveKept, RecordKept, RecordMissing,
       ClearPrevious, RetirePrevious, CheckSwap, MoveAside, AsideFails, StartWait, CancelWait,
       RecordAside, AfterWait, Install, InstallFails, Restore, RestoreFails, RecordInstalled,
       Goto, End, BreakOff, BuiltPlaces, ReadyPlaces, status
  <2> QED BY SMTT(30), <1>1, <2>1, DiskStays
<1>2. CASE MoveKept /\ ~UNCHANGED disk
  <2>1. /\ run.at \in dir["previous"].files /\ run.at \in Files
        /\ dir' = [dir EXCEPT !["previous"].files = dir["previous"].files \ {run.at}]
        /\ kept' = [kept EXCEPT ![run.at] = kept[run.at] + 1] /\ trash' = trash
        /\ pc = "claimed" /\ pc' = "recording" /\ active' = active
    BY <1>0, <1>2, AtWork DEF MoveKept, Running, RunPlaces, disk, status
  <2>2. \A p \in Places : dir'[p] = IF p = "previous"
             THEN [dir[p] EXCEPT !.files = dir[p].files \ {run.at}] ELSE dir[p]
    BY <1>0, <2>1
  <2>3. \A p \in Places : /\ dir'[p].id = dir[p].id
                          /\ dir'[p].files = IF p = "previous" THEN dir[p].files \ {run.at}
                                             ELSE dir[p].files
    BY <1>0, <2>2 DEF Folder
  <2>4. FoldersFit'
    BY <1>0, <2>1, <2>3 DEF FoldersFit, BuiltPlaces, ReadyPlaces, Present, Places
  <2>5. ASSUME NEW f \in Tool PROVE Copies(f)' >= Copies(f)
    <3>1. /\ kept[f] \in Nat /\ trash[f] \in Nat
          /\ kept'[f] = IF f = run.at THEN kept[f] + 1 ELSE kept[f]
      BY <1>0, <2>1, Names DEF DiskOK
    <3> QED BY <2>1, <2>3, <3>1, Disk, <1>0 DEF Copies
  <2> QED BY <2>4, <2>5 DEF Harmless
<1>3. CASE ClearPrevious
  <2>1. dir' = [dir EXCEPT !["previous"] = Emptied(dir["previous"])]
        /\ UNCHANGED <<kept, trash>> /\ active' = active
    BY <1>3 DEF ClearPrevious, status
  <2>2. dir["previous"] = [dir["previous"] EXCEPT !.files = dir["previous"].files]
    BY <1>0 DEF Folder
  <2>3. pc' \in BuiltPlaces => pc \in BuiltPlaces
    BY <1>3 DEF ClearPrevious, BuiltPlaces, ReadyPlaces
  <2>4. dir["previous"].files \in SUBSET dir["previous"].files
        /\ dir["previous"].files \ {Entry} \subseteq dir["previous"].files
    OBVIOUS
  <2> QED BY <1>0, <2>1, <2>2, <2>3, <2>4, OneFolderEmptied
<1>4. CASE MoveAside \/ Install \/ Restore
  <2>1. PICK p \in Places, q \in Places :
           /\ CanRename(p, q) /\ dir' = Renamed(p, q) /\ UNCHANGED <<kept, trash>>
           /\ pc' \in BuiltPlaces => p # "building" /\ q # "building" /\ pc \in BuiltPlaces
           /\ active' = active
    BY <1>4 DEF MoveAside, Install, Restore, Goto, End, BuiltPlaces, ReadyPlaces, Places, status
  <2> QED BY <2>1, Moved
<1> QED BY <1>1, <1>2, <1>3, <1>4
        DEF SwapStep, EnterSwap, ClaimKept, SkipKept, RecordKept, RecordMissing, RetirePrevious,
            CheckSwap, AsideFails, StartWait, CancelWait, RecordAside, AfterWait, InstallFails,
            RestoreFails, RecordInstalled, MoveKept

LEMMA FinishDoesNoHarm == Founded /\ FinishStep => Harmless
<1> SUFFICES ASSUME Founded, FinishStep PROVE Harmless
  OBVIOUS
<1>0. /\ TypeInv /\ DiskOK /\ dir \in [Places -> Folder]
      /\ "previous" \in Places /\ dir["previous"].files \subseteq Files
  BY Disk DEF Founded, Recorded, TypeInv, TypeOK, DiskOK
<1>1. pc' \notin BuiltPlaces
  BY DEF FinishStep, Commit, CommitRefused, ReadInstalled, LeaveForeign, ClaimForeign,
     MoveForeign, RecordForeign, EndForeign, SettleFirst, StartRetiring, Retire, Settle,
     SettleRefused, Goto, BreakOff, BuiltPlaces, ReadyPlaces
<1>2. CASE UNCHANGED disk
  BY <1>1, <1>2, DiskStays
<1>3. CASE MoveForeign /\ ~UNCHANGED disk
  <2>1. run.at \in Files /\ UNCHANGED <<kept, trash>>
    BY <1>0, <1>3, AtWork DEF MoveForeign, Running, RunPlaces
  <2>2. MovesBack(run.at)
    BY <1>3 DEF MoveForeign, disk, MovesBack
  <2> QED BY <1>1, <2>1, <2>2, MovesBackWhole
<1>4. CASE Retire
  <2> DEFINE stays(unproven) == dir["previous"].files \ ({Entry} \ unproven)
  <2>1. PICK unproven \in SUBSET {Entry} :
           dir' = [dir EXCEPT !["previous"] =
                      Emptied([dir["previous"] EXCEPT !.files = stays(unproven)])]
    BY <1>4 DEF Retire
  <2>2. stays(unproven) \in SUBSET dir["previous"].files
        /\ dir["previous"].files \ {Entry} \subseteq stays(unproven)
    OBVIOUS
  <2>3. UNCHANGED <<kept, trash>>
    BY <1>4 DEF Retire
  <2> HIDE DEF stays
  <2> QED BY <1>0, <1>1, <2>1, <2>2, <2>3, OneFolderEmptied
<1> QED BY <1>2, <1>3, <1>4
        DEF FinishStep, Commit, CommitRefused, ReadInstalled, LeaveForeign, ClaimForeign,
            RecordForeign, EndForeign, SettleFirst, StartRetiring, Settle, SettleRefused,
            MoveForeign

LEMMA EndDoesNoHarm == Founded /\ EndStep => Harmless
<1> SUFFICES ASSUME Founded, EndStep PROVE Harmless
  OBVIOUS
<1>1. pc' \notin BuiltPlaces
  BY DEF EndStep, ClearBuilding, Discard, BuiltPlaces, ReadyPlaces
<1>2. CASE ClearBuilding
  <2> DEFINE stays(unproven) == dir["building"].files \ ({Entry} \ unproven)
  <2>1. PICK unproven \in SUBSET {Entry} :
           dir' = [dir EXCEPT !["building"] =
                      Emptied([dir["building"] EXCEPT !.files = stays(unproven)])]
    BY <1>2 DEF ClearBuilding
  <2>2. stays(unproven) \in SUBSET dir["building"].files /\ "building" \in Places
        /\ dir["building"].files \ {Entry} \subseteq stays(unproven)
    BY DEF Places
  <2>3. UNCHANGED <<kept, trash>>
    BY <1>2 DEF ClearBuilding
  <2> HIDE DEF stays
  <2> QED BY <1>1, <2>1, <2>2, <2>3, OneFolderEmptied
<1> QED BY <1>1, <1>2, DiskStays DEF EndStep, Discard

LEMMA RecoveryDoesNoHarm == Founded /\ RecoveryStep => Harmless
<1> SUFFICES ASSUME Founded, RecoveryStep PROVE Harmless
  OBVIOUS
<1>1. CASE Start
  <2>1. active' = active
    BY <1>1 DEF Start, Founded, Recorded, Agreement
  <2>2. pc' \in BuiltPlaces => pc \in BuiltPlaces
    BY <1>1 DEF Start, BuiltPlaces, ReadyPlaces
  <2> QED BY <1>1, <2>1, <2>2, DiskStays DEF Start
<1>2. CASE RecoverFolders
  <2>1. pc' \notin BuiltPlaces /\ UNCHANGED <<kept, trash>>
    BY <1>2 DEF RecoverFolders, RecoverAs, Stuck, BreakOff, BuiltPlaces, ReadyPlaces
  <2>2. \/ UNCHANGED dir
        \/ CanRename("building", "view") /\ dir' = Renamed("building", "view")
        \/ CanRename("previous", "view") /\ dir' = Renamed("previous", "view")
    <3>1. Now.building # Absent /\ dir["building"].id = Now.building => Present("building")
      BY DEF Present
    <3>2. OldAside => Present("previous")
      BY DEF Present, OldAside
    <3> QED BY <1>2, <3>1, <3>2 DEF RecoverFolders, CanRename
  <2> QED BY <2>1, <2>2, Moved, DiskStays DEF disk, Places
<1>3. CASE Recovered
  BY <1>3, DiskStays DEF Recovered, Goto, BuiltPlaces, ReadyPlaces
<1>4. ASSUME NEW f \in Files, SettleClaim(f) PROVE Harmless
  BY <1>4, DiskStays DEF SettleClaim, BuiltPlaces, ReadyPlaces
<1> QED BY <1>1, <1>2, <1>3, <1>4 DEF RecoveryStep

LEMMA ReviewDoesNoHarm == Founded /\ ReviewStep => Harmless
<1> SUFFICES ASSUME Founded, ReviewStep PROVE Harmless
  OBVIOUS
<1>0. /\ dir \in [Places -> Folder] /\ "previous" \in Places /\ FoldersFit
      /\ trash \in [Files -> Nat] /\ dir["previous"] \in Folder /\ rv.file \in Files
      /\ pc' = pc /\ active' = active /\ UNCHANGED kept
  BY Disk DEF Founded, Recorded, TypeInv, TypeOK, DiskOK, OthersOK, Review, ReviewStep,
     ActReview, RecordReview, ClearReviewed, RetireReviewed, status, disk
<1>1. CASE UNCHANGED disk
  BY <1>0, <1>1, DiskStays
<1>2. CASE ActReview /\ MovesBack(rv.file) /\ UNCHANGED trash
  BY <1>0, <1>2, MovesBackWhole
<1>3. CASE ActReview /\ trash' = [trash EXCEPT ![rv.file] = @ + 1]
           /\ rv.file \in dir["previous"].files
           /\ dir' = [dir EXCEPT !["previous"].files = @ \ {rv.file}]
  <2>1. \A p \in Places : /\ dir'[p].id = dir[p].id
                          /\ dir'[p].files = IF p = "previous" THEN dir[p].files \ {rv.file}
                                             ELSE dir[p].files
    BY <1>0, <1>3 DEF Folder
  <2>2. FoldersFit'
    BY <1>0, <2>1 DEF FoldersFit, Present, Places
  <2>3. ASSUME NEW f \in Tool PROVE Copies(f)' >= Copies(f)
    <3>1. /\ kept[f] \in Nat /\ trash[f] \in Nat
          /\ trash'[f] = IF f = rv.file THEN trash[f] + 1 ELSE trash[f]
      BY <1>0, <1>3, Disk, Names DEF Founded, Recorded, TypeInv, TypeOK
    <3> QED BY <1>0, <1>3, <2>1, <3>1 DEF Copies, Places
  <2> QED BY <2>2, <2>3 DEF Harmless
<1>4. CASE ClearReviewed
  <2>1. dir' = [dir EXCEPT !["previous"] = Emptied(dir["previous"])] /\ UNCHANGED trash
    BY <1>4 DEF ClearReviewed
  <2>2. dir["previous"] = [dir["previous"] EXCEPT !.files = dir["previous"].files]
    BY <1>0 DEF Folder
  <2>3. dir["previous"].files \in SUBSET dir["previous"].files
        /\ dir["previous"].files \ {Entry} \subseteq dir["previous"].files
    OBVIOUS
  <2> QED BY <1>0, <2>1, <2>2, <2>3, OneFolderEmptied
<1>5. ActReview => \/ UNCHANGED disk
                   \/ MovesBack(rv.file) /\ UNCHANGED trash
                   \/ /\ trash' = [trash EXCEPT ![rv.file] = @ + 1]
                      /\ rv.file \in dir["previous"].files
                      /\ dir' = [dir EXCEPT !["previous"].files = @ \ {rv.file}]
  BY <1>0 DEF ActReview, StillThere, MovesBack, disk
<1> QED BY <1>1, <1>2, <1>3, <1>4, <1>5 DEF ReviewStep, RecordReview, RetireReviewed

LEMMA RequestDoesNoHarm == Founded /\ (Request \/ Failure) => Harmless
<1> SUFFICES ASSUME Founded, Request \/ Failure PROVE Harmless
  OBVIOUS
<1>1. ASSUME NEW c \in Callers, CheckSheet(c) PROVE Harmless
  <2>1. /\ dir' = [dir EXCEPT !["previous"] = Emptied(dir["previous"])]
        /\ UNCHANGED <<kept, trash>> /\ pc' = pc /\ active' = active
    BY <1>1 DEF CheckSheet, status
  <2>2. "previous" \in Places /\ dir["previous"] \in Folder
    BY Disk DEF Founded, Recorded, TypeInv, TypeOK
  <2>3. dir["previous"] = [dir["previous"] EXCEPT !.files = dir["previous"].files]
    BY <2>2 DEF Folder
  <2>4. dir["previous"].files \in SUBSET dir["previous"].files
        /\ dir["previous"].files \ {Entry} \subseteq dir["previous"].files
    OBVIOUS
  <2> QED BY <2>1, <2>2, <2>3, <2>4, OneFolderEmptied
<1>2. UNCHANGED disk => (pc' \in BuiltPlaces => pc \in BuiltPlaces /\ active' = active)
  BY ZenonT(60) DEF Request, CheckSheet, Reserve, CloseSheet, StartReview, CancelApply, Failure, Crash,
     RunBreaksOff, Quit, Down, BreakOff, BuiltPlaces, ReadyPlaces, status
<1> QED
  BY <1>1, <1>2, DiskStays DEF Request, Reserve, CloseSheet, StartReview, CancelApply, Failure,
     Crash, RunBreaksOff, Quit, Down

\* What the user deletes is gone, but no file is left without its folder.
LEMMA OutsideDoesNoHarm == Founded /\ Outside => (UserDeletes /\ FoldersFit') \/ Harmless
<1> SUFFICES ASSUME Founded, Outside PROVE (UserDeletes /\ FoldersFit') \/ Harmless
  OBVIOUS
<1>0. /\ dir \in [Places -> Folder] /\ FoldersFit /\ pc' = pc /\ active' = active
      /\ UNCHANGED <<kept, trash>>
  BY DEF Founded, Recorded, TypeInv, TypeOK, DiskOK, Outside, UserDeletes, Edit, Hold, Release,
     Occupy, WriteView, Litter, Remove, DeletePrevious, Vanish, FilesChange, status, disk
<1>1. CASE UNCHANGED disk
  BY <1>0, <1>1, DiskStays
<1>2. CASE Occupy
  <2> DEFINE d == [id |-> Alien, files |-> {}]
  <2>1. d \in Folder /\ d.id # Absent /\ dir' = [dir EXCEPT !["view"] = d] /\ "view" \in Places
    BY <1>2, Names DEF Occupy, Folder, Identities, Places
  <2>2. dir["view"].files = {}
    BY <1>0, <1>2 DEF Occupy, FoldersFit, Places
  <2> HIDE DEF d
  <2> QED BY <1>0, <2>1, <2>2, OneFolder
<1>3. ASSUME NEW f \in Tool, WriteView(f) \/ Litter(f) PROVE Harmless
  <2>1. PICK p \in Places : /\ Present(p)
                            /\ dir' = [dir EXCEPT ![p].files = dir[p].files \cup {f}]
    BY <1>3 DEF WriteView, Litter, FilesChange, Places
  <2>2. dir[p].files \cup {f} \in SUBSET Files
    BY <1>0, Names DEF Folder
  <2> QED BY <1>0, <2>1, <2>2, OneFolderFiles
<1>4. CASE UserDeletes
  <2>1. PICK p \in {"view", "previous"} :
           \/ dir' = [dir EXCEPT ![p] = NoFolder]
           \/ \E f \in dir[p].files : dir' = [dir EXCEPT ![p].files = dir[p].files \ {f}]
    BY <1>4 DEF UserDeletes, Remove, DeletePrevious, Vanish, FilesChange
  <2>2. \A q \in Places : /\ dir'[q] = NoFolder \/ dir'[q].id = dir[q].id
                          /\ dir'[q].files \subseteq dir[q].files
                          /\ q # p => dir'[q] = dir[q]
    BY <1>0, <2>1 DEF NoFolder, Folder, Places
  <2> QED BY <1>0, <1>4, <2>2 DEF FoldersFit, Present, NoFolder, Places
<1> QED
  BY <1>1, <1>2, <1>3, <1>4 DEF Outside, Edit, Hold, Release, disk

LEMMA FoundedInit == Init => Founded
<1> SUFFICES ASSUME Init PROVE Founded
  OBVIOUS
<1>1. FoldersFit
  BY DEF Init, FoldersFit, NoFolder, BuiltPlaces, ReadyPlaces
<1> QED BY <1>1, RecordedInit DEF Founded

LEMMA FoundedStep ==
    Founded /\ [Next]_vars =>
        Founded' /\ (UNCHANGED vars \/ UserDeletes \/ \A f \in Tool : Copies(f)' >= Copies(f))
<1> SUFFICES ASSUME Founded, [Next]_vars
             PROVE  Founded' /\ (UNCHANGED vars \/ UserDeletes
                                   \/ \A f \in Tool : Copies(f)' >= Copies(f))
  OBVIOUS
<1>1. Recorded'
  BY RecordedStep DEF Founded
<1>2. CASE UNCHANGED vars
  <2>1. UNCHANGED <<dir, pc, active>>
    BY <1>2 DEF vars
  <2>2. FoldersFit'
    BY <2>1 DEF Founded, FoldersFit, Present
  <2> QED BY <1>1, <1>2, <2>2 DEF Founded
<1>3. CASE Next
  <2>1. Harmless \/ (UserDeletes /\ FoldersFit')
    BY <1>3, BuildDoesNoHarm, SwapDoesNoHarm, FinishDoesNoHarm, EndDoesNoHarm,
       RecoveryDoesNoHarm, ReviewDoesNoHarm, RequestDoesNoHarm, OutsideDoesNoHarm
       DEF Next, RunStep
  <2> QED BY <1>1, <2>1 DEF Harmless, Founded
<1> QED BY <1>2, <1>3

\* In every world no step of PlateVault destroys a file a tool or the user
\* wrote: the renames of the swap and of a recovery, the retirement, the moves
\* to View (kept)/ and back, and the reviews leave as many copies as before.
THEOREM NothingDestroyed == Spec => NoFileLost
<1>1. Founded /\ [Next]_vars => [UserDeletes \/ \A f \in Tool : Copies(f)' >= Copies(f)]_vars
  BY FoundedStep
<1>2. Founded /\ [Next]_vars => Founded'
  BY FoundedStep
<1> QED BY <1>1, <1>2, FoundedInit, PTL DEF Spec, NoFileLost

-----------------------------------------------------------------------------
(* Where the old and the new View stand, unless the user takes the folders *)
(* away: nothing is deleted and nothing else takes the name View/.         *)

Unmoved == World \cap {"vanish", "occupy", "remove"} = {}

\* Views that were installed once.
Past == {g \in Gens : manifest[g] \in {"previous", "retired"}}

\* `i` is the identity of the installed View, Absent before the first.
Installed(i) == InState("installed") = (IF i = Absent THEN {} ELSE {i})

\* The View an Apply found: at View/ still, at View (previous)/, or there
\* while the new one is not in place yet, or with the new one in place.
InPlace  == dir["view"].id = Now.view
OldThere == dir["previous"].id = Now.view /\ Entry \in dir["previous"].files
Aside    == Now.view # Absent /\ ~Present("view") /\ OldThere
Switched == dir["view"].id = active /\ (Now.view # Absent => OldThere)

\* An Apply whose manifest is not committed.
Pending == active # 0 /\ Now.phase <= NewInstalled

StandFits ==
    /\ active = 0 => Installed(dir["view"].id)
    /\ Pending => Installed(Now.view) /\ (InPlace \/ Aside \/ Switched)
    /\ active # 0 /\ ~Pending => Installed(active) /\ dir["view"].id = active
    /\ active # 0 /\ Now.phase < BuildVerified => InPlace
    /\ active # 0 /\ Now.phase = NewInstalled => Switched
    /\ active # 0 /\ Now.phase >= Building => Now.building = active

\* The same by the place a run stands at; what it built holds its entries.
RunFits ==
    /\ pc \in ReadyPlaces \cup {"ending"} => InPlace
    /\ pc \in {"aside", "waiting"} => Now.view # Absent
    /\ pc \in {"asideDone", "afterWait", "restore"} => Aside
    /\ pc = "install" => IF Now.view = Absent THEN InPlace ELSE Aside
    /\ pc = "placed" => Switched
    /\ pc = "settleClaims" /\ run.stop = "failed" => InPlace
    /\ pc = "settleClaims" /\ run.stop = "installed" => dir["view"].id = active
    /\ pc \in BuiltPlaces \ {"made", "building"} => Entry \in dir["building"].files

\* No review and no sheet names a folder that is not of the past or the
\* present, and View (previous)/ is of the past unless a swap is under way.
PastFits ==
    /\ Present("view") => Entry \in dir["view"].files
    /\ \A f \in Files : leftover[f].in \in Past \cup {Absent}
    /\ \/ dir["previous"].id \in Past \cup {Absent}
       \/ Pending /\ ~InPlace /\ dir["previous"].id = Now.view
    /\ \A c \in Callers : prep[c].open =>
          prep[c].installed = (IF prep[c].view = Absent THEN {} ELSE {prep[c].view})

Placed == StandFits /\ RunFits /\ PastFits
Whole  == Founded /\ Placed

\* What Whole is made of.
LEMMA WholeParts ==
    ASSUME Whole
    PROVE  /\ Founded /\ Recorded /\ TypeInv /\ Agreement /\ PhaseFits /\ FoldersFit
           /\ StandFits /\ RunFits /\ PastFits
           /\ DiskOK /\ dir \in [Places -> Folder] /\ journal \in [Gens -> Journal]
           /\ manifest \in [Gens -> ManifestStates]
BY DEF Whole, Placed, Founded, Recorded, TypeInv, TypeOK, DiskOK, StatusOK, RecordsOK

\* The active Apply, its own journal.
LEMMA ActiveJournal ==
    ASSUME Whole, active # 0
    PROVE  /\ active \in Gens /\ active # Absent /\ Now \in Journal
           /\ Now.phase \in Reserved..RetiringPrevious
           /\ manifest[active] = "building" <=> Now.phase <= NewInstalled
           /\ Pending <=> Now.phase <= NewInstalled
<1> USE WholeParts
<1>1. active \in Gens /\ Now.phase \in Reserved..RetiringPrevious
  <2>1. active \in Unsettled
    BY DEF Agreement
  <2> QED BY <2>1 DEF Unsettled, Now
<1>2. Now \in Journal /\ active # Absent
  BY <1>1, Names DEF Now
<1>3. ManifestFits(active)
  BY <1>1 DEF Agreement
<1>4. manifest[active] = "building" <=> Now.phase <= NewInstalled
  BY <1>1, <1>3, Phases DEF ManifestFits, Now
<1> QED BY <1>1, <1>2, <1>4 DEF Pending

\* The View a pending Apply found is neither its own nor of the past.
LEMMA OldIsInstalled ==
    ASSUME Whole, Pending
    PROVE  /\ Now.view # active /\ Now.view \notin Past /\ active \notin Past
           /\ Now.view \in Gens \cup {Absent}
           /\ InPlace => ~Switched /\ dir["previous"].id \in Past \cup {Absent}
           /\ Switched => ~InPlace /\ ~Aside
           /\ Aside => ~InPlace
<1>1. active \in Gens /\ active # Absent /\ manifest[active] = "building"
  BY ActiveJournal DEF Pending
<1>2. Installed(Now.view)
  BY WholeParts DEF StandFits
<1>3. Now.view = Absent \/ (Now.view \in Gens /\ manifest[Now.view] = "installed")
  BY <1>2 DEF Installed, InState
<1>4. Absent \notin Gens
  BY Names
<1>5. Now.view # active /\ Now.view \notin Past /\ active \notin Past
  BY <1>1, <1>3, <1>4 DEF Past
<1> QED BY <1>1, <1>3, <1>5, WholeParts DEF PastFits, InPlace, Switched, Aside, Present

\* What a step keeps that moves neither the old nor the new View.
Alike ==
    /\ UNCHANGED <<journal, active>>
    /\ dir'["view"].id = dir["view"].id
    /\ Entry \in dir["view"].files => Entry \in dir'["view"].files
    /\ dir'["previous"].id \in {dir["previous"].id, Absent}
    /\ Pending /\ ~InPlace /\ OldThere => OldThere'
    /\ InState("installed")' = InState("installed")
    /\ Past' = Past
    /\ \A f \in Files : leftover'[f].in = leftover[f].in
    /\ \A c \in Callers : prep'[c].open => prep'[c] = prep[c]

LEMMA AlikeKeeps == Whole /\ Alike => StandFits' /\ PastFits'
<1> SUFFICES ASSUME Whole, Alike PROVE StandFits' /\ PastFits'
  OBVIOUS
<1>1. /\ Now' = Now /\ (Pending' <=> Pending) /\ (InPlace' <=> InPlace)
      /\ \A i : Installed(i)' <=> Installed(i)
      /\ Present("view")' <=> Present("view")
  BY DEF Alike, Now, Pending, InPlace, Installed, Present
<1>2. Pending /\ ~InPlace /\ OldThere => OldThere'
  BY DEF Alike
<1>3. active' = active /\ dir'["view"].id = dir["view"].id
  BY DEF Alike
<1>4. Pending /\ Aside => Aside'
  BY <1>1, <1>2, OldIsInstalled DEF Aside
<1>5. Pending /\ Switched => Switched'
  BY <1>1, <1>2, <1>3, OldIsInstalled DEF Switched
<1>6. active # 0 /\ Now.phase = NewInstalled => Pending
  BY Phases DEF Pending
<1>7. StandFits'
  BY <1>1, <1>3, <1>4, <1>5, <1>6, WholeParts DEF StandFits
<1>8. PastFits'
  <2>1. Present("view")' => Entry \in dir'["view"].files
    BY <1>1, WholeParts DEF Alike, PastFits
  <2>2. \A f \in Files : leftover'[f].in \in Past' \cup {Absent}
    BY WholeParts DEF Alike, PastFits
  <2>3. \/ dir'["previous"].id \in Past' \cup {Absent}
        \/ Pending' /\ ~InPlace' /\ dir'["previous"].id = Now'.view
    BY <1>1, WholeParts DEF Alike, PastFits
  <2>4. \A c \in Callers : prep'[c].open =>
           prep'[c].installed = (IF prep'[c].view = Absent THEN {} ELSE {prep'[c].view})
    BY WholeParts DEF Alike, PastFits
  <2> QED BY <2>1, <2>2, <2>3, <2>4 DEF PastFits
<1> QED BY <1>7, <1>8

\* A step that leaves the folders and the records' meaning alone is one.
LEMMA AlikeStays ==
    ASSUME Whole, UNCHANGED <<dir, manifest, journal, active, prep>>,
           \A f \in Files : leftover'[f].in = leftover[f].in
    PROVE  /\ Alike
           /\ (InPlace' <=> InPlace) /\ (Aside' <=> Aside) /\ (Switched' <=> Switched)
           /\ Now' = Now
<1>1. Now' = Now
  BY DEF Now
<1> QED BY <1>1 DEF Alike, InState, Past, InPlace, Aside, Switched, OldThere, Present

\* `retire_previous` changes which manifest is previous, not what is past.
LEMMA RetiredAlike ==
    ASSUME Whole
    PROVE  /\ {g \in Gens : PreviousRetired[g] \in {"previous", "retired"}} = Past
           /\ {g \in Gens : PreviousRetired[g] = "installed"} = InState("installed")
BY WholeParts DEF PreviousRetired, Past, InState

\* Rows that read Moved still name the folder they name.
LEMMA MovedNames ==
    ASSUME RecordsOK, NEW gone
    PROVE  \A f \in Files : KeptMoved(gone)[f].in = leftover[f].in
BY DEF RecordsOK, KeptMoved

\* The journal moves on while the folders stay.
LEMMA PhaseMoved ==
    ASSUME Whole, active # 0, UNCHANGED <<dir, active, manifest, leftover, prep>>,
           NEW j \in Journal, journal' = [journal EXCEPT ![active] = j], j.view = Now.view,
           j.phase < BuildVerified => InPlace, j.phase >= Building => j.building = active,
           j.phase <= NewInstalled <=> Now.phase <= NewInstalled,
           j.phase = NewInstalled => Switched
    PROVE  /\ StandFits' /\ PastFits' /\ Now' = j
           /\ (InPlace' <=> InPlace) /\ (Aside' <=> Aside) /\ (Switched' <=> Switched)
<1>1. Now' = j
  BY ActiveJournal, WholeParts DEF Now
<1>2. /\ (InPlace' <=> InPlace) /\ (Aside' <=> Aside) /\ (Switched' <=> Switched)
      /\ (Pending' <=> Pending) /\ \A i : Installed(i)' <=> Installed(i)
  BY <1>1 DEF InPlace, Aside, Switched, OldThere, Present, Pending, Installed, InState
<1>3. Past' = Past
  BY DEF Past
<1>4. StandFits'
  BY <1>1, <1>2, WholeParts DEF StandFits
<1>5. PastFits'
  BY <1>1, <1>2, <1>3, WholeParts DEF PastFits, Present
<1> QED BY <1>1, <1>2, <1>4, <1>5

\* The same of `advance`.
LEMMA AdvanceFits ==
    ASSUME Whole, active # 0, UNCHANGED <<dir, active, manifest, leftover, prep>>,
           NEW phase \in Reserved..RetiringPrevious, Advance(phase),
           phase < BuildVerified => InPlace, phase >= Building => Now.building = active,
           phase <= NewInstalled <=> Now.phase <= NewInstalled,
           phase = NewInstalled => Switched
    PROVE  /\ StandFits' /\ PastFits' /\ Now'.phase = phase /\ Now'.view = Now.view
           /\ (InPlace' <=> InPlace) /\ (Aside' <=> Aside) /\ (Switched' <=> Switched)
<1> DEFINE j == [Now EXCEPT !.phase = phase]
<1>1. j \in Journal /\ j.phase = phase /\ j.view = Now.view /\ j.building = Now.building
  BY ActiveJournal, Phases DEF Journal
<1>2. journal' = [journal EXCEPT ![active] = j]
  BY ActiveJournal, WholeParts DEF Advance, Now
<1> HIDE DEF j
<1> QED BY <1>1, <1>2, PhaseMoved

\* A run stands for an Apply.
LEMMA RunIsActive ==
    ASSUME Whole, Running
    PROVE  active # 0 /\ (Pending <=> Now.phase <= NewInstalled) /\ active \in Gens
BY OwnJournal, ActiveJournal, WholeParts

LEMMA BuildKeepsViews == Whole /\ BuildStep => StandFits' /\ PastFits' /\ RunFits'
<1> SUFFICES ASSUME Whole, BuildStep PROVE StandFits' /\ PastFits' /\ RunFits'
  OBVIOUS
<1>0. Running
  BY DEF BuildStep, Reread, VerifySources, MakeBuilding, RecordBuilding, Place, VerifyBuild,
         Running, RunPlaces
<1>1. /\ active # 0 /\ Now.phase < BuildVerified /\ InPlace /\ Now.phase <= NewInstalled
      /\ "building" \in Places /\ dir["building"] \in Folder
  <2>1. Now.phase < BuildVerified /\ Now.phase <= NewInstalled
    BY WholeParts, Phases, <1>0, RunIsActive, ActiveJournal DEF PhaseFits, BuildStep, Reread,
       VerifySources, MakeBuilding, RecordBuilding, Place, VerifyBuild
  <2> QED BY <1>0, <2>1, RunIsActive, WholeParts, Disk DEF StandFits
<1>2. CASE Reread \/ MakeBuilding \/ Place
             \/ ((VerifySources \/ VerifyBuild) /\ End("failed") /\ UNCHANGED <<journal, wait>>)
  <2>1. /\ UNCHANGED <<journal, active, manifest, leftover, prep>>
        /\ dir'["view"] = dir["view"] /\ dir'["previous"] = dir["previous"]
    BY <1>2, WholeParts DEF Reread, MakeBuilding, Place, VerifySources, VerifyBuild, status,
       records, disk, others, Places
  <2>2. Alike /\ InPlace'
    BY <1>1, <2>1 DEF Alike, InState, Past, InPlace, OldThere, Now
  <2>3. pc' = "built" => Entry \in dir'["building"].files
    BY <1>1, <1>2, WholeParts DEF Reread, MakeBuilding, Place, VerifySources, VerifyBuild, End,
       Goto, Folder
  <2>4. pc' \in {"ending", "reread", "made", "built"}
    BY <1>2 DEF Reread, MakeBuilding, Place, VerifySources, VerifyBuild, End, Goto
  <2>5. RunFits'
    BY <2>2, <2>3, <2>4 DEF RunFits, ReadyPlaces, BuiltPlaces
  <2> QED BY <2>2, <2>5, AlikeKeeps
<1>3. CASE VerifySources /\ Advance(SourcesVerified) /\ Goto("sources")
  <2>1. UNCHANGED <<dir, active, manifest, leftover, prep>>
    BY <1>3 DEF VerifySources, records, disk, others
  <2>2. StandFits' /\ PastFits'
    BY <1>1, <1>3, <2>1, Phases, AdvanceFits
  <2>3. RunFits'
    BY <1>3 DEF Goto, RunFits, ReadyPlaces, BuiltPlaces
  <2> QED BY <2>2, <2>3
<1>4. CASE RecordBuilding
  <2> DEFINE j == [Now EXCEPT !.phase = Building, !.building = dir["building"].id]
  <2>1. dir["building"].id = active /\ dir["building"].id \in Identities
    BY <1>1, <1>4, WholeParts DEF RecordBuilding, FoldersFit, BuiltPlaces, Folder
  <2>2. j \in Journal /\ j.phase = Building /\ j.view = Now.view /\ j.building = active
    <3>1. Now \in Journal /\ Building \in Unwritten..Settled
      BY <1>1, ActiveJournal, Phases
    <3> QED BY <2>1, <3>1 DEF Journal
  <2>3. journal' = [journal EXCEPT ![active] = j]
    BY <1>1, <1>4, ActiveJournal, WholeParts DEF RecordBuilding, Now
  <2> HIDE DEF j
  <2>4. UNCHANGED <<dir, active, manifest, leftover, prep>>
    BY <1>4 DEF RecordBuilding, records, disk, others
  <2>5. /\ ~(j.phase < BuildVerified /\ ~InPlace) /\ j.phase # NewInstalled
        /\ j.phase <= NewInstalled <=> Now.phase <= NewInstalled
    BY <1>1, <2>2, Phases
  <2>7. StandFits' /\ PastFits'
    BY <1>1, <2>2, <2>3, <2>4, <2>5, PhaseMoved
  <2>6. RunFits'
    BY <1>4 DEF RecordBuilding, Goto, RunFits, ReadyPlaces, BuiltPlaces
  <2> QED BY <2>6, <2>7
<1>5. CASE VerifyBuild /\ Advance(BuildVerified) /\ Goto("verified")
  <2>1. UNCHANGED <<dir, active, manifest, leftover, prep>> /\ pc = "built"
    BY <1>5 DEF VerifyBuild, disk, others
  <2>2. Now.building = active
    BY <1>1, <2>1, WholeParts, Phases DEF PhaseFits, StandFits
  <2>3. StandFits' /\ PastFits' /\ InPlace'
    BY <1>1, <1>5, <2>1, <2>2, Phases, AdvanceFits
  <2>4. Entry \in dir'["building"].files
    BY <2>1, WholeParts DEF RunFits, BuiltPlaces
  <2>5. RunFits'
    BY SMTT(30), <1>5, <2>3, <2>4 DEF Goto, RunFits, ReadyPlaces, BuiltPlaces
  <2> QED BY <2>3, <2>5
<1> QED BY <1>2, <1>3, <1>4, <1>5 DEF BuildStep, VerifySources, VerifyBuild

LEMMA SwapKeepsViews == Whole /\ SwapStep => StandFits' /\ PastFits' /\ RunFits'
<1> SUFFICES ASSUME Whole, SwapStep PROVE StandFits' /\ PastFits' /\ RunFits'
  OBVIOUS
<1>0. Running
  BY DEF SwapStep, EnterSwap, ClaimKept, SkipKept, MoveKept, RecordKept, RecordMissing,
         ClearPrevious, RetirePrevious, CheckSwap, MoveAside, AsideFails, StartWait, CancelWait,
         RecordAside, AfterWait, Install, InstallFails, Restore, RestoreFails, RecordInstalled,
         Running, RunPlaces
<1>1. /\ active # 0 /\ active \in Gens /\ active # Absent /\ Pending
      /\ Now.phase \in BuildVerified..OldMoved /\ Now.building = active
  <2>1. Now.phase \in BuildVerified..OldMoved
    <3>1. pc \in ReadyPlaces \cup {"asideDone", "afterWait", "install", "restore", "placed"}
      BY DEF ReadyPlaces, SwapStep, EnterSwap, ClaimKept, SkipKept,
         MoveKept, RecordKept, RecordMissing, ClearPrevious, RetirePrevious, CheckSwap,
         MoveAside, AsideFails, StartWait, CancelWait, RecordAside, AfterWait, Install,
         InstallFails, Restore, RestoreFails, RecordInstalled
    <3> QED BY SMTT(30), <3>1, WholeParts, Phases DEF PhaseFits
  <2> QED BY <1>0, <2>1, Phases, RunIsActive, Names, WholeParts DEF StandFits
<1>2. CASE pc \in ReadyPlaces /\ ~MoveAside
  <2>1. InPlace /\ Entry \in dir["building"].files
    BY <1>2, WholeParts DEF RunFits, BuiltPlaces, ReadyPlaces
  <2>2. /\ UNCHANGED <<journal, active, prep>> /\ dir'["view"] = dir["view"]
        /\ dir'["building"] = dir["building"]
        /\ dir'["previous"].id \in {dir["previous"].id, Absent}
    <3>1. UNCHANGED <<journal, active, prep>>
      BY <1>2 DEF SwapStep, EnterSwap, ClaimKept, SkipKept, MoveKept, RecordKept,
         RecordMissing, ClearPrevious, RetirePrevious, CheckSwap, AsideFails, StartWait,
         CancelWait, RecordAside, AfterWait, Install, InstallFails, Restore, RestoreFails,
         RecordInstalled, status, others, ReadyPlaces
    <3>2. \/ dir' = dir
          \/ dir' = [dir EXCEPT !["previous"].files = dir["previous"].files \ {run.at}]
          \/ dir' = [dir EXCEPT !["previous"] = Emptied(dir["previous"])]
      BY ZenonT(60), <1>2 DEF SwapStep, EnterSwap, ClaimKept, SkipKept, MoveKept, RecordKept,
         RecordMissing, ClearPrevious, RetirePrevious, CheckSwap, AsideFails, StartWait,
         CancelWait, RecordAside, AfterWait, Install, InstallFails, Restore, RestoreFails,
         RecordInstalled, disk, ReadyPlaces
    <3>3. dir["previous"] \in Folder /\ Emptied(dir["previous"]).id \in {dir["previous"].id, Absent}
      BY WholeParts, Disk DEF Emptied, NoFolder
    <3> QED BY SMTT(30), <3>1, <3>2, <3>3, WholeParts DEF Places, Folder
  <2>3. \A f \in Files : leftover'[f].in = leftover[f].in
    <3>1. leftover' = leftover \/ \E gone : leftover' = KeptMoved(gone)
      BY <1>2 DEF SwapStep, EnterSwap, ClaimKept, SkipKept, MoveKept,
         RecordKept, RecordMissing, ClearPrevious, RetirePrevious, CheckSwap, AsideFails,
         StartWait, CancelWait, RecordAside, AfterWait, Install, InstallFails, Restore,
         RestoreFails, RecordInstalled, records, ReadyPlaces
    <3> QED BY <3>1, WholeParts, MovedNames DEF TypeInv, TypeOK
  <2>4. InState("installed")' = InState("installed") /\ Past' = Past
    <3>1. manifest' = manifest \/ manifest' = PreviousRetired
      BY ZenonT(60), <1>2 DEF SwapStep, EnterSwap, ClaimKept, SkipKept, MoveKept,
       RecordKept, RecordMissing, ClearPrevious, RetirePrevious, CheckSwap, AsideFails,
       StartWait, CancelWait, RecordAside, AfterWait, Install, InstallFails, Restore,
       RestoreFails, RecordInstalled, records, ReadyPlaces
    <3> QED BY <3>1, RetiredAlike DEF InState, Past
  <2>5. Alike /\ InPlace' /\ Now' = Now
    BY <2>1, <2>2, <2>3, <2>4 DEF Alike, InPlace, Now
  <2>6. /\ pc' \in ReadyPlaces \cup {"ending", "install"}
        /\ pc' \in {"aside", "waiting"} => Now.view # Absent \/ pc \in {"aside", "waiting"}
        /\ pc' = "install" => Now.view = Absent
    BY <1>2 DEF SwapStep, EnterSwap, ClaimKept, SkipKept, MoveKept,
       RecordKept, RecordMissing, ClearPrevious, RetirePrevious, CheckSwap, AsideFails,
       StartWait, CancelWait, RecordAside, AfterWait, Install, InstallFails, Restore,
       RestoreFails, RecordInstalled, ReadyPlaces, Goto, End
  <2>7. RunFits'
    BY <2>1, <2>2, <2>5, <2>6, WholeParts DEF RunFits, ReadyPlaces, BuiltPlaces
  <2> QED BY <2>5, <2>7, AlikeKeeps
<1>3. CASE MoveAside
  <2>1. /\ InPlace /\ Now.view # Absent /\ Entry \in dir["building"].files
        /\ Present("view") /\ Entry \in dir["view"].files
    BY <1>3, WholeParts DEF MoveAside, CanRename, RunFits, ReadyPlaces, BuiltPlaces, PastFits
  <2>2. /\ dir'["previous"] = dir["view"] /\ dir'["view"] = NoFolder
        /\ dir'["building"] = dir["building"]
        /\ UNCHANGED <<journal, active, manifest, leftover, prep>> /\ pc' = "asideDone"
    BY <1>3, WholeParts DEF MoveAside, Renamed, status, records, others, Places, Goto
  <2>3. /\ Now' = Now /\ Aside' /\ ~InPlace' /\ ~Present("view")' /\ Pending' /\ Past' = Past
        /\ \A i : Installed(i)' <=> Installed(i)
    BY <1>1, <2>1, <2>2 DEF Now, Aside, InPlace, OldThere, Present, NoFolder, Pending, Past,
       Installed, InState
  <2>4. StandFits'
    BY <1>1, <2>2, <2>3, Phases, WholeParts DEF StandFits
  <2>5. PastFits'
    BY <2>2, <2>3, WholeParts DEF PastFits, Aside, OldThere
  <2>6. RunFits'
    BY <2>1, <2>2, <2>3 DEF RunFits, ReadyPlaces, BuiltPlaces
  <2> QED BY <2>4, <2>5, <2>6
<1>4. CASE RecordAside \/ AfterWait \/ InstallFails \/ RestoreFails
  <2>1. UNCHANGED <<dir, active, manifest, leftover, prep>>
    BY <1>4 DEF RecordAside, AfterWait, InstallFails, RestoreFails, status, records, others, disk
  <2>2. /\ pc \in {"asideDone", "afterWait", "restore"} => Aside
        /\ pc = "install" => IF Now.view = Absent THEN InPlace ELSE Aside
        /\ pc \in {"asideDone", "afterWait", "install"} => Entry \in dir["building"].files
    BY WholeParts DEF RunFits, BuiltPlaces
  <2>3. Aside => Now.view # Absent
    BY DEF Aside
  <2>4. CASE UNCHANGED journal
    <3>1. /\ Alike /\ Now' = Now
          /\ (InPlace' <=> InPlace) /\ (Aside' <=> Aside) /\ (Switched' <=> Switched)
      BY <2>1, <2>4, AlikeStays
    <3>2. \/ pc' = "restore" /\ Aside
          \/ pc' = "ending" /\ InPlace
          \/ pc' = "stopped"
          \/ pc' \in {"afterWait", "install"} /\ Aside /\ Entry \in dir["building"].files
      BY <1>4, <2>2, <2>3 DEF RecordAside, AfterWait, InstallFails, RestoreFails, Goto, End,
         BreakOff
    <3>3. RunFits'
      BY <2>1, <2>3, <3>1, <3>2 DEF RunFits, ReadyPlaces, BuiltPlaces
    <3> QED BY <3>1, <3>3, AlikeKeeps
  <2>5. ASSUME NEW phase \in {WaitingForRelease, OldMoved}, Advance(phase),
               RecordAside \/ AfterWait, pc' \in {"afterWait", "install"}
        PROVE  StandFits' /\ PastFits' /\ RunFits'
    <3>1. /\ phase \in Reserved..RetiringPrevious /\ ~(phase < BuildVerified)
          /\ (phase <= NewInstalled <=> Now.phase <= NewInstalled) /\ phase # NewInstalled
      BY <1>1, Phases
    <3>2. Aside /\ Entry \in dir["building"].files
      BY <2>2, <2>5 DEF RecordAside, AfterWait
    <3>3. StandFits' /\ PastFits' /\ Now'.view = Now.view /\ Aside'
      BY <1>1, <2>1, <2>5, <3>1, <3>2, AdvanceFits
    <3>4. RunFits'
      BY <2>1, <2>3, <2>5, <3>2, <3>3 DEF RunFits, ReadyPlaces, BuiltPlaces
    <3> QED BY <3>3, <3>4
  <2> QED
    BY <1>4, <2>4, <2>5 DEF RecordAside, AfterWait, InstallFails, RestoreFails, Goto, status
<1>5. CASE Install
  <2>1. /\ dir["building"].id = active /\ Entry \in dir["building"].files
        /\ IF Now.view = Absent THEN InPlace ELSE Aside
    BY <1>5, WholeParts DEF Install, RunFits, FoldersFit, BuiltPlaces
  <2>2. /\ dir'["view"] = dir["building"] /\ dir'["previous"] = dir["previous"]
        /\ UNCHANGED <<journal, active, manifest, leftover, prep>> /\ pc' = "placed"
    BY <1>5, WholeParts DEF Install, Renamed, status, records, others, Places, Goto
  <2>3. /\ Now' = Now /\ Switched' /\ ~InPlace' /\ Pending' /\ Past' = Past
        /\ \A i : Installed(i)' <=> Installed(i)
    BY <1>1, <2>1, <2>2, OldIsInstalled DEF Now, Switched, Aside, InPlace, OldThere, Pending,
       Past, Installed, InState
  <2>4. StandFits'
    BY <1>1, <2>2, <2>3, Phases, WholeParts DEF StandFits
  <2>5. PastFits'
    BY <2>1, <2>2, <2>3, WholeParts, OldIsInstalled DEF PastFits, Aside, OldThere
  <2>6. RunFits'
    BY <2>2, <2>3 DEF RunFits, ReadyPlaces, BuiltPlaces
  <2> QED BY <2>4, <2>5, <2>6
<1>6. CASE Restore
  <2>1. Aside /\ Entry \in dir["previous"].files /\ dir["previous"].id = Now.view
    BY <1>6, WholeParts DEF Restore, RunFits, Aside, OldThere
  <2>2. /\ dir'["view"] = dir["previous"] /\ dir'["previous"] = NoFolder
        /\ UNCHANGED <<journal, active, manifest, leftover, prep>> /\ pc' = "ending"
    BY <1>6, WholeParts DEF Restore, Renamed, status, records, others, Places, End
  <2>3. /\ Now' = Now /\ InPlace' /\ Pending' /\ Past' = Past
        /\ \A i : Installed(i)' <=> Installed(i)
    BY <1>1, <2>1, <2>2 DEF Now, InPlace, Pending, Past, Installed, InState
  <2>4. StandFits'
    BY <1>1, <2>2, <2>3, Phases, WholeParts DEF StandFits
  <2>5. PastFits'
    BY <2>1, <2>2, <2>3, WholeParts DEF PastFits, NoFolder
  <2>6. RunFits'
    BY <2>2, <2>3 DEF RunFits, ReadyPlaces, BuiltPlaces
  <2> QED BY <2>4, <2>5, <2>6
<1>7. CASE RecordInstalled
  <2>1. UNCHANGED <<dir, active, manifest, leftover, prep>> /\ Advance(NewInstalled)
        /\ pc' = "installed" /\ Switched
    BY <1>7, WholeParts DEF RecordInstalled, Goto, disk, records, others, RunFits
  <2>2. StandFits' /\ PastFits'
    BY <1>1, <2>1, Phases, AdvanceFits
  <2> QED BY <2>1, <2>2 DEF RunFits, ReadyPlaces, BuiltPlaces
<1> QED
  BY <1>2, <1>3, <1>4, <1>5, <1>6, <1>7 DEF SwapStep, EnterSwap, ClaimKept, SkipKept, MoveKept,
     RecordKept, RecordMissing, ClearPrevious, RetirePrevious, CheckSwap, AsideFails, StartWait,
     CancelWait, ReadyPlaces

LEMMA FinishKeepsViews == Whole /\ FinishStep => StandFits' /\ PastFits' /\ RunFits'
<1> SUFFICES ASSUME Whole, FinishStep PROVE StandFits' /\ PastFits' /\ RunFits'
  OBVIOUS
<1>0. Running
  BY DEF FinishStep, Commit, CommitRefused, ReadInstalled, LeaveForeign, ClaimForeign,
         MoveForeign, RecordForeign, EndForeign, SettleFirst, StartRetiring, Retire, Settle,
         SettleRefused, Running, RunPlaces
<1>1. /\ active # 0 /\ active \in Gens /\ active # Absent /\ Now.building = active
      /\ Now.phase \in NewInstalled..RetiringPrevious
      /\ Pending <=> Now.phase = NewInstalled
      /\ pc # "installed" => ~Pending
  <2>1. /\ Now.phase \in NewInstalled..RetiringPrevious
        /\ pc # "installed" => Now.phase # NewInstalled
    <3>1. pc \in {"installed", "committed", "transferred", "retiring", "settling"}
                   \cup ForeignPlaces
      BY DEF FinishStep, Commit, CommitRefused, ReadInstalled, LeaveForeign, ClaimForeign,
         MoveForeign, RecordForeign, EndForeign, SettleFirst, StartRetiring, Retire, Settle,
         SettleRefused, ForeignPlaces
    <3> QED BY SMTT(30), <3>1, WholeParts, Phases DEF PhaseFits
  <2> QED BY <1>0, <2>1, Phases, RunIsActive, Names, WholeParts DEF StandFits
<1>2. pc' \notin BuiltPlaces \cup {"ending", "restore", "placed", "settleClaims"}
  BY DEF FinishStep, Commit, CommitRefused, ReadInstalled, LeaveForeign, ClaimForeign,
     MoveForeign, RecordForeign, EndForeign, SettleFirst, StartRetiring, Retire, Settle,
     SettleRefused, Goto, BreakOff, BuiltPlaces, ReadyPlaces
<1>3. RunFits'
  BY <1>2 DEF RunFits, BuiltPlaces, ReadyPlaces
<1>4. ASSUME \/ CommitRefused \/ ReadInstalled \/ \E f \in Files : LeaveForeign(f) \/ ClaimForeign(f)
             \/ RecordForeign \/ SettleRefused
      PROVE  StandFits' /\ PastFits'
  <2>1. UNCHANGED <<dir, manifest, journal, active, prep, leftover>>
    BY <1>4 DEF CommitRefused, ReadInstalled, LeaveForeign, ClaimForeign, RecordForeign,
       SettleRefused, status, records, disk, others
  <2> QED BY <2>1, AlikeStays, AlikeKeeps
<1>5. CASE MoveForeign \/ Retire
  <2>1. UNCHANGED <<manifest, journal, active, prep, leftover>> /\ ~Pending
    BY <1>1, <1>5 DEF MoveForeign, Retire, status, records, others
  <2>2. /\ dir'["view"].id = dir["view"].id /\ dir["view"].files \subseteq dir'["view"].files
        /\ dir'["previous"].id \in {dir["previous"].id, Absent}
    <3>1. CASE MoveForeign
      BY <3>1, WholeParts, Disk DEF MoveForeign, Places, Folder
    <3>2. CASE Retire
      <4>1. PICK files : dir' = [dir EXCEPT !["previous"] =
                                    Emptied([dir["previous"] EXCEPT !.files = files])]
        BY <3>2 DEF Retire
      <4>2. dir["previous"] \in Folder
        BY WholeParts, Disk
      <4>3. Emptied([dir["previous"] EXCEPT !.files = files]).id
               \in {dir["previous"].id, Absent}
        BY <4>2 DEF Emptied, NoFolder, Folder
      <4> QED BY <4>1, <4>3, WholeParts DEF Places
    <3> QED BY <1>5, <3>1, <3>2
  <2>3. Alike
    BY <2>1, <2>2 DEF Alike, InState, Past
  <2> QED BY <1>3, <2>3, AlikeKeeps
<1>6. CASE EndForeign \/ StartRetiring
  <2>1. PICK phase \in {ForeignTransferred, RetiringPrevious} : Advance(phase)
    BY <1>6 DEF EndForeign, StartRetiring
  <2>2. UNCHANGED <<dir, active, manifest, leftover, prep>> /\ ~Pending
    BY <1>1, <1>6 DEF EndForeign, StartRetiring, records, disk, others
  <2>3. /\ phase \in Reserved..RetiringPrevious /\ ~(phase < BuildVerified)
        /\ (phase <= NewInstalled <=> Now.phase <= NewInstalled) /\ phase # NewInstalled
    BY <1>1, <2>2, Phases
  <2> QED BY <1>1, <1>3, <2>1, <2>2, <2>3, AdvanceFits
<1>7. CASE Commit
  <2>1. Pending /\ Now.phase = NewInstalled /\ Switched /\ Installed(Now.view)
    BY <1>1, <1>7, WholeParts, Phases DEF Commit, PhaseFits, StandFits
  <2> DEFINE j == [Now EXCEPT !.phase = ManifestCommitted]
  <2>2. j \in Journal /\ j.phase = ManifestCommitted /\ j.building = active
    BY <1>1, ActiveJournal, Phases DEF Journal
  <2>3. /\ UNCHANGED <<dir, active, leftover, prep>> /\ manifest' = Committed
        /\ journal' = [journal EXCEPT ![active] = j]
    BY <1>1, <1>7, ActiveJournal, WholeParts DEF Commit, Advance, Now, disk, others
  <2> HIDE DEF j
  <2>4. Now' = j /\ ~Pending'
    BY <1>1, <2>2, <2>3, WholeParts, Phases DEF Now, Pending
  <2>5. \A g \in Gens : manifest'[g] = IF g = active THEN "installed"
                          ELSE IF manifest[g] = "installed" THEN "previous" ELSE manifest[g]
    BY <2>3 DEF Committed
  <2>6. InState("installed")' = {active}
    BY <1>1, <2>5 DEF InState
  <2>7. Past' = Past \cup InState("installed")
    <3>1. manifest[active] = "building"
      BY <1>1, <2>1, ActiveJournal, Phases
    <3> QED BY <2>5, <3>1 DEF Past, InState
  <2>8. StandFits'
    BY <1>1, <2>1, <2>2, <2>3, <2>4, <2>6, Phases DEF StandFits, Installed, Switched
  <2>9. PastFits'
    <3>1. dir["previous"].id \in Past' \cup {Absent}
      BY <2>1, <2>7, WholeParts DEF PastFits, Installed
    <3>2. \A f \in Files : leftover[f].in \in Past' \cup {Absent}
      BY <2>7, WholeParts DEF PastFits
    <3> QED BY <2>3, <3>1, <3>2, WholeParts DEF PastFits, Present
  <2> QED BY <1>3, <2>8, <2>9
<1>8. CASE SettleFirst \/ Settle
  <2>1. /\ ~Pending /\ active' = 0 /\ UNCHANGED <<dir, prep>>
        /\ manifest' \in {manifest, PreviousRetired}
    BY <1>1, <1>8 DEF SettleFirst, Settle, SettledAs, disk, others
  <2>2. Past' = Past /\ InState("installed")' = InState("installed")
    BY <2>1, RetiredAlike DEF Past, InState
  <2>3. Installed(active) /\ dir["view"].id = active
    BY <1>1, <2>1, WholeParts DEF StandFits
  <2>4. StandFits'
    BY <2>1, <2>2, <2>3 DEF StandFits, Installed, Pending
  <2>5. dir["previous"].id \in Past \cup {Absent}
    BY <2>1, WholeParts DEF PastFits
  <2>6. \A f \in Files : leftover'[f].in \in Past \cup {Absent}
    BY <1>8, <2>5, WholeParts DEF SettleFirst, Settle, PastFits
  <2>7. PastFits'
    BY <2>1, <2>2, <2>5, <2>6, WholeParts DEF PastFits, Present
  <2> QED BY <1>3, <2>4, <2>7
<1> QED BY <1>3, <1>4, <1>5, <1>6, <1>7, <1>8 DEF FinishStep

LEMMA EndKeepsViews == Whole /\ EndStep => StandFits' /\ PastFits' /\ RunFits'
<1> SUFFICES ASSUME Whole, EndStep PROVE StandFits' /\ PastFits' /\ RunFits'
  OBVIOUS
<1>0. Running /\ pc = "ending"
  BY DEF EndStep, ClearBuilding, Discard, Running, RunPlaces
<1>1. InPlace /\ Pending /\ active \in Gens /\ Installed(Now.view)
      /\ manifest[active] = "building"
  <2>1. Now.phase <= NewInstalled
    BY <1>0, WholeParts, Phases DEF PhaseFits
  <2> QED BY <1>0, <2>1, RunIsActive, ActiveJournal, WholeParts DEF RunFits, StandFits
<1>2. CASE ClearBuilding
  <2>1. /\ UNCHANGED <<journal, active, manifest, leftover, prep>> /\ pc' = "ending"
        /\ dir'["view"] = dir["view"] /\ dir'["previous"] = dir["previous"]
    BY <1>0, <1>2, WholeParts DEF ClearBuilding, status, records, others, Places
  <2>2. Alike /\ InPlace'
    BY <1>1, <2>1 DEF Alike, InState, Past, InPlace, OldThere, Now
  <2>3. RunFits'
    BY <2>1, <2>2 DEF RunFits, ReadyPlaces, BuiltPlaces
  <2> QED BY <2>2, <2>3, AlikeKeeps
<1>3. CASE Discard
  <2>1. /\ active' = 0 /\ UNCHANGED <<dir, prep, leftover>> /\ pc' = "idle"
        /\ \A g \in Gens : manifest'[g] = IF g = active THEN "discarded" ELSE manifest[g]
    BY <1>1, <1>3, WholeParts DEF Discard, SettledAs, disk, others
  <2>2. Past' = Past /\ InState("installed")' = InState("installed")
    BY <1>1, <2>1 DEF Past, InState
  <2>3. Installed(dir["view"].id)
    BY <1>1 DEF InPlace
  <2>4. StandFits'
    BY <2>1, <2>2, <2>3 DEF StandFits, Installed, Pending
  <2>5. PastFits'
    BY <1>1, <2>1, <2>2, WholeParts DEF PastFits, Present
  <2>6. RunFits'
    BY <2>1 DEF RunFits, ReadyPlaces, BuiltPlaces
  <2> QED BY <2>4, <2>5, <2>6
<1> QED BY <1>2, <1>3 DEF EndStep

\* What a start that finds the folders of an interrupted Apply does: the new
\* View never waits to be installed by it, so only the old one is put back.
LEMMA RecoveryChooses ==
    ASSUME Whole, RecoverFolders
    PROVE  /\ active # 0 /\ active # Absent /\ Now.phase \in Reserved..RetiringPrevious
           /\ UNCHANGED <<journal, active, manifest, leftover, prep>> /\ Now' = Now
           /\ \/ UNCHANGED dir /\ pc' = "stopped"
              \/ /\ UNCHANGED dir /\ InPlace
                 /\ pc' = "settleClaims" /\ run'.stop = "failed"
              \/ /\ UNCHANGED dir /\ dir["view"].id = active
                 /\ pc' = "settleClaims" /\ run'.stop = "installed"
              \/ /\ dir' = Renamed("previous", "view") /\ Aside /\ Pending
                 /\ pc' = "settleClaims" /\ run'.stop = "failed"
<1>0. active # 0 /\ active # Absent /\ Now.phase \in Reserved..RetiringPrevious
      /\ UNCHANGED <<journal, active, manifest, leftover, prep>> /\ Now' = Now
  BY RunIsActive, ActiveJournal DEF RecoverFolders, Running, RunPlaces, records, status, Now
<1>1. Now.phase >= Building => (NewInPlace <=> dir["view"].id = active)
  BY <1>0, WholeParts DEF NewInPlace, StandFits
<1>2. Now.phase >= NewInstalled => NewInPlace
  <2>1. CASE Now.phase = NewInstalled
    BY <1>0, <1>1, <2>1, Phases, WholeParts DEF StandFits, Switched
  <2>2. CASE Now.phase > NewInstalled
    BY <1>0, <1>1, <2>2, Phases, WholeParts DEF StandFits, Pending
  <2> QED BY <1>0, <2>1, <2>2, Phases
<1>3. Now.phase < BuildVerified => InPlace
  BY <1>0, WholeParts DEF StandFits
<1>4. Now.phase \in BuildVerified..OldMoved /\ ~NewInPlace => Pending /\ (InPlace \/ Aside)
  BY <1>0, <1>1, Phases, WholeParts DEF StandFits, Pending, Switched
<1> DEFINE Failed    == pc' = "settleClaims" /\ run'.stop = "failed"
           Installs  == pc' = "settleClaims" /\ run'.stop = "installed"
<1>5. /\ RecoverAs("failed") => Failed
      /\ RecoverAs("installed") => Installs
      /\ Stuck(TRUE) \/ Stuck(FALSE) => pc' = "stopped"
  BY DEF RecoverAs, NoRun, Stuck, BreakOff
<1>6. \/ UNCHANGED dir /\ pc' = "stopped"
      \/ UNCHANGED dir /\ Failed /\ InPlace
      \/ UNCHANGED dir /\ Installs /\ dir["view"].id = active
      \/ dir' = Renamed("previous", "view") /\ Failed /\ Aside /\ Pending
  <2>1. CASE Now.phase < BuildVerified
    <3>1. /\ ~(Now.phase >= BuildVerified) /\ ~(Now.phase >= NewInstalled)
          /\ ~(Now.phase \in BuildVerified..OldMoved)
      BY <1>0, <2>1, Phases
    <3>2. RecoverAs("failed") /\ UNCHANGED dir
      BY <2>1, <3>1, Zenon DEF RecoverFolders
    <3> QED BY <1>3, <1>5, <2>1, <3>2
  <2>2. CASE Now.phase >= BuildVerified /\ NewInPlace
    <3>1. ~(Now.phase < BuildVerified) /\ Now.phase >= Building
      BY <1>0, <2>2, Phases
    <3>2. RecoverAs("installed") /\ UNCHANGED dir
      BY <2>2, <3>1, Zenon DEF RecoverFolders
    <3> QED BY <1>1, <1>5, <3>1, <2>2, <3>2
  <2>3. CASE Now.phase \in BuildVerified..OldMoved /\ ~NewInPlace
    <3>1. ~(Now.phase < BuildVerified) /\ ~(Now.phase >= NewInstalled)
      BY <2>3, Phases
    <3>2. CASE ~Present("view") /\ OldAside
      <4>1. \/ dir' = Renamed("previous", "view") /\ RecoverAs("failed")
            \/ Stuck(TRUE) /\ UNCHANGED dir
        BY <2>3, <3>1, <3>2, Zenon DEF RecoverFolders
      <4>2. Aside /\ Pending
        BY <1>4, <2>3, <3>2 DEF InPlace, OldAside, Present
      <4> QED BY <1>5, <4>1, <4>2, Zenon
    <3>3. CASE ~(~Present("view") /\ OldAside)
      <4>1. RecoverAs("failed") /\ UNCHANGED dir
        BY <2>3, <3>1, <3>3, Zenon DEF RecoverFolders
      <4>2. InPlace
        BY <1>4, <2>3, <3>3 DEF Aside, OldAside, OldThere
      <4> QED BY <1>5, <4>1, <4>2
    <3> QED BY <3>2, <3>3
  <2> QED BY <1>0, <1>2, <2>1, <2>2, <2>3, Phases
<1> QED BY <1>0, <1>6

LEMMA RecoveryKeepsViews == Whole /\ RecoveryStep => StandFits' /\ PastFits' /\ RunFits'
<1> SUFFICES ASSUME Whole, RecoveryStep PROVE StandFits' /\ PastFits' /\ RunFits'
  OBVIOUS
<1>1. CASE Start
  <2>1. active' = active /\ UNCHANGED <<dir, manifest, journal, prep, leftover>>
    BY <1>1, WholeParts DEF Start, Agreement, disk, records, others
  <2>2. Alike /\ Now' = Now /\ (InPlace' <=> InPlace) /\ (Aside' <=> Aside)
        /\ (Switched' <=> Switched)
    BY <2>1, AlikeStays
  <2>3. pc' = "recover" \/ (pc' = pc /\ run' = run)
    BY <1>1 DEF Start
  <2>4. RunFits'
    BY <2>1, <2>2, <2>3, WholeParts DEF RunFits, ReadyPlaces, BuiltPlaces
  <2> QED BY <2>2, <2>4, AlikeKeeps
<1>2. CASE RecoverFolders
  <2>0. active # 0 /\ active # Absent /\ Now.phase \in Reserved..RetiringPrevious
        /\ UNCHANGED <<journal, active, manifest, leftover, prep>> /\ Now' = Now
    BY <1>2, RecoveryChooses
  <2> DEFINE Failed   == pc' = "settleClaims" /\ run'.stop = "failed"
             Installs == pc' = "settleClaims" /\ run'.stop = "installed"
  <2>7. CASE /\ UNCHANGED dir
             /\ \/ pc' = "stopped"
                \/ Failed /\ InPlace
                \/ Installs /\ dir["view"].id = active
    <3>1. Alike /\ (InPlace' <=> InPlace)
      BY <2>0, <2>7, AlikeStays
    <3>2. RunFits'
      BY <2>0, <2>7, <3>1 DEF RunFits, ReadyPlaces, BuiltPlaces, InPlace, Aside
    <3> QED BY <3>1, <3>2, AlikeKeeps
  <2>8. CASE dir' = Renamed("previous", "view") /\ Failed /\ Aside /\ Pending
    <3>1. /\ dir'["view"] = dir["previous"] /\ dir'["previous"] = NoFolder
      BY <2>8, WholeParts DEF Renamed, Places
    <3>2. /\ Entry \in dir["previous"].files /\ dir["previous"].id = Now.view
      BY <2>8 DEF Aside, OldThere
    <3>3. /\ InPlace' /\ Pending' /\ Past' = Past /\ \A i : Installed(i)' <=> Installed(i)
      BY <2>0, <2>8, <3>1, <3>2 DEF InPlace, Pending, Past, Installed, InState
    <3>4. StandFits'
      <4>1. Now.phase # NewInstalled
        BY <2>8, OldIsInstalled, WholeParts, Phases, <2>0 DEF StandFits
      <4> QED BY <2>0, <2>8, <3>3, <4>1, Phases, WholeParts DEF StandFits
    <3>5. PastFits'
      <4>1. UNCHANGED <<leftover, prep>>
        BY <2>0
      <4>2. Entry \in dir'["view"].files /\ dir'["previous"].id = Absent
        BY <3>1, <3>2 DEF NoFolder
      <4> QED BY <3>3, <4>1, <4>2, WholeParts DEF PastFits
    <3>6. RunFits'
      BY <2>8, <3>3 DEF RunFits, ReadyPlaces, BuiltPlaces
    <3> QED BY <3>4, <3>5, <3>6
  <2> QED BY <1>2, <2>7, <2>8, RecoveryChooses
<1>3. CASE Recovered
  <2>0. /\ active # 0 /\ active # Absent /\ Now.phase \in Reserved..RetiringPrevious
        /\ UNCHANGED <<dir, active, manifest, leftover, prep>> /\ pc = "settleClaims"
    BY <1>3, RunIsActive, ActiveJournal DEF Recovered, Running, RunPlaces, records, disk, others
  <2>1. CASE UNCHANGED journal
    <3>1. Alike /\ (InPlace' <=> InPlace)
      BY <2>0, <2>1, AlikeStays
    <3>2. \/ pc' = "ending" /\ InPlace
          \/ pc' \in {"installed", "committed"}
      BY <1>3, <2>0, WholeParts DEF Recovered, Goto, RunFits
    <3>3. RunFits'
      BY <3>1, <3>2 DEF RunFits, ReadyPlaces, BuiltPlaces
    <3> QED BY <3>1, <3>3, AlikeKeeps
  <2>2. CASE Advance(NewInstalled) /\ Now.phase < NewInstalled /\ run.stop # "failed"
    <3>1. dir["view"].id = active /\ Pending
      BY <2>0, <2>2, WholeParts, Phases DEF RunFits, PhaseFits, Pending
    <3>2. Switched
      BY <2>0, <3>1, OldIsInstalled, WholeParts DEF StandFits, InPlace, Aside, Present
    <3>3. Now.building = active
      BY <2>0, <2>2, WholeParts, Phases DEF PhaseFits, StandFits
    <3>4. NewInstalled \in Reserved..RetiringPrevious /\ ~(NewInstalled < BuildVerified)
          /\ (NewInstalled <= NewInstalled <=> Now.phase <= NewInstalled)
      BY <2>0, <2>2, Phases
    <3>5. StandFits' /\ PastFits'
      BY <2>0, <2>2, <3>2, <3>3, <3>4, AdvanceFits
    <3>6. RunFits'
      BY <1>3, <2>2 DEF Recovered, Goto, RunFits, ReadyPlaces, BuiltPlaces
    <3> QED BY <3>5, <3>6
  <2> QED BY <1>3, <2>1, <2>2 DEF Recovered
<1>4. ASSUME NEW f \in Files, SettleClaim(f) PROVE StandFits' /\ PastFits' /\ RunFits'
  <2>1. UNCHANGED <<dir, manifest, journal, active, prep, pc, run>>
    BY <1>4 DEF SettleClaim, disk, status, others
  <2>2. \A h \in Files : leftover'[h].in = leftover[h].in
    BY <1>4, WholeParts, MovedNames DEF SettleClaim, TypeInv, TypeOK
  <2>3. Alike /\ Now' = Now /\ (InPlace' <=> InPlace) /\ (Aside' <=> Aside)
        /\ (Switched' <=> Switched)
    BY <2>1, <2>2, AlikeStays
  <2>4. RunFits'
    BY <2>1, <2>3, WholeParts DEF RunFits
  <2> QED BY <2>3, <2>4, AlikeKeeps
<1> QED BY <1>1, <1>2, <1>3, <1>4 DEF RecoveryStep

LEMMA ReviewKeepsViews == Whole /\ ReviewStep => StandFits' /\ PastFits' /\ RunFits'
<1> SUFFICES ASSUME Whole, ReviewStep PROVE StandFits' /\ PastFits' /\ RunFits'
  OBVIOUS
<1>1. /\ UNCHANGED <<journal, active, prep, pc, run>> /\ Now' = Now
      /\ "view" \in Places /\ "building" \in Places /\ "previous" \in Places
      /\ dir["previous"] \in Folder /\ dir["view"] \in Folder /\ rv.file \in Files
  BY WholeParts, Disk DEF ReviewStep, ActReview, RecordReview, ClearReviewed, RetireReviewed,
     status, Now, Places, TypeInv, TypeOK, OthersOK, Review
<1>2. \/ UNCHANGED dir
      \/ /\ StillThere(rv.file)
         /\ \/ dir' = [dir EXCEPT !["previous"].files = @ \ {rv.file},
                                  !["view"].files = @ \cup {rv.file}]
            \/ dir' = [dir EXCEPT !["previous"].files = @ \ {rv.file}]
      \/ dir' = [dir EXCEPT !["previous"] = Emptied(@)]
  BY DEF ReviewStep, ActReview, RecordReview, ClearReviewed, RetireReviewed, disk
<1>3. /\ dir'["building"] = dir["building"] /\ dir'["view"].id = dir["view"].id
      /\ dir["view"].files \subseteq dir'["view"].files
      /\ dir'["previous"].id \in {dir["previous"].id, Absent}
      /\ OldThere /\ ~OldThere' => StillThere(rv.file)
  <2>1. CASE UNCHANGED dir
    BY <1>1, <2>1 DEF OldThere
  <2>2. CASE /\ StillThere(rv.file)
             /\ \/ dir' = [dir EXCEPT !["previous"].files = @ \ {rv.file},
                                      !["view"].files = @ \cup {rv.file}]
                \/ dir' = [dir EXCEPT !["previous"].files = @ \ {rv.file}]
    BY <1>1, <2>2, WholeParts DEF Folder, Places
  <2>3. CASE dir' = [dir EXCEPT !["previous"] = Emptied(@)]
    <3>1. /\ dir'["view"] = dir["view"] /\ dir'["building"] = dir["building"]
          /\ dir'["previous"] = Emptied(dir["previous"])
      BY <1>1, <2>3, WholeParts DEF Places
    <3> QED BY <1>1, <3>1 DEF Emptied, NoFolder, OldThere
  <2> QED BY <1>2, <2>1, <2>2, <2>3
<1>4. StillThere(rv.file) => dir["previous"].id \in Past
  <2>1. StillThere(rv.file) => dir["previous"].id # Absent
    BY <1>1, WholeParts DEF StillThere, FoldersFit, Present
  <2> QED BY <1>1, <2>1, WholeParts DEF StillThere, PastFits
<1>5. Pending /\ OldThere => OldThere'
  BY <1>3, <1>4, OldIsInstalled DEF OldThere
<1>6. \A f \in Files : leftover'[f].in = leftover[f].in
  BY <1>1, WholeParts DEF ReviewStep, ActReview, RecordReview, ClearReviewed, RetireReviewed,
     records, TypeInv, TypeOK, RecordsOK
<1>7. InState("installed")' = InState("installed") /\ Past' = Past
  <2>1. manifest' \in {manifest, PreviousRetired}
    BY DEF ReviewStep, ActReview, RecordReview, ClearReviewed, RetireReviewed, records
  <2> QED BY <2>1, RetiredAlike DEF InState, Past
<1>8. Alike
  BY <1>1, <1>3, <1>5, <1>6, <1>7 DEF Alike
<1>9. RunFits'
  <2>1. (InPlace' <=> InPlace) /\ (Present("view")' <=> Present("view"))
    BY <1>1, <1>3 DEF InPlace, Present
  <2>2. pc \in {"asideDone", "afterWait", "restore", "install", "placed"} => Pending
    BY WholeParts, RunIsActive, Phases DEF PhaseFits, Running, RunPlaces
  <2>3. Pending => (Aside => Aside') /\ (Switched => Switched')
    BY <1>1, <1>3, <1>5, <2>1 DEF Aside, Switched
  <2> QED BY <1>1, <1>3, <2>1, <2>2, <2>3, WholeParts DEF RunFits
<1> QED BY <1>8, <1>9, AlikeKeeps

LEMMA RequestKeepsViews == Whole /\ Request => StandFits' /\ PastFits' /\ RunFits'
<1> SUFFICES ASSUME Whole, Request PROVE StandFits' /\ PastFits' /\ RunFits'
  OBVIOUS
<1>1. ASSUME NEW c \in Callers, CloseSheet(c) PROVE StandFits' /\ PastFits' /\ RunFits'
  <2>1. /\ UNCHANGED <<dir, manifest, journal, active, leftover, pc, run>> /\ Now' = Now
        /\ \A d \in Callers : prep'[d].open => prep'[d] = prep[d]
    BY <1>1, WholeParts DEF CloseSheet, disk, records, status, NoSheet, Now, TypeInv, TypeOK,
       OthersOK
  <2>2. Alike /\ RunFits'
    BY <2>1, WholeParts DEF Alike, InState, Past, OldThere, RunFits, InPlace, Aside, Switched,
       Present
  <2> QED BY <2>2, AlikeKeeps
<1>2. CASE CancelApply \/ \E f \in Files, review \in {"kept", "moved", "trashed"} :
                             StartReview(f, review)
  <2>1. /\ UNCHANGED <<dir, manifest, journal, active, leftover, prep, pc>> /\ Now' = Now
        /\ run'.stop = run.stop
    BY <1>2, WholeParts DEF CancelApply, StartReview, disk, records, status, others, Now, TypeInv,
       TypeOK, RunOK, Run
  <2>2. Alike /\ (InPlace' <=> InPlace) /\ (Aside' <=> Aside) /\ (Switched' <=> Switched)
    BY <2>1, AlikeStays
  <2>3. RunFits'
    BY <2>1, <2>2, WholeParts DEF RunFits
  <2> QED BY <2>2, <2>3, AlikeKeeps
<1>3. ASSUME NEW c \in Callers, CheckSheet(c) PROVE StandFits' /\ PastFits' /\ RunFits'
  <2>1. /\ active = 0 /\ UNCHANGED <<manifest, journal, active, leftover, pc, run>>
        /\ dir'["view"] = dir["view"] /\ dir'["building"] = dir["building"]
        /\ dir'["previous"] = Emptied(dir["previous"])
    BY <1>3, WholeParts DEF CheckSheet, records, status, Places
  <2>2. /\ \A d \in Callers : d # c => prep'[d] = prep[d]
        /\ prep'[c].view = dir["view"].id /\ prep'[c].installed = InState("installed")
    BY <1>3, WholeParts DEF CheckSheet, TypeInv, TypeOK, OthersOK
  <2>3. Installed(dir["view"].id)
    BY <2>1, WholeParts DEF StandFits
  <2>4. StandFits'
    BY <2>1, <2>3 DEF StandFits, Installed, InState, Pending
  <2>5. PastFits'
    <3>1. dir'["previous"].id \in Past' \cup {Absent}
      BY <2>1, WholeParts DEF PastFits, Pending, Past, Emptied, NoFolder
    <3>2. \A f \in Files : leftover'[f].in \in Past' \cup {Absent}
      BY <2>1, WholeParts DEF PastFits, Past
    <3>3. \A d \in Callers : prep'[d].open =>
             prep'[d].installed = (IF prep'[d].view = Absent THEN {} ELSE {prep'[d].view})
      BY <2>2, <2>3, WholeParts DEF PastFits, Installed
    <3> QED BY <2>1, <3>1, <3>2, <3>3, WholeParts DEF PastFits, Present
  <2>6. RunFits'
    <3>1. pc \notin RunPlaces
      BY <2>1, RunIsActive DEF Running
    <3> QED BY <2>1, <3>1 DEF RunFits, RunPlaces, ReadyPlaces, BuiltPlaces
  <2> QED BY <2>4, <2>5, <2>6
<1>4. ASSUME NEW c \in Callers, Reserve(c) PROVE StandFits' /\ PastFits' /\ RunFits'
  <2>1. PICK g \in Gens :
           /\ \A h \in Gens : manifest[h] = "none" <=> h >= g
           /\ active' = g
           /\ manifest' = [(IF prep[c].gone THEN PreviousRetired ELSE manifest)
                              EXCEPT ![g] = "building"]
           /\ journal' = [journal EXCEPT ![g] =
                 [phase |-> Reserved, from |-> Unwritten, outcome |-> "none",
                  view |-> prep[c].view, building |-> Absent]]
    BY <1>4 DEF Reserve
  <2>2. /\ active = 0 /\ UNCHANGED dir /\ pc' = "reserved" /\ prep[c].open /\ g # 0
        /\ Now'.phase = Reserved /\ Now'.view = prep[c].view /\ Pending'
        /\ InState("installed") = prep[c].installed /\ manifest[g] = "none"
    BY <1>4, <2>1, WholeParts, BoundsAssumption, Phases
       DEF Reserve, SheetHolds, Agreement, Now, Pending, disk, Gens
  <2>3. /\ \A d \in Callers : prep'[d].open => prep'[d] = prep[d]
        /\ \A f \in Files : leftover'[f].in = leftover[f].in
    BY <1>4, WholeParts, MovedNames DEF Reserve, NoSheet, TypeInv, TypeOK, OthersOK
  <2>4. Past' = Past /\ InState("installed")' = InState("installed")
    <3>1. \A h \in Gens : manifest'[h] = IF h = g THEN "building"
             ELSE IF prep[c].gone THEN PreviousRetired[h] ELSE manifest[h]
      BY <2>1, WholeParts, PreviousRetiredType DEF TypeInv, TypeOK
    <3>2. PreviousRetired[g] = "none"
      BY <2>1, <2>2 DEF PreviousRetired
    <3> QED BY <2>2, <3>1, <3>2, RetiredAlike DEF Past, InState
  <2>5. Installed(prep[c].view) /\ prep[c].view = dir["view"].id
    <3>1. Installed(prep[c].view)
      BY <2>2, WholeParts DEF PastFits, Installed
    <3>2. Installed(dir["view"].id)
      BY <2>2, WholeParts DEF StandFits
    <3> QED BY <3>1, <3>2 DEF Installed
  <2>6. InPlace' /\ Installed(Now.view)'
    BY <2>2, <2>4, <2>5 DEF InPlace, Installed
  <2>7. StandFits'
    BY <2>1, <2>2, <2>6, Phases DEF StandFits
  <2>8. PastFits'
    <3>1. dir["previous"].id \in Past \cup {Absent}
      BY <2>2, WholeParts DEF PastFits, Pending
    <3>2. \A f \in Files : leftover'[f].in \in Past' \cup {Absent}
      BY <2>3, <2>4, WholeParts DEF PastFits
    <3>3. \A d \in Callers : prep'[d].open =>
             prep'[d].installed = (IF prep'[d].view = Absent THEN {} ELSE {prep'[d].view})
      BY <2>3, WholeParts DEF PastFits
    <3> QED BY <2>2, <2>4, <3>1, <3>2, <3>3, WholeParts DEF PastFits, Present
  <2>9. RunFits'
    BY <2>2 DEF RunFits, ReadyPlaces, BuiltPlaces
  <2> QED BY <2>7, <2>8, <2>9
<1> QED BY <1>1, <1>2, <1>3, <1>4 DEF Request

LEMMA FailureKeepsViews == Whole /\ Failure => StandFits' /\ PastFits' /\ RunFits'
<1> SUFFICES ASSUME Whole, Failure PROVE StandFits' /\ PastFits' /\ RunFits'
  OBVIOUS
<1>1. /\ UNCHANGED <<dir, manifest, journal, active, leftover>> /\ Now' = Now
      /\ \A d \in Callers : prep'[d].open => prep'[d] = prep[d]
      /\ pc' \in {"idle", "stopped"}
  BY DEF Failure, Crash, RunBreaksOff, Quit, Down, BreakOff, disk, records, status, NoSheet, Now
<1>2. Alike /\ RunFits'
  BY <1>1 DEF Alike, InState, Past, OldThere, RunFits, ReadyPlaces, BuiltPlaces
<1> QED BY <1>2, AlikeKeeps

LEMMA OutsideKeepsViews == Unmoved /\ Whole /\ Outside => StandFits' /\ PastFits' /\ RunFits'
<1> SUFFICES ASSUME Unmoved, Whole, Outside PROVE StandFits' /\ PastFits' /\ RunFits'
  OBVIOUS
<1>1. /\ UNCHANGED <<manifest, journal, active, leftover, prep, pc, run>> /\ Now' = Now
      /\ \/ UNCHANGED dir
         \/ \E f \in Tool, p \in {"view", "previous"} :
               dir' = [dir EXCEPT ![p].files = dir[p].files \cup {f}]
  BY DEF Outside, Edit, Hold, Release, Occupy, WriteView, Litter, FilesChange, UserDeletes,
     Remove, DeletePrevious, Vanish, Unmoved, disk, records, status, others, Now
<1>2. \A p \in Places : /\ dir'[p].id = dir[p].id
                        /\ Entry \in dir[p].files => Entry \in dir'[p].files
  BY <1>1, WholeParts, Disk DEF Folder, Places
<1>3. OldThere => OldThere'
  BY <1>1, <1>2 DEF OldThere, Places
<1>4. /\ Alike /\ (InPlace' <=> InPlace) /\ (Aside => Aside') /\ (Switched => Switched')
  BY <1>1, <1>2, <1>3 DEF Alike, InState, Past, InPlace, Aside, Switched, Present, Places
<1>5. RunFits'
  BY <1>1, <1>2, <1>4, WholeParts DEF RunFits, Places
<1> QED BY <1>4, <1>5, AlikeKeeps

LEMMA WholeInit == Init => Whole
<1> SUFFICES ASSUME Init PROVE Whole
  OBVIOUS
<1>1. Founded
  BY FoundedInit
<1>2. /\ dir = [p \in Places |-> NoFolder] /\ active = 0 /\ pc = "idle"
      /\ InState("installed") = {} /\ \A c \in Callers : ~prep[c].open
      /\ \A f \in Files : leftover[f].in = Absent
  BY DEF Init, InState, NoSheet
<1>3. \A p \in Places : dir[p].id = Absent
  BY <1>2 DEF NoFolder
<1> QED BY <1>1, <1>2, <1>3 DEF Whole, Placed, StandFits, RunFits, PastFits, Installed, Pending,
        Present, ReadyPlaces, BuiltPlaces, Places

LEMMA WholeStep == Unmoved /\ Whole /\ [Next]_vars => Whole'
<1> SUFFICES ASSUME Unmoved, Whole, [Next]_vars PROVE Whole'
  OBVIOUS
<1>1. Founded'
  BY FoundedStep, WholeParts
<1>2. CASE UNCHANGED vars
  <2>1. UNCHANGED <<dir, manifest, journal, active, leftover, prep, pc, run>>
    BY <1>2 DEF vars
  <2>2. Alike /\ Now' = Now /\ (InPlace' <=> InPlace) /\ (Aside' <=> Aside)
        /\ (Switched' <=> Switched)
    BY <2>1, AlikeStays
  <2>3. RunFits'
    BY <2>1, <2>2, WholeParts DEF RunFits
  <2> QED BY <1>1, <2>2, <2>3, AlikeKeeps DEF Whole, Placed
<1>3. CASE Next
  <2>1. StandFits' /\ PastFits' /\ RunFits'
    BY <1>3, BuildKeepsViews, SwapKeepsViews, FinishKeepsViews, EndKeepsViews,
       RecoveryKeepsViews, ReviewKeepsViews, RequestKeepsViews, FailureKeepsViews,
       OutsideKeepsViews DEF Next, RunStep
  <2> QED BY <1>1, <2>1 DEF Whole, Placed
<1> QED BY <1>2, <1>3

\* While nobody takes the folders away, the folder of the installed View is
\* at View/ or at View (previous)/ under a journal that names it, in every
\* state: between two renames, after any crash and in the middle of a
\* recovery, beside any review and any tool.
THEOREM OldViewKept == ASSUME Unmoved PROVE Spec => []ViewRecoverable
<1>1. Whole => ViewRecoverable
  <2> SUFFICES ASSUME Whole PROVE ViewRecoverable
    OBVIOUS
  <2>1. CASE active = 0
    BY <2>1, WholeParts DEF ViewRecoverable, StandFits, Installed, Present
  <2>2. CASE Pending
    BY <2>2, WholeParts DEF ViewRecoverable, StandFits, Installed, Pending, InPlace, Aside,
       Switched, OldThere
  <2>3. CASE active # 0 /\ ~Pending
    BY <2>3, ActiveJournal, WholeParts DEF ViewRecoverable, StandFits, Installed
  <2> QED BY <2>1, <2>2, <2>3
<1>2. Whole /\ [Next]_vars => Whole'
  BY WholeStep
<1> QED BY <1>1, <1>2, WholeInit, PTL DEF Spec

-----------------------------------------------------------------------------
(* Apply implements AtomicApply. *)

\* The View a tool is given, by who stands at View/.
ViewSeen == IF active = 0 THEN dir["view"].id
            ELSE IF dir["view"].id = active THEN active ELSE Now.view

SeesTheView == CurrentView = ViewSeen

LEMMA Current == Whole => SeesTheView
<1> SUFFICES ASSUME Whole PROVE CurrentView = ViewSeen
  BY DEF SeesTheView
<1> USE WholeParts
<1>1. CASE active = 0
  BY <1>1 DEF CurrentView, ViewSeen, Present
<1>2. CASE Pending
  <2>1. CASE InPlace
    BY <1>2, <2>1, OldIsInstalled DEF CurrentView, ViewSeen, Present, InPlace, Pending
  <2>2. CASE Aside
    BY <1>2, <2>2, ActiveJournal DEF CurrentView, ViewSeen, Present, Aside, OldThere, Pending
  <2>3. CASE Switched
    BY <1>2, <2>3, ActiveJournal DEF CurrentView, ViewSeen, Present, Switched, Pending
  <2> QED BY <1>2, <2>1, <2>2, <2>3 DEF StandFits
<1>3. CASE active # 0 /\ ~Pending
  BY <1>3, ActiveJournal DEF StandFits, CurrentView, ViewSeen, Present
<1> QED BY <1>1, <1>2, <1>3

LEMMA CurrentNext == Whole' => SeesTheView'
BY Current, PTL

\* What the journals say of every Apply but where it stands.
SameStory ==
    /\ active' = active
    /\ \A g \in Gens : /\ journal'[g].outcome = journal[g].outcome
                       /\ journal'[g].view = journal[g].view

\* A step that switches nothing and settles nothing is none of the promise's.
LEMMA Stutters ==
    ASSUME Whole, Whole', SameStory,
           active = 0 => dir'["view"].id = dir["view"].id,
           dir'["view"].id = active <=> dir["view"].id = active
    PROVE  UNCHANGED Promise!vars
<1>1. active # 0 => Now'.view = Now.view
  BY ActiveJournal DEF SameStory, Now
<1>2. CurrentView' = ViewSeen'
  BY CurrentNext DEF SeesTheView
<1>3. CurrentView' = CurrentView
  BY <1>1, <1>2, Current DEF SameStory, SeesTheView, ViewSeen
<1>4. [g \in Gens |-> journal[g].outcome]' = [g \in Gens |-> journal[g].outcome]
  BY DEF SameStory
<1> QED BY <1>3, <1>4 DEF SameStory, Promise!vars

\* A write of the active journal that settles nothing tells the same story.
LEMMA JournalOnly ==
    ASSUME Whole, active' = active,
           \/ journal' = journal
           \/ \E phase : Advance(phase)
           \/ \E building : journal' = [journal EXCEPT ![active].phase = Building,
                                                       ![active].building = building]
    PROVE  SameStory
BY WholeParts DEF SameStory, Advance, Journal

LEMMA BuildStutters == Whole /\ Whole' /\ BuildStep => UNCHANGED Promise!vars
<1> SUFFICES ASSUME Whole, Whole', BuildStep PROVE UNCHANGED Promise!vars
  OBVIOUS
<1>1. dir'["view"] = dir["view"] /\ active' = active
  BY WholeParts DEF BuildStep, Reread, VerifySources, MakeBuilding, RecordBuilding, Place,
     VerifyBuild, disk, status, Places
<1>2. SameStory
  BY <1>1, JournalOnly DEF BuildStep, Reread, VerifySources, MakeBuilding, RecordBuilding, Place,
     VerifyBuild, status
<1> QED BY <1>1, <1>2, Stutters

\* The one step of the swap that tools see is the rename of the new View.
LEMMA SwapSwitches == Whole /\ Whole' /\ SwapStep => Promise!Switch \/ UNCHANGED Promise!vars
<1> SUFFICES ASSUME Whole, Whole', SwapStep PROVE Promise!Switch \/ UNCHANGED Promise!vars
  OBVIOUS
<1>0. Running
  BY DEF SwapStep, EnterSwap, ClaimKept, SkipKept, MoveKept, RecordKept, RecordMissing,
         ClearPrevious, RetirePrevious, CheckSwap, MoveAside, AsideFails, StartWait, CancelWait,
         RecordAside, AfterWait, Install, InstallFails, Restore, RestoreFails, RecordInstalled,
         Running, RunPlaces
<1>1. active # 0 /\ active' = active /\ active # Absent
  BY <1>0, RunIsActive, Names DEF SwapStep, EnterSwap, ClaimKept, SkipKept, MoveKept, RecordKept,
     RecordMissing, ClearPrevious, RetirePrevious, CheckSwap, MoveAside, AsideFails, StartWait,
     CancelWait, RecordAside, AfterWait, Install, InstallFails, Restore, RestoreFails,
     RecordInstalled, status
<1>2. SameStory
  <2>1. journal' = journal \/ \E phase : Advance(phase)
    BY DEF SwapStep, EnterSwap, ClaimKept, SkipKept, MoveKept, RecordKept,
       RecordMissing, ClearPrevious, RetirePrevious, CheckSwap, MoveAside, AsideFails, StartWait,
       CancelWait, RecordAside, AfterWait, Install, InstallFails, Restore, RestoreFails,
       RecordInstalled, status
  <2> QED BY SMTT(30), <1>1, <2>1, JournalOnly
<1>3. CASE Install
  <2>1. dir["building"].id = active /\ Pending /\ dir["view"].id # active
    <3>1. dir["building"].id = active
      BY <1>3, WholeParts DEF Install, FoldersFit, BuiltPlaces
    <3>2. Now.phase <= NewInstalled
      BY <1>3, WholeParts, Phases DEF Install, PhaseFits
    <3> QED BY <1>0, <1>1, <1>3, <3>1, <3>2, RunIsActive DEF Install, CanRename, Present
  <2>2. dir'["view"].id = active
    BY <1>3, <2>1, WholeParts DEF Install, Renamed, Places
  <2>3. CurrentView = Now.view /\ Now.view # active
    BY <1>1, <2>1, Current, OldIsInstalled DEF SeesTheView, ViewSeen
  <2>4. CurrentView' = active
    <3>1. CurrentView' = ViewSeen'
      BY CurrentNext DEF SeesTheView
    <3> QED BY <1>1, <2>2, <3>1 DEF SeesTheView, ViewSeen
  <2>5. [g \in Gens |-> journal[g].outcome]' = [g \in Gens |-> journal[g].outcome]
    BY <1>2 DEF SameStory
  <2> QED BY <1>1, <2>3, <2>4, <2>5 DEF Promise!Switch
<1>4. CASE MoveAside \/ Restore
  <2>1. dir["view"].id # active /\ dir'["view"].id # active
    <3>1. Pending /\ Now.view # active
      <4>1. Now.phase <= NewInstalled
        BY <1>4, WholeParts, Phases DEF MoveAside, Restore, PhaseFits, ReadyPlaces
      <4> QED BY <1>0, <4>1, RunIsActive, OldIsInstalled
    <3>2. CASE MoveAside
      BY <1>1, <3>1, <3>2, WholeParts DEF MoveAside, Renamed, NoFolder, RunFits, ReadyPlaces,
         InPlace, Places
    <3>3. CASE Restore
      BY <1>1, <3>1, <3>3, WholeParts DEF Restore, Renamed, CanRename, Present, RunFits, Aside,
         OldThere, Places
    <3> QED BY <1>4, <3>2, <3>3
  <2> QED BY <1>1, <1>2, <2>1, Stutters
<1>5. CASE ~Install /\ ~MoveAside /\ ~Restore
  <2>1. dir'["view"] = dir["view"]
    BY <1>5, WholeParts DEF SwapStep, EnterSwap, ClaimKept, SkipKept, MoveKept, RecordKept,
       RecordMissing, ClearPrevious, RetirePrevious, CheckSwap, AsideFails, StartWait,
       CancelWait, RecordAside, AfterWait, InstallFails, RestoreFails, RecordInstalled, disk,
       Places
  <2> QED BY <1>2, <2>1, Stutters
<1> QED BY <1>3, <1>4, <1>5

\* Settling an Apply gives it an outcome and no other Apply one.
LEMMA SettledOutcome ==
    ASSUME Whole, active \in Gens, NEW outcome, SettledAs(outcome)
    PROVE  [g \in Gens |-> journal[g].outcome]'
              = [[g \in Gens |-> journal[g].outcome] EXCEPT ![active] = outcome]
<1>1. journal \in [Gens -> Journal]
  BY WholeParts
<1>2. \A g \in Gens : journal'[g].outcome = IF g = active THEN outcome ELSE journal[g].outcome
  BY <1>1 DEF SettledAs, Journal
<1> QED BY <1>2

\* The Apply that settles applied is the one whose View tools are given.
LEMMA FinishSucceeds == Whole /\ Whole' /\ FinishStep => Promise!Succeed \/ UNCHANGED Promise!vars
<1> SUFFICES ASSUME Whole, Whole', FinishStep PROVE Promise!Succeed \/ UNCHANGED Promise!vars
  OBVIOUS
<1>1. CASE SettleFirst \/ Settle
  <2>1. active # 0 /\ active \in Gens /\ ~Pending
    <3>1. Running /\ Now.phase \in ManifestCommitted..RetiringPrevious
      BY <1>1, WholeParts, Phases DEF SettleFirst, Settle, PhaseFits, Running, RunPlaces
    <3> QED BY <3>1, RunIsActive, Phases
  <2>2. dir["view"].id = active /\ dir' = dir /\ active' = 0
    BY <1>1, <2>1, WholeParts DEF StandFits, SettleFirst, Settle, SettledAs, disk
  <2>3. CurrentView = active
    BY <2>1, <2>2, Current DEF SeesTheView, ViewSeen
  <2>4. CurrentView' = active
    <3>1. CurrentView' = ViewSeen'
      BY CurrentNext DEF SeesTheView
    <3> QED BY <2>2, <3>1 DEF SeesTheView, ViewSeen
  <2>5. [g \in Gens |-> journal[g].outcome]'
           = [[g \in Gens |-> journal[g].outcome] EXCEPT ![active] = "applied"]
    <3>1. SettledAs("applied")
      BY <1>1, Zenon DEF SettleFirst, Settle
    <3> QED BY <2>1, <3>1, SettledOutcome
  <2> QED BY <2>1, <2>2, <2>3, <2>4, <2>5 DEF Promise!Succeed, Promise!Finish
<1>2. CASE ~SettleFirst /\ ~Settle
  <2>1. active' = active /\ (journal' = journal \/ \E phase : Advance(phase))
    BY <1>2 DEF FinishStep, Commit, CommitRefused, ReadInstalled, LeaveForeign, ClaimForeign,
       MoveForeign, RecordForeign, EndForeign, StartRetiring, Retire, SettleRefused, status
  <2>2. dir'["view"].id = dir["view"].id
    BY ZenonT(60), <1>2, WholeParts, Disk DEF FinishStep, Commit, CommitRefused, ReadInstalled, LeaveForeign,
       ClaimForeign, MoveForeign, RecordForeign, EndForeign, StartRetiring, Retire,
       SettleRefused, disk, Places, Folder
  <2> QED BY SMTT(30), <2>1, <2>2, JournalOnly, Stutters
<1> QED BY <1>1, <1>2

\* The Apply that settles otherwise left the View tools were given before.
LEMMA EndGivesUp == Whole /\ Whole' /\ EndStep => Promise!GiveUp \/ UNCHANGED Promise!vars
<1> SUFFICES ASSUME Whole, Whole', EndStep PROVE Promise!GiveUp \/ UNCHANGED Promise!vars
  OBVIOUS
<1>1. CASE ClearBuilding
  <2>1. dir'["view"] = dir["view"] /\ active' = active /\ journal' = journal
    BY <1>1, WholeParts DEF ClearBuilding, status, Places
  <2> QED BY <2>1, JournalOnly, Stutters
<1>2. CASE Discard
  <2>1. active # 0 /\ active \in Gens /\ Pending /\ InPlace /\ run.stop \in {"failed", "canceled"}
    <3>1. Running /\ Now.phase <= NewInstalled /\ InPlace /\ Ending
      BY <1>2, WholeParts, Phases
         DEF Discard, PhaseFits, Running, RunPlaces, RunFits, TypeInv
    <3> QED BY <1>2, <3>1, RunIsActive DEF Discard, Ending
  <2>2. Now.view # active /\ dir["view"].id = Now.view /\ dir' = dir /\ active' = 0
    BY <1>2, <2>1, OldIsInstalled DEF InPlace, Discard, SettledAs, disk
  <2>3. CurrentView = Now.view
    BY <2>1, <2>2, Current DEF SeesTheView, ViewSeen
  <2>4. CurrentView' = Now.view
    <3>1. CurrentView' = ViewSeen'
      BY CurrentNext DEF SeesTheView
    <3> QED BY <2>2, <3>1 DEF SeesTheView, ViewSeen
  <2>5. [g \in Gens |-> journal[g].outcome]'
           = [[g \in Gens |-> journal[g].outcome] EXCEPT ![active] = run.stop]
    <3>1. SettledAs(run.stop)
      BY <1>2, Zenon DEF Discard
    <3> QED BY <2>1, <3>1, SettledOutcome
  <2> QED BY <2>1, <2>2, <2>3, <2>4, <2>5 DEF Promise!GiveUp, Promise!Finish
<1> QED BY <1>1, <1>2 DEF EndStep

LEMMA RecoveryStutters == Whole /\ Whole' /\ RecoveryStep => UNCHANGED Promise!vars
<1> SUFFICES ASSUME Whole, Whole', RecoveryStep PROVE UNCHANGED Promise!vars
  OBVIOUS
<1>1. CASE RecoverFolders
  <2>1. SameStory /\ active # 0
    BY <1>1, RecoveryChooses, JournalOnly
  <2>2. dir'["view"].id = active <=> dir["view"].id = active
    <3>1. CASE dir' = Renamed("previous", "view") /\ Aside /\ Pending
      BY <3>1, OldIsInstalled, ActiveJournal, WholeParts
         DEF Renamed, Aside, OldThere, Present, Places, Pending
    <3>2. CASE UNCHANGED dir
      BY <3>2
    <3> QED BY <1>1, <3>1, <3>2, RecoveryChooses
  <2> QED BY <2>1, <2>2, Stutters
<1>2. CASE ~RecoverFolders
  <2>1. dir' = dir /\ active' = active /\ (journal' = journal \/ \E phase : Advance(phase))
    BY <1>2, WholeParts DEF RecoveryStep, Start, Recovered, SettleClaim, Agreement, disk, status
  <2> QED BY <2>1, JournalOnly, Stutters
<1> QED BY <1>1, <1>2

LEMMA BesideStutters ==
    Unmoved /\ Whole /\ Whole' /\ (ReviewStep \/ Failure \/ Outside) => UNCHANGED Promise!vars
<1> SUFFICES ASSUME Unmoved, Whole, Whole', ReviewStep \/ Failure \/ Outside
             PROVE  UNCHANGED Promise!vars
  OBVIOUS
<1>1. active' = active /\ journal' = journal
  BY DEF ReviewStep, ActReview, RecordReview, ClearReviewed, RetireReviewed, Failure, Crash,
     RunBreaksOff, Quit, Down, BreakOff, Outside, Edit, Hold, Release, Occupy, WriteView, Litter,
     UserDeletes, Remove, DeletePrevious, Vanish, FilesChange, status
<1>2. dir'["view"].id = dir["view"].id
  <2>1. \/ UNCHANGED dir
        \/ dir' = [dir EXCEPT !["previous"].files = @ \ {rv.file},
                              !["view"].files = @ \cup {rv.file}]
        \/ dir' = [dir EXCEPT !["previous"].files = @ \ {rv.file}]
        \/ dir' = [dir EXCEPT !["previous"] = Emptied(@)]
        \/ \E f \in Tool, p \in {"view", "previous"} :
              dir' = [dir EXCEPT ![p].files = dir[p].files \cup {f}]
    BY DEF ReviewStep, ActReview, RecordReview, ClearReviewed, RetireReviewed, Failure, Crash,
       RunBreaksOff, Quit, Down, BreakOff, Outside, Edit, Hold, Release, Occupy, WriteView,
       Litter, UserDeletes, Remove, DeletePrevious, Vanish, FilesChange, disk, Unmoved
  <2> QED BY <2>1, WholeParts, Disk DEF Folder, Places
<1> QED BY <1>1, <1>2, JournalOnly, Stutters

\* The reservation begins an Apply; no other request is seen.
LEMMA RequestBegins == Whole /\ Whole' /\ Request => Promise!Begin \/ UNCHANGED Promise!vars
<1> SUFFICES ASSUME Whole, Whole', Request PROVE Promise!Begin \/ UNCHANGED Promise!vars
  OBVIOUS
<1>1. CASE \E c \in Callers : Reserve(c)
  <2>0. PICK c \in Callers : Reserve(c)
    BY <1>1
  <2>1. PICK g \in Gens :
           /\ \A h \in Gens : manifest[h] = "none" <=> h >= g
           /\ active' = g /\ active = 0 /\ dir' = dir
           /\ journal' = [journal EXCEPT ![g] =
                 [phase |-> Reserved, from |-> Unwritten, outcome |-> "none",
                  view |-> prep[c].view, building |-> Absent]]
    BY <2>0 DEF Reserve, SheetHolds, disk
  <2>2. g # 0 /\ Now' = journal'[g] /\ Now'.phase = Reserved
    BY <2>1, WholeParts, BoundsAssumption DEF Now, Gens
  <2>3. journal[g].outcome = "none"
    <3>1. manifest[g] = "none"
      BY <2>1 DEF Gens
    <3>2. journal[g].phase = Unwritten /\ journal[g].outcome \in Outcomes /\ OutcomeFits(journal[g])
      BY <3>1, WholeParts DEF Agreement, ManifestFits, Journal
    <3> QED BY <3>2, OutcomeSplit, Phases DEF Outcomes
  <2>4. InPlace'
    <3>1. active' # 0 /\ Now'.phase < BuildVerified
      BY <2>1, <2>2, Phases
    <3> QED BY <3>1 DEF Whole, Placed, StandFits, Pending
  <2>5. CurrentView' = CurrentView
    <3>1. CurrentView' = ViewSeen'
      BY CurrentNext DEF SeesTheView
    <3> QED BY <2>1, <2>2, <2>4, <3>1, Current DEF InPlace, SeesTheView, ViewSeen
  <2>6. [h \in Gens |-> journal[h].outcome]' = [h \in Gens |-> journal[h].outcome]
    BY <2>1, <2>3, WholeParts
  <2>7. [h \in Gens |-> journal[h].outcome][g] = "none"
    BY <2>3
  <2> QED BY <2>1, <2>5, <2>6, <2>7 DEF Promise!Begin
<1>2. CASE ~\E c \in Callers : Reserve(c)
  <2>1. /\ active' = active /\ journal' = journal
        /\ dir' = dir \/ dir' = [dir EXCEPT !["previous"] = Emptied(@)]
    BY <1>2 DEF Request, CheckSheet, CloseSheet, StartReview, CancelApply, disk, status
  <2>2. dir'["view"] = dir["view"]
    BY <2>1, WholeParts DEF Places
  <2> QED BY <2>1, <2>2, JournalOnly, Stutters
<1> QED BY <1>1, <1>2

\* While nobody takes the folders away, every step of Apply, of its recovery
\* and of the reviews beside it is one of AtomicApply's or none: tools are
\* given the whole of a new View at the one rename, an Apply that settles
\* applied is the one that switched, and one that gives up switched nothing.
THEOREM AppliesAtomically == ASSUME Unmoved PROVE Spec => ImplementsPromise
<1>1. Init => Promise!Init
  <2> SUFFICES ASSUME Init PROVE Promise!Init
    OBVIOUS
  <2>1. CurrentView = Absent /\ active = 0
    BY DEF Init, CurrentView, Present, NoFolder, Places
  <2>2. [g \in Gens |-> journal[g].outcome] = [g \in Gens |-> "none"]
    BY DEF Init, NoJournal
  <2> QED BY <2>1, <2>2 DEF Promise!Init
<1>2. Whole /\ [Next]_vars => Whole'
  BY WholeStep
<1>3. Whole /\ Whole' /\ [Next]_vars => [Promise!Next]_(Promise!vars)
  <2> SUFFICES ASSUME Whole, Whole', [Next]_vars PROVE [Promise!Next]_(Promise!vars)
    OBVIOUS
  <2>1. CASE UNCHANGED vars
    <3>1. UNCHANGED <<dir, journal, active>>
      BY <2>1 DEF vars
    <3> QED BY <3>1, JournalOnly, Stutters
  <2>2. CASE Next
    <3>1. UNCHANGED Promise!vars \/ Promise!Switch \/ Promise!Succeed \/ Promise!GiveUp
             \/ Promise!Begin
      BY <2>2, BuildStutters, SwapSwitches, FinishSucceeds, EndGivesUp, RecoveryStutters,
         BesideStutters, RequestBegins DEF Next, RunStep
    <3> QED BY <3>1 DEF Promise!Next
  <2> QED BY <2>1, <2>2
<1> QED BY <1>1, <1>2, <1>3, WholeInit, PTL DEF Spec, ImplementsPromise, Promise!Spec

-----------------------------------------------------------------------------
(* Each foreign item is where its record says, unless the user takes the   *)
(* folders away; reviews may overlap an Apply.                             *)

\* The files of the View an Apply found.
OldFiles == dir[IF InPlace THEN "view" ELSE "previous"].files

\* Nothing was left over from the View an Apply found, so no review takes a
\* file from it; and once committed, View (previous)/ is that View or nothing.
OldIsNew ==
    active # 0 /\ Now.view # Absent =>
        /\ \A f \in Files : leftover[f].in # Now.view
        /\ ~Pending => dir["previous"].id \in {Now.view, Absent}

\* An item not yet decided is in the old View, or in the new one under the
\* claim of an attempt that a stop cut off before its record.
ForeignFits ==
    /\ active # 0 => \A f \in Files : foreign[f] # "none" => f # Entry /\ Now.view # Absent
    /\ Pending =>
          /\ fclaim = {}
          /\ \A f \in Files : /\ foreign[f] \in {"none", "pending"}
                              /\ foreign[f] = "pending" => f \in OldFiles
    /\ active # 0 /\ ~Pending =>
          /\ fclaim \subseteq ticked
          /\ \A f \in Files :
                /\ foreign[f] = "pending" => \/ f \in dir["previous"].files
                                             \/ f \in fclaim /\ f \in dir["view"].files
                /\ foreign[f] = "moved" => f \in dir["view"].files
                /\ foreign[f] \in {"stayed", "failed"} => f \in dir["previous"].files

\* The one item a run moves: a first attempt finds it in the old View.
MoveFits ==
    /\ pc \in {"moving", "moved"} => foreign[run.at] = "pending"
    /\ pc = "moving" => /\ run.at \in fclaim
                        /\ ~run.resumed => run.at \in dir["previous"].files
    /\ pc = "moved" => run.at \in dir[IF run.left THEN "view" ELSE "previous"].files

Traced == OldIsNew /\ ForeignFits /\ MoveFits

\* A step after which foreign items are found where they were.
KeepsOld ==
    active # 0 /\ Now.view # Absent =>
        /\ Pending => \A f \in OldFiles \ {Entry} : f \in OldFiles'
        /\ ~Pending => /\ dir'["previous"].id \in {dir["previous"].id, Absent}
                       /\ dir["previous"].files \ {Entry} \subseteq dir'["previous"].files
                       /\ dir["view"].files \subseteq dir'["view"].files

\* A step of the same Apply on the same side of its commit.
SameApply ==
    /\ active' = active
    /\ active # 0 => Now'.view = Now.view /\ (Pending' <=> Pending)

LEMMA TracedStays ==
    ASSUME Whole, Traced, SameApply, KeepsOld, UNCHANGED <<foreign, fclaim, ticked>>,
           \A f \in Files : leftover'[f].in = leftover[f].in,
           pc' \in {"moving", "moved"} =>
              pc' = pc /\ run'.at = run.at /\ run'.left = run.left /\ run'.resumed = run.resumed
    PROVE  Traced'
<1> USE DEF Traced, SameApply
<1>1. OldIsNew'
  BY DEF OldIsNew, KeepsOld, Pending
<1>2. ForeignFits'
  <2>1. active' # 0 => \A f \in Files : foreign'[f] # "none" => f # Entry /\ Now'.view # Absent
    BY DEF ForeignFits
  <2>2. CASE Pending'
    <3>1. Pending /\ active # 0
      BY <2>2 DEF Pending
    <3>2. \A f \in Files : foreign[f] = "pending" => f \in OldFiles'
      BY <3>1 DEF ForeignFits, KeepsOld
    <3> QED BY <2>1, <2>2, <3>1, <3>2 DEF ForeignFits
  <2>3. CASE active' # 0 /\ ~Pending'
    <3>1. ~Pending /\ active # 0
      BY <2>3
    <3>2. \A f \in Files : foreign[f] # "none" =>
             /\ f \in dir["previous"].files => f \in dir'["previous"].files
             /\ f \in dir["view"].files => f \in dir'["view"].files
      BY <3>1 DEF ForeignFits, KeepsOld
    <3> QED BY <2>1, <2>3, <3>1, <3>2 DEF ForeignFits
  <2>4. CASE active' = 0
    BY <2>4 DEF ForeignFits, Pending
  <2> QED BY <2>2, <2>3, <2>4
<1>3. MoveFits'
  <2> SUFFICES ASSUME pc' \in {"moving", "moved"} PROVE MoveFits'
    BY DEF MoveFits
  <2>1. /\ active # 0 /\ ~Pending /\ run.at \in Files /\ foreign[run.at] = "pending"
    BY WholeParts, RunIsActive, Phases DEF MoveFits, PhaseFits, Running, RunPlaces, ForeignPlaces,
       TypeInv, TypeOK, RunOK, Run
  <2>2. /\ run.at \in dir["previous"].files => run.at \in dir'["previous"].files
        /\ run.at \in dir["view"].files => run.at \in dir'["view"].files
    BY <2>1 DEF ForeignFits, KeepsOld
  <2> QED BY <2>1, <2>2 DEF MoveFits
<1> QED BY <1>1, <1>2, <1>3

\* What the active journal reads after its phase moved on.
LEMMA NowAdvances ==
    ASSUME Whole, active # 0, active' = active, NEW phase \in Int, Advance(phase)
    PROVE  /\ Now'.phase = phase /\ Now'.view = Now.view
           /\ Pending' <=> phase <= NewInstalled
<1>1. journal' = [journal EXCEPT ![active] = [journal[active] EXCEPT !.phase = phase]]
  BY DEF Advance
<1>2. journal'[active] = [journal[active] EXCEPT !.phase = phase]
  BY <1>1, ActiveJournal, WholeParts
<1>3. journal[active] \in Journal
  BY ActiveJournal DEF Now
<1> QED BY <1>2, <1>3 DEF Now, Journal, Pending

\* A folder that is not touched keeps its files.
LEMMA FoldersStay ==
    ASSUME dir'["view"] = dir["view"], dir'["previous"] = dir["previous"], SameApply
    PROVE  KeepsOld
BY DEF KeepsOld, OldFiles, InPlace, SameApply

\* Where a run stands while it builds, and up to the swap.
EarlyPlaces == {"reserved", "reread", "sources", "made", "building", "built", "verified"}

\* What a step of the build leaves alone.
LEMMA BuildFrame ==
    ASSUME Whole, BuildStep
    PROVE  /\ Running /\ active # 0 /\ active \in Gens /\ Pending /\ InPlace
           /\ SameApply /\ Now'.view = Now.view /\ Pending'
           /\ dir'["view"] = dir["view"] /\ dir'["previous"] = dir["previous"]
           /\ UNCHANGED <<manifest, leftover, fclaim, kclaim, kept, trash, prep, rv, mode>>
           /\ UNCHANGED <<foreign, ticked>> \/ VerifyBuild
           /\ pc \in EarlyPlaces /\ pc' \in EarlyPlaces \cup {"ending"}
           /\ run'.missing = run.missing
<1>1. Running /\ Now.phase < BuildVerified
  BY WholeParts, Phases DEF BuildStep, Reread, VerifySources, MakeBuilding, RecordBuilding, Place,
     VerifyBuild, Running, RunPlaces, PhaseFits
<1>2. active # 0 /\ active \in Gens /\ Pending /\ InPlace
  BY <1>1, RunIsActive, WholeParts, Phases, ActiveJournal DEF StandFits, Journal
<1>3. /\ dir'["view"] = dir["view"] /\ dir'["previous"] = dir["previous"] /\ active' = active
      /\ UNCHANGED <<manifest, leftover, fclaim, kclaim, kept, trash, prep, rv, mode>>
      /\ UNCHANGED <<foreign, ticked>> \/ VerifyBuild
  BY WholeParts DEF BuildStep, Reread, VerifySources, MakeBuilding, RecordBuilding, Place,
     VerifyBuild, disk, status, records, others, Places
<1>4. /\ pc \in EarlyPlaces /\ pc' \in EarlyPlaces \cup {"ending"}
      /\ run'.missing = run.missing
  BY WholeParts DEF BuildStep, Reread, VerifySources, MakeBuilding, RecordBuilding, Place,
     VerifyBuild, Goto, End, EarlyPlaces, TypeInv, TypeOK, RunOK, Run
<1>5. Now'.view = Now.view /\ Pending'
  BY <1>1, <1>2, <1>3, WholeParts, Phases, ActiveJournal DEF BuildStep, Reread, VerifySources,
     MakeBuilding, RecordBuilding, Place, VerifyBuild, status, Advance, Now, Pending, Journal
<1> QED BY <1>1, <1>2, <1>3, <1>4, <1>5 DEF SameApply

LEMMA BuildKeepsTraced == Whole /\ Traced /\ BuildStep => Traced'
<1> SUFFICES ASSUME Whole, Traced, BuildStep PROVE Traced'
  OBVIOUS
<1>1. KeepsOld /\ pc' \notin {"moving", "moved"}
  BY BuildFrame, FoldersStay DEF EarlyPlaces
<1>2. CASE UNCHANGED <<foreign, ticked>>
  BY <1>1, <1>2, BuildFrame, TracedStays
<1>3. CASE VerifyBuild /\ ~UNCHANGED <<foreign, ticked>>
  <2>1. \A f \in Files : /\ foreign'[f] \in {"none", "pending"}
                         /\ foreign'[f] = "pending" =>
                               /\ f \in dir["view"].files /\ f # Entry
                               /\ InState("installed") # {}
    BY <1>3 DEF VerifyBuild
  <2>2. InState("installed") # {} => Now.view # Absent
    BY BuildFrame, WholeParts DEF StandFits, Installed
  <2>3. InPlace' /\ OldFiles' = dir["view"].files
    BY BuildFrame DEF InPlace, OldFiles
  <2>4. OldIsNew'
    BY BuildFrame DEF Traced, OldIsNew, SameApply
  <2>5. fclaim' = {}
    BY BuildFrame DEF Traced, ForeignFits
  <2> QED BY <1>1, BuildFrame, <2>1, <2>2, <2>3, <2>4, <2>5 DEF Traced, ForeignFits, MoveFits, Pending
<1> QED BY <1>2, <1>3, BuildFrame
\* What a step of the swap leaves alone.
LEMMA SwapFrame ==
    ASSUME Whole, SwapStep
    PROVE  /\ Running /\ active # 0 /\ active \in Gens /\ active # Absent /\ Pending
           /\ Now.phase \in BuildVerified..OldMoved
           /\ SameApply /\ Pending' /\ UNCHANGED <<foreign, fclaim, ticked>>
           /\ \A f \in Files : leftover'[f].in = leftover[f].in
           /\ pc' \notin ForeignPlaces
<1>1. pc \in ReadyPlaces \cup {"asideDone", "afterWait", "install", "restore", "placed"}
  BY DEF ReadyPlaces, SwapStep, EnterSwap, ClaimKept, SkipKept, MoveKept, RecordKept,
     RecordMissing, ClearPrevious, RetirePrevious, CheckSwap, MoveAside, AsideFails, StartWait,
     CancelWait, RecordAside, AfterWait, Install, InstallFails, Restore, RestoreFails,
     RecordInstalled
<1>2. Running /\ Now.phase \in BuildVerified..OldMoved
  BY <1>1, WholeParts, Phases DEF PhaseFits, Running, RunPlaces, ReadyPlaces
<1>3. active # 0 /\ active \in Gens /\ active # Absent /\ Pending
  BY SMTT(30), <1>2, Phases, RunIsActive, Names
<1>4. active' = active /\ UNCHANGED <<foreign, fclaim, ticked>> /\ pc' \notin ForeignPlaces
  BY DEF status, records, Goto, End, BreakOff, ForeignPlaces, SwapStep, EnterSwap, ClaimKept, SkipKept,
     MoveKept, RecordKept, RecordMissing, ClearPrevious, RetirePrevious, CheckSwap, MoveAside, AsideFails,
     StartWait, CancelWait, RecordAside, AfterWait, Install, InstallFails, Restore, RestoreFails,
     RecordInstalled
<1>5. \A f \in Files : leftover'[f].in = leftover[f].in
  <2>1. leftover' = leftover \/ \E gone : leftover' = KeptMoved(gone)
    BY DEF records, SwapStep, EnterSwap, ClaimKept, SkipKept, MoveKept, RecordKept,
       RecordMissing, ClearPrevious, RetirePrevious, CheckSwap, MoveAside, AsideFails, StartWait,
       CancelWait, RecordAside, AfterWait, Install, InstallFails, Restore, RestoreFails,
       RecordInstalled
  <2> QED BY <2>1, WholeParts, MovedNames DEF TypeInv, TypeOK
<1>6. Now'.view = Now.view /\ Pending'
  <2>1. \/ journal' = journal
        \/ \E phase \in {WaitingForRelease, OldMoved, NewInstalled} : Advance(phase)
    BY DEF status, SwapStep, EnterSwap, ClaimKept, SkipKept, MoveKept, RecordKept,
       RecordMissing, ClearPrevious, RetirePrevious, CheckSwap, MoveAside, AsideFails, StartWait,
       CancelWait, RecordAside, AfterWait, Install, InstallFails, Restore, RestoreFails,
       RecordInstalled
  <2>2. CASE journal' = journal
    BY <1>3, <1>4, <2>2 DEF Now, Pending
  <2>3. ASSUME NEW phase \in {WaitingForRelease, OldMoved, NewInstalled}, Advance(phase)
        PROVE  Now'.view = Now.view /\ Pending'
    BY <1>3, <1>4, <2>3, NowAdvances, Phases
  <2> QED BY <2>1, <2>2, <2>3
<1> QED BY <1>2, <1>3, <1>4, <1>5, <1>6 DEF SameApply

\* What it does to the disk.
LEMMA SwapDisk ==
    ASSUME Whole, SwapStep
    PROVE  \/ UNCHANGED dir
           \/ /\ pc \in ReadyPlaces /\ dir'["view"] = dir["view"]
              /\ dir'["building"] = dir["building"]
              /\ dir'["previous"].id \in {dir["previous"].id, Absent}
              /\ dir'["previous"].files \subseteq dir["previous"].files
           \/ MoveAside \/ Install \/ Restore
<1>1. \/ UNCHANGED dir
      \/ /\ pc \in ReadyPlaces
         /\ \/ dir' = [dir EXCEPT !["previous"].files = @ \ {run.at}]
            \/ dir' = [dir EXCEPT !["previous"] = Emptied(@)]
      \/ MoveAside \/ Install \/ Restore
  BY DEF SwapStep, EnterSwap, ClaimKept, SkipKept, MoveKept, RecordKept, RecordMissing,
         ClearPrevious, RetirePrevious, CheckSwap, AsideFails, StartWait, CancelWait,
         RecordAside, AfterWait, InstallFails, RestoreFails, RecordInstalled, ReadyPlaces, disk
<1>2. /\ dir["previous"] \in Folder /\ Emptied(dir["previous"]).id \in {dir["previous"].id, Absent}
      /\ Emptied(dir["previous"]).files = dir["previous"].files
  BY WholeParts, Disk DEF Emptied, NoFolder
<1> QED BY SMTT(30), <1>1, <1>2, WholeParts DEF Places, Folder

LEMMA SwapKeepsTraced == Whole /\ Traced /\ SwapStep => Traced'
<1> SUFFICES ASSUME Whole, Traced, SwapStep PROVE Traced'
  OBVIOUS
<1>1. ASSUME Now.view # Absent PROVE \A f \in OldFiles : f \in OldFiles'
  <2>0. Pending /\ active # Absent /\ Now'.view = Now.view /\ Now.view # active
    BY SwapFrame, OldIsInstalled DEF SameApply
  <2>1. CASE UNCHANGED dir
    BY <2>0, <2>1 DEF OldFiles, InPlace
  <2>2. CASE pc \in ReadyPlaces /\ dir'["view"] = dir["view"]
    <3>1. InPlace
      BY <2>2, WholeParts DEF RunFits
    <3> QED BY <2>0, <2>2, <3>1 DEF OldFiles, InPlace
  <2>3. CASE MoveAside
    <3>1. InPlace
      BY <2>3, WholeParts DEF MoveAside, RunFits, ReadyPlaces
    <3>2. dir'["previous"] = dir["view"] /\ dir'["view"].id = Absent
      BY <2>3, WholeParts DEF MoveAside, Renamed, NoFolder, Places
    <3> QED BY <1>1, <2>0, <3>1, <3>2 DEF OldFiles, InPlace
  <2>4. CASE Install
    <3>1. Aside /\ dir["building"].id = active
      BY <1>1, <2>4, WholeParts DEF Install, RunFits, FoldersFit, BuiltPlaces
    <3>2. dir'["previous"] = dir["previous"] /\ dir'["view"].id = active /\ ~InPlace
      BY <2>0, <2>4, <3>1, WholeParts, OldIsInstalled DEF Install, Renamed, NoFolder, Places
    <3> QED BY <2>0, <3>2 DEF OldFiles, InPlace
  <2>5. CASE Restore
    <3>1. Aside /\ ~InPlace
      BY <1>1, <2>0, <2>5, WholeParts, OldIsInstalled DEF Restore, RunFits
    <3>2. dir'["view"] = dir["previous"]
      BY <2>5, WholeParts DEF Restore, Renamed, NoFolder, Places
    <3> QED BY <2>0, <3>1, <3>2 DEF OldFiles, InPlace, Aside, OldThere
  <2> QED BY <2>1, <2>2, <2>3, <2>4, <2>5, SwapDisk
<1>2. KeepsOld
  BY <1>1, SwapFrame DEF KeepsOld
<1> QED BY <1>2, SwapFrame, TracedStays DEF ForeignPlaces

\* Without an Apply there is nothing to trace.
LEMMA NothingTraced ==
    ASSUME active' = 0, pc' \notin {"moving", "moved"}
    PROVE  Traced'
BY DEF Traced, OldIsNew, ForeignFits, MoveFits, Pending

LEMMA FinishKeepsTraced == Whole /\ Traced /\ FinishStep => Traced'
<1> SUFFICES ASSUME Whole, Traced, FinishStep PROVE Traced'
  OBVIOUS
<1>0. Running /\ active # 0 /\ active \in Gens /\ NewInstalled <= Now.phase
      /\ (Pending <=> pc = "installed")
  <2>1. pc \in {"installed", "committed", "transferred", "retiring", "settling"} \cup ForeignPlaces
    BY DEF FinishStep, Commit, CommitRefused, ReadInstalled, LeaveForeign, ClaimForeign,
       MoveForeign, RecordForeign, EndForeign, SettleFirst, StartRetiring, Retire, Settle,
       SettleRefused, ForeignPlaces
  <2>2. Running
    BY <2>1 DEF Running, RunPlaces, ForeignPlaces
  <2> QED BY SMTT(30), <2>1, <2>2, RunIsActive, WholeParts, Phases DEF PhaseFits
<1>1. CASE SettleFirst \/ Settle
  BY <1>1, NothingTraced DEF SettleFirst, Settle, SettledAs
<1>2. CASE Commit
  <2>1. /\ UNCHANGED <<dir, leftover, foreign, fclaim, run>> /\ active' = active /\ pc' = "committed"
        /\ Now'.view = Now.view /\ ~Pending'
    BY <1>0, <1>2, NowAdvances, Phases DEF Commit, disk, Goto
  <2>2. Pending /\ Switched
    BY <1>0, <1>2, WholeParts DEF Commit, PhaseFits, StandFits
  <2>3. Now.view # Absent => dir["previous"].id = Now.view /\ OldFiles = dir["previous"].files
    BY <2>2, OldIsInstalled DEF Switched, OldThere, OldFiles
  <2>4. /\ fclaim = {}
        /\ \A f \in Files : /\ foreign[f] \in {"none", "pending"}
                            /\ foreign[f] = "pending" => f # Entry /\ Now.view # Absent
                                                         /\ f \in dir["previous"].files
    BY <1>0, <2>2, <2>3 DEF Traced, ForeignFits
  <2> QED BY <1>0, <2>1, <2>3, <2>4 DEF Traced, OldIsNew, ForeignFits, MoveFits
<1>3. CASE CommitRefused \/ ReadInstalled \/ EndForeign \/ StartRetiring \/ SettleRefused
  <2>1. /\ UNCHANGED <<dir, leftover, foreign, fclaim, ticked>> /\ active' = active
        /\ pc' \notin {"moving", "moved"}
    BY <1>3 DEF CommitRefused, ReadInstalled, EndForeign, StartRetiring, SettleRefused, disk,
       records, status, Goto, BreakOff
  <2>2. Now'.view = Now.view /\ (Pending' <=> Pending)
    <3>1. CASE EndForeign \/ StartRetiring
      BY <1>0, <2>1, <3>1, NowAdvances, Phases DEF EndForeign, StartRetiring
    <3>2. CASE journal' = journal
      BY <2>1, <3>2 DEF Now, Pending
    <3> QED BY <1>3, <3>1, <3>2 DEF CommitRefused, ReadInstalled, SettleRefused, status
  <2> QED BY <2>1, <2>2, FoldersStay, TracedStays DEF SameApply
<1>4. CASE Retire
  <2>1. /\ UNCHANGED <<leftover, foreign, fclaim, ticked, journal>> /\ active' = active /\ pc' = "settling"
        /\ dir'["view"] = dir["view"] /\ dir'["previous"].id \in {dir["previous"].id, Absent}
        /\ dir["previous"].files \ {Entry} \subseteq dir'["previous"].files
    <3>1. PICK unproven \in SUBSET {Entry} :
             dir' = [dir EXCEPT !["previous"] = Emptied([@ EXCEPT !.files =
                        dir["previous"].files \ ({Entry} \ unproven)])]
      BY <1>4 DEF Retire
    <3> DEFINE d == [dir["previous"] EXCEPT !.files = dir["previous"].files \ ({Entry} \ unproven)]
    <3>2. d.id = dir["previous"].id /\ d.files = dir["previous"].files \ ({Entry} \ unproven)
      BY WholeParts, Disk DEF Folder
    <3>3. dir' = [dir EXCEPT !["previous"] = Emptied(d)]
      BY <3>1
    <3> HIDE DEF d
    <3>4. Emptied(d).id \in {d.id, Absent} /\ Emptied(d).files = d.files
      BY DEF Emptied, NoFolder
    <3> QED BY <1>4, <3>2, <3>3, <3>4, WholeParts DEF Retire, records, status, Places
  <2>2. SameApply /\ KeepsOld /\ ~Pending
    BY <1>0, <1>4, <2>1 DEF SameApply, KeepsOld, Now, Pending, Retire
  <2> QED BY <2>1, <2>2, TracedStays
<1>5. CASE MoveForeign \/ RecordForeign \/ \E f \in Files : LeaveForeign(f) \/ ClaimForeign(f)
  <2>0. /\ ~Pending /\ active' = active /\ UNCHANGED <<leftover, journal, ticked>>
        /\ Now' = Now /\ ~Pending' /\ run.at \in Files
    BY <1>0, <1>5, WholeParts, AtWork DEF MoveForeign, RecordForeign, LeaveForeign, ClaimForeign,
       records, status, Now, Pending
  <2>1. ASSUME NEW f \in Files, LeaveForeign(f) PROVE Traced'
    <3>1. /\ UNCHANGED <<dir, fclaim, run>> /\ pc' = "foreign" /\ foreign[f] = "pending"
          /\ f \in dir["previous"].files
          /\ foreign' = [foreign EXCEPT ![f] = IF f \in ticked THEN "failed" ELSE "stayed"]
      BY <1>0, <2>0, <2>1 DEF LeaveForeign, disk, Traced, ForeignFits
    <3>2. OldIsNew'
      BY <2>0, <3>1 DEF Traced, OldIsNew
    <3> QED BY <1>0, <2>0, <3>1, <3>2, WholeParts DEF Traced, ForeignFits, MoveFits, TypeInv, TypeOK,
            RecordsOK
  <2>2. ASSUME NEW f \in Files, ClaimForeign(f) PROVE Traced'
    <3>1. /\ UNCHANGED <<dir, foreign>> /\ pc' = "moving" /\ foreign[f] = "pending"
          /\ fclaim' = fclaim \cup {f} /\ run'.at = f /\ (run'.resumed <=> f \in fclaim)
          /\ f \in ticked
      BY <2>2, WholeParts DEF ClaimForeign, disk, TypeInv, TypeOK, RunOK, Run
    <3>2. OldIsNew'
      BY <2>0, <3>1 DEF Traced, OldIsNew
    <3> QED BY <1>0, <2>0, <3>1, <3>2 DEF Traced, ForeignFits, MoveFits
  <2>3. CASE MoveForeign
    <3>0. /\ UNCHANGED <<foreign, fclaim>> /\ pc' = "moved" /\ run'.at = run.at
          /\ foreign[run.at] = "pending" /\ run.at \in fclaim
          /\ ~run.resumed => run.at \in dir["previous"].files
          /\ run.at \in dir["previous"].files \/ run.at \in dir["view"].files
      BY <1>0, <2>0, <2>3, WholeParts DEF MoveForeign, records, Traced, MoveFits, ForeignFits, TypeInv,
         TypeOK, RunOK, Run
    <3>1. CASE run'.left /\ UNCHANGED dir /\ AlreadyMoved(run.at)
      BY <1>0, <2>0, <3>0, <3>1 DEF Traced, OldIsNew, ForeignFits, MoveFits, AlreadyMoved
    <3>2. CASE ~run'.left /\ UNCHANGED dir /\ ~AlreadyMoved(run.at)
      BY <1>0, <2>0, <3>0, <3>2 DEF Traced, OldIsNew, ForeignFits, MoveFits, AlreadyMoved
    <3>3. CASE /\ run'.left
               /\ dir' = [dir EXCEPT !["previous"].files = @ \ {run.at},
                                     !["view"].files = @ \cup {run.at}]
      <4>1. /\ dir'["previous"].id = dir["previous"].id
            /\ dir'["previous"].files = dir["previous"].files \ {run.at}
            /\ dir'["view"].files = dir["view"].files \cup {run.at}
        BY <3>3, WholeParts DEF Folder, Places
      <4> QED BY <1>0, <2>0, <3>0, <3>3, <4>1 DEF Traced, OldIsNew, ForeignFits, MoveFits
    <3>4. run \in Run
      BY WholeParts DEF TypeInv, TypeOK, RunOK
    <3> QED BY <2>3, <3>1, <3>2, <3>3, <3>4 DEF MoveForeign, Run
  <2>4. CASE RecordForeign
    <3>1. /\ UNCHANGED <<dir, fclaim, run>> /\ pc' = "foreign" /\ foreign[run.at] = "pending"
          /\ foreign' = [foreign EXCEPT ![run.at] = IF run.left THEN "moved" ELSE "failed"]
          /\ run.at \in dir[IF run.left THEN "view" ELSE "previous"].files
      BY <2>4 DEF RecordForeign, disk, Goto, Traced, MoveFits
    <3>2. OldIsNew'
      BY <2>0, <3>1 DEF Traced, OldIsNew
    <3> QED BY <1>0, <2>0, <3>1, <3>2, WholeParts DEF Traced, ForeignFits, MoveFits, TypeInv, TypeOK,
            RecordsOK
  <2> QED BY <1>5, <2>1, <2>2, <2>3, <2>4
<1> QED BY <1>1, <1>2, <1>3, <1>4, <1>5 DEF FinishStep
\* A step that moves no folder and no journal.
LEMMA IdleStep ==
    ASSUME Whole, UNCHANGED <<journal, active>>
    PROVE  SameApply
BY DEF SameApply, Now, Pending

LEMMA EndKeepsTraced == Whole /\ Traced /\ EndStep => Traced'
<1> SUFFICES ASSUME Whole, Traced, EndStep PROVE Traced'
  OBVIOUS
<1>1. CASE ClearBuilding
  <2>1. /\ UNCHANGED <<journal, active, leftover, foreign, fclaim, ticked, pc>> /\ pc = "ending"
        /\ dir'["view"] = dir["view"] /\ dir'["previous"] = dir["previous"]
    BY <1>1, WholeParts DEF ClearBuilding, records, status, Places
  <2> QED BY <2>1, IdleStep, FoldersStay, TracedStays
<1>2. CASE Discard
  BY <1>2, NothingTraced DEF Discard, SettledAs
<1> QED BY <1>1, <1>2 DEF EndStep

LEMMA RecoveryKeepsTraced == Whole /\ Traced /\ RecoveryStep => Traced'
<1> SUFFICES ASSUME Whole, Traced, RecoveryStep PROVE Traced'
  OBVIOUS
<1>1. CASE RecoverFolders
  <2>1. /\ UNCHANGED <<foreign, fclaim, ticked>> /\ pc' \notin {"moving", "moved"}
        /\ UNCHANGED <<journal, active, leftover>> /\ active # 0
    BY <1>1, RecoveryChooses DEF RecoverFolders, records
  <2>2. KeepsOld
    <3>1. CASE UNCHANGED dir
      BY <2>1, <3>1, IdleStep, FoldersStay
    <3>2. CASE dir' = Renamed("previous", "view") /\ Aside /\ Pending
      <4>1. dir'["view"] = dir["previous"] /\ ~InPlace /\ Now' = Now
        BY <2>1, <3>2, WholeParts, OldIsInstalled DEF Renamed, NoFolder, Places, Now
      <4>2. OldFiles' = OldFiles
        BY <3>2, <4>1 DEF OldFiles, InPlace, Aside, OldThere
      <4> QED BY <3>2, <4>2 DEF KeepsOld
    <3> QED BY <1>1, <3>1, <3>2, RecoveryChooses
  <2> QED BY <2>1, <2>2, IdleStep, TracedStays
<1>2. CASE ~RecoverFolders
  <2>1. /\ UNCHANGED <<dir, foreign, fclaim, ticked>> /\ active' = active
        /\ pc' \notin {"moving", "moved"} \/ UNCHANGED <<pc, run>>
    BY <1>2, WholeParts DEF RecoveryStep, Start, Recovered, SettleClaim, Agreement, disk, records,
       status, Goto
  <2>2. \A f \in Files : leftover'[f].in = leftover[f].in
    <3>1. leftover' = leftover \/ \E gone : leftover' = KeptMoved(gone)
      BY <1>2 DEF RecoveryStep, Start, Recovered, SettleClaim, records
    <3> QED BY <3>1, WholeParts, MovedNames DEF TypeInv, TypeOK
  <2>3. SameApply
    <3>1. CASE journal' = journal
      BY <2>1, <3>1, IdleStep
    <3>2. CASE Recovered /\ Advance(NewInstalled) /\ Now.phase < NewInstalled
      <4>1. active # 0 /\ Pending
        BY <3>2, RunIsActive, ActiveJournal, Phases DEF Recovered, Running, RunPlaces, Journal
      <4> QED BY <2>1, <3>2, <4>1, NowAdvances, Phases DEF SameApply
    <3> QED BY <1>2, <3>1, <3>2 DEF RecoveryStep, Start, Recovered, SettleClaim, status
  <2> QED BY <2>1, <2>2, <2>3, FoldersStay, TracedStays
<1> QED BY <1>1, <1>2

\* No review takes a file from the View an Apply found.
LEMMA OldNotReviewed ==
    ASSUME Whole, Traced, active # 0, Now.view # Absent, NEW f \in Files, StillThere(f)
    PROVE  Pending /\ InPlace
<1>1. dir["previous"].id # Absent /\ dir["previous"].id # Now.view
  BY WholeParts, Disk DEF StillThere, FoldersFit, Present, Traced, OldIsNew
<1>2. Pending
  BY <1>1 DEF Traced, OldIsNew
<1> QED BY <1>1, <1>2, WholeParts DEF StandFits, Aside, Switched, OldThere

LEMMA ReviewKeepsTraced == Whole /\ Traced /\ ReviewStep => Traced'
<1> SUFFICES ASSUME Whole, Traced, ReviewStep PROVE Traced'
  OBVIOUS
<1>1. /\ UNCHANGED <<journal, active, foreign, fclaim, ticked, pc, run>> /\ rv.file \in Files
      /\ dir["previous"] \in Folder /\ dir["view"] \in Folder /\ Now' = Now
  BY WholeParts, Disk DEF ReviewStep, ActReview, RecordReview, ClearReviewed, RetireReviewed, records,
     status, TypeInv, TypeOK, OthersOK, Review, Now
<1>2. \A f \in Files : leftover'[f].in = leftover[f].in
  BY <1>1, WholeParts DEF ReviewStep, ActReview, RecordReview, ClearReviewed, RetireReviewed,
     records, TypeInv, TypeOK, RecordsOK
<1>3. \/ UNCHANGED dir
      \/ /\ StillThere(rv.file)
         /\ \/ dir' = [dir EXCEPT !["previous"].files = @ \ {rv.file},
                                  !["view"].files = @ \cup {rv.file}]
            \/ dir' = [dir EXCEPT !["previous"].files = @ \ {rv.file}]
      \/ dir' = [dir EXCEPT !["previous"] = Emptied(@)]
  BY DEF ReviewStep, ActReview, RecordReview, ClearReviewed, RetireReviewed, disk
<1>4. KeepsOld
  <2>1. CASE UNCHANGED dir
    BY <1>1, <2>1, FoldersStay, IdleStep
  <2>2. CASE /\ StillThere(rv.file)
             /\ \/ dir' = [dir EXCEPT !["previous"].files = @ \ {rv.file},
                                      !["view"].files = @ \cup {rv.file}]
                \/ dir' = [dir EXCEPT !["previous"].files = @ \ {rv.file}]
    <3>1. dir'["view"].id = dir["view"].id /\ dir["view"].files \subseteq dir'["view"].files
      BY <1>1, <2>2, WholeParts DEF Folder, Places
    <3> QED BY <1>1, <2>2, <3>1, OldNotReviewed DEF KeepsOld, OldFiles, InPlace
  <2>3. CASE dir' = [dir EXCEPT !["previous"] = Emptied(@)]
    <3>1. /\ dir'["view"] = dir["view"] /\ dir'["previous"] = Emptied(dir["previous"])
      BY <2>3, WholeParts DEF Places
    <3>2. /\ dir'["previous"].files = dir["previous"].files
          /\ dir'["previous"].id \in {dir["previous"].id, Absent}
      BY <3>1 DEF Emptied, NoFolder
    <3> QED BY <1>1, <3>1, <3>2 DEF KeepsOld, OldFiles, InPlace
  <2> QED BY <1>3, <2>1, <2>2, <2>3
<1> QED BY <1>1, <1>2, <1>4, IdleStep, TracedStays

LEMMA RequestKeepsTraced == Whole /\ Whole' /\ Traced /\ Request => Traced'
<1> SUFFICES ASSUME Whole, Whole', Traced, Request PROVE Traced'
  OBVIOUS
<1>1. CASE \E c \in Callers : Reserve(c)
  <2>0. PICK c \in Callers : Reserve(c)
    BY <1>1
  <2>1. PICK g \in Gens :
           /\ active' = g
           /\ journal' = [journal EXCEPT ![g] =
                 [phase |-> Reserved, from |-> Unwritten, outcome |-> "none",
                  view |-> prep[c].view, building |-> Absent]]
    BY <2>0 DEF Reserve
  <2>2. /\ active' # 0 /\ Now'.phase = Reserved /\ Pending'
        /\ pc' = "reserved" /\ fclaim' = {} /\ \A f \in Files : foreign'[f] = "none"
    BY <2>0, <2>1, WholeParts, BoundsAssumption, Phases DEF Reserve, Now, Gens, Pending
  <2>3. Now'.view # Absent => \A f \in Files : leftover'[f].in # Now'.view
    <3>1. /\ InState("installed")' = (IF Now'.view = Absent THEN {} ELSE {Now'.view})
          /\ \A f \in Files : leftover'[f].in \in Past' \cup {Absent}
      BY <2>2 DEF Whole, Placed, StandFits, PastFits, Installed
    <3> QED BY <3>1 DEF InState, Past
  <2> QED BY <2>2, <2>3 DEF Traced, OldIsNew, ForeignFits, MoveFits
<1>2. CASE \E c \in Callers : CheckSheet(c)
  <2>1. active' = 0 /\ pc' = pc /\ active = 0
    BY <1>2 DEF CheckSheet, status
  <2>2. pc \notin RunPlaces
    BY <2>1, RunIsActive DEF Running
  <2> QED BY <2>1, <2>2, NothingTraced DEF RunPlaces
<1>3. CASE ~\E c \in Callers : Reserve(c) \/ CheckSheet(c)
  <2>1. /\ UNCHANGED <<dir, journal, active, leftover, foreign, fclaim, ticked, pc>>
        /\ run'.at = run.at /\ run'.left = run.left /\ run'.resumed = run.resumed
    BY <1>3, WholeParts DEF Request, CloseSheet, StartReview, CancelApply, disk, records, status,
       TypeInv, TypeOK, RunOK, Run
  <2> QED BY <2>1, FoldersStay, IdleStep, TracedStays
<1> QED BY <1>1, <1>2, <1>3

LEMMA BesideKeepsTraced == Unmoved /\ Whole /\ Traced /\ (Failure \/ Outside) => Traced'
<1> SUFFICES ASSUME Unmoved, Whole, Traced, Failure \/ Outside PROVE Traced'
  OBVIOUS
<1>1. /\ UNCHANGED <<journal, active, leftover, foreign, fclaim, ticked>>
      /\ pc' \in {"idle", "stopped"} \/ UNCHANGED <<pc, run>>
  BY DEF Failure, Crash, RunBreaksOff, Quit, Down, BreakOff, Outside, Edit, Hold, Release, Occupy,
     WriteView, Litter, UserDeletes, Remove, DeletePrevious, Vanish, FilesChange, records, status
<1>2. KeepsOld
  <2>1. \/ UNCHANGED dir
        \/ \E f \in Tool, p \in {"view", "previous"} :
              dir' = [dir EXCEPT ![p].files = dir[p].files \cup {f}]
    BY DEF Failure, Crash, RunBreaksOff, Quit, Down, BreakOff, Outside, Edit, Hold, Release, Occupy,
       WriteView, Litter, UserDeletes, Remove, DeletePrevious, Vanish, FilesChange, disk, Unmoved
  <2>2. \A p \in {"view", "previous"} : dir'[p].id = dir[p].id /\ dir[p].files \subseteq dir'[p].files
    BY <2>1, WholeParts, Disk DEF Folder, Places
  <2> QED BY <1>1, <2>2 DEF KeepsOld, OldFiles, InPlace, Now
<1> QED BY <1>1, <1>2, IdleStep, TracedStays

\* While nobody takes the folders away, what the journal says of a ticked file
\* is where the file is, also after a stop between the move and its record and
\* beside a review that overlaps the Apply.
THEOREM ForeignAlwaysAccounted == ASSUME Unmoved PROVE Spec => []ForeignAccounted
<1>1. Init => Traced
  BY DEF Init, Traced, OldIsNew, ForeignFits, MoveFits, Pending
<1>2. Whole /\ [Next]_vars => Whole'
  BY WholeStep
<1>3. Whole /\ Whole' /\ Traced /\ [Next]_vars => Traced'
  <2> SUFFICES ASSUME Whole, Whole', Traced, [Next]_vars PROVE Traced'
    OBVIOUS
  <2>1. CASE UNCHANGED vars
    BY <2>1, FoldersStay, IdleStep, TracedStays DEF vars
  <2>2. CASE Next
    BY <2>2, BuildKeepsTraced, SwapKeepsTraced, FinishKeepsTraced, EndKeepsTraced,
       RecoveryKeepsTraced, ReviewKeepsTraced, RequestKeepsTraced, BesideKeepsTraced
       DEF Next, RunStep
  <2> QED BY <2>1, <2>2
<1>4. Whole /\ Traced => ForeignAccounted
  <2> SUFFICES ASSUME Whole, Traced, active # 0, Now.phase >= ManifestCommitted
               PROVE  \A f \in Files :
                         /\ foreign[f] = "moved" => f \in dir["view"].files
                         /\ foreign[f] \in {"stayed", "failed"} => f \in dir["previous"].files
    BY DEF ForeignAccounted
  <2>1. ~Pending
    BY ActiveJournal, Phases
  <2> QED BY <2>1 DEF Traced, ForeignFits
<1> QED BY <1>1, <1>2, <1>3, <1>4, WholeInit, PTL DEF Spec
-----------------------------------------------------------------------------
(* From the install on the catalog refuses no write of the Apply, unless   *)
(* the folders are taken away or a review overlaps it.                     *)

Alone == Unmoved /\ "overlap" \notin World

\* Views that were installed, and the one that is.
Ever == {g \in Gens : manifest[g] \in {"installed", "previous", "retired"}}

\* A review is done before the next Apply begins; a run that broke off still
\* holds the reservation; a sheet is one of this process, and of a View that
\* was installed when it was checked.
Lone ==
    /\ rv.at # "none" => active = 0
    /\ pc = "stopped" => active # 0
    /\ \A c \in Callers : prep[c].open =>
          /\ mode = "open"
          /\ prep[c].view \in Ever \cup {Absent}
          /\ active # 0 => prep[c].view # active

\* A step that moves no manifest but from previous on.
LEMMA EverKept ==
    ASSUME Whole, manifest' \in {manifest, PreviousRetired}
    PROVE  /\ Ever' = Ever /\ InState("installed")' = InState("installed")
           /\ InState("previous")' \subseteq InState("previous")
BY WholeParts DEF Ever, InState, PreviousRetired

\* Which steps write the manifests.
LEMMA ManifestMoves ==
    ASSUME Whole, Next
    PROVE  \/ manifest' \in {manifest, PreviousRetired} \/ Commit \/ Discard
           \/ \E c \in Callers : Reserve(c)
<1>1. CASE BuildStep \/ SwapStep
  BY <1>1 DEF BuildStep, Reread, VerifySources, MakeBuilding, RecordBuilding, Place, VerifyBuild,
     SwapStep, EnterSwap, ClaimKept, SkipKept, MoveKept, RecordKept, RecordMissing,
     ClearPrevious, RetirePrevious, CheckSwap, MoveAside, AsideFails, StartWait, CancelWait,
     RecordAside, AfterWait, Install, InstallFails, Restore, RestoreFails, RecordInstalled,
     records
<1>2. CASE FinishStep
  BY <1>2 DEF FinishStep, CommitRefused, ReadInstalled, LeaveForeign, ClaimForeign, MoveForeign,
     RecordForeign, EndForeign, SettleFirst, StartRetiring, Retire, Settle, SettleRefused, records
<1>3. CASE EndStep \/ RecoveryStep \/ ReviewStep
  BY <1>3 DEF EndStep, ClearBuilding, RecoveryStep, Start, RecoverFolders, Recovered, SettleClaim,
     ReviewStep, ActReview, RecordReview, ClearReviewed, RetireReviewed, records
<1>4. CASE Request \/ Failure \/ Outside
  BY <1>4 DEF Request, CheckSheet, CloseSheet, StartReview, CancelApply, Failure, Crash,
     RunBreaksOff, Quit, Down, BreakOff, Outside, Edit, Hold, Release, Occupy, WriteView, Litter,
     UserDeletes, Remove, DeletePrevious, Vanish, FilesChange, records
<1> QED BY SMTT(30), <1>1, <1>2, <1>3, <1>4 DEF Next, RunStep

\* A reservation takes a generation of its own, an end discards its own.
LEMMA ManifestTaken ==
    ASSUME Whole, Discard \/ \E c \in Callers : Reserve(c)
    PROVE  /\ Ever \subseteq Ever' /\ InState("installed")' = InState("installed")
           /\ InState("previous")' \subseteq InState("previous")
           /\ (\E c \in Callers : Reserve(c)) => active' \in Gens /\ manifest[active'] = "none"
<1>1. CASE Discard
  <2>1. manifest[active] = "building" /\ active \in Gens
    BY <1>1, RunIsActive, ActiveJournal, WholeParts, Phases DEF Discard, Running, RunPlaces, PhaseFits
  <2>2. ~\E c \in Callers : Reserve(c)
    BY <1>1, RunIsActive DEF Discard, Reserve, SheetHolds, Running, RunPlaces
  <2> QED BY <1>1, <2>1, <2>2, WholeParts DEF Discard, Ever, InState
<1>2. CASE \E c \in Callers : Reserve(c)
  <2>1. PICK c \in Callers : Reserve(c)
    BY <1>2
  <2>2. PICK g \in Gens :
           /\ \A h \in Gens : manifest[h] = "none" <=> h >= g
           /\ active' = g
           /\ manifest' = [(IF prep[c].gone THEN PreviousRetired ELSE manifest)
                              EXCEPT ![g] = "building"]
    BY <2>1 DEF Reserve
  <2>3. manifest[g] = "none"
    BY <2>2 DEF Gens
  <2> QED BY <2>2, <2>3, WholeParts DEF Ever, InState, PreviousRetired
<1> QED BY <1>1, <1>2

\* No View is forgotten to have been installed.
LEMMA EverGrows == Whole /\ Next => Ever \subseteq Ever'
<1>1. Whole /\ Commit => Ever \subseteq Ever'
  BY WholeParts DEF Commit, Committed, Ever
<1> QED BY <1>1, ManifestMoves, ManifestTaken, EverKept

\* Only a commit installs one.
LEMMA InstalledStays ==
    ASSUME Whole, Next, ~Commit
    PROVE  InState("installed")' = InState("installed")
BY ManifestMoves, ManifestTaken, EverKept

\* What a step of the run does to what stands beside it.
LEMMA RunFrame ==
    ASSUME Whole, RunStep
    PROVE  /\ UNCHANGED <<prep, rv>>
           /\ active' \in {active, 0}
           /\ mode' # mode => mode' = "open" \/ mode = "down"
           /\ pc' = "stopped" => active' = active /\ (Running \/ pc = "stopped")
<1>1. CASE BuildStep \/ SwapStep
  BY ZenonT(60), <1>1 DEF BuildStep, Reread, VerifySources, MakeBuilding, RecordBuilding, Place, VerifyBuild,
     SwapStep, EnterSwap, ClaimKept, SkipKept, MoveKept, RecordKept, RecordMissing,
     ClearPrevious, RetirePrevious, CheckSwap, MoveAside, AsideFails, StartWait, CancelWait,
     RecordAside, AfterWait, Install, InstallFails, Restore, RestoreFails, RecordInstalled,
     status, others, Goto, End, BreakOff, Running, RunPlaces
<1>2. CASE FinishStep \/ EndStep
  BY <1>2 DEF FinishStep, Commit, CommitRefused, ReadInstalled, LeaveForeign, ClaimForeign,
     MoveForeign, RecordForeign, EndForeign, SettleFirst, StartRetiring, Retire, Settle,
     SettleRefused, EndStep, ClearBuilding, Discard, SettledAs, status, others, Goto, BreakOff,
     Running, RunPlaces
<1>3. CASE RecoverFolders
  <2>1. UNCHANGED <<prep, rv, active>> /\ Running
    BY <1>3, RecoveryChooses DEF RecoverFolders, Running, RunPlaces
  <2>2. mode' \in {mode, "open"}
    BY <1>3, Zenon DEF RecoverFolders, RecoverAs, Stuck, BreakOff
  <2> QED BY <2>1, <2>2
<1>4. CASE Recovered \/ \E f \in Files : SettleClaim(f)
  BY <1>4 DEF Recovered, SettleClaim, status, others, Goto
<1>5. CASE Start
  <2>1. Unsettled = IF active = 0 THEN {} ELSE {active}
    BY WholeParts DEF Agreement
  <2>2. active' = active /\ mode = "down" /\ (pc' = "recover" \/ pc' = pc) /\ UNCHANGED others
    BY <1>5, <2>1 DEF Start
  <2>3. pc' = "stopped" => pc = "stopped"
    BY <2>2
  <2> QED BY <2>2, <2>3 DEF others
<1> QED BY SMTT(30), <1>1, <1>2, <1>3, <1>4, <1>5 DEF RunStep, RecoveryStep

LEMMA LoneStep == Alone /\ Whole /\ Lone /\ [Next]_vars => Lone'
<1> SUFFICES ASSUME Alone, Whole, Lone, [Next]_vars PROVE Lone'
  OBVIOUS
<1>1. CASE UNCHANGED vars
  BY <1>1 DEF vars, Lone, Ever
<1>2. CASE RunStep
  <2>1. Ever \subseteq Ever'
    BY <1>2, EverGrows DEF Next
  <2>2. Running => active # 0
    BY RunIsActive
  <2> QED BY <1>2, <2>1, <2>2, RunFrame DEF Lone
<1>3. CASE ReviewStep
  <2>1. Ever \subseteq Ever'
    BY <1>3, EverGrows DEF Next
  <2>2. UNCHANGED <<prep, active, mode, pc>> /\ rv.at # "none"
    BY <1>3 DEF ReviewStep, ActReview, RecordReview, ClearReviewed, RetireReviewed, status
  <2> QED BY <2>1, <2>2 DEF Lone
<1>4. CASE Failure
  <2>1. UNCHANGED <<manifest, active>> /\ Running => active # 0
    BY <1>4, RunIsActive DEF Failure, Crash, RunBreaksOff, Quit, Down, BreakOff, records, status
  <2>2. CASE /\ pc' = "idle"
             /\ prep' = [c \in Callers |-> NoSheet]
             /\ rv' = NoReview
    BY <2>1, <2>2 DEF Lone, NoSheet, NoReview
  <2>3. CASE RunBreaksOff
    BY <1>4, <2>1, <2>3, RunIsActive DEF Lone, RunBreaksOff, BreakOff, Ever, status, records
  <2> QED BY <1>4, <2>2, <2>3 DEF Failure, Crash, Quit, Down
<1>5. CASE Outside
  BY <1>5 DEF Lone, Ever, Outside, Edit, Hold, Release, Occupy, WriteView, Litter, UserDeletes, Remove,
     DeletePrevious, Vanish, FilesChange, records, status, others
<1>6. CASE CancelApply \/ \E f \in Files, review \in {"kept", "moved", "trashed"} :
                              StartReview(f, review)
  BY <1>6 DEF Lone, Ever, CancelApply, StartReview, Alone, records, status, others
<1>7. ASSUME NEW c \in Callers, CloseSheet(c) \/ CheckSheet(c) PROVE Lone'
  <2>1. /\ UNCHANGED <<manifest, active, mode, pc, rv>>
        /\ \A d \in Callers \ {c} : prep'[d] = prep[d]
    BY <1>7, WholeParts DEF CloseSheet, CheckSheet, records, status, TypeInv, TypeOK, OthersOK
  <2>2. CASE CloseSheet(c)
    BY <2>1, <2>2, WholeParts DEF CloseSheet, NoSheet, TypeInv, TypeOK, OthersOK, Lone, Ever
  <2>3. CASE CheckSheet(c)
    <3>1. /\ active = 0 /\ mode = "open" /\ prep'[c].view = dir["view"].id
      BY <2>3, WholeParts DEF CheckSheet, TypeInv, TypeOK, OthersOK
    <3>2. dir["view"].id \in Ever \cup {Absent}
      BY <3>1, WholeParts DEF StandFits, Installed, InState, Ever
    <3> QED BY <2>1, <3>1, <3>2 DEF Lone, Ever
  <2> QED BY <1>7, <2>2, <2>3
<1>8. ASSUME NEW c \in Callers, Reserve(c) PROVE Lone'
  <2>1. /\ rv.at = "none" /\ rv' = rv /\ mode' = "open" /\ pc' = "reserved"
        /\ \A d \in Callers : prep'[d].open => prep'[d] = prep[d]
    BY <1>8, WholeParts DEF Reserve, NoSheet, Alone, TypeInv, TypeOK, OthersOK
  <2>2. Ever \subseteq Ever' /\ active' \notin Ever \cup {Absent}
    BY <1>8, ManifestTaken, Names DEF Ever
  <2> QED BY <2>1, <2>2 DEF Lone
<1> QED BY <1>1, <1>2, <1>3, <1>4, <1>5, <1>6, <1>7, <1>8 DEF Next, Request
\* Where a run stands from the old View's going aside to the new one's coming.
SwapPlaces == {"aside", "waiting", "asideDone", "afterWait", "install", "restore", "placed"}

\* The run, or the one that was stopped, moves the View folders.
Moving == pc \in SwapPlaces \/ (Pending /\ ~InPlace)

\* Where a run stands before that.
KeepPlaces  == EarlyPlaces \cup {"keeping", "claimed", "recording", "clearing", "retirePrevious", "way"}

\* The catalog has no previous View once the folders move: View (previous)/ is
\* free then, and the only step that frees it retires that View with it.
PreviousGone ==
    /\ Moving => InState("previous") = {}
    /\ pc = "retirePrevious" => ~Present("previous")
    /\ pc = "way" => Present("previous") \/ InState("previous") = {}

\* A step that begins no move of the folders.
LEMMA GoneStays ==
    ASSUME PreviousGone, InState("previous")' \subseteq InState("previous"), Moving' => Moving,
           pc' \in {"retirePrevious", "way"} =>
              pc' = pc /\ (Present("previous")' <=> Present("previous"))
    PROVE  PreviousGone'
BY DEF PreviousGone

\* The View an Apply found is in place still or again where no run moves it.
LEMMA MovingStays ==
    ASSUME Whole, SameApply, dir'["view"].id = dir["view"].id, pc' \in SwapPlaces => pc' = pc
    PROVE  Moving' => Moving
BY DEF SameApply, Moving, Pending, InPlace

\* Without an Apply, or once it committed, no folder moves.
LEMMA NotMoving ==
    ASSUME ~Pending', pc' \notin SwapPlaces
    PROVE  ~Moving'
BY DEF Moving

LEMMA BuildKeepsGone == Whole /\ PreviousGone /\ BuildStep => PreviousGone'
BY BuildFrame, MovingStays, GoneStays DEF InState, EarlyPlaces, SwapPlaces

LEMMA SwapKeepsGone == Whole /\ PreviousGone /\ SwapStep => PreviousGone'
<1> SUFFICES ASSUME Whole, PreviousGone, SwapStep PROVE PreviousGone'
  OBVIOUS
<1>1. InState("previous")' \subseteq InState("previous")
  BY EverKept DEF SwapStep, EnterSwap, ClaimKept, SkipKept, MoveKept, RecordKept, RecordMissing,
     ClearPrevious, RetirePrevious, CheckSwap, MoveAside, AsideFails, StartWait, CancelWait,
     RecordAside, AfterWait, Install, InstallFails, Restore, RestoreFails, RecordInstalled, records
<1>2. CASE Moving
  <2>1. pc' \in {"retirePrevious", "way"} => ~Moving
    <3>1. pc' \in {"retirePrevious", "way"} => pc \in ReadyPlaces \ SwapPlaces
      BY DEF SwapStep, EnterSwap, ClaimKept, SkipKept, MoveKept, RecordKept, RecordMissing,
         ClearPrevious, RetirePrevious, CheckSwap, MoveAside, AsideFails, StartWait, CancelWait,
         RecordAside, AfterWait, Install, InstallFails, Restore, RestoreFails, RecordInstalled,
         ReadyPlaces, SwapPlaces, Goto, End, BreakOff
    <3> QED BY SMTT(30), <3>1, WholeParts DEF Moving, RunFits
  <2> QED BY <1>1, <1>2, <2>1 DEF PreviousGone
<1>3. CASE ~Moving /\ pc \in ReadyPlaces
  <2>0. /\ InPlace /\ pc \notin {"aside", "waiting"} /\ "previous" \in Places
        /\ dir["previous"] \in Folder
    BY <1>3, WholeParts, Disk DEF RunFits, Moving, SwapPlaces
  <2>1. CASE CheckSwap
    <3>1. UNCHANGED <<dir, manifest, active>> /\ SameApply
      BY <2>1, SwapFrame DEF CheckSwap, disk, records, status
    <3>2. CASE ~Present("previous")
      BY <1>1, <2>1, <3>2 DEF PreviousGone, CheckSwap, Goto, End
    <3>3. CASE Present("previous")
      <4>1. pc' = "ending"
        BY <2>1, <3>3 DEF CheckSwap, End
      <4> QED BY <1>1, <1>3, <3>1, <4>1, MovingStays, GoneStays DEF SwapPlaces
    <3> QED BY <3>2, <3>3
  <2>2. CASE RetirePrevious
    <3>1. InState("previous")' = {}
      BY <2>2, WholeParts DEF RetirePrevious, PreviousRetired, InState
    <3> QED BY <2>2, <3>1 DEF PreviousGone, RetirePrevious, Goto
  <2>3. CASE ClearPrevious
    <3>1. /\ dir'["view"] = dir["view"] /\ dir'["previous"] = Emptied(dir["previous"])
          /\ pc' \in {"ending", "retirePrevious", "way"}
          /\ pc' = "retirePrevious" => dir["previous"].files = {}
          /\ pc' = "way" => dir["previous"].files # {}
      BY <2>3, WholeParts DEF ClearPrevious, HoldsNothing, Goto, End, Places
    <3>2. /\ dir["previous"].files = {} => ~Present("previous")'
          /\ dir["previous"].files # {} => Present("previous")'
      BY <2>0, <3>1, WholeParts DEF Emptied, NoFolder, Present, FoldersFit
    <3>3. Moving' => Moving
      BY <3>1, SwapFrame, MovingStays DEF SwapPlaces
    <3> QED BY <1>3, <3>1, <3>2, <3>3 DEF PreviousGone
  <2>4. CASE ~CheckSwap /\ ~RetirePrevious /\ ~ClearPrevious
    <3>1. dir'["view"].id = dir["view"].id
      BY SMTT(30), <1>3, <2>0, SwapDisk DEF MoveAside, Install, Restore, ReadyPlaces
    <3>2. pc' \notin SwapPlaces \cup {"retirePrevious", "way"}
      BY <1>3, <2>0, <2>4 DEF SwapStep, EnterSwap, ClaimKept, SkipKept, MoveKept, RecordKept,
         RecordMissing, MoveAside, AsideFails, StartWait, CancelWait, RecordAside, AfterWait, Install,
         InstallFails, Restore, RestoreFails, RecordInstalled, ReadyPlaces, SwapPlaces, Goto, End
    <3> QED BY <1>1, <3>1, <3>2, SwapFrame, MovingStays, GoneStays
  <2> QED BY <2>1, <2>2, <2>3, <2>4
<1>4. Moving \/ pc \in ReadyPlaces
  BY DEF SwapStep, EnterSwap, ClaimKept, SkipKept, MoveKept, RecordKept, RecordMissing,
     ClearPrevious, RetirePrevious, CheckSwap, MoveAside, AsideFails, StartWait, CancelWait,
     RecordAside, AfterWait, Install, InstallFails, Restore, RestoreFails, RecordInstalled,
     ReadyPlaces, SwapPlaces, Moving
<1> QED BY SMTT(30), <1>2, <1>3, <1>4

\* What the steps from the install on leave alone.
LEMMA FinishFrame ==
    ASSUME Whole, FinishStep
    PROVE  /\ Running /\ active # 0 /\ active \in Gens /\ (Pending <=> pc = "installed")
           /\ UNCHANGED <<prep, rv, kclaim>>
           /\ pc' \notin SwapPlaces \cup KeepPlaces
           /\ \/ active' = 0 /\ ~Pending' /\ manifest' \in {manifest, PreviousRetired}
              \/ Commit /\ active' = active /\ ~Pending' /\ UNCHANGED <<dir, leftover>>
              \/ /\ SameApply /\ dir'["view"].id = dir["view"].id
                 /\ UNCHANGED <<manifest, leftover>>
<1>1. /\ pc \in {"installed", "committed", "transferred", "retiring", "settling"} \cup ForeignPlaces
      /\ UNCHANGED <<prep, rv, kclaim>> /\ pc' \notin SwapPlaces \cup KeepPlaces
      /\ active' = active \/ SettleFirst \/ Settle
  BY DEF FinishStep, Commit, CommitRefused, ReadInstalled, LeaveForeign, ClaimForeign,
     MoveForeign, RecordForeign, EndForeign, SettleFirst, StartRetiring, Retire, Settle,
     SettleRefused, ForeignPlaces, SwapPlaces, KeepPlaces, EarlyPlaces, others, records, status,
     Goto, BreakOff
<1>2. Running
  BY <1>1 DEF Running, RunPlaces, ForeignPlaces
<1>3. /\ active # 0 /\ active \in Gens /\ NewInstalled <= Now.phase /\ (Pending <=> pc = "installed")
  BY <1>1, <1>2, RunIsActive, WholeParts, Phases DEF PhaseFits
<1>4. CASE SettleFirst \/ Settle
  BY <1>1, <1>2, <1>3, <1>4 DEF SettleFirst, Settle, SettledAs, Pending
<1>5. CASE Commit
  BY <1>1, <1>2, <1>3, <1>5, NowAdvances, Phases DEF Commit, disk
<1>6. CASE ~Commit /\ ~SettleFirst /\ ~Settle
  <2>1. active' = active /\ UNCHANGED <<manifest, leftover>>
    BY <1>1, <1>6 DEF FinishStep, CommitRefused, ReadInstalled, LeaveForeign, ClaimForeign,
       MoveForeign, RecordForeign, EndForeign, StartRetiring, Retire, SettleRefused, records
  <2>2. dir'["view"].id = dir["view"].id
    BY <1>6, WholeParts DEF FinishStep, CommitRefused, ReadInstalled, LeaveForeign, ClaimForeign,
       MoveForeign, RecordForeign, EndForeign, StartRetiring, Retire, SettleRefused, disk, Places,
       Folder
  <2>3. SameApply
    <3>1. CASE EndForeign \/ StartRetiring
      <4>1. pc # "installed"
        BY <3>1 DEF EndForeign, StartRetiring
      <4> QED BY <1>3, <2>1, <3>1, <4>1, NowAdvances, Phases DEF EndForeign, StartRetiring, SameApply
    <3>2. CASE journal' = journal
      BY <2>1, <3>2, IdleStep
    <3> QED BY <1>6, <3>1, <3>2 DEF FinishStep, CommitRefused, ReadInstalled, LeaveForeign,
            ClaimForeign, MoveForeign, RecordForeign, Retire, SettleRefused, status
  <2> QED BY SMTT(30), <1>1, <1>2, <1>3, <2>1, <2>2, <2>3
<1> QED BY SMTT(30), <1>4, <1>5, <1>6

\* What a recovery leaves alone.
LEMMA RecoveryFrame ==
    ASSUME Whole, RecoveryStep
    PROVE  /\ UNCHANGED <<manifest, prep, rv>> /\ SameApply
           /\ leftover' = leftover \/ \E gone : leftover' = KeptMoved(gone)
           /\ \/ pc' \notin SwapPlaces \cup KeepPlaces
              \/ UNCHANGED <<pc, run, dir, leftover>>
           /\ \/ UNCHANGED dir
              \/ dir' = Renamed("previous", "view") /\ Aside /\ Pending
<1>1. CASE RecoverFolders
  <2>1. /\ UNCHANGED <<journal, active, manifest, leftover, prep>>
        /\ pc' \in {"stopped", "settleClaims"} /\ rv' = rv
    BY <1>1, RecoveryChooses DEF RecoverFolders
  <2> QED BY <1>1, <2>1, RecoveryChooses, IdleStep DEF SwapPlaces, KeepPlaces, EarlyPlaces
<1>2. CASE Start
  <2>1. UNCHANGED <<active, journal, manifest, leftover, prep, rv, dir, run>>
    BY <1>2, WholeParts DEF Start, Agreement, records, others, disk
  <2> QED BY <1>2, <2>1, IdleStep DEF Start, SwapPlaces, KeepPlaces, EarlyPlaces
<1>3. CASE \E f \in Files : SettleClaim(f)
  <2>1. /\ UNCHANGED <<active, journal, manifest, prep, rv, dir, pc>> /\ pc = "settleClaims"
        /\ leftover' = leftover \/ \E gone : leftover' = KeptMoved(gone)
    BY <1>3 DEF SettleClaim, others, disk, status
  <2> QED BY <2>1, IdleStep DEF SwapPlaces, KeepPlaces, EarlyPlaces
<1>4. CASE Recovered
  <2>1. /\ UNCHANGED <<active, manifest, leftover, prep, rv, dir>>
        /\ pc' \in {"ending", "installed", "committed"} /\ pc = "settleClaims"
    BY <1>4 DEF Recovered, others, disk, records, Goto
  <2>2. CASE journal' = journal
    BY <2>1, <2>2, IdleStep DEF SwapPlaces, KeepPlaces, EarlyPlaces
  <2>3. CASE Advance(NewInstalled) /\ Now.phase < NewInstalled
    <3>1. active # 0 /\ Pending
      BY <2>1, <2>3, RunIsActive, ActiveJournal, Phases DEF Running, RunPlaces, Journal
    <3>2. SameApply
      BY <2>1, <2>3, <3>1, NowAdvances, Phases DEF SameApply
    <3> QED BY <2>1, <3>2 DEF SwapPlaces, KeepPlaces, EarlyPlaces
  <2> QED BY <1>4, <2>2, <2>3 DEF Recovered
<1> QED BY <1>1, <1>2, <1>3, <1>4 DEF RecoveryStep

\* What the end of an Apply that installed nothing leaves alone.
LEMMA EndFrame ==
    ASSUME Whole, EndStep
    PROVE  /\ Running /\ active # 0 /\ active \in Gens /\ Pending
           /\ UNCHANGED <<leftover, prep, rv>> /\ pc = "ending" /\ pc' \in {"ending", "idle"}
           /\ dir'["view"] = dir["view"] /\ dir'["previous"] = dir["previous"]
           /\ \/ SameApply /\ manifest' = manifest
              \/ active' = 0 /\ ~Pending' /\ manifest' = [manifest EXCEPT ![active] = "discarded"]
<1>1. Running /\ active # 0 /\ active \in Gens /\ Pending
  BY WholeParts, RunIsActive, Phases DEF EndStep, ClearBuilding, Discard, Running, RunPlaces, PhaseFits
<1>2. CASE ClearBuilding
  BY <1>1, <1>2, WholeParts, IdleStep DEF ClearBuilding, records, status, others, Places
<1>3. CASE Discard
  BY <1>1, <1>3 DEF Discard, SettledAs, disk, others, Pending
<1> QED BY <1>2, <1>3 DEF EndStep

LEMMA LaterKeepsGone ==
    Whole /\ PreviousGone /\ (FinishStep \/ EndStep \/ RecoveryStep) => PreviousGone'
<1> SUFFICES ASSUME Whole, PreviousGone, FinishStep \/ EndStep \/ RecoveryStep
             PROVE  PreviousGone'
  OBVIOUS
<1>1. CASE FinishStep
  <2>1. CASE ~Pending'
    BY <1>1, <2>1, FinishFrame, NotMoving DEF PreviousGone, KeepPlaces
  <2>2. CASE SameApply /\ dir'["view"].id = dir["view"].id /\ UNCHANGED manifest
    BY <1>1, <2>2, FinishFrame, MovingStays, GoneStays DEF InState, KeepPlaces
  <2> QED BY <1>1, <2>1, <2>2, FinishFrame
<1>2. CASE EndStep
  <2>1. CASE ~Pending'
    BY <1>2, <2>1, EndFrame, NotMoving DEF PreviousGone, SwapPlaces
  <2>2. CASE SameApply /\ UNCHANGED manifest
    BY <1>2, <2>2, EndFrame, MovingStays, GoneStays DEF InState, SwapPlaces
  <2> QED BY <1>2, <2>1, <2>2, EndFrame
<1>3. CASE RecoveryStep
  <2>1. InState("previous")' = InState("previous")
    BY <1>3, RecoveryFrame DEF InState
  <2>2. Moving' => Moving
    <3>1. CASE UNCHANGED dir
      BY <1>3, <3>1, RecoveryFrame, MovingStays
    <3>2. CASE Aside /\ Pending
      BY <3>2, OldIsInstalled DEF Moving
    <3> QED BY <1>3, <3>1, <3>2, RecoveryFrame
  <2> QED BY <1>3, <2>1, <2>2, RecoveryFrame, GoneStays DEF KeepPlaces, Present
<1> QED BY <1>1, <1>2, <1>3

\* A step of no run, while nobody takes a folder away.
LEMMA BesideFrame ==
    ASSUME Alone, Whole, Lone, Failure \/ Outside \/ ReviewStep
    PROVE  /\ SameApply /\ dir'["view"].id = dir["view"].id
           /\ manifest' \in {manifest, PreviousRetired}
           /\ \/ pc' \notin RunPlaces
              \/ /\ UNCHANGED <<pc, run, leftover, manifest, prep>>
                 /\ dir'["previous"].id = dir["previous"].id
                 /\ dir["previous"].files \subseteq dir'["previous"].files
<1>1. CASE Failure
  BY <1>1, IdleStep DEF Failure, Crash, RunBreaksOff, Quit, Down, BreakOff, disk, records, status,
     RunPlaces
<1>2. CASE Outside
  <2>1. UNCHANGED <<pc, run, leftover, manifest, prep, journal, active>>
    BY <1>2 DEF Outside, Edit, Hold, Release, Occupy, WriteView, Litter, UserDeletes, Remove,
       DeletePrevious, Vanish, FilesChange, records, status, others
  <2>2. \/ UNCHANGED dir
        \/ \E f \in Tool, p \in {"view", "previous"} :
              dir' = [dir EXCEPT ![p].files = dir[p].files \cup {f}]
    BY <1>2 DEF Outside, Edit, Hold, Release, Occupy, WriteView, Litter, UserDeletes, Remove,
       DeletePrevious, Vanish, FilesChange, disk, Unmoved, Alone
  <2>3. \A p \in {"view", "previous"} : dir'[p].id = dir[p].id /\ dir[p].files \subseteq dir'[p].files
    BY <2>2, WholeParts, Disk DEF Folder, Places
  <2> QED BY <2>1, <2>3, IdleStep
<1>3. CASE ReviewStep
  <2>1. /\ UNCHANGED <<journal, active, pc>> /\ rv.at # "none"
        /\ manifest' \in {manifest, PreviousRetired}
    BY <1>3 DEF ReviewStep, ActReview, RecordReview, ClearReviewed, RetireReviewed, records, status
  <2>2. pc \notin RunPlaces
    BY <2>1, RunIsActive DEF Lone, Running
  <2>3. dir'["view"].id = dir["view"].id
    BY <1>3, WholeParts DEF ReviewStep, ActReview, RecordReview, ClearReviewed, RetireReviewed, disk,
       Folder, Places
  <2> QED BY <2>1, <2>2, <2>3, IdleStep
<1> QED BY <1>1, <1>2, <1>3

LEMMA BesideKeepsGone ==
    Alone /\ Whole /\ Lone /\ PreviousGone /\ (Failure \/ Outside \/ ReviewStep) => PreviousGone'
<1> SUFFICES ASSUME Alone, Whole, Lone, PreviousGone, Failure \/ Outside \/ ReviewStep
             PROVE  PreviousGone'
  OBVIOUS
<1>1. InState("previous")' \subseteq InState("previous")
  BY BesideFrame, EverKept
<1>2. Moving' => Moving
  BY BesideFrame, MovingStays DEF SwapPlaces, RunPlaces
<1> QED BY <1>1, <1>2, BesideFrame, GoneStays DEF RunPlaces, Present
LEMMA RequestKeepsGone == Whole /\ Whole' /\ PreviousGone /\ Request => PreviousGone'
<1> SUFFICES ASSUME Whole, Whole', PreviousGone, Request PROVE PreviousGone'
  OBVIOUS
<1>1. CASE \E c \in Callers : Reserve(c)
  <2>1. PICK c \in Callers : Reserve(c)
    BY <1>1
  <2>2. active' # 0 /\ Now'.phase = Reserved /\ pc' = "reserved"
    BY <2>1, WholeParts, BoundsAssumption DEF Reserve, Now, Gens
  <2>3. InPlace'
    BY <2>2, Phases DEF Whole, Placed, StandFits
  <2> QED BY <2>2, <2>3 DEF PreviousGone, Moving, SwapPlaces
<1>2. CASE \E c \in Callers : CheckSheet(c)
  <2>1. active = 0 /\ active' = 0 /\ pc' = pc
    BY <1>2 DEF CheckSheet, status
  <2>2. pc \notin RunPlaces
    BY <2>1, RunIsActive DEF Running
  <2> QED BY <2>1, <2>2 DEF PreviousGone, Moving, Pending, SwapPlaces, RunPlaces
<1>3. CASE ~\E c \in Callers : Reserve(c) \/ CheckSheet(c)
  <2>1. UNCHANGED <<dir, journal, active, manifest, pc>>
    BY <1>3 DEF Request, CloseSheet, StartReview, CancelApply, disk, records, status
  <2> QED BY <2>1 DEF PreviousGone, Moving, Pending, InPlace, Now, InState, Present
<1> QED BY <1>1, <1>2, <1>3

-----------------------------------------------------------------------------
(* The leftovers are cleared before the folders move.                      *)

\* Nothing of View (previous)/ waits for a review or was told to be kept.
NoneLeft == \A f \in Files : leftover[f].review \notin {"pending", "kept"}

\* An Apply begins with nothing to review.  The kept files it moves, and the
\* gone ones it has from its sheet, are all there are, unless one can't move,
\* which ends it; so none is left when the folders begin to move.
Cleared ==
    /\ active # 0 => \A f \in Files : leftover[f].review # "pending"
    /\ Moving \/ pc \in {"retirePrevious", "way"} \/ (active # 0 /\ ~Pending) => NoneLeft
    /\ pc = "clearing" /\ ~run.keptFailed => NoneLeft
    /\ pc \in EarlyPlaces =>
          \A f \in Files : leftover[f].review = "kept" => f \in dir["previous"].files \cup run.missing
    /\ pc \in {"keeping", "claimed", "recording"} /\ ~run.keptFailed =>
          \A f \in Files : leftover[f].review = "kept" => f \in run.todo \cup run.missing
    /\ pc = "recording" => run.left \/ run.keptFailed

\* The catalog still has the View a sheet was checked against.
Fresh(s) == s.open /\ s.installed = InState("installed")

\* A kept file that left View (previous)/ a moment ago, its record to follow.
Leaving(f) ==
    \/ rv.at = "record" /\ rv.file = f /\ rv.becomes \in {"moved", "trashed"}
    \/ pc = "recording" /\ run.at = f /\ run.left
    \/ pc = "stopped"

\* A sheet that can still be reserved knows which kept files are gone.
SheetsFit ==
    \A c \in Callers : Fresh(prep[c]) =>
       \A f \in Files :
          /\ leftover[f].review # "pending"
          /\ leftover[f].review = "kept" => \/ f \in dir["previous"].files \cup prep[c].missing
                                            \/ Leaving(f)

\* A step that leaves no more over than there was.
Shrinks == \A f \in Files : leftover'[f].review \in {"pending", "kept"} => leftover'[f] = leftover[f]

LEMMA MovedShrinks ==
    ASSUME Whole, leftover' = leftover \/ \E gone : leftover' = KeptMoved(gone)
    PROVE  Shrinks
BY WholeParts DEF Shrinks, KeptMoved, TypeInv, TypeOK, RecordsOK

\* A sheet is as good as before, but for the kept files that leave.
LEMMA SheetsStay ==
    ASSUME SheetsFit, Shrinks, InState("installed")' = InState("installed"),
           \A c \in Callers : prep'[c].open => prep'[c] = prep[c],
           \A f \in Files :
              leftover'[f].review = "kept" /\ (f \in dir["previous"].files \/ Leaving(f))
                 => f \in dir'["previous"].files \/ Leaving(f)'
    PROVE  SheetsFit'
<1> SUFFICES ASSUME NEW c \in Callers, Fresh(prep[c])', NEW f \in Files
             PROVE  /\ leftover'[f].review # "pending"
                    /\ leftover'[f].review = "kept" =>
                          \/ f \in dir'["previous"].files \cup prep'[c].missing
                          \/ Leaving(f)'
  BY DEF SheetsFit
<1>1. Fresh(prep[c]) /\ prep'[c] = prep[c]
  BY DEF Fresh
<1> QED BY <1>1 DEF SheetsFit, Shrinks

\* A commit makes every sheet of before stale.
LEMMA NotFresh ==
    ASSUME Whole, Lone, active # 0, ~Pending, NEW c \in Callers
    PROVE  ~Fresh(prep[c])
<1> SUFFICES ASSUME prep[c].open, prep[c].installed = InState("installed") PROVE FALSE
  BY DEF Fresh
<1>1. InState("installed") = {active} /\ prep[c].view # active
  BY ActiveJournal, WholeParts DEF StandFits, Installed, Lone
<1>2. prep[c].installed = (IF prep[c].view = Absent THEN {} ELSE {prep[c].view})
  BY WholeParts DEF PastFits
<1> QED BY <1>1, <1>2

\* With nothing left over there is nothing to clear.
LEMMA NothingLeft ==
    ASSUME NoneLeft', pc' # "recording"
    PROVE  Cleared' /\ SheetsFit'
BY DEF NoneLeft, Cleared, SheetsFit

\* A step to a place from which no folder moves.
LEMMA ClearedStays ==
    ASSUME Cleared, Shrinks, active' \in {active, 0}, Moving' \/ (active' # 0 /\ ~Pending') =>
              Moving \/ (active # 0 /\ ~Pending),
           \/ pc' \notin KeepPlaces
           \/ /\ pc' = pc /\ run'.missing = run.missing /\ run'.todo = run.todo /\ run'.left = run.left
              /\ run'.keptFailed = run.keptFailed
              /\ dir["previous"].files \subseteq dir'["previous"].files
           \/ /\ pc \in EarlyPlaces /\ pc' \in EarlyPlaces /\ run'.missing = run.missing
              /\ dir["previous"].files \subseteq dir'["previous"].files
    PROVE  Cleared'
<1>1. NoneLeft => NoneLeft'
  BY DEF NoneLeft, Shrinks
<1>2. active' # 0 => \A f \in Files : leftover'[f].review # "pending"
  BY BoundsAssumption DEF Cleared, Shrinks
<1>3. CASE pc' \notin KeepPlaces
  BY <1>1, <1>2, <1>3 DEF Cleared, KeepPlaces
<1>4. CASE pc' \in KeepPlaces
  BY <1>1, <1>2, <1>4 DEF Cleared, Shrinks, KeepPlaces, EarlyPlaces
<1> QED BY <1>3, <1>4

LEMMA BuildClears == Whole /\ Cleared /\ SheetsFit /\ BuildStep => Cleared' /\ SheetsFit'
<1> SUFFICES ASSUME Whole, Cleared, SheetsFit, BuildStep PROVE Cleared' /\ SheetsFit'
  OBVIOUS
<1>1. (Moving' => Moving) /\ Shrinks
  BY BuildFrame, MovingStays DEF EarlyPlaces, SwapPlaces, Shrinks
<1>2. Cleared'
  BY <1>1, BuildFrame, ClearedStays DEF SameApply, KeepPlaces, EarlyPlaces
<1>3. SheetsFit'
  BY <1>1, BuildFrame, SheetsStay DEF InState, Leaving, EarlyPlaces
<1> QED BY <1>2, <1>3

LEMMA SwapClears == Whole /\ Cleared /\ SheetsFit /\ SwapStep => Cleared' /\ SheetsFit'
<1> SUFFICES ASSUME Whole, Cleared, SheetsFit, SwapStep PROVE Cleared' /\ SheetsFit'
  OBVIOUS
<1>1. leftover' = leftover \/ \E gone : leftover' = KeptMoved(gone)
  BY DEF records, SwapStep, EnterSwap, ClaimKept, SkipKept, MoveKept, RecordKept,
     RecordMissing, ClearPrevious, RetirePrevious, CheckSwap, MoveAside, AsideFails, StartWait,
     CancelWait, RecordAside, AfterWait, Install, InstallFails, Restore, RestoreFails,
     RecordInstalled
<1>2. Shrinks
  BY <1>1, MovedShrinks
<1>3. NoneLeft => NoneLeft'
  BY <1>2 DEF NoneLeft, Shrinks
<1>4. CASE NoneLeft /\ pc \notin {"keeping", "claimed"}
  <2>1. pc' # "recording"
    BY <1>4 DEF SwapStep, EnterSwap, ClaimKept, SkipKept, MoveKept, RecordKept,
       RecordMissing, ClearPrevious, RetirePrevious, CheckSwap, MoveAside, AsideFails, StartWait,
       CancelWait, RecordAside, AfterWait, Install, InstallFails, Restore, RestoreFails,
       RecordInstalled, Goto, End, BreakOff
  <2> QED BY SMTT(30), <1>3, <1>4, <2>1, NothingLeft
<1>5. CASE pc \in {"verified", "keeping", "claimed", "recording"} \/ (pc = "clearing" /\ run.keptFailed)
  <2>1. ~Moving
    BY SMTT(30), <1>5, WholeParts DEF Moving, SwapPlaces, RunFits, ReadyPlaces
  <2>2. /\ UNCHANGED <<manifest, prep, rv>> /\ dir'["view"].id = dir["view"].id
        /\ pc' \in {"keeping", "claimed", "recording", "clearing", "ending"}
    BY <1>5, WholeParts DEF SwapStep, EnterSwap, ClaimKept, SkipKept, MoveKept, RecordKept,
       RecordMissing, ClearPrevious, RetirePrevious, CheckSwap, MoveAside, AsideFails, StartWait,
       CancelWait, RecordAside, AfterWait, Install, InstallFails, Restore, RestoreFails,
       RecordInstalled, Goto, End, BreakOff, disk, records, others, Places
  <2>3. ~Moving' /\ active' # 0 /\ active # 0 /\ Pending'
    BY <2>1, <2>2, SwapFrame, MovingStays DEF SwapPlaces, SameApply
  <2>4. \A f \in Files : leftover'[f].review # "pending"
    BY <1>2, <2>3 DEF Cleared, Shrinks
  <2>5. run \in Run /\ dir["previous"] \in Folder
    BY WholeParts, Disk DEF TypeInv, TypeOK, RunOK
  <2>6. Cleared'
    <3>1. CASE pc' = "ending"
      BY <2>3, <2>4, <3>1 DEF Cleared, EarlyPlaces
    <3>2. CASE pc' # "ending" /\ EnterSwap
      BY <2>2, <2>3, <2>4, <2>5, <3>2 DEF Cleared, EarlyPlaces, EnterSwap, End, Run, records
    <3>3. ASSUME NEW f \in Files, ClaimKept(f) PROVE Cleared'
      BY <2>2, <2>3, <2>4, <2>5, <3>3 DEF Cleared, EarlyPlaces, ClaimKept, Run
    <3>4. ASSUME NEW f \in Files, SkipKept(f) PROVE Cleared'
      <4>1. /\ pc = "keeping" /\ pc' = pc /\ run'.missing = run.missing
            /\ run'.todo = run.todo \ {f}
            /\ \/ run'.keptFailed
               \/ leftover' = KeptMoved({f}) /\ run'.keptFailed = run.keptFailed
        BY <2>5, <3>4 DEF SkipKept, Run
      <4> QED BY <2>3, <2>4, <4>1, WholeParts DEF Cleared, EarlyPlaces, KeptMoved, TypeInv, TypeOK,
              RecordsOK
    <3>5. CASE MoveKept
      <4>1. /\ pc = "claimed" /\ pc' = "recording" /\ run'.missing = run.missing
            /\ run'.todo = run.todo /\ UNCHANGED leftover /\ (run'.left \/ run'.keptFailed)
            /\ run.keptFailed => run'.keptFailed
        BY <2>5, <3>5 DEF MoveKept, Run, records
      <4> QED BY <2>3, <2>4, <4>1 DEF Cleared, EarlyPlaces
    <3>6. CASE RecordKept
      <4>1. /\ pc = "recording" /\ pc' = "keeping" /\ run'.missing = run.missing
            /\ run'.todo = run.todo \ {run.at} /\ run'.keptFailed = run.keptFailed
            /\ run.left => leftover' = KeptMoved({run.at})
        BY <2>5, <3>6 DEF RecordKept, Run
      <4> QED BY <1>2, <2>3, <2>4, <4>1, WholeParts DEF Cleared, EarlyPlaces, KeptMoved, Shrinks,
              TypeInv, TypeOK, RecordsOK
    <3>7. CASE RecordMissing
      <4>1. /\ pc = "keeping" /\ pc' = "clearing" /\ run' = run /\ run.todo = {}
            /\ leftover' = KeptMoved(run.missing)
        BY <3>7 DEF RecordMissing, Goto
      <4>2. ~run.keptFailed => NoneLeft'
        BY <2>4, <4>1, WholeParts DEF Cleared, KeptMoved, NoneLeft, TypeInv, TypeOK, RecordsOK
      <4> QED BY <2>3, <2>4, <4>1, <4>2 DEF Cleared, EarlyPlaces
    <3> QED BY <1>5, <2>2, <3>1, <3>2, <3>3, <3>4, <3>5, <3>6, <3>7 DEF SwapStep, ClearPrevious,
            RetirePrevious, CheckSwap, MoveAside, AsideFails, StartWait, CancelWait, RecordAside,
            AfterWait, Install, InstallFails, Restore, RestoreFails, RecordInstalled, End
  <2>7. ASSUME NEW f \in Files, leftover'[f].review = "kept",
               f \in dir["previous"].files \/ Leaving(f)
        PROVE  f \in dir'["previous"].files \/ Leaving(f)'
    <3>1. CASE pc = "recording"
      <4>1. /\ RecordKept /\ dir' = dir
        BY <3>1 DEF SwapStep, EnterSwap, ClaimKept, SkipKept, MoveKept, RecordKept,
           RecordMissing, ClearPrevious, RetirePrevious, CheckSwap, MoveAside, AsideFails, StartWait,
           CancelWait, RecordAside, AfterWait, Install, InstallFails, Restore, RestoreFails,
           RecordInstalled, disk
      <4>2. run.left => leftover'[run.at].review # "kept"
        BY <4>1, WholeParts DEF RecordKept, KeptMoved, TypeInv, TypeOK, RunOK, Run, RecordsOK
      <4> QED BY <2>2, <2>7, <3>1, <4>1, <4>2 DEF Leaving
    <3>2. CASE pc # "recording" /\ dir'["previous"].files = dir["previous"].files
      BY <1>5, <2>2, <2>7, <3>2 DEF Leaving
    <3>3. CASE MoveKept
      <4>1. \/ dir'["previous"].files = dir["previous"].files
            \/ /\ dir'["previous"].files = dir["previous"].files \ {run.at}
               /\ pc' = "recording" /\ run'.left /\ run'.at = run.at
        BY ZenonT(120), <2>5, <3>3, WholeParts DEF MoveKept, Run, Places, Folder
      <4> QED BY <2>2, <2>7, <3>3, <4>1 DEF Leaving, MoveKept
    <3>4. MoveKept \/ dir'["previous"].files = dir["previous"].files
      <4>1. MoveKept \/ UNCHANGED dir \/ dir' = [dir EXCEPT !["previous"] = Emptied(@)]
        BY <1>5 DEF SwapStep, EnterSwap, ClaimKept, SkipKept, RecordKept,
           RecordMissing, ClearPrevious, RetirePrevious, CheckSwap, MoveAside, AsideFails, StartWait,
           CancelWait, RecordAside, AfterWait, Install, InstallFails, Restore, RestoreFails,
           RecordInstalled, disk
      <4> QED BY SMTT(30), <4>1, WholeParts DEF Emptied, NoFolder, Places
    <3> QED BY <3>1, <3>2, <3>3, <3>4
  <2>8. SheetsFit'
    BY <1>2, <2>2, <2>7, SheetsStay DEF InState
  <2> QED BY <2>6, <2>8
<1>6. \/ NoneLeft /\ pc \notin {"keeping", "claimed"}
      \/ pc \in {"verified", "keeping", "claimed", "recording"} \/ (pc = "clearing" /\ run.keptFailed)
  <2>1. pc \in {"verified", "keeping", "claimed", "recording", "clearing", "retirePrevious", "way"}
          \cup SwapPlaces
    BY DEF SwapStep, EnterSwap, ClaimKept, SkipKept, MoveKept, RecordKept,
       RecordMissing, ClearPrevious, RetirePrevious, CheckSwap, MoveAside, AsideFails, StartWait,
       CancelWait, RecordAside, AfterWait, Install, InstallFails, Restore, RestoreFails,
       RecordInstalled, SwapPlaces
  <2> QED BY <2>1 DEF Cleared, Moving, SwapPlaces
<1> QED BY SMTT(30), <1>4, <1>5, <1>6

\* Past the install the folders are moving or the manifest is committed.
LEMMA FinishMoves ==
    ASSUME Whole, FinishStep
    PROVE  Moving \/ (active # 0 /\ ~Pending)
<1>1. CASE Pending
  <2>1. Now.phase = NewInstalled /\ active # 0
    BY <1>1, FinishFrame, WholeParts DEF PhaseFits
  <2>2. ~InPlace
    BY <1>1, <2>1, WholeParts, OldIsInstalled DEF StandFits
  <2> QED BY <1>1, <2>2 DEF Moving
<1>2. CASE ~Pending
  BY <1>2, FinishFrame
<1> QED BY <1>1, <1>2

LEMMA FinishClears == Whole /\ Lone /\ Cleared /\ SheetsFit /\ FinishStep => Cleared' /\ SheetsFit'
<1> SUFFICES ASSUME Whole, Lone, Cleared, SheetsFit, FinishStep PROVE Cleared' /\ SheetsFit'
  OBVIOUS
<1>1. NoneLeft
  BY FinishMoves DEF Cleared
<1>2. CASE UNCHANGED leftover
  BY <1>1, <1>2, FinishFrame, NothingLeft DEF NoneLeft, KeepPlaces
<1>3. CASE Settle
  <2>1. active' = 0 /\ ~Pending' /\ ~Pending
    BY <1>3, FinishFrame DEF Settle, SettledAs, Pending
  <2>2. Cleared'
    BY <2>1, FinishFrame, NotMoving DEF Cleared, KeepPlaces
  <2>3. InState("installed")' = InState("installed") /\ UNCHANGED prep
    BY <1>3, FinishFrame, EverKept DEF Settle
  <2> QED BY <2>1, <2>2, <2>3, FinishFrame, NotFresh DEF SheetsFit, Fresh
<1> QED BY <1>2, <1>3 DEF FinishStep, Commit, CommitRefused, ReadInstalled, LeaveForeign,
        ClaimForeign, MoveForeign, RecordForeign, EndForeign, SettleFirst, StartRetiring, Retire,
        SettleRefused, records

LEMMA EndClears == Whole /\ Cleared /\ SheetsFit /\ EndStep => Cleared' /\ SheetsFit'
<1> SUFFICES ASSUME Whole, Cleared, SheetsFit, EndStep PROVE Cleared' /\ SheetsFit'
  OBVIOUS
<1>1. Shrinks
  BY EndFrame DEF Shrinks
<1>2. Moving' => Moving
  <2>1. CASE ~Pending'
    BY <2>1, EndFrame, NotMoving DEF SwapPlaces
  <2>2. CASE SameApply
    BY <2>2, EndFrame, MovingStays DEF SwapPlaces
  <2> QED BY <2>1, <2>2, EndFrame
<1>3. Cleared'
  BY <1>1, <1>2, EndFrame, ClearedStays DEF SameApply, KeepPlaces, EarlyPlaces
<1>4. InState("installed")' = InState("installed")
  BY InstalledStays DEF Next, RunStep, EndStep, ClearBuilding, Discard, Commit
<1>5. SheetsFit'
  BY <1>1, <1>4, EndFrame, SheetsStay DEF Leaving
<1> QED BY <1>3, <1>5

LEMMA RecoveryClears ==
    Whole /\ Lone /\ Cleared /\ SheetsFit /\ RecoveryStep => Cleared' /\ SheetsFit'
<1> SUFFICES ASSUME Whole, Lone, Cleared, SheetsFit, RecoveryStep PROVE Cleared' /\ SheetsFit'
  OBVIOUS
<1>1. Shrinks
  BY RecoveryFrame, MovedShrinks
<1>2. CASE Moving
  <2>1. NoneLeft'
    BY <1>1, <1>2 DEF Cleared, NoneLeft, Shrinks
  <2>2. pc' = "recording" => UNCHANGED pc
    BY RecoveryFrame DEF KeepPlaces
  <2>3. pc = "recording" => ~Moving
    BY WholeParts DEF Moving, RunFits, ReadyPlaces, SwapPlaces
  <2> QED BY <1>2, <2>1, <2>2, <2>3, NothingLeft
<1>3. CASE ~Moving
  <2>1. UNCHANGED dir
    BY <1>3, RecoveryFrame, OldIsInstalled DEF Moving
  <2>2. Moving' => Moving
    BY <2>1, RecoveryFrame, MovingStays
  <2>3. Cleared'
    BY <1>1, <2>1, <2>2, RecoveryFrame, ClearedStays DEF SameApply
  <2>4. CASE Start
    <3>1. \A c \in Callers : ~prep'[c].open
      BY <2>4, RecoveryFrame DEF Start, Lone
    <3> QED BY <2>3, <3>1 DEF SheetsFit, Fresh
  <2>5. CASE ~Start
    <3>1. pc \in {"recover", "settleClaims"}
      BY <2>5 DEF RecoveryStep, RecoverFolders, Recovered, SettleClaim
    <3>2. SheetsFit'
      BY <1>1, <2>1, <3>1, RecoveryFrame, SheetsStay DEF InState, Leaving
    <3> QED BY <2>3, <3>2
  <2> QED BY <2>4, <2>5
<1> QED BY <1>2, <1>3

\* A review takes a leftover out before it records it.
LEMMA ReviewClears ==
    Alone /\ Whole /\ Lone /\ Cleared /\ SheetsFit /\ ReviewStep => Cleared' /\ SheetsFit'
<1> SUFFICES ASSUME Alone, Whole, Lone, Cleared, SheetsFit, ReviewStep
             PROVE  Cleared' /\ SheetsFit'
  OBVIOUS
<1>1. /\ UNCHANGED <<active, pc, prep>> /\ rv.at # "none" /\ active = 0 /\ pc \notin RunPlaces
      /\ rv.file \in Files /\ dir["previous"] \in Folder /\ rv \in Review
  <2>1. UNCHANGED <<active, pc, prep>> /\ rv.at # "none"
    BY DEF ReviewStep, ActReview, RecordReview, ClearReviewed, RetireReviewed, status
  <2> QED BY <2>1, RunIsActive, WholeParts, Disk DEF Lone, Running, TypeInv, TypeOK, OthersOK, Review
<1>2. Cleared'
  BY <1>1 DEF Cleared, Moving, Pending, RunPlaces, EarlyPlaces, SwapPlaces
<1>3. InState("installed")' = InState("installed")
  BY BesideFrame, EverKept
<1>4. pc # "recording" /\ pc # "stopped"
  BY <1>1 DEF RunPlaces, Lone
<1>5. CASE ActReview
  <2>1. /\ UNCHANGED leftover
        /\ \A f \in dir["previous"].files : \/ f \in dir'["previous"].files
                                            \/ /\ f = rv.file /\ rv'.at = "record" /\ rv'.file = f
                                               /\ rv'.becomes \in {"moved", "trashed"}
    BY <1>1, <1>5, WholeParts DEF ActReview, records, Review, Places, Folder
  <2>2. rv.at # "record"
    BY <1>5 DEF ActReview
  <2>3. SheetsFit'
    BY <1>1, <1>3, <1>4, <2>1, <2>2, SheetsStay DEF Shrinks, Leaving
  <2> QED BY <1>2, <2>3
<1>6. CASE RecordReview
  <2>0. UNCHANGED dir /\ rv.at = "record" /\ leftover \in [Files -> [review : Reviews, in : Identities]]
    BY <1>6, WholeParts DEF RecordReview, disk, TypeInv, TypeOK, RecordsOK
  <2>1. CASE Shrinks
    <3>1. leftover'[rv.file].review = "kept" => rv.becomes \notin {"moved", "trashed"}
      BY <1>1, <1>6, <2>0 DEF RecordReview, CanBecome
    <3>2. SheetsFit'
      BY <1>1, <1>3, <1>4, <2>0, <2>1, <3>1, SheetsStay DEF Leaving
    <3> QED BY <1>2, <3>2
  <2>2. CASE ~Shrinks
    <3>1. leftover[rv.file].review = "pending"
      BY <1>1, <1>6, <2>0, <2>2 DEF RecordReview, CanBecome, Shrinks
    <3> QED BY <1>1, <1>2, <1>3, <3>1 DEF SheetsFit, Fresh
  <2> QED BY <2>1, <2>2
<1>7. CASE ClearReviewed \/ RetireReviewed
  <2>1. UNCHANGED leftover /\ dir'["previous"].files = dir["previous"].files /\ rv.at # "record"
    <3>1. Emptied(dir["previous"]).files = dir["previous"].files
      BY DEF Emptied, NoFolder
    <3> QED BY <1>7, <3>1, WholeParts DEF ClearReviewed, RetireReviewed, records, disk, Places
  <2>2. SheetsFit'
    BY <1>1, <1>3, <1>4, <2>1, SheetsStay DEF Shrinks, Leaving
  <2> QED BY <1>2, <2>2
<1> QED BY <1>5, <1>6, <1>7 DEF ReviewStep

LEMMA BesideClears ==
    Alone /\ Whole /\ Lone /\ Cleared /\ SheetsFit /\ (Failure \/ Outside) => Cleared' /\ SheetsFit'
<1> SUFFICES ASSUME Alone, Whole, Lone, Cleared, SheetsFit, Failure \/ Outside
             PROVE  Cleared' /\ SheetsFit'
  OBVIOUS
<1>1. UNCHANGED <<leftover, manifest, active>>
  BY DEF Failure, Crash, RunBreaksOff, Quit, Down, BreakOff, Outside, Edit, Hold, Release, Occupy,
     WriteView, Litter, UserDeletes, Remove, DeletePrevious, Vanish, FilesChange, records, status
<1>2. Moving' => Moving
  BY BesideFrame, MovingStays DEF SwapPlaces, RunPlaces
<1>3. Shrinks
  BY <1>1 DEF Shrinks
<1>4. CASE Failure
  <2>1. /\ pc' \in {"idle", "stopped"}
        /\ \/ pc' = "stopped" /\ UNCHANGED <<prep, rv, dir>>
           \/ \A c \in Callers : ~prep'[c].open
    BY <1>4 DEF Failure, Crash, RunBreaksOff, Quit, Down, BreakOff, NoSheet, disk
  <2>2. Cleared'
    BY <1>1, <1>2, <1>3, <2>1, BesideFrame, ClearedStays DEF SameApply, KeepPlaces, EarlyPlaces
  <2>3. SheetsFit'
    <3>1. CASE pc' = "stopped" /\ UNCHANGED <<prep, rv, dir>>
      BY <1>1, <1>3, <3>1, SheetsStay DEF InState, Leaving
    <3>2. CASE \A c \in Callers : ~prep'[c].open
      BY <3>2 DEF SheetsFit, Fresh
    <3> QED BY <2>1, <3>1, <3>2
  <2> QED BY <2>2, <2>3
<1>5. CASE Outside
  <2>1. /\ UNCHANGED <<prep, rv, pc, run>>
        /\ dir["previous"].files \subseteq dir'["previous"].files
    <3>1. UNCHANGED <<prep, rv, pc, run>>
      BY <1>5 DEF Outside, Edit, Hold, Release, Occupy, WriteView, Litter, UserDeletes, Remove,
         DeletePrevious, Vanish, FilesChange, others
    <3>2. \/ UNCHANGED dir
          \/ \E f \in Tool, p \in {"view", "previous"} :
                dir' = [dir EXCEPT ![p].files = dir[p].files \cup {f}]
      BY <1>5 DEF Outside, Edit, Hold, Release, Occupy, WriteView, Litter, UserDeletes, Remove,
         DeletePrevious, Vanish, FilesChange, disk, Unmoved, Alone
    <3> QED BY <3>1, <3>2, WholeParts, Disk DEF Folder, Places
  <2>2. Cleared'
    BY <1>1, <1>2, <1>3, <2>1, BesideFrame, ClearedStays DEF SameApply
  <2>3. SheetsFit'
    BY <1>1, <1>3, <2>1, SheetsStay DEF InState, Leaving
  <2> QED BY <2>2, <2>3
<1> QED BY <1>4, <1>5

LEMMA RequestClears ==
    Alone /\ Whole /\ Whole' /\ Lone /\ Lone' /\ Cleared /\ SheetsFit /\ Request
       => Cleared' /\ SheetsFit'
<1> SUFFICES ASSUME Alone, Whole, Whole', Lone, Lone', Cleared, SheetsFit, Request
             PROVE  Cleared' /\ SheetsFit'
  OBVIOUS
<1>1. ASSUME NEW c \in Callers, Reserve(c) PROVE Cleared' /\ SheetsFit'
  <2>1. /\ active = 0 /\ active' # 0 /\ Now'.phase = Reserved /\ pc' = "reserved" /\ rv' = rv
        /\ rv.at = "none" /\ run'.missing = prep[c].missing /\ UNCHANGED dir /\ Fresh(prep[c])
        /\ \A d \in Callers : prep'[d].open => prep'[d] = prep[d]
        /\ leftover' = leftover \/ leftover' = KeptMoved(Files)
    BY <1>1, WholeParts, BoundsAssumption DEF Reserve, SheetHolds, Fresh, Alone, Now, Gens, disk,
       NoRun, NoSheet, TypeInv, TypeOK, OthersOK
  <2>2. pc \notin RunPlaces /\ pc # "stopped"
    BY <2>1, RunIsActive DEF Running, Lone
  <2>3. \A f \in Files : ~Leaving(f)
    BY <2>1, <2>2 DEF Leaving, RunPlaces
  <2>4. Shrinks
    BY <2>1, MovedShrinks
  <2>5. \A f \in Files : /\ leftover'[f].review # "pending"
                         /\ leftover'[f].review = "kept" => f \in dir'["previous"].files \cup run'.missing
    BY <2>1, <2>3, <2>4 DEF SheetsFit, Shrinks
  <2>6. InPlace' /\ Pending'
    BY <2>1, Phases DEF Whole, Placed, StandFits, Pending
  <2>7. Cleared'
    BY <2>1, <2>5, <2>6 DEF Cleared, Moving, EarlyPlaces, SwapPlaces
  <2>8. InState("installed")' = InState("installed")
    BY <1>1, ManifestTaken
  <2>9. SheetsFit'
    BY <2>1, <2>3, <2>4, <2>8, SheetsStay
  <2> QED BY <2>7, <2>9
<1>2. ASSUME NEW c \in Callers, CheckSheet(c) PROVE Cleared' /\ SheetsFit'
  <2>1. /\ active = 0 /\ UNCHANGED <<active, pc, leftover, manifest, rv>>
        /\ \A f \in Files : leftover[f].review # "pending"
        /\ prep'[c].missing = {f \in Files : leftover[f].review = "kept"
                                              /\ f \notin dir["previous"].files}
        /\ \A d \in Callers \ {c} : prep'[d] = prep[d]
        /\ dir'["previous"] = Emptied(dir["previous"])
    BY <1>2, WholeParts DEF CheckSheet, status, records, TypeInv, TypeOK, OthersOK, Places
  <2>2. pc \notin RunPlaces
    BY <2>1, RunIsActive DEF Running
  <2>3. dir'["previous"].files = dir["previous"].files
    <3>1. Emptied(dir["previous"]).files = dir["previous"].files
      BY DEF Emptied, NoFolder
    <3> QED BY <2>1, <3>1
  <2>4. Cleared'
    BY <2>1, <2>2 DEF Cleared, Moving, Pending, RunPlaces, EarlyPlaces, SwapPlaces
  <2>5. SheetsFit'
    <3> SUFFICES ASSUME NEW d \in Callers, Fresh(prep[d])', NEW f \in Files
                 PROVE  /\ leftover'[f].review # "pending"
                        /\ leftover'[f].review = "kept" =>
                              \/ f \in dir'["previous"].files \cup prep'[d].missing
                              \/ Leaving(f)'
      BY DEF SheetsFit
    <3>1. CASE d = c
      BY <2>1, <2>3, <3>1
    <3>2. CASE d # c
      <4>1. prep'[d] = prep[d] /\ Fresh(prep[d])
        BY <2>1, <3>2 DEF Fresh, InState
      <4>2. Leaving(f)' <=> Leaving(f)
        BY <2>1, <2>2 DEF Leaving, RunPlaces
      <4> QED BY <2>1, <2>3, <4>1, <4>2 DEF SheetsFit
    <3> QED BY <3>1, <3>2
  <2> QED BY <2>4, <2>5
<1>3. CASE ~\E c \in Callers : Reserve(c) \/ CheckSheet(c)
  <2>1. /\ UNCHANGED <<dir, journal, active, manifest, leftover, pc>>
        /\ run'.missing = run.missing /\ run'.todo = run.todo /\ run'.left = run.left
        /\ run'.keptFailed = run.keptFailed /\ run'.at = run.at
        /\ \A d \in Callers : prep'[d].open => prep'[d] = prep[d]
        /\ rv' = rv \/ rv.at = "none"
    BY <1>3, WholeParts DEF Request, CloseSheet, StartReview, CancelApply, disk, records, status, others,
       NoSheet, TypeInv, TypeOK, RunOK, Run, OthersOK
  <2>2. Shrinks /\ (Moving' => Moving) /\ (Pending' <=> Pending)
    BY <2>1 DEF Shrinks, Moving, Pending, InPlace, Now
  <2>3. Cleared'
    BY <2>1, <2>2, ClearedStays
  <2>4. SheetsFit'
    BY <2>1, <2>2, SheetsStay DEF InState, Leaving
  <2> QED BY <2>3, <2>4
<1> QED BY <1>1, <1>2, <1>3

\* What both theorems below rest on.
AloneInv == Whole /\ Lone /\ PreviousGone /\ Cleared /\ SheetsFit

LEMMA AloneInit == Init => AloneInv
<1> SUFFICES ASSUME Init PROVE AloneInv
  OBVIOUS
<1>1. Lone
  BY DEF Init, Lone, NoReview, NoSheet
<1>2. PreviousGone
  BY DEF Init, PreviousGone, Moving, SwapPlaces, Pending
<1>3. Cleared
  BY DEF Init, Cleared, Moving, SwapPlaces, Pending, EarlyPlaces
<1>4. SheetsFit
  BY DEF Init, SheetsFit, Fresh, NoSheet
<1> QED BY <1>1, <1>2, <1>3, <1>4, WholeInit DEF AloneInv

LEMMA AloneKept ==
    Alone /\ Whole' /\ Lone' /\ AloneInv /\ [Next]_vars => PreviousGone' /\ Cleared' /\ SheetsFit'
<1> SUFFICES ASSUME Alone, Whole', Lone', AloneInv, [Next]_vars
             PROVE  PreviousGone' /\ Cleared' /\ SheetsFit'
  OBVIOUS
<1>1. CASE UNCHANGED vars
  BY <1>1 DEF vars, AloneInv, PreviousGone, Cleared, SheetsFit, Moving, Pending, InPlace, Now, NoneLeft,
     Fresh, Leaving, InState, Present
<1>2. CASE Next
  <2>1. PreviousGone'
    BY <1>2, BuildKeepsGone, SwapKeepsGone, LaterKeepsGone, RequestKeepsGone, BesideKeepsGone
       DEF Next, RunStep, AloneInv
  <2>2. Cleared' /\ SheetsFit'
    BY <1>2, BuildClears, SwapClears, FinishClears, EndClears, RecoveryClears, ReviewClears,
       RequestClears, BesideClears DEF Next, RunStep, AloneInv
  <2> QED BY <2>1, <2>2
<1> QED BY <1>1, <1>2

LEMMA AloneStep == Alone /\ AloneInv /\ [Next]_vars => AloneInv'
<1>1. Alone /\ Whole /\ [Next]_vars => Whole'
  BY WholeStep DEF Alone
<1> QED BY <1>1, LoneStep, AloneKept DEF AloneInv

\* While nobody takes the folders away and no review overlaps an Apply, the
\* catalog refuses neither the commit of an installed View nor its settling.
THEOREM NoWriteRefused == ASSUME Alone PROVE Spec => []NeverRefused
<1>1. Init => AloneInv
  BY AloneInit
<1>2. AloneInv /\ [Next]_vars => AloneInv'
  BY AloneStep
<1>3. AloneInv => NeverRefused
  <2> SUFFICES ASSUME AloneInv PROVE NeverRefused
    OBVIOUS
  <2>1. ASSUME pc = "installed" PROVE InState("previous") = {}
    <3>1. Now.phase = NewInstalled /\ Running
      BY <2>1, WholeParts DEF AloneInv, PhaseFits, Running, RunPlaces
    <3>2. active # 0 /\ Pending
      BY <3>1, RunIsActive, Phases DEF AloneInv
    <3>3. ~InPlace
      BY <3>1, <3>2, WholeParts, OldIsInstalled DEF AloneInv, StandFits
    <3> QED BY <3>2, <3>3 DEF AloneInv, PreviousGone, Moving
  <2>2. ASSUME pc = "settling" PROVE Accepted
    <3>1. Now.phase = RetiringPrevious /\ Running
      BY <2>2, WholeParts DEF AloneInv, PhaseFits, Running, RunPlaces
    <3>2. active # 0 /\ ~Pending /\ run.todo \subseteq Files
      BY <3>1, RunIsActive, Phases, WholeParts DEF AloneInv, TypeInv, TypeOK, RunOK, Run
    <3> QED BY <3>2 DEF AloneInv, Cleared, NoneLeft, Accepted
  <2> QED BY <2>1, <2>2 DEF NeverRefused
<1> QED BY <1>1, <1>2, <1>3, PTL DEF Spec

-----------------------------------------------------------------------------
(* What View (previous)/ holds is what the catalog knows of, when besides  *)
(* that no tool writes there.                                              *)

Clean == Alone /\ "litter" \notin World

\* Where a run retires the View it replaced.
RetirePlaces == ForeignPlaces \cup {"transferred"}

\* After a commit the one previous View is the one the Apply found; a first
\* Apply finds nothing at View (previous)/.  What a run retires is that View.
RetireFits ==
    /\ active # 0 /\ Now.view = Absent /\ (~Pending \/ ~InPlace \/ pc = "install") =>
          ~Present("previous")
    /\ active # 0 /\ ~Pending =>
          InState("previous") = (IF Now.view = Absent THEN {} ELSE {Now.view})
    /\ pc \in RetirePlaces => (run.old <=> Now.view # Absent)
    /\ pc = "settling" => run.todo = dir["previous"].files

\* A kept file is claimed while one run moves it, or by a run that was cut
\* off; it is in View (previous)/ until it moves.
Claimless == \A f \in Files : kclaim[f] = 0

ClaimFits ==
    /\ mode = "down" => pc = "idle"
    /\ \A f \in Files : kclaim[f] > 0 =>
          /\ active # 0
          /\ \/ pc \in {"claimed", "recording"} /\ run.at = f
             \/ pc \in {"stopped", "recover", "settleClaims"}
             \/ mode = "down"
    /\ pc = "claimed" => kclaim[run.at] = kept[run.at] + 1 /\ run.at \in dir["previous"].files
    /\ pc = "recording" => (run.left <=> run.at \notin dir["previous"].files)

\* While View (previous)/ is not the View an Apply moved aside.
Calm == active = 0 \/ (Pending /\ InPlace)

\* What a sheet and the Apply reserved with it hold gone is gone.
MissingFits ==
    /\ pc \in EarlyPlaces \cup {"keeping", "claimed", "recording"} =>
          run.missing \cap dir["previous"].files = {}
    /\ \A c \in Callers : Fresh(prep[c]) /\ Calm =>
          /\ prep[c].missing \cap dir["previous"].files = {}
          /\ prep[c].gone => dir["previous"].files = {}

\* The user has not settled what becomes of a file.
Over(f) == leftover[f].review \in {"pending", "kept"}

\* Such a file is there, back in View/, in the Trash, or at the kept name its
\* move claimed.
Found(f) ==
    \/ f \in dir["previous"].files \cup dir["view"].files
    \/ trash[f] > 0
    \/ kclaim[f] > 0 /\ kept[f] >= kclaim[f]

\* Each file of View (previous)/ has its row, each row its file, and a review
\* recorded next took its file away.
LeftFits ==
    /\ Calm => \A f \in dir["previous"].files : Over(f) /\ leftover[f].in = dir["previous"].id
    /\ \A f \in Files : Over(f) => Found(f)
    /\ rv.at = "record" /\ rv.becomes \in {"moved", "trashed"} =>
          rv.file \notin dir["previous"].files

\* A step of the same Apply that moves no folder and is not where a run
\* retires, or goes on there with what it knew.
LEMMA RetireStays ==
    ASSUME Whole, RetireFits, SameApply, dir'["view"].id = dir["view"].id,
           dir'["previous"].id \in {dir["previous"].id, Absent},
           ~Pending => InState("previous")' = InState("previous"),
           pc' # "install" \/ pc' = pc,
           pc' \in RetirePlaces => pc \in RetirePlaces /\ run'.old = run.old,
           pc' = "settling" =>
              pc' = pc /\ run'.todo = run.todo /\ dir'["previous"].files = dir["previous"].files
    PROVE  RetireFits'
<1>1. pc \in RetirePlaces => active # 0
  BY RunIsActive DEF RetirePlaces, ForeignPlaces, Running, RunPlaces
<1>2. /\ active' = active /\ (Pending' <=> Pending) /\ (Present("previous")' => Present("previous"))
      /\ active # 0 => Now'.view = Now.view /\ (InPlace' <=> InPlace)
  BY BoundsAssumption DEF SameApply, Pending, InPlace, Present
<1> QED BY <1>1, <1>2 DEF RetireFits

\* Before the commit of an Apply that found a View there is nothing to say.
LEMMA RetireLater ==
    ASSUME \/ active' = 0
           \/ Pending' /\ (Now'.view = Absent => InPlace' /\ pc' # "install"),
           pc' \notin RetirePlaces \cup {"settling"}
    PROVE  RetireFits'
BY DEF RetireFits, Pending

LEMMA SwapKeepsRetire == Whole /\ RetireFits /\ SwapStep => RetireFits'
<1> SUFFICES ASSUME Whole, RetireFits, SwapStep PROVE RetireFits'
  OBVIOUS
<1>1. pc' \notin RetirePlaces \cup {"settling"}
  BY DEF SwapStep, EnterSwap, ClaimKept, SkipKept, MoveKept, RecordKept, RecordMissing,
     ClearPrevious, RetirePrevious, CheckSwap, MoveAside, AsideFails, StartWait, CancelWait,
     RecordAside, AfterWait, Install, InstallFails, Restore, RestoreFails, RecordInstalled,
     Goto, End, BreakOff, RetirePlaces, ForeignPlaces
<1>2. CASE Now.view # Absent
  BY <1>1, <1>2, SwapFrame, RetireLater DEF SameApply
<1>3. CASE Now.view = Absent /\ CheckSwap
  <2>1. UNCHANGED dir /\ InPlace /\ (pc' = "install" => ~Present("previous"))
    BY <1>3, WholeParts DEF CheckSwap, disk, Goto, End, RunFits, ReadyPlaces
  <2>2. InPlace'
    BY <2>1, SwapFrame DEF InPlace, SameApply
  <2> QED BY <1>1, <2>1, <2>2, SwapFrame DEF RetireFits, Present, Pending
<1>4. CASE Now.view = Absent /\ Install
  <2>1. ~Present("previous") /\ dir'["previous"] = dir["previous"]
    BY <1>4, SwapFrame, WholeParts DEF RetireFits, Install, Renamed, Places
  <2> QED BY <1>1, <2>1, SwapFrame DEF RetireFits, Present, Pending
<1>5. CASE Now.view = Absent /\ ~CheckSwap /\ ~Install
  <2>1. pc \notin {"aside", "waiting", "asideDone", "afterWait", "restore"}
    BY SMTT(30), <1>5, WholeParts DEF RunFits, Aside
  <2>2. pc' # "install"
    BY <1>5, <2>1 DEF SwapStep, EnterSwap, ClaimKept, SkipKept, MoveKept, RecordKept, RecordMissing,
       ClearPrevious, RetirePrevious, MoveAside, AsideFails, StartWait, CancelWait,
       RecordAside, AfterWait, InstallFails, Restore, RestoreFails, RecordInstalled,
       Goto, End, BreakOff
  <2>3. dir'["view"].id = dir["view"].id /\ dir'["previous"].id \in {dir["previous"].id, Absent}
    BY <1>5, <2>1, SwapDisk DEF MoveAside, Restore
  <2> QED BY <1>1, <2>2, <2>3, SwapFrame, RetireStays
<1> QED BY SMTT(30), <1>2, <1>3, <1>4, <1>5

LEMMA FinishKeepsRetire == Whole /\ PreviousGone /\ RetireFits /\ FinishStep => RetireFits'
<1> SUFFICES ASSUME Whole, PreviousGone, RetireFits, FinishStep PROVE RetireFits'
  OBVIOUS
<1>1. CASE Commit
  <2>0. /\ pc' = "committed" /\ UNCHANGED <<dir, active>> /\ manifest' = Committed
        /\ pc = "installed" /\ Advance(ManifestCommitted)
    BY <1>1 DEF Commit, disk, Goto
  <2>1. Now'.view = Now.view /\ Pending /\ ~Pending' /\ Now.phase = NewInstalled
    BY <2>0, FinishFrame, NowAdvances, WholeParts, Phases DEF PhaseFits
  <2>2. Installed(Now.view) /\ ~InPlace /\ active \in Gens /\ active # 0
    BY <2>1, FinishFrame, WholeParts, OldIsInstalled DEF StandFits
  <2>3. InState("previous") = {} /\ manifest[active] = "building"
    BY <2>1, <2>2, ActiveJournal DEF PreviousGone, Moving
  <2>4. InState("previous")' = (IF Now.view = Absent THEN {} ELSE {Now.view})
    BY <2>0, <2>2, <2>3, WholeParts DEF Committed, InState, Installed
  <2> QED BY <2>0, <2>1, <2>2, <2>4 DEF RetireFits, RetirePlaces, ForeignPlaces, Present
<1>2. CASE ReadInstalled
  <2>1. ~Pending /\ SameApply /\ UNCHANGED <<dir, manifest>> /\ pc' \in RetirePlaces
        /\ run'.old = (InState("previous") # {})
    BY <1>2, FinishFrame, WholeParts DEF ReadInstalled, Commit, disk, records, RetirePlaces,
       ForeignPlaces, TypeInv, TypeOK, RunOK, Run, status
  <2>2. InState("previous") = (IF Now.view = Absent THEN {} ELSE {Now.view})
    BY <2>1, FinishFrame DEF RetireFits
  <2> QED BY <2>1, <2>2, FinishFrame DEF RetireFits, SameApply, InState, Present, Pending, RetirePlaces,
          ForeignPlaces
<1>3. CASE Retire
  <2>1. PICK unproven \in SUBSET {Entry} :
           /\ dir' = [dir EXCEPT !["previous"] = Emptied([@ EXCEPT !.files =
                         dir["previous"].files \ ({Entry} \ unproven)])]
           /\ run' = [run EXCEPT !.todo = dir["previous"].files \ ({Entry} \ unproven)]
    BY <1>3 DEF Retire
  <2> DEFINE d == [dir["previous"] EXCEPT !.files = dir["previous"].files \ ({Entry} \ unproven)]
  <2>2. d.id = dir["previous"].id /\ d.files = dir["previous"].files \ ({Entry} \ unproven)
    BY WholeParts, Disk DEF Folder
  <2>3. dir' = [dir EXCEPT !["previous"] = Emptied(d)]
    BY <2>1
  <2> HIDE DEF d
  <2>4. Emptied(d).id \in {d.id, Absent} /\ Emptied(d).files = d.files
    BY DEF Emptied, NoFolder
  <2>5. /\ dir'["previous"].id \in {dir["previous"].id, Absent} /\ dir'["view"] = dir["view"]
        /\ run'.todo = dir'["previous"].files /\ pc' = "settling"
    BY <1>3, <2>1, <2>2, <2>3, <2>4, WholeParts DEF Retire, Places, TypeInv, TypeOK, RunOK, Run
  <2>6. UNCHANGED <<manifest, active, journal>> /\ ~Pending
    BY <1>3, FinishFrame DEF Retire, records, status
  <2> QED BY <2>5, <2>6 DEF RetireFits, RetirePlaces, ForeignPlaces, InState, Pending, InPlace, Now,
          Present
<1>4. CASE SettleFirst \/ Settle
  BY <1>4, RetireLater DEF SettleFirst, Settle, SettledAs, RetirePlaces, ForeignPlaces
<1>5. CASE ~Commit /\ ~ReadInstalled /\ ~Retire /\ ~SettleFirst /\ ~Settle
  <2>1. /\ dir'["previous"].id = dir["previous"].id
        /\ pc' # "install" /\ pc' # "settling"
        /\ pc' \in RetirePlaces => pc \in RetirePlaces /\ run'.old = run.old
    BY ZenonT(120), <1>5, WholeParts DEF FinishStep, CommitRefused, LeaveForeign, ClaimForeign,
       MoveForeign, RecordForeign, EndForeign, StartRetiring, SettleRefused, disk, Places, Folder,
       Goto, BreakOff, RetirePlaces, ForeignPlaces, TypeInv, TypeOK, RunOK, Run
  <2>2. active' = active
    BY <1>5, FinishFrame DEF FinishStep, CommitRefused, LeaveForeign, ClaimForeign,
       MoveForeign, RecordForeign, EndForeign, StartRetiring, SettleRefused, status
  <2> QED BY <1>5, <2>1, <2>2, FinishFrame, RetireStays DEF InState
<1> QED BY <1>1, <1>2, <1>3, <1>4, <1>5

\* What the outside does then.
LEMMA OutsideFrame ==
    ASSUME Clean, Whole, Outside
    PROVE  /\ UNCHANGED <<journal, active, manifest, leftover, kclaim, kept, trash>>
           /\ UNCHANGED <<prep, rv, mode, pc, run>> /\ SameApply
           /\ dir'["previous"] = dir["previous"] /\ dir'["view"].id = dir["view"].id
           /\ dir["view"].files \subseteq dir'["view"].files
<1>1. /\ UNCHANGED <<journal, active, manifest, leftover, kclaim, kept, trash>>
      /\ UNCHANGED <<prep, rv, mode, pc, run>>
  BY DEF Outside, Edit, Hold, Release, Occupy, WriteView, Litter, UserDeletes, Remove,
     DeletePrevious, Vanish, FilesChange, disk, records, status, others, Clean, Alone, Unmoved
<1>2. UNCHANGED dir \/ \E f \in Tool : dir' = [dir EXCEPT !["view"].files = dir["view"].files \cup {f}]
  BY DEF Outside, Edit, Hold, Release, Occupy, WriteView, Litter, UserDeletes, Remove,
     DeletePrevious, Vanish, FilesChange, disk, Clean, Alone, Unmoved
<1> QED BY <1>1, <1>2, WholeParts, Disk, IdleStep DEF Folder, Places

LEMMA RetireStep ==
    Clean /\ Whole /\ Whole' /\ Lone /\ PreviousGone /\ RetireFits /\ [Next]_vars => RetireFits'
<1> SUFFICES ASSUME Clean, Whole, Whole', Lone, PreviousGone, RetireFits, [Next]_vars
             PROVE  RetireFits'
  OBVIOUS
<1>1. CASE BuildStep
  BY <1>1, BuildFrame, RetireLater DEF InPlace, RetirePlaces, ForeignPlaces, EarlyPlaces
<1>2. CASE SwapStep
  BY <1>2, SwapKeepsRetire
<1>3. CASE FinishStep
  BY <1>3, FinishKeepsRetire
<1>4. CASE EndStep
  BY <1>4, EndFrame, RetireLater, RetireStays DEF RetirePlaces, ForeignPlaces, InState
<1>5. CASE RecoveryStep
  <2>1. \/ pc' \notin RetirePlaces \cup {"install", "settling"}
        \/ UNCHANGED <<pc, run, dir>>
    <3>1. CASE RecoverFolders
      BY <3>1, RecoveryChooses DEF RetirePlaces, ForeignPlaces
    <3>2. CASE ~RecoverFolders
      BY <1>5, <3>2 DEF RecoveryStep, Start, SettleClaim, Recovered, disk, Goto, RetirePlaces,
         ForeignPlaces
    <3> QED BY <3>1, <3>2
  <2>2. CASE UNCHANGED dir
    BY <1>5, <2>1, <2>2, RecoveryFrame, RetireStays DEF InState
  <2>3. CASE Aside /\ Pending /\ ~UNCHANGED dir
    BY <1>5, <2>1, <2>3, RecoveryFrame, RetireLater DEF Aside, SameApply, Pending
  <2> QED BY <1>5, <2>2, <2>3, RecoveryFrame
<1>6. CASE ReviewStep
  <2>1. active = 0 /\ active' = 0 /\ pc' = pc /\ pc \notin RunPlaces
    BY <1>6, RunIsActive DEF ReviewStep, ActReview, RecordReview, ClearReviewed, RetireReviewed, Lone,
       status, Running
  <2> QED BY <2>1, RetireLater DEF RetirePlaces, ForeignPlaces, RunPlaces
<1>7. CASE Request
  <2>1. CASE \E c \in Callers : Reserve(c)
    <3>1. active' # 0 /\ Now'.phase = Reserved /\ pc' = "reserved"
      BY <2>1, WholeParts, BoundsAssumption DEF Reserve, Now, Gens
    <3>2. InPlace' /\ Pending'
      BY <3>1, Phases DEF Whole, Placed, StandFits, Pending
    <3> QED BY <3>1, <3>2, RetireLater DEF RetirePlaces, ForeignPlaces
  <2>2. CASE \E c \in Callers : CheckSheet(c)
    <3>1. active = 0 /\ active' = 0 /\ pc' = pc
      BY <2>2 DEF CheckSheet, status
    <3>2. pc \notin RunPlaces
      BY <3>1, RunIsActive DEF Running
    <3> QED BY <3>1, <3>2, RetireLater DEF RetirePlaces, ForeignPlaces, RunPlaces
  <2>3. CASE ~\E c \in Callers : Reserve(c) \/ CheckSheet(c)
    <3>1. /\ UNCHANGED <<dir, journal, active, manifest, pc>>
          /\ run'.old = run.old /\ run'.todo = run.todo
      BY <1>7, <2>3, WholeParts DEF Request, CloseSheet, StartReview, CancelApply, disk, records, status,
         TypeInv, TypeOK, RunOK, Run
    <3> QED BY <3>1, IdleStep, RetireStays DEF InState
  <2> QED BY <2>1, <2>2, <2>3
<1>8. CASE Failure
  <2>1. UNCHANGED <<dir, journal, active, manifest>> /\ pc' \in {"idle", "stopped"}
    BY <1>8 DEF Failure, Crash, RunBreaksOff, Quit, Down, BreakOff, disk, records, status
  <2> QED BY <2>1, IdleStep, RetireStays DEF InState, RetirePlaces, ForeignPlaces
<1>9. CASE Outside
  BY <1>9, OutsideFrame, RetireStays DEF InState
<1>10. CASE UNCHANGED vars
  <2>1. UNCHANGED <<dir, journal, active, manifest, pc, run>>
    BY <1>10 DEF vars
  <2> QED BY <2>1, IdleStep, RetireStays DEF InState
<1> QED BY <1>1, <1>2, <1>3, <1>4, <1>5, <1>6, <1>7, <1>8, <1>9, <1>10 DEF Next, RunStep

\* A step that claims nothing, or one beside the move of a kept file.
LEMMA NoneClaimed ==
    ASSUME Claimless', pc' \notin {"claimed", "recording"}, mode' = "down" => pc' = "idle"
    PROVE  ClaimFits'
BY DEF Claimless, ClaimFits

LEMMA ClaimStays ==
    ASSUME ClaimFits, UNCHANGED <<active, kclaim, kept, mode, pc>>, run'.at = run.at,
           run'.left = run.left, dir'["previous"].files = dir["previous"].files
    PROVE  ClaimFits'
BY DEF ClaimFits

\* Where no kept file is being moved none is claimed.
LEMMA ClaimlessAt ==
    ASSUME Whole, ClaimFits, kclaim \in [Files -> Nat],
           active = 0 \/ pc \in RunPlaces \ {"claimed", "recording", "recover", "settleClaims"}
    PROVE  Claimless
BY DEF ClaimFits, Claimless, RunPlaces

LEMMA SwapKeepsClaims == Whole /\ ClaimFits /\ SwapStep => ClaimFits'
<1> SUFFICES ASSUME Whole, ClaimFits, SwapStep PROVE ClaimFits'
  OBVIOUS
<1>0. /\ kclaim \in [Files -> Nat] /\ kept \in [Files -> Nat] /\ run \in Run
      /\ dir["previous"] \in Folder
  BY WholeParts, Disk DEF TypeInv, TypeOK, RecordsOK, DiskOK, RunOK
<1>1. mode # "down" /\ mode' # "down"
  BY SwapFrame DEF ClaimFits, Running, RunPlaces, SwapStep, EnterSwap, ClaimKept, SkipKept, MoveKept,
     RecordKept, RecordMissing, ClearPrevious, RetirePrevious, CheckSwap, MoveAside, AsideFails,
     StartWait, CancelWait, RecordAside, AfterWait, Install, InstallFails, Restore, RestoreFails,
     RecordInstalled, BreakOff
<1>2. ASSUME NEW f \in Files, ClaimKept(f) PROVE ClaimFits'
  <2>1. Claimless
    BY <1>0, <1>2, ClaimlessAt DEF ClaimKept, RunPlaces
  <2> QED BY <1>0, <1>1, <1>2, <2>1, SwapFrame DEF ClaimKept, ClaimFits, Claimless, disk, Run, SameApply
<1>3. CASE MoveKept
  <2>1. /\ pc = "claimed" /\ pc' = "recording" /\ kclaim' = kclaim /\ run'.at = run.at
        /\ run.at \in dir["previous"].files
    BY <1>0, <1>3 DEF MoveKept, records, ClaimFits, Run
  <2>2. run'.left <=> run.at \notin dir'["previous"].files
    <3>1. CASE dir' = [dir EXCEPT !["previous"].files = @ \ {run.at}] /\ run'.left
      BY <1>0, <3>1, WholeParts DEF Folder, Places
    <3>2. CASE UNCHANGED dir /\ ~run'.left
      BY <2>1, <3>2
    <3> QED BY <1>0, <1>3, <2>1, <3>1, <3>2 DEF MoveKept, Run
  <2> QED BY <1>1, <2>1, <2>2, SwapFrame DEF ClaimFits, SameApply
<1>4. CASE RecordKept
  <2>1. Claimless' /\ pc' = "keeping"
    BY <1>0, <1>1, <1>4 DEF RecordKept, ClaimFits, Claimless, Run
  <2> QED BY <1>1, <2>1, NoneClaimed
<1>5. CASE ~MoveKept /\ ~RecordKept /\ ~\E f \in Files : ClaimKept(f)
  <2>1. /\ kclaim' = kclaim /\ pc' \notin {"claimed", "recording"}
        /\ pc \in RunPlaces \ {"claimed", "recording", "recover", "settleClaims"}
    BY <1>5 DEF SwapStep, EnterSwap, SkipKept, RecordMissing, ClearPrevious, RetirePrevious,
       CheckSwap, MoveAside, AsideFails, StartWait, CancelWait, RecordAside, AfterWait, Install,
       InstallFails, Restore, RestoreFails, RecordInstalled, records, Goto, End, BreakOff, RunPlaces
  <2> QED BY <1>0, <1>1, <2>1, ClaimlessAt, NoneClaimed DEF Claimless
<1> QED BY <1>2, <1>3, <1>4, <1>5

LEMMA RecoveryKeepsClaims == Whole /\ ClaimFits /\ RecoveryStep => ClaimFits'
<1> SUFFICES ASSUME Whole, ClaimFits, RecoveryStep PROVE ClaimFits'
  OBVIOUS
<1>0. kclaim \in [Files -> Nat]
  BY WholeParts DEF TypeInv, TypeOK, RecordsOK
<1>1. CASE Start
  <2>1. /\ UNCHANGED <<active, kclaim>> /\ pc = "idle"
        /\ \/ active = 0 /\ pc' = pc
           \/ pc' = "recover" /\ mode' = "opening"
    BY <1>1, WholeParts DEF Start, Agreement, records, ClaimFits
  <2>2. CASE active = 0 /\ pc' = pc
    BY <1>0, <2>1, <2>2, ClaimlessAt, NoneClaimed DEF Claimless
  <2>3. CASE pc' = "recover" /\ mode' = "opening"
    BY <2>1, <2>3 DEF ClaimFits
  <2> QED BY <2>1, <2>2, <2>3
<1>2. CASE RecoverFolders
  <2>1. /\ UNCHANGED <<active, kclaim>> /\ pc' \in {"stopped", "settleClaims"} /\ pc = "recover"
        /\ active # 0
    BY <1>2, RecoveryChooses DEF RecoverFolders, records
  <2>2. mode' \in {mode, "open"}
    BY <1>2, Zenon DEF RecoverFolders, RecoverAs, Stuck, BreakOff
  <2>3. mode # "down"
    BY <2>1 DEF ClaimFits
  <2> QED BY <2>1, <2>2, <2>3 DEF ClaimFits
<1>3. ASSUME NEW f \in Files, SettleClaim(f) PROVE ClaimFits'
  <2>1. UNCHANGED <<active, mode, pc>> /\ pc = "settleClaims" /\ active # 0
    BY <1>3, RunIsActive DEF SettleClaim, status, Running, RunPlaces
  <2> QED BY <2>1 DEF ClaimFits
<1>4. CASE Recovered
  <2>1. Claimless' /\ pc = "settleClaims" /\ pc' \in {"ending", "installed", "committed"} /\ mode' = mode
    BY <1>4 DEF Recovered, Claimless, records, Goto
  <2> QED BY <2>1, NoneClaimed DEF ClaimFits
<1> QED BY <1>1, <1>2, <1>3, <1>4 DEF RecoveryStep

LEMMA ClaimStep == Clean /\ Whole /\ Lone /\ ClaimFits /\ [Next]_vars => ClaimFits'
<1> SUFFICES ASSUME Clean, Whole, Lone, ClaimFits, [Next]_vars PROVE ClaimFits'
  OBVIOUS
<1>0. kclaim \in [Files -> Nat]
  BY WholeParts DEF TypeInv, TypeOK, RecordsOK
<1>1. CASE BuildStep
  <2>1. Claimless /\ mode' # "down"
    BY <1>0, <1>1, BuildFrame, ClaimlessAt DEF EarlyPlaces, RunPlaces, ClaimFits
  <2> QED BY <1>1, <2>1, BuildFrame, NoneClaimed DEF EarlyPlaces, Claimless
<1>2. CASE SwapStep
  BY <1>2, SwapKeepsClaims
<1>3. CASE FinishStep
  <2>1. pc \in RunPlaces \ {"claimed", "recording", "recover", "settleClaims"} /\ mode' \in {mode, "open"}
    BY <1>3 DEF FinishStep, Commit, CommitRefused, ReadInstalled, LeaveForeign, ClaimForeign,
       MoveForeign, RecordForeign, EndForeign, SettleFirst, StartRetiring, Retire, Settle,
       SettleRefused, BreakOff, RunPlaces
  <2>2. Claimless /\ mode # "down"
    BY <1>0, <2>1, ClaimlessAt DEF ClaimFits, RunPlaces
  <2> QED BY SMTT(30), <1>3, <2>1, <2>2, FinishFrame, NoneClaimed DEF Claimless, KeepPlaces
<1>4. CASE EndStep
  <2>1. kclaim' = kclaim /\ mode' \in {mode, "open"}
    BY <1>4 DEF EndStep, ClearBuilding, Discard, records
  <2>2. Claimless /\ mode # "down"
    BY <1>0, <1>4, EndFrame, ClaimlessAt DEF ClaimFits, RunPlaces
  <2> QED BY <1>4, <2>1, <2>2, EndFrame, NoneClaimed DEF Claimless
<1>5. CASE RecoveryStep
  BY <1>5, RecoveryKeepsClaims
<1>6. CASE ReviewStep
  <2>1. active = 0 /\ UNCHANGED <<pc, kclaim, mode>> /\ pc \notin RunPlaces
    BY <1>6, RunIsActive DEF ReviewStep, ActReview, RecordReview, ClearReviewed, RetireReviewed, Lone,
       status, records, Running
  <2> QED BY <1>0, <2>1, ClaimlessAt, NoneClaimed DEF Claimless, RunPlaces, ClaimFits
<1>7. CASE Request
  <2>1. CASE \E c \in Callers : Reserve(c) \/ CheckSheet(c)
    <3>1. active = 0 /\ UNCHANGED <<kclaim, mode>> /\ mode = "open" /\ pc' \in {pc, "reserved"}
      BY <2>1 DEF Reserve, CheckSheet, SheetHolds, records
    <3>2. pc \notin RunPlaces
      BY <3>1, RunIsActive DEF Running
    <3> QED BY <1>0, <3>1, <3>2, ClaimlessAt, NoneClaimed DEF Claimless, RunPlaces
  <2>2. CASE ~\E c \in Callers : Reserve(c) \/ CheckSheet(c)
    <3>1. /\ UNCHANGED <<dir, active, kclaim, kept, mode, pc>> /\ run'.at = run.at /\ run'.left = run.left
      BY <1>7, <2>2, WholeParts DEF Request, CloseSheet, StartReview, CancelApply, disk, records, status,
         TypeInv, TypeOK, RunOK, Run
    <3> QED BY <3>1, ClaimStays
  <2> QED BY <2>1, <2>2
<1>8. CASE Failure
  BY <1>0, <1>8, RunIsActive DEF ClaimFits, Failure, Crash, RunBreaksOff, Quit, Down, BreakOff, records, status
<1>9. CASE Outside
  BY <1>9, OutsideFrame, ClaimStays
<1>10. CASE UNCHANGED vars
  BY <1>10, ClaimStays DEF vars
<1> QED BY <1>1, <1>2, <1>3, <1>4, <1>5, <1>6, <1>7, <1>8, <1>9, <1>10 DEF Next, RunStep

\* View (previous)/ takes nothing in that stays there, but when an Apply
\* settles what it left over.
CalmKept ==
    \/ /\ Calm /\ dir'["previous"].files \subseteq dir["previous"].files
       /\ dir'["previous"].files # {} => dir'["previous"].id = dir["previous"].id
    \/ dir'["previous"].files = {}

LEMMA SwapKeepsCalm == Whole /\ Whole' /\ SwapStep /\ Calm' => CalmKept
<1> SUFFICES ASSUME Whole, Whole', SwapStep, Calm' PROVE CalmKept
  OBVIOUS
<1>0. InPlace' /\ Pending /\ Now'.view = Now.view /\ Now.view # active
  BY SwapFrame, OldIsInstalled DEF Calm, SameApply
<1>1. CASE UNCHANGED dir
  BY <1>0, <1>1 DEF CalmKept, Calm, InPlace
<1>2. CASE /\ pc \in ReadyPlaces
           /\ dir'["previous"].id \in {dir["previous"].id, Absent}
           /\ dir'["previous"].files \subseteq dir["previous"].files
  <2>1. InPlace
    BY <1>2, WholeParts DEF RunFits
  <2>2. dir'["previous"].id = Absent => dir'["previous"].files = {}
    BY DEF Whole, Founded, FoldersFit, Present, Places
  <2> QED BY <1>0, <1>2, <2>1, <2>2 DEF CalmKept, Calm
<1>3. CASE MoveAside
  <2>1. dir'["view"].id = Absent /\ Now.view # Absent
    BY <1>3, WholeParts DEF MoveAside, Renamed, NoFolder, Places, RunFits
  <2> QED BY <1>0, <2>1 DEF InPlace
<1>4. CASE Install
  <2>1. dir'["view"].id = active
    BY <1>4, WholeParts DEF Install, Renamed, NoFolder, Places, FoldersFit, BuiltPlaces
  <2> QED BY <1>0, <2>1 DEF InPlace
<1>5. CASE Restore
  BY <1>5, WholeParts DEF Restore, Renamed, NoFolder, Places, CalmKept
<1> QED BY <1>1, <1>2, <1>3, <1>4, <1>5, SwapDisk

LEMMA FinishKeepsCalm ==
    Whole /\ Whole' /\ RetireFits /\ FinishStep /\ Calm' => CalmKept \/ Settle
<1> SUFFICES ASSUME Whole, Whole', RetireFits, FinishStep, Calm', ~Settle PROVE CalmKept
  OBVIOUS
<1>1. CASE SettleFirst
  <2>1. pc = "transferred" /\ ~run.old /\ UNCHANGED dir /\ active # 0 /\ ~Pending
    BY <1>1, FinishFrame DEF SettleFirst, disk
  <2>2. ~Present("previous")
    BY <2>1 DEF RetireFits, RetirePlaces
  <2> QED BY <2>1, <2>2, WholeParts DEF FoldersFit, Places, CalmKept
<1>2. CASE ~SettleFirst
  <2>1. SameApply /\ dir'["view"].id = dir["view"].id /\ active' # 0
    <3>1. active' # 0
      BY <1>2, FinishFrame DEF FinishStep, Commit, CommitRefused, ReadInstalled, LeaveForeign,
         ClaimForeign, MoveForeign, RecordForeign, EndForeign, StartRetiring, Retire, SettleRefused,
         status
    <3> QED BY SMTT(30), <3>1, FinishFrame DEF Calm
  <2>2. Pending /\ InPlace
    BY <2>1 DEF Calm, SameApply, InPlace
  <2>3. Now.phase = NewInstalled
    BY <2>2, FinishFrame, WholeParts DEF PhaseFits
  <2> QED BY <2>2, <2>3, FinishFrame, WholeParts, OldIsInstalled DEF StandFits
<1> QED BY <1>1, <1>2

LEMMA CalmStep ==
    ASSUME Clean, Whole, Whole', Lone, RetireFits, [Next]_vars, Calm'
    PROVE  CalmKept \/ Settle
<1>1. CASE BuildStep
  BY <1>1, BuildFrame DEF CalmKept, Calm
<1>2. CASE SwapStep \/ FinishStep
  BY <1>2, SwapKeepsCalm, FinishKeepsCalm
<1>3. CASE EndStep
  BY <1>3, EndFrame, WholeParts DEF CalmKept, Calm, RunFits
<1>4. CASE RecoveryStep
  <2>1. CASE UNCHANGED dir
    BY <1>4, <2>1, RecoveryFrame DEF CalmKept, Calm, SameApply, InPlace, Pending
  <2>2. CASE dir' = Renamed("previous", "view")
    BY <2>2, WholeParts DEF Renamed, NoFolder, Places, CalmKept
  <2> QED BY <1>4, <2>1, <2>2, RecoveryFrame
<1>5. CASE ReviewStep \/ \E c \in Callers : CheckSheet(c)
  <2>1. active = 0
    BY <1>5 DEF ReviewStep, ActReview, RecordReview, ClearReviewed, RetireReviewed, Lone, CheckSheet
  <2>2. /\ dir'["previous"].files \subseteq dir["previous"].files
        /\ dir'["previous"].id \in {dir["previous"].id, Absent}
    <3>1. \/ UNCHANGED dir
          \/ dir' = [dir EXCEPT !["previous"].files = @ \ {rv.file},
                                !["view"].files = @ \cup {rv.file}]
          \/ dir' = [dir EXCEPT !["previous"].files = @ \ {rv.file}]
          \/ dir' = [dir EXCEPT !["previous"] = Emptied(@)]
      BY <1>5 DEF ReviewStep, ActReview, RecordReview, ClearReviewed, RetireReviewed, CheckSheet, disk
    <3>2. /\ Emptied(dir["previous"]).files = dir["previous"].files
          /\ Emptied(dir["previous"]).id \in {dir["previous"].id, Absent}
      BY DEF Emptied, NoFolder
    <3> QED BY <3>1, <3>2, WholeParts, Disk DEF Folder
  <2>3. dir'["previous"].id = Absent => dir'["previous"].files = {}
    BY DEF Whole, Founded, FoldersFit, Present, Places
  <2> QED BY <2>1, <2>2, <2>3 DEF CalmKept, Calm
<1>6. CASE \E c \in Callers : Reserve(c)
  BY <1>6 DEF Reserve, SheetHolds, disk, CalmKept, Calm
<1>7. CASE \/ Failure \/ CancelApply \/ \E c \in Callers : CloseSheet(c)
           \/ \E f \in Files, review \in {"kept", "moved", "trashed"} : StartReview(f, review)
           \/ UNCHANGED vars
  <2>1. UNCHANGED <<dir, journal, active>>
    BY <1>7 DEF Failure, Crash, RunBreaksOff, Quit, Down, BreakOff, CancelApply, CloseSheet, StartReview,
       disk, status, vars
  <2> QED BY <2>1 DEF CalmKept, Calm, Pending, InPlace, Now
<1>8. CASE Outside
  BY <1>8, OutsideFrame DEF CalmKept, Calm, SameApply, InPlace, Pending
<1> QED BY <1>1, <1>2, <1>3, <1>4, <1>5, <1>6, <1>7, <1>8 DEF Next, RunStep, Request

\* Where the kept files an Apply has from its sheet are not yet recorded.
MissingPlaces == EarlyPlaces \cup {"keeping", "claimed", "recording"}

LEMMA MissingStep ==
    Clean /\ Whole /\ Whole' /\ Lone /\ RetireFits /\ MissingFits /\ [Next]_vars => MissingFits'
<1> SUFFICES ASSUME Clean, Whole, Whole', Lone, RetireFits, MissingFits, [Next]_vars
             PROVE  MissingFits'
  OBVIOUS
<1>1. pc' \in MissingPlaces => run'.missing \cap dir'["previous"].files = {}
  <2> SUFFICES ASSUME pc' \in MissingPlaces
               PROVE  run'.missing \cap dir'["previous"].files = {}
    OBVIOUS
  <2>1. CASE \E c \in Callers : Reserve(c)
    <3>1. PICK c \in Callers : Reserve(c)
      BY <2>1
    <3>2. /\ UNCHANGED dir /\ run'.missing = prep[c].missing /\ Fresh(prep[c]) /\ Calm
      BY <3>1 DEF Reserve, SheetHolds, Fresh, Calm, disk, NoRun
    <3> QED BY <3>2 DEF MissingFits
  <2>2. CASE ~\E c \in Callers : Reserve(c)
    <3>1. /\ pc \in MissingPlaces /\ run'.missing = run.missing
          /\ dir'["previous"].files \subseteq dir["previous"].files
      <4>1. CASE BuildStep
        BY <4>1, BuildFrame DEF MissingPlaces
      <4>2. CASE SwapStep
        <5>1. /\ pc \in MissingPlaces /\ run'.missing = run.missing
              /\ ~MoveAside /\ ~Install /\ ~Restore
          BY <4>2, WholeParts DEF MissingPlaces, EarlyPlaces, SwapStep, EnterSwap, ClaimKept, SkipKept,
             MoveKept, RecordKept, RecordMissing, ClearPrevious, RetirePrevious, CheckSwap, MoveAside,
             AsideFails, StartWait, CancelWait, RecordAside, AfterWait, Install, InstallFails, Restore,
             RestoreFails, RecordInstalled, Goto, End, BreakOff, TypeInv, TypeOK, RunOK, Run
        <5> QED BY SMTT(30), <4>2, <5>1, SwapDisk
      <4>3. CASE FinishStep \/ EndStep
        BY <4>3, FinishFrame, EndFrame DEF MissingPlaces, KeepPlaces, EarlyPlaces
      <4>4. CASE RecoveryStep
        BY <4>4, RecoveryFrame DEF MissingPlaces, KeepPlaces
      <4>5. CASE ReviewStep
        <5>1. pc \notin RunPlaces /\ pc' = pc
          BY <4>5, RunIsActive DEF ReviewStep, ActReview, RecordReview, ClearReviewed, RetireReviewed,
             Lone, Running
        <5> QED BY <5>1 DEF MissingPlaces, EarlyPlaces, RunPlaces
      <4>6. CASE \E c \in Callers : CheckSheet(c)
        <5>1. pc \notin RunPlaces /\ pc' = pc
          BY <4>6, RunIsActive DEF CheckSheet, Running
        <5> QED BY <5>1 DEF MissingPlaces, EarlyPlaces, RunPlaces
      <4>7. CASE Request /\ ~\E c \in Callers : CheckSheet(c)
        BY <2>2, <4>7, WholeParts DEF Request, CloseSheet, StartReview, CancelApply, disk, TypeInv, TypeOK,
           RunOK, Run
      <4>8. CASE Failure
        BY <4>8 DEF Failure, Crash, RunBreaksOff, Quit, Down, BreakOff, MissingPlaces, EarlyPlaces
      <4>9. CASE Outside
        BY <4>9, OutsideFrame
      <4>10. CASE UNCHANGED vars
        BY <4>10 DEF vars
      <4> QED BY <4>1, <4>2, <4>3, <4>4, <4>5, <4>6, <4>7, <4>8, <4>9, <4>10 DEF Next, RunStep
    <3> QED BY <3>1 DEF MissingFits, MissingPlaces
  <2> QED BY <2>1, <2>2
<1>2. ASSUME NEW c \in Callers, Fresh(prep[c])', Calm'
      PROVE  /\ prep'[c].missing \cap dir'["previous"].files = {}
             /\ prep'[c].gone => dir'["previous"].files = {}
  <2>1. ASSUME Commit PROVE FALSE
    <3>1. active # 0 /\ active' = active /\ Advance(ManifestCommitted)
      BY <2>1, FinishFrame DEF Commit, FinishStep
    <3> QED BY <1>2, <3>1, NowAdvances, Phases DEF Calm
  <2>2. InState("installed")' = InState("installed")
    BY <2>1, InstalledStays DEF vars, InState
  <2>3. CASE CheckSheet(c)
    <3>1. /\ prep'[c].missing = {f \in Files : leftover[f].review = "kept"
                                              /\ f \notin dir["previous"].files}
          /\ prep'[c].gone = (dir["previous"].files = {})
          /\ dir'["previous"] = Emptied(dir["previous"])
      BY <2>3, WholeParts DEF CheckSheet, TypeInv, TypeOK, OthersOK, Places, HoldsNothing
    <3>2. Emptied(dir["previous"]).files = dir["previous"].files
      BY DEF Emptied, NoFolder
    <3> QED BY <3>1, <3>2
  <2>4. CASE ~CheckSheet(c)
    <3>1. prep'[c] = prep[c]
      <4>1. CASE RunStep \/ ReviewStep \/ Outside \/ UNCHANGED vars
        BY <4>1, RunFrame, OutsideFrame DEF vars, ReviewStep, ActReview, RecordReview, ClearReviewed,
           RetireReviewed
      <4>2. CASE Failure
        BY <1>2, <4>2 DEF Fresh, Failure, Crash, RunBreaksOff, Quit, Down, NoSheet
      <4>3. ASSUME NEW d \in Callers, Reserve(d) \/ CloseSheet(d) \/ CheckSheet(d)
            PROVE  prep'[c] = prep[c]
        <5>1. d # c => prep'[c] = prep[c]
          BY <4>3, WholeParts DEF CheckSheet, Reserve, CloseSheet, TypeInv, TypeOK, OthersOK
        <5>2. d = c => prep'[c] = NoSheet
          BY <2>4, <4>3, WholeParts DEF Reserve, CloseSheet, TypeInv, TypeOK, OthersOK
        <5> QED BY <1>2, <5>1, <5>2 DEF Fresh, NoSheet
      <4>4. CASE CancelApply \/ \E f \in Files, review \in {"kept", "moved", "trashed"} :
                                    StartReview(f, review)
        BY <4>4 DEF StartReview, CancelApply, others
      <4> QED BY <4>1, <4>2, <4>3, <4>4 DEF Next, Request
    <3>2. Fresh(prep[c])
      BY <1>2, <2>2, <3>1 DEF Fresh
    <3>3. ~Settle
      BY <3>2, NotFresh, FinishFrame DEF Settle, FinishStep
    <3>4. CalmKept
      BY <1>2, <3>3, CalmStep
    <3> QED BY <3>1, <3>2, <3>4 DEF CalmKept, MissingFits
  <2> QED BY <2>3, <2>4
<1> QED BY <1>1, <1>2 DEF MissingFits, MissingPlaces

\* A step that settles no review of a file that stays, and moves no file but
\* to where it is found.
RowsKept ==
    /\ \A f \in dir'["previous"].files :
          Calm /\ f \in dir["previous"].files /\ Over(f) =>
             Over(f)' /\ leftover'[f].in = leftover[f].in
    /\ \A f \in Files : Over(f)' => Over(f) /\ (Found(f) => Found(f)')

\* One that changes no row.
LEMMA FilesKept ==
    ASSUME UNCHANGED leftover, \A f \in Files : Over(f) /\ Found(f) => Found(f)',
           dir'["previous"].files \subseteq Files
    PROVE  RowsKept
BY DEF RowsKept, Over

\* One that touches none of what is left over.
LEMMA NothingTouched ==
    ASSUME Whole', UNCHANGED <<leftover, trash, kclaim, kept>>,
           dir["previous"].files \subseteq dir'["previous"].files,
           dir["view"].files \subseteq dir'["view"].files
    PROVE  RowsKept
<1>1. dir'["previous"].files \subseteq Files
  BY DEF Whole, Founded, Recorded, TypeInv, TypeOK, DiskOK, Folder, Places
<1> QED BY <1>1, FilesKept DEF Found

\* The folders move with nothing left over.
LEMMA MovingKeepsRows ==
    ASSUME Whole, Cleared, Moving \/ (active # 0 /\ ~Pending), UNCHANGED leftover, Whole'
    PROVE  RowsKept
<1>1. NoneLeft
  BY DEF Cleared
<1>2. dir'["previous"].files \subseteq Files
  BY DEF Whole, Founded, Recorded, TypeInv, TypeOK, DiskOK, Folder, Places
<1> QED BY <1>1, <1>2 DEF NoneLeft, RowsKept, Over

\* Rows of files that are gone read Moved.
LEMMA MovedKeepsRows ==
    ASSUME Whole, Cleared, active # 0 \/ \A f \in Files : leftover[f].review # "pending",
           NEW gone, leftover' = KeptMoved(gone),
           gone \cap dir'["previous"].files = {},
           \A f \in Files \ gone : Over(f) /\ Found(f) => Found(f)',
           dir'["previous"].files \subseteq Files
    PROVE  RowsKept
<1>1. \A f \in Files : f \notin gone => leftover'[f] = leftover[f]
  BY DEF KeptMoved
<1>2. \A f \in Files \cap gone : leftover[f].review # "pending" /\ ~Over(f)'
  <2> SUFFICES ASSUME NEW f \in Files, f \in gone
               PROVE  leftover[f].review # "pending" /\ ~Over(f)'
    OBVIOUS
  <2>1. leftover[f].review # "pending"
    BY DEF Cleared
  <2>2. leftover[f] \in [review : Reviews, in : Identities]
    BY WholeParts DEF TypeInv, TypeOK, RecordsOK
  <2>3. leftover'[f].review = (IF leftover[f].review = "kept" THEN "moved" ELSE leftover[f].review)
    BY <2>2 DEF KeptMoved
  <2> QED BY <2>1, <2>3 DEF Over
<1> QED BY <1>1, <1>2 DEF RowsKept, Over

LEMMA SwapKeepsRows ==
    Whole /\ Whole' /\ Cleared /\ ClaimFits /\ MissingFits /\ SwapStep => RowsKept
<1> SUFFICES ASSUME Whole, Whole', Cleared, ClaimFits, MissingFits, SwapStep PROVE RowsKept
  OBVIOUS
<1>0. /\ dir \in [Places -> Folder] /\ dir' \in [Places -> Folder] /\ run \in Run /\ active # 0
      /\ dir'["previous"].files \subseteq Files /\ kclaim \in [Files -> Nat] /\ kept \in [Files -> Nat]
  BY WholeParts, SwapFrame, Disk DEF Whole, Founded, Recorded, TypeInv, TypeOK, DiskOK, RunOK,
     RecordsOK, Places, Folder
<1>1. CASE \E f \in Files : ClaimKept(f)
  <2>1. PICK f \in Files : ClaimKept(f)
    BY <1>1
  <2>2. UNCHANGED <<dir, trash, kept, leftover>> /\ f \in dir["previous"].files
        /\ \A g \in Files \ {f} : kclaim'[g] = kclaim[g]
    BY <1>0, <2>1 DEF ClaimKept, disk
  <2> QED BY <1>0, <2>2, FilesKept DEF Found
<1>2. CASE \E f \in Files : SkipKept(f)
  <2>1. PICK f \in Files : SkipKept(f)
    BY <1>2
  <2>2. /\ UNCHANGED <<dir, trash, kept, kclaim>>
        /\ \/ leftover' = KeptMoved({f}) /\ f \notin dir["previous"].files
           \/ UNCHANGED leftover
    BY <2>1 DEF SkipKept, disk
  <2>3. CASE UNCHANGED leftover
    BY <2>2, <2>3, NothingTouched
  <2>4. CASE leftover' = KeptMoved({f}) /\ f \notin dir["previous"].files
    BY <1>0, <2>2, <2>4, MovedKeepsRows DEF Found
  <2> QED BY <2>2, <2>3, <2>4
<1>3. CASE MoveKept
  <2>1. /\ UNCHANGED <<trash, kclaim, leftover>> /\ kclaim[run.at] = kept[run.at] + 1
    BY <1>3 DEF MoveKept, records, ClaimFits
  <2>2. CASE UNCHANGED <<dir, kept>>
    BY <2>1, <2>2, NothingTouched
  <2>3. CASE /\ dir' = [dir EXCEPT !["previous"].files = @ \ {run.at}]
             /\ kept' = [kept EXCEPT ![run.at] = @ + 1]
    <3>1. /\ dir'["previous"].files = dir["previous"].files \ {run.at} /\ dir'["view"] = dir["view"]
          /\ run.at \in Files
          /\ \A f \in Files : kept'[f] = IF f = run.at THEN kept[f] + 1 ELSE kept[f]
      BY <1>0, <2>3 DEF Folder, Places, Run
    <3>2. kclaim'[run.at] > 0 /\ kept'[run.at] >= kclaim'[run.at]
      BY <1>0, <2>1, <3>1
    <3>3. \A f \in Files : Found(f) => Found(f)'
      BY <2>1, <3>1, <3>2 DEF Found
    <3> QED BY <1>0, <2>1, <3>3, FilesKept
  <2> QED BY <1>3, <2>2, <2>3 DEF MoveKept
<1>4. CASE RecordKept
  <2>1. /\ UNCHANGED <<dir, trash, kept>> /\ \A g \in Files \ {run.at} : kclaim'[g] = kclaim[g]
        /\ \/ leftover' = KeptMoved({run.at}) /\ run.at \notin dir["previous"].files
           \/ UNCHANGED leftover /\ run.at \in dir["previous"].files
    BY <1>0, <1>4 DEF RecordKept, disk, ClaimFits
  <2>2. CASE leftover' = KeptMoved({run.at}) /\ run.at \notin dir["previous"].files
    BY <1>0, <2>1, <2>2, MovedKeepsRows DEF Found
  <2>3. CASE UNCHANGED leftover /\ run.at \in dir["previous"].files
    BY <1>0, <2>1, <2>3, FilesKept DEF Found
  <2> QED BY <2>1, <2>2, <2>3
<1>5. CASE RecordMissing
  <2>1. /\ UNCHANGED <<dir, trash, kept, kclaim>> /\ leftover' = KeptMoved(run.missing)
        /\ run.missing \cap dir["previous"].files = {}
    BY <1>5 DEF RecordMissing, disk, MissingFits
  <2> QED BY <1>0, <2>1, MovedKeepsRows DEF Found
<1>6. CASE /\ ~MoveKept /\ ~RecordKept /\ ~RecordMissing
           /\ ~\E f \in Files : ClaimKept(f) \/ SkipKept(f)
  <2>1. UNCHANGED <<leftover, kclaim, kept, trash>>
    BY <1>6 DEF SwapStep, EnterSwap, ClearPrevious, RetirePrevious, CheckSwap, MoveAside, AsideFails,
       StartWait, CancelWait, RecordAside, AfterWait, Install, InstallFails, Restore, RestoreFails,
       RecordInstalled, disk, records
  <2>2. CASE MoveAside \/ Install \/ Restore
    <3>1. Moving
      BY <2>2 DEF MoveAside, Install, Restore, Moving, SwapPlaces
    <3> QED BY <2>1, <3>1, MovingKeepsRows
  <2>3. CASE ~MoveAside /\ ~Install /\ ~Restore
    <3>1. UNCHANGED dir \/ dir' = [dir EXCEPT !["previous"] = Emptied(@)]
      BY <1>6, <2>3 DEF SwapStep, EnterSwap, ClearPrevious, RetirePrevious, CheckSwap, AsideFails,
         StartWait, CancelWait, RecordAside, AfterWait, InstallFails, RestoreFails, RecordInstalled, disk
    <3>2. Emptied(dir["previous"]).files = dir["previous"].files
      BY DEF Emptied, NoFolder
    <3>3. dir'["previous"].files = dir["previous"].files /\ dir'["view"] = dir["view"]
      BY <1>0, <3>1, <3>2 DEF Places
    <3> QED BY <2>1, <3>3, NothingTouched
  <2> QED BY <2>2, <2>3
<1> QED BY <1>1, <1>2, <1>3, <1>4, <1>5, <1>6

LEMMA RecoveryKeepsRows ==
    Whole /\ Whole' /\ Cleared /\ ClaimFits /\ RecoveryStep => RowsKept
<1> SUFFICES ASSUME Whole, Whole', Cleared, ClaimFits, RecoveryStep PROVE RowsKept
  OBVIOUS
<1>0. /\ kclaim \in [Files -> Nat] /\ kept \in [Files -> Nat] /\ dir'["previous"].files \subseteq Files
  BY WholeParts DEF Whole, Founded, Recorded, TypeInv, TypeOK, DiskOK, RecordsOK, Places, Folder
<1>1. ASSUME NEW f \in Files, SettleClaim(f) PROVE RowsKept
  <2>1. /\ UNCHANGED <<dir, trash, kept>> /\ \A g \in Files \ {f} : kclaim'[g] = kclaim[g]
        /\ active # 0
        /\ \/ leftover' = KeptMoved({f}) /\ f \notin dir["previous"].files
           \/ UNCHANGED leftover /\ (kept[f] < kclaim[f] \/ f \in dir["previous"].files)
    BY <1>0, <1>1, RunIsActive DEF SettleClaim, LeftForItsName, disk, Running, RunPlaces
  <2>2. CASE leftover' = KeptMoved({f}) /\ f \notin dir["previous"].files
    BY <1>0, <2>1, <2>2, MovedKeepsRows DEF Found
  <2>3. CASE UNCHANGED leftover /\ (kept[f] < kclaim[f] \/ f \in dir["previous"].files)
    BY <1>0, <2>1, <2>3, FilesKept DEF Found
  <2> QED BY <2>1, <2>2, <2>3
<1>2. CASE ~\E f \in Files : SettleClaim(f)
  <2>1. UNCHANGED <<leftover, kclaim, kept, trash>>
    BY <1>2 DEF RecoveryStep, Start, RecoverFolders, Recovered, disk, records
  <2>2. CASE UNCHANGED dir
    BY <2>1, <2>2, NothingTouched
  <2>3. CASE Aside /\ Pending
    BY <2>1, <2>3, OldIsInstalled, MovingKeepsRows DEF Moving
  <2> QED BY <2>2, <2>3, RecoveryFrame
<1> QED BY <1>1, <1>2

LEMMA FinishKeepsRows == Whole /\ Whole' /\ Cleared /\ FinishStep => RowsKept \/ Settle
<1> SUFFICES ASSUME Whole, Whole', Cleared, FinishStep, ~Settle PROVE RowsKept
  OBVIOUS
<1>1. UNCHANGED leftover
  BY DEF FinishStep, Commit, CommitRefused, ReadInstalled, LeaveForeign, ClaimForeign, MoveForeign,
     RecordForeign, EndForeign, SettleFirst, StartRetiring, Retire, SettleRefused, records
<1> QED BY <1>1, FinishMoves, MovingKeepsRows

\* What a review takes from View (previous)/ is then in View/ or in the Trash.
LEMMA ReviewKeepsRows ==
    Whole /\ Whole' /\ LeftFits /\ ReviewStep => RowsKept
<1> SUFFICES ASSUME Whole, Whole', LeftFits, ReviewStep PROVE RowsKept
  OBVIOUS
<1>0. /\ rv \in Review /\ rv.file \in Files /\ dir["previous"] \in Folder /\ dir["view"] \in Folder
      /\ dir \in [Places -> Folder] /\ dir'["previous"].files \subseteq Files
      /\ trash \in [Files -> Nat]
      /\ leftover \in [Files -> [review : Reviews, in : Identities]]
  BY WholeParts, Disk DEF Whole, Founded, Recorded, TypeInv, TypeOK, OthersOK, DiskOK, RecordsOK,
     Review, Folder, Places
<1>1. CASE ActReview
  <2>1. UNCHANGED <<leftover, kept, kclaim>>
    BY <1>1 DEF ActReview, records
  <2>2. CASE UNCHANGED dir /\ UNCHANGED trash
    BY <2>1, <2>2, NothingTouched
  <2>3. CASE /\ dir' = [dir EXCEPT !["previous"].files = @ \ {rv.file},
                                   !["view"].files = @ \cup {rv.file}]
             /\ UNCHANGED trash
    <3>1. /\ dir'["previous"].files = dir["previous"].files \ {rv.file}
          /\ dir'["view"].files = dir["view"].files \cup {rv.file}
      BY <1>0, <2>3 DEF Places, Folder
    <3> QED BY <1>0, <2>1, <2>3, <3>1, FilesKept DEF Found
  <2>4. CASE /\ dir' = [dir EXCEPT !["previous"].files = @ \ {rv.file}]
             /\ trash' = [trash EXCEPT ![rv.file] = @ + 1]
    <3>1. /\ dir'["previous"].files = dir["previous"].files \ {rv.file}
          /\ dir'["view"].files = dir["view"].files
          /\ \A f \in Files \ {rv.file} : trash'[f] = trash[f]
          /\ trash'[rv.file] > 0
      BY <1>0, <2>4 DEF Places, Folder
    <3>2. \A f \in Files : Found(f) => Found(f)'
      BY <2>1, <3>1 DEF Found
    <3> QED BY <1>0, <2>1, <3>2, FilesKept
  <2> QED BY <1>1, <2>2, <2>3, <2>4 DEF ActReview
<1>2. CASE RecordReview
  <2>1. UNCHANGED <<dir, trash, kept, kclaim>> /\ rv.at = "record"
    BY <1>2 DEF RecordReview, disk
  <2>2. \A f \in Files : Found(f) => Found(f)'
    BY <2>1 DEF Found
  <2>3. CASE UNCHANGED leftover
    BY <2>1, <2>3, NothingTouched
  <2>4. CASE /\ leftover' = [leftover EXCEPT ![rv.file].review = rv.becomes]
             /\ CanBecome(leftover[rv.file].review, rv.becomes)
    <3>1. /\ \A f \in Files : /\ leftover'[f].in = leftover[f].in
                              /\ f # rv.file => leftover'[f] = leftover[f]
          /\ leftover'[rv.file].review = rv.becomes
      BY <1>0, <2>4
    <3>2. Over(rv.file) /\ rv.becomes \in {"kept", "moved", "trashed"}
      BY <2>4 DEF CanBecome, Over
    <3>3. rv.becomes # "kept" => rv.file \notin dir["previous"].files
      BY <2>1, <3>2 DEF LeftFits
    <3> QED BY <1>0, <2>1, <2>2, <3>1, <3>2, <3>3 DEF RowsKept, Over
  <2> QED BY <1>2, <2>3, <2>4 DEF RecordReview
<1>3. CASE ClearReviewed \/ RetireReviewed
  <2>1. UNCHANGED <<leftover, trash, kept, kclaim>>
    BY <1>3 DEF ClearReviewed, RetireReviewed, records, disk
  <2>2. dir'["previous"].files = dir["previous"].files /\ dir'["view"] = dir["view"]
    <3>1. Emptied(dir["previous"]).files = dir["previous"].files
      BY DEF Emptied, NoFolder
    <3> QED BY <1>0, <1>3, <3>1 DEF ClearReviewed, RetireReviewed, disk, Places
  <2> QED BY <2>1, <2>2, NothingTouched
<1> QED BY <1>1, <1>2, <1>3 DEF ReviewStep

LEMMA RequestKeepsRows == Whole /\ Whole' /\ Cleared /\ MissingFits /\ Request => RowsKept
<1> SUFFICES ASSUME Whole, Whole', Cleared, MissingFits, Request PROVE RowsKept
  OBVIOUS
<1>1. UNCHANGED <<trash, kept, kclaim>>
  BY DEF Request, CheckSheet, Reserve, CloseSheet, StartReview, CancelApply, disk, records
<1>2. dir'["previous"].files = dir["previous"].files /\ dir'["view"] = dir["view"]
  <2>1. UNCHANGED dir \/ dir' = [dir EXCEPT !["previous"] = Emptied(@)]
    BY DEF Request, CheckSheet, Reserve, CloseSheet, StartReview, CancelApply, disk
  <2>2. Emptied(dir["previous"]).files = dir["previous"].files
    BY DEF Emptied, NoFolder
  <2> QED BY <2>1, <2>2, WholeParts DEF Places
<1>3. CASE UNCHANGED leftover
  BY <1>1, <1>2, <1>3, NothingTouched
<1>4. ASSUME NEW c \in Callers, Reserve(c), prep[c].gone PROVE RowsKept
  <2>1. leftover' = KeptMoved(Files) /\ Fresh(prep[c]) /\ Calm
        /\ \A f \in Files : leftover[f].review # "pending"
    BY <1>4 DEF Reserve, SheetHolds, Fresh, Calm
  <2>2. dir'["previous"].files = {}
    BY <1>2, <2>1, <1>4 DEF MissingFits
  <2> QED BY <2>1, <2>2, MovedKeepsRows
<1> QED BY <1>3, <1>4 DEF Request, CheckSheet, Reserve, CloseSheet, StartReview, CancelApply, records

LEMMA RowsStep ==
    ASSUME Clean, Whole, Whole', Cleared, ClaimFits, MissingFits, LeftFits, [Next]_vars
    PROVE  RowsKept \/ Settle
<1>1. CASE BuildStep
  BY <1>1, BuildFrame, NothingTouched
<1>2. CASE SwapStep
  BY <1>2, SwapKeepsRows
<1>3. CASE FinishStep
  BY <1>3, FinishKeepsRows
<1>4. CASE EndStep
  <2>1. UNCHANGED <<kclaim, kept, trash>>
    BY <1>4 DEF EndStep, ClearBuilding, Discard, disk, records
  <2> QED BY <1>4, <2>1, EndFrame, NothingTouched
<1>5. CASE RecoveryStep
  BY <1>5, RecoveryKeepsRows
<1>6. CASE ReviewStep \/ Request
  BY <1>6, ReviewKeepsRows, RequestKeepsRows
<1>7. CASE Failure \/ UNCHANGED vars
  <2>1. UNCHANGED <<dir, leftover, kclaim, kept, trash>>
    BY <1>7 DEF Failure, Crash, RunBreaksOff, Quit, Down, BreakOff, disk, records, vars
  <2> QED BY <2>1, NothingTouched
<1>8. CASE Outside
  BY <1>8, OutsideFrame, NothingTouched
<1> QED BY <1>1, <1>2, <1>3, <1>4, <1>5, <1>6, <1>7, <1>8 DEF Next, RunStep

\* A run that settles leaves over what it found it could not remove.
LEMMA SettleLeaves ==
    ASSUME Whole, Whole', Cleared, RetireFits, Settle
    PROVE  /\ UNCHANGED dir /\ rv' = rv
           /\ \A f \in dir["previous"].files : Over(f)' /\ leftover'[f].in = dir["previous"].id
           /\ \A f \in Files : Over(f)' => f \in dir["previous"].files
<1>1. UNCHANGED dir /\ rv' = rv /\ run.todo = dir["previous"].files
  BY DEF Settle, disk, others, RetireFits
<1>2. NoneLeft /\ dir["previous"].files \subseteq Files
  BY WholeParts, FinishMoves, Disk DEF FinishStep, Cleared, Folder
<1>3. leftover' = [f \in Files |-> IF f \in run.todo
                       THEN [review |-> "pending", in |-> dir["previous"].id] ELSE leftover[f]]
  BY DEF Settle
<1> QED BY <1>1, <1>2, <1>3 DEF Over, NoneLeft

\* A review in flight goes on, begins or ends; only acting makes it recordable.
LEMMA ReviewMoves ==
    ASSUME Whole, [Next]_vars, rv'.at = "record"
    PROVE  rv' = rv \/ ActReview
<1>1. CASE RunStep \/ UNCHANGED vars
  BY <1>1, RunFrame DEF vars
<1>2. CASE ReviewStep
  BY <1>2, WholeParts DEF ReviewStep, RecordReview, ClearReviewed, RetireReviewed, NoReview, TypeInv,
     TypeOK, OthersOK, Review
<1>3. CASE Request
  <2>1. CASE \E f \in Files, review \in {"kept", "moved", "trashed"} : StartReview(f, review)
    BY <2>1 DEF StartReview
  <2>2. CASE CancelApply \/ \E c \in Callers : CheckSheet(c) \/ Reserve(c) \/ CloseSheet(c)
    <3>1. rv' = rv
      BY <2>2 DEF CheckSheet, Reserve, CloseSheet, CancelApply, others
    <3> QED BY <3>1
  <2> QED BY <1>3, <2>1, <2>2 DEF Request
<1>4. CASE Failure \/ Outside
  BY <1>4 DEF Failure, Crash, RunBreaksOff, Quit, Down, NoReview, Outside, Edit, Hold, Release, Occupy,
     WriteView, Litter, UserDeletes, Remove, DeletePrevious, Vanish, FilesChange, others
<1> QED BY <1>1, <1>2, <1>3, <1>4 DEF Next

LEMMA LeftStep ==
    Clean /\ Whole /\ Whole' /\ Lone /\ Lone' /\ Cleared /\ RetireFits /\ ClaimFits /\ MissingFits
      /\ LeftFits /\ [Next]_vars => LeftFits'
<1> SUFFICES ASSUME Clean, Whole, Whole', Lone, Lone', Cleared, RetireFits, ClaimFits, MissingFits,
                    LeftFits, [Next]_vars
             PROVE  LeftFits'
  OBVIOUS
<1>0. dir["previous"].files \subseteq Files /\ dir'["previous"].files \subseteq Files
  BY WholeParts DEF Whole, Founded, Recorded, TypeInv, TypeOK, DiskOK, Folder, Places
<1>1. CASE ~Settle
  <2>1. RowsKept
    BY <1>1, RowsStep
  <2>2. ASSUME Calm', NEW f \in dir'["previous"].files
        PROVE  Over(f)' /\ leftover'[f].in = dir'["previous"].id
    <3>1. /\ Calm /\ f \in dir["previous"].files
          /\ dir'["previous"].id = dir["previous"].id
      BY <1>1, <2>2, CalmStep DEF CalmKept
    <3> QED BY <2>1, <2>2, <3>1 DEF RowsKept, LeftFits
  <2>3. \A f \in Files : Over(f)' => Found(f)'
    BY <2>1 DEF RowsKept, LeftFits
  <2>4. ASSUME rv'.at = "record", rv'.becomes \in {"moved", "trashed"}
        PROVE  rv'.file \notin dir'["previous"].files
    <3>1. CASE rv' = rv
      <4>1. Calm' /\ rv.file \notin dir["previous"].files
        BY <2>4, <3>1 DEF Lone, Calm, LeftFits
      <4> QED BY <1>1, <3>1, <4>1, CalmStep DEF CalmKept
    <3>2. CASE ActReview
      BY <2>4, <3>2, WholeParts, Disk DEF ActReview, NoReview, Places, Folder, TypeInv, TypeOK, OthersOK,
         Review
    <3> QED BY <2>4, <3>1, <3>2, ReviewMoves
  <2> QED BY <2>2, <2>3, <2>4 DEF LeftFits
<1>2. CASE Settle
  <2>1. rv.at # "record"
    BY <1>2, FinishFrame DEF FinishStep, Lone
  <2> QED BY <1>0, <1>2, <2>1, SettleLeaves DEF LeftFits, Found
<1> QED BY <1>1, <1>2

\* While only PlateVault changes View (previous)/ and no review overlaps an
\* Apply, what it holds then is what the catalog knows of, and what the catalog
\* knows of is there, across every crash.
THEOREM LeftoversAlwaysRecorded == ASSUME Clean PROVE Spec => []LeftoversRecorded
<1> DEFINE Inv == AloneInv /\ RetireFits /\ ClaimFits /\ MissingFits /\ LeftFits
<1>1. Init => Inv
  <2> SUFFICES ASSUME Init PROVE Inv
    OBVIOUS
  <2>1. RetireFits
    BY DEF Init, RetireFits, RetirePlaces, ForeignPlaces
  <2>2. ClaimFits
    BY DEF Init, ClaimFits
  <2>3. MissingFits
    BY DEF Init, MissingFits, EarlyPlaces, Fresh, NoSheet
  <2>4. LeftFits
    BY DEF Init, LeftFits, Over, NoFolder, NoReview, Places
  <2> QED BY <2>1, <2>2, <2>3, <2>4, AloneInit
<1>2. Inv /\ [Next]_vars => Inv'
  <2> SUFFICES ASSUME Inv, [Next]_vars PROVE Inv'
    OBVIOUS
  <2>1. AloneInv'
    BY AloneStep DEF Clean
  <2> QED BY <2>1, RetireStep, ClaimStep, MissingStep, LeftStep DEF AloneInv
<1>3. Inv => LeftoversRecorded
  <2> SUFFICES ASSUME Inv, active = 0 PROVE LeftoversRecorded
    BY DEF LeftoversRecorded
  <2>1. Calm /\ \A f \in Files : ~(kclaim[f] > 0) /\ kclaim[f] \in Nat
    BY WholeParts DEF Calm, ClaimFits, AloneInv, TypeInv, TypeOK, RecordsOK
  <2> QED BY <2>1 DEF LeftoversRecorded, LeftFits, Over, Found
<1> QED BY <1>1, <1>2, <1>3, PTL DEF Spec
=============================================================================
