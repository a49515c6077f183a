----------------------------- MODULE ViewApply -----------------------------
(***************************************************************************)
(* One Project's Apply: the reviewed sheet, the reservation, the build in  *)
(* View (building)/, the swap of View/ for the new one, the retirement of  *)
(* View (previous)/, the recovery of an interrupted Apply at the next      *)
(* start, and the review of what an Apply left behind, which runs beside   *)
(* all of it.  Three kinds of state are kept apart: the disk and the       *)
(* catalog survive a crash, the process does not.                          *)
(*                                                                         *)
(* Sources: crates/platevault-core/src/apply.rs and apply/files.rs,        *)
(* crates/persistence/library/src/project_view.rs and project_view.sql,    *)
(* crates/platevault-model/src/project_view.rs.                            *)
(***************************************************************************)
EXTENDS Integers

CONSTANTS
    Tool,       \* paths of a View a tool or the user may write
    Entry,      \* stands for every entry PlateVault placed in one View
    Absent,     \* no folder at this name
    Alien,      \* a folder no Apply of this Project made
    Callers,    \* tasks that open an Apply sheet and ask to Apply
    MaxGen,     \* bound: Applies of this Project
    MaxRev,     \* bound: catalog edits
    MaxFaults,  \* bound: crashes, broken-off runs and refused renames
    World       \* what the outside may do in this instance

\* Edits and holds; a tool that writes into View/ or View (previous)/; the
\* user deleting or replacing what PlateVault placed; the reviews asked for,
\* and whether one may overlap an Apply.
WorldEvents == {"edit", "hold", "write", "litter", "vanish", "occupy", "remove",
                "kept", "moved", "trashed", "overlap"}

ASSUME BoundsAssumption ==
    /\ MaxGen \in Nat \ {0}
    /\ MaxRev \in Nat
    /\ MaxFaults \in Nat
    /\ World \subseteq WorldEvents

ASSUME NamesAssumption ==
    /\ Entry \notin Tool
    /\ Absent # Alien
    /\ Absent \notin 1..MaxGen
    /\ Alien \notin 1..MaxGen

Files  == Tool \cup {Entry}
Gens   == 1..MaxGen
Places == {"view", "building", "previous"}

\* A folder's identity is the generation of the Apply that made it.
Identities == Gens \cup {Absent, Alien}
Folder     == [id : Identities, files : SUBSET Files]
NoFolder   == [id |-> Absent, files |-> {}]

\* The phases an Apply's journal records, by their rank.
Unwritten          == -1
Reserved           == 0
SourcesVerified    == 1
Building           == 2
BuildVerified      == 3
WaitingForRelease  == 4
OldMoved           == 5
NewInstalled       == 6
ManifestCommitted  == 7
ForeignTransferred == 8
RetiringPrevious   == 9
Settled            == 10

Outcomes       == {"none", "applied", "failed", "canceled"}
ManifestStates == {"none", "building", "installed", "previous", "retired", "discarded"}
Reviews        == {"none", "pending", "kept", "moved", "trashed"}
ForeignStates  == {"none", "pending", "moved", "stayed", "failed"}

Journal == [phase   : Unwritten..Settled,
            from    : Unwritten..RetiringPrevious,
            outcome : Outcomes,
            view    : Identities,
            building: Identities]

NoJournal == [phase |-> Unwritten, from |-> Unwritten, outcome |-> "none",
              view |-> Absent, building |-> Absent]

VARIABLES
    \* the disk
    dir,        \* the folder at each of the three View names
    kept,       \* per path: files moved to View (kept)/, numbered 1..kept
    trash,      \* per path: files in the OS Trash
    held,       \* a tool holds a file of View/ open
    \* the catalog
    rev,        \* desired state: revision, basis, corrections, readiness
    manifest,   \* per generation: the View manifest's state
    journal,    \* per generation: the Apply journal
    active,     \* generation of the Project's active operation, or 0
    leftover,   \* per path: the review of what View (previous)/ holds
    foreign,    \* per path: the active Apply's foreign item
    ticked,     \* foreign items the sheet ticked
    fclaim,     \* foreign items whose destination is claimed
    kclaim,     \* per path: the kept number claimed for its move, or 0
    wait,       \* the journal records a wait for a tool
    \* the process
    mode,       \* "down", "opening" (reconciling) or "open"
    pc,         \* where the one running Apply or recovery stands
    run,        \* its memory
    prep,       \* per caller: a sheet checked and not yet reserved
    rv,         \* the review in flight
    faults      \* faults so far

\* Groups of variables that steps leave alone together.
disk    == <<dir, kept, trash>>
records == <<manifest, leftover, foreign, ticked, fclaim, kclaim>>
status  == <<journal, active, wait>>
others  == <<held, rev, prep, rv, faults>>   \* no step of the run changes them
vars    == <<dir, kept, trash, held, rev, manifest, journal, active, leftover, foreign,
             ticked, fclaim, kclaim, wait, mode, pc, run, prep, rv, faults>>

RunPlaces == {"reserved", "reread", "sources", "made", "building", "built", "verified",
              "keeping", "claimed", "recording", "clearing", "retirePrevious", "way",
              "aside", "waiting", "asideDone", "afterWait", "install", "restore", "placed",
              "installed", "committed", "foreign", "moving", "moved", "transferred",
              "retiring", "settling", "ending", "recover", "settleClaims"}

Running == pc \in RunPlaces

Stops == {"none", "failed", "canceled", "installed"}

Run == [rev : 0..MaxRev, made : BOOLEAN, waited : BOOLEAN, cancel : BOOLEAN,
        stop : Stops, todo : SUBSET Files, missing : SUBSET Files, at : Files,
        left : BOOLEAN, keptFailed : BOOLEAN, resumed : BOOLEAN, old : BOOLEAN]

NoRun == [rev |-> 0, made |-> FALSE, waited |-> FALSE, cancel |-> FALSE, stop |-> "none",
          todo |-> {}, missing |-> {}, at |-> Entry, left |-> FALSE, keptFailed |-> FALSE,
          resumed |-> FALSE, old |-> FALSE]

Sheet   == [open : BOOLEAN, rev : 0..MaxRev, installed : SUBSET Gens, view : Identities,
            gone : BOOLEAN, missing : SUBSET Files]
NoSheet == [open |-> FALSE, rev |-> 0, installed |-> {}, view |-> Absent,
            gone |-> FALSE, missing |-> {}]

Review   == [at : {"none", "act", "record", "clear", "retire"}, file : Files, becomes : Reviews]
NoReview == [at |-> "none", file |-> Entry, becomes |-> "none"]

Init ==
    /\ dir = [p \in Places |-> NoFolder]
    /\ kept = [f \in Files |-> 0]
    /\ trash = [f \in Files |-> 0]
    /\ held = FALSE
    /\ rev = 0
    /\ manifest = [g \in Gens |-> "none"]
    /\ journal = [g \in Gens |-> NoJournal]
    /\ active = 0
    /\ leftover = [f \in Files |-> [review |-> "none", in |-> Absent]]
    /\ foreign = [f \in Files |-> "none"]
    /\ ticked = {}
    /\ fclaim = {}
    /\ kclaim = [f \in Files |-> 0]
    /\ wait = FALSE
    /\ mode = "open"
    /\ pc = "idle"
    /\ run = NoRun
    /\ prep = [c \in Callers |-> NoSheet]
    /\ rv = NoReview
    /\ faults = 0

-----------------------------------------------------------------------------
(* Helpers. *)

\* A definition marked `variant` is what a slip in the code it stands beside
\* would make of that code; no action uses one.  README.md says which
\* property tells each from the code.

Present(p)      == dir[p].id # Absent
HoldsNothing(p) == dir[p].files = {}
InState(s)      == {g \in Gens : manifest[g] = s}
Now             == journal[active]

\* variant: a committed manifest counts as settled.
UnsettledCommits == {g \in Gens : journal[g].phase \in Reserved..NewInstalled}
\* `unsettled_applies`
Unsettled        == {g \in Gens : journal[g].phase \in Reserved..RetiringPrevious}

\* A rename that never replaces: `rename_noreplace`.
CanRename(p, q) == Present(p) /\ ~Present(q)
Renamed(p, q)   == [dir EXCEPT ![q] = dir[p], ![p] = NoFolder]

\* variant: the folder is removed with what it holds.
EmptiedWhole(d) == NoFolder
\* `remove_empty_folders` on the folder `d`.
Emptied(d) == IF d.files = {} THEN NoFolder ELSE d

\* The reviews a review may become: `PreviousItemReview::can_become`.
CanBecome(old, new) ==
    \/ old = "pending" /\ new \in {"kept", "moved", "trashed"}
    \/ old = "kept" /\ new \in {"moved", "trashed"}

\* variant: the record of what moved is left as it was.
KeptUnrecorded(gone) == leftover
\* The kept leftovers of the paths in `gone` read Moved.
KeptMoved(gone) ==
    [f \in Files |-> IF f \in gone /\ leftover[f].review = "kept"
                       THEN [leftover[f] EXCEPT !.review = "moved"] ELSE leftover[f]]

\* `retire_previous`: no manifest stays previous.
PreviousRetired == [g \in Gens |-> IF manifest[g] = "previous" THEN "retired" ELSE manifest[g]]

\* The building identity of the last Apply that ended Failed.
FailedBuildings ==
    {journal[g].building : g \in {h \in Gens :
        /\ journal[h].outcome = "failed"
        /\ \A i \in Gens : journal[i].outcome = "failed" => i <= h}}

\* `advance`: the phase moves on, which ends any recorded wait.
Advance(phase) ==
    /\ journal' = [journal EXCEPT ![active].phase = phase]
    /\ wait' = FALSE

\* variant: the phase is overwritten before it is kept as settled_from.
SettledLate(outcome) ==
    /\ journal' = [journal EXCEPT ![active].from = Settled,
                                  ![active].phase = Settled,
                                  ![active].outcome = outcome]
    /\ active' = 0
    /\ wait' = FALSE
\* The journal settles and the Project is released, in one write.
SettledAs(outcome) ==
    /\ journal' = [journal EXCEPT ![active].from = journal[active].phase,
                                  ![active].phase = Settled,
                                  ![active].outcome = outcome]
    /\ active' = 0
    /\ wait' = FALSE

Goto(place) == pc' = place /\ run' = run

\* End before the new View is installed, Failed or Canceled.
End(stop) == pc' = "ending" /\ run' = [run EXCEPT !.stop = stop]

\* A refused rename, a crash or a broken-off run.
Fault == faults < MaxFaults /\ faults' = faults + 1

\* An error leaves the journal unsettled until the next start.
BreakOff ==
    /\ pc' = "stopped"
    /\ run' = NoRun
    /\ mode' = "open"

-----------------------------------------------------------------------------
(* The sheet and the reservation. *)

\* `check` and `prepare_tree`: every blocker that depends on this state, then
\* an empty View (previous)/ is removed and View/'s identity read.
CheckSheet(c) ==
    /\ mode = "open"
    /\ ~prep[c].open
    /\ active = 0
    /\ \A f \in Files : leftover[f].review # "pending"
    /\ Present("building") => dir["building"].id \in FailedBuildings
    /\ InState("installed") = {} => ~Present("view")
    /\ prep' = [prep EXCEPT ![c] =
          [open |-> TRUE, rev |-> rev, installed |-> InState("installed"),
           view |-> dir["view"].id, gone |-> HoldsNothing("previous"),
           missing |-> {f \in Files : leftover[f].review = "kept"
                                      /\ f \notin dir["previous"].files}]]
    /\ dir' = [dir EXCEPT !["previous"] = Emptied(@)]
    /\ UNCHANGED <<kept, trash, records, status, held, rev, mode, pc, run, rv, faults>>

\* The catalog still is what the sheet `s` was reviewed against.
SheetHolds(s) ==
    /\ rev = s.rev
    /\ InState("installed") = s.installed
    /\ active = 0
    /\ \A f \in Files : leftover[f].review # "pending"

\* `reserve`, in one write transaction, and the claim on the run.
Reserve(c) ==
    /\ mode = "open"
    /\ "overlap" \in World \/ rv.at = "none"
    /\ prep[c].open
    /\ SheetHolds(prep[c])
    /\ \E g \in Gens :
          /\ \A h \in Gens : manifest[h] = "none" <=> h >= g
          /\ active' = g
          /\ manifest' = [(IF prep[c].gone THEN PreviousRetired ELSE manifest)
                             EXCEPT ![g] = "building"]
          /\ journal' = [journal EXCEPT ![g] =
                [phase |-> Reserved, from |-> Unwritten, outcome |-> "none",
                 view |-> prep[c].view, building |-> Absent]]
    /\ leftover' = IF prep[c].gone THEN KeptMoved(Files) ELSE leftover
    /\ foreign' = [f \in Files |-> "none"]
    /\ ticked' = {}
    /\ fclaim' = {}
    /\ run' = [NoRun EXCEPT !.rev = prep[c].rev, !.missing = prep[c].missing]
    /\ pc' = "reserved"
    /\ prep' = [prep EXCEPT ![c] = NoSheet]
    /\ UNCHANGED <<disk, kclaim, wait, held, rev, mode, rv, faults>>

\* The reservation is refused, or the sheet closed.
CloseSheet(c) ==
    /\ prep[c].open
    /\ prep' = [prep EXCEPT ![c] = NoSheet]
    /\ UNCHANGED <<disk, records, status, held, rev, mode, pc, run, rv, faults>>

\* `cancel_apply` reaches a run of this process.
CancelApply ==
    /\ mode = "open"
    /\ pc \in RunPlaces
    /\ run' = [run EXCEPT !.cancel = TRUE]
    /\ UNCHANGED <<disk, records, status, others, mode, pc>>

-----------------------------------------------------------------------------
(* The build. *)

\* variant: once Apply waited, what it read before it stands.
StillReservedBefore == run.waited \/ rev = run.rev
\* `still_reserved`: the catalog, read now, holds what this Apply reserved.
StillReserved == rev = run.rev

\* What the reservation left is read again; an edit in between ends it.
Reread ==
    /\ pc = "reserved"
    /\ IF StillReserved THEN Goto("reread") ELSE End("failed")
    /\ UNCHANGED <<disk, records, status, others, mode>>

\* `snapshot_sources`: each original still is the one its basis recorded.
VerifySources ==
    /\ pc = "reread"
    /\ \/ Advance(SourcesVerified) /\ Goto("sources")
       \/ End("failed") /\ UNCHANGED <<journal, wait>>
    /\ UNCHANGED <<disk, records, active, others, mode>>

\* `make_building`: an earlier Apply's folder goes first, if all it holds is
\* proven PlateVault's own; what isn't stays and fails Apply.
MakeBuilding ==
    /\ pc = "sources"
    /\ \E unproven \in SUBSET {Entry} :
         LET stays == dir["building"].files \ ({Entry} \ unproven)
         IN IF stays = {}
              THEN /\ dir' = [dir EXCEPT !["building"] = [id |-> active, files |-> {}]]
                   /\ run' = [run EXCEPT !.made = TRUE]
                   /\ pc' = "made"
              ELSE /\ dir' = [dir EXCEPT !["building"].files = stays]
                   /\ End("failed")
    /\ UNCHANGED <<kept, trash, records, status, others, mode>>

RecordBuilding ==
    /\ pc = "made"
    /\ journal' = [journal EXCEPT ![active].phase = Building,
                                  ![active].building = dir["building"].id]
    /\ wait' = FALSE
    /\ Goto("building")
    /\ UNCHANGED <<disk, records, active, others, mode>>

\* Every entry is placed, one fails, or Cancel is seen before one.
Place ==
    /\ pc = "building"
    /\ \/ /\ ~run.cancel
          /\ dir' = [dir EXCEPT !["building"].files = @ \cup {Entry}]
          /\ Goto("built")
       \/ /\ \E made \in SUBSET {Entry} :
                dir' = [dir EXCEPT !["building"].files = @ \cup made]
          /\ \/ run.cancel /\ End("canceled")
             \/ End("failed")
    /\ UNCHANGED <<kept, trash, records, status, others, mode>>

\* `verify_built`, `foreign_inventory` and `record_apply_build`.
VerifyBuild ==
    /\ pc = "built"
    /\ \/ /\ LET listed == IF InState("installed") = {} THEN {}
                           ELSE dir["view"].files \ {Entry}
             IN /\ foreign' = [f \in Files |-> IF f \in listed THEN "pending" ELSE "none"]
                /\ ticked' \in SUBSET listed
          /\ Advance(BuildVerified)
          /\ Goto("verified")
       \/ End("failed") /\ UNCHANGED <<foreign, ticked, journal, wait>>
    /\ UNCHANGED <<disk, manifest, leftover, fclaim, kclaim, active, others, mode>>

-----------------------------------------------------------------------------
(* The swap. *)

\* `still_reserved`, the last poll of Cancel before any folder moves, and
\* the listing of what View (previous)/ holds, which may be unreadable.
EnterSwap ==
    /\ pc = "verified"
    /\ \/ End("failed")
       \/ StillReserved /\ run.cancel /\ End("canceled")
       \/ /\ StillReserved
          /\ ~run.cancel
          /\ pc' = "keeping"
          /\ run' = [run EXCEPT !.todo = dir["previous"].files]
    /\ UNCHANGED <<disk, records, status, others, mode>>

\* `claim_kept_move`: the next kept name is claimed before the move starts.
ClaimKept(f) ==
    /\ pc = "keeping"
    /\ f \in run.todo
    /\ f \in dir["previous"].files
    /\ kclaim' = [kclaim EXCEPT ![f] = kept[f] + 1]
    /\ run' = [run EXCEPT !.at = f]
    /\ pc' = "claimed"
    /\ UNCHANGED <<disk, manifest, leftover, foreign, ticked, fclaim, status, others, mode>>

\* `prepare_kept` finds the file gone, or can't ready it.
SkipKept(f) ==
    /\ pc = "keeping"
    /\ f \in run.todo
    /\ \E missing \in BOOLEAN :
          /\ missing <=> f \notin dir["previous"].files
          /\ run' = [run EXCEPT !.todo = @ \ {f}, !.keptFailed = @ \/ ~missing]
          /\ leftover' = IF missing THEN KeptMoved({f}) ELSE leftover
    /\ UNCHANGED <<disk, manifest, foreign, ticked, fclaim, kclaim, status, others, mode, pc>>

\* `move_one_kept`: moved, which reading it back may fail to prove; refused;
\* or gone before it could move.
MoveKept ==
    /\ pc = "claimed"
    /\ pc' = "recording"
    /\ \/ /\ run.at \in dir["previous"].files
          /\ dir' = [dir EXCEPT !["previous"].files = @ \ {run.at}]
          /\ kept' = [kept EXCEPT ![run.at] = @ + 1]
          /\ \E proven \in BOOLEAN :
                run' = [run EXCEPT !.left = TRUE, !.keptFailed = @ \/ ~proven]
       \/ /\ run.at \in dir["previous"].files
          /\ run' = [run EXCEPT !.left = FALSE, !.keptFailed = TRUE]
          /\ UNCHANGED <<dir, kept>>
       \/ /\ run.at \notin dir["previous"].files
          /\ run' = [run EXCEPT !.left = TRUE]
          /\ UNCHANGED <<dir, kept>>
    /\ UNCHANGED <<trash, records, status, others, mode>>

\* variant: a file that couldn't move is recorded Moved too.
RecordKeptAlways ==
    /\ pc = "recording"
    /\ kclaim' = [kclaim EXCEPT ![run.at] = 0]
    /\ leftover' = KeptMoved({run.at})
    /\ run' = [run EXCEPT !.todo = @ \ {run.at}]
    /\ pc' = "keeping"
    /\ UNCHANGED <<disk, manifest, foreign, ticked, fclaim, status, others, mode>>

\* `record_kept_move`: the claim goes, and what left reads Moved.
RecordKept ==
    /\ pc = "recording"
    /\ kclaim' = [kclaim EXCEPT ![run.at] = 0]
    /\ leftover' = IF run.left THEN KeptMoved({run.at}) ELSE leftover
    /\ run' = [run EXCEPT !.todo = @ \ {run.at}]
    /\ pc' = "keeping"
    /\ UNCHANGED <<disk, manifest, foreign, ticked, fclaim, status, others, mode>>

\* The kept files the sheet found gone read Moved too.
RecordMissing ==
    /\ pc = "keeping"
    /\ run.todo = {}
    /\ leftover' = KeptMoved(run.missing)
    /\ Goto("clearing")
    /\ UNCHANGED <<disk, manifest, foreign, ticked, fclaim, kclaim, status, others, mode>>

\* `clear_previous`; a kept file that couldn't move then fails Apply.
ClearPrevious ==
    /\ pc = "clearing"
    /\ dir' = [dir EXCEPT !["previous"] = Emptied(@)]
    /\ IF run.keptFailed THEN End("failed")
       ELSE Goto(IF HoldsNothing("previous") THEN "retirePrevious" ELSE "way")
    /\ UNCHANGED <<kept, trash, records, status, others, mode>>

RetirePrevious ==
    /\ pc = "retirePrevious"
    /\ manifest' = PreviousRetired
    /\ Goto("way")
    /\ UNCHANGED <<disk, leftover, foreign, ticked, fclaim, kclaim, status, others, mode>>

\* `make_way` without a current View, `swap_ready` with one.
CheckSwap ==
    /\ pc = "way"
    /\ LET old   == Now.view # Absent
           ready == ~Present("previous") /\ (old => dir["view"].id = Now.view)
       IN IF ready THEN Goto(IF old THEN "aside" ELSE "install") ELSE End("failed")
    /\ UNCHANGED <<disk, records, status, others, mode>>

\* `move_old_view_aside`, at once or at a poll of the wait for a tool.
MoveAside ==
    /\ pc \in {"aside", "waiting"}
    /\ ~held
    /\ CanRename("view", "previous")
    /\ dir' = Renamed("view", "previous")
    /\ Goto("asideDone")
    /\ UNCHANGED <<kept, trash, records, status, others, mode>>

\* The OS refuses the move for a reason that isn't a held file.
AsideFails ==
    /\ pc \in {"aside", "waiting"}
    /\ ~(held /\ Present("view"))
    /\ End("failed")
    /\ UNCHANGED <<disk, records, status, others, mode>>

\* A tool holds a file: the journal, still at BuildVerified, records the wait.
StartWait ==
    /\ pc = "aside"
    /\ held
    /\ Present("view")
    /\ wait' = TRUE
    /\ run' = [run EXCEPT !.waited = TRUE]
    /\ pc' = "waiting"
    /\ UNCHANGED <<disk, records, journal, active, others, mode>>

\* variant: Cancel is polled only once the file is released.
CancelReleased ==
    /\ pc = "waiting"
    /\ run.cancel /\ ~held
    /\ End("canceled")
    /\ UNCHANGED <<disk, records, status, others, mode>>

\* Cancel while waiting: nothing moved.
CancelWait ==
    /\ pc = "waiting"
    /\ run.cancel
    /\ End("canceled")
    /\ UNCHANGED <<disk, records, status, others, mode>>

\* The phase is recorded once the old View is aside.
RecordAside ==
    /\ pc = "asideDone"
    /\ IF run.waited THEN Advance(WaitingForRelease) /\ Goto("afterWait")
                     ELSE Advance(OldMoved) /\ Goto("install")
    /\ UNCHANGED <<disk, records, active, others, mode>>

\* `after_wait`: the catalog is read once more.
AfterWait ==
    /\ pc = "afterWait"
    /\ IF StillReserved THEN Advance(OldMoved) /\ Goto("install")
                        ELSE Goto("restore") /\ UNCHANGED <<journal, wait>>
    /\ UNCHANGED <<disk, records, active, others, mode>>

\* The new View is renamed to its name.
Install ==
    /\ pc = "install"
    /\ CanRename("building", "view")
    /\ dir' = Renamed("building", "view")
    /\ Goto("placed")
    /\ UNCHANGED <<kept, trash, records, status, others, mode>>

InstallFails ==
    /\ pc = "install"
    /\ IF Now.view # Absent THEN Goto("restore") ELSE End("failed")
    /\ UNCHANGED <<disk, records, status, others, mode>>

\* `restore_old_view`
Restore ==
    /\ pc = "restore"
    /\ CanRename("previous", "view")
    /\ dir' = Renamed("previous", "view")
    /\ End("failed")
    /\ UNCHANGED <<kept, trash, records, status, others, mode>>

\* Restoring fails as well: the next start recovers.
RestoreFails ==
    /\ pc = "restore"
    /\ IF CanRename("previous", "view") THEN Fault ELSE UNCHANGED faults
    /\ BreakOff
    /\ UNCHANGED <<disk, records, status, held, rev, prep, rv>>

RecordInstalled ==
    /\ pc = "placed"
    /\ Advance(NewInstalled)
    /\ Goto("installed")
    /\ UNCHANGED <<disk, records, active, others, mode>>

-----------------------------------------------------------------------------
(* From NewInstalled on: `finish_installed`. *)

\* variant: the old manifest stays installed.
CommittedBeside == [manifest EXCEPT ![active] = "installed"]
\* The installed manifest becomes previous, this one installed.
Committed ==
    [g \in Gens |-> CASE g = active -> "installed"
                      [] g # active /\ manifest[g] = "installed" -> "previous"
                      [] OTHER -> manifest[g]]

\* `commit_apply`; the schema takes one previous manifest at a time.
Commit ==
    /\ pc = "installed"
    /\ InState("installed") = {} \/ InState("previous") = {}
    /\ manifest' = Committed
    /\ Advance(ManifestCommitted)
    /\ Goto("committed")
    /\ UNCHANGED <<disk, leftover, foreign, ticked, fclaim, kclaim, active, others, mode>>

CommitRefused ==
    /\ pc = "installed"
    /\ InState("installed") # {} /\ InState("previous") # {}
    /\ BreakOff
    /\ UNCHANGED <<disk, records, status, others>>

\* The inputs are read again, with the manifest now previous.
ReadInstalled ==
    /\ pc = "committed"
    /\ run' = [run EXCEPT !.old = InState("previous") # {}]
    /\ pc' = IF Now.phase < ForeignTransferred THEN "foreign" ELSE "transferred"
    /\ UNCHANGED <<disk, records, status, others, mode>>

\* A foreign item that doesn't move: unticked it stays, and a name already
\* taken is never claimed.
LeaveForeign(f) ==
    /\ pc = "foreign"
    /\ foreign[f] = "pending"
    /\ f \in ticked => f \notin fclaim /\ f \in dir["view"].files
    /\ foreign' = [foreign EXCEPT ![f] = IF f \in ticked THEN "failed" ELSE "stayed"]
    /\ UNCHANGED <<disk, manifest, leftover, ticked, fclaim, kclaim, status, others, mode, pc, run>>

\* `claim_apply_foreign`, unless an earlier attempt claimed it.
ClaimForeign(f) ==
    /\ pc = "foreign"
    /\ foreign[f] = "pending"
    /\ f \in ticked
    /\ f \in fclaim \/ f \notin dir["view"].files
    /\ fclaim' = fclaim \cup {f}
    /\ run' = [run EXCEPT !.at = f, !.resumed = f \in fclaim]
    /\ pc' = "moving"
    /\ UNCHANGED <<disk, manifest, leftover, foreign, ticked, kclaim, status, others, mode>>

\* variant: a claim says nothing of an earlier attempt.
NeverAlreadyMoved(f) == FALSE
\* The interrupted attempt whose claim this one resumes moved it.
AlreadyMoved(f) == run.resumed /\ f \notin dir["previous"].files /\ f \in dir["view"].files

\* `move_foreign`: moved now, found moved by the interrupted attempt whose
\* claim this one resumes, or not moved.
MoveForeign ==
    /\ pc = "moving"
    /\ pc' = "moved"
    /\ LET f == run.at
       IN \/ /\ f \in dir["previous"].files
             /\ Present("view")
             /\ f \notin dir["view"].files
             /\ dir' = [dir EXCEPT !["previous"].files = @ \ {f},
                                   !["view"].files = @ \cup {f}]
             /\ run' = [run EXCEPT !.left = TRUE]
          \/ /\ AlreadyMoved(f)
             /\ run' = [run EXCEPT !.left = TRUE]
             /\ UNCHANGED dir
          \/ /\ ~AlreadyMoved(f)
             /\ run' = [run EXCEPT !.left = FALSE]
             /\ UNCHANGED dir
    /\ UNCHANGED <<kept, trash, records, status, others, mode>>

RecordForeign ==
    /\ pc = "moved"
    /\ foreign' = [foreign EXCEPT ![run.at] = IF run.left THEN "moved" ELSE "failed"]
    /\ Goto("foreign")
    /\ UNCHANGED <<disk, manifest, leftover, ticked, fclaim, kclaim, status, others, mode>>

EndForeign ==
    /\ pc = "foreign"
    /\ \A f \in Files : foreign[f] # "pending"
    /\ Advance(ForeignTransferred)
    /\ Goto("transferred")
    /\ UNCHANGED <<disk, records, active, others, mode>>

\* Nothing to retire: Applied.
SettleFirst ==
    /\ pc = "transferred"
    /\ ~run.old
    /\ manifest' = PreviousRetired
    /\ SettledAs("applied")
    /\ pc' = "idle"
    /\ run' = NoRun
    /\ mode' = "open"
    /\ UNCHANGED <<disk, leftover, foreign, ticked, fclaim, kclaim, others>>

StartRetiring ==
    /\ pc = "transferred"
    /\ run.old
    /\ Advance(RetiringPrevious)
    /\ Goto("retiring")
    /\ UNCHANGED <<disk, records, active, others, mode>>

\* `retire`: the old entries go once proven, everything else is left over.
Retire ==
    /\ pc = "retiring"
    /\ \E unproven \in SUBSET {Entry} :
         LET stays == dir["previous"].files \ ({Entry} \ unproven)
         IN /\ dir' = [dir EXCEPT !["previous"] = Emptied([@ EXCEPT !.files = stays])]
            /\ run' = [run EXCEPT !.todo = stays]
    /\ pc' = "settling"
    /\ UNCHANGED <<kept, trash, records, status, others, mode>>

\* The rows `settle_apply` inserts: a path already reviewed Moved or Trashed
\* is replaced, any other row at that path refuses the write.
Accepted == \A f \in run.todo : leftover[f].review \notin {"pending", "kept"}

Settle ==
    /\ pc = "settling"
    /\ Accepted
    /\ manifest' = IF run.todo = {} THEN PreviousRetired ELSE manifest
    /\ leftover' = [f \in Files |-> IF f \in run.todo
                       THEN [review |-> "pending", in |-> dir["previous"].id] ELSE leftover[f]]
    /\ SettledAs("applied")
    /\ pc' = "idle"
    /\ run' = NoRun
    /\ mode' = "open"
    /\ UNCHANGED <<disk, foreign, ticked, fclaim, kclaim, others>>

SettleRefused ==
    /\ pc = "settling"
    /\ ~Accepted
    /\ BreakOff
    /\ UNCHANGED <<disk, records, status, others>>

-----------------------------------------------------------------------------
(* Ending before the install: `Run::end`. *)

\* A canceled Apply empties the folder it made.
ClearBuilding ==
    /\ pc = "ending"
    /\ run.stop = "canceled"
    /\ run.made
    /\ \E unproven \in SUBSET {Entry} :
         LET stays == dir["building"].files \ ({Entry} \ unproven)
         IN dir' = [dir EXCEPT !["building"] = Emptied([@ EXCEPT !.files = stays])]
    /\ run' = [run EXCEPT !.made = FALSE]
    /\ UNCHANGED <<kept, trash, records, status, others, mode, pc>>

\* `discard_apply`
Discard ==
    /\ pc = "ending"
    /\ run.stop = "canceled" => ~run.made
    /\ manifest' = [manifest EXCEPT ![active] = "discarded"]
    /\ SettledAs(run.stop)
    /\ pc' = "idle"
    /\ run' = NoRun
    /\ mode' = "open"
    /\ UNCHANGED <<disk, leftover, foreign, ticked, fclaim, kclaim, others>>

-----------------------------------------------------------------------------
(* Faults and the next start. *)

\* PlateVault is gone; the disk and the catalog stay as they are.
Down ==
    /\ mode' = "down"
    /\ pc' = "idle"
    /\ run' = NoRun
    /\ prep' = [c \in Callers |-> NoSheet]
    /\ rv' = NoReview
    /\ UNCHANGED <<disk, records, status, held, rev>>

Crash ==
    /\ mode # "down"
    /\ Fault
    /\ Down

\* An error of the catalog or the disk, or a stop at a recorded phase because
\* PlateVault is closing: the run returns, its journal unsettled.
RunBreaksOff ==
    /\ Running
    /\ Fault
    /\ BreakOff
    /\ UNCHANGED <<disk, records, status, held, rev, prep, rv>>

\* The user quits with an Apply broken off.
Quit ==
    /\ pc = "stopped"
    /\ Down
    /\ UNCHANGED faults

\* The library opens: `reconcile` recovers what is unsettled first.
Start ==
    /\ mode = "down"
    /\ IF Unsettled = {}
         THEN mode' = "open" /\ UNCHANGED <<pc, active>>
         ELSE /\ mode' = "opening"
              /\ pc' = "recover"
              /\ active' \in Unsettled
    /\ UNCHANGED <<disk, records, journal, wait, others, run>>

\* `recover_folders` found the new View in place or put it there ("installed"),
\* or the new View never was ("failed").
RecoverAs(verdict) ==
    /\ run' = [NoRun EXCEPT !.stop = verdict]
    /\ pc' = "settleClaims"
    /\ UNCHANGED <<mode, faults>>

Stuck(refused) ==
    /\ IF refused THEN Fault ELSE UNCHANGED faults
    /\ BreakOff

\* variants: the phase is trusted where the folder's identity should be.
NewRecorded == Now.phase >= NewInstalled /\ dir["view"].id = Now.building
OldRecorded == Now.phase >= OldMoved /\ dir["previous"].id = Now.view

\* The folder this Apply built is View/; the one it found there stands aside.
NewInPlace == Now.building # Absent /\ dir["view"].id = Now.building
OldAside   == Now.view # Absent /\ dir["previous"].id = Now.view

RecoverFolders ==
    /\ pc = "recover"
    /\ LET new     == NewInPlace
           built   == Now.building # Absent /\ dir["building"].id = Now.building
           forward == ~Present("view") /\ built
           back    == ~Present("view") /\ OldAside
       IN CASE Now.phase < BuildVerified -> RecoverAs("failed") /\ UNCHANGED dir
            [] Now.phase >= BuildVerified /\ new -> RecoverAs("installed") /\ UNCHANGED dir
            [] Now.phase >= NewInstalled /\ ~new /\ forward ->
                  \/ dir' = Renamed("building", "view") /\ RecoverAs("installed")
                  \/ Stuck(TRUE) /\ UNCHANGED dir
            [] Now.phase >= NewInstalled /\ ~new /\ ~forward -> Stuck(FALSE) /\ UNCHANGED dir
            [] Now.phase \in BuildVerified..OldMoved /\ ~new /\ back ->
                  \/ dir' = Renamed("previous", "view") /\ RecoverAs("failed")
                  \/ Stuck(TRUE) /\ UNCHANGED dir
            [] OTHER -> RecoverAs("failed") /\ UNCHANGED dir
    /\ UNCHANGED <<kept, trash, records, status, held, rev, prep, rv>>

\* The claimed kept name holds the file, which left View (previous)/.
LeftForItsName(f) == kept[f] >= kclaim[f] /\ f \notin dir["previous"].files

\* `settle_kept_claims`: a claimed file that left for its kept name reads
\* Moved; one that stayed, or is gone from disk, keeps its review.
SettleClaim(f) ==
    /\ pc = "settleClaims"
    /\ kclaim[f] > 0
    /\ leftover' = IF LeftForItsName(f) THEN KeptMoved({f}) ELSE leftover
    /\ kclaim' = [kclaim EXCEPT ![f] = 0]
    /\ UNCHANGED <<disk, manifest, foreign, ticked, fclaim, status, others, mode, pc, run>>

Recovered ==
    /\ pc = "settleClaims"
    /\ \A f \in Files : kclaim[f] = 0
    /\ IF run.stop = "failed" THEN Goto("ending") /\ UNCHANGED <<journal, wait>>
       ELSE /\ IF Now.phase < NewInstalled THEN Advance(NewInstalled)
                                           ELSE UNCHANGED <<journal, wait>>
            /\ Goto(IF Now.phase < ManifestCommitted THEN "installed" ELSE "committed")
    /\ UNCHANGED <<disk, records, active, others, mode>>

-----------------------------------------------------------------------------
(* The review of a leftover, which asks no operation to be idle. *)

\* The catalog is read and the review checked against it.
StartReview(f, review) ==
    /\ review \in World
    /\ mode = "open"
    /\ "overlap" \in World \/ active = 0
    /\ rv.at = "none"
    /\ CanBecome(leftover[f].review, review)
    /\ rv' = [at |-> "act", file |-> f, becomes |-> review]
    /\ UNCHANGED <<disk, records, status, held, rev, prep, faults, mode, pc, run>>

\* What the record names still is in View (previous)/, by its identity.
StillThere(f) ==
    /\ f \in dir["previous"].files
    /\ dir["previous"].id = leftover[f].in

\* The file is moved into View/, trashed, or left where it is; a review that
\* can't act returns its error.
ActReview ==
    /\ rv.at = "act"
    /\ LET f == rv.file
       IN \/ /\ rv.becomes = "kept"
             /\ rv' = [rv EXCEPT !.at = "record"]
             /\ UNCHANGED <<dir, trash>>
          \/ /\ rv.becomes = "moved"
             /\ StillThere(f) /\ Present("view") /\ f \notin dir["view"].files
             /\ dir' = [dir EXCEPT !["previous"].files = @ \ {f},
                                   !["view"].files = @ \cup {f}]
             /\ rv' = [rv EXCEPT !.at = "record"]
             /\ UNCHANGED trash
          \/ \* an interrupted review already moved it
             /\ rv.becomes = "moved"
             /\ f \notin dir["previous"].files /\ f \in dir["view"].files
             /\ rv' = [rv EXCEPT !.at = "record"]
             /\ UNCHANGED <<dir, trash>>
          \/ /\ rv.becomes = "trashed"
             /\ StillThere(f)
             /\ dir' = [dir EXCEPT !["previous"].files = @ \ {f}]
             /\ trash' = [trash EXCEPT ![f] = @ + 1]
             /\ rv' = [rv EXCEPT !.at = "record"]
          \/ /\ rv.becomes # "kept"
             /\ rv' = NoReview
             /\ UNCHANGED <<dir, trash>>
    /\ UNCHANGED <<kept, records, status, held, rev, prep, faults, mode, pc, run>>

\* `review_previous_item`, checked against the row once more.
RecordReview ==
    /\ rv.at = "record"
    /\ IF CanBecome(leftover[rv.file].review, rv.becomes)
         THEN /\ leftover' = [leftover EXCEPT ![rv.file].review = rv.becomes]
              /\ rv' = IF rv.becomes = "kept" THEN NoReview ELSE [rv EXCEPT !.at = "clear"]
         ELSE rv' = NoReview /\ UNCHANGED leftover
    /\ UNCHANGED <<disk, manifest, foreign, ticked, fclaim, kclaim, status, held, rev, prep,
                   faults, mode, pc, run>>

\* An emptied View (previous)/ is removed.
ClearReviewed ==
    /\ rv.at = "clear"
    /\ dir' = [dir EXCEPT !["previous"] = Emptied(@)]
    /\ rv' = IF HoldsNothing("previous") THEN [rv EXCEPT !.at = "retire"] ELSE NoReview
    /\ UNCHANGED <<kept, trash, records, status, held, rev, prep, faults, mode, pc, run>>

\* ... and then, in a write of its own, whatever manifest is previous retires.
RetireReviewed ==
    /\ rv.at = "retire"
    /\ manifest' = PreviousRetired
    /\ rv' = NoReview
    /\ UNCHANGED <<disk, leftover, foreign, ticked, fclaim, kclaim, status, held, rev, prep,
                   faults, mode, pc, run>>

-----------------------------------------------------------------------------
(* The outside: catalog edits, tools, and the user's own file manager. *)

\* Desired state, an original or a readiness input changes.
Edit ==
    /\ "edit" \in World
    /\ mode = "open"
    /\ rev < MaxRev
    /\ rev' = rev + 1
    /\ UNCHANGED <<disk, records, status, held, prep, rv, faults, mode, pc, run>>

Hold ==
    /\ "hold" \in World
    /\ ~held
    /\ Present("view")
    /\ held' = TRUE
    /\ UNCHANGED <<disk, records, status, rev, prep, rv, faults, mode, pc, run>>

Release ==
    /\ held
    /\ held' = FALSE
    /\ UNCHANGED <<disk, records, status, rev, prep, rv, faults, mode, pc, run>>

FilesChange(p, files) ==
    /\ dir' = [dir EXCEPT ![p].files = files]
    /\ UNCHANGED <<kept, trash, records, status, others, mode, pc, run>>

\* A tool writes an output into View/.
WriteView(f) ==
    /\ "write" \in World
    /\ Present("view")
    /\ f \notin dir["view"].files
    /\ FilesChange("view", dir["view"].files \cup {f})

\* A tool that followed the folder writes into View (previous)/.
Litter(f) ==
    /\ "litter" \in World
    /\ Present("previous")
    /\ f \notin dir["previous"].files
    /\ FilesChange("previous", dir["previous"].files \cup {f})

\* The user deletes a file of View (previous)/, or the whole folder.
Vanish(f) ==
    /\ "vanish" \in World
    /\ f \in dir["previous"].files
    /\ FilesChange("previous", dir["previous"].files \ {f})

DeletePrevious ==
    /\ "vanish" \in World
    /\ Present("previous")
    /\ dir' = [dir EXCEPT !["previous"] = NoFolder]
    /\ UNCHANGED <<kept, trash, records, status, others, mode, pc, run>>

\* Something else takes the name View/, or View/ is removed.
Occupy ==
    /\ "occupy" \in World
    /\ ~Present("view")
    /\ dir' = [dir EXCEPT !["view"] = [id |-> Alien, files |-> {}]]
    /\ UNCHANGED <<kept, trash, records, status, others, mode, pc, run>>

Remove ==
    /\ "remove" \in World
    /\ Present("view")
    /\ ~held
    /\ dir' = [dir EXCEPT !["view"] = NoFolder]
    /\ UNCHANGED <<kept, trash, records, status, others, mode, pc, run>>

-----------------------------------------------------------------------------

UserDeletes == Remove \/ DeletePrevious \/ \E f \in Files : Vanish(f)

BuildStep ==
    \/ Reread \/ VerifySources \/ MakeBuilding \/ RecordBuilding \/ Place \/ VerifyBuild

SwapStep ==
    \/ EnterSwap
    \/ \E f \in Files : ClaimKept(f) \/ SkipKept(f)
    \/ MoveKept \/ RecordKept \/ RecordMissing \/ ClearPrevious \/ RetirePrevious
    \/ CheckSwap \/ MoveAside \/ AsideFails \/ StartWait \/ CancelWait \/ RecordAside
    \/ AfterWait \/ Install \/ InstallFails \/ Restore \/ RestoreFails \/ RecordInstalled

FinishStep ==
    \/ Commit \/ CommitRefused \/ ReadInstalled
    \/ \E f \in Files : LeaveForeign(f) \/ ClaimForeign(f)
    \/ MoveForeign \/ RecordForeign \/ EndForeign
    \/ SettleFirst \/ StartRetiring \/ Retire \/ Settle \/ SettleRefused

EndStep == ClearBuilding \/ Discard

RecoveryStep ==
    \/ Start \/ RecoverFolders \/ Recovered
    \/ \E f \in Files : SettleClaim(f)

\* What the one task that runs or recovers an Apply does by itself.
RunStep == BuildStep \/ SwapStep \/ FinishStep \/ EndStep \/ RecoveryStep

ReviewStep == ActReview \/ RecordReview \/ ClearReviewed \/ RetireReviewed

\* What someone asks PlateVault for.
Request ==
    \/ \E c \in Callers : CheckSheet(c) \/ Reserve(c) \/ CloseSheet(c)
    \/ \E f \in Files, review \in {"kept", "moved", "trashed"} : StartReview(f, review)
    \/ CancelApply

Failure == Crash \/ RunBreaksOff \/ Quit

Outside ==
    \/ Edit \/ Hold \/ Release \/ Occupy
    \/ \E f \in Tool : WriteView(f) \/ Litter(f)
    \/ UserDeletes

Next == RunStep \/ ReviewStep \/ Request \/ Failure \/ Outside

Spec == Init /\ [][Next]_vars

(***************************************************************************)
(* Fairness.  A run is a task of the process, so it goes on (WF); a run    *)
(* broken off is followed by another start of PlateVault (WF of Quit; the  *)
(* start itself is a step of the run).  Nothing is assumed of the tools:   *)
(* one may hold its file for ever.                                         *)
(***************************************************************************)
FairSpec == Spec /\ WF_vars(RunStep) /\ WF_vars(Quit)

-----------------------------------------------------------------------------
(* What holds. *)

DiskOK ==
    /\ dir \in [Places -> Folder]
    /\ kept \in [Files -> Nat]
    /\ trash \in [Files -> Nat]

RecordsOK ==
    /\ manifest \in [Gens -> ManifestStates]
    /\ leftover \in [Files -> [review : Reviews, in : Identities]]
    /\ foreign \in [Files -> ForeignStates]
    /\ ticked \subseteq Files
    /\ fclaim \subseteq Files
    /\ kclaim \in [Files -> Nat]

StatusOK ==
    /\ journal \in [Gens -> Journal]
    /\ active \in 0..MaxGen
    /\ wait \in BOOLEAN

OthersOK ==
    /\ held \in BOOLEAN
    /\ rev \in 0..MaxRev
    /\ prep \in [Callers -> Sheet]
    /\ rv \in Review
    /\ faults \in 0..MaxFaults

RunOK ==
    /\ mode \in {"down", "opening", "open"}
    /\ pc \in RunPlaces \cup {"idle", "stopped"}
    /\ run \in Run

\* Type invariant: the disk, the catalog's records and journals, the outside
\* and the process hold values of their kinds.
TypeOK == DiskOK /\ RecordsOK /\ StatusOK /\ OthersOK /\ RunOK

\* `outcome_fits`: Applied once the manifest is committed, Failed or Canceled
\* only before the new View is installed.
OutcomeFits(j) ==
    CASE j.outcome = "none"    -> j.phase < Settled
      [] j.outcome = "applied" -> j.phase = Settled /\ j.from >= ManifestCommitted
      [] OTHER                 -> j.phase = Settled /\ j.from \in Reserved..OldMoved

\* The manifest's state is the one its journal's phase implies.
ManifestFits(g) ==
    /\ manifest[g] = "none" <=> journal[g].phase = Unwritten
    /\ manifest[g] = "building" <=> journal[g].phase \in Reserved..NewInstalled
    /\ manifest[g] = "discarded" <=> journal[g].outcome \in {"failed", "canceled"}

AtMostOne(S) == \A g, h \in S : g = h

\* Safety.  The journal, the manifests and the Project's reservation, which
\* different writes change, tell one story in every state, crashes included:
\* an Apply is unsettled exactly while it holds the reservation, it settles
\* with an outcome its phase allows (`outcome_fits`), its manifest follows
\* its phase, and no two Views are installed or previous.
Agreement ==
    /\ Unsettled = IF active = 0 THEN {} ELSE {active}
    /\ \A g \in Gens : OutcomeFits(journal[g]) /\ ManifestFits(g)
    /\ AtMostOne(InState("installed")) /\ AtMostOne(InState("previous"))
    /\ wait => active # 0 /\ Now.phase = BuildVerified

\* Safety (PREP-FR-18).  In every state, between any two renames too, the
\* folder of the installed View stands at View/, or at View (previous)/ with
\* the journal of a running Apply naming it so that a start can put it back.
\* So an Apply that ended Failed or Canceled, in this process or after any
\* crash, left the old View, and before the first one View/ is absent.
ViewRecoverable ==
    /\ \A g \in InState("installed") :
          \/ dir["view"].id = g
          \/ active # 0 /\ Now.view = g /\ dir["previous"].id = g
    /\ active = 0 /\ InState("installed") = {} => ~Present("view")

Copies(f) ==
    LET In(p) == IF f \in dir[p].files THEN 1 ELSE 0
    IN In("view") + In("building") + In("previous") + kept[f] + trash[f]

\* Action property.  No step of PlateVault destroys a file a tool or the user
\* wrote: each rename, removal, retirement, move to View (kept)/ and review
\* leaves as many copies as before.  Only the outside removes one.
NoFileLost == [][\/ UserDeletes
                 \/ \A f \in Tool : Copies(f)' >= Copies(f)]_vars

\* Safety (PREP-FR-19, D-W110).  Once no Apply runs and no review is half
\* done, what View (previous)/ still holds is what the catalog asks the user to
\* review or was told to keep, left from that very folder.  And no claim on a
\* kept file's move is left and no file that left for View (kept)/ still reads
\* kept, also across a crash between the claim, the move and the record.  (A
\* review that a crash cut off is the only other way a kept file leaves.)
LeftoversRecorded ==
    active = 0 =>
        /\ rv.at = "none" =>
              \A f \in dir["previous"].files :
                  /\ leftover[f].review \in {"pending", "kept"}
                  /\ leftover[f].in = dir["previous"].id
        /\ \A f \in Files :
              /\ kclaim[f] = 0
              /\ leftover[f].review = "kept" =>
                    f \in dir["previous"].files \cup dir["view"].files \/ trash[f] > 0

\* Safety.  From the install on the catalog refuses no write of the Apply:
\* the schema's one previous View is free at the commit, and no leftover row
\* stands at a path the settling inserts.
NeverRefused ==
    /\ pc = "installed" => InState("installed") = {} \/ InState("previous") = {}
    /\ pc = "settling" => Accepted

\* Safety.  What the journal says of a ticked file is where the file is: a
\* moved one in the new View, one that stayed or failed still in the old one,
\* also when the move and its record are two sides of a crash.
ForeignAccounted ==
    active # 0 /\ Now.phase >= ManifestCommitted =>
        \A f \in Files :
            /\ foreign[f] = "moved" => f \in dir["view"].files
            /\ foreign[f] \in {"stayed", "failed"} /\ pc \in {"foreign", "transferred"}
                  => f \in dir["previous"].files

\* Safety across an Apply.  An edit committed while Apply waits for a tool, for
\* however long, is never built over: that Apply does not end Applied, whether
\* it reads the catalog once more after the wait (`after_wait`), is canceled,
\* or stops anywhere in between and is recovered at a later start.
EditInWaitKeeps ==
    [](\A g \in Gens :
          active = g /\ wait /\ pc \in RunPlaces /\ rev # run.rev
             => [](journal[g].outcome # "applied"))

\* Liveness.  Every Apply ends, or stands waiting for a tool with no Cancel
\* asked for: whatever fault meets it, the next start settles it and releases
\* the Project, and Cancel ends the wait for a tool that never lets go.
EveryApplyEnds == active # 0 ~> active = 0 \/ (pc = "waiting" /\ ~run.cancel)

\* Liveness.  A View once renamed into place ends Applied, whatever crash
\* falls between the rename and the last write.
InstalledEndsApplied ==
    \A g \in Gens : journal[g].phase \in NewInstalled..RetiringPrevious
                       ~> journal[g].outcome = "applied"

(***************************************************************************)
(* Apply implements AtomicApply.  The View a tool is given is View/; while *)
(* that name is empty it is the old one, which stands aside and which a    *)
(* restore or the next start brings back unless the new one arrives first. *)
(***************************************************************************)
CurrentView ==
    IF Present("view") THEN dir["view"].id
    ELSE IF active # 0 /\ Now.view # Absent THEN dir["previous"].id ELSE Absent

Promise == INSTANCE AtomicApply WITH
    None    <- Absent,
    current <- CurrentView,
    busy    <- active,
    result  <- [g \in Gens |-> journal[g].outcome]

\* Refinement.  Every step of Apply, recovery and review is one of the
\* promise's or none: View/ is switched once per Apply, whole, and an outcome
\* is Applied exactly when it was.
ImplementsPromise == Promise!Spec

-----------------------------------------------------------------------------
(* What the code's words say of it, and the runs refute. *)

\* View (building)/ "is kept for Retry" (PREP-AC-05), which clears it first
\* (`make_building`): the next sheet recognises what a failed Apply made.
FailedBuildingRecognised ==
    active = 0 => \A g \in Gens :
        journal[g].outcome = "failed" /\ dir["building"].id = g => g \in FailedBuildings

\* "Canceled and Failed keep the old View" (ApplyOutcome).
FailedKeepsOldView ==
    active = 0 => \A g \in Gens :
        journal[g].outcome = "failed" /\ journal[g].view # Absent
            => dir["previous"].id # journal[g].view
=============================================================================
