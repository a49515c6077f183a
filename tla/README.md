# A verification development of PlateVault

PlateVault organises an astrophotographer's captures: it catalogs frames,
groups them into Projects, prepares for each Project a folder of inputs (the
View) that a processing tool works in, imports from devices, copies a tool's
results to Output, and cleans up, trashes or archives what a finished Project
leaves. It promises never to lose a file the user or a tool wrote. What makes
that hard is that two stores, the catalog (SQLite) and the disk, change in
separate steps, while tools and the user's file manager change the disk as
well and the process may stop anywhere.

The modules here model that part of the program: operations that change
several files and several records, their journals, and the recovery of each at
the next start. They are read beside the source; every definition that stands
for code is listed with its lines in `PROJECT.json`, under `map`.

## Running

    tlc -workers 2 -config ViewApplyTools.cfg MCViewApply
    tlc -workers 2 -config StorageTransfer.cfg MCStorageJournal
    tlc -workers 2 -config Archive.cfg MCArchive
    tlapm StorageJournalProofs.tla

Every run is listed in `PROJECT.json` with its module and configuration. The
configurations it does not list are named under *Further configurations* below
and run the same way.

## The system

The repository holds two backends. The rebuilt one (`platevault-core`,
`platevault-model`, `persistence/library`) carries the current product; the
older `app/*`, `fs/*` and `persistence/{core,plans,...}` crates serve what has
not moved yet. Both sit under one desktop shell.

| Part | State it keeps | Operations | What is hard | Correct when |
|---|---|---|---|---|
| **Apply / View** (`apply.rs`, `project_view.rs`) | View manifests, an Apply journal with a phase, foreign items, leftovers, claims; the folders `View/`, `View (building)/`, `View (previous)/`, `View (kept)/` | check, reserve, build, swap, finish, end, recover, review a leftover, cancel | crash between rename and record; a tool holding a file; files the user deletes; reviews beside an Apply | one installed View, whole; no foreign file lost; every Apply ends; leftovers recorded |
| **Project operations and lifecycle** (`project_operations.rs`, `project_wrap_up.rs`) | one active operation per Project; Open, Closing, Closed, Archived | reserve, settle, close, reopen | two tasks claim one Project; a close during an operation | one operation at a time; states follow operations |
| **Clean up, Trash** (`wrap_up/{clean_up,trash}.rs`) | the reviewed rows, entries recorded removed, per item an outcome | check, run, skip, recover, reopen | a sheet older than the View it is about; a command and the recovery of a start on one journal | what is recorded removed or trashed is gone; a step settles |
| **Archive, Close** (`wrap_up/archive.rs`) | per frame a move, its record, the links of kept Views | close, archive sessions, run, resume | three stores (record, link, file) changed one after the other; the user at the links meanwhile | an original leaves only once nothing reads it; a Project is locked with what it applied |
| **Custody** (`custody.rs`, `custody/*.rs`, `persistence/library/storage.rs`) | per operation a kind and a state; per item a phase, an outcome and the copy written; partial copies on the disk | record, run one step or all, resume | a crash at any step of an install or after a request to the OS Trash; volumes without rename or links; files edited between check and use | a source leaves only over a whole copy; an outcome is what happened; nothing of the user's is replaced; every operation settles |
| **Copy to Output, Output watch** (`project_output*.rs`) | rows of the Output step, the copies under way, the watch's memory | copy, resume, pass, record | a pass older than the copy it meets; edits between verification and listing | a listed copy stays listed as what was verified; a file settles once it holds still |
| **Import and devices** (`import*`) | an import with its items, what landed, what is indexed | preview, review, start, run, retry | folders unmounted in the middle, checks that come back late, crash between two journals | every file lands once; a source leaves only for its copy; the user's choice stands |
| **Inventory and identity** (`inventory*`) | file identities | scan, match | a file moved or replaced between look and use | an asset names the bytes it was cataloged for |
| **New captures, location watch** (`new_captures.rs`, `eject.rs`, `platevault-eject-windows`) | followed, offline and left locations, calls let go of, named roots; the window's registrations; counts | sweep, change, release, reattach, gone, waited out, rescan; register | a removal of a volume beside remaps and calls that close late; two lists of roots, at discovery and at the window, that lag | nothing is held on a volume it answered for; a location ends followed |
| **Storage** (`storage*.rs`) | locations and their volumes | connect, relocate | volume away or replaced | paths resolve to the volume they were recorded on |
| **Desktop services** (`desktop/services`) | jobs, notifications, updates | start, cancel, finish | a late finish after cancel | one outcome per job |
| **Legacy plans and executor** (`app/core`, `fs/executor`, `persistence/plans`) | plans with items | approve, apply, resume, retry | partial failure, pause and cancel | items and plan state agree |
| **Catalog, planning, statistics, UI** | rows | queries and single writes | little: one transaction each | the schema's constraints |

How they interact: every operation on a Project's folder (Apply, Copy to
Output, Clean up, Trash, Archive) reserves the Project in
`project_operations`, works on the disk in steps that its own journal records,
and settles journal and reservation in one transaction. Trash, Archive, Copy to
Output and Import move and copy files only through custody's journal, by
recording a storage operation and running it. `Library::open` calls
each part's `reconcile` before it serves anything. Watches and reviews run
beside the operations and share the disk with them.

## The plan

Done, in this order:

1. `ViewApply`, `AtomicApply`, `MCViewApply`, `ViewApplyProofs`: Apply; the
   every safety property and the refinement proved.
2. `StorageJournal`, `AtomicCustody`, `MCStorageJournal`,
   `StorageJournalProofs`: custody, every safety property and the refinement
   proved.
3. `ProjectLifecycle`, `ProjectLifecycleProofs`: what a Project's operations
   promise, proved. `WrapUp`, `MCWrapUp`, `WrapUpProofs`: Clean up, Trash and
   Close with their recovery, which implement it; every safety property and the
   refinement proved.
4. `Archive`, `AtomicArchive`, `MCArchive`, `ArchiveProofs`: record, links and
   original of each frame; every safety property and the refinement proved.
5. `Import`, `MCImport`, `ImportProofs`: previews, the queue of storage
   operations, folders that come and go; every safety property proved.
6. `Output`, `MCOutput`, `OutputProofs`: Copy to Output beside the watch.
7. `CaptureWatch`, `MCCaptureWatch`, `CaptureWatchProofs`: who holds a capture
   folder while its volume is being removed; `NamesNothingNew` and `HeldClear`
   proved.

Left, most valuable first:

8. `CaptureCount`: the counts of a followed location, from walks, live events
   and the catalog's paths, beside `CaptureWatch`.
9. `PlanExecutor`: the older backend's plans, retry queue and reconciliation.

Theorems left: none of the safety properties the runs check. With each module of
the plan come its own.

## What is modelled

### `ViewApply`: one Project's Apply

State in three groups with different lives. The **disk**: the folder standing
at each of the three View names, as the generation of the Apply that made it
(`Absent`, `Alien` for someone else's) and the files in it; how many files went
to `View (kept)/` and the Trash. The **catalog**: manifest state and journal of
each generation, the Project's active operation, the review of each leftover
path, the active Apply's foreign items, ticks and claims, the claim of a kept
file's name, the recorded wait. The **process**: where the one run stands
(`pc`), what it holds in memory (`run`), the sheets checked and not yet
reserved (`prep`) and the review in flight (`rv`). A crash clears the last
group only.

Files of a View are the entries PlateVault placed, which live and die together
(`Entry`), and paths a tool or the user writes (`Tool`).

Actions follow the code one to one between two points at which another actor
can act: each await that ends in a write or a file operation is a step.

| Code | Actions |
|---|---|
| `folder_blockers`, `kept_missing`, `prepare_tree` | `CheckSheet` |
| `reserve` (persistence), refusal | `Reserve`, `CloseSheet` |
| `Run::build` | `Reread`, `VerifySources`, `MakeBuilding`, `RecordBuilding`, `Place`, `VerifyBuild` |
| `Run::swap`, `make_way`, `move_kept` | `EnterSwap`, `ClaimKept`, `SkipKept`, `MoveKept`, `RecordKept`, `RecordMissing`, `ClearPrevious`, `RetirePrevious`, `CheckSwap` |
| `set_old_view_aside`, `wait_aside`, `after_wait`, `still_reserved` | `StillReserved`, `MoveAside`, `AsideFails`, `StartWait`, `CancelWait`, `RecordAside`, `AfterWait` |
| the two renames and the restore | `Install`, `InstallFails`, `Restore`, `RestoreFails`, `RecordInstalled` |
| `finish_installed`, `move_foreign_items` | `Commit` … `SettleRefused` |
| `Run::end` | `ClearBuilding`, `Discard` |
| `reconcile`, `recover`, `recover_folders`, `settle_kept_claims` | `Start`, `RecoverFolders`, `SettleClaim`, `Recovered` |
| `review_view_leftover` | `StartReview`, `ActReview`, `RecordReview`, `ClearReviewed`, `RetireReviewed` |

Errors the code returns with `?` are `RunBreaksOff`: the journal stays
unsettled until the next start. The stop at a recorded phase because
PlateVault is closing (`interrupted`) is the same step. `WorldEvents` names
what the outside may do; an instance allows a subset.

Phases are recorded *after* the effect they name for `OldMoved` and
`NewInstalled` (the comment on `ApplyPhase`, project_view.rs:403, says before),
which is why recovery reads folder identities; the model follows the code.

Abstracted: the plan of names, originals and patched copies (one `Entry`, and
`VerifySources` may fail); evidence of a leftover, by the folder it was left
in (`leftover.in`); desired state, basis and readiness, by a revision; the
report; progress. Left out: the hidden copies that a volume without a
no-replace rename leaves beside a file (`put_back_kept`), and folders of View
(previous)/ that can't be read, beyond ending the run Failed.

### `AtomicApply`: what an Apply promises

Three variables and no phases: the View tools are given, the Apply under way,
how each ended. The View is switched at one instant; an Apply that ends
Applied did switch and one that ends otherwise did not. `ViewApply` implements
it (`ImplementsPromise`) under the mapping `CurrentView`: `View/`, or while
that name is empty the View standing aside.

### `StorageJournal`: one storage operation

Variables in four groups. What the operation was **recorded with** and never
changes: `kind` (copy, move, trash), the destination's `volume` (how it
publishes a file at a name without replacing, and whether file IDs tell its
files apart), the items whose volume has a Trash that keeps what it receives.
The **disk**: what stands at each source and kept copy (`entry`: as reviewed,
edited with its size and times kept, another, gone), what the Trash holds
(`bin`), and per item the file at the destination (`copy`: whose it is, how
much of the reviewed bytes it holds), the partial beside it and whether that
stands under a hidden name. The **catalog**: state of the operation, phase,
outcome and written copy of each item. The **process**: where the one executor
stands (`at`), the `item` it advances, the change it is about to commit
(`next`). A crash keeps disk and catalog and clears the process. `lapsed` is
history: a change from outside fell between a check and the use of its result,
the window no program closes.

| Code | Actions |
|---|---|
| `run_storage_operation`, `step_storage_operation`, `step` | `Claim`, `SettleOperation`, `Record` |
| `transfer::begin` | `Begin` |
| `transfer::write`, `second_link` | `ResumeInstalled`, `ResumeLinked`, `StartFill` |
| `fill_partial`, `fill_from_source` | `Fill`, `FillFails` |
| `install`, `move_noreplace`, `without_noreplace` | `InstallRenamed`, `InstallLinked`, `Unlink`, `InstallFails` |
| `copy_onto_new`, `remove_source` | `InstallCreated`, `Copied`, `CopyFails`, `MoveAside`, `RemoveAside` |
| `remove_unfinished_copy` | `MakeWay` |
| `transfer::verify` | `Verify` |
| `advance`, the intent and its resumption | `RecordIntent`, `ResumeRetiring`, `ResumeInterrupted` |
| `journal::retire`, `trash::retire`, `verify_kept`, `verify_source` | `CheckSupport`, `VerifyCopy`, `VerifyKept`, `VerifySource` |
| `move_entry`, what its path says after | `MoveToTrash`, `Observe` |

Every check and every use of its result are steps of their own, so a change
from outside falls between any two. A commit is a step after the effect it
records, so a crash loses it. A crash stands for an error that ends the run as
well: both leave catalog and disk to the next `Claim`.

Abstracted: bytes, by how much of the reviewed content a file holds; the
identity check, by whose file it is on a volume with stable IDs and by any file
being there on one without; paths, by the item. Left out: the folders a
transfer creates; reviewing entries; an empty partial that `begin` made and a
crash kept from being recorded, whose name is random (the next `begin` makes
another).

`NothingHidden` and `ForeignBytesStay` are as strong as the code is. On a
volume without rename and links a crash may leave a hidden file (below), and
`remove_unfinished_copy`, which clears an unfinished copy of an earlier
attempt, can't tell a user's own empty or truncated copy of the same source
from it. A file with any byte of its own always stays.

### `AtomicCustody`: what a storage operation promises

Four variables, no journal and no crash: the kind, the items whose copy is
there, those whose source is away, the outcomes. A source leaves only over its
own copy (Move) or while nothing it relies on is away (Trash); an outcome is
recorded only if true; `uncertain` is always allowed and promises nothing.
`StorageJournal` implements it (`ImplementsPromise`): a copy is there once it is
whole at its destination and its partial's name is gone (`Delivered`).

### `ProjectLifecycle`: what a Project's operations promise

Three variables: the lifecycle, the kind of the one operation that runs, the
outcome recorded of each Wrap up step. It reserves, releases, finishes and
skips steps, reopens, closes and settles an archive, and knows no journal, no
file and no stop. `WrapUp` implements it (`ImplementsLifecycle`) with
`running <- op.kind`; Apply and Copy to Output are in it as the kinds they
reserve.

### `WrapUp`: Clean up, Trash and Close of one Project

Two processes: the user's `command` and the `recovery` of a start, which does
what a stop left undone while the user may already ask for more. `at` says
where each stands, `job` what it keeps in memory: the operation it reserved,
the desired revision and the names its sheet was reviewed with, rows to do. The
Project is its lifecycle, its operation (`op`, numbered, so that an earlier one
can't be taken for it) and steps; the View is what stands at each name, as the
generation and number it was placed as; the Trash step is one storage
operation whose items have a status; an archive is settled or not.

| Code | Actions |
|---|---|
| `review`, `clean_up` | `AskCleanUp`, `BeginCleanUp`, `KeepRow`, `RemoveEntry`, `RecordRemoval`, `TrashLeftover`, `ReviewLeftover`, `EmptyFolders`, `RetirePrevious`, `FinishCleanUp` |
| `record_wrap_up_step`, refusals | `PassStep`, `RefuseStep`, `RefuseRemoval`, `RefuseFinish` |
| `begin_trash`, `drive_trash` | `AskTrash`, `BeginTrash`, `StartStorage`, `ClaimStorage` … `SettleStorage` |
| `refuse_partial_frames` | `CheckFrame`, `RefuseCopy`, `RefuseStale` |
| `record_trashed`, `finish_trash` | `RecordTrashed`, `RefuseTrashed`, `MarkRecorded`, `FinishTrash`, `RefuseFinishTrash` |
| `close_project`, `archive_sessions`, `settle_archive` | `Close`, `ArchiveSessions`, `RunArchive`, `MoveRecord`, `SettleArchive`, `EndArchives` |
| `recover_wrap_up` | `ListCleanUps`, `ReleaseCleanUp`, `RefuseRelease`, `ListTrashes`, `ListArchives` |
| `reopen_wrap_up_step`, desired edits, Apply and Copy to Output as others see them | `Reopen`, `EditDesired`, `BeginOther`, `EndOther`, `InstallView` |

A review and the request made from it are one step, since a request whose
sheet is stale is refused by what it names; what is asked for and what the
reservation finds later are apart. A view entry is removed by one step and
recorded by the next. The steps of one retirement are `StorageJournal`'s, as
far as `AtomicCustody` promises them: an item ends trashed, blocked, refused or
uncertain. The files of an archive are `Archive`'s.

### `Archive` and `AtomicArchive`: the moves of one archive

`Archive` follows `run_archive` frame by frame and link by link: the copy
(custody's transfer as one step, with its refusals), the check that it is
whole, the record (`repoint_move`), the links of kept Views, the original.
What stands at a link's name, under its staged name and under the name an old
link waits at are variables of their own, with who put it there. Both ways of
putting a link in another's place are in it: an exchange, and two renames.

| Code | Actions |
|---|---|
| `run_archive`, `next_move`, settled items | `Pick`, `PickNone`, `ItemSettled` … `ItemPending`, `AfterItem` |
| the transfer of an item, `verify_copy` | `Transfer`, `TransferBlocked`, `CheckCopy` |
| `move_record`, its conflict with a scan | `MoveRecord`, `MoveRecordConflict` |
| `repoint_links`, `settle_leftovers` | `ListLinks`, `LinkRootGone`, `SettleLeftovers`, `ReadsCopy`, `StageLink`, `StageRefused`, `RecordLink` |
| `exchange` | `Exchange`, `SwapRefused`, `ProveOld`, `ExchangeBack`, `Stranded`, `DropRefused` |
| `move_aside` | `MoveAside`, `SwapRefused`, `Install`, `PutBack`, `Stranded`, `DropOld`, `DropRefused` |
| `link_identity` | `ReadBack`, `ReadBackRefused` |
| retirement of the original | `Last`, `RecordIntent`, `ResumeRetiring`, `ResumeInterrupted`, `MoveToTrash`, `RecordMoved` |
| `keep_source`, `settle_move` | `KeepItem`, `KeepMove`, `KeepAtTrash`, `SettleMove` |
| `settle_archive`, recovery | `SettleStorage`, `SettleArchive`, `Resume` |

Each call of the swap whose error the code returns may be refused for a reason
of its own (`Refused`, `Fails`), which settles the file with its original kept;
a refusal in that part counts as a fault. A deletion whose error the code
ignores (`let _ = fs::remove_file`) is taken as done: what it leaves behind is
met as a leftover and no more. `Scan` is the inventory recording an edited
original anew, or a copy as a frame of its own; `Hold` is another Project's
commit, whose View links to where the record is then.

`AtomicArchive` has no journal, no staged link and no stop: a record moves to a
whole copy, links are repointed after it, an original leaves after all of them,
outcomes are true, and a Closing Project ends Archived exactly when a record
moved.

### `Import`: previews and runs of an import

Several imports may share a source. A preview reads each file twice
(`BeginCheck`, `SecondCheck`), routes it and records it in one transaction
that compares the revision (`RecordPreview`, `PreviewConflict`); the user's
edit in review (`Exclude`) goes the same way, so either may come back late. A
run takes the state of its storage operation over into its items (`Take`),
records the next (`PlanTransfers`, `PlanRetirements`) and names its items in a
transaction of its own (`Attach`), advances it one item at a time (`Land`,
`LandBlocked`, `Verify`, `RecordIntent`, `ResumeRetiring`, `MoveToTrash`,
`KeepSource`, `RecordMoved`), indexes what landed (`Index`, `Scan`, `Collect`)
and settles or is interrupted (`End`). `Retry` is the user's answer to an
interruption. `Rerun` is a second run of an import that is running, which the
command allows though no screen offers it.

### `Output`: Copy to Output and the watch

Each Project has one name in Output/. Three parties meet at it: the command
(`Ask`, `Reserve`, `Claim`, `RunEnds`, `Probe`, `CommandEnds`), the watch, and
tools and the user (`Save`, `Delete`, `Unmount`, `Mount`). The watch is one
task: it first resumes the copies an earlier process left, oldest first
(`ReadUnfinished`, `ResumeNext`, `ResumedRan`, `ResumedProbe`, `ResumedEnds`,
`ResumeEnds`), then passes over one Project after another: `ReadBasis` (how
many copies the Project ever began, what is recorded Settled), `Look` (the
Project's folder), `List` (what lies below), `Settle` (`Settler::state`; the
window may have passed or not), `RecordScan`. The steps of the copy itself
(`Begin`, `Install`, `InstallFails`, `RecordInstalled`, `Verify`) are those of
`StorageJournal` with a rename as the install; who claimed the operation runs
them. A copy is reserved, run, probed and listed in four writes, and a stop may
fall between any two.

A fingerprint is the number of its write, so two files never share one. The
ghosts `listed`, `given` and `met` say that nobody touched a copy since it was
listed, that the user gave it a Kind, and which fingerprints walks found.

### `CaptureWatch`: a capture folder and the removal of its volume

Three parties that tell each other what they know, and the user. *Discovery*
is one task that does one thing at a time: per location what it follows
(`held`: the root and decision, the call that watches it, whether its volume is
being removed, what moved meanwhile and what to go back to), the offline ones,
the roots left, the calls let go of that still hold handles (`draining`), the
roots it names. *Shell and window*: the list last given, the registrations with
their handle open or closed, the request the window waits for. *Windows*: per
volume a removal that asks every registration in turn, is refused or granted
when no handle is open, and tells each registration.

Each of discovery's functions is an operator on its state at one location
(`Follow`, `GoOffline`, `MoveOn`, `CheckAgain`, `Decided`, `HeldOffline`,
`MovedBefore`, `Released`, `Reattached`, `Gone`), composed the way they call
each other; an action takes one to the next state and publishes (`Discovers`).

| Code | Actions |
|---|---|
| `reconcile`, by a sweep or a change | `Sweep`, `Change` |
| `attach` and `walk`, where `try_start` and `rescan` wait | `Attach` |
| `rescan`, `tick`, `waited_out` | `Rescan`, `Tick`, `WaitedOut` |
| `noticed` | `TakeNotice` |
| a watcher's close or a walk's end; `release` returns | `Returns`, `Answered` |
| `follow` of eject.rs; `Registrations::follow`, the retry timer | `ShellFollows`, `WindowFollows` |
| `Registrations::notice`, `forward` | `Ask`, `TellRefused`, `TellRemoved` |
| the Library's changes | `Remap`, `Reselect`, `Remove` |
| Windows and the user (external) | `Request`, `Refuse`, `Grant`, `Pull`, `Mount` |

The start of a watcher is the only point in discovery where others act in
between: the other file-system calls only look. Windows asks the registrations
there were when the removal began and tells those there are when it is decided.

Abstracted: a watcher and the walk started with it are one call; a folder ID by
the root; `removal_wait` by a step that may come at any time, or, unless the
world has `"slow"`, only once Windows decided. Left out: the counts, another
folder in a root's place, a root without a folder ID, network shares (never
registered), shutdown.

## What the runs show

| Run | World and bounds | Properties |
|---|---|---|
| `apply_tools` | 3 Applies, 1 edit, 1 fault, 2 callers; edits, holds, writes | `TypeOK`, `Agreement`, `ViewRecoverable`, `ImplementsPromise`, `EditInWaitKeeps` |
| `apply_reviews` | 3 Applies, 2 faults, 1 caller; writes, a tool that may hold for ever, leftovers kept and moved | `LeftoversRecorded`, `NeverRefused`, `ForeignAccounted`, `EveryApplyEnds`, `InstalledEndsApplied` |
| `apply_file_manager` | 3 Applies, no fault; leftovers kept and sent to the Trash, files and folders deleted, added, replaced at any moment | `NoFileLost` |
| `custody_transfer` | 1 item, copy or move, every kind of volume; 2 faults, 3 changes of every kind | `TypeOK`, `NothingHidden`, `RetiresProven`, `SettlesTruthfully`, `ForeignBytesStay` |
| `custody_promise` | 2 items, each the kept copy of the other, all kinds and volumes; 2 faults, 1 change of a source | `OneCopyStays`, `ImplementsPromise`, `OperationSettles` |
| `wrap_up_clean_up` | a View of 2 entries whose names an Apply may swap, 1 leftover; 2 operations, 2 Views, 2 revisions, 1 fault, 1 change | `RecordedIsRemoved`, `LockedIsApplied`, `ImplementsLifecycle` |
| `wrap_up_settles` | 2 copies of one rejected frame; 2 operations, 1 fault, a copy or its location gone, or a copy the Trash refuses | `RecordedIsTrashed`, `WrapUpSettles` |
| `archive` | 2 frames, 2 links that read the first, either origin and either way to swap links; 2 faults, 2 changes of any kind | `KeptLinksRead`, `NoLinkLost`, `ForeignLinkStays`, `ImplementsPromise`, `ArchiveSettles` |
| `import` | 1 import of a file, copied or moved; 2 revisions, 1 edit, 1 fault, 2 changes of any kind | `ChoiceStands`, `LandsOnce`, `SourceLeavesForCopy`, `StartedSettles` |
| `output` | 1 Project, 2 copies, 3 contents at the name; 1 fault, 2 changes of any kind | `ListedStays`, `SettledHeld`, `CopySettles`, `FileListed` |
| `capture_watch` | 1 location, 2 roots on a volume, mounted or not; 2 calls, 1 change, 1 removal or pull, decided in time | `HeldClear`, `NamesNothingNew`, `EndsFollowed` |
| `capture_outcome` | 1 location, 2 roots on one volume; 2 remaps, 1 removal | `EndsFollowed`, refuted |

Between them the runs take every step of their modules. A run with a
liveness property is kept to about a million states, for TLC checks such a
property over the whole graph of states and not state by state; the larger
instances that were checked once are named below.

*Apply.* Three Applies are the least in which an Apply meets both the leftovers
of an earlier one and its own (the first has no old View, the second leaves the
first's files over, the third finds them reviewed); one path of a tool, since
the code treats paths one by one and shares only `View (previous)/` being
empty, which `Entry` stands beside; one edit, since edits are compared for
equality with what was reviewed; two faults, a fault and one in its recovery.
Two callers are needed for two sheets checked against one state. The edit may
fall into the wait for a tool and the fault after it: `EditInWaitKeeps` says that
such an Apply does not end Applied. Of
the three reviews `apply_reviews` has the two that leave a file with the user,
and `apply_file_manager` the third; with all three in it (870,000 states) the
properties of `apply_reviews` hold as well.

*Custody.* Items of a transfer share nothing but the executor, so one shows all
of their own steps. Trash items share kept copies: two that rely on each other
are the least that can lose both. Two faults are an interruption and one in its
resumption; the theorems below hold the safety properties for any number. With
two changes and one fault (950,000 states) the properties of `custody_promise`
hold as well.

*Wrap up.* Two entries whose names may be swapped are the least for a sheet to
name the right entry at the wrong file; two Views, the reviewed one and the
next; two operations, the Clean up that is stopped and an Apply or a second
Clean up before or after it (with three, 4.6 million states, the properties hold
as well, and the theorems below hold them for any number). Two copies of one frame are the least that can be parted. One fault
suffices for recovery beside a command of the user: a stop in recovery leaves
what the first stop left. `wrap_up_settles` has no View but the first, which none
of its entries is in; with a second (330,000 states) the properties hold as well.

*Archive.* Links are handled one by one and share the frame, frames one by one
and share the Project: two links on one frame and a second frame show each
share. Two faults are a stop or a refused call and one in the resumption, two changes a link
replaced and a disk away in one swap.

*Import.* Imports share source, inventory and destination root but have
destinations of their own; a second import of the same source was run without
findings and is left out for its size. Two revisions are a check and the edit
it must not undo; two changes, a folder that leaves and a file that changes
before it is back. `ImportFiles.cfg` is the instance with two files, of which
one may wait for its destination while the other goes on, and one change (1.2
million states): the four properties hold.

*Output.* Two copies to one name are the least for a pass to meet a copy that
began and ended under it; three contents, the copy, an edit and a file in its
place; two changes, an unmount or a deletion and what follows. Rows of
different names do not meet; different Projects meet in the resumption, which
`OutputResume.cfg` has.

*Captures.* Locations share only the volume that `release` waits for; one with
two roots there, the second reached by a remap, has handles of an earlier call
on it as well. `CaptureThree.cfg` has a third root on another volume, which may
be away: that is how an offline location meets a removal. The three properties
hold there. Two calls are the one followed and one let go of.
With two changes, two removals and three calls on one volume (10.7 million
states) the two safety properties hold as well. With removals of two volumes at
once `HeldClear` does not hold, which `CaptureTwoRemovals.cfg` shows; with two
changes `EndsFollowed` does not, which `capture_outcome` shows.

Each property is guarded by a `variant` operator in the module: the nearby
slip (a phase trusted for an identity, a claim not cleared, a phase
overwritten before it is kept) that breaks it, and that the same run reports.

`CHECK_DEADLOCK FALSE` in every configuration: once what was asked for ended
and the bounds are used up, nothing is left to do.

### Fairness

`FairSpec` assumes that the run goes on (`WF_vars(RunStep)`: it is a task of
the process, and the start of a stopped PlateVault is a step of it) and that a
run broken off is followed by a quit (`WF_vars(Quit)`), since only the next
start recovers it. No fairness is assumed of tools, reviews or callers: a tool
may hold its file for ever, which is why `EveryApplyEnds` allows waiting until
Cancel. Without `Quit` an Apply broken off by an error would
keep its Project until the user restarts, which is what the code does.

Custody's `FairSpec` assumes `WF_vars(Execute)`: the executor is a task of the
process, and an operation left running is run again by the start that follows
(`recover_wrap_up`, `resume_output_copies`, the import's resumption). Nothing
is assumed of the world outside.

Wrap up's `FairSpec` assumes the command and the recovery go on, an Apply or a
copy ends (`EndOther`, `InstallView`), PlateVault starts again after a crash
(`WF_vars(Start)`) and is quit sooner or later when something is left over
(`SF_vars(Quit)`: a quit waits for the idle moments the user leaves). The user
is not obliged to ask for anything. `Archive`'s assumes that the run goes on
and that a stopped one is resumed, which each start does. `Import`'s assumes
that a run goes on, that an unmounted folder is mounted again and that the
user answers an interruption with Retry; not `Rerun`, for which nothing calls.
`Output`'s assumes that commands, transfers and the watch go on, a volume comes
back and PlateVault is started again while a copy waits for it, each weakly;
strongly that each open Project is passed over again and again (the sweep walks
them all) and that a pass over it comes after the window at times
(`SF_vars(Settle(TRUE) …)`): the window is seconds, passes go on for ever.

`CaptureWatch`'s assumes that discovery takes whatever is ready again and again
(`tokio::select!` picks among what is ready at random, so strongly: a sweep, a
change, a notice, a tick, and a wait that ran out), that calls let go of return,
that shell and window go on, that Windows tells a decided removal and refuses
one that no one grants. It does not assume that a removal is granted, that a
volume comes back, or anything of the user.

### What the code's words say and the runs refute

* `capture_outcome` (`CaptureOutcome.cfg`): the shell forwards "`reattach` when
  it was refused" (eject.rs:10), on which discovery must "watch the location
  again" (new_captures.rs:1758). A location goes from r1 to r2 and back to r1.
  The list that names r2 alone is on its way to the window when the removal is
  asked for at r1, whose location discovery lets go of and marks released. The
  window then takes the older list and ends the registration of r1, removal or
  not (registrations.rs:94), and the next list registers it afresh. On the
  refusal its handle is open, so nothing is reported (registrations.rs:140),
  and `waited_out` (new_captures.rs:1464) starts only a location that moved or
  was held offline. The location stays released: nothing looks at it until its
  volume is asked for or removed again. `release` names this state as one that
  ends with `reattach` or `gone`; a bounded wait for every released location
  would end it too.

### Further configurations

The type invariants of `WrapUp`, `Archive`, `Import` and `CaptureWatch`, on the
instances of their runs, are in `WrapUpTypes.cfg`, `ArchiveTypes.cfg`,
`ImportTypes.cfg` and `CaptureLetsGo.cfg`; all hold, as does that of `Output`, a
theorem, when `Output.cfg` lists it. The last also shows that a
removal request always gets its answer (`ReleaseReturns`) and that a removed
location keeps no registration (`RemovedLetsGo`). Each of the others refutes one
statement and is run by hand like the rest.

* `OutputResume.cfg`, `ResumeFinishes`: "Finish every Copy to Output an
  earlier process left unsettled" (project_output.rs:535). A verified copy
  whose file is deleted before it is listed makes the probe
  (project_output.rs:581) fail, at this start and at every later one; its
  Project stays reserved, and copies recorded after it are never resumed.
* `ImportResumes.cfg`, `ImportResumes`: "Retry resumes from the recorded
  journal" (import.rs:25). After a stop of the process the import stays
  Running, which offers no Retry, and no start picks it up.

* `ViewApplyRetry.cfg`, `FailedBuildingRecognised`: `View (building)/` of a
  failed Apply is kept for Retry (PREP-AC-05), but `failed_building`
  (project_view.rs:881) looks at the latest failed Apply only. A Retry that
  fails before it builds hides the earlier identity, and every later sheet
  reports the folder as someone else's.
* `ViewApplyOccupied.cfg`, `FailedKeepsOldView`: Failed keeps the old View, but
  with `View/` taken while the old View stands aside (apply.rs:1334), recovery
  ends Failed and leaves it in `View (previous)/`.
* `ViewApplyOverlap.cfg`, `LeftoversRecorded`: a review's retirement of the
  previous manifest (apply.rs:497) is a write of its own. Landing after the
  next Apply's commit it retires the View that Apply just put aside, whose
  files are then never listed for review.
* `ViewApplyMidway.cfg`, `NeverRefused`: a review moves a kept file between the
  build and the swap of an Apply. Neither the sheet nor the listing missed the
  file, so its row stays until the review records it; the Apply that comes first
  to settling, with the same path left over again, is refused and breaks off.
* `ViewApplyDeleted.cfg`, `InstalledEndsApplied`: a kept file deleted between
  the sheet and the listing keeps its row; when that path is left over again,
  settlement (project_view.rs:432) meets the primary key at every start and an
  installed View never ends Applied.
* `StorageHidden.cfg`, `PartialGoes`: "the partial goes once the copy is
  verified" (transfer.rs, lines 321 and 322). Where a copy is published onto a
  new file, the partial is moved to a hidden name and unlinked there
  (transfer.rs:794). A stop between leaves it, and no resume looks for that
  name.
* `WrapUpFrame.cfg`, `FrameWhole`: a frame moves whole or not at all
  (wrap_up/trash.rs:27). The copies of a frame are refused one by one
  (trash.rs:257); a stop between two leaves one Blocked, the resumption no
  longer finds all of them pending, and the other moves alone.
* `WrapUpStuck.cfg`, `TrashRunsToItsEnd`: "a Trash step runs to its end and
  records Finished" (wrap_up.rs:120). `record_trashed` refuses a copy whose
  location was retired since (trash.rs:122 of the library), and
  `retire_location` does not look at storage operations: recovery fails at
  every start and the Project keeps its operation.
* `ArchiveOpenView.cfg`, `OpenViewReads`: the archive "keeps each session
  another open Project holds (or whose files its View places) at its path"
  (archive.rs:8). `require_unheld` (project_wrap_up.rs:1483) is asked when the
  archive is recorded and not again; a Project that takes the session in and
  applies while the moves run has links no `KEPT_LINKS` names, and reads
  nothing once the original left.
* `ArchiveLinkPutBack.cfg`, `LinkPutBack`: "A stop in between leaves the old
  link aside, which the next run puts back before it checks the link again"
  (archive.rs:977). With the destination away at the resumption the link is
  not checked, and the archive settles with the link beside its free name.
* `ImportIndexed.cfg`, `SettledIsIndexed`: "while one waits for its offline
  destination the import stays Interrupted" (import.rs:27). A copy whose
  destination came back between the scan and the end of the run
  (import.rs:1316) is settled unindexed.
* `CaptureTwoRemovals.cfg`, `HeldClear`: until the outcome of a
  removal "the location keeps the count it had, with `live: false`, and nothing
  touches its root, a sweep included" (new_captures.rs:320). A location goes
  from r1 to r3, on another volume, as the removal of r1's volume is asked for:
  it is released at r1, with r3 as the place it moves to and still registered.
  The removal of r3's volume is asked for next. `release`
  (new_captures.rs:1652) looks at locations that follow the root asked about,
  and `moved_before_release` at those that are not released, so nothing is
  recorded for this one and the answer is given. Then the first removal is
  over, or the wait for it, and the location starts at r3, whose removal is
  still pending and which the new handle makes Windows refuse.

Two statements of `Output` are refuted by `MCOutput` with one Project, one
fault and, in turn, `OnlySaves` and `OnlyVolumes` as the world.
`CopiedIsVerified`: the probe comes after verification and compares nothing,
so an edit between the two is listed Copied with the source's digest for other
bytes (project_output.rs:464 says otherwise). `OfflineStays`: a volume that
goes away between the look at the Project's folder and the walk reads as an
empty Output/, and its rows are deleted with their digests and Kinds
(project_output.rs:218 says "nothing recorded is taken for removed").

Noted while modelling, of less weight: recovery ends at its first error, so an
archive the user started before recovery reached it (refused by the claim)
keeps what comes after it from resuming until the next start; a sessions-only
archive with all outcomes recorded and its storage operation unsettled is not
found again (project_wrap_up.rs:1270), and nothing is lost by it; a stop
between the removal of a View entry and its record leaves an entry no record
calls removed, where wrap_up.rs:119 speaks of every removal recorded.

## What is proved

`ViewApplyProofs` proves, for any number of Applies, paths, callers and faults,
from `BoundsAssumption` and `NamesAssumption`:

| Theorem | States |
|---|---|
| `TypeCorrect` | `Spec => []TypeOK` |
| `RecordsAgree` | `Spec => []Agreement` |
| `NothingDestroyed` | `Spec => NoFileLost` |
| `OldViewKept` | `Spec => []ViewRecoverable`, where `Unmoved` |
| `AppliesAtomically` | `Spec => ImplementsPromise`, where `Unmoved` |
| `ForeignAlwaysAccounted` | `Spec => []ForeignAccounted`, where `Unmoved` |
| `NoWriteRefused` | `Spec => []NeverRefused`, where `Alone` |
| `LeftoversAlwaysRecorded` | `Spec => []LeftoversRecorded`, where `Clean` |

The first three hold in every world. `Unmoved` says the world has no `vanish`,
`occupy` or `remove`: the user neither deletes the folders at `View/` and
`View (previous)/` nor puts another at `View/` while it is free. No program can
promise an old View whose folder was deleted. All else stays: any edits, tools
that write and hold, tools that write into `View (previous)/`, reviews beside
Applies, faults and crashes. `Alone` says besides that no review overlaps an
Apply, and `Clean` that no tool writes into `View (previous)/`. Both are needed:
`ViewApplyMidway.cfg` refutes `NeverRefused` and `ViewApplyOverlap.cfg`
`LeftoversRecorded` with an overlapping review, `ViewApplyDeleted.cfg` shows
what a deletion does, and a file a tool adds to `View (previous)/` has no row
that could record it. The worlds of the runs `apply_tools` and `apply_reviews`
are `Clean`.

Each theorem rests on the invariant before it, which says more:

* `TypeInv`. `TypeOK` alone is not inductive: a settling Apply copies its own
  phase into `settled_from` and its stop into the outcome. So it adds that a
  run works on a reservation whose journal is unsettled (`Owned`) and that a
  run which ends knows whether it failed or was canceled (`Ending`).
* `Recorded == TypeInv /\ Agreement /\ PhaseFits`. `PhaseFits` gives the phase
  the journal stands at for every place of the run. `Agreement` needs it: that
  an Apply settled applied from a phase `outcome_fits` allows, or that its
  manifest becomes installed once no other is, follows from where the run is.
* `Founded == Recorded /\ FoldersFit`. No file is without its folder, and the
  folder a run builds is its own; so no rename covers a file that stood at its
  target, and no folder made anew or removed as empty held one. That every step
  keeps the copies of a tool's file (`Harmless`) is then shown per group of
  steps.
* `Whole == Founded /\ Placed`. `StandFits` says where the View an Apply found
  stands by the phase of the journal alone, so it outlives a crash: in place,
  aside, or aside with the new one in place. `RunFits` says the same by where a
  run stands, which is finer. `PastFits` keeps reviews and sheets to Views of
  the past: no review can empty the View that stands aside. Recovery decides by
  the folders it finds; lemma `RecoveryChooses` says that in every state of
  `Whole` it ends the Apply installed only with its View in place, ends it
  failed only with the old one in place or just put back, or stops.
* `Whole /\ Traced`, for the foreign items. `OldIsNew` says the View that
  stands aside is the one the items were listed in and holds no file a review
  can name; `ForeignFits` where the file of a recorded item is from the commit
  on; and `MoveFits` the same of the item being moved, between the move and its
  record, which is what a crash there leaves to the claim.
* `AloneInv == Whole /\ Lone /\ PreviousGone /\ Cleared /\ SheetsFit`, for what
  the schema accepts. No manifest is previous once the folders begin to move
  (`PreviousGone`) and no leftover waits or is kept (`Cleared`). Both go back to
  the sheet: what it found gone is still gone, or on its way to a record
  (`SheetsFit`), as long as no review is in flight (`Lone`).
* With `RetireFits`, `ClaimFits`, `MissingFits` and `LeftFits` besides, for the
  leftovers. The View a run retires is the one its Apply found (`RetireFits`); a
  kept name is claimed only while one run moves its file, or by a run that was
  cut off (`ClaimFits`); what sheet and run hold gone is gone (`MissingFits`).
  `LeftFits` is the property without its "once no Apply runs": each row the user
  has not settled names a file that is in `View (previous)/`, in `View/`, in the
  Trash or at the kept name its move claimed. That no step but the settling adds
  a row, and that each moves a file only to where its row is found
  (`RowsKept`), is shown per group of steps.

For the refinement, `CurrentView` is in every state of `Whole` the folder at
`View/` if no Apply is active or it is the active one's, else the View that
Apply found (`ViewSeen`). A step that changes neither that nor an outcome is a stutter; the
others are `Reserve` (`Begin`), `Install` (`Switch`), the two settlings
(`Succeed`) and `Discard` (`GiveUp`). The restore and the move aside are
stutters, which is the point: no tool is ever given half a View.

`StorageJournalProofs` proves, from `ItemsAssumption` and `InstanceAssumption`
alone, for any items, kept copies, volumes, outside world and number of
crashes:

| Theorem | States |
|---|---|
| `TypeCorrect` | `Spec => []TypeOK` |
| `OneCopyAlwaysStays` | `Spec => []OneCopyStays` |
| `RetiresOnlyProven` | `Spec => RetiresProven` |
| `SettlesAsHappened` | `Spec => SettlesTruthfully` |
| `ForeignBytesAlwaysStay` | `Spec => ForeignBytesStay` |
| `NothingEverHidden` | `Spec => []NothingHidden` |
| `ImplementsAtomic` | `Spec => ImplementsPromise`, where `Undisturbed` |

The argument. `Inv` is `TypeInv` (types, and that a place fits the kind) with
`Safe`: what each place of the executor knows. `Away` and `NotYetAway` tie the
Trash to the recorded intent; `Intended` says no retirement goes without one,
so a crash after the OS acted finds the item Retiring and never Pending.
`Proven` carries each check's result to its use unless `lapsed`, and `Fresh`
confines `lapsed` to the places that rely on one. `KeptHere` is the part of
`Proven` a change from outside can't void: a copy verified in place is not in
the Trash, since only the executor puts one there and it works on one item.
It is what makes `OneCopyStays` inductive: of two entries that rely on each
other, the second to reach `trash` would have verified the first in place.
`Truthful` says the same of the outcome about to be recorded. Then three facts:
`Init => Inv`, `Inv /\ [Next]_vars => Inv'` (one lemma per group of steps, one
case per action), and each property from `Inv`.

`NothingEverHidden` adds `VisibleInv`: on such volumes a partial with bytes
belongs to an item recorded Writing. The refinement adds `Kept`, what the
recorded phases and the next change say of the disk, which only holds where
nobody edits or takes a destination or empties the Trash behind the operation,
and the OS Trash reports what it did: `Undisturbed`, the theorem's assumption
on `World`. Without it the promise can't be kept by any program: a verified
copy deleted by the user is not there.

`ProjectLifecycleProofs` proves `KeepsPromise`: `Spec => []Promise`. One
operation at a time, steps recorded in order and once, Closing exactly while
the archive runs. Every part leans on another (`Settle` releases the operation
that `LockedIsComplete` says closed the Project), so `Promise` as a whole is
the inductive invariant. `wrap_up_clean_up` shows that the transactions of the
code are its steps.

`OutputProofs` proves `TypeOK`, `ListedStays` and `SettledHeld` of `Output`,
for any number of Projects. The inductive invariant is `Types /\ Safe /\ Held
/\ Met`:

* `Safe`: a Project copies at most once and lists nothing meanwhile
  (`CopyIsOne`); who runs an operation claimed it (`ClaimFits`); the start works
  on copies of an earlier process (`ResumedFits`); a pass's basis counts no copy
  that began after it (`BasisFits`).
* `Held`: `ListedStays`, and what a pass whose basis is current found of a
  listed copy is that copy (`FoundFits`).
* `Met`: what is recorded Settled, what a basis says was, what the watch
  remembers and what its pass found were each found before, and held still
  where they say so.

`ListedStays` alone is not inductive: a pass that read the name before the copy
was installed could record what it found. `FoundFits` with `BasisFits` says why
it does not: the copy that changed the name also made the basis stale. Lemma
`OthersStay` states what leaves the queue when a copy settles: that copy and no
other. The only assumption is `InstanceAssumption`.

`ArchiveProofs` proves, for any frames and links, either way to swap links and
any world:

| Theorem | States |
|---|---|
| `TypeCorrect` | `Spec => []TypeOK` |
| `ReadersFollow` | `Spec => []KeptLinksRead` |
| `LinksSurvive` | `Spec => []NoLinkLost` |
| `ForeignStays` | `Spec => ForeignLinkStays` |
| `KeepsPromise` | `Spec => ImplementsPromise` |

`Inv` is `Recorded /\ Placed`. `Recorded` is what holds wherever the run
stands, a stop included: phase, record and original of a frame agree
(`PhaseFits`), an original is in the Trash only past its record and its links
(`BinFits`), and the three names of a link nobody touched hold links of
PlateVault (`NamesFit`). `Placed` is what each place of the run knows:
`AtFile` of the frame, `AtKeep` of why it keeps an original, `AtLink` of the
names of the one link in the middle of a swap. `KeptLinksRead` follows from
`BinFits` with `NamesFit`: no original leaves while a link of its frame is not
recorded. `NoLinkLost` needs `AtLink`: between the two renames of `move_aside`
the link waits at its third name, and each step out of there must know it. The
refinement needs no more than `Inv`; it holds in every world.

`ImportProofs` proves, for any number of imports and files:

| Theorem | States |
|---|---|
| `TypeCorrect` | `Spec => []TypeOK` |
| `ChoiceAlwaysStands` | `Spec => []ChoiceStands` |
| `LandsOnlyOnce` | `Spec => LandsOnce` |
| `SourceLeaves` | `Spec => SourceLeavesForCopy` |

`Inv` says of each import that an import in review runs nothing
(`ReviewFits`), that what the user left out last is what the catalog has left
out (`ChoiceFits`), that a landed file waits for a transfer only while its
journal says it landed (`LandedFits`), that an item which names an operation is
one of its own (`JournalFits`), and that a check or an edit whose revision is
current began from what the user has chosen since (`CheckFits`). The last is
what makes `ChoiceStands` inductive: of two answers to the same revision the
second to arrive finds another one. `LandsOnce` needs `LandedFits` and
`JournalFits` together, as the record of an installed copy and the item it
belongs to are written apart and a stop may fall between.

`WrapUpProofs` proves, for any entries, leftovers, copies and layouts:

| Theorem | States |
|---|---|
| `TypeCorrect` | `Spec => []TypeOK` |
| `LockedWhole` | `Spec => []LockedIsApplied` |
| `RemovedAsRecorded` | `Spec => []RecordedIsRemoved` |
| `TrashedAsRecorded` | `Spec => []RecordedIsTrashed` |
| `KeepsLifecycle` | `Spec => ImplementsLifecycle` |

`Inv` is `AtRest /\ Running` with the promise of `ProjectLifecycle` itself.
Two processes drive operations of one Project, so all that either knows is
under a condition: the operation it reserved still is the Project's
(`Drive`), or the journal it works on is the latest (`job[p].op = run`). Ids
are given once (`OpFits`), so a condition that stopped holding never holds
again, and no step of the one voids what the other knows. `JournalFits` says an
operation let go of its Project only after all its items settled and were
recorded: this is what `finish_trash` counts on after a stop and `CleanUpFits`
says its like of the View, so that what is recorded removed was removed from
the View the record names. `FolderFits` keeps a View that an Apply installed
later apart from the one that was cleaned.

`CaptureWatchProofs` proves `TypeOK`, `NamesNothingNew` and `HeldClear` of `CaptureWatch`,
for any locations, roots and volumes and any number of removals. Discovery's
functions are operators on its state, so each has a lemma of its own that it
takes a good state to a good one (`FollowGood`, `ReleasedGood`,
`ReconciledGood`, …), in the order they call one another, and every action then
is one of them followed by `publish`. `Good` says per location that what is
held, offline and left fits together, that a released location keeps the call
it was released with, and that every call still draining is at a named root.
`AllNamed` says that all it follows is named. The two lean on each other: the
names published are those of what is held and of what drains.

`HeldAlwaysClear` is `Spec /\ []OnlyOn(v) => []HeldClear`, where `OnlyOn(v)`
says that no volume but `v` is being removed: `v` may be asked for, refused,
pulled and mounted again as often as one likes, and everything else is free. Both
its hypotheses are needed and met by the run. With two volumes at once the
property fails (`CaptureTwoRemovals.cfg`), and where Windows takes longer over a
removal than discovery waits (`"slow"`), discovery gives up the release while
the volume is still asked for. The property says nothing of how a release comes
about, so the invariant `Clears` says it. A location is released only at a root
on `v`, and a call of it that still runs there is one the window waits for, with
no report left for discovery to take (`Waits`). A release is the last report on
its way, and Windows tells nothing until it is answered (`Asks`). Hence no
outcome is on its way while an answer counts (`Pending`), and the location
answered for stays released, or was removed from the catalog and forgotten, with
no call on `v` (`Lets`). That discovery keeps this rests on one lemma per
function: what it does at one location touches no other (`Elsewhere`), makes
none released that was not (`Remains`), and starts nothing at one that is
(`Settles`); only `release` releases, and it reckons what to wait for in the
same step (`ReleasedSettles`).

An item, a row or a link is taken by the order of its number (`ORDER BY` with
`LIMIT 1`), `Least` in the modules; that a set of numbers has a least one is
derived from the well-foundedness of strict inclusion on finite sets (lemma
`LeastIn`), since induction itself is out of the prover's reach.

What the constants must satisfy is `InstanceAssumption` of each module: bounds
are natural numbers, what is ordered is numbered (`Files \subseteq Nat`), sets
are finite. Two parts say more. In `WrapUp` a layout gives each name to one
entry, since a View has one file at a name. In `CaptureWatch` `None` is no
location, root, key or record.

Only model-checked: liveness (`EveryApplyEnds`, `InstalledEndsApplied`,
`OperationSettles`, `WrapUpSettles`, `ArchiveSettles`, `StartedSettles`,
`CopySettles`, `FileListed`, `EndsFollowed`), since fairness and ENABLED are
beyond the prover; and `EditInWaitKeeps`, which speaks of all that follows an
edit. `HeldClear` is a theorem while one volume is removed at a time,
and is not true otherwise (`CaptureTwoRemovals.cfg`).

## What is not modelled, and why

`PROJECT.json` lists every part with its status and what a partly modelled one
leaves out.

* *The counts of new captures, inventory.* Walks, live events and the catalog's
  paths race as the Output watch does; they are next in the plan, and their
  hazard has no property yet. The other hazards without one are refuted in the
  configurations named above.
* *Storage locations, reminders, preferences, planning, review decisions, the
  catalog's rows.* One transaction each, or queries; SQLite's constraints and a
  revision comparison are all the control they have.
* *Pixels, metadata, patterns, file names, statistics, calendars.* Pure
  computation; a model would restate the code.
* *Platform bindings.* Single calls of the operating system. What they may
  answer is in the modules that call them.
* *Desktop shell, user interface, contracts, test tools.* Command bindings,
  views and generated types.
* *The older backend.* Its plan executor has a protocol worth a module and is
  last in the plan; the rest is single writes and queries that the rebuilt
  backend replaces, and most of the repository's lines.
