------------------------------- MODULE WrapUp -------------------------------
(***************************************************************************)
(* Wrap up of one Project: Clean up takes its View away entry by entry,    *)
(* Trash moves its rejected frames and processing files to the OS Trash,   *)
(* Close archives it for good.  The user's command and the recovery that   *)
(* every start runs work side by side; either breaks off anywhere.         *)
(*                                                                         *)
(* Sources: crates/platevault-core/src/wrap_up.rs, wrap_up/{clean_up,      *)
(* trash}.rs and crates/persistence/library/src/{project_wrap_up,          *)
(* project_operations,trash}.rs.  An Apply and a copy to Output are here   *)
(* only what Wrap up sees of them; the journal's single steps are          *)
(* StorageJournal's; the files of an archive are left out.                 *)
(***************************************************************************)
EXTENDS Integers, FiniteSets

CONSTANTS
    Entries,     \* the entries of a View, by their sequence number
    Layouts,     \* the names an Apply may give them
    Leftovers,   \* files of View (previous)/, numbered after the entries
    Copies,      \* files the Trash step can move, by their sequence number
    FrameOf,     \* the rejected frame a copy is of, 0 for a Processing/ file
    MaxOps,      \* bound: operations reserved
    MaxGen,      \* bound: Views installed
    MaxRev,      \* bound: desired revisions
    MaxFaults,   \* bound: crashes and failed calls
    MaxChanges,  \* bound: changes from outside
    World        \* what the outside may do in this instance

\* A View entry is edited or deleted, a file put into View/; a copy the Trash
\* step lists changes; its volume's OS Trash refuses; its location is retired.
WorldEvents == {"entry", "extra", "copy", "refuse", "retire"}

ASSUME InstanceAssumption ==
    /\ Entries \subseteq Nat /\ Leftovers \subseteq Nat /\ Copies \subseteq Nat
    /\ IsFiniteSet(Entries) /\ IsFiniteSet(Leftovers) /\ IsFiniteSet(Copies)
    /\ Entries \cap Leftovers = {}
    /\ Layouts \subseteq [Entries -> Entries]
    /\ \A l \in Layouts, n \in Entries : \E s \in Entries : l[s] = n
    /\ FrameOf \in [Copies -> Nat]
    /\ {MaxOps, MaxFaults, MaxChanges} \subseteq Nat
    /\ {MaxGen, MaxRev} \subseteq Nat \ {0}
    /\ World \subseteq WorldEvents

Procs    == {"command", "recovery"}
Archives == {"own", "other"}    \* the closing Project's; Sessions > Archive's
Steps    == {"cleanUp", "trash", "archive"}
Kinds    == Steps \cup {"apply", "copyToOutput"}
Frames   == {FrameOf[c] : c \in Copies} \ {0}

\* A View entry on disk: the generation and sequence number it was placed as.
Nothing == <<0, 0>>
Foreign == <<0, 1>>

\* An item of the Trash step, refused whole before anything moved or blocked
\* at its own move; "out" when the step does not list it.
Status  == {"out", "pending", "retiring", "trashed", "refused", "blocked", "uncertain"}
Settled == {"trashed", "refused", "blocked", "uncertain"}

VARIABLES
    \* the Project
    lifecycle, op, steps,
    rev, applied,  \* desired revision; the one the installed View was built from
    manifest,      \* the installed generation, 0 when none is
    place,         \* the name of each of its entries
    removals,      \* entries recorded removed, by generation and number
    listed,        \* leftovers still to be reviewed
    previous,      \* a previous View is on record
    \* its files
    view, folder, extra, left,
    deleted,       \* entries Clean up took out of View/
    \* the Trash step
    run,           \* the Project operation of the last step, 0 for none
    storage,       \* its storage operation
    status, marked, file, bin, asset,
    \* Close and Sessions > Archive
    archive, moved,
    \* the process
    at, job,
    claim,         \* who runs the storage operation of the Trash step
    runner,        \* who runs each archive
    ops, gen, faults, changes

project  == <<lifecycle, op, steps, ops>>
desired  == <<rev, applied>>
record   == <<manifest, place, removals, listed, previous, gen>>
files    == <<view, folder, extra, left, deleted>>
journal  == <<run, storage, status, marked>>
copies   == <<file, bin, asset>>
archival == <<archive, moved>>
process  == <<at, job, claim, runner>>
bounds   == <<faults, changes>>
world    == <<project, desired, record, files, journal, copies, archival, bounds>>
vars     == <<lifecycle, op, steps, ops, rev, applied, manifest, place, removals, listed,
              previous, gen, view, folder, extra, left, deleted, run, storage, status, marked, file, bin,
              asset, archive, moved, at, job, claim, runner, faults, changes>>

NoOp == [id |-> 0, kind |-> "none"]

\* What a run keeps in memory: its operation, the step and outcome it will
\* record, the reviewed revision and names, the manifest read once reserved,
\* the rows, frames and archives still to do.
NoJob == [op |-> 0, step |-> "none", outcome |-> "none", rev |-> 0, place |-> <<>>, gen |-> 0,
          rows |-> {}, frames |-> {}, archives |-> {}, touched |-> FALSE, gone |-> FALSE]

Init ==
    /\ lifecycle = "open" /\ op = NoOp /\ ops = 0
    /\ steps = [s \in Steps |-> "none"]
    /\ rev = 1 /\ applied = 1
    /\ manifest = 1 /\ gen = 1 /\ place \in Layouts
    /\ removals = {} /\ deleted = {}
    /\ listed \in {{}, Leftovers} /\ left = listed /\ previous = (left # {})
    /\ view = [n \in Entries |-> <<1, CHOOSE s \in Entries : place[s] = n>>]
    /\ folder = TRUE /\ extra = FALSE
    /\ run = 0 /\ storage = "none" /\ marked = {}
    /\ status = [c \in Copies |-> "out"]
    /\ file = [c \in Copies |-> "reviewed"] /\ bin = {}
    /\ asset = [c \in Copies |-> "live"]
    /\ archive = [a \in Archives |-> "none"] /\ moved = FALSE
    /\ at = [p \in Procs |-> IF p = "command" THEN "idle" ELSE "done"]
    /\ job = [p \in Procs |-> NoJob]
    /\ claim = "none" /\ runner = [a \in Archives |-> "none"]
    /\ faults = 0 /\ changes = 0

-----------------------------------------------------------------------------
(* Helpers.  A definition marked `variant` is what a slip in the code it   *)
(* stands beside would make of that code; no action uses one.              *)

Least(S) == CHOOSE n \in S : \A m \in S : n <= m

Position == [cleanUp |-> 1, trash |-> 2, archive |-> 3]
Recorded == {s \in Steps : steps[s] # "none"}

\* `read_status`: the first step not recorded.
Current ==
    CASE "cleanUp" \notin Recorded -> "cleanUp"
      [] "cleanUp" \in Recorded /\ "trash" \notin Recorded -> "trash"
      [] OTHER -> "archive"

\* `pending_changes`: none without an installed View.
Pending == manifest # 0 /\ applied # rev

\* variant: edits since the Apply do not hold Wrap up back.
WrapUpOpensPending == lifecycle = "open" /\ op = NoOp
\* `ClosePolicy::wrap_up_opens`: nothing runs and nothing is pending.
WrapUpOpens == lifecycle = "open" /\ op = NoOp /\ ~Pending

\* variant: a step runs whenever it is not recorded, whatever comes before.
RequireAnyStep(step, expected) == WrapUpOpens /\ rev = expected /\ step \notin Recorded
\* `require_step`, in the transaction that reserves or records.
RequireStep(step, expected) == WrapUpOpens /\ rev = expected /\ Current = step

\* `finish_step`, `settle_operation`: the operation is still the active one.
Active(p) == job[p].op # 0 /\ op.id = job[p].op

Reserve(kind) ==
    /\ ops < MaxOps
    /\ ops' = ops + 1
    /\ op' = [id |-> ops + 1, kind |-> kind]

\* `finish_step`: the record and the release are one transaction.
FinishStep(step) ==
    /\ steps' = [steps EXCEPT ![step] = "finished"]
    /\ op' = NoOp
    /\ UNCHANGED <<lifecycle, ops>>

\* An error ends the command, and recovery until the next start.
Fails(p) == IF p = "command" THEN "idle" ELSE "stopped"

Goto(p, where) == at' = [at EXCEPT ![p] = where] /\ UNCHANGED <<job, claim, runner>>
\* A run that ends lets go of what it held.
Return(p, where) ==
    /\ at' = [at EXCEPT ![p] = where]
    /\ job' = [job EXCEPT ![p] = NoJob]
    /\ claim' = IF claim = p THEN "none" ELSE claim
    /\ runner' = [a \in Archives |-> IF runner[a] = p THEN "none" ELSE runner[a]]

\* An error from the catalog ends the run.
Refused(p, where) ==
    /\ at[p] = where
    /\ Return(p, Fails(p))
    /\ UNCHANGED world

-----------------------------------------------------------------------------
(* Clean up.  The review a request is checked against and the request      *)
(* itself are one step: a request whose sheet is stale ends in an error.   *)

\* `review`: entries not recorded removed that still stand at their name, and
\* every leftover on record, standing or not.
Offered ==
    {s \in Entries : manifest # 0 /\ <<manifest, s>> \notin removals /\ view[place[s]] # Nothing}
    \cup listed

AskCleanUp ==
    /\ at["command"] = "idle" /\ lifecycle = "open"
    /\ \E rows \in SUBSET Offered :
         /\ job' = [job EXCEPT !["command"] =
                       [NoJob EXCEPT !.step = "cleanUp", !.rev = rev, !.place = place, !.rows = rows,
                                     !.outcome = IF Offered = {} THEN "finished" ELSE "skipped"]]
         /\ at' = [at EXCEPT !["command"] = IF rows = {} THEN "pass" ELSE "begin"]
    /\ UNCHANGED <<claim, runner, world>>

\* `record_wrap_up_step`: nothing selected, or nothing offered.
PassStep ==
    /\ at["command"] = "pass"
    /\ RequireStep(job["command"].step, job["command"].rev)
    /\ steps' = [steps EXCEPT ![job["command"].step] = job["command"].outcome]
    /\ Return("command", "idle")
    /\ UNCHANGED <<lifecycle, op, ops, desired, record, files, journal, copies, archival, bounds>>

\* `begin_clean_up`, and the inputs read again under the reservation.
BeginCleanUp ==
    /\ at["command"] = "begin" /\ job["command"].step = "cleanUp"
    /\ RequireStep("cleanUp", job["command"].rev)
    /\ Reserve("cleanUp")
    /\ job' = [job EXCEPT !["command"].op = ops + 1, !["command"].gen = manifest]
    /\ at' = [at EXCEPT !["command"] = "remove"]
    /\ UNCHANGED <<claim, runner, lifecycle, steps, desired, record, files, journal, copies,
                   archival, bounds>>

\* `begin_clean_up`, `begin_trash` and `record_wrap_up_step` refuse: Wrap up does not
\* open, the Project moved since the review, or another step is current (or the
\* bound on operations is reached).
RefuseStep ==
    /\ at["command"] \in {"pass", "begin"}
    /\ ~RequireStep(job["command"].step, job["command"].rev) \/ ops = MaxOps
    /\ Refused("command", at["command"])

Row == Least(job["command"].rows)
Dropped(j) == [j EXCEPT !.rows = @ \ {Least(j.rows)}]
AtRow(rows) == at["command"] = "remove" /\ job["command"].rows # {} /\ Row \in rows

\* variant: the file is taken by its name, whatever stands there now.
StillPlacedAny(j, s) == view[j.place[s]] # Nothing
\* `remove_placed`: the reviewed name still holds the entry the manifest, read
\* again, records under this number; a link placed to the same original does.
StillPlaced(j, s) == j.gen # 0 /\ view[j.place[s]] = <<j.gen, s>>

\* A row is kept: protected, changed, its original unproven, or the removal
\* failed.
KeepRow ==
    /\ at["command"] = "remove" /\ job["command"].rows # {}
    /\ job' = [job EXCEPT !["command"] = Dropped(@), !["command"].touched = @ \/ Row \in Leftovers]
    /\ UNCHANGED <<at, claim, runner, world>>

RemoveEntry ==
    /\ AtRow(Entries) /\ StillPlaced(job["command"], Row)
    /\ view' = [view EXCEPT ![job["command"].place[Row]] = Nothing]
    /\ deleted' = deleted \cup {view[job["command"].place[Row]]}
    /\ Goto("command", "recordRemoval")
    /\ UNCHANGED <<folder, extra, left, project, desired, record, journal, copies, archival, bounds>>

\* `record_view_entry_removal`: a write of its own, which the schema takes
\* from the Project's running Clean up only.
RecordRemoval ==
    /\ at["command"] = "recordRemoval" /\ Active("command")
    /\ <<job["command"].gen, Row>> \notin removals
    /\ removals' = removals \cup {<<job["command"].gen, Row>>}
    /\ job' = [job EXCEPT !["command"] = Dropped(@)]
    /\ at' = [at EXCEPT !["command"] = "remove"]
    /\ UNCHANGED <<claim, runner, manifest, place, listed, previous, gen, project, desired, files,
                   journal, copies, archival, bounds>>

RefuseRemoval ==
    /\ at["command"] = "recordRemoval"
    /\ ~Active("command") \/ <<job["command"].gen, Row>> \in removals
    /\ Refused("command", "recordRemoval")

TrashLeftover ==
    /\ AtRow(Leftovers) /\ Row \in left
    /\ left' = left \ {Row}
    /\ job' = [job EXCEPT !["command"].touched = TRUE]
    /\ at' = [at EXCEPT !["command"] = "reviewLeftover"]
    /\ UNCHANGED <<claim, runner, view, folder, extra, deleted, project, desired, record, journal,
                   copies, archival, bounds>>

ReviewLeftover ==
    /\ at["command"] = "reviewLeftover"
    /\ listed' = listed \ {Row}
    /\ job' = [job EXCEPT !["command"] = Dropped(@)]
    /\ at' = [at EXCEPT !["command"] = "remove"]
    /\ UNCHANGED <<claim, runner, manifest, place, removals, previous, gen, project, desired, files,
                   journal, copies, archival, bounds>>

\* Every entry of the installed View is recorded removed and no folder stands.
ViewGone(standing) ==
    /\ \A s \in Entries : <<job["command"].gen, s>> \in removals
    /\ ~standing

\* `remove_emptied`: View/ goes once it holds nothing, View (previous)/ too.
EmptyFolders ==
    LET j     == job["command"]
        every == j.gen # 0 /\ \A s \in Entries : <<j.gen, s>> \in removals
        empty == ~extra /\ \A n \in Entries : view[n] = Nothing
        stays == folder /\ ~(every /\ empty)
    IN  /\ at["command"] = "remove" /\ j.rows = {}
        /\ folder' = stays
        /\ job' = [job EXCEPT !["command"].gone = (j.gen # 0 /\ ViewGone(stays))]
        /\ at' = [at EXCEPT !["command"] =
                     IF j.touched /\ left = {} /\ previous THEN "retirePrevious" ELSE "finishCleanUp"]
        /\ UNCHANGED <<claim, runner, view, extra, left, deleted, project, desired, record, journal,
                       copies, archival, bounds>>

RetirePrevious ==
    /\ at["command"] = "retirePrevious"
    /\ previous' = FALSE
    /\ Goto("command", "finishCleanUp")
    /\ UNCHANGED <<manifest, place, removals, listed, gen, project, desired, files, journal, copies,
                   archival, bounds>>

\* `finish_clean_up`: manifest, step and reservation in one transaction.
FinishCleanUp ==
    /\ at["command"] = "finishCleanUp" /\ Active("command")
    /\ manifest' = IF job["command"].gone THEN 0 ELSE manifest
    /\ FinishStep("cleanUp")
    /\ Return("command", "idle")
    /\ UNCHANGED <<place, removals, listed, previous, gen, desired, files, journal, copies,
                   archival, bounds>>

RefuseFinish ==
    /\ ~Active("command")
    /\ Refused("command", "finishCleanUp")

-----------------------------------------------------------------------------
(* Trash: journaled in one transaction, then driven by whoever holds the   *)
(* journal: the command, or recovery.                                      *)

CanMove == {c \in Copies : file[c] = "reviewed" /\ (FrameOf[c] = 0 \/ asset[c] = "live")}
Live(f) == {c \in Copies : FrameOf[c] = f /\ asset[c] = "live"}

\* The ticked rows: a rejected frame with every copy of it, or not at all.
AskTrash ==
    /\ at["command"] = "idle" /\ lifecycle = "open"
    /\ \E items \in SUBSET CanMove :
         /\ \A c \in items : FrameOf[c] # 0 => Live(FrameOf[c]) \subseteq items
         /\ job' = [job EXCEPT !["command"] =
                       [NoJob EXCEPT !.step = "trash", !.rev = rev, !.rows = items,
                                     !.outcome = IF CanMove = {} THEN "finished" ELSE "skipped"]]
         /\ at' = [at EXCEPT !["command"] = IF items = {} THEN "pass" ELSE "begin"]
    /\ UNCHANGED <<claim, runner, world>>

\* `begin_trash`: the reservation and the journal are one transaction.
BeginTrash ==
    /\ at["command"] = "begin" /\ job["command"].step = "trash"
    /\ RequireStep("trash", job["command"].rev)
    /\ Reserve("trash")
    /\ run' = ops + 1
    /\ storage' = "reviewed"
    /\ status' = [c \in Copies |-> IF c \in job["command"].rows THEN "pending" ELSE "out"]
    /\ marked' = {}
    /\ job' = [job EXCEPT !["command"] = [NoJob EXCEPT !.op = ops + 1]]
    /\ at' = [at EXCEPT !["command"] = "start"]
    /\ UNCHANGED <<claim, runner, lifecycle, steps, desired, record, files, copies, archival, bounds>>

Items      == {c \in Copies : status[c] # "out"}
OfFrame(f) == {c \in Items : FrameOf[c] = f}

TrashPlaces == {"start", "refuse", "refusing", "run", "retire", "observe", "recordTrashed", "mark",
                "finishTrash"}
\* A run of the latest Trash step's journal.
Drives(p, where) == at[p] = where /\ job[p].op = run

\* `start_storage_operation`; the frames of the journal are listed.
StartStorage(p) ==
    /\ Drives(p, "start")
    /\ storage' = IF storage = "reviewed" THEN "running" ELSE storage
    /\ job' = [job EXCEPT ![p].frames = {FrameOf[c] : c \in Items} \ {0}]
    /\ at' = [at EXCEPT ![p] = "refuse"]
    /\ UNCHANGED <<claim, runner, run, status, marked, project, desired, record, files, copies,
                   archival, bounds>>

\* `refuse_partial_frames`: nothing of the frame moved, and a copy cannot.
RefusedFrame(f) ==
    /\ \A c \in OfFrame(f) : status[c] = "pending"
    /\ \E c \in OfFrame(f) : file[c] # "reviewed"

CheckFrame(p) ==
    /\ Drives(p, "refuse") /\ job[p].frames # {}
    /\ LET f == Least(job[p].frames)
       IN  job' = [job EXCEPT ![p].frames = @ \ {f},
                              ![p].rows = IF RefusedFrame(f) THEN OfFrame(f) ELSE {}]
    /\ at' = [at EXCEPT ![p] = IF job'[p].rows = {} THEN "refuse" ELSE "refusing"]
    /\ UNCHANGED <<claim, runner, world>>

\* One write per copy, each against the revision read with the frame.
RefuseCopy(p) ==
    LET c == Least(job[p].rows)
    IN  /\ Drives(p, "refusing") /\ status[c] = "pending"
        /\ status' = [status EXCEPT ![c] = "refused"]
        /\ job' = [job EXCEPT ![p] = Dropped(@)]
        /\ at' = [at EXCEPT ![p] = IF job'[p].rows = {} THEN "refuse" ELSE "refusing"]
        /\ UNCHANGED <<claim, runner, run, storage, marked, project, desired, record, files, copies,
                       archival, bounds>>

RefuseStale(p) ==
    /\ Drives(p, "refusing") /\ status[Least(job[p].rows)] # "pending"
    /\ Refused(p, "refusing")

\* `Live::claim`: one run of a storage operation at a time.
ClaimStorage(p) ==
    /\ Drives(p, "refuse") /\ job[p].frames = {} /\ claim = "none"
    /\ claim' = p
    /\ at' = [at EXCEPT ![p] = "run"]
    /\ UNCHANGED <<job, runner, world>>

RefuseSecondRun(p) ==
    /\ Drives(p, "refuse") /\ job[p].frames = {} /\ claim # "none"
    /\ Refused(p, "refuse")

Unsettled == {c \in Items : status[c] \notin Settled}
Item      == Least(Unsettled)

SetStatus(s) == status' = [status EXCEPT ![Item] = s] /\ UNCHANGED <<run, storage, marked>>

\* variant: an item found in retirement is taken for moved.
ResumedTrashed == IF file[Item] = "reviewed" THEN "retiring" ELSE "trashed"
\* A resumed retirement whose source left is uncertain.
Resumed == IF file[Item] = "reviewed" THEN "retiring" ELSE "uncertain"

NextItem(p) ==
    /\ Drives(p, "run") /\ Unsettled # {}
    /\ SetStatus(IF status[Item] = "pending" THEN "retiring" ELSE Resumed)
    /\ Goto(p, IF status'[Item] = "retiring" THEN "retire" ELSE "run")
    /\ UNCHANGED <<project, desired, record, files, copies, archival, bounds>>

MoveToTrash(p) ==
    /\ Drives(p, "retire") /\ file[Item] = "reviewed"
    /\ file' = [file EXCEPT ![Item] = "gone"]
    /\ bin' = bin \cup {Item}
    /\ Goto(p, "observe")
    /\ UNCHANGED <<asset, project, desired, record, files, journal, archival, bounds>>

BlockMove(p) ==
    /\ Drives(p, "retire") /\ (file[Item] # "reviewed" \/ "refuse" \in World)
    /\ SetStatus("blocked")
    /\ Goto(p, "run")
    /\ UNCHANGED <<project, desired, record, files, copies, archival, bounds>>

SettleMove(p) ==
    /\ Drives(p, "observe")
    /\ SetStatus("trashed")
    /\ Goto(p, "run")
    /\ UNCHANGED <<project, desired, record, files, copies, archival, bounds>>

SettleStorage(p) ==
    /\ Drives(p, "run") /\ Unsettled = {}
    /\ storage' = "settled"
    /\ claim' = "none"
    /\ at' = [at EXCEPT ![p] = "recordTrashed"]
    /\ UNCHANGED <<job, runner, run, status, marked, project, desired, record, files, copies,
                   archival, bounds>>

Trashed == {c \in Items : status[c] = "trashed"}
\* Library copies the catalog has not taken yet; a Processing/ file has none.
Untaken == {c \in Trashed \ marked : FrameOf[c] # 0}

Taken == Untaken

\* `record_trashed`: every copy in one transaction, once each.
RecordTrashed(p) ==
    /\ Drives(p, "recordTrashed") /\ \A c \in Untaken : asset[c] # "retired"
    /\ asset' = [c \in Copies |-> IF c \in Taken THEN "trashed" ELSE asset[c]]
    /\ Goto(p, "mark")
    /\ UNCHANGED <<file, bin, project, desired, record, files, journal, archival, bounds>>

\* One copy of a location retired meanwhile refuses them all.
RefuseTrashed(p) ==
    /\ job[p].op = run /\ \E c \in Untaken : asset[c] = "retired"
    /\ Refused(p, "recordTrashed")

MarkRecorded(p) ==
    /\ Drives(p, "mark")
    /\ marked' = marked \cup Trashed
    /\ Goto(p, "finishTrash")
    /\ UNCHANGED <<run, storage, status, project, desired, record, files, copies, archival, bounds>>

FinishTrash(p) ==
    /\ Drives(p, "finishTrash") /\ Active(p)
    /\ FinishStep("trash")
    /\ Return(p, IF p = "command" THEN "idle" ELSE "archivesLeft")
    /\ UNCHANGED <<desired, record, files, journal, copies, archival, bounds>>

\* Another run finished this step: the end of this one finds its operation
\* settled, and its journal, recorded, leaves it nothing to do before that.
RefuseFinishTrash(p) ==
    \/ ~Active(p) /\ Refused(p, "finishTrash")
    \/ job[p].op # run /\ \E where \in TrashPlaces : Refused(p, where)

-----------------------------------------------------------------------------
(* Close and Sessions > Archive.  Which files move is left out: an archive *)
(* runs, may move records, and settles.                                    *)

SetArchive(a, s) == archive' = [archive EXCEPT ![a] = s]

\* `close_project`: step, snapshot, journal, reservation and lifecycle are one
\* transaction.
Close ==
    /\ at["command"] = "idle" /\ RequireStep("archive", rev)
    /\ \/ /\ Reserve("archive")
          /\ lifecycle' = "closing"
          /\ steps' = [steps EXCEPT !["archive"] = "finished"]
          /\ SetArchive("own", "unsettled")
          /\ job' = [job EXCEPT !["command"].archives = {"own"}]
          /\ at' = [at EXCEPT !["command"] = "archives"]
       \/ /\ lifecycle' = "closed"
          /\ steps' = [steps EXCEPT !["archive"] = "skipped"]
          /\ UNCHANGED <<op, ops, archive, job, at>>
    /\ UNCHANGED <<moved, claim, runner, desired, record, files, journal, copies, bounds>>

\* `begin_sessions_archive`: no Project takes part.
ArchiveSessions ==
    /\ at["command"] = "idle" /\ archive["other"] = "none"
    /\ SetArchive("other", "unsettled")
    /\ job' = [job EXCEPT !["command"].archives = {"other"}]
    /\ at' = [at EXCEPT !["command"] = "archives"]
    /\ UNCHANGED <<moved, claim, runner, project, desired, record, files, journal, copies, bounds>>

\* `run_archive`: one run of an archive at a time.
RunArchive(p) ==
    /\ at[p] = "archives"
    /\ \E a \in job[p].archives :
         /\ runner[a] = "none"
         /\ runner' = [runner EXCEPT ![a] = p]
    /\ at' = [at EXCEPT ![p] = "move"]
    /\ UNCHANGED <<job, claim, world>>

RefuseSecondArchive(p) ==
    /\ \E a \in job[p].archives : runner[a] # "none"
    /\ Refused(p, "archives")

\* A record of the Project's archive moves to it.
MoveRecord(p) ==
    /\ at[p] = "move" /\ runner["own"] = p /\ archive["own"] = "unsettled" /\ ~moved
    /\ moved' = TRUE
    /\ UNCHANGED <<archive, process, project, desired, record, files, journal, copies, bounds>>

SettledLifecycle == IF moved THEN "archived" ELSE "closed"

\* `settle_archive`: the operation, if still active, and the lifecycle.
SettleArchive(p) ==
    /\ at[p] = "move"
    /\ \E a \in Archives :
         /\ runner[a] = p
         /\ SetArchive(a, "settled")
         /\ IF a = "own" /\ lifecycle = "closing"
            THEN lifecycle' = SettledLifecycle /\ op' = NoOp
            ELSE UNCHANGED <<lifecycle, op>>
         /\ job' = [job EXCEPT ![p].archives = @ \ {a}]
         /\ runner' = [runner EXCEPT ![a] = "none"]
    /\ at' = [at EXCEPT ![p] = "archives"]
    /\ UNCHANGED <<claim, moved, steps, ops, desired, record, files, journal, copies, bounds>>

EndArchives(p) ==
    /\ at[p] = "archives" /\ job[p].archives = {}
    /\ Return(p, IF p = "command" THEN "idle" ELSE "done")
    /\ UNCHANGED world

-----------------------------------------------------------------------------
(* Recovery: `recover_wrap_up`, beside the commands of the same start.     *)

ListCleanUps ==
    /\ at["recovery"] = "cleanUps"
    /\ IF op.kind = "cleanUp"
       THEN /\ job' = [job EXCEPT !["recovery"].op = op.id]
            /\ at' = [at EXCEPT !["recovery"] = "release"]
       ELSE /\ at' = [at EXCEPT !["recovery"] = "trashes"]
            /\ UNCHANGED job
    /\ UNCHANGED <<claim, runner, world>>

\* `settle_interrupted_operation`: the step is not recorded.
ReleaseCleanUp ==
    /\ at["recovery"] = "release" /\ Active("recovery")
    /\ op' = NoOp
    /\ Return("recovery", "trashes")
    /\ UNCHANGED <<lifecycle, steps, ops, desired, record, files, journal, copies, archival, bounds>>

RefuseRelease ==
    /\ ~Active("recovery")
    /\ Refused("recovery", "release")

ListTrashes ==
    /\ at["recovery"] = "trashes"
    /\ IF op.kind = "trash"
       THEN /\ job' = [job EXCEPT !["recovery"].op = op.id]
            /\ at' = [at EXCEPT !["recovery"] = "start"]
       ELSE /\ at' = [at EXCEPT !["recovery"] = "archivesLeft"]
            /\ UNCHANGED job
    /\ UNCHANGED <<claim, runner, world>>

\* variant: only the archives of closing Projects are found again.
UnsettledOwn == {a \in Archives : a = "own" /\ archive[a] = "unsettled"}
\* `unsettled_archives`.
UnsettledArchives == {a \in Archives : archive[a] = "unsettled"}

ListArchives ==
    /\ at["recovery"] = "archivesLeft"
    /\ job' = [job EXCEPT !["recovery"].archives = UnsettledArchives]
    /\ at' = [at EXCEPT !["recovery"] = "archives"]
    /\ UNCHANGED <<claim, runner, world>>

Recover == ListCleanUps \/ ReleaseCleanUp \/ RefuseRelease \/ ListTrashes \/ ListArchives

-----------------------------------------------------------------------------
(* Faults, starts, the other operations and the outside.                   *)

Resting == {"idle", "done", "stopped", "down"}

\* A call fails: a read, a write of the catalog, a folder that is not there.
Fail(p) ==
    /\ faults < MaxFaults /\ at[p] \notin Resting
    /\ Return(p, Fails(p))
    /\ faults' = faults + 1
    /\ UNCHANGED <<changes, project, desired, record, files, journal, copies, archival>>

Down ==
    /\ at' = [p \in Procs |-> "down"]
    /\ job' = [p \in Procs |-> NoJob]
    /\ claim' = "none"
    /\ runner' = [a \in Archives |-> "none"]
    /\ UNCHANGED <<project, desired, record, files, journal, copies, archival>>

Crash ==
    /\ faults < MaxFaults /\ at["command"] # "down"
    /\ Down
    /\ faults' = faults + 1
    /\ UNCHANGED changes

\* The user quits while nothing runs and something is left to recover.
Quit ==
    /\ \A p \in Procs : at[p] \in {"idle", "done", "stopped"}
    /\ op.kind \in Steps \/ UnsettledArchives # {}
    /\ Down
    /\ UNCHANGED bounds

\* Recovery runs beside the event loop: a command may start before it reads.
Start ==
    /\ at["command"] = "down"
    /\ at' = [p \in Procs |-> IF p = "command" THEN "idle" ELSE "cleanUps"]
    /\ UNCHANGED <<job, claim, runner, world>>

Idle == at["command"] # "down"

Reopen(step) ==
    /\ at["command"] = "idle" /\ lifecycle = "open" /\ op = NoOp
    /\ steps' = [s \in Steps |-> IF Position[s] >= Position[step] THEN "none" ELSE steps[s]]
    /\ UNCHANGED <<lifecycle, op, ops, process, desired, record, files, journal, copies, archival,
                   bounds>>

EditDesired ==
    /\ Idle /\ lifecycle = "open" /\ rev < MaxRev
    /\ rev' = rev + 1
    /\ UNCHANGED <<applied, project, process, record, files, journal, copies, archival, bounds>>

\* An Apply waits for the review of every leftover.
BeginOther(kind) ==
    /\ Idle /\ lifecycle = "open" /\ op = NoOp
    /\ kind = "apply" => listed = {} /\ gen < MaxGen
    /\ Reserve(kind)
    /\ UNCHANGED <<lifecycle, steps, process, desired, record, files, journal, copies, archival,
                   bounds>>

\* It ends without effect, by itself or by its own recovery.
EndOther ==
    /\ op.kind \in {"apply", "copyToOutput"}
    /\ op' = NoOp
    /\ UNCHANGED <<lifecycle, steps, ops, process, desired, record, files, journal, copies, archival,
                   bounds>>

\* A new View: what is not PlateVault's of the old one stays for review.
InstallView ==
    /\ op.kind = "apply"
    /\ op' = NoOp
    /\ gen' = gen + 1 /\ manifest' = gen + 1 /\ applied' = rev
    /\ place' \in Layouts
    /\ view' = [n \in Entries |-> <<gen + 1, CHOOSE s \in Entries : place'[s] = n>>]
    /\ folder' = TRUE /\ extra' = FALSE
    /\ left' = (IF extra \/ \E n \in Entries : view[n] = Foreign THEN Leftovers ELSE {})
    /\ listed' = left' /\ previous' = (left' # {})
    /\ UNCHANGED <<deleted, removals, rev, lifecycle, steps, ops, process, journal, copies, archival,
                   bounds>>

ChangeEntry(n) ==
    /\ view[n] # Nothing
    /\ view' = [view EXCEPT ![n] = IF @ = Foreign THEN Nothing ELSE Foreign]
    /\ UNCHANGED <<folder, extra, left, deleted, copies>>

AddFile ==
    /\ folder /\ ~extra
    /\ extra' = TRUE
    /\ UNCHANGED <<view, folder, left, deleted, copies>>

ChangeCopy(c) ==
    /\ file[c] = "reviewed"
    /\ file' = [file EXCEPT ![c] = "changed"]
    /\ UNCHANGED <<files, bin, asset>>

\* `retire_location`, of a copy's location: nothing there asks whether a
\* storage operation still has to record it.
RetireLocation(c) ==
    /\ FrameOf[c] # 0 /\ asset[c] = "live"
    /\ asset' = [asset EXCEPT ![c] = "retired"]
    /\ UNCHANGED <<files, file, bin>>

Outside ==
    /\ changes < MaxChanges
    /\ changes' = changes + 1
    /\ \/ "entry" \in World /\ \E n \in Entries : ChangeEntry(n)
       \/ "extra" \in World /\ AddFile
       \/ "copy" \in World /\ \E c \in Copies : ChangeCopy(c)
       \/ "retire" \in World /\ \E c \in Copies : RetireLocation(c)
    /\ UNCHANGED <<faults, project, desired, record, journal, archival, process>>

\* What the user's command does once asked, and what recovery does.
CleanUpRuns ==
    \/ PassStep \/ RefuseStep \/ BeginCleanUp
    \/ KeepRow \/ RemoveEntry \/ RecordRemoval \/ RefuseRemoval
    \/ TrashLeftover \/ ReviewLeftover
    \/ EmptyFolders \/ RetirePrevious \/ FinishCleanUp \/ RefuseFinish

TrashRuns(p) ==
    \/ StartStorage(p) \/ CheckFrame(p) \/ RefuseCopy(p) \/ RefuseStale(p)
    \/ ClaimStorage(p) \/ RefuseSecondRun(p) \/ NextItem(p)
    \/ MoveToTrash(p) \/ BlockMove(p) \/ SettleMove(p) \/ SettleStorage(p)
    \/ RecordTrashed(p) \/ RefuseTrashed(p) \/ MarkRecorded(p)
    \/ FinishTrash(p) \/ RefuseFinishTrash(p)

ArchiveRuns(p) ==
    RunArchive(p) \/ RefuseSecondArchive(p) \/ MoveRecord(p) \/ SettleArchive(p) \/ EndArchives(p)

Runs(p) ==
    \/ p = "command" /\ (CleanUpRuns \/ BeginTrash)
    \/ p = "recovery" /\ Recover
    \/ TrashRuns(p) \/ ArchiveRuns(p)

Asks ==
    \/ AskCleanUp \/ AskTrash \/ Close \/ ArchiveSessions
    \/ \E step \in Steps : Reopen(step)
    \/ EditDesired
    \/ \E kind \in {"apply", "copyToOutput"} : BeginOther(kind)

Next ==
    \/ Asks
    \/ \E p \in Procs : Runs(p)
    \/ EndOther \/ InstallView
    \/ Outside
    \/ \E p \in Procs : Fail(p)
    \/ Crash \/ Quit \/ Start

Spec == Init /\ [][Next]_vars

\* What was asked for goes on, an Apply or a copy ends, and PlateVault starts
\* again after a crash and is quit sooner or later when something is left over.
FairSpec ==
    /\ Spec
    /\ \A p \in Procs : WF_vars(Runs(p))
    /\ WF_vars(EndOther \/ InstallView)
    /\ WF_vars(Start)
    /\ SF_vars(Quit)

-----------------------------------------------------------------------------
(* Properties.                                                             *)

Places ==
    Resting \cup
    {"pass", "begin", "remove", "recordRemoval", "reviewLeftover", "retirePrevious",
     "finishCleanUp", "archives", "move", "cleanUps", "release", "trashes", "archivesLeft"}
    \cup TrashPlaces

\* The variables keep their types.
TypeOK ==
    /\ lifecycle \in {"open", "closing", "closed", "archived"}
    /\ op \in [id : 0..MaxOps, kind : Kinds \cup {"none"}] /\ ops \in 0..MaxOps
    /\ steps \in [Steps -> {"none", "finished", "skipped"}]
    /\ rev \in 1..MaxRev /\ applied \in 1..MaxRev
    /\ manifest \in 0..MaxGen /\ gen \in 1..MaxGen /\ place \in Layouts
    /\ removals \subseteq (1..MaxGen) \X Entries
    /\ listed \subseteq Leftovers /\ left \subseteq Leftovers /\ previous \in BOOLEAN
    /\ view \in [Entries -> ((1..MaxGen) \X Entries) \cup {Nothing, Foreign}]
    /\ deleted \subseteq (1..MaxGen) \X Entries
    /\ folder \in BOOLEAN /\ extra \in BOOLEAN
    /\ run \in 0..MaxOps /\ storage \in {"none", "reviewed", "running", "settled"}
    /\ status \in [Copies -> Status] /\ marked \subseteq Copies
    /\ file \in [Copies -> {"reviewed", "changed", "gone"}] /\ bin \subseteq Copies
    /\ asset \in [Copies -> {"live", "trashed", "retired"}]
    /\ archive \in [Archives -> {"none", "unsettled", "settled"}] /\ moved \in BOOLEAN
    /\ at \in [Procs -> Places]
    /\ claim \in Procs \cup {"none"} /\ runner \in [Archives -> Procs \cup {"none"}]
    /\ faults \in 0..MaxFaults /\ changes \in 0..MaxChanges

\* The two runs of Wrap up, the errors that end them, every crash and the
\* recovery beside the next command keep what a Project's lifecycle promises:
\* one operation at a time, steps once each and in order, Closing exactly
\* while the archive runs (project_lifecycle.sql, `require_step`,
\* `finish_step`, `settle_archive`).
Promised == INSTANCE ProjectLifecycle WITH running <- op.kind
ImplementsLifecycle == Promised!Spec

\* A View entry recorded removed is one Clean up took from View/: a sheet
\* reviewed before another Apply records nothing of the View that came after
\* it, and a file the user put at its name stays (`remove_placed`,
\* `record_view_entry_removal`).  With no manifest installed nothing of a View
\* stands: a View is forgotten only whole (`remove_emptied`, `finish_clean_up`).
RecordedIsRemoved ==
    /\ removals \subseteq deleted
    /\ manifest = 0 => ~folder /\ \A n \in Entries : view[n] = Nothing

\* A Project is locked with the View its desired state describes, though
\* edits, Applies and steps may follow each other in any order before
\* (`pending_changes`, `wrap_up_opens`, `require_step`).
LockedIsApplied == lifecycle # "open" /\ manifest # 0 => applied = rev

\* The catalog calls a copy Trashed only when it is in the Trash, moved there
\* by this step, and once the step let go of the Project every file it moved is
\* recorded moved, by the run that moved it or by one that resumed it
\* (`StorageJournal`'s resumed retirement, `record_trashed`, `drive_trash`).
RecordedIsTrashed ==
    /\ \A c \in Copies : asset[c] = "trashed" => c \in bin
    /\ run # 0 /\ op.id # run =>
          \A c \in Items :
              /\ status[c] \in Settled
              /\ status[c] = "trashed" /\ FrameOf[c] # 0 => asset[c] = "trashed"

\* A rejected frame moves whole or not at all (wrap_up/trash.rs:27): none of
\* its copies moves once one of them was refused for it.
FrameWhole ==
    \A c, d \in Items :
        FrameOf[c] # 0 /\ FrameOf[c] = FrameOf[d] /\ status[c] = "refused" => status[d] # "trashed"

\* What a stop left of Wrap up settles: no step keeps the Project reserved for
\* good and every archive ends, with PlateVault started again after it
\* (`recover_wrap_up`), unless a location was retired under a Trash step
\* (TrashRunsToItsEnd).
WrapUpSettles ==
    LET LocationGone == \E c \in Copies : asset[c] = "retired" IN
    /\ \A n \in 1..MaxOps : (op.id = n /\ op.kind \in Steps) ~> (op.id # n \/ LocationGone)
    /\ \A a \in Archives : (archive[a] = "unsettled") ~> (archive[a] = "settled" \/ LocationGone)

\* A Trash step found running at a start runs to its end (wrap_up.rs:117).
TrashRunsToItsEnd == \A n \in 1..MaxOps : (op.id = n /\ op.kind = "trash") ~> (op.id # n)
=============================================================================
