------------------------------- MODULE Output -------------------------------
(***************************************************************************)
(* Copy to Output and the Output watch.  A command reserves its Project,   *)
(* has the storage journal copy one file to a name in Output/ and lists    *)
(* it; the watch first finishes the copies an earlier process left, then   *)
(* walks each open Project's Output/ and records what it finds, also what  *)
(* tools and the user save there.                                          *)
(*                                                                         *)
(* Sources: crates/platevault-core/src/project_output.rs,                  *)
(* project_output/watch.rs, custody/{journal,transfer}.rs and              *)
(* crates/persistence/library/src/project_output.{rs,sql}.  Each Project   *)
(* has one name in Output/.  The steps of a transfer are StorageJournal's; *)
(* here a copy is installed by one rename.  Masters in Processing/ and the *)
(* folder watcher's events are left out: a pass may begin at any time.     *)
(***************************************************************************)
EXTENDS Integers, Sequences, FiniteSets

CONSTANTS
    Projects,    \* open Projects with a processing location
    MaxCopies,   \* bound: copies a Project begins
    MaxWrites,   \* bound: contents standing at the names, one after the other
    MaxFaults,   \* bound: crashes
    MaxChanges,  \* bound: changes from outside
    World        \* what the outside may do in this instance

\* A tool or the user saves a file at a name, or deletes it; a Project's volume
\* goes away; the writer of a file keeps it from being fingerprinted; a transfer
\* is refused for its source; the user gives a listed file a Kind; a Project is
\* closed.
WorldEvents == {"save", "delete", "unmount", "hold", "source", "kind", "close"}

ASSUME InstanceAssumption ==
    /\ IsFiniteSet(Projects)
    /\ MaxCopies \in Nat /\ MaxWrites \in Nat /\ MaxFaults \in Nat /\ MaxChanges \in Nat
    /\ World \subseteq WorldEvents

\* A fingerprint is the number of its write; 0 is no file, or none that reads.
Prints == 0..MaxWrites
Nobody == 0

VARIABLES
    \* the disk
    file,     \* at each name: its fingerprint and whose file it is
    up,       \* whether the Project's folder is there
    partial,  \* whether the running copy's partial file stands beside it
    \* the catalog
    open,     \* whether the Project is open
    row,      \* what the Output step lists at the name
    copying,  \* the Projects with a copy unsettled, oldest first
    copies,   \* how many copies each recorded: its last is the one unsettled
    phase,    \* of the last copy's storage item
    \* the process
    live,     \* who runs each storage operation: its command or the watch
    cmd,      \* the command of each Project: where it stands, its copy, what it probed
    watch,    \* the watch: where it stands and what it holds
    seen,     \* its memory of each file (`Settler`)
    \* ghosts
    listed,   \* the file is a listed copy nobody touched since
    given,    \* the Kind the user gave it since it was listed
    met,      \* the fingerprints walks found at the name: once, and again
    \* bounds
    writes, faults, changes

disk    == <<file, up, partial>>
catalog == <<open, row, copying, copies, phase>>
process == <<live, cmd, watch, seen>>
ghosts  == <<listed, given, met>>
bounds  == <<writes, faults, changes>>
vars    == <<file, up, partial, open, row, copying, copies, phase, live, cmd, watch, seen,
             listed, given, met, writes, faults, changes>>

NoFile == [print |-> 0, by |-> "none"]
NoRow  == [state |-> "none", print |-> 0, origin |-> "none", kind |-> FALSE]
Unseen == [print |-> 0, settled |-> FALSE]
Idle   == [at |-> "idle", copy |-> 0, print |-> 0]
\* `until_stopped` begins with `resume_output_copies`.
Started == [at |-> "start", queue |-> <<>>, copy |-> 0, print |-> 0, project |-> Nobody,
            copies |-> 0, settled |-> 0, found |-> "none"]

Files == [print : Prints, by : {"none", "copy", "edited", "other"}]
Rows  == [state : {"none", "settling", "settled", "unreadable"}, print : Prints,
          origin : {"none", "observed", "copied"}, kind : BOOLEAN]

Init ==
    /\ file = [p \in Projects |-> NoFile]
    /\ up = [p \in Projects |-> TRUE] /\ partial = [p \in Projects |-> FALSE]
    /\ open = [p \in Projects |-> TRUE] /\ row = [p \in Projects |-> NoRow]
    /\ copying = <<>> /\ copies = [p \in Projects |-> 0]
    /\ phase = [p \in Projects |-> "none"]
    /\ live = [p \in Projects |-> "none"] /\ cmd = [p \in Projects |-> Idle]
    /\ watch = Started /\ seen = [p \in Projects |-> Unseen]
    /\ listed = [p \in Projects |-> FALSE] /\ given = [p \in Projects |-> FALSE]
    /\ met = [p \in Projects |-> [once |-> {}, again |-> {}]]
    /\ writes = 0 /\ faults = 0 /\ changes = 0

-----------------------------------------------------------------------------
(* Helpers.  A definition marked `variant` is what a slip in the code it   *)
(* stands beside would make of that code; no action uses one.              *)

Put(v, p, x) == [v EXCEPT ![p] = x]
Stands(p)    == up[p] /\ file[p] # NoFile
Unfinished   == {copying[i] : i \in DOMAIN copying}
Ended(p)     == phase[p] \in {"copied", "blocked"}

-----------------------------------------------------------------------------
(* The storage operation of a copy, advanced by whoever claimed it.        *)

Runs(p) ==
    \/ live[p] = "command" /\ cmd[p].at = "run"
    \/ live[p] = "watch" /\ watch.at = "run"

Record(p, ph) == phase' = Put(phase, p, ph) /\ UNCHANGED <<open, row, copying, copies>>

\* `transfer::begin`: the name is vacant and the partial is made, or it blocks.
Begin(p) ==
    /\ Runs(p) /\ phase[p] = "pending"
    /\ IF up[p] /\ file[p] = NoFile
       THEN Record(p, "writing") /\ partial' = Put(partial, p, TRUE)
       ELSE Record(p, "blocked") /\ UNCHANGED partial
    /\ UNCHANGED <<file, up, process, ghosts, bounds>>

\* `transfer::write`: the filled partial is renamed to the name, replacing
\* nothing.
Install(p) ==
    /\ Runs(p) /\ phase[p] = "writing" /\ partial[p]
    /\ up[p] /\ file[p] = NoFile /\ writes < MaxWrites
    /\ file' = Put(file, p, [print |-> writes + 1, by |-> "copy"])
    /\ partial' = Put(partial, p, FALSE) /\ writes' = writes + 1
    /\ UNCHANGED <<up, catalog, process, ghosts, faults, changes>>

\* The install is refused: the name is taken, the folder or the source is away.
InstallFails(p) ==
    /\ Runs(p) /\ phase[p] = "writing" /\ partial[p]
    /\ ~up[p] \/ file[p] # NoFile \/ "source" \in World
    /\ Record(p, "blocked") /\ partial' = Put(partial, p, FALSE)
    /\ UNCHANGED <<file, up, process, ghosts, bounds>>

\* With no partial left the file at the name is the recorded copy, or nothing
\* tells where it went: also when an earlier process installed it.
RecordInstalled(p) ==
    /\ Runs(p) /\ phase[p] = "writing" /\ ~partial[p]
    /\ Record(p, IF up[p] /\ file[p].by \in {"copy", "edited"} THEN "installed" ELSE "blocked")
    /\ UNCHANGED <<disk, process, ghosts, bounds>>

\* `transfer::verify`: the copy is read again.
Verify(p) ==
    /\ Runs(p) /\ phase[p] = "installed"
    /\ Record(p, IF up[p] /\ file[p].by = "copy" THEN "copied" ELSE "blocked")
    /\ UNCHANGED <<disk, process, ghosts, bounds>>

-----------------------------------------------------------------------------
(* Listing a copy: `settle_output_copy` after its storage operation, and   *)
(* `finish_output_copy`.                                                   *)

\* Both are for whoever settles the copy: a command, or the watch.
Probed(p) == IF phase[p] = "copied" THEN file[p].print ELSE 0

\* The copy is the unsettled one of its Project.
Current(p, copy) == p \in Unfinished /\ copies[p] = copy

\* The others in their order; a Project stands in it once.
Without(p) ==
    LET i == CHOOSE i \in DOMAIN copying : copying[i] = p
    IN  [j \in 1..Len(copying) - 1 |-> copying[IF j < i THEN j ELSE j + 1]]

\* variant: a blocked copy leaves its Project reserved.
SettledKept(p) == IF phase[p] = "copied" THEN Without(p) ELSE copying
\* `settle_operation`
Settled(p)     == Without(p)

Finish(p, print) ==
    /\ copying' = Settled(p)
    /\ IF phase[p] = "copied"
       THEN /\ row' = Put(row, p, [state |-> "settled", print |-> print, origin |-> "copied",
                                   kind |-> FALSE])
            /\ listed' = Put(listed, p, file[p].print = print)
            /\ given' = Put(given, p, FALSE)
       ELSE UNCHANGED <<row, listed, given>>
    /\ UNCHANGED <<disk, open, copies, phase, live, seen, met, bounds>>

-----------------------------------------------------------------------------
(* The command: `copy_to_output`.                                          *)

Goes(p, c) == cmd' = Put(cmd, p, c)

\* The Project is open and nothing stands at the name.
Ask(p) ==
    /\ cmd[p].at = "idle" /\ open[p] /\ ~Stands(p) /\ copies[p] < MaxCopies
    /\ Goes(p, [Idle EXCEPT !.at = "reviewed"])
    /\ UNCHANGED <<disk, catalog, live, watch, seen, ghosts, bounds>>

\* `begin_output_copy` reserves the Project and records the copy in one
\* transaction, or refuses.
Reserve(p) ==
    /\ cmd[p].at = "reviewed"
    /\ IF open[p] /\ p \notin Unfinished /\ row[p] = NoRow
       THEN /\ copying' = Append(copying, p) /\ copies' = Put(copies, p, copies[p] + 1)
            /\ phase' = Put(phase, p, "pending")
            /\ Goes(p, [at |-> "claim", copy |-> copies[p] + 1, print |-> 0])
       ELSE Goes(p, Idle) /\ UNCHANGED <<copying, copies, phase>>
    /\ UNCHANGED <<disk, open, row, live, watch, seen, ghosts, bounds>>

\* `Live::claim`: an operation another call advances is refused.
Claim(p) ==
    /\ cmd[p].at = "claim"
    /\ IF live[p] = "none"
       THEN Goes(p, [cmd[p] EXCEPT !.at = "run"]) /\ live' = Put(live, p, "command")
       ELSE Goes(p, Idle) /\ UNCHANGED live
    /\ UNCHANGED <<disk, catalog, watch, seen, ghosts, bounds>>

RunEnds(p) ==
    /\ cmd[p].at = "run" /\ Ended(p)
    /\ Goes(p, [cmd[p] EXCEPT !.at = "probe"]) /\ live' = Put(live, p, "none")
    /\ UNCHANGED <<disk, catalog, watch, seen, ghosts, bounds>>

\* A verified copy that can't be read ends the command with an error.
Probe(p) ==
    /\ cmd[p].at = "probe"
    /\ IF phase[p] = "copied" /\ ~Stands(p)
       THEN Goes(p, Idle)
       ELSE Goes(p, [cmd[p] EXCEPT !.at = "finish", !.print = Probed(p)])
    /\ UNCHANGED <<disk, catalog, live, watch, seen, ghosts, bounds>>

\* A copy the watch settled in the meantime is not found.
CommandEnds(p) ==
    /\ cmd[p].at = "finish" /\ Goes(p, Idle) /\ UNCHANGED watch
    /\ IF Current(p, cmd[p].copy)
       THEN Finish(p, cmd[p].print)
       ELSE UNCHANGED <<disk, catalog, live, seen, ghosts, bounds>>

Command(p) == Reserve(p) \/ Claim(p) \/ RunEnds(p) \/ Probe(p) \/ CommandEnds(p)
Transfer(p) == Begin(p) \/ Install(p) \/ InstallFails(p) \/ RecordInstalled(p) \/ Verify(p)

-----------------------------------------------------------------------------
(* The watch starts: `resume_output_copies`, oldest first.  An error ends  *)
(* the resumption, and the passes begin.                                   *)

ReadUnfinished ==
    /\ watch.at = "start"
    /\ watch' = [watch EXCEPT !.at = "resume",
                              !.queue = [i \in DOMAIN copying |-> [project |-> copying[i],
                                                                   copy |-> copies[copying[i]]]]]
    /\ UNCHANGED <<disk, catalog, live, cmd, seen, ghosts, bounds>>

Passes == [Started EXCEPT !.at = "idle"]

\* `run_storage_operation`: a settled operation is read, one a command advances
\* is refused.  A copy settled since it was read is not found.
ResumeNext ==
    /\ watch.at = "resume" /\ watch.queue # <<>>
    /\ LET next == Head(watch.queue)
           p    == next.project
       IN  IF ~Current(p, next.copy) \/ live[p] # "none"
           THEN watch' = Passes /\ UNCHANGED live
           ELSE /\ watch' = [watch EXCEPT !.at = IF Ended(p) THEN "probe" ELSE "run",
                                          !.project = p, !.copy = next.copy]
                /\ live' = IF Ended(p) THEN live ELSE Put(live, p, "watch")
    /\ UNCHANGED <<disk, catalog, cmd, seen, ghosts, bounds>>

ResumedRan ==
    /\ watch.at = "run" /\ Ended(watch.project)
    /\ watch' = [watch EXCEPT !.at = "probe"] /\ live' = Put(live, watch.project, "none")
    /\ UNCHANGED <<disk, catalog, cmd, seen, ghosts, bounds>>

ResumedProbe ==
    /\ watch.at = "probe"
    /\ LET p == watch.project IN
          watch' = IF phase[p] = "copied" /\ ~Stands(p) THEN Passes
                   ELSE [watch EXCEPT !.at = "finish", !.print = Probed(p)]
    /\ UNCHANGED <<disk, catalog, live, cmd, seen, ghosts, bounds>>

ResumedEnds ==
    /\ watch.at = "finish" /\ UNCHANGED cmd
    /\ IF Current(watch.project, watch.copy)
       THEN /\ Finish(watch.project, watch.print)
            /\ watch' = [Started EXCEPT !.at = "resume", !.queue = Tail(watch.queue)]
       ELSE /\ watch' = Passes
            /\ UNCHANGED <<disk, catalog, live, seen, ghosts, bounds>>

ResumeEnds ==
    /\ watch.at = "resume" /\ watch.queue = <<>> /\ watch' = Passes
    /\ UNCHANGED <<disk, catalog, live, cmd, seen, ghosts, bounds>>

Resume == ReadUnfinished \/ ResumeNext \/ ResumedRan \/ ResumedProbe \/ ResumedEnds \/ ResumeEnds

-----------------------------------------------------------------------------
(* A pass over one Project (`Watched::pass`), one after the other.         *)

\* The basis: a pass meets a running copy and waits.
ReadBasis(p) ==
    /\ watch.at = "idle" /\ open[p] /\ p \notin Unfinished
    /\ watch' = [watch EXCEPT !.at = "look", !.project = p, !.copies = copies[p],
                              !.settled = IF row[p].state = "settled" THEN row[p].print ELSE 0]
    /\ UNCHANGED <<disk, catalog, live, cmd, seen, ghosts, bounds>>

\* `walk_output`: the Project's folder, then what lies below.
Look ==
    /\ watch.at = "look"
    /\ watch' = IF up[watch.project] THEN [watch EXCEPT !.at = "list"]
                ELSE [watch EXCEPT !.at = "settle", !.found = "unreadable"]
    /\ UNCHANGED <<disk, catalog, live, cmd, seen, ghosts, bounds>>

Sighted(p, n) ==
    met' = [met EXCEPT ![p] = [once  |-> @.once \cup {n},
                               again |-> IF n \in @.once THEN @.again \cup {n} ELSE @.again]]

\* A file that is not there any more, with its folder or alone, is not found;
\* one its writer holds is found without a fingerprint.  Whoever touches a
\* file or takes its volume away under a walk touched a listed copy.
List ==
    LET p == watch.project IN
    /\ watch.at = "list"
    /\ \/ /\ ~Stands(p)
          /\ watch' = [watch EXCEPT !.at = "settle", !.found = "nothing"]
          /\ listed' = Put(listed, p, FALSE) /\ UNCHANGED <<met, changes>>
       \/ /\ Stands(p) /\ Sighted(p, file[p].print)
          /\ watch' = [watch EXCEPT !.at = "settle", !.found = "file", !.print = file[p].print]
          /\ UNCHANGED <<listed, changes>>
       \/ /\ Stands(p) /\ "hold" \in World /\ changes < MaxChanges /\ changes' = changes + 1
          /\ watch' = [watch EXCEPT !.at = "settle", !.found = "held"]
          /\ listed' = Put(listed, p, FALSE) /\ UNCHANGED met
    /\ UNCHANGED <<disk, catalog, live, cmd, seen, given, writes, faults>>

\* variant: a file recorded Settled stays so whatever it now reads.
SettledBefore(p) == watch.settled # 0
\* `scanned`: recorded Settled with the fingerprint found now.
RecordedSettled(p) == watch.settled = watch.print

\* variant: what held across an earlier window has to hold across this one too.
RememberedAnew(p, aged) ==
    IF watch.found # "file" THEN Unseen
    ELSE [print |-> watch.print, settled |-> aged /\ seen[p].print = watch.print]
\* `Settler::state`: settled once the fingerprint held across the window.
Remembered(p, aged) ==
    IF watch.found \in {"nothing", "held"} THEN Unseen
    ELSE IF watch.found = "unreadable" THEN seen[p]
    ELSE IF seen[p].print = watch.print
    THEN [print |-> watch.print, settled |-> seen[p].settled \/ aged]
    ELSE [print |-> watch.print, settled |-> RecordedSettled(p)]

Settle(aged) ==
    /\ watch.at = "settle"
    /\ seen' = Put(seen, watch.project, Remembered(watch.project, aged))
    /\ watch' = [watch EXCEPT !.at = "record"]
    /\ UNCHANGED <<disk, catalog, live, cmd, ghosts, bounds>>

\* `observed`: a found file keeps its Kind, and stays Copied while it reads as
\* the copy does.
Observed(p) ==
    LET same == row[p].origin = "copied" /\ watch.found = "file" /\ row[p].print = watch.print
    IN  [state  |-> IF watch.found = "file" /\ seen[p].settled THEN "settled" ELSE "settling",
         print  |-> watch.print,
         origin |-> IF same THEN "copied" ELSE "observed",
         kind   |-> row[p].kind]

\* `apply_scan`
Scanned(p) ==
    CASE watch.found = "nothing"    -> NoRow
      [] watch.found = "unreadable" -> IF row[p] = NoRow THEN NoRow
                                       ELSE [row[p] EXCEPT !.state = "unreadable"]
      [] OTHER                      -> Observed(p)

\* variant: only a copy that still runs makes a pass stale.
StaleWhileCopying(p) == p \in Unfinished
\* `record_output_scan`: a copy started since the pass read its basis.
Stale(p) == p \in Unfinished \/ copies[p] # watch.copies

\* A Project closed meanwhile is refused.
RecordScan ==
    LET p == watch.project IN
    /\ watch.at = "record" /\ watch' = Passes
    /\ row' = IF open[p] /\ ~Stale(p) THEN Put(row, p, Scanned(p)) ELSE row
    /\ UNCHANGED <<disk, open, copying, copies, phase, live, cmd, seen, ghosts, bounds>>

Pass == Look \/ List \/ Settle(TRUE) \/ Settle(FALSE) \/ RecordScan

-----------------------------------------------------------------------------
(* The user, tools, and the end of the process.                            *)

Outside(event) ==
    /\ event \in World /\ changes < MaxChanges /\ changes' = changes + 1
    /\ UNCHANGED <<partial, copying, copies, phase, process, met, faults>>

\* Saved into the file that stands, or in its place.
Save(p) ==
    /\ Outside("save") /\ up[p] /\ writes < MaxWrites
    /\ \E by \in {"other"} \cup (IF file[p].by \in {"copy", "edited"} THEN {"edited"} ELSE {}) :
          file' = Put(file, p, [print |-> writes + 1, by |-> by])
    /\ writes' = writes + 1 /\ listed' = Put(listed, p, FALSE)
    /\ UNCHANGED <<up, open, row, given>>

Delete(p) ==
    /\ Outside("delete") /\ Stands(p)
    /\ file' = Put(file, p, NoFile) /\ listed' = Put(listed, p, FALSE)
    /\ UNCHANGED <<up, open, row, given, writes>>

Unmount(p) ==
    /\ Outside("unmount") /\ up[p] /\ up' = Put(up, p, FALSE)
    /\ UNCHANGED <<file, open, row, listed, given, writes>>

\* A volume comes back with what it held.
Mount(p) ==
    /\ ~up[p] /\ up' = Put(up, p, TRUE)
    /\ UNCHANGED <<file, partial, catalog, process, ghosts, bounds>>

\* `set_output_details`
SetKind(p) ==
    /\ Outside("kind") /\ open[p] /\ row[p] # NoRow /\ ~row[p].kind
    /\ row' = [row EXCEPT ![p].kind = TRUE] /\ given' = Put(given, p, TRUE)
    /\ UNCHANGED <<file, up, open, listed, writes>>

\* `require_step` of `close_project`: no operation of the Project is unsettled.
Closable(p) == open[p] /\ p \notin Unfinished

Close(p) ==
    /\ Outside("close") /\ Closable(p) /\ open' = Put(open, p, FALSE)
    /\ UNCHANGED <<file, up, row, listed, given, writes>>

Stop ==
    /\ live' = [p \in Projects |-> "none"] /\ cmd' = [p \in Projects |-> Idle]
    /\ watch' = Started /\ seen' = [p \in Projects |-> Unseen]
    /\ UNCHANGED <<disk, catalog, ghosts, writes, changes>>

Crash == faults < MaxFaults /\ faults' = faults + 1 /\ Stop

\* A copy nobody settles waits until PlateVault is started again.
Orphaned(p) == p \in Unfinished /\ cmd[p].at = "idle"

Quit ==
    /\ watch.at \in {"idle", "look", "list", "settle", "record"}
    /\ \E p \in Projects : Orphaned(p)
    /\ UNCHANGED faults /\ Stop

-----------------------------------------------------------------------------

Next ==
    \/ \E p \in Projects :
          \/ Ask(p) \/ Command(p) \/ Transfer(p) \/ ReadBasis(p)
          \/ Save(p) \/ Delete(p) \/ Unmount(p) \/ Mount(p) \/ SetKind(p) \/ Close(p)
    \/ Resume \/ Pass \/ Crash \/ Quit

Spec == Init /\ [][Next]_vars

\* The commands, transfers and the watch are tasks of the process; the sweep
\* walks every open Project again and again, at times after the window; an
\* unmounted volume comes back, and PlateVault is started again some time.
Fairness ==
    /\ \A p \in Projects :
          /\ WF_vars(Command(p)) /\ WF_vars(Transfer(p)) /\ WF_vars(Mount(p))
          /\ SF_vars(ReadBasis(p)) /\ SF_vars(Settle(TRUE) /\ watch.project = p)
    /\ WF_vars(Resume) /\ WF_vars(Pass) /\ WF_vars(Quit)

FairSpec == Spec /\ Fairness

-----------------------------------------------------------------------------
(* What it keeps. *)

\* The one type invariant; also that an unsettled copy keeps its Project open.
TypeOK ==
    /\ file \in [Projects -> Files] /\ row \in [Projects -> Rows]
    /\ \A p \in Projects : (row[p].state = "none") = (row[p].origin = "none")
    /\ \A p \in Projects : p \in Unfinished => phase[p] # "none" /\ open[p]
    /\ \A p \in Projects : live[p] = "command" => cmd[p].at = "run"
    /\ \A p \in Projects : live[p] = "watch" => watch.at = "run" /\ watch.project = p

\* A listed copy nobody touched stays listed as the copy with its digest, as it
\* reads, and with the Kind the user gave it: no pass begun before it was
\* listed, no restart and no volume away takes it from the table
\* (`record_output_scan`, `apply_scan`, `observed`, `walk_output`).
ListedStays ==
    \A p \in Projects : listed[p] =>
        /\ row[p].origin = "copied" /\ row[p].print = file[p].print
        /\ row[p].kind = given[p]

\* A file saved by a tool reads Settled only once two walks found it the same,
\* also across restarts (`Settler::state`, `scanned`).
SettledHeld ==
    \A p \in Projects :
        row[p].origin = "observed" /\ row[p].state = "settled" => row[p].print \in met[p].again

\* A copy gone before it could be listed (`settle_output_copy`).
Gone(p) == p \in Unfinished /\ phase[p] = "copied" /\ file[p] = NoFile

\* A Copy to Output settles and releases its Project, whatever stops it, unless
\* a verified copy is gone before it is listed.
CopySettles ==
    \A p \in Projects : p \in Unfinished ~> p \notin Unfinished \/ \E q \in Projects : Gone(q)

\* What stays in Output/ is in the end listed as it reads, Settled, and stays so
\* (`Settler::state`, `record_output_scan`).
FileListed ==
    \A p \in Projects :
        <>[](open[p] /\ Stands(p) /\ p \notin Unfinished)
            => <>[](row[p].state = "settled" /\ row[p].print = file[p].print)

\* "Finish every Copy to Output an earlier process left unsettled", and "a
\* blocked one lists nothing and releases its Project" (`resume_output_copies`).
ResumeFinishes == \A p \in Projects : p \in Unfinished ~> p \notin Unfinished

\* A copy is listed as verified with the digest of the bytes it holds.
CopiedIsVerified ==
    \A p \in Projects :
        row[p].origin = "copied" /\ file[p].print = row[p].print => file[p].by = "copy"

\* What is recorded is not taken for removed because its volume is away.
OfflineStays ==
    [][\A p \in Projects : row[p] # NoRow /\ file[p] # NoFile => row'[p] # NoRow]_vars
=============================================================================
