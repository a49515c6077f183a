------------------------------- MODULE Import -------------------------------
(***************************************************************************)
(* Imports of one source folder: a preview checks each file twice, reviews *)
(* the ones that held still and routes them; Start approves what is Ready; *)
(* a run copies or moves it through the storage journal and indexes what   *)
(* landed; an unmount interrupts it, and Retry goes on from its records.   *)
(*                                                                         *)
(* Sources: crates/platevault-core/src/import.rs, custody/{journal,        *)
(* transfer,trash}.rs and crates/persistence/library/src/import.rs.  The   *)
(* partial copy a transfer writes is StorageJournal's; here it lands in    *)
(* one step.  Every file has a destination of its own.                     *)
(***************************************************************************)
EXTENDS Integers, FiniteSets

CONSTANTS
    Imports,     \* imports of the same saved source
    Files,       \* the frames below it, in the order of their items
    Modes,       \* what the user starts them as
    MaxRev,      \* bound: revisions of a preview
    MaxEdits,    \* bound: versions of a file
    MaxFaults,   \* bound: crashes and failed calls of a run
    MaxChanges,  \* bound: changes from outside
    World        \* what the outside may do in this instance

\* A source file is edited, or deleted; the source, or the destination, is
\* unmounted; something is put at a free destination path, or the copy there
\* is replaced or deleted; the OS Trash refuses.
WorldEvents == {"edit", "delete", "source", "dest", "occupy", "copy", "refuse"}

ASSUME InstanceAssumption ==
    /\ IsFiniteSet(Imports) /\ Files \subseteq Nat /\ IsFiniteSet(Files)
    /\ Modes \subseteq {"copy", "move"}
    /\ MaxRev \in Nat /\ MaxEdits \in Nat /\ MaxFaults \in Nat /\ MaxChanges \in Nat
    /\ World \subseteq WorldEvents

Versions == 0..MaxEdits
None     == -1
Nobody   == "nobody"

Waiting  == {"pending", "landed"}
Ended    == {"copied", "moved", "sourceKept", "failed", "uncertain"}
Preview  == {"settling", "ready", "duplicate", "blocked", "excluded"}
Outcomes == {"copied", "moved", "sourceKept", "gone", "blocked", "uncertain"}

VARIABLES
    \* the disks
    source,      \* the version of each source file, None once it left
    sourceUp, destUp,  \* the folder at the path is the source, the location
    dest,        \* at each destination: who wrote it and the version, or nothing
    \* the catalog
    frame,       \* what the library records at each destination
    state, mode, rev,
    phase,       \* of each item
    seen,        \* its last settle observation
    evidence,    \* the version reviewed
    excluded,    \* items the user left out
    landed, indexed,
    kind, item,  \* the storage operation last recorded for an import
    attached,    \* its items that name it
    \* what a check of the preview, or an edit of it by the user, holds
    check,
    \* the runner
    at, online, waiting,
    chosen,      \* ghost: what the user left out last
    faults, changes

disks    == <<source, sourceUp, destUp, dest>>
preview  == <<rev, seen, evidence, excluded, chosen>>
progress == <<state, mode, phase>>
landing  == <<landed, indexed>>
journal  == <<kind, item, attached>>
runner   == <<online, waiting>>
bounds   == <<faults, changes>>
vars     == <<source, sourceUp, destUp, dest, frame, state, mode, rev, phase, seen, evidence,
              excluded, landed, indexed, kind, item, attached, check, at, online, waiting, chosen,
              faults, changes>>

\* A check of the source and an edit in review may be under way together.
Askers == {"check", "user"}

Vacant == [by |-> Nobody, version |-> None]
NoCheck == [at |-> "none", rev |-> 0, seen |-> [f \in Files |-> None],
            evidence |-> [f \in Files |-> None], excluded |-> {},
            phase |-> [f \in Files |-> "settling"]]

Init ==
    /\ source = [f \in Files |-> 0] /\ sourceUp = TRUE /\ destUp = TRUE
    /\ dest = [f \in Files |-> Vacant] /\ frame = [f \in Files |-> Vacant]
    /\ state = [m \in Imports |-> "none"] /\ mode = [m \in Imports |-> "none"]
    /\ rev = [m \in Imports |-> 0]
    /\ phase = [m \in Imports |-> [f \in Files |-> "settling"]]
    /\ seen = [m \in Imports |-> [f \in Files |-> None]]
    /\ evidence = [m \in Imports |-> [f \in Files |-> None]]
    /\ excluded = [m \in Imports |-> {}] /\ chosen = [m \in Imports |-> {}]
    /\ landed = [m \in Imports |-> {}] /\ indexed = [m \in Imports |-> {}]
    /\ kind = [m \in Imports |-> "none"]
    /\ item = [m \in Imports |-> [f \in Files |-> "none"]]
    /\ attached = [m \in Imports |-> {}]
    /\ check = [ask \in Imports \X Askers |-> NoCheck]
    /\ at = [m \in Imports |-> "idle"] /\ online = [m \in Imports |-> TRUE]
    /\ waiting = [m \in Imports |-> FALSE]
    /\ faults = 0 /\ changes = 0

-----------------------------------------------------------------------------
(* Helpers.  A definition marked `variant` is what a slip in the code it   *)
(* stands beside would make of that code; no action uses one.              *)

Least(S)         == CHOOSE n \in S : \A k \in S : n <= k
Put(v, m, x)     == [v EXCEPT ![m] = x]
Goto(m, where)   == at' = Put(at, m, where)
Found(f)         == IF sourceUp THEN source[f] ELSE None
OwnCopy(m, f)    == dest[f].by = m
WholeCopy(m, f)  == dest[f] = [by |-> m, version |-> evidence[m][f]]
ItemsIn(m, p)    == {f \in Files : phase[m][f] \in p}

\* `Roots::online`: with nothing left to transfer or retire, nothing is needed.
Online(m) == ItemsIn(m, Waiting) = {} \/ (sourceUp /\ destUp)

-----------------------------------------------------------------------------
(* The preview: `preview_import`, `recheck_import` and `revise_preview`.   *)

\* The first check: evidence that still holds stays; a file found as it was
\* seen the settle interval ago is reviewed; anything else is seen anew.
BeginCheck(m) ==
    /\ check[<<m, "check">>].at = "none" /\ sourceUp
    /\ state[m] \in {"none", "previewed"}
    /\ rev[m] < MaxRev
    /\ LET kept == [f \in Files |-> IF evidence[m][f] = source[f] THEN source[f] ELSE None]
       IN check' = Put(check, <<m, "check">>,
            [NoCheck EXCEPT !.at = "second", !.rev = rev[m], !.excluded = excluded[m],
               !.evidence = [f \in Files |->
                    IF kept[f] = None /\ seen[m][f] = source[f] THEN source[f] ELSE kept[f]],
               !.seen = source])
    /\ UNCHANGED <<disks, frame, preview, progress, landing, journal, at, runner, bounds>>

\* `same_observation`: it is what the first check saw.
Held(seenThen, now) == now # None /\ seenThen = now

\* The second check and the review of what held still.
SecondCheck(m) ==
    /\ check[<<m, "check">>].at = "second"
    /\ LET c == check[<<m, "check">>] IN
          check' = Put(check, <<m, "check">>,
            [c EXCEPT !.at = "route",
               !.evidence = [f \in Files |->
                    IF c.evidence[f] # None THEN c.evidence[f]
                    ELSE IF Held(c.seen[f], Found(f)) THEN Found(f) ELSE None],
               !.seen = [f \in Files |-> IF c.evidence[f] # None THEN c.seen[f] ELSE Found(f)]])
    /\ UNCHANGED <<disks, frame, preview, progress, landing, journal, at, runner, bounds>>

\* The user leaves an item out, or takes it back in.
Exclude(m) ==
    /\ check[<<m, "user">>].at = "none" /\ state[m] = "previewed" /\ rev[m] < MaxRev
    /\ \E f \in Files :
          check' = Put(check, <<m, "user">>,
            [NoCheck EXCEPT !.at = "route", !.rev = rev[m], !.seen = seen[m],
               !.evidence = evidence[m],
               !.excluded = IF f \in excluded[m] THEN excluded[m] \ {f} ELSE excluded[m] \cup {f}])
    /\ UNCHANGED <<disks, frame, preview, progress, landing, journal, at, runner, bounds>>

\* These bytes were imported from the source before, or the library has them.
Imported(m, f, v) ==
    \/ \E n \in Imports \ {m} :
          evidence[n][f] = v /\ phase[n][f] \in {"landed", "copied", "moved", "sourceKept"}
    \/ frame[f].version = v

\* `route_item`, `existing_copy` and `place`.
Routed(m, f, c) ==
    LET v == c.evidence[f] IN
    CASE f \in c.excluded                          -> "excluded"
      [] f \notin c.excluded /\ v = None ->
            IF c.seen[f] = None THEN "blocked" ELSE "settling"
      [] f \notin c.excluded /\ v # None /\ Imported(m, f, v) -> "duplicate"
      [] f \notin c.excluded /\ v # None /\ ~Imported(m, f, v) ->
            IF ~destUp THEN "blocked"
            ELSE IF dest[f] = Vacant THEN "ready"
            ELSE IF dest[f].version = v THEN "duplicate" ELSE "blocked"

Route(m, ask) ==
    /\ check[<<m, ask>>].at = "route"
    /\ LET c == check[<<m, ask>>] IN
          check' = Put(check, <<m, ask>>,
                       [c EXCEPT !.at = "record", !.phase = [f \in Files |-> Routed(m, f, c)]])
    /\ UNCHANGED <<disks, frame, preview, progress, landing, journal, at, runner, bounds>>

\* variant: the items are replaced whatever was recorded meanwhile.
CurrentPreview(m, ask) == state[m] \in {"none", "previewed"}
\* `revise_import`: the revision the check began from, still a preview.
Current(m, ask) == check[<<m, ask>>].rev = rev[m] /\ state[m] \in {"none", "previewed"}

RecordPreview(m, ask) ==
    /\ check[<<m, ask>>].at = "record" /\ Current(m, ask)
    /\ LET c == check[<<m, ask>>] IN
          /\ seen' = Put(seen, m, c.seen) /\ evidence' = Put(evidence, m, c.evidence)
          /\ excluded' = Put(excluded, m, c.excluded) /\ phase' = Put(phase, m, c.phase)
          /\ chosen' = IF ask = "user" THEN Put(chosen, m, c.excluded) ELSE chosen
    /\ state' = Put(state, m, "previewed") /\ rev' = Put(rev, m, rev[m] + 1)
    /\ check' = Put(check, <<m, ask>>, NoCheck)
    /\ UNCHANGED <<mode, disks, frame, landing, journal, at, runner, bounds>>

PreviewConflict(m, ask) ==
    /\ check[<<m, ask>>].at = "record" /\ ~Current(m, ask)
    /\ check' = Put(check, <<m, ask>>, NoCheck)
    /\ UNCHANGED <<disks, frame, preview, progress, landing, journal, at, runner, bounds>>

\* `start_import` of the revision shown: what is Ready, and nothing else.
Start(m) ==
    /\ state[m] = "previewed" /\ ItemsIn(m, {"ready"}) # {}
    /\ \E how \in Modes : mode' = Put(mode, m, how)
    /\ phase' = Put(phase, m, [f \in Files |-> IF phase[m][f] = "ready" THEN "pending"
                                               ELSE phase[m][f]])
    /\ state' = Put(state, m, "running") /\ rev' = Put(rev, m, rev[m] + 1)
    /\ Goto(m, "open")
    /\ UNCHANGED <<seen, evidence, excluded, chosen, disks, frame, landing, journal, check, runner,
                   bounds>>

-----------------------------------------------------------------------------
(* `run_import` and `advance_import`.                                      *)

Running(m, where) == at[m] = where
OnlyRun == UNCHANGED <<disks, frame, preview, progress, landing, journal, check, bounds>>

\* The roots are looked at before anything: an unmounted one interrupts.
Open(m) ==
    /\ Running(m, "open") /\ Online(m)
    /\ state' = Put(state, m, "running")
    /\ Goto(m, "advance")
    /\ UNCHANGED <<mode, phase, disks, frame, preview, landing, journal, check, runner, bounds>>

OpenOffline(m) ==
    /\ Running(m, "open") /\ ~Online(m)
    /\ online' = Put(online, m, FALSE)
    /\ Goto(m, "index")
    /\ UNCHANGED waiting /\ OnlyRun

\* One durable step reads the roots first and decides by what it read.
Advance(m) ==
    /\ Running(m, "advance")
    /\ online' = Put(online, m, Online(m))
    /\ Goto(m, IF attached[m] # {} THEN "take" ELSE "plan")
    /\ UNCHANGED waiting /\ OnlyRun

Verified(m, f) == item[m][f] \in {"verified", "retiring"}
HasLanded(m, f) == Verified(m, f) \/ item[m][f] \in {"copied", "moved", "sourceKept"}
\* `mark_landed`.
LandedNow(m) == landed[m] \cup {f \in attached[m] : HasLanded(m, f)}

\* variant: what was refused is queued once more.
SettledPhaseAgain(m, f, o, isLanded) ==
    CASE o = "gone" /\ ~online[m]              -> IF isLanded THEN "landed" ELSE "pending"
      [] o \in {"gone", "blocked"} /\ ~(o = "gone" /\ ~online[m]) ->
            IF isLanded THEN "landed" ELSE "pending"
      [] OTHER                                 -> o
\* `settle_from_journal`: an item an unmount stopped waits for Retry, with or
\* without its verified copy; another that was refused keeps or has failed.
SettledPhase(m, f, o, isLanded) ==
    CASE o = "gone" /\ ~online[m]              -> IF isLanded THEN "landed" ELSE "pending"
      [] o \in {"gone", "blocked"} /\ ~(o = "gone" /\ ~online[m]) ->
            IF isLanded THEN "sourceKept" ELSE "failed"
      [] OTHER                                 -> o

\* `journal_changes`, recorded in one write; then the next journal step.
Take(m) ==
    /\ Running(m, "take")
    /\ LET ended == {f \in attached[m] : item[m][f] \in Outcomes}
           now   == LandedNow(m)
       IN /\ phase' = Put(phase, m, [f \in Files |->
                          IF f \in ended THEN SettledPhase(m, f, item[m][f], f \in now)
                          ELSE phase[m][f]])
          /\ landed' = Put(landed, m, now)
          /\ attached' = Put(attached, m, attached[m] \ ended)
          /\ Goto(m, IF ended = attached[m] THEN "advance"
                     ELSE IF online[m] THEN "step" ELSE "index")
    /\ UNCHANGED <<state, mode, indexed, kind, item, disks, frame, preview, check, runner, bounds>>

\* Nothing waits: index what landed.
PlanNothing(m) ==
    /\ Running(m, "plan") /\ ItemsIn(m, Waiting) = {}
    /\ Goto(m, "index")
    /\ UNCHANGED runner /\ OnlyRun

PlanOffline(m) ==
    /\ Running(m, "plan") /\ ItemsIn(m, Waiting) # {} /\ ~online[m]
    /\ Goto(m, "index")
    /\ UNCHANGED runner /\ OnlyRun

\* `queue`: the operation is recorded, then the items name it.
Queued(m, of, drafts) ==
    /\ kind' = Put(kind, m, of)
    /\ item' = Put(item, m, [f \in Files |-> IF f \in drafts THEN "pending" ELSE "none"])
    /\ Goto(m, IF drafts = {} THEN "advance" ELSE "attach")
    /\ UNCHANGED attached

PlanTransfers(m) ==
    /\ Running(m, "plan") /\ online[m] /\ ItemsIn(m, {"pending"}) # {}
    /\ Queued(m, "transfer", ItemsIn(m, {"pending"}))
    /\ UNCHANGED <<disks, frame, preview, progress, landing, check, runner, bounds>>

\* `queue_retirements`: a source whose copy is not the one written is kept.
PlanRetirements(m) ==
    /\ Running(m, "plan") /\ online[m] /\ ItemsIn(m, {"pending"}) = {}
    /\ ItemsIn(m, {"landed"}) # {}
    /\ LET proven == {f \in ItemsIn(m, {"landed"}) : destUp /\ OwnCopy(m, f)} IN
          /\ Queued(m, "trash", proven)
          /\ phase' = Put(phase, m, [f \in Files |->
                          IF phase[m][f] = "landed" /\ f \notin proven THEN "sourceKept"
                          ELSE phase[m][f]])
    /\ UNCHANGED <<state, mode, disks, frame, preview, landing, check, runner, bounds>>

Attach(m) ==
    /\ Running(m, "attach")
    /\ attached' = Put(attached, m, {f \in Files : item[m][f] # "none"})
    /\ Goto(m, "advance")
    /\ UNCHANGED <<kind, item, disks, frame, preview, progress, landing, check, runner, bounds>>

-----------------------------------------------------------------------------
(* `step_storage_operation`: the first open item, by one durable step.     *)

OpenItem(m) == {f \in attached[m] : item[m][f] \notin Outcomes}
First(m)    == Least(OpenItem(m))
Stepping(m) == Running(m, "step") /\ OpenItem(m) # {}
SetItem(m, f, i) == item' = [item EXCEPT ![m][f] = i] /\ UNCHANGED <<kind, attached>>
OnlyItem == UNCHANGED <<frame, preview, progress, landing, check, runner, bounds>>

\* variant: it is installed over whatever is there.
Free(f) == destUp
\* `move_noreplace`.
Unoccupied(f) == destUp /\ dest[f] = Vacant

\* The reviewed bytes land at a free path; the installed copy verifies next.
Land(m) ==
    /\ Stepping(m)
    /\ LET f == First(m) IN
          /\ kind[m] = "transfer" /\ item[m][f] = "pending"
          /\ Unoccupied(f) /\ Found(f) = evidence[m][f]
          /\ dest' = [dest EXCEPT ![f] = [by |-> m, version |-> source[f]]]
          /\ SetItem(m, f, "installed")
    /\ Goto(m, "advance")
    /\ UNCHANGED <<source, sourceUp, destUp>> /\ OnlyItem

LandBlocked(m) ==
    /\ Stepping(m)
    /\ LET f == First(m) IN
          /\ kind[m] = "transfer" /\ item[m][f] = "pending"
          /\ \/ (~destUp \/ Found(f) = None) /\ SetItem(m, f, "gone")
             \/ /\ destUp /\ Found(f) # None
                /\ ~Unoccupied(f) \/ Found(f) # evidence[m][f]
                /\ SetItem(m, f, "blocked")
    /\ Goto(m, "advance")
    /\ UNCHANGED disks /\ OnlyItem

\* `transfer::verify`: a copy lost to an unmount while it is read is told from
\* one that differs, but not from one that cannot be read.
Verify(m) ==
    /\ Stepping(m)
    /\ LET f == First(m) IN
          /\ item[m][f] = "installed"
          /\ \/ /\ destUp /\ WholeCopy(m, f)
                /\ SetItem(m, f, IF mode[m] = "copy" THEN "copied" ELSE "verified")
             \/ ~(destUp /\ WholeCopy(m, f)) /\ \E o \in {"gone", "blocked"} : SetItem(m, f, o)
    /\ Goto(m, "advance")
    /\ UNCHANGED disks /\ OnlyItem

\* The intent, before the source moves.
RecordIntent(m) ==
    /\ Stepping(m)
    /\ LET f == First(m) IN
          /\ \/ kind[m] = "transfer" /\ item[m][f] = "verified"
             \/ kind[m] = "trash" /\ item[m][f] = "pending"
          /\ SetItem(m, f, "retiring")
    /\ Goto(m, "retire")
    /\ UNCHANGED disks /\ OnlyItem

\* A stop came between: the source is where it was, or nobody can say.
ResumeRetiring(m) ==
    /\ Stepping(m) /\ item[m][First(m)] = "retiring"
    /\ IF Found(First(m)) = evidence[m][First(m)]
       THEN Goto(m, "retire") /\ UNCHANGED journal
       ELSE Goto(m, "advance") /\ SetItem(m, First(m), "uncertain")
    /\ UNCHANGED disks /\ OnlyItem

\* variant: the copy is proven, the source taken as it was.
RetireOnCopy(m, f) == destUp /\ WholeCopy(m, f) /\ Found(f) # None
\* Every kept copy and then the source, once more.
Retirable(m, f) == destUp /\ WholeCopy(m, f) /\ Found(f) = evidence[m][f]

MoveToTrash(m) ==
    /\ Running(m, "retire") /\ Retirable(m, First(m))
    /\ source' = [source EXCEPT ![First(m)] = None]
    /\ Goto(m, "observe")
    /\ UNCHANGED <<sourceUp, destUp, dest, journal>> /\ OnlyItem

\* A volume that cannot be asked has no Trash; a check fails; or it refuses.
KeepSource(m) ==
    /\ Running(m, "retire")
    /\ LET f == First(m) IN
          \/ /\ "refuse" \in World \/ ~sourceUp
             /\ SetItem(m, f, IF kind[m] = "trash" THEN "blocked" ELSE "sourceKept")
          \/ /\ ~Retirable(m, f)
             /\ \E o \in {"gone", "blocked"} : SetItem(m, f, o)
    /\ Goto(m, "advance")
    /\ UNCHANGED disks /\ OnlyItem

RecordMoved(m) ==
    /\ Running(m, "observe")
    /\ SetItem(m, First(m), "moved")
    /\ Goto(m, "advance")
    /\ UNCHANGED disks /\ OnlyItem

-----------------------------------------------------------------------------
(* `index_landed` and the end of a run.                                    *)

ToIndex(m) == landed[m] \ indexed[m]

\* A copy waits only where its destination is offline now.
Index(m) ==
    /\ Running(m, "index")
    /\ waiting' = Put(waiting, m, ToIndex(m) # {} /\ ~destUp)
    /\ Goto(m, IF ToIndex(m) # {} /\ destUp THEN "scan" ELSE "end")
    /\ UNCHANGED online /\ OnlyRun

\* The scan of the destination ends, whether or not it could read it.
Scan(m) ==
    /\ Running(m, "scan")
    /\ frame' = IF destUp THEN dest ELSE frame
    /\ Goto(m, "collect")
    /\ UNCHANGED <<disks, preview, progress, landing, journal, check, runner, bounds>>

\* The frame at its path has the identity the transfer wrote.
RecordedCopy(m, f) == frame[f].by = m

\* What the user set in review goes on the frames, which count as indexed.
Collect(m) ==
    /\ Running(m, "collect")
    /\ indexed' = Put(indexed, m, indexed[m] \cup {f \in ToIndex(m) : RecordedCopy(m, f)})
    /\ Goto(m, "end")
    /\ UNCHANGED <<landed, disks, frame, preview, progress, journal, check, runner, bounds>>

\* Every approved item has an outcome, and no landed copy waits: Settled.
End(m) ==
    /\ Running(m, "end")
    /\ state' = Put(state, m, IF ItemsIn(m, Waiting) = {} /\ online[m] /\ ~waiting[m]
                              THEN "settled" ELSE "interrupted")
    /\ Goto(m, "idle")
    /\ waiting' = Put(waiting, m, FALSE) /\ online' = Put(online, m, TRUE)
    /\ UNCHANGED <<mode, phase, disks, frame, preview, landing, journal, check, bounds>>

-----------------------------------------------------------------------------
(* Retry, stops, and the world outside.                                    *)

\* Retry is offered for an import that reads Interrupted (import-run.tsx).
Retry(m) ==
    /\ Running(m, "idle") /\ state[m] = "interrupted"
    /\ Goto(m, "open")
    /\ UNCHANGED runner /\ OnlyRun

\* `run_import` takes up an import that reads Running too, whoever calls it.
Rerun(m) ==
    /\ Running(m, "idle") /\ state[m] = "running"
    /\ Goto(m, "open")
    /\ UNCHANGED runner /\ OnlyRun

\* A crash, or a call of the run that fails: nothing is written of it.
Stop(m) ==
    /\ at[m] # "idle" /\ faults < MaxFaults
    /\ faults' = faults + 1
    /\ Goto(m, "idle")
    /\ online' = Put(online, m, TRUE) /\ waiting' = Put(waiting, m, FALSE)
    /\ UNCHANGED <<disks, frame, preview, progress, landing, journal, check, changes>>

Outside(event) ==
    /\ event \in World /\ changes < MaxChanges
    /\ changes' = changes + 1
    /\ UNCHANGED <<frame, preview, progress, landing, journal, check, at, runner, faults>>

EditSource ==
    /\ Outside("edit") /\ sourceUp
    /\ \E f \in Files : source[f] \in 0..(MaxEdits - 1)
          /\ source' = [source EXCEPT ![f] = source[f] + 1]
    /\ UNCHANGED <<sourceUp, destUp, dest>>

DeleteSource ==
    /\ Outside("delete") /\ sourceUp
    /\ \E f \in Files : source[f] # None /\ source' = [source EXCEPT ![f] = None]
    /\ UNCHANGED <<sourceUp, destUp, dest>>

UnmountSource ==
    /\ Outside("source") /\ sourceUp
    /\ sourceUp' = FALSE
    /\ UNCHANGED <<source, destUp, dest>>

UnmountDest ==
    /\ Outside("dest") /\ destUp
    /\ destUp' = FALSE
    /\ UNCHANGED <<source, sourceUp, dest>>

\* A path is taken, a copy is rewritten, or it is deleted.
Occupy ==
    /\ Outside("occupy") /\ destUp
    /\ \E f \in Files, v \in Versions : dest[f] = Vacant
          /\ dest' = [dest EXCEPT ![f] = [by |-> "user", version |-> v]]
    /\ UNCHANGED <<source, sourceUp, destUp>>

ChangeCopy ==
    /\ Outside("copy") /\ destUp
    /\ \E f \in Files : dest[f].by \in Imports
          /\ dest' \in {[dest EXCEPT ![f] = Vacant],
                        [dest EXCEPT ![f] = [by |-> "user", version |-> None]]}
    /\ UNCHANGED <<source, sourceUp, destUp>>

\* What was unmounted comes back.
Mount ==
    /\ ~sourceUp \/ ~destUp
    /\ sourceUp' = TRUE /\ destUp' = TRUE
    /\ UNCHANGED <<source, dest, frame, preview, progress, landing, journal, check, at, runner,
                   bounds>>

Changed == EditSource \/ DeleteSource \/ UnmountSource \/ UnmountDest \/ Occupy \/ ChangeCopy

PreviewStep(m) ==
    \/ BeginCheck(m) \/ SecondCheck(m) \/ Exclude(m)
    \/ \E ask \in Askers : Route(m, ask) \/ RecordPreview(m, ask) \/ PreviewConflict(m, ask)

Run(m) ==
    \/ Open(m) \/ OpenOffline(m) \/ Advance(m) \/ Take(m)
    \/ PlanNothing(m) \/ PlanOffline(m) \/ PlanTransfers(m) \/ PlanRetirements(m) \/ Attach(m)
    \/ Land(m) \/ LandBlocked(m) \/ Verify(m) \/ RecordIntent(m) \/ ResumeRetiring(m)
    \/ MoveToTrash(m) \/ KeepSource(m) \/ RecordMoved(m)
    \/ Index(m) \/ Scan(m) \/ Collect(m) \/ End(m)

Next ==
    \/ \E m \in Imports : PreviewStep(m) \/ Start(m) \/ Run(m) \/ Retry(m) \/ Rerun(m) \/ Stop(m)
    \/ Changed \/ Mount

Spec == Init /\ [][Next]_vars

\* A run goes on, a folder that left is mounted again, and the user answers an
\* interrupted import with Retry.  Nothing calls for a Rerun: the screen offers
\* none, and no start of the application makes one.
FairSpec ==
    /\ Spec /\ WF_vars(Mount)
    /\ \A m \in Imports : WF_vars(Run(m)) /\ WF_vars(Retry(m))

-----------------------------------------------------------------------------
(* Properties.                                                             *)

CheckType ==
    [at : {"none", "second", "route", "record"}, rev : 0..MaxRev,
     seen : [Files -> Versions \cup {None}], evidence : [Files -> Versions \cup {None}],
     excluded : SUBSET Files, phase : [Files -> Preview]]

\* Every record is of the kind its reader expects: an item that names a storage
\* operation is one of that operation's, and only a started import is at work.
TypeOK ==
    /\ source \in [Files -> Versions \cup {None}]
    /\ dest \in [Files -> [by : Imports \cup {"user", Nobody}, version : Versions \cup {None}]]
    /\ state \in [Imports -> {"none", "previewed", "running", "interrupted", "settled"}]
    /\ phase \in [Imports -> [Files -> Preview \cup Waiting \cup Ended]]
    /\ check \in [Imports \X Askers -> CheckType]
    /\ \A m \in Imports :
          /\ attached[m] \subseteq {f \in Files : item[m][f] # "none"}
          /\ attached[m] \subseteq ItemsIn(m, IF kind[m] = "trash" THEN {"landed"} ELSE {"pending"})
          /\ indexed[m] \cup ItemsIn(m, {"landed", "copied", "moved", "sourceKept"}) \subseteq landed[m]
          /\ at[m] # "idle" => state[m] \in {"running", "interrupted"}
          /\ state[m] = "settled" => ItemsIn(m, Waiting \cup {"ready"}) = {}

\* What the user left out last is left out, whatever check of the preview was
\* under way when they did (`revise_import` refuses a revision that moved on).
ChoiceStands == \A m \in Imports : excluded[m] = chosen[m]

\* A file lands where nothing stands, once for an import, however often the run
\* was stopped, interrupted by an unmount and retried: an import that had a copy
\* writes no second one, and what stands at its path is never replaced.
LandsOnce == [][
    \A f \in Files :
        changes' = changes /\ dest'[f] # dest[f] =>
            \E m \in Imports : /\ dest[f] = Vacant /\ dest'[f] = [by |-> m, version |-> source[f]]
                              /\ f \notin landed[m]]_vars

\* A source file leaves its folder only to an import the user started as a Move,
\* while the copy that import wrote stands on a mounted location, whole, with
\* the very bytes the user reviewed and the file still held.
SourceLeavesForCopy == [][
    \A f \in Files :
        changes' = changes /\ source'[f] # source[f] =>
            \E m \in Imports :
                /\ mode[m] = "move" /\ f \notin chosen[m]
                /\ destUp /\ dest[f] = [by |-> m, version |-> source[f]]
                /\ evidence[m][f] = source[f]]_vars

\* Running in the catalog, and no run works on it.
Abandoned(m) == state[m] = "running" /\ at[m] = "idle"

\* A started import settles: however its folders come and go, the user's Retry
\* brings each approved item to an outcome (a stop it never resumes from is
\* ImportResumes').
StartedSettles ==
    \A m \in Imports : state[m] = "running" ~> state[m] = "settled" \/ Abandoned(m)

\* "Landed copies are indexed by a scan of their destination folder; while one
\* waits for its offline destination the import stays Interrupted" (import.rs).
SettledIsIndexed ==
    \A m \in Imports : \A f \in Files :
        state[m] = "settled" /\ OwnCopy(m, f) /\ f \in landed[m] => f \in indexed[m]

\* "Retry resumes from the recorded journal" (import.rs): a started import no
\* run works on is one Retry is offered for, until it settles.
ImportResumes ==
    \A m \in Imports : Abandoned(m) ~> ~Abandoned(m)

=============================================================================
