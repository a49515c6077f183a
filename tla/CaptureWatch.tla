---------------------------- MODULE CaptureWatch ----------------------------
(***************************************************************************)
(* Who holds a capture folder open while its volume is being removed.      *)
(* Discovery of new captures follows each Captures location at its root,   *)
(* with a watcher and a walk that hold handles on the root's volume; the   *)
(* desktop shell has a window register every root discovery names with     *)
(* Windows, which asks, before it removes a volume, that the handles on it *)
(* be closed, and tells later whether the volume stayed or went.  Meanwhile*)
(* the user remaps, reselects and removes locations, volumes are pulled,   *)
(* and a watcher that was let go of takes its time to close.               *)
(*                                                                         *)
(* Sources: crates/platevault-core/src/new_captures.rs,                    *)
(* apps/desktop/src-tauri/src/eject.rs and                                 *)
(* crates/platevault-eject-windows/src/{registrations,window}.rs.  A       *)
(* watcher and the walk started with it are one call.  Each folder is the  *)
(* one registered there: another folder at its path is left out, as are    *)
(* the counts, the live events and the end of the process.                 *)
(***************************************************************************)
EXTENDS Integers, Sequences, FiniteSets

CONSTANTS
    Locations,   \* Captures locations
    Roots,       \* folders they may be registered at
    Volumes,
    VolumeOf,    \* the volume of each root
    None,        \* no root, record, location, key
    MaxCalls,    \* bound: calls in flight at a time
    MaxChanges,  \* bound: changes of the catalog
    MaxRemovals, \* bound: volumes asked for, or pulled
    World        \* what the outside may do in this instance

\* The user remaps a location, reselects it where it is, removes it; a volume
\* is pulled; Windows takes longer over a removal than discovery waits.
WorldEvents == {"remap", "reselect", "remove", "pull", "slow"}

\* `RootKey`: a location and one of its roots.
Keys  == Locations \X Roots
Calls == 1..MaxCalls
Volume(key) == VolumeOf[key[2]]

\* A location as the catalog lists it (`Location`), and what discovery keeps of
\* one it follows (`Watched`), its call or none.
Listings == [root : Roots, decision : 0..MaxChanges]
Watches  == [at : Listings, watch : {0} \cup Calls, released : BOOLEAN,
             moved : Listings \cup {None}, inPlace : Roots \cup {None},
             before : Listings \cup {None}]

ASSUME InstanceAssumption ==
    /\ IsFiniteSet(Locations) /\ IsFiniteSet(Roots)
    /\ VolumeOf \in [Roots -> Volumes]
    /\ None \notin Locations \cup Roots \cup Keys /\ None \notin Listings \cup Watches
    /\ MaxCalls \in Nat /\ MaxChanges \in Nat /\ MaxRemovals \in Nat
    /\ World \subseteq WorldEvents

VARIABLES
    \* the catalog, the volumes, Windows
    listed,    \* each location's record: its root and decision revision
    announced, \* a change of it discovery has not applied
    mounted,
    removal,   \* of each volume: its phase and the registrations it has yet to reach
    \* discovery
    held,      \* the locations it follows (`Watched`)
    offline,   \* the Active ones it doesn't (`Offline`)
    left,      \* the roots it let go of a location at (`Departures`)
    draining,  \* the calls it let go of (`Draining`)
    starting,  \* the location whose watcher it is starting
    named,     \* the roots it publishes (`subscribe_roots`)
    notices,   \* what the shell reported, in order
    open,      \* the calls that hold handles
    \* the shell and its window
    given,     \* the roots last given to the window
    posted,    \* the window has not taken them
    regs,      \* its registrations: none, or the handle open or closed
    asking,    \* the key it waits on discovery for
    awaiting,  \* the calls that answer waits for
    \* ghost
    cleared,   \* the keys discovery answered for, their location released
    \* bounds
    changes, removals

catalog   == <<listed, announced>>
windows   == <<mounted, removal>>
discovery == <<held, offline, left, draining, starting, named>>
window    == <<given, posted, regs>>
answer    == <<asking, awaiting, cleared>>
bounds    == <<changes, removals>>
vars      == <<listed, announced, mounted, removal, held, offline, left, draining, starting,
               named, notices, open, given, posted, regs, asking, awaiting, cleared, changes, removals>>

Quiet == [phase |-> "none", left |-> {}]

Init ==
    /\ \E r \in Roots : listed = [l \in Locations |-> [root |-> r, decision |-> 0]]
    /\ announced = {} /\ mounted \in SUBSET Volumes /\ removal = [v \in Volumes |-> Quiet]
    /\ held = [l \in Locations |-> None] /\ offline = [l \in Locations |-> None]
    /\ left = [l \in Locations |-> {}] /\ draining = {} /\ starting = None /\ named = {}
    /\ notices = <<>> /\ open = {}
    /\ given = {} /\ posted = FALSE /\ regs = [k \in Keys |-> "none"]
    /\ asking = None /\ awaiting = {} /\ cleared = {}
    /\ changes = 0 /\ removals = 0

-----------------------------------------------------------------------------
(* What discovery does at one location, as functions of its state `d`.     *)

Now == [held |-> held, offline |-> offline, left |-> left, draining |-> draining,
        starting |-> None]

\* `Watched::new`
Following(at) == [at |-> at, watch |-> 0, released |-> FALSE, moved |-> None, inPlace |-> None,
                  before |-> None]

Present(at) == VolumeOf[at.root] \in mounted

\* `Draining::let_go`
LetGo(d, l) ==
    IF d.held[l].watch = 0 THEN d
    ELSE [d EXCEPT !.held[l].watch = 0,
                   !.draining = @ \cup {[key |-> <<l, d.held[l].at.root>>, call |-> d.held[l].watch]}]

Drop(d, l)  == [LetGo(d, l) EXCEPT !.held[l] = None]
\* and `Departures::record`
Leave(d, l) == [Drop(d, l) EXCEPT !.left[l] = @ \cup {d.held[l].at.root}]

\* `go_offline`
GoOffline(d, l) == [Leave(d, l) EXCEPT !.offline[l] = d.held[l].at]

\* `try_start`, up to the start of the watcher: the root is checked, then named.
TryStart(d, l, at) ==
    IF Present(at)
    THEN [d EXCEPT !.offline[l] = None, !.held[l] = Following(at), !.starting = l]
    ELSE [d EXCEPT !.offline[l] = at]

\* `move_on`, `check_again`
MoveOn(d, l)     == TryStart(Leave(d, l), l, d.held[l].moved)
CheckAgain(d, l) == TryStart(Leave(d, l), l, d.held[l].at)

\* variant: a location that did not move is left to the next sweep.
DecidedMoved(d, l) == IF d.held[l].moved # None THEN MoveOn(d, l) ELSE d
\* `decided`
Decided(d, l) ==
    LET w == d.held[l] IN
    IF w.moved # None THEN MoveOn(d, l)
    ELSE IF w.before # None /\ w.before.decision # w.at.decision THEN CheckAgain(d, l)
    ELSE [GoOffline(d, l) EXCEPT !.offline[l] = IF w.before # None THEN w.before ELSE @]

\* `follow`: a released location's root is not touched, nor the one it moved to.
Follow(d, l, at, sweep) ==
    LET w == d.held[l] IN
    IF w = None
    THEN IF d.offline[l] # None /\ ~sweep /\ d.offline[l].decision = at.decision THEN d
         ELSE TryStart(d, l, at)
    ELSE IF w.released /\ (w.at.root # at.root \/ w.inPlace # None)
    THEN [d EXCEPT !.held[l].moved = at]
    ELSE IF ~sweep \/ w.released \/ Present(w.at)
    THEN [d EXCEPT !.held[l].at = at, !.held[l].moved = None]
    ELSE TryStart(GoOffline(d, l), l, at)

\* `held_offline`: an offline location is followed again to hold the release.
HeldOffline(d, l, r) ==
    LET b == d.offline[l] IN
    IF d.held[l] = None /\ b # None /\ <<l, r>> \in named /\ r \in d.left[l]
    THEN [d EXCEPT !.left[l] = @ \ {r}, !.offline[l] = None,
                   !.held[l] = [Following([b EXCEPT !.root = r]) EXCEPT
                                  !.moved = IF b.root = r THEN None ELSE b, !.before = b]]
    ELSE d

\* variant: the root left is named again, whether or not it still was.
InPlaceNever(l, r, now) == None
\* The root named in place of one that left the named roots.
InPlace(l, r, now) == IF <<l, r>> \in named THEN None ELSE now

\* `moved_before_release`
MovedBefore(d, l, r) ==
    LET w == d.held[l] IN
    IF w # None /\ ~w.released /\ w.at.root # r /\ r \in d.left[l]
    THEN [LetGo(d, l) EXCEPT
             !.left[l] = (@ \ {r}) \cup {w.at.root},
             !.held[l] = [Following([w.at EXCEPT !.root = r]) EXCEPT
                            !.moved = w.at, !.inPlace = InPlace(l, r, w.at.root)]]
    ELSE d

\* `release`, up to what it waits for.
Released(d, l, r) ==
    LET now == MovedBefore(HeldOffline(d, l, r), l, r) IN
    IF now.held[l] # None /\ now.held[l].at.root = r
    THEN [LetGo(now, l) EXCEPT !.held[l].released = TRUE]
    ELSE now

\* variant: only what ran on the root itself is waited for.
AwaitedAtRoot(d, l, r) == {c.call : c \in {c \in d.draining : c.key = <<l, r>>}} \cap open
\* Every call let go of on the volume, whichever location it served; the volume
\* is known from the location or from a call at the root.
Awaited(d, l, r) ==
    IF \/ d.held[l] # None /\ d.held[l].at.root = r
       \/ \E c \in d.draining : c.key = <<l, r>>
    THEN {c.call : c \in {c \in d.draining : Volume(c.key) = VolumeOf[r]}} \cap open
    ELSE {}

Awaits(w, r) == w.at.root = r \/ w.inPlace = r

\* `reattach`
Reattached(d, l, r) ==
    LET w == d.held[l] IN
    IF w = None \/ ~w.released \/ ~Awaits(w, r) THEN d
    ELSE IF w.moved # None THEN MoveOn(d, l)
    ELSE IF w.before # None THEN CheckAgain(d, l)
    ELSE IF Present(w.at) THEN [d EXCEPT !.held[l].released = FALSE, !.starting = l]
    ELSE GoOffline(d, l)

\* `gone`
Gone(d, l, r) ==
    IF d.held[l] # None /\ Awaits(d.held[l], r) THEN Decided(d, l) ELSE d

\* `Watched::names`, `publish_roots`
Named(l, w) == <<l, IF w.inPlace # None THEN w.inPlace ELSE w.at.root>>

-----------------------------------------------------------------------------
(* Discovery, one thing at a time.                                         *)

\* `publish`: the calls that returned are forgotten (`Draining::prune`).
Publish(d) ==
    /\ held' = d.held /\ offline' = d.offline /\ left' = d.left /\ starting' = d.starting
    /\ draining' = {c \in d.draining : c.call \in open}
    /\ named' = {Named(l, d.held[l]) : l \in {l \in Locations : d.held[l] # None}}
                   \cup {c.key : c \in draining'}

Discovers(d) ==
    /\ starting = None /\ Publish(d)
    /\ UNCHANGED <<listed, windows, open, window, bounds>>

\* `reconcile` at one location, with the catalog read for it.
Reconciled(l, sweep) ==
    LET at   == listed[l]
        w    == held[l]
        kept == [Now EXCEPT !.offline[l] = IF @ # None /\ at # None /\ @.root = at.root THEN @
                                           ELSE None]
    IN  IF at = None
        THEN [(IF w # None THEN Drop(kept, l) ELSE kept) EXCEPT !.left[l] = {}]
        ELSE Follow(IF w # None /\ ~w.released /\ w.at.root # at.root THEN Leave(kept, l) ELSE kept,
                    l, at, sweep)

Sweep(l) == Discovers(Reconciled(l, TRUE)) /\ UNCHANGED <<announced, notices, answer>>

\* A change through the Library is applied at once.
Change(l) ==
    /\ l \in announced /\ announced' = announced \ {l}
    /\ Discovers(Reconciled(l, FALSE)) /\ UNCHANGED <<notices, answer>>

\* `attach` and `walk`; nothing starts where the volume went.
Attach ==
    /\ starting # None
    /\ \E n \in Calls \ open :
          /\ \A m \in Calls \ open : n <= m
          /\ IF Present(held[starting].at)
             THEN open' = open \cup {n} /\ Publish([Now EXCEPT !.held[starting].watch = n])
             ELSE UNCHANGED open /\ Publish(Now)
    /\ UNCHANGED <<catalog, windows, notices, window, answer, bounds>>

\* `rescan`: lost events, a new folder, a watcher that did not start.
Rescan(l) ==
    /\ held[l] # None /\ ~held[l].released
    /\ Discovers(IF Present(held[l].at) THEN [LetGo(Now, l) EXCEPT !.starting = l]
                 ELSE GoOffline(Now, l))
    /\ UNCHANGED <<announced, notices, answer>>

\* A debounce tick publishes what it finds returned.
Tick == Discovers(Now) /\ UNCHANGED <<announced, notices, answer>>

\* `waited_out`: no outcome came, so the location is followed again.
WaitedOut(l) ==
    /\ held[l] # None /\ (held[l].moved # None \/ held[l].before # None)
    /\ "slow" \in World \/ removal[VolumeOf[held[l].at.root]] = Quiet
    /\ Discovers(Decided(Now, l))
    /\ UNCHANGED <<announced, notices, answer>>

\* `noticed`
TakeNotice ==
    /\ notices # <<>> /\ notices' = Tail(notices)
    /\ LET n == Head(notices)
           l == n.key[1]
           r == n.key[2]
       IN  CASE n.kind = "release"  -> /\ Discovers(Released(Now, l, r))
                                       /\ awaiting' = Awaited(Released(Now, l, r), l, r)
             [] n.kind = "reattach" -> Discovers(Reattached(Now, l, r)) /\ UNCHANGED awaiting
             [] OTHER               -> Discovers(Gone(Now, l, r)) /\ UNCHANGED awaiting
    /\ UNCHANGED <<announced, asking, cleared>>

\* A watcher let go of closed its handles, and its walk stopped.
Returns(n) ==
    /\ n \in open /\ \E c \in draining : c.call = n
    /\ open' = open \ {n} /\ awaiting' = awaiting \ {n}
    /\ UNCHANGED <<catalog, windows, discovery, notices, window, asking, cleared, bounds>>

-----------------------------------------------------------------------------
(* The shell gives the window the named roots (`follow` of eject.rs); the  *)
(* window registers exactly those (`Registrations::follow`), also at its   *)
(* retry timer, unless it is asked meanwhile.                              *)

ShellFollows ==
    /\ given # named /\ given' = named /\ posted' = TRUE
    /\ UNCHANGED <<catalog, windows, discovery, notices, open, regs, answer, bounds>>

Registered(k) ==
    IF k \notin given THEN "none"
    ELSE IF regs[k] = "none" /\ Volume(k) \in mounted THEN "open"
    ELSE regs[k]

WindowFollows ==
    /\ asking = None
    /\ posted \/ \E k \in given : regs[k] # Registered(k)
    /\ regs' = [k \in Keys |-> Registered(k)] /\ posted' = FALSE
    /\ UNCHANGED <<catalog, windows, discovery, notices, open, given, answer, bounds>>

-----------------------------------------------------------------------------
(* Windows: a removal asks every registration, waits for each answer, and  *)
(* tells every one the outcome.                                            *)

On(v)         == {k \in Keys : Volume(k) = v /\ regs[k] # "none"}
Phase(v, p, ks) == removal' = [removal EXCEPT ![v] = IF ks = {} /\ p # "ask" THEN Quiet
                                                     ELSE [phase |-> p, left |-> ks]]
Notify(kind, k) == notices' = Append(notices, [kind |-> kind, key |-> k])

Request(v) ==
    /\ removal[v] = Quiet /\ v \in mounted /\ removals < MaxRemovals
    /\ removals' = removals + 1 /\ Phase(v, "ask", On(v))
    /\ UNCHANGED <<catalog, mounted, discovery, notices, open, window, answer, changes>>

\* `Registrations::notice`, QueryRemove: the handle closes and the window waits
\* for discovery (`forward`).
Ask(k) ==
    LET v == Volume(k) IN
    /\ asking = None /\ removal[v].phase = "ask" /\ k \in removal[v].left
    /\ Phase(v, "ask", removal[v].left \ {k})
    /\ IF regs[k] = "open"
       THEN regs' = [regs EXCEPT ![k] = "closed"] /\ asking' = k /\ Notify("release", k)
       ELSE UNCHANGED <<regs, asking, notices>>
    /\ UNCHANGED <<catalog, mounted, discovery, open, given, posted, awaiting, cleared, bounds>>

\* Discovery took the notice and every call it waits for returned.
Answered ==
    /\ asking # None /\ awaiting = {}
    /\ \A i \in DOMAIN notices : notices[i].kind # "release"
    /\ asking' = None
    /\ cleared' = cleared \cup {k \in {asking} : /\ removal[Volume(k)].phase = "ask"
                                            /\ held[k[1]] # None /\ held[k[1]].released}
    /\ UNCHANGED <<catalog, windows, discovery, notices, open, window, awaiting, bounds>>

\* What discovery holds at a volume for a location.
Holds(l, v) ==
    \/ /\ held[l] # None /\ held[l].watch # 0 /\ VolumeOf[held[l].at.root] = v
    \/ \E c \in draining : c.key[1] = l /\ Volume(c.key) = v /\ c.call \in open

Decides(v, p) == Phase(v, p, On(v)) /\ cleared' = {k \in cleared : Volume(k) # v}

\* Any program may refuse or hold a handle; with none open the volume goes.
Refuse(v) ==
    /\ removal[v].phase = "ask" /\ asking = None
    /\ Decides(v, "refused")
    /\ UNCHANGED <<catalog, mounted, discovery, notices, open, window, asking, awaiting, bounds>>

Grant(v) ==
    /\ removal[v] = [phase |-> "ask", left |-> {}] /\ asking = None
    /\ \A k \in On(v) : regs[k] = "closed"
    /\ \A l \in Locations : ~Holds(l, v)
    /\ mounted' = mounted \ {v} /\ Decides(v, "removed")
    /\ UNCHANGED <<catalog, discovery, notices, open, window, asking, awaiting, bounds>>

Pull(v) ==
    /\ "pull" \in World /\ v \in mounted /\ removals < MaxRemovals
    /\ removals' = removals + 1 /\ mounted' = mounted \ {v} /\ Decides(v, "removed")
    /\ UNCHANGED <<catalog, discovery, notices, open, window, asking, awaiting, changes>>

\* QueryRemoveFailed: the handle opens again, or the registration ends.
TellRefused(k) ==
    LET v == Volume(k) IN
    /\ asking = None /\ removal[v].phase = "refused" /\ k \in removal[v].left
    /\ Phase(v, "refused", removal[v].left \ {k})
    /\ IF regs[k] = "closed"
       THEN /\ regs' = [regs EXCEPT ![k] = IF v \in mounted THEN "open" ELSE "none"]
            /\ Notify("reattach", k)
       ELSE UNCHANGED <<regs, notices>>
    /\ UNCHANGED <<catalog, mounted, discovery, open, given, posted, answer, bounds>>

\* Removed: the registration ends.
TellRemoved(k) ==
    LET v == Volume(k) IN
    /\ asking = None /\ removal[v].phase = "removed" /\ k \in removal[v].left
    /\ Phase(v, "removed", removal[v].left \ {k})
    /\ IF regs[k] # "none"
       THEN regs' = [regs EXCEPT ![k] = "none"] /\ Notify("gone", k)
       ELSE UNCHANGED <<regs, notices>>
    /\ UNCHANGED <<catalog, mounted, discovery, open, given, posted, answer, bounds>>

Tell(k) == TellRefused(k) \/ TellRemoved(k)

Mount(v) ==
    /\ v \notin mounted /\ removal[v] = Quiet /\ mounted' = mounted \cup {v}
    /\ UNCHANGED <<catalog, removal, discovery, notices, open, window, answer, bounds>>

-----------------------------------------------------------------------------
(* The user's changes, which the Library announces: retiring a location is *)
(* one, and any other removal of it is not.                                *)

Changed(event, l, at) ==
    /\ event \in World /\ changes < MaxChanges /\ changes' = changes + 1
    /\ listed' = [listed EXCEPT ![l] = at]
    /\ UNCHANGED <<windows, discovery, notices, open, window, answer, removals>>

Remap(l) ==
    /\ listed[l] # None /\ announced' = announced \cup {l}
    /\ \E r \in Roots \ {listed[l].root} :
          Changed("remap", l, [root |-> r, decision |-> listed[l].decision + 1])

Reselect(l) ==
    /\ listed[l] # None /\ announced' = announced \cup {l}
    /\ Changed("reselect", l, [listed[l] EXCEPT !.decision = @ + 1])

Remove(l) ==
    /\ listed[l] # None /\ announced' \in {announced, announced \cup {l}}
    /\ Changed("remove", l, None)

-----------------------------------------------------------------------------

Next ==
    \/ \E l \in Locations :
          \/ Sweep(l) \/ Change(l) \/ Rescan(l) \/ WaitedOut(l)
          \/ Remap(l) \/ Reselect(l) \/ Remove(l)
    \/ Attach \/ Tick \/ TakeNotice \/ ShellFollows \/ WindowFollows \/ Answered
    \/ \E n \in Calls : Returns(n)
    \/ \E k \in Keys : Ask(k) \/ Tell(k)
    \/ \E v \in Volumes : Request(v) \/ Refuse(v) \/ Grant(v) \/ Pull(v) \/ Mount(v)

Spec == Init /\ [][Next]_vars

\* Discovery takes whatever is ready, in no fixed order, and sweeps and ticks
\* again and again; calls return, tasks and the window go on, and Windows decides
\* a removal and tells every registration.
Fairness ==
    /\ \A l \in Locations : SF_vars(Sweep(l)) /\ SF_vars(Change(l)) /\ SF_vars(WaitedOut(l))
    /\ SF_vars(TakeNotice) /\ SF_vars(Tick) /\ WF_vars(Attach)
    /\ WF_vars(\E n \in Calls : Returns(n))
    /\ WF_vars(ShellFollows) /\ WF_vars(WindowFollows) /\ WF_vars(Answered)
    /\ WF_vars(\E k \in Keys : Ask(k) \/ Tell(k)) /\ \A v \in Volumes : WF_vars(Refuse(v))

FairSpec == Spec /\ Fairness

-----------------------------------------------------------------------------
(* What it keeps.                                                          *)

\* Type invariant.  What discovery remembers of a pending removal it keeps only
\* while the location is released (`Moved`, `HeldOffline`), and a released
\* location has no watcher.
TypeOK ==
    /\ listed \in [Locations -> Listings \cup {None}]
    /\ held \in [Locations -> Watches \cup {None}]
    /\ offline \in [Locations -> Listings \cup {None}]
    /\ \A l \in Locations : held[l] # None =>
          /\ offline[l] = None
          /\ held[l].moved # None \/ held[l].before # None => held[l].released
          /\ held[l].inPlace # None => held[l].moved # None
          /\ held[l].released => held[l].watch = 0
    /\ named \subseteq Keys /\ given \subseteq Keys /\ awaiting \subseteq open

\* Safety.  Once discovery answered a removal request with the location
\* released, it holds nothing of that location anywhere on the volume until
\* the removal is decided: not at the root asked about, at one the location
\* moved to or left before, nor at one the user gives it meanwhile ("return
\* once discovery holds no handle on the volume", `CaptureWatch::release`).  A
\* request for the root it waits to move to after an earlier removal leaves no
\* trace, so with two removals it fails (CaptureTwoRemovals).
HeldClear == \A k \in cleared : ~Holds(k[1], Volume(k))

\* Action property.  A step that leaves a location released names no root for
\* it that was not named: the shell would register a fresh handle on the
\* volume being removed (`moved_before_release`, `held_offline`, `follow`).
NamesNothingNew ==
    [][\A l \in Locations :
          held'[l] # None /\ held'[l].released =>
             {k \in named' : k[1] = l} \subseteq named]_vars

\* In the catalog, its root there, and nobody removing the root's volume.
Calm(l)    == listed[l] # None /\ Present(listed[l]) /\ removal[VolumeOf[listed[l].root]] = Quiet
Followed(l) ==
    /\ listed[l] # None /\ held[l] # None
    /\ held[l].at.root = listed[l].root /\ ~held[l].released

\* Liveness.  A location whose root is there and whose volume nobody removes
\* ends followed at that root, whatever requests, outcomes, pulls and remaps
\* came before: no release outlives its removal ("watch the location again",
\* `reattach`; `gone`, `waited_out`, the sweep).
EndsFollowed == \A l \in Locations : <>[]Calm(l) => <>[]Followed(l)

\* Liveness.  The window waits on discovery only for a while (`release`).
ReleaseReturns == asking # None ~> asking = None

\* Liveness.  A location the user removed is named no more and has no
\* registration that would keep its volume (`reconcile`, `Draining::prune`).
RemovedLetsGo ==
    \A l \in Locations :
        <>[](listed[l] = None) => <>[](\A k \in Keys : k[1] = l => k \notin named /\ regs[k] = "none")
=============================================================================
