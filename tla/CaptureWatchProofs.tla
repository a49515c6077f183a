------------------------- MODULE CaptureWatchProofs -------------------------
(***************************************************************************)
(* Theorems of CaptureWatch: for any locations, roots and volumes, any     *)
(* number of calls, changes and removals, and every world.                 *)
(***************************************************************************)
EXTENDS CaptureWatch, SequenceTheorems, TLAPS

Draining == [key : Keys, call : Calls]
Notices  == [kind : {"release", "reattach", "gone"}, key : Keys]

\* What discovery holds, as a state of one of its steps.
States == [held : [Locations -> Watches \cup {None}],
           offline : [Locations -> Listings \cup {None}],
           left : [Locations -> SUBSET Roots],
           draining : SUBSET Draining,
           starting : Locations \cup {None}]

\* What a release remembers it keeps only while it lasts, and a location is
\* followed or known offline, never both.
Fits(d, l) ==
    d.held[l] # None =>
        /\ d.offline[l] = None
        /\ d.held[l].moved # None \/ d.held[l].before # None => d.held[l].released
        /\ d.held[l].inPlace # None => d.held[l].moved # None
        /\ d.held[l].released => d.held[l].watch = 0

\* The watcher being started is of a location followed and not released.
StartFits(d) ==
    d.starting # None =>
        /\ d.held[d.starting] \in Watches /\ ~d.held[d.starting].released
        /\ d.held[d.starting].watch = 0

\* What still runs, and what a release keeps from running, has its root named.
Covered(d, l) ==
    d.held[l] # None /\ (d.held[l].released \/ d.held[l].watch # 0) => Named(l, d.held[l]) \in named

Good(d) ==
    /\ d \in States
    /\ \A l \in Locations : Fits(d, l) /\ Covered(d, l)
    /\ StartFits(d)
    /\ \A c \in d.draining : c.key \in named

Rest ==
    /\ listed \in [Locations -> Listings \cup {None}]
    /\ \A l \in Locations : listed[l] # None => listed[l].decision <= changes
    /\ changes \in 0..MaxChanges
    /\ notices \in Seq(Notices)
    /\ named \subseteq Keys /\ given \subseteq Keys /\ asking \in Keys \cup {None}
    /\ open \subseteq Calls /\ awaiting \subseteq open

\* Every root discovery follows, or holds a call at, is named.
AllNamed == \A l \in Locations : held[l] # None => Named(l, held[l]) \in named

HeldNow == [held |-> held, offline |-> offline, left |-> left, draining |-> draining,
            starting |-> starting]

Inv == Rest /\ Good(HeldNow) /\ AllNamed
-----------------------------------------------------------------------------
(* What one location's operations keep.                                    *)

\* Nothing is being started: an operation of discovery may go on from here.
Idle(d) == Good(d) /\ d.starting = None

\* The values a record of a location has.
LEMMA RecordTypes ==
    /\ None \notin Listings /\ None \notin Watches
    /\ \A at \in Listings : at.root \in Roots /\ at.decision \in 0..MaxChanges
    /\ \A w \in Watches : /\ w.at \in Listings /\ w.watch \in {0} \cup Calls
                          /\ w.released \in BOOLEAN /\ w.moved \in Listings \cup {None}
                          /\ w.inPlace \in Roots \cup {None} /\ w.before \in Listings \cup {None}
    /\ \A at \in Listings : Following(at) \in Watches
BY InstanceAssumption DEF Listings, Watches, Following

\* A listing at another root is a listing.
LEMMA RootIsListing ==
    ASSUME NEW at \in Listings, NEW r \in Roots
    PROVE  [at EXCEPT !.root = r] \in Listings
BY DEF Listings

\* A location whose watcher is let go of is as it was, with none.
LEMMA LetGoGood ==
    ASSUME NEW d, NEW l \in Locations, Idle(d), d.held[l] # None
    PROVE  /\ Idle(LetGo(d, l))
           /\ LetGo(d, l).held = [d.held EXCEPT ![l] = [d.held[l] EXCEPT !.watch = 0]]
           /\ LetGo(d, l).offline = d.offline /\ LetGo(d, l).left = d.left
<1> DEFINE w == d.held[l]
           e == LetGo(d, l)
           c == [key |-> <<l, w.at.root>>, call |-> w.watch]
<1>1. /\ d \in States /\ w \in Watches /\ w.at \in Listings /\ w.at.root \in Roots
      /\ w.watch \in {0} \cup Calls /\ w.released \in BOOLEAN
      /\ Fits(d, l) /\ Covered(d, l)
  BY RecordTypes DEF Idle, Good, States
<1>2. CASE w.watch = 0
  <2>1. e = d /\ w = [w EXCEPT !.watch = 0]
    BY <1>1, <1>2 DEF LetGo, Watches
  <2>2. d.held = [d.held EXCEPT ![l] = w]
    BY <1>1, SMTT(30) DEF States
  <2> QED BY <2>1, <2>2
<1>3. CASE w.watch # 0
  <2>1. e = [d EXCEPT !.held = [@ EXCEPT ![l] = [w EXCEPT !.watch = 0]],
                      !.draining = @ \cup {c}]
    BY <1>1, <1>3 DEF LetGo, States
  <2>2. w.inPlace = None
    BY <1>1, <1>3 DEF Fits
  <2>3. <<l, w.at.root>> \in named
    BY <1>1, <1>3, <2>2 DEF Covered, Named
  <2>4. c \in Draining
    BY <1>1, <1>3 DEF Draining, Keys
  <2>5. [w EXCEPT !.watch = 0] \in Watches
    BY <1>1 DEF Watches
  <2>a. d.draining \cup {c} \in SUBSET Draining
    BY <1>1, <2>4 DEF States
  <2>b. [d.held EXCEPT ![l] = [w EXCEPT !.watch = 0]] \in [Locations -> Watches \cup {None}]
    BY <1>1, <2>5 DEF States
  <2>6. e \in States /\ e.starting = None
    BY <1>1, <2>1, <2>a, <2>b DEF States, Idle
  <2>7. ASSUME NEW m \in Locations PROVE Fits(e, m) /\ Covered(e, m)
    <3>1. Fits(d, m) /\ Covered(d, m)
      BY DEF Idle, Good
    <3>2. CASE m # l
      BY <1>1, <2>1, <3>1, <3>2 DEF Fits, Covered, States
    <3>3. CASE m = l
      BY <1>1, <1>3, <2>1, <3>1, <3>3 DEF Fits, Covered, States, Watches, Named
    <3> QED BY <3>2, <3>3
  <2>8. \A k \in e.draining : k.key \in named
    BY <1>1, <2>1, <2>3 DEF Idle, Good, States
  <2> QED BY <1>1, <2>1, <2>6, <2>7, <2>8 DEF Idle, Good, StartFits, States
<1> QED BY <1>2, <1>3

\* What a location let go of leaves: nobody follows it.
LEMMA LeaveGood ==
    ASSUME NEW d, NEW l \in Locations, Idle(d), d.held[l] # None
    PROVE  /\ Idle(Drop(d, l)) /\ Drop(d, l).held[l] = None
           /\ Idle(Leave(d, l)) /\ Leave(d, l).held[l] = None
           /\ Idle(GoOffline(d, l)) /\ GoOffline(d, l).held[l] = None
           /\ GoOffline(d, l).offline \in [Locations -> Listings \cup {None}]
<1> DEFINE e == LetGo(d, l)
<1>a. Idle(e)
  BY LetGoGood
<1>b. e \in States /\ d \in States
  BY <1>a DEF Idle, Good
<1>c. d.held[l] \in Watches
  BY <1>b DEF States
<1>1. /\ Idle(e) /\ e \in States /\ d \in States
      /\ d.held[l].at \in Listings /\ d.held[l].at.root \in Roots
  BY <1>a, <1>b, <1>c, RecordTypes
<1>2. ASSUME NEW o \in [Locations -> Listings \cup {None}], NEW s \in [Locations -> SUBSET Roots],
             \A m \in Locations \ {l} : o[m] = e.offline[m],
             NEW f, f = [e EXCEPT !.held[l] = None, !.left = s, !.offline = o]
      PROVE  Idle(f)
  <2>1. f \in States /\ f.starting = None
    BY <1>1, <1>2 DEF States, Idle
  <2>2. ASSUME NEW m \in Locations PROVE Fits(f, m) /\ Covered(f, m)
    <3>1. Fits(e, m) /\ Covered(e, m)
      BY <1>1 DEF Idle, Good
    <3>2. CASE m = l
      BY <1>1, <1>2, <3>2 DEF Fits, Covered, States
    <3>3. CASE m # l
      BY <1>1, <1>2, <3>1, <3>3 DEF Fits, Covered, States
    <3> QED BY <3>2, <3>3
  <2>3. f.draining = e.draining
    BY <1>1, <1>2 DEF States
  <2> QED BY <1>1, <2>1, <2>2, <2>3 DEF Idle, Good, StartFits
<1>3. Drop(d, l) = [e EXCEPT !.held[l] = None, !.left = e.left, !.offline = e.offline]
  BY <1>1 DEF Drop, States
<1> DEFINE s == [e.left EXCEPT ![l] = @ \cup {d.held[l].at.root}]
           o == [e.offline EXCEPT ![l] = d.held[l].at]
<1>4. /\ s \in [Locations -> SUBSET Roots] /\ o \in [Locations -> Listings \cup {None}]
      /\ \A m \in Locations \ {l} : o[m] = e.offline[m]
  BY <1>1 DEF States
<1>5. Leave(d, l) = [e EXCEPT !.held[l] = None, !.left = s, !.offline = e.offline]
  BY <1>1, <1>3 DEF Leave, Drop, States
<1>6. GoOffline(d, l) = [e EXCEPT !.held[l] = None, !.left = s, !.offline = o]
  BY <1>1, <1>5 DEF GoOffline, States
<1>7. /\ e.left \in [Locations -> SUBSET Roots]
      /\ e.offline \in [Locations -> Listings \cup {None}]
  BY <1>1 DEF States
<1>8. Idle(Drop(d, l)) /\ Idle(Leave(d, l)) /\ Idle(GoOffline(d, l))
  <2>1. Idle(Drop(d, l))
    BY <1>2, <1>3, <1>7
  <2>2. Idle(Leave(d, l))
    BY <1>2, <1>4, <1>5, <1>7
  <2>3. Idle(GoOffline(d, l))
    BY <1>2, <1>4, <1>6
  <2> QED BY <2>1, <2>2, <2>3
<1> QED BY <1>1, <1>3, <1>4, <1>5, <1>6, <1>8 DEF States

\* A location is started where it is told, and nothing is released there.
LEMMA TryStartGood ==
    ASSUME NEW d, NEW l \in Locations, NEW at \in Listings, Idle(d), d.held[l] = None
    PROVE  /\ Good(TryStart(d, l, at))
           /\ TryStart(d, l, at).held[l] # None => ~TryStart(d, l, at).held[l].released
<1> DEFINE e == TryStart(d, l, at)
<1>1. d \in States /\ Following(at) \in Watches
  BY RecordTypes DEF Idle, Good
<1>2. CASE Present(at)
  <2>1. e = [d EXCEPT !.offline[l] = None, !.held[l] = Following(at), !.starting = l]
    BY <1>2 DEF TryStart
  <2>a. [d.held EXCEPT ![l] = Following(at)] \in [Locations -> Watches \cup {None}]
    BY <1>1 DEF States
  <2>b. [d.offline EXCEPT ![l] = None] \in [Locations -> Listings \cup {None}]
    BY <1>1 DEF States
  <2>2. e \in States /\ e.held[l] = Following(at) /\ e.offline[l] = None /\ e.starting = l
    BY <1>1, <2>1, <2>a, <2>b, ZenonT(60) DEF States
  <2>3. ASSUME NEW m \in Locations PROVE Fits(e, m) /\ Covered(e, m)
    <3>1. Fits(d, m) /\ Covered(d, m)
      BY DEF Idle, Good
    <3>2. CASE m = l
      BY <2>2, <3>2 DEF Fits, Covered, Following
    <3>3. CASE m # l
      BY <1>1, <2>1, <3>1, <3>3 DEF Fits, Covered, States
    <3> QED BY <3>2, <3>3
  <2>4. e.draining = d.draining
    BY <1>1, <2>1 DEF States
  <2>5. StartFits(e)
    BY <1>1, <2>2 DEF StartFits, Following
  <2> QED BY <2>2, <2>3, <2>4, <2>5 DEF Idle, Good, Following
<1>3. CASE ~Present(at)
  <2>1. e = [d EXCEPT !.offline[l] = at]
    BY <1>3 DEF TryStart
  <2>2. e \in States /\ e.starting = None /\ e.held = d.held /\ e.draining = d.draining
    BY <1>1, <2>1 DEF States, Idle
  <2>3. ASSUME NEW m \in Locations PROVE Fits(e, m) /\ Covered(e, m)
    <3>1. Fits(d, m) /\ Covered(d, m)
      BY DEF Idle, Good
    <3>2. CASE m = l
      BY <2>2, <3>2 DEF Fits, Covered, Idle
    <3>3. CASE m # l
      BY <1>1, <2>1, <2>2, <3>1, <3>3 DEF Fits, Covered, States
    <3> QED BY <3>2, <3>3
  <2> QED BY <2>2, <2>3 DEF Idle, Good, StartFits
<1> QED BY <1>2, <1>3

\* A location that leaves its root is followed, if at all, unreleased.
Unheld(d, l) == d.held[l] # None => ~d.held[l].released

\* `move_on`, `check_again` and `decided` end a release.
LEMMA DecidedGood ==
    ASSUME NEW d, NEW l \in Locations, Idle(d), d.held[l] # None
    PROVE  /\ d.held[l].moved # None => Good(MoveOn(d, l)) /\ Unheld(MoveOn(d, l), l)
           /\ Good(CheckAgain(d, l)) /\ Unheld(CheckAgain(d, l), l)
           /\ Good(Decided(d, l)) /\ Unheld(Decided(d, l), l)
<1> DEFINE w == d.held[l]
<1>a. d \in States /\ w \in Watches
  BY DEF Idle, Good, States
<1>1. /\ w.at \in Listings /\ w.before \in Listings \cup {None}
      /\ w.moved # None => w.moved \in Listings
  BY <1>a, RecordTypes
<1>2. Idle(Leave(d, l)) /\ Leave(d, l).held[l] = None
  BY LeaveGood
<1>3. w.moved # None => Good(MoveOn(d, l)) /\ Unheld(MoveOn(d, l), l)
  BY <1>1, <1>2, TryStartGood DEF MoveOn, Unheld
<1>4. Good(CheckAgain(d, l)) /\ Unheld(CheckAgain(d, l), l)
  BY <1>1, <1>2, TryStartGood DEF CheckAgain, Unheld
<1> DEFINE e == GoOffline(d, l)
           o == IF w.before # None THEN w.before ELSE e.offline[l]
           f == [e EXCEPT !.offline[l] = o]
<1>5. Idle(e) /\ e.held[l] = None /\ e \in States
  BY LeaveGood DEF Idle, Good
<1>6. o \in Listings \cup {None}
  BY <1>1, <1>5 DEF States
<1>7. Good(f) /\ f.held[l] = None
  <2>a. [e.offline EXCEPT ![l] = o] \in [Locations -> Listings \cup {None}]
    BY <1>5, <1>6 DEF States
  <2>1. /\ f \in States /\ f.held = e.held /\ f.draining = e.draining /\ f.starting = None
        /\ \A m \in Locations \ {l} : f.offline[m] = e.offline[m]
    BY <1>5, <2>a DEF States, Idle
  <2>2. ASSUME NEW m \in Locations PROVE Fits(f, m) /\ Covered(f, m)
    <3>1. Fits(e, m) /\ Covered(e, m)
      BY <1>5 DEF Idle, Good
    <3> QED BY <1>5, <2>1, <3>1 DEF Fits, Covered
  <2> QED BY <1>5, <2>1, <2>2 DEF Idle, Good, StartFits
<1>8. w.moved = None /\ ~(w.before # None /\ w.before.decision # w.at.decision) => Decided(d, l) = f
  BY DEF Decided
<1>9. Good(Decided(d, l)) /\ Unheld(Decided(d, l), l)
  <2>1. CASE w.moved # None
    BY <1>3, <2>1 DEF Decided
  <2>2. CASE w.moved = None /\ w.before # None /\ w.before.decision # w.at.decision
    BY <1>4, <2>2 DEF Decided
  <2>3. CASE w.moved = None /\ ~(w.before # None /\ w.before.decision # w.at.decision)
    BY <1>7, <1>8, <2>3 DEF Unheld
  <2> QED BY <2>1, <2>2, <2>3
<1> QED BY <1>3, <1>4, <1>9

\* `e` is `d` but for what it knows of one location.
Alone(d, e, l) ==
    /\ e \in States
    /\ e.starting = None \/ (e.starting = l /\ StartFits(e))
    /\ e.draining = d.draining
    /\ \A m \in Locations \ {l} : e.held[m] = d.held[m] /\ e.offline[m] = d.offline[m]

\* A state that differs at one location alone is good when that one is.
LEMMA OneChanges ==
    ASSUME NEW d, NEW e, NEW l \in Locations,
           Idle(d), Alone(d, e, l), Fits(e, l), Covered(e, l)
    PROVE  Good(e)
<1>1. ASSUME NEW m \in Locations PROVE Fits(e, m) /\ Covered(e, m)
  <2>1. Fits(d, m) /\ Covered(d, m)
    BY DEF Idle, Good
  <2> QED BY <2>1 DEF Fits, Covered, Alone
<1>2. StartFits(e)
  BY DEF StartFits, Alone
<1> QED BY <1>1, <1>2 DEF Idle, Good, Alone

\* A sweep or a change follows the location where the catalog has it.
LEMMA FollowGood ==
    ASSUME NEW d, NEW l \in Locations, NEW at \in Listings, NEW sweep \in BOOLEAN, Idle(d),
           at # None,
           d.held[l] # None /\ ~d.held[l].released => d.held[l].at.root = at.root
    PROVE  Good(Follow(d, l, at, sweep))
<1> DEFINE w == d.held[l]
           f == Follow(d, l, at, sweep)
<1> SUFFICES Good(f)
  OBVIOUS
<1> HIDE DEF f
<1>1. d \in States
  BY DEF Idle, Good
<1>2. CASE w = None
  BY <1>2, TryStartGood DEF Follow, Idle, f
<1>3. CASE w # None /\ w.released /\ (w.at.root # at.root \/ w.inPlace # None)
  <2> DEFINE u == [w EXCEPT !.moved = at]
  <2>1. f = [d EXCEPT !.held = [@ EXCEPT ![l] = u]]
    BY <1>1, <1>3 DEF Follow, States, f
  <2>2. w \in Watches /\ u \in Watches
    BY <1>1, <1>3 DEF States, Watches
  <2>3. /\ [d.held EXCEPT ![l] = u] \in [Locations -> Watches \cup {None}]
        /\ [d.held EXCEPT ![l] = u][l] = u
    BY <1>1, <2>2 DEF States
  <2>4. /\ f \in States /\ f.draining = d.draining /\ f.starting = None /\ f.held[l] = u
        /\ f.offline = d.offline /\ \A m \in Locations \ {l} : f.held[m] = d.held[m]
    BY <1>1, <2>1, <2>3 DEF States, Idle
  <2>5. Fits(d, l) /\ Covered(d, l)
    BY DEF Idle, Good
  <2>6. u.released = w.released /\ u.watch = w.watch /\ u.inPlace = w.inPlace /\ u.before = w.before
        /\ u.at = w.at /\ u.moved = at
    BY <2>2 DEF Watches
  <2>7. Fits(f, l) /\ Covered(f, l)
    <3>1. Covered(f, l)
      BY <1>3, <2>4, <2>5, <2>6 DEF Covered, Named
    <3>2. Fits(f, l)
      BY <1>3, <2>4, <2>5, <2>6 DEF Fits
    <3> QED BY <3>1, <3>2
  <2>b. Alone(d, f, l)
    BY <2>4 DEF Alone
  <2> QED BY <2>7, <2>b, OneChanges
<1>4. CASE /\ w # None /\ ~(w.released /\ (w.at.root # at.root \/ w.inPlace # None))
           /\ ~sweep \/ w.released \/ Present(w.at)
  <2> DEFINE u == [w EXCEPT !.at = at, !.moved = None]
  <2>1. f = [d EXCEPT !.held = [@ EXCEPT ![l] = u]]
    BY <1>1, <1>4 DEF Follow, States, f
  <2>2. w \in Watches /\ u \in Watches
    BY <1>1, <1>4, ZenonT(60) DEF States, Watches
  <2>3. /\ [d.held EXCEPT ![l] = u] \in [Locations -> Watches \cup {None}]
        /\ [d.held EXCEPT ![l] = u][l] = u
    BY <1>1, <2>2 DEF States
  <2>4. /\ f \in States /\ f.draining = d.draining /\ f.starting = None /\ f.held[l] = u
        /\ f.offline = d.offline /\ \A m \in Locations \ {l} : f.held[m] = d.held[m]
    BY <1>1, <2>1, <2>3 DEF States, Idle
  <2>5. Fits(d, l) /\ Covered(d, l)
    BY DEF Idle, Good
  <2>6. u.released = w.released /\ u.watch = w.watch /\ u.inPlace = w.inPlace /\ u.before = w.before
        /\ u.at = at /\ u.moved = None
    BY <2>2 DEF Watches
  <2>7. w.at.root = at.root
    BY <1>4
  <2>8. w.inPlace = None
    BY <1>4, <2>5 DEF Fits
  <2>9. Fits(f, l) /\ Covered(f, l)
    <3>1. Covered(f, l)
      BY <1>4, <2>4, <2>5, <2>6, <2>7, <2>8 DEF Covered, Named
    <3>2. Fits(f, l)
      BY <1>4, <2>4, <2>5, <2>6, <2>8 DEF Fits
    <3> QED BY <3>1, <3>2
  <2>b. Alone(d, f, l)
    BY <2>4 DEF Alone
  <2> QED BY <2>9, <2>b, OneChanges
<1>5. CASE /\ w # None /\ ~(w.released /\ (w.at.root # at.root \/ w.inPlace # None))
           /\ ~(~sweep \/ w.released \/ Present(w.at))
  <2>1. f = TryStart(GoOffline(d, l), l, at)
    BY <1>5 DEF Follow, f
  <2>2. Idle(GoOffline(d, l)) /\ GoOffline(d, l).held[l] = None
    BY <1>5, LeaveGood
  <2> QED BY <2>1, <2>2, TryStartGood
<1> QED BY <1>2, <1>3, <1>4, <1>5

\* How a release leaves a location: with no watcher, and at a root that is
\* named, or stands in for one that is.
Ended(l, w) ==
    /\ w \in Watches /\ w.watch = 0 /\ w.released
    /\ w.inPlace # None => w.moved # None
    /\ Named(l, w) \in named

\* `e` is `d` with `w` as what it follows of the location.
Becomes(d, e, l, w) ==
    \E o \in [Locations -> Listings \cup {None}], s \in [Locations -> SUBSET Roots] :
        /\ o[l] = None /\ \A m \in Locations \ {l} : o[m] = d.offline[m]
        /\ e = [d EXCEPT !.held = [@ EXCEPT ![l] = w], !.offline = o, !.left = s]

\* A release that ends so keeps all else.
LEMMA ReleaseEnds ==
    ASSUME NEW d, NEW e, NEW l \in Locations, NEW w, Idle(d), Ended(l, w), Becomes(d, e, l, w)
    PROVE  Good(e)
<1> PICK o \in [Locations -> Listings \cup {None}], s \in [Locations -> SUBSET Roots] :
        /\ o[l] = None /\ \A m \in Locations \ {l} : o[m] = d.offline[m]
        /\ e = [d EXCEPT !.held = [@ EXCEPT ![l] = w], !.offline = o, !.left = s]
  BY DEF Becomes
<1>1. d \in States
  BY DEF Idle, Good
<1>2. [d.held EXCEPT ![l] = w] \in [Locations -> Watches \cup {None}]
  BY <1>1 DEF States, Ended
<1>3. /\ e \in States /\ e.draining = d.draining /\ e.starting = None
      /\ e.held = [d.held EXCEPT ![l] = w] /\ e.offline = o
  BY <1>1, <1>2 DEF States, Idle
<1>4. e.held[l] = w /\ \A m \in Locations \ {l} : e.held[m] = d.held[m]
  BY <1>1, <1>3 DEF States
<1>5. Alone(d, e, l)
  BY <1>3, <1>4 DEF Alone
<1>6. Fits(e, l) /\ Covered(e, l)
  BY <1>3, <1>4 DEF Fits, Covered, Ended
<1> QED BY <1>5, <1>6, OneChanges

\* `release`: what it holds meanwhile is named already.
LEMMA ReleasedGood ==
    ASSUME NEW d, NEW l \in Locations, NEW r \in Roots, Idle(d),
           d.held[l] # None => Named(l, d.held[l]) \in named
    PROVE  Good(Released(d, l, r))
<1> DEFINE w == d.held[l]
           b == d.offline[l]
           a == HeldOffline(d, l, r)
           n == MovedBefore(a, l, r)
           f == Released(d, l, r)
<1> SUFFICES Good(f)
  OBVIOUS
<1>1. /\ d \in States /\ Fits(d, l) /\ Covered(d, l)
      /\ w # None => w \in Watches
      /\ b # None => b \in Listings
  BY DEF Idle, Good, States
<1>2. f = IF n.held[l] # None /\ n.held[l].at.root = r
          THEN [LetGo(n, l) EXCEPT !.held[l].released = TRUE] ELSE n
  BY DEF Released
<1> HIDE DEF f, n, a
<1>3. CASE w = None /\ b # None /\ <<l, r>> \in named /\ r \in d.left[l]
  <2> DEFINE at == [b EXCEPT !.root = r]
             u == [Following(at) EXCEPT !.moved = IF b.root = r THEN None ELSE b, !.before = b]
             v == [u EXCEPT !.released = TRUE]
             o == [d.offline EXCEPT ![l] = None]
             s == [d.left EXCEPT ![l] = @ \ {r}]
             g == [d EXCEPT !.held = [@ EXCEPT ![l] = u], !.offline = o, !.left = s]
             h == [d EXCEPT !.held = [@ EXCEPT ![l] = v], !.offline = o, !.left = s]
  <2>1. at \in Listings /\ at.root = r
    BY <1>1, <1>3 DEF Listings
  <2>2. u \in Watches /\ u.at = at /\ u.watch = 0 /\ u.released = FALSE /\ u.inPlace = None
    BY <1>1, <1>3, <2>1, ZenonT(60) DEF Watches, Following
  <2>3. v \in Watches /\ v.at = at /\ v.watch = 0 /\ v.released /\ v.inPlace = None
    BY <2>2 DEF Watches
  <2>4. o \in [Locations -> Listings \cup {None}] /\ s \in [Locations -> SUBSET Roots]
    BY <1>1 DEF States
  <2>5. a = g
    BY <1>1, <1>3 DEF HeldOffline, States, a
  <2>6. g.held[l] = u
    BY <1>1 DEF States
  <2>7. n = g
    BY <2>1, <2>2, <2>5, <2>6 DEF MovedBefore, n
  <2>8. LetGo(g, l) = g
    BY <2>2, <2>6 DEF LetGo
  <2>9. [g EXCEPT !.held[l].released = TRUE] = h
    <3>1. [g.held EXCEPT ![l] = v] = [d.held EXCEPT ![l] = v]
      BY <1>1 DEF States
    <3>2. [g EXCEPT !.held = [d.held EXCEPT ![l] = v]] = h
      BY <1>1 DEF States
    <3> QED BY <2>6, <3>1, <3>2
  <2>10. Ended(l, v)
    <3>1. Named(l, v) \in named
      BY <1>3, <2>1, <2>3 DEF Named
    <3> QED BY <2>3, <3>1 DEF Ended
  <2>11. o[l] = None /\ \A m \in Locations \ {l} : o[m] = d.offline[m]
    BY <1>1 DEF States
  <2>12. u # None /\ g.held[l] # None /\ g.held[l].at.root = r
    BY <2>1, <2>2, <2>6, RecordTypes
  <2>13. Becomes(d, h, l, v)
    BY <2>4, <2>11 DEF Becomes
  <2>14. Good(h)
    BY <2>10, <2>13, ReleaseEnds
  <2> HIDE DEF g, h
  <2>15. f = h
    BY <1>2, <2>7, <2>8, <2>9, <2>12
  <2> QED BY <2>14, <2>15
<1>4. CASE ~(w = None /\ b # None /\ <<l, r>> \in named /\ r \in d.left[l])
  <2>1. a = d
    BY <1>4 DEF HeldOffline, a
  <2>2. CASE w # None /\ ~w.released /\ w.at.root # r /\ r \in d.left[l]
    <3> DEFINE e == LetGo(d, l)
               at == [w.at EXCEPT !.root = r]
               p == InPlace(l, r, w.at.root)
               u == [Following(at) EXCEPT !.moved = w.at, !.inPlace = p]
               v == [u EXCEPT !.released = TRUE]
               s == [e.left EXCEPT ![l] = (@ \ {r}) \cup {w.at.root}]
               g == [e EXCEPT !.held = [@ EXCEPT ![l] = u], !.left = s]
               h == [e EXCEPT !.held = [@ EXCEPT ![l] = v], !.offline = e.offline, !.left = s]
    <3>1. Idle(e) /\ e \in States /\ e.offline = d.offline
      BY <2>2, LetGoGood, ZenonT(60) DEF Idle, Good
    <3>2. w.at \in Listings /\ w.at.root \in Roots /\ w \in Watches /\ w.inPlace = None
      BY <1>1, <2>2, RecordTypes DEF Fits
    <3>3. at \in Listings /\ at.root = r
      BY <3>2 DEF Listings
    <3>4. p \in Roots \cup {None}
      BY <3>2 DEF InPlace
    <3>5. /\ u \in Watches /\ u.at = at /\ u.watch = 0 /\ u.released = FALSE /\ u.inPlace = p
          /\ u.moved = w.at
      BY <3>2, <3>3, <3>4, ZenonT(60) DEF Watches, Following
    <3>6. /\ v \in Watches /\ v.at = at /\ v.watch = 0 /\ v.released /\ v.inPlace = p
          /\ v.moved = w.at
      BY <3>5 DEF Watches
    <3>7. n = g
      BY <2>1, <2>2, <3>1 DEF MovedBefore, States, n
    <3>8. g.held[l] = u /\ [g EXCEPT !.held[l].released = TRUE] = h
      <4>1. g.held[l] = u
        BY <3>1 DEF States
      <4>2. [g.held EXCEPT ![l] = v] = [e.held EXCEPT ![l] = v]
        BY <3>1 DEF States
      <4>3. [g EXCEPT !.held = [e.held EXCEPT ![l] = v]] = h
        BY <3>1 DEF States
      <4> QED BY <4>1, <4>2, <4>3
    <3>9. LetGo(g, l) = g
      BY <3>5, <3>8 DEF LetGo
    <3>10. w.at # None /\ g.held[l] # None /\ g.held[l].at.root = r
      BY <3>2, <3>3, <3>5, <3>8, RecordTypes
    <3>12. Named(l, v) \in named
      <4>1. <<l, w.at.root>> \in named
        BY <2>2, <3>2 DEF Named
      <4>2. p = None => <<l, r>> \in named
        BY <3>2, InstanceAssumption DEF InPlace
      <4>3. p # None => p = w.at.root
        BY DEF InPlace
      <4> QED BY <3>3, <3>6, <4>1, <4>2, <4>3 DEF Named
    <3>13. /\ e.offline \in [Locations -> Listings \cup {None}]
           /\ s \in [Locations -> SUBSET Roots] /\ e.offline[l] = None
      BY <1>1, <2>2, <3>1, <3>2 DEF States, Fits
    <3>14. Ended(l, v)
      BY <3>6, <3>10, <3>12 DEF Ended
    <3>15. Becomes(e, h, l, v)
      BY <3>13 DEF Becomes
    <3>16. Good(h)
      BY <3>1, <3>14, <3>15, ReleaseEnds
    <3> HIDE DEF g, h
    <3>17. f = h
      BY <1>2, <3>7, <3>8, <3>9, <3>10
    <3> QED BY <3>16, <3>17
  <2>3. CASE w # None /\ w.at.root = r
    <3> DEFINE e == LetGo(d, l)
               u == [w EXCEPT !.watch = 0]
               v == [u EXCEPT !.released = TRUE]
               h == [e EXCEPT !.held = [@ EXCEPT ![l] = v], !.offline = e.offline,
                              !.left = e.left]
    <3>a. Idle(e) /\ e.held = [d.held EXCEPT ![l] = u] /\ e.offline = d.offline
      BY <2>3, LetGoGood
    <3>1. Idle(e) /\ e \in States /\ e.offline = d.offline /\ e.held[l] = u
      BY <1>1, <3>a DEF Idle, Good, States
    <3>2. w \in Watches /\ w.at.root \in Roots
      BY <1>1, <2>3, RecordTypes
    <3>3. n = d
      BY <2>1, <2>3 DEF MovedBefore, n
    <3>4. f = h
      BY <1>2, <2>3, <3>1, <3>3 DEF States
    <3>5. /\ v \in Watches /\ v.watch = 0 /\ v.released /\ v.inPlace = w.inPlace
          /\ v.moved = w.moved /\ v.at = w.at
      BY <3>2 DEF Watches
    <3>6. Named(l, v) = Named(l, w)
      BY <3>5 DEF Named
    <3>7. e.offline \in [Locations -> Listings \cup {None}] /\ e.left \in [Locations -> SUBSET Roots]
      BY <3>1 DEF States
    <3>8. e.offline[l] = None /\ (v.inPlace # None => v.moved # None)
      BY <1>1, <2>3, <3>1, <3>5 DEF Fits
    <3>9. Ended(l, v)
      BY <2>3, <3>5, <3>6, <3>8 DEF Ended
    <3>10. Becomes(e, h, l, v)
      BY <3>7, <3>8 DEF Becomes
    <3> QED BY <3>1, <3>4, <3>9, <3>10, ReleaseEnds
  <2>4. CASE /\ ~(w # None /\ w.at.root = r)
             /\ ~(w # None /\ ~w.released /\ w.at.root # r /\ r \in d.left[l])
    <3>1. n = d
      BY <2>1, <2>4 DEF MovedBefore, n
    <3>2. f = d
      BY <1>2, <2>4, <3>1
    <3> QED BY <3>2 DEF Idle
  <2> QED BY <2>2, <2>3, <2>4
<1> QED BY <1>3, <1>4

\* A removal refused, or done: `reattach` and `gone`.
LEMMA OutcomeGood ==
    ASSUME NEW d, NEW l \in Locations, NEW r \in Roots, Idle(d)
    PROVE  Good(Reattached(d, l, r)) /\ Good(Gone(d, l, r))
<1> DEFINE w == d.held[l]
<1>1. Good(Gone(d, l, r))
  BY DecidedGood DEF Gone, Idle
<1>2. CASE w = None \/ ~w.released \/ ~Awaits(w, r)
  BY <1>1, <1>2 DEF Reattached, Idle
<1>3. CASE /\ ~(w = None \/ ~w.released \/ ~Awaits(w, r))
           /\ w.moved # None \/ w.before # None
  BY <1>1, <1>3, DecidedGood DEF Reattached
<1>4. CASE /\ ~(w = None \/ ~w.released \/ ~Awaits(w, r))
           /\ w.moved = None /\ w.before = None
  <2> DEFINE u == [w EXCEPT !.released = FALSE]
             e == [d EXCEPT !.held[l].released = FALSE, !.starting = l]
  <2>1. Reattached(d, l, r) = IF Present(w.at) THEN e ELSE GoOffline(d, l)
    BY <1>4 DEF Reattached
  <2>2. d \in States /\ w \in Watches /\ Fits(d, l) /\ Covered(d, l)
    BY <1>4 DEF Idle, Good, States
  <2>3. /\ u \in Watches /\ u.watch = w.watch /\ ~u.released /\ u.moved = None /\ u.before = None
        /\ u.inPlace = w.inPlace
    BY <1>4, <2>2 DEF Watches
  <2>4. w.watch = 0 /\ w.inPlace = None /\ d.offline[l] = None
    BY <1>4, <2>2 DEF Fits
  <2>5. [d.held EXCEPT ![l] = u] \in [Locations -> Watches \cup {None}]
    BY <2>2, <2>3 DEF States
  <2>6. /\ e \in States /\ e.held = [d.held EXCEPT ![l] = u] /\ e.starting = l
        /\ e.draining = d.draining /\ e.offline = d.offline
    BY <2>2, <2>5 DEF States
  <2>7. e.held[l] = u /\ \A m \in Locations \ {l} : e.held[m] = d.held[m]
    BY <2>2, <2>6 DEF States
  <2>8. StartFits(e)
    BY <2>3, <2>4, <2>6, <2>7 DEF StartFits
  <2>9. Alone(d, e, l)
    BY <2>6, <2>7, <2>8 DEF Alone
  <2>10. Fits(e, l)
    BY <2>3, <2>4, <2>6, <2>7 DEF Fits
  <2>11. Covered(e, l)
    BY <2>3, <2>4, <2>7 DEF Covered
  <2>12. Good(e)
    BY <2>9, <2>10, <2>11, OneChanges
  <2>13. Good(GoOffline(d, l))
    BY <1>4, LeaveGood DEF Idle
  <2> HIDE DEF e
  <2> QED BY <1>1, <2>1, <2>12, <2>13
<1> QED BY <1>1, <1>2, <1>3, <1>4

\* `e` is `d` with other roots left, and nothing new offline.
Forgets(d, e) ==
    \E o \in [Locations -> Listings \cup {None}], s \in [Locations -> SUBSET Roots] :
        /\ \A m \in Locations : o[m] \in {d.offline[m], None}
        /\ e = [d EXCEPT !.offline = o, !.left = s]

\* Such a state is good too.
LEMMA MemoryGood ==
    ASSUME NEW d, NEW e, Idle(d), Forgets(d, e)
    PROVE  Idle(e) /\ e.held = d.held
<1> PICK o \in [Locations -> Listings \cup {None}], s \in [Locations -> SUBSET Roots] :
        /\ \A m \in Locations : o[m] \in {d.offline[m], None}
        /\ e = [d EXCEPT !.offline = o, !.left = s]
  BY DEF Forgets
<1>1. d \in States
  BY DEF Idle, Good
<1>2. /\ e \in States /\ e.held = d.held /\ e.draining = d.draining /\ e.starting = d.starting
      /\ e.offline = o
  BY <1>1 DEF States
<1>3. ASSUME NEW m \in Locations PROVE Fits(e, m) /\ Covered(e, m)
  <2>1. Fits(d, m) /\ Covered(d, m)
    BY DEF Idle, Good
  <2> QED BY <1>2, <2>1 DEF Fits, Covered
<1> QED BY <1>2, <1>3 DEF Idle, Good, StartFits

\* `reconcile` and `rescan`.
LEMMA ReconciledGood ==
    ASSUME NEW l \in Locations, NEW sweep \in BOOLEAN, starting = None, Idle(Now),
           listed \in [Locations -> Listings \cup {None}]
    PROVE  /\ Good(Reconciled(l, sweep))
           /\ held[l] # None => Good(GoOffline(Now, l))
           /\ held[l] # None /\ ~held[l].released => Good([LetGo(Now, l) EXCEPT !.starting = l])
<1>1. Now \in States /\ Now.held = held /\ Now.offline = offline /\ Now.starting = None
  BY DEF Idle, Good, Now
<1>2. held[l] # None => Good(GoOffline(Now, l))
  BY <1>1, LeaveGood DEF Idle
<1>3. ASSUME held[l] # None, ~held[l].released
      PROVE  Good([LetGo(Now, l) EXCEPT !.starting = l])
  <2> DEFINE e == LetGo(Now, l)
             f == [e EXCEPT !.starting = l]
  <2>1. /\ Idle(e) /\ e.held = [held EXCEPT ![l] = [held[l] EXCEPT !.watch = 0]]
        /\ e.offline = offline
    BY <1>1, <1>3, LetGoGood
  <2>2. e \in States
    BY <2>1 DEF Idle, Good
  <2>3. /\ f \in States /\ f.held = e.held /\ f.offline = e.offline /\ f.draining = e.draining
        /\ f.starting = l
    BY <2>2 DEF States
  <2>4. held \in [Locations -> Watches \cup {None}] /\ held[l] \in Watches
    BY <1>1, <1>3 DEF States
  <2>5. f.held[l] \in Watches /\ ~f.held[l].released /\ f.held[l].watch = 0
    <3>1. f.held[l] = [held[l] EXCEPT !.watch = 0]
      BY <2>1, <2>3, <2>4
    <3> QED BY <1>3, <2>4, <3>1 DEF Watches
  <2>6. Alone(e, f, l)
    BY <2>3, <2>5 DEF Alone, StartFits
  <2>7. Fits(e, l) /\ Covered(e, l)
    BY <2>1 DEF Idle, Good
  <2>8. Fits(f, l) /\ Covered(f, l)
    BY <2>3, <2>7 DEF Fits, Covered
  <2> QED BY <2>1, <2>6, <2>8, OneChanges
<1>4. Good(Reconciled(l, sweep))
  <2> DEFINE at == listed[l]
             w  == held[l]
             x  == IF offline[l] # None /\ at # None /\ offline[l].root = at.root
                   THEN offline[l] ELSE None
             kept == [Now EXCEPT !.offline[l] = x]
             gone == IF w # None THEN Drop(kept, l) ELSE kept
             went == IF w # None /\ ~w.released /\ w.at.root # at.root THEN Leave(kept, l) ELSE kept
  <2>1. Reconciled(l, sweep) = IF at = None THEN [gone EXCEPT !.left[l] = {}]
                               ELSE Follow(went, l, at, sweep)
    BY <1>1 DEF Reconciled
  <2>2. Idle(kept) /\ kept.held = held
    <3>1. /\ [offline EXCEPT ![l] = x] \in [Locations -> Listings \cup {None}]
          /\ Now.left \in [Locations -> SUBSET Roots]
          /\ \A m \in Locations : [offline EXCEPT ![l] = x][m] \in {Now.offline[m], None}
      BY <1>1 DEF States
    <3>2. kept = [Now EXCEPT !.offline = [offline EXCEPT ![l] = x], !.left = Now.left]
      BY <1>1 DEF States
    <3>3. Forgets(Now, kept)
      BY <3>1, <3>2 DEF Forgets
    <3> QED BY <1>1, <3>3, MemoryGood
  <2> HIDE DEF kept
  <2>3. Idle(gone)
    BY <2>2, LeaveGood
  <2>4. CASE at = None
    <3> HIDE DEF gone
    <3>1. gone \in States
      BY <2>3 DEF Idle, Good
    <3>2. /\ gone.offline \in [Locations -> Listings \cup {None}]
          /\ [gone.left EXCEPT ![l] = {}] \in [Locations -> SUBSET Roots]
          /\ [gone EXCEPT !.left[l] = {}] = [gone EXCEPT !.offline = gone.offline,
                                                         !.left = [gone.left EXCEPT ![l] = {}]]
      BY <3>1 DEF States
    <3>a. Forgets(gone, [gone EXCEPT !.left[l] = {}])
      BY <3>2 DEF Forgets
    <3>3. Idle([gone EXCEPT !.left[l] = {}])
      BY <2>3, <3>a, MemoryGood
    <3> QED BY <2>1, <2>4, <3>3 DEF Idle
  <2>5. CASE at # None
    <3>1. at \in Listings
      BY <2>5
    <3>2. Idle(went) /\ (went.held[l] = None \/ went.held[l] = w)
      BY <2>2, LeaveGood
    <3>3. went.held[l] # None /\ ~went.held[l].released => went.held[l].at.root = at.root
      BY <2>2, LeaveGood
    <3> HIDE DEF went, at
    <3>4. Good(Follow(went, l, at, sweep))
      BY <2>5, <3>1, <3>2, <3>3, FollowGood
    <3> QED BY <2>1, <2>5, <3>4
  <2> QED BY <2>4, <2>5
<1> QED BY <1>2, <1>3, <1>4

-----------------------------------------------------------------------------
(* The invariant is inductive.                                             *)

\* No root is named for the location that was not.
NoneNew(l) ==
    held'[l] # None /\ held'[l].released => {k \in named' : k[1] = l} \subseteq named

\* A step of discovery that ends well names no root for a released location.
LEMMA PublishKeeps ==
    ASSUME Inv, NEW d, Good(d), Publish(d)
    PROVE  /\ Good(HeldNow)' /\ AllNamed' /\ named' \subseteq Keys
           /\ \A l \in Locations : NoneNew(l)
<1>1. /\ d \in States /\ held' = d.held /\ offline' = d.offline /\ left' = d.left
      /\ starting' = d.starting /\ draining' \subseteq d.draining /\ d.draining \subseteq Draining
      /\ named' = {Named(l, d.held[l]) : l \in {l \in Locations : d.held[l] # None}}
                     \cup {c.key : c \in draining'}
  BY DEF Publish, Good, States
<1>2. ASSUME NEW l \in Locations, d.held[l] # None PROVE Named(l, d.held[l]) \in Keys
  <2>1. d.held[l] \in Watches
    BY <1>1, <1>2 DEF States
  <2> QED BY <2>1, RecordTypes DEF Named, Keys, Listings
<1>3. named' \subseteq Keys
  BY <1>1, <1>2 DEF Draining
<1>4. AllNamed'
  BY <1>1 DEF AllNamed, Named
<1>5. Good(HeldNow)'
  <2>1. HeldNow' \in States
    BY <1>1 DEF HeldNow, States
  <2>2. ASSUME NEW m \in Locations PROVE Fits(HeldNow, m)' /\ Covered(HeldNow, m)'
    <3>1. Fits(HeldNow, m)'
      BY <1>1 DEF Good, Fits, HeldNow
    <3>2. Covered(HeldNow, m)'
      BY <1>4 DEF AllNamed, Covered, HeldNow, Named
    <3> QED BY <3>1, <3>2
  <2>3. StartFits(HeldNow)'
    BY <1>1 DEF Good, StartFits, HeldNow
  <2>4. \A c \in draining' : c.key \in named'
    BY <1>1
  <2> QED BY <2>1, <2>2, <2>3, <2>4 DEF Good, HeldNow, States
<1>6. ASSUME NEW l \in Locations, held'[l] # None, held'[l].released,
             NEW k \in named', k[1] = l
      PROVE  k \in named
  <2>1. CASE \E c \in draining' : k = c.key
    BY <1>1, <2>1 DEF Good
  <2>2. CASE \E m \in Locations : d.held[m] # None /\ k = Named(m, d.held[m])
    <3>1. PICK m \in Locations : d.held[m] # None /\ k = Named(m, d.held[m])
      BY <2>2
    <3>2. m = l
      BY <1>6, <3>1 DEF Named
    <3>3. Covered(d, l)
      BY DEF Good
    <3> QED BY <1>1, <1>6, <3>1, <3>2, <3>3 DEF Covered
  <2> QED BY <1>1, <1>6, <2>1, <2>2
<1> QED BY <1>3, <1>4, <1>5, <1>6 DEF NoneNew

\* What a step keeps: the invariant, and the names of a released location.
Keeps == Inv' /\ \A l \in Locations : NoneNew(l)

\* Between two of its steps discovery starts nothing.
LEMMA NowIsIdle ==
    ASSUME Inv, starting = None
    PROVE  Idle(Now)
<1>1. Now = HeldNow /\ Now.starting = None
  BY DEF Now, HeldNow
<1> QED BY <1>1 DEF Inv, Idle

\* Discovery's own steps at a location.
LEMMA SweepsKeep ==
    ASSUME Inv, NEW l \in Locations, Sweep(l) \/ Change(l) \/ Rescan(l) \/ WaitedOut(l)
    PROVE  Keeps
<1>1. starting = None /\ Rest
  BY DEF Inv, Sweep, Change, Rescan, WaitedOut, Discovers
<1>2. Idle(Now) /\ Now.held = held
  BY <1>1, NowIsIdle DEF Now
<1>3. /\ Good(Reconciled(l, TRUE)) /\ Good(Reconciled(l, FALSE))
      /\ held[l] # None => Good(GoOffline(Now, l)) /\ Good(Decided(Now, l))
      /\ held[l] # None /\ ~held[l].released => Good([LetGo(Now, l) EXCEPT !.starting = l])
  BY <1>1, <1>2, ReconciledGood, DecidedGood DEF Rest, Idle
<1>4. PICK d : Good(d) /\ Publish(d)
  BY <1>3 DEF Sweep, Change, Rescan, WaitedOut, Discovers
<1>5. /\ UNCHANGED <<listed, notices, given, asking, open, awaiting, changes>>
  BY DEF Sweep, Change, Rescan, WaitedOut, Discovers, windows, window, answer, bounds
<1>6. /\ Good(HeldNow)' /\ AllNamed' /\ named' \subseteq Keys
      /\ \A m \in Locations : NoneNew(m)
  BY <1>4, PublishKeeps
<1>7. Rest'
  BY <1>1, <1>5, <1>6 DEF Rest
<1> QED BY <1>6, <1>7 DEF Keeps, Inv

\* What the shell reported.
LEMMA NoticeKeeps ==
    ASSUME Inv, TakeNotice
    PROVE  Keeps
<1> DEFINE n == Head(notices)
           l == n.key[1]
           r == n.key[2]
<1>1. Rest /\ starting = None
  BY DEF Inv, TakeNotice, Discovers
<1>2. /\ n \in Notices /\ l \in Locations /\ r \in Roots /\ notices' \in Seq(Notices)
  <2>1. notices \in Seq(Notices) /\ notices # <<>> /\ notices' = Tail(notices)
    BY <1>1 DEF Rest, TakeNotice
  <2>2. Head(notices) \in Notices /\ Tail(notices) \in Seq(Notices)
    BY <2>1, HeadTailProperties
  <2> QED BY <2>1, <2>2 DEF Notices, Keys
<1> HIDE DEF n
<1>3. Idle(Now) /\ Now.held = held
  BY <1>1, NowIsIdle DEF Now
<1>4. Good(Released(Now, l, r))
  <2>1. held[l] # None => Named(l, held[l]) \in named
    BY <1>2 DEF Inv, AllNamed
  <2> QED BY <1>2, <1>3, <2>1, ReleasedGood
<1>5. Good(Reattached(Now, l, r)) /\ Good(Gone(Now, l, r))
  BY <1>2, <1>3, OutcomeGood
<1>6. \/ Discovers(Released(Now, l, r)) /\ awaiting' = Awaited(Released(Now, l, r), l, r)
      \/ Discovers(Reattached(Now, l, r)) /\ UNCHANGED awaiting
      \/ Discovers(Gone(Now, l, r)) /\ UNCHANGED awaiting
  BY DEF TakeNotice, n
<1>7. Awaited(Released(Now, l, r), l, r) \subseteq open
  BY DEF Awaited
<1>8. PICK d : Good(d) /\ Publish(d)
  BY <1>4, <1>5, <1>6 DEF Discovers
<1>9. /\ Good(HeldNow)' /\ AllNamed' /\ named' \subseteq Keys
      /\ \A m \in Locations : NoneNew(m)
  BY <1>8, PublishKeeps
<1>10. UNCHANGED <<listed, given, asking, open, changes>> /\ awaiting' \subseteq open
  BY <1>1, <1>6, <1>7 DEF TakeNotice, Discovers, window, bounds, Rest
<1>11. Rest'
  BY <1>1, <1>2, <1>9, <1>10 DEF Rest
<1> QED BY <1>9, <1>11 DEF Keeps, Inv

\* The watcher starts, unless its volume went.
LEMMA AttachKeeps ==
    ASSUME Inv, Attach
    PROVE  Keeps
<1>1. Rest /\ starting # None /\ Good(HeldNow) /\ AllNamed
  BY DEF Inv, Attach
<1>2. /\ starting \in Locations /\ held \in [Locations -> Watches \cup {None}]
      /\ held[starting] \in Watches /\ ~held[starting].released /\ held[starting].watch = 0
      /\ HeldNow \in States
  BY <1>1 DEF Good, States, StartFits, HeldNow
<1>3. Now \in States
  BY <1>2 DEF Now, HeldNow, States
<1>4. Idle(Now)
  <2>1. ASSUME NEW m \in Locations PROVE Fits(Now, m) /\ Covered(Now, m)
    <3>1. Fits(HeldNow, m) /\ Covered(HeldNow, m)
      BY <1>1 DEF Good
    <3> QED BY <3>1 DEF Fits, Covered, Now, HeldNow
  <2> QED BY <1>1, <1>3, <2>1 DEF Idle, Good, StartFits, Now, HeldNow
<1>5. PICK n \in Calls \ open :
          IF Present(held[starting].at)
          THEN open' = open \cup {n} /\ Publish([Now EXCEPT !.held[starting].watch = n])
          ELSE UNCHANGED open /\ Publish(Now)
  BY DEF Attach
<1> DEFINE l == starting
           u == [held[l] EXCEPT !.watch = n]
           e == [Now EXCEPT !.held[l].watch = n]
<1>6. Good(e)
  <2>1. u \in Watches /\ ~u.released /\ u.inPlace = held[l].inPlace /\ u.at = held[l].at
        /\ u.moved = held[l].moved /\ u.before = held[l].before
    BY <1>2, <1>5 DEF Watches
  <2>2. [held EXCEPT ![l] = u] \in [Locations -> Watches \cup {None}]
    BY <1>2, <2>1
  <2>3. /\ e.held = [held EXCEPT ![l] = u] /\ e.offline = Now.offline
        /\ e.draining = Now.draining /\ e.starting = None /\ e \in States
    BY <1>3, <2>2 DEF States, Now
  <2>4. e.held[l] = u /\ \A m \in Locations \ {l} : e.held[m] = Now.held[m]
    BY <1>2, <2>3 DEF Now
  <2>5. Alone(Now, e, l)
    BY <2>3, <2>4 DEF Alone
  <2>6. held[l] # None
    BY <1>2, RecordTypes
  <2>7. Fits(Now, l)
    BY <1>2, <1>4 DEF Idle, Good
  <2>8. Fits(e, l)
    BY <1>2, <2>1, <2>3, <2>4, <2>6, <2>7 DEF Fits, Now
  <2>9. Named(l, u) = Named(l, held[l]) /\ Named(l, held[l]) \in named
    BY <1>1, <1>2, <2>1, <2>6 DEF Named, AllNamed
  <2>10. Covered(e, l)
    BY <2>4, <2>9 DEF Covered
  <2> HIDE DEF e
  <2> QED BY <1>2, <1>4, <2>5, <2>8, <2>10, OneChanges
<1> HIDE DEF e
<1>7. PICK d : Good(d) /\ Publish(d)
  BY <1>4, <1>5, <1>6 DEF Idle, e
<1>8. /\ Good(HeldNow)' /\ AllNamed' /\ named' \subseteq Keys
      /\ \A m \in Locations : NoneNew(m)
  BY <1>7, PublishKeeps
<1>9. /\ UNCHANGED <<listed, notices, given, asking, awaiting, changes>>
      /\ open \subseteq open' /\ open' \subseteq Calls
  BY <1>1, <1>5 DEF Attach, catalog, window, answer, bounds, Rest
<1>10. Rest'
  BY <1>1, <1>8, <1>9 DEF Rest
<1> QED BY <1>8, <1>10 DEF Keeps, Inv

\* Nobody else touches what discovery holds.
LEMMA OthersKeep ==
    ASSUME Inv, UNCHANGED discovery, Rest'
    PROVE  Keeps
<1>1. /\ UNCHANGED <<held, offline, left, draining, starting, named>> /\ Good(HeldNow) /\ AllNamed
  BY DEF Inv, discovery
<1>2. AllNamed' /\ \A l \in Locations : NoneNew(l)
  BY <1>1 DEF AllNamed, NoneNew, Named
<1>3. Good(HeldNow)'
  <2>1. ASSUME NEW m \in Locations PROVE Fits(HeldNow, m)' /\ Covered(HeldNow, m)'
    <3>1. Fits(HeldNow, m) /\ Covered(HeldNow, m)
      BY <1>1 DEF Good
    <3>2. Fits(HeldNow, m)'
      BY <1>1, <3>1 DEF Fits, HeldNow
    <3>3. Covered(HeldNow, m)'
      BY <1>1, <3>1 DEF Covered, HeldNow, Named
    <3> QED BY <3>2, <3>3
  <2>2. HeldNow' = HeldNow
    BY <1>1 DEF HeldNow
  <2>3. StartFits(HeldNow)'
    BY <1>1 DEF Good, StartFits, HeldNow
  <2> QED BY <1>1, <2>1, <2>2, <2>3 DEF Good, HeldNow
<1> QED BY <1>2, <1>3 DEF Keeps, Inv

\* The shell, the window, calls that return, and volumes.
LEMMA WindowKeeps ==
    ASSUME Inv, \/ ShellFollows \/ WindowFollows \/ Answered
                \/ \E n \in Calls : Returns(n)
                \/ \E v \in Volumes : Request(v) \/ Refuse(v) \/ Grant(v) \/ Pull(v) \/ Mount(v)
    PROVE  Keeps
<1>1. Rest
  BY DEF Inv
<1>2. UNCHANGED <<listed, changes, notices, named, discovery>>
  BY DEF ShellFollows, WindowFollows, Answered, Returns, Request, Refuse, Grant, Pull, Mount,
     catalog, windows, discovery, window, answer, bounds
<1>3. given' \subseteq Keys
  BY <1>1 DEF ShellFollows, WindowFollows, Answered, Returns, Request, Refuse, Grant, Pull, Mount,
     Rest, window
<1>4. asking' \in Keys \cup {None}
  BY <1>1 DEF ShellFollows, WindowFollows, Answered, Returns, Request, Refuse, Grant, Pull, Mount,
     Rest, answer
<1>5. open' \subseteq Calls /\ awaiting' \subseteq open'
  BY <1>1 DEF ShellFollows, WindowFollows, Answered, Returns, Request, Refuse, Grant, Pull, Mount,
     Rest, answer
<1>6. Rest'
  BY <1>1, <1>2, <1>3, <1>4, <1>5 DEF Rest
<1> QED BY <1>2, <1>6, OthersKeep

\* Windows asks a registration, and tells it the outcome.
LEMMA NotifyKeeps ==
    ASSUME Inv, NEW k \in Keys, Ask(k) \/ Tell(k)
    PROVE  Keeps
<1>1. Rest
  BY DEF Inv
<1>2. UNCHANGED <<listed, changes, open, awaiting, given, named, discovery>>
  BY DEF Ask, Tell, TellRefused, TellRemoved, catalog, discovery, answer, bounds
<1>3. asking' \in Keys \cup {None}
  BY <1>1 DEF Ask, Tell, TellRefused, TellRemoved, answer, Rest
<1>4. \/ notices' = notices
      \/ \E kind \in {"release", "reattach", "gone"} :
            notices' = Append(notices, [kind |-> kind, key |-> k])
  BY DEF Ask, Tell, TellRefused, TellRemoved, Notify
<1>5. notices' \in Seq(Notices)
  <2>1. \A kind \in {"release", "reattach", "gone"} : [kind |-> kind, key |-> k] \in Notices
    BY DEF Notices
  <2> QED BY <1>1, <1>4, <2>1, AppendProperties, SMTT(30) DEF Rest
<1>6. Rest'
  BY <1>1, <1>2, <1>3, <1>5 DEF Rest
<1> QED BY <1>2, <1>6, OthersKeep

\* The user's changes of the catalog.
LEMMA UserKeeps ==
    ASSUME Inv, NEW l \in Locations, Remap(l) \/ Reselect(l) \/ Remove(l)
    PROVE  Keeps
<1>1. Rest /\ MaxChanges \in Nat
  BY InstanceAssumption DEF Inv
<1>2. UNCHANGED <<notices, open, awaiting, given, asking, named, discovery>>
      /\ changes < MaxChanges /\ changes' = changes + 1
  BY DEF Remap, Reselect, Remove, Changed, windows, discovery, window, answer
<1>3. PICK at : /\ listed' = [listed EXCEPT ![l] = at]
                /\ (at = None \/ (at \in Listings /\ at.decision <= changes + 1))
  <2>1. CASE Remove(l)
    BY <2>1 DEF Remove, Changed
  <2>2. CASE Reselect(l)
    <3> DEFINE at == [listed[l] EXCEPT !.decision = @ + 1]
    <3>1. listed[l] \in Listings /\ listed[l].decision <= changes
      BY <1>1, <2>2 DEF Reselect, Rest
    <3>2. at \in Listings /\ at.decision = listed[l].decision + 1
      BY <1>1, <1>2, <3>1 DEF Listings, Rest
    <3>3. listed' = [listed EXCEPT ![l] = at] /\ at.decision <= changes + 1
      BY <1>1, <2>2, <3>1, <3>2 DEF Reselect, Changed, Listings, Rest
    <3> QED BY <3>2, <3>3
  <2>3. CASE Remap(l)
    <3>1. PICK r \in Roots :
              listed' = [listed EXCEPT ![l] = [root |-> r, decision |-> listed[l].decision + 1]]
      BY <2>3 DEF Remap, Changed
    <3> DEFINE at == [root |-> r, decision |-> listed[l].decision + 1]
    <3>2. listed[l] \in Listings /\ listed[l].decision <= changes
      BY <1>1, <2>3 DEF Remap, Rest
    <3>3. at \in Listings /\ at.decision <= changes + 1
      BY <1>1, <1>2, <3>2 DEF Listings, Rest
    <3> QED BY <3>1, <3>3
  <2> QED BY <2>1, <2>2, <2>3
<1>4. /\ listed' \in [Locations -> Listings \cup {None}] /\ changes' \in 0..MaxChanges
      /\ \A m \in Locations : listed'[m] # None => listed'[m].decision <= changes'
  <2>1. listed' \in [Locations -> Listings \cup {None}] /\ changes' \in 0..MaxChanges
    BY <1>1, <1>2, <1>3 DEF Rest
  <2>2. ASSUME NEW m \in Locations, listed'[m] # None PROVE listed'[m].decision <= changes'
    <3>1. CASE m = l
      BY <1>1, <1>2, <1>3, <2>2, <3>1 DEF Rest
    <3>2. CASE m # l
      <4>1. listed'[m] = listed[m] /\ listed[m] \in Listings /\ listed[m].decision <= changes
        BY <1>1, <1>3, <2>2, <3>2 DEF Rest
      <4> QED BY <1>1, <1>2, <4>1 DEF Rest, Listings
    <3> QED BY <3>1, <3>2
  <2> QED BY <2>1, <2>2
<1>5. Rest'
  BY <1>1, <1>2, <1>4 DEF Rest
<1> QED BY <1>2, <1>5, OthersKeep

\* Nobody follows anything at the start.
LEMMA InitHolds == Init => Inv
<1> SUFFICES ASSUME Init PROVE Inv
  OBVIOUS
<1>1. Rest
  BY InstanceAssumption DEF Init, Rest, Listings
<1>2. HeldNow \in States
  BY DEF Init, HeldNow, States
<1>3. \A l \in Locations : Fits(HeldNow, l) /\ Covered(HeldNow, l)
  BY DEF Init, HeldNow, Fits, Covered
<1>4. Good(HeldNow) /\ AllNamed
  BY <1>2, <1>3 DEF Init, HeldNow, Good, StartFits, AllNamed
<1> QED BY <1>1, <1>4 DEF Inv

\* Every step keeps the invariant.
LEMMA NextHolds ==
    ASSUME Inv, [Next]_vars
    PROVE  Keeps
<1>1. ASSUME NEW l \in Locations, Sweep(l) \/ Change(l) \/ Rescan(l) \/ WaitedOut(l)
      PROVE  Keeps
  BY <1>1, SweepsKeep
<1>2. ASSUME NEW l \in Locations, Remap(l) \/ Reselect(l) \/ Remove(l)
      PROVE  Keeps
  BY <1>2, UserKeeps
<1>3. CASE Attach
  BY <1>3, AttachKeeps
<1>4. CASE Tick
  <2>1. starting = None /\ UNCHANGED <<listed, notices, given, asking, open, awaiting, changes>>
        /\ Publish(Now)
    BY <1>4 DEF Tick, Discovers, windows, window, answer, bounds
  <2>2. Good(Now) /\ Rest
    BY <2>1, NowIsIdle DEF Idle, Inv
  <2>3. /\ Good(HeldNow)' /\ AllNamed' /\ named' \subseteq Keys
        /\ \A m \in Locations : NoneNew(m)
    BY <2>1, <2>2, PublishKeeps
  <2>4. Rest'
    BY <2>1, <2>2, <2>3 DEF Rest
  <2> QED BY <2>3, <2>4 DEF Keeps, Inv
<1>5. CASE TakeNotice
  BY <1>5, NoticeKeeps
<1>6. CASE \/ ShellFollows \/ WindowFollows \/ Answered
           \/ \E n \in Calls : Returns(n)
           \/ \E v \in Volumes : Request(v) \/ Refuse(v) \/ Grant(v) \/ Pull(v) \/ Mount(v)
  BY <1>6, WindowKeeps
<1>7. ASSUME NEW k \in Keys, Ask(k) \/ Tell(k)
      PROVE  Keeps
  BY <1>7, NotifyKeeps
<1>8. CASE UNCHANGED vars
  <2>1. Rest' /\ UNCHANGED discovery
    BY <1>8 DEF vars, discovery, Inv, Rest
  <2> QED BY <2>1, OthersKeep
<1> QED BY <1>1, <1>2, <1>3, <1>4, <1>5, <1>6, <1>7, <1>8 DEF Next

\* The invariant holds throughout.
LEMMA Inductive == Spec => []Inv
BY InitHolds, NextHolds, PTL DEF Spec, Keeps

-----------------------------------------------------------------------------
(* What a step does at one location, and leaves alone at the others.       *)

\* The location waits for the outcome of a removal, or nothing is known of it.
Releases(d, l)  == d.held[l] # None /\ d.held[l].released
Forgotten(d, l) == d.held[l] = None /\ d.offline[l] = None /\ listed[l] = None

\* Other locations stay as they are, and no call of theirs is let go of.
Elsewhere(d, e, l) ==
    /\ \A m \in Locations \ {l} : e.held[m] = d.held[m] /\ e.offline[m] = d.offline[m]
    /\ \A c \in e.draining : c \in d.draining \/ c.key[1] = l

\* A location that is released after the step was before, at the same root,
\* and nothing was let go of.
Remains(d, e, l) ==
    Releases(e, l) =>
        Releases(d, l) /\ e.held[l].at.root = d.held[l].at.root /\ e.draining = d.draining

\* One that is released, or forgotten, holds nothing new after it.
Settles(d, e, l) ==
    Releases(d, l) \/ Forgotten(d, l) =>
        (Releases(e, l) \/ Forgotten(e, l)) /\ e.draining = d.draining

\* Letting go of a location.
LEMMA LeaveElsewhere ==
    ASSUME NEW d, NEW l \in Locations, Idle(d), d.held[l] # None
    PROVE  /\ Elsewhere(d, LetGo(d, l), l)
           /\ Elsewhere(d, Drop(d, l), l) /\ Drop(d, l).offline = d.offline
           /\ d.held[l].watch = 0 => Drop(d, l).draining = d.draining
           /\ Elsewhere(d, Leave(d, l), l) /\ Elsewhere(d, GoOffline(d, l), l)
<1> DEFINE e == LetGo(d, l)
           f == Drop(d, l)
           g == Leave(d, l)
           h == GoOffline(d, l)
<1>1. d \in States /\ e \in States
  BY LetGoGood DEF Idle, Good
<1>2. /\ \A m \in Locations \ {l} : e.held[m] = d.held[m] /\ e.offline[m] = d.offline[m]
      /\ e.offline = d.offline
  <2>1. /\ e.held = [d.held EXCEPT ![l] = [d.held[l] EXCEPT !.watch = 0]]
        /\ e.offline = d.offline
    BY LetGoGood
  <2>2. d.held \in [Locations -> Watches \cup {None}]
    BY <1>1 DEF States
  <2> HIDE DEF e
  <2> QED BY <2>1, <2>2
<1>3. \A c \in e.draining : c \in d.draining \/ c.key[1] = l
  BY <1>1 DEF LetGo, States
<1>4. d.held[l].watch = 0 => e.draining = d.draining
  BY <1>1 DEF LetGo, States
<1> HIDE DEF e
<1>5. f = [e EXCEPT !.held[l] = None]
  BY DEF Drop, e
<1>6. f.draining = e.draining /\ f.offline = e.offline /\ f \in States
      /\ \A m \in Locations \ {l} : f.held[m] = e.held[m]
  <2>1. f.draining = e.draining /\ f.offline = e.offline
        /\ \A m \in Locations \ {l} : f.held[m] = e.held[m]
    BY <1>1, <1>5 DEF States
  <2>2. f \in States
    BY LeaveGood DEF Idle, Good
  <2> QED BY <2>1, <2>2
<1> HIDE DEF f
<1>7. g = [f EXCEPT !.left[l] = @ \cup {d.held[l].at.root}]
  BY DEF Leave, f
<1>8. g.draining = f.draining /\ g.offline = f.offline /\ g.held = f.held /\ g \in States
  <2>1. g.draining = f.draining /\ g.offline = f.offline /\ g.held = f.held
    BY <1>6, <1>7 DEF States
  <2>2. g \in States
    BY LeaveGood DEF Idle, Good
  <2> QED BY <2>1, <2>2
<1> HIDE DEF g
<1>9. h = [g EXCEPT !.offline[l] = d.held[l].at]
  BY DEF GoOffline, g
<1>10. h.draining = g.draining /\ h.held = g.held
       /\ \A m \in Locations \ {l} : h.offline[m] = g.offline[m]
  BY <1>8, <1>9 DEF States
<1> HIDE DEF h
<1>11. Elsewhere(d, e, l) /\ Elsewhere(d, f, l) /\ Elsewhere(d, g, l) /\ Elsewhere(d, h, l)
  BY <1>2, <1>3, <1>6, <1>8, <1>10 DEF Elsewhere
<1> QED BY <1>2, <1>4, <1>6, <1>11 DEF e, f, g, h

\* Starting one.
LEMMA StartElsewhere ==
    ASSUME NEW d, NEW l \in Locations, NEW at, d \in States
    PROVE  /\ Elsewhere(d, TryStart(d, l, at), l)
           /\ TryStart(d, l, at).draining = d.draining
BY DEF Elsewhere, TryStart, States

\* Deciding what a removal that ended means for one.
LEMMA DecidedElsewhere ==
    ASSUME NEW d, NEW l \in Locations, Idle(d), d.held[l] # None
    PROVE  /\ Elsewhere(d, MoveOn(d, l), l) /\ Elsewhere(d, CheckAgain(d, l), l)
           /\ Elsewhere(d, Decided(d, l), l)
<1> DEFINE g == Leave(d, l)
           h == GoOffline(d, l)
<1>1. /\ Elsewhere(d, g, l) /\ Elsewhere(d, h, l)
  BY LeaveElsewhere
<1>2. g \in States /\ h \in States
  BY LeaveGood DEF Idle, Good
<1> HIDE DEF g, h
<1>3. ASSUME NEW at PROVE Elsewhere(d, TryStart(g, l, at), l)
  BY <1>1, <1>2, StartElsewhere DEF Elsewhere
<1>4. Elsewhere(d, MoveOn(d, l), l) /\ Elsewhere(d, CheckAgain(d, l), l)
  BY <1>3 DEF MoveOn, CheckAgain, g
<1>5. ASSUME NEW x PROVE Elsewhere(d, [h EXCEPT !.offline[l] = x], l)
  BY <1>1, <1>2 DEF Elsewhere, States
<1>6. \/ Decided(d, l) = MoveOn(d, l)
      \/ Decided(d, l) = CheckAgain(d, l)
      \/ \E x : Decided(d, l) = [h EXCEPT !.offline[l] = x]
  <2>1. CASE \/ d.held[l].moved # None
             \/ d.held[l].before # None /\ d.held[l].before.decision # d.held[l].at.decision
    BY <2>1 DEF Decided
  <2>2. CASE ~(\/ d.held[l].moved # None
               \/ d.held[l].before # None /\ d.held[l].before.decision # d.held[l].at.decision)
    <3>1. Decided(d, l) = [h EXCEPT !.offline[l] =
                              IF d.held[l].before # None THEN d.held[l].before ELSE h.offline[l]]
      BY <2>2 DEF Decided, h
    <3> QED BY <3>1
  <2> QED BY <2>1, <2>2
<1> QED BY <1>4, <1>5, <1>6

\* Following one, released or not.
LEMMA FollowSettles ==
    ASSUME NEW d, NEW l \in Locations, NEW at \in Listings, NEW sweep \in BOOLEAN, Idle(d)
    PROVE  /\ Elsewhere(d, Follow(d, l, at, sweep), l)
           /\ Remains(d, Follow(d, l, at, sweep), l)
           /\ Releases(d, l) => /\ Releases(Follow(d, l, at, sweep), l)
                                /\ Follow(d, l, at, sweep).draining = d.draining
<1> DEFINE w == d.held[l]
           f == Follow(d, l, at, sweep)
<1> SUFFICES /\ Elsewhere(d, f, l) /\ Remains(d, f, l)
             /\ Releases(d, l) => Releases(f, l) /\ f.draining = d.draining
  OBVIOUS
<1> HIDE DEF f
<1>1. d \in States
  BY DEF Idle, Good
<1>2. CASE w = None
  <2>1. f = d \/ f = TryStart(d, l, at)
    BY <1>2 DEF Follow, f
  <2>2. ~Releases(TryStart(d, l, at), l)
    BY <1>2, TryStartGood DEF Releases
  <2>3. Elsewhere(d, TryStart(d, l, at), l)
    BY <1>1, StartElsewhere
  <2> QED BY <1>2, <2>1, <2>2, <2>3 DEF Elsewhere, Remains, Releases
<1>3. CASE w # None /\ w.released /\ (w.at.root # at.root \/ w.inPlace # None)
  <2> DEFINE u == [w EXCEPT !.moved = at]
  <2>1. f = [d EXCEPT !.held = [@ EXCEPT ![l] = u]]
    BY <1>1, <1>3 DEF Follow, States, f
  <2>2. w \in Watches /\ u \in Watches
    BY <1>1, <1>3 DEF States, Watches
  <2>3. /\ f.draining = d.draining /\ f.offline = d.offline
        /\ f.held[l] = u /\ \A m \in Locations \ {l} : f.held[m] = d.held[m]
    BY <1>1, <2>1 DEF States
  <2>4. u.released = w.released /\ u.at = w.at /\ u # None
    BY <2>2, RecordTypes DEF Watches
  <2> QED BY <1>3, <2>3, <2>4 DEF Elsewhere, Remains, Releases
<1>4. CASE /\ w # None /\ ~(w.released /\ (w.at.root # at.root \/ w.inPlace # None))
           /\ ~sweep \/ w.released \/ Present(w.at)
  <2> DEFINE u == [w EXCEPT !.at = at, !.moved = None]
  <2>1. f = [d EXCEPT !.held = [@ EXCEPT ![l] = u]]
    BY <1>1, <1>4 DEF Follow, States, f
  <2>2. w \in Watches /\ u \in Watches
    BY <1>1, <1>4, ZenonT(60) DEF States, Watches
  <2>3. /\ f.draining = d.draining /\ f.offline = d.offline
        /\ f.held[l] = u /\ \A m \in Locations \ {l} : f.held[m] = d.held[m]
    BY <1>1, <2>1 DEF States
  <2>4. u.released = w.released /\ u.at = at /\ u # None /\ w.released \in BOOLEAN
    BY <2>2, RecordTypes DEF Watches
  <2>5. w.released => u.at.root = w.at.root
    BY <1>4, <2>4
  <2> QED BY <1>4, <2>3, <2>4, <2>5 DEF Elsewhere, Remains, Releases
<1>5. CASE /\ w # None /\ ~(w.released /\ (w.at.root # at.root \/ w.inPlace # None))
           /\ ~(~sweep \/ w.released \/ Present(w.at))
  <2> DEFINE g == GoOffline(d, l)
  <2>1. f = TryStart(g, l, at)
    BY <1>5 DEF Follow, f
  <2>2. Idle(g) /\ g.held[l] = None /\ g \in States /\ Elsewhere(d, g, l)
    BY <1>5, LeaveGood, LeaveElsewhere DEF Idle, Good
  <2> HIDE DEF g
  <2>3. ~Releases(f, l)
    BY <2>1, <2>2, TryStartGood DEF Releases
  <2>4. Elsewhere(d, f, l)
    BY <2>1, <2>2, StartElsewhere DEF Elsewhere
  <2> QED BY <1>5, <2>3, <2>4 DEF Remains, Releases
<1> QED BY <1>2, <1>3, <1>4, <1>5

\* Reconciling one with the catalog.
LEMMA ReconciledSettles ==
    ASSUME NEW l \in Locations, NEW sweep \in BOOLEAN, Idle(Now),
           listed \in [Locations -> Listings \cup {None}]
    PROVE  /\ Elsewhere(Now, Reconciled(l, sweep), l)
           /\ Remains(Now, Reconciled(l, sweep), l) /\ Settles(Now, Reconciled(l, sweep), l)
<1> DEFINE at == listed[l]
           w  == held[l]
           x  == IF offline[l] # None /\ at # None /\ offline[l].root = at.root
                 THEN offline[l] ELSE None
           kept == [Now EXCEPT !.offline[l] = x]
           gone == IF w # None THEN Drop(kept, l) ELSE kept
           went == IF w # None /\ ~w.released /\ w.at.root # at.root THEN Leave(kept, l) ELSE kept
           f    == Reconciled(l, sweep)
<1>1. Now \in States /\ Now.held = held /\ Now.offline = offline /\ Fits(Now, l)
  BY DEF Idle, Good, Now
<1>2. f = IF at = None THEN [gone EXCEPT !.left[l] = {}] ELSE Follow(went, l, at, sweep)
  BY <1>1 DEF Reconciled
<1>3. /\ Idle(kept) /\ kept.held = held /\ kept.draining = Now.draining /\ kept.offline[l] = x
      /\ \A m \in Locations \ {l} : kept.offline[m] = Now.offline[m]
  <2>1. /\ [offline EXCEPT ![l] = x] \in [Locations -> Listings \cup {None}]
        /\ Now.left \in [Locations -> SUBSET Roots]
        /\ \A m \in Locations : [offline EXCEPT ![l] = x][m] \in {Now.offline[m], None}
    BY <1>1 DEF States
  <2>2. kept = [Now EXCEPT !.offline = [offline EXCEPT ![l] = x], !.left = Now.left]
    BY <1>1 DEF States
  <2>4. kept.draining = Now.draining /\ kept.offline = [offline EXCEPT ![l] = x]
    BY <1>1 DEF States
  <2>3. Forgets(Now, kept)
    <3> DEFINE o == [offline EXCEPT ![l] = x]
               s == Now.left
    <3>1. /\ o \in [Locations -> Listings \cup {None}] /\ s \in [Locations -> SUBSET Roots]
          /\ \A m \in Locations : o[m] \in {Now.offline[m], None}
          /\ kept = [Now EXCEPT !.offline = o, !.left = s]
      BY <2>1, <2>2
    <3> HIDE DEF o, s, kept
    <3> QED BY <3>1, Zenon DEF Forgets
  <2>5. offline \in [Locations -> Listings \cup {None}]
    BY <1>1 DEF States
  <2> QED BY <1>1, <2>3, <2>4, <2>5, MemoryGood
<1> SUFFICES Elsewhere(Now, f, l) /\ Remains(Now, f, l) /\ Settles(Now, f, l)
  OBVIOUS
<1> HIDE DEF f, kept
<1>4. CASE at = None
  <2>1. /\ Idle(gone) /\ gone \in States /\ gone.held[l] = None /\ Elsewhere(Now, gone, l)
        /\ gone.offline = kept.offline
        /\ Releases(Now, l) \/ w = None => gone.draining = Now.draining
    <3>1. CASE w # None
      <4>1. /\ Idle(gone) /\ gone.held[l] = None /\ Elsewhere(kept, gone, l)
            /\ gone.offline = kept.offline
            /\ w.watch = 0 => gone.draining = kept.draining
        BY <1>3, <3>1, LeaveGood, LeaveElsewhere
      <4> HIDE DEF gone
      <4>2. w.released => w.watch = 0
        BY <1>1, <3>1 DEF Fits
      <4>3. Elsewhere(Now, gone, l)
        BY <1>1, <1>3, <4>1 DEF Elsewhere
      <4> QED BY <1>1, <1>3, <3>1, <4>1, <4>2, <4>3 DEF Releases, Idle, Good
    <3>2. CASE w = None
      BY <1>1, <1>3, <3>2 DEF Elsewhere, Idle, Good
    <3> QED BY <3>1, <3>2
  <2>2. gone.offline[l] = None
    BY <1>3, <1>4, <2>1
  <2> HIDE DEF gone
  <2>3. f = [gone EXCEPT !.left[l] = {}]
    BY <1>2, <1>4
  <2>4. f.held = gone.held /\ f.offline = gone.offline /\ f.draining = gone.draining
    BY <2>1, <2>3 DEF States
  <2>5. ~Releases(f, l) /\ Forgotten(f, l)
    BY <1>4, <2>1, <2>2, <2>4 DEF Releases, Forgotten
  <2>6. Elsewhere(Now, f, l)
    BY <2>1, <2>4 DEF Elsewhere
  <2>7. Settles(Now, f, l)
    BY <1>1, <2>1, <2>4, <2>5 DEF Settles, Forgotten
  <2> QED BY <2>5, <2>6, <2>7 DEF Remains
<1>5. CASE at # None
  <2>1. at \in Listings
    BY <1>5
  <2>2. /\ Idle(went) /\ Elsewhere(Now, went, l)
        /\ Releases(Now, l) => went = kept
        /\ Releases(went, l) => went = kept
    <3>1. CASE w # None /\ ~w.released /\ w.at.root # at.root
      <4>1. Idle(went) /\ went.held[l] = None /\ Elsewhere(kept, went, l)
        BY <1>3, <3>1, LeaveGood, LeaveElsewhere
      <4> HIDE DEF went
      <4>2. Elsewhere(Now, went, l)
        BY <1>1, <1>3, <4>1 DEF Elsewhere
      <4> QED BY <1>1, <3>1, <4>1, <4>2 DEF Releases
    <3>2. CASE ~(w # None /\ ~w.released /\ w.at.root # at.root)
      BY <1>1, <1>3, <3>2 DEF Elsewhere
    <3> QED BY <3>1, <3>2
  <2> HIDE DEF went, at
  <2>3. f = Follow(went, l, at, sweep)
    BY <1>2, <1>5
  <2>4. /\ Elsewhere(went, f, l) /\ Remains(went, f, l)
        /\ Releases(went, l) => Releases(f, l) /\ f.draining = went.draining
    BY <2>1, <2>2, <2>3, FollowSettles
  <2>5. Releases(kept, l) <=> Releases(Now, l)
    BY <1>1, <1>3 DEF Releases
  <2>6. Elsewhere(Now, f, l)
    BY <2>2, <2>4 DEF Elsewhere
  <2>7. Remains(Now, f, l)
    BY <1>1, <1>3, <2>2, <2>4, <2>5 DEF Remains
  <2>8. ~Forgotten(Now, l)
    BY <1>5 DEF Forgotten, at
  <2>9. Settles(Now, f, l)
    BY <1>3, <2>2, <2>4, <2>5, <2>8 DEF Settles
  <2> QED BY <2>6, <2>7, <2>9
<1> QED BY <1>4, <1>5

\* Releasing one: it ends at the root asked about, or stays as it was.
LEMMA ReleasedSettles ==
    ASSUME NEW d, NEW l \in Locations, NEW r \in Roots, Idle(d)
    PROVE  /\ Elsewhere(d, Released(d, l, r), l) /\ Settles(d, Released(d, l, r), l)
           /\ \/ Remains(d, Released(d, l, r), l)
              \/ /\ Released(d, l, r).held[l] # None
                 /\ Released(d, l, r).held[l].at.root = r
<1> DEFINE w == d.held[l]
           b == d.offline[l]
           a == HeldOffline(d, l, r)
           n == MovedBefore(a, l, r)
           f == Released(d, l, r)
<1> SUFFICES /\ Elsewhere(d, f, l) /\ Settles(d, f, l)
             /\ Remains(d, f, l) \/ (f.held[l] # None /\ f.held[l].at.root = r)
  OBVIOUS
<1>1. /\ d \in States /\ Fits(d, l)
      /\ w # None => w \in Watches
      /\ b # None => b \in Listings
  BY DEF Idle, Good, States
<1>2. f = IF n.held[l] # None /\ n.held[l].at.root = r
          THEN [LetGo(n, l) EXCEPT !.held[l].released = TRUE] ELSE n
  BY DEF Released
<1> HIDE DEF f, n, a
<1>3. CASE w = None /\ b # None /\ <<l, r>> \in named /\ r \in d.left[l]
  <2> DEFINE at == [b EXCEPT !.root = r]
             u == [Following(at) EXCEPT !.moved = IF b.root = r THEN None ELSE b, !.before = b]
             v == [u EXCEPT !.released = TRUE]
             o == [d.offline EXCEPT ![l] = None]
             s == [d.left EXCEPT ![l] = @ \ {r}]
             g == [d EXCEPT !.held = [@ EXCEPT ![l] = u], !.offline = o, !.left = s]
  <2>1. at \in Listings /\ at.root = r
    BY <1>1, <1>3 DEF Listings
  <2>a. u \in Watches /\ u.at = at /\ u.watch = 0
    BY <1>1, <1>3, <2>1, ZenonT(60) DEF Watches, Following
  <2>b. v \in Watches /\ v.at = at
    BY <2>a DEF Watches
  <2>4. a = g
    BY <1>1, <1>3 DEF HeldOffline, States, a
  <2> HIDE DEF u, v
  <2>2. u.at = at /\ u.watch = 0 /\ u # None
    BY <2>a, RecordTypes
  <2>3. v.at = at /\ v # None
    BY <2>b, RecordTypes
  <2>5. g.held[l] = u /\ g.draining = d.draining /\ g.offline = o
        /\ \A m \in Locations \ {l} : g.held[m] = d.held[m] /\ g.offline[m] = d.offline[m]
    BY <1>1 DEF States
  <2>6. n = g
    BY <2>1, <2>2, <2>4, <2>5 DEF MovedBefore, n
  <2>7. LetGo(g, l) = g
    BY <2>2, <2>5 DEF LetGo
  <2>8. f = [g EXCEPT !.held[l].released = TRUE]
    BY <1>2, <2>1, <2>2, <2>5, <2>6, <2>7
  <2>9. f.held[l] = v /\ f.draining = d.draining
        /\ \A m \in Locations \ {l} : f.held[m] = d.held[m] /\ f.offline[m] = d.offline[m]
    BY <1>1, <2>5, <2>8 DEF States, v
  <2>10. ~Releases(d, l) /\ ~Forgotten(d, l)
    BY <1>3 DEF Releases, Forgotten
  <2> QED BY <2>1, <2>3, <2>9, <2>10 DEF Elsewhere, Settles
<1>4. CASE ~(w = None /\ b # None /\ <<l, r>> \in named /\ r \in d.left[l])
  <2>1. a = d
    BY <1>4 DEF HeldOffline, a
  <2>2. CASE w # None /\ ~w.released /\ w.at.root # r /\ r \in d.left[l]
    <3> DEFINE e == LetGo(d, l)
               at == [w.at EXCEPT !.root = r]
               u == [Following(at) EXCEPT !.moved = w.at, !.inPlace = InPlace(l, r, w.at.root)]
               v == [u EXCEPT !.released = TRUE]
               s == [e.left EXCEPT ![l] = (@ \ {r}) \cup {w.at.root}]
               g == [e EXCEPT !.held = [@ EXCEPT ![l] = u], !.left = s]
    <3>1. e \in States /\ Elsewhere(d, e, l)
      BY <2>2, LetGoGood, LeaveElsewhere DEF Idle, Good
    <3>2. w.at \in Listings /\ w.at.root \in Roots
      BY <1>1, <2>2, RecordTypes
    <3>3. at \in Listings /\ at.root = r
      BY <3>2 DEF Listings
    <3>4. InPlace(l, r, w.at.root) \in Roots \cup {None}
      BY <3>2 DEF InPlace
    <3>a. u \in Watches /\ u.at = at /\ u.watch = 0
      BY <3>2, <3>3, <3>4, ZenonT(60) DEF Watches, Following
    <3>b. v \in Watches /\ v.at = at
      BY <3>a DEF Watches
    <3>7. n = g
      BY <2>1, <2>2, <3>1 DEF MovedBefore, States, n
    <3> HIDE DEF u, v, e
    <3>5. u.at = at /\ u.watch = 0 /\ u # None
      BY <3>a, RecordTypes
    <3>6. v.at = at /\ v # None
      BY <3>b, RecordTypes
    <3>8. g.held[l] = u /\ g.draining = e.draining /\ g.offline = e.offline
          /\ \A m \in Locations \ {l} : g.held[m] = e.held[m]
      BY <3>1 DEF States
    <3>9. LetGo(g, l) = g
      BY <3>5, <3>8, SMTT(30) DEF LetGo
    <3>10. f = [g EXCEPT !.held[l].released = TRUE]
      BY <1>2, <3>3, <3>5, <3>7, <3>8, <3>9
    <3>11. f.held[l] = v /\ f.draining = e.draining /\ f.offline = e.offline
           /\ \A m \in Locations \ {l} : f.held[m] = e.held[m]
      BY <3>1, <3>8, <3>10 DEF States, v
    <3>12. Elsewhere(d, f, l)
      BY <3>1, <3>11 DEF Elsewhere
    <3>13. ~Releases(d, l) /\ ~Forgotten(d, l)
      BY <2>2 DEF Releases, Forgotten
    <3> QED BY <3>3, <3>6, <3>11, <3>12, <3>13 DEF Settles
  <2>3. CASE w # None /\ w.at.root = r
    <3> DEFINE e == LetGo(d, l)
               u == [w EXCEPT !.watch = 0]
               v == [u EXCEPT !.released = TRUE]
    <3>1. e \in States /\ e.held = [d.held EXCEPT ![l] = u] /\ Elsewhere(d, e, l)
      BY <2>3, LetGoGood, LeaveElsewhere DEF Idle, Good
    <3>2. v \in Watches /\ v.at = w.at /\ v.released
      BY <1>1, <2>3 DEF Watches
    <3>3. w.released => e = d
      BY <1>1, <2>3 DEF Fits, LetGo
    <3> HIDE DEF e
    <3>4. n = d
      BY <2>1, <2>3 DEF MovedBefore, n
    <3>5. f = [e EXCEPT !.held[l].released = TRUE]
      BY <1>2, <2>3, <3>4 DEF e
    <3>6. e.held[l] = u
      BY <1>1, <3>1 DEF States
    <3> HIDE DEF u
    <3>7. f.held[l] = v /\ f.draining = e.draining /\ f.offline = e.offline
          /\ \A m \in Locations \ {l} : f.held[m] = e.held[m]
      BY <3>1, <3>5, <3>6 DEF States
    <3>8. Elsewhere(d, f, l)
      BY <3>1, <3>7 DEF Elsewhere
    <3>9. v # None
      BY <3>2, RecordTypes
    <3>10. Settles(d, f, l)
      BY <2>3, <3>2, <3>3, <3>7, <3>9 DEF Settles, Releases, Forgotten
    <3> QED BY <2>3, <3>2, <3>7, <3>8, <3>9, <3>10
  <2>4. CASE /\ ~(w # None /\ w.at.root = r)
             /\ ~(w # None /\ ~w.released /\ w.at.root # r /\ r \in d.left[l])
    <3>1. n = d
      BY <2>1, <2>4 DEF MovedBefore, n
    <3>2. f = d
      BY <1>2, <2>4, <3>1
    <3> QED BY <3>2 DEF Elsewhere, Settles, Remains
  <2> QED BY <2>2, <2>3, <2>4
<1> QED BY <1>3, <1>4

\* Telling one the outcome: it is released no more, or stays as it was.
LEMMA OutcomeElsewhere ==
    ASSUME NEW d, NEW l \in Locations, NEW r \in Roots, Idle(d)
    PROVE  /\ Elsewhere(d, Reattached(d, l, r), l) /\ Remains(d, Reattached(d, l, r), l)
           /\ Elsewhere(d, Gone(d, l, r), l) /\ Remains(d, Gone(d, l, r), l)
<1> DEFINE w == d.held[l]
<1>1. d \in States /\ Elsewhere(d, d, l) /\ Remains(d, d, l)
  BY DEF Idle, Good, Elsewhere, Remains
<1>2. ASSUME w # None
      PROVE  /\ Elsewhere(d, Decided(d, l), l) /\ Remains(d, Decided(d, l), l)
             /\ Elsewhere(d, CheckAgain(d, l), l) /\ Remains(d, CheckAgain(d, l), l)
             /\ Elsewhere(d, MoveOn(d, l), l) /\ (w.moved # None => Remains(d, MoveOn(d, l), l))
             /\ Elsewhere(d, GoOffline(d, l), l) /\ Remains(d, GoOffline(d, l), l)
  BY <1>2, DecidedElsewhere, DecidedGood, LeaveElsewhere, LeaveGood DEF Remains, Releases, Unheld
<1>3. Elsewhere(d, Gone(d, l, r), l) /\ Remains(d, Gone(d, l, r), l)
  BY <1>1, <1>2 DEF Gone
<1>4. ASSUME w # None
      PROVE  LET e == [d EXCEPT !.held[l].released = FALSE, !.starting = l]
             IN  Elsewhere(d, e, l) /\ Remains(d, e, l)
  <2> DEFINE u == [w EXCEPT !.released = FALSE]
             e == [d EXCEPT !.held[l].released = FALSE, !.starting = l]
  <2>1. w \in Watches
    BY <1>1, <1>4 DEF States
  <2>2. ~u.released
    BY <2>1 DEF Watches
  <2>3. /\ e.held[l] = u /\ e.draining = d.draining /\ e.offline = d.offline
        /\ \A m \in Locations \ {l} : e.held[m] = d.held[m]
    BY <1>1 DEF States
  <2> HIDE DEF e
  <2>4. Elsewhere(d, e, l) /\ Remains(d, e, l)
    BY <2>2, <2>3 DEF Elsewhere, Remains, Releases
  <2> QED BY <2>4 DEF e
<1>5. Elsewhere(d, Reattached(d, l, r), l) /\ Remains(d, Reattached(d, l, r), l)
  <2>1. CASE w = None \/ ~w.released \/ ~Awaits(w, r)
    BY <1>1, <2>1 DEF Reattached
  <2>2. CASE ~(w = None \/ ~w.released \/ ~Awaits(w, r))
    BY <1>2, <1>4, <2>2 DEF Reattached
  <2> QED BY <2>1, <2>2
<1> QED BY <1>3, <1>5

-----------------------------------------------------------------------------
(* While one volume alone is removed, what was let go of stays let go of.  *)

OnlyOn(v) == \A u \in Volumes \ {v} : removal[u] = Quiet

Removals == [phase : {"none", "ask", "refused", "removed"}, left : SUBSET Keys]

Kinds == removal \in [Volumes -> Removals] /\ cleared \subseteq Keys

\* The window waits for one release, of a root on the volume, and reports
\* nothing after it.
Asks(v) ==
    /\ asking = None => \A i \in DOMAIN notices : notices[i].kind # "release"
    /\ asking # None =>
          /\ Volume(asking) = v
          /\ \A i \in DOMAIN notices : notices[i].kind = "release" <=> i = Len(notices)
          /\ notices # <<>> => notices[Len(notices)].key = asking

\* Nothing is answered for but while the volume is asked for, and then no
\* outcome is on its way.
Pending(v) ==
    cleared # {} =>
        removal[v].phase = "ask" /\ \A i \in DOMAIN notices : notices[i].kind = "release"

\* A call on the volume of location `l` that may still hold a handle.
Runs(c, l, v) == c.key[1] = l /\ Volume(c.key) = v /\ c.call \in open

\* A released location is so at a root on the volume, and the window waits for
\* every call of it there.
Waits(v) ==
    \A l \in Locations : Releases(HeldNow, l) =>
        /\ VolumeOf[held[l].at.root] = v
        /\ \A c \in draining : Runs(c, l, v) =>
              asking # None /\ notices = <<>> /\ c.call \in awaiting

\* A location that was answered for has nothing on the volume, and is still
\* released, or forgotten.
Lets(v) ==
    \A k \in cleared :
        /\ Volume(k) = v
        /\ Releases(HeldNow, k[1]) \/ Forgotten(HeldNow, k[1])
        /\ \A c \in draining : ~Runs(c, k[1], v)

Clears(v) == Kinds /\ Asks(v) /\ Pending(v) /\ Waits(v) /\ Lets(v)

\* A step of discovery that lets a location be, or releases it no more.
LEMMA DiscoveryClears ==
    ASSUME Inv, NEW v \in Volumes, Clears(v), NEW l, NEW e, Publish(e),
           Elsewhere(Now, e, l), Remains(Now, e, l), cleared = {} \/ Settles(Now, e, l),
           UNCHANGED <<listed, asking, awaiting, cleared>>,
           notices = <<>> => notices' = <<>>
    PROVE  Waits(v)' /\ Lets(v)'
<1>1. /\ held' = e.held /\ offline' = e.offline
      /\ \A c \in draining' : c \in e.draining /\ c.call \in open
  BY DEF Publish
<1>2. Now.held = held /\ Now.offline = offline /\ Now.draining = draining
  BY DEF Now
<1>3. /\ HeldNow.held = held /\ HeldNow.offline = offline
      /\ HeldNow'.held = e.held /\ HeldNow'.offline = e.offline
  BY <1>1 DEF HeldNow
<1>4. \A m \in Locations \ {l} : /\ e.held[m] = held[m] /\ e.offline[m] = offline[m]
                                 /\ \A c \in draining' : c.key[1] = m => c \in draining
  BY <1>1, <1>2 DEF Elsewhere
<1>5. ASSUME NEW m \in Locations, Releases(HeldNow, m)'
      PROVE  /\ VolumeOf[held'[m].at.root] = v
             /\ \A c \in draining' : Runs(c, m, v)' =>
                   asking' # None /\ notices' = <<>> /\ c.call \in awaiting'
  <2>1. e.held[m] # None /\ e.held[m].released
    BY <1>3, <1>5 DEF Releases
  <2>2. /\ Releases(HeldNow, m) /\ e.held[m].at.root = held[m].at.root
        /\ \A c \in draining' : c.key[1] = m => c \in draining
    <3>1. CASE m = l
      BY <1>1, <1>2, <1>3, <2>1, <3>1 DEF Remains, Releases
    <3>2. CASE m # l
      BY <1>3, <1>4, <2>1, <3>2 DEF Releases
    <3> QED BY <3>1, <3>2
  <2>3. \A c \in draining' : Runs(c, m, v)' => c \in draining /\ Runs(c, m, v)
    BY <1>1, <2>2 DEF Runs
  <2> QED BY <1>1, <2>2, <2>3 DEF Clears, Waits
<1>6. ASSUME NEW k \in cleared'
      PROVE  /\ Volume(k) = v
             /\ Releases(HeldNow, k[1])' \/ Forgotten(HeldNow, k[1])'
             /\ \A c \in draining' : ~Runs(c, k[1], v)'
  <2>1. /\ k \in cleared /\ k[1] \in Locations /\ Volume(k) = v
        /\ Releases(HeldNow, k[1]) \/ Forgotten(HeldNow, k[1])
        /\ \A c \in draining : ~Runs(c, k[1], v)
    BY <1>6 DEF Clears, Kinds, Lets, Keys
  <2>2. /\ Releases(HeldNow, k[1])' \/ Forgotten(HeldNow, k[1])'
        /\ \A c \in draining' : c.key[1] = k[1] => c \in draining
    <3>1. CASE k[1] = l
      <4>1. Settles(Now, e, l)
        BY <2>1
      <4>2. (Releases(e, l) \/ Forgotten(e, l)) /\ e.draining = draining
        BY <1>2, <1>3, <2>1, <3>1, <4>1 DEF Settles, Releases, Forgotten
      <4> QED BY <1>1, <1>3, <3>1, <4>2 DEF Releases, Forgotten
    <3>2. CASE k[1] # l
      BY <1>3, <1>4, <2>1, <3>2 DEF Releases, Forgotten
    <3> QED BY <3>1, <3>2
  <2> QED BY <1>1, <2>1, <2>2 DEF Runs
<1> QED BY <1>5, <1>6 DEF Waits, Lets

\* What the window waits for when it takes discovery's own steps.
LEMMA SweepsClear ==
    ASSUME Inv, NEW v \in Volumes, Clears(v), "slow" \notin World,
           NEW l \in Locations, Sweep(l) \/ Change(l) \/ Rescan(l) \/ WaitedOut(l)
    PROVE  Clears(v)'
<1>1. Rest /\ starting = None
  BY DEF Inv, Sweep, Change, Rescan, WaitedOut, Discovers
<1>2. Idle(Now) /\ Now.held = held /\ Now.offline = offline
  BY <1>1, NowIsIdle DEF Now
<1>3. listed \in [Locations -> Listings \cup {None}]
  BY <1>1 DEF Rest
<1>4. UNCHANGED <<listed, asking, awaiting, cleared, notices, removal>>
  BY DEF Sweep, Change, Rescan, WaitedOut, Discovers, windows, answer
<1>5. PICK e : /\ Publish(e) /\ Elsewhere(Now, e, l) /\ Remains(Now, e, l)
               /\ cleared = {} \/ Settles(Now, e, l)
  <2>1. CASE Sweep(l) \/ Change(l)
    <3>1. \E sweep \in BOOLEAN : Publish(Reconciled(l, sweep))
      BY <2>1 DEF Sweep, Change, Discovers
    <3> QED BY <1>2, <1>3, <3>1, ReconciledSettles
  <2>2. CASE Rescan(l)
    <3> DEFINE g == LetGo(Now, l)
               e == [g EXCEPT !.starting = l]
               h == GoOffline(Now, l)
    <3>1. held[l] # None /\ ~held[l].released /\ (Publish(e) \/ Publish(h))
      BY <2>2 DEF Rescan, Discovers
    <3>2. Elsewhere(Now, g, l) /\ Elsewhere(Now, h, l) /\ h.held[l] = None
      BY <1>2, <3>1, LeaveElsewhere, LeaveGood
    <3>3. g \in States /\ g.held = [held EXCEPT ![l] = [held[l] EXCEPT !.watch = 0]]
      BY <1>2, <3>1, LetGoGood DEF Idle, Good
    <3>4. ~g.held[l].released
      <4>1. held \in [Locations -> Watches \cup {None}]
        BY <1>2 DEF Idle, Good, States
      <4>2. held[l] \in Watches
        BY <3>1, <4>1
      <4>3. g.held[l] = [held[l] EXCEPT !.watch = 0]
        BY <3>3, <4>1
      <4> QED BY <3>1, <4>2, <4>3 DEF Watches
    <3> HIDE DEF g, h
    <3>5. e.held = g.held /\ e.offline = g.offline /\ e.draining = g.draining
      BY <3>3 DEF States
    <3>6. Elsewhere(Now, e, l) /\ Remains(Now, e, l) /\ Remains(Now, h, l)
      BY <3>2, <3>4, <3>5 DEF Elsewhere, Remains, Releases
    <3>7. Settles(Now, e, l) /\ Settles(Now, h, l)
      BY <1>2, <3>1 DEF Settles, Releases, Forgotten
    <3> QED BY <3>1, <3>2, <3>6, <3>7
  <2>3. CASE WaitedOut(l)
    <3> DEFINE e == Decided(Now, l)
    <3>1. /\ held[l] # None /\ (held[l].moved # None \/ held[l].before # None)
          /\ removal[VolumeOf[held[l].at.root]] = Quiet /\ Publish(e)
      BY <2>3 DEF WaitedOut, Discovers
    <3>2. Elsewhere(Now, e, l) /\ Unheld(e, l)
      BY <1>2, <3>1, DecidedElsewhere, DecidedGood
    <3>3. Fits(Now, l)
      BY <1>2 DEF Idle, Good
    <3>4. Releases(HeldNow, l)
      BY <1>2, <3>1, <3>3 DEF Fits, Releases, HeldNow
    <3>5. removal[v] = Quiet
      BY <3>1, <3>4 DEF Clears, Waits
    <3>6. cleared = {}
      BY <3>5 DEF Clears, Pending, Quiet
    <3>7. Remains(Now, e, l)
      BY <3>2 DEF Remains, Releases, Unheld
    <3> QED BY <3>1, <3>2, <3>6, <3>7
  <2> QED BY <2>1, <2>2, <2>3
<1>6. Waits(v)' /\ Lets(v)'
  BY <1>4, <1>5, DiscoveryClears
<1>7. Kinds' /\ Asks(v)' /\ Pending(v)'
  BY <1>4 DEF Clears, Kinds, Asks, Pending
<1> QED BY <1>6, <1>7 DEF Clears

\* Waiting for nothing more, no call of a released location runs on the volume.
LEMMA NoneRuns ==
    ASSUME NEW v, Waits(v), asking = None \/ awaiting = {} \/ notices # <<>>,
           NEW l \in Locations, Releases(HeldNow, l)
    PROVE  VolumeOf[held[l].at.root] = v /\ \A c \in draining : ~Runs(c, l, v)
BY DEF Waits

\* Discovery takes the next of what the shell reported.
LEMMA TailClears ==
    ASSUME Rest, NEW v \in Volumes, Clears(v), notices # <<>>, notices' = Tail(notices),
           UNCHANGED <<asking, cleared, removal>>
    PROVE  /\ Kinds' /\ Asks(v)' /\ Pending(v)'
           /\ Head(notices).kind = "release" =>
                 notices' = <<>> /\ asking # None /\ Head(notices).key = asking
           /\ Head(notices).kind # "release" => cleared = {}
<1>1. /\ notices \in Seq(Notices) /\ Len(notices) \in Nat \ {0} /\ DOMAIN notices = 1..Len(notices)
      /\ Head(notices) = notices[1]
  BY DEF Rest
<1>2. /\ Len(notices') = Len(notices) - 1 /\ DOMAIN notices' = 1..(Len(notices) - 1)
      /\ \A i \in DOMAIN notices' : notices'[i] = notices[i + 1]
      /\ Len(notices) = 1 => notices' = <<>>
      /\ notices' # <<>> => Len(notices') \in DOMAIN notices'
  BY <1>1
<1>3. \A i \in DOMAIN notices' : i + 1 \in DOMAIN notices /\ (i = Len(notices') <=> i + 1 = Len(notices))
  BY <1>1, <1>2
<1>4. Asks(v)'
  <2>1. CASE asking = None
    BY <1>2, <1>3, <2>1 DEF Clears, Asks
  <2>2. CASE asking # None
    <3>1. \A i \in DOMAIN notices' : notices'[i].kind = "release" <=> i = Len(notices')
      BY <1>2, <1>3, <2>2 DEF Clears, Asks
    <3>2. notices' # <<>> => notices'[Len(notices')].key = asking
      BY <1>1, <1>2, <1>3, <2>2 DEF Clears, Asks
    <3> QED BY <2>2, <3>1, <3>2 DEF Clears, Asks
  <2> QED BY <2>1, <2>2
<1>5. Pending(v)' /\ Kinds'
  BY <1>2, <1>3 DEF Clears, Pending, Kinds
<1>6. Head(notices).kind = "release" =>
         notices' = <<>> /\ asking # None /\ Head(notices).key = asking
  <2> SUFFICES ASSUME notices[1].kind = "release"
               PROVE  notices' = <<>> /\ asking # None /\ notices[1].key = asking
    BY <1>1
  <2>1. asking # None
    BY <1>1 DEF Clears, Asks
  <2>2. 1 = Len(notices)
    BY <1>1, <2>1 DEF Clears, Asks
  <2> QED BY <1>1, <1>2, <2>1, <2>2 DEF Clears, Asks
<1>7. Head(notices).kind # "release" => cleared = {}
  BY <1>1 DEF Clears, Pending
<1> QED BY <1>4, <1>5, <1>6, <1>7

\* A release, an outcome.
LEMMA NoticeClears ==
    ASSUME Inv, NEW v \in Volumes, Clears(v), TakeNotice
    PROVE  Clears(v)'
<1> DEFINE n == Head(notices)
           l == n.key[1]
           r == n.key[2]
           e == Released(Now, l, r)
<1>1. Rest /\ starting = None /\ notices # <<>> /\ notices' = Tail(notices)
  BY DEF Inv, TakeNotice, Discovers
<1>2. n \in Notices /\ l \in Locations /\ r \in Roots /\ n.key = <<l, r>>
  <2>1. notices \in Seq(Notices)
    BY <1>1 DEF Rest
  <2>2. n \in Notices
    BY <1>1, <2>1, HeadTailProperties
  <2> QED BY <2>2 DEF Notices, Keys
<1>3. UNCHANGED <<listed, open, asking, cleared, removal>>
  BY DEF TakeNotice, Discovers, windows
<1>4. Idle(Now) /\ Now.held = held /\ Now.offline = offline /\ Now.draining = draining
  BY <1>1, NowIsIdle DEF Now
<1>5. /\ Kinds' /\ Asks(v)' /\ Pending(v)'
      /\ n.kind = "release" => notices' = <<>> /\ asking # None /\ n.key = asking
      /\ n.kind # "release" => cleared = {}
  BY <1>1, <1>3, TailClears
<1>6. CASE n.kind = "release"
  <2>1. Publish(e) /\ awaiting' = Awaited(e, l, r)
    BY <1>6 DEF TakeNotice, Discovers
  <2>2. /\ Elsewhere(Now, e, l) /\ Settles(Now, e, l)
        /\ Remains(Now, e, l) \/ (e.held[l] # None /\ e.held[l].at.root = r)
    BY <1>2, <1>4, ReleasedSettles
  <2>3. VolumeOf[r] = v /\ asking' # None /\ notices' = <<>>
    <3>1. Volume(n.key) = v
      BY <1>5, <1>6 DEF Clears, Asks
    <3> QED BY <1>2, <1>3, <1>5, <1>6, <3>1 DEF Volume
  <2> HIDE DEF e, n
  <2>4. /\ held' = e.held /\ \A c \in draining' : c \in e.draining /\ c.call \in open
        /\ HeldNow.held = held /\ HeldNow'.held = e.held
    BY <2>1 DEF Publish, HeldNow
  <2>5. ASSUME NEW m \in Locations, Releases(HeldNow, m), e.held[m] # None,
               e.held[m].at.root = held[m].at.root,
               \A c \in draining' : c.key[1] = m => c \in draining
        PROVE  /\ VolumeOf[held'[m].at.root] = v
               /\ \A c \in draining' : ~Runs(c, m, v)'
    <3>1. VolumeOf[held[m].at.root] = v /\ \A c \in draining : ~Runs(c, m, v)
      BY <1>1, <2>5, NoneRuns DEF Clears
    <3> QED BY <1>3, <2>4, <2>5, <3>1 DEF Runs
  <2>6. ASSUME NEW m \in Locations, Releases(HeldNow, m)'
        PROVE  /\ VolumeOf[held'[m].at.root] = v
               /\ \A c \in draining' : Runs(c, m, v)' =>
                     asking' # None /\ notices' = <<>> /\ c.call \in awaiting'
    <3>1. e.held[m] # None /\ e.held[m].released
      BY <2>4, <2>6 DEF Releases
    <3>2. CASE m # l
      <4>1. e.held[m] = held[m] /\ \A c \in draining' : c.key[1] = m => c \in draining
        BY <1>4, <2>2, <2>4, <3>2 DEF Elsewhere
      <4>2. Releases(HeldNow, m)
        BY <2>4, <3>1, <4>1 DEF Releases
      <4> QED BY <2>5, <3>1, <4>1, <4>2
    <3>3. CASE m = l /\ Remains(Now, e, l)
      <4>1. /\ Releases(HeldNow, m) /\ e.held[m].at.root = held[m].at.root
            /\ e.draining = draining
        BY <1>4, <2>4, <3>1, <3>3 DEF Remains, Releases
      <4> QED BY <2>4, <2>5, <3>1, <4>1
    <3>4. CASE m = l /\ e.held[l].at.root = r
      <4>1. awaiting' = {c.call : c \in {c \in e.draining : Volume(c.key) = v}} \cap open
        BY <2>1, <2>3, <3>1, <3>4 DEF Awaited
      <4>2. \A c \in draining' : Runs(c, m, v)' => c.call \in awaiting'
        BY <1>3, <2>4, <4>1 DEF Runs
      <4> QED BY <2>3, <2>4, <3>4, <4>2
    <3> QED BY <2>2, <3>2, <3>3, <3>4
  <2>7. ASSUME NEW k \in cleared'
        PROVE  /\ Volume(k) = v
               /\ Releases(HeldNow, k[1])' \/ Forgotten(HeldNow, k[1])'
               /\ \A c \in draining' : ~Runs(c, k[1], v)'
    <3>1. /\ k[1] \in Locations /\ Volume(k) = v
          /\ Releases(HeldNow, k[1]) \/ Forgotten(HeldNow, k[1])
          /\ \A c \in draining : ~Runs(c, k[1], v)
      BY <1>3, <2>7 DEF Clears, Kinds, Lets, Keys
    <3>2. /\ HeldNow.held = held /\ HeldNow.offline = offline
          /\ HeldNow'.held = e.held /\ HeldNow'.offline = e.offline
      BY <2>1 DEF HeldNow, Publish
    <3>3. /\ Releases(HeldNow, k[1])' \/ Forgotten(HeldNow, k[1])'
          /\ \A c \in draining' : c.key[1] = k[1] => c \in draining
      <4>1. CASE k[1] = l
        <5>1. (Releases(e, l) \/ Forgotten(e, l)) /\ e.draining = draining
          BY <1>4, <2>2, <3>1, <3>2, <4>1 DEF Settles, Releases, Forgotten
        <5> QED BY <1>3, <2>4, <3>2, <4>1, <5>1 DEF Releases, Forgotten
      <4>2. CASE k[1] # l
        <5>1. /\ e.held[k[1]] = held[k[1]] /\ e.offline[k[1]] = offline[k[1]]
              /\ \A c \in draining' : c.key[1] = k[1] => c \in draining
          BY <1>4, <2>2, <2>4, <3>1, <4>2 DEF Elsewhere
        <5> QED BY <1>3, <3>1, <3>2, <5>1 DEF Releases, Forgotten
      <4> QED BY <4>1, <4>2
    <3> QED BY <1>3, <3>1, <3>3 DEF Runs
  <2> QED BY <1>5, <2>6, <2>7 DEF Clears, Waits, Lets
<1>7. CASE n.kind # "release"
  <2>1. /\ cleared = {} /\ awaiting' = awaiting
        /\ Publish(Reattached(Now, l, r)) \/ Publish(Gone(Now, l, r))
    BY <1>5, <1>7 DEF TakeNotice, Discovers
  <2>2. /\ Elsewhere(Now, Reattached(Now, l, r), l) /\ Remains(Now, Reattached(Now, l, r), l)
        /\ Elsewhere(Now, Gone(Now, l, r), l) /\ Remains(Now, Gone(Now, l, r), l)
    BY <1>2, <1>4, OutcomeElsewhere
  <2>3. Waits(v)' /\ Lets(v)'
    BY <1>1, <1>3, <2>1, <2>2, DiscoveryClears
  <2> QED BY <1>5, <2>3 DEF Clears
<1> QED BY <1>6, <1>7

\* The watcher starts: of a location neither released nor forgotten.
LEMMA AttachClears ==
    ASSUME Inv, NEW v \in Volumes, Clears(v), Attach
    PROVE  Clears(v)'
<1> DEFINE l == starting
<1>1. /\ l \in Locations /\ held \in [Locations -> Watches \cup {None}]
      /\ held[l] \in Watches /\ ~held[l].released /\ Now \in States /\ starting # None
      /\ Now.held = held /\ Now.offline = offline
  <2>1. HeldNow \in States /\ StartFits(HeldNow) /\ starting # None
    BY DEF Inv, Good, Attach
  <2> QED BY <2>1 DEF States, StartFits, HeldNow, Now
<1>2. UNCHANGED <<listed, asking, awaiting, cleared, notices, removal>>
  BY DEF Attach, catalog, windows, answer
<1>3. PICK n \in Calls :
          Publish([Now EXCEPT !.held[l].watch = n]) \/ Publish(Now)
  BY DEF Attach
<1> DEFINE u == [held[l] EXCEPT !.watch = n]
           e == [Now EXCEPT !.held[l].watch = n]
<1>4. ~u.released
  BY <1>1 DEF Watches
<1>5. /\ e.held[l] = u /\ e.offline = Now.offline /\ e.draining = Now.draining
      /\ \A m \in Locations \ {l} : e.held[m] = held[m]
  BY <1>1 DEF States
<1> HIDE DEF e, u
<1>6. Elsewhere(Now, e, l) /\ Remains(Now, e, l)
  BY <1>1, <1>4, <1>5 DEF Elsewhere, Remains, Releases
<1>7. Elsewhere(Now, Now, l) /\ Remains(Now, Now, l)
  BY DEF Elsewhere, Remains
<1>8. Settles(Now, e, l) /\ Settles(Now, Now, l)
  BY <1>1, RecordTypes DEF Settles, Releases, Forgotten
<1>9. PICK d : /\ Publish(d) /\ Elsewhere(Now, d, l) /\ Remains(Now, d, l)
               /\ Settles(Now, d, l)
  BY <1>3, <1>6, <1>7, <1>8 DEF e
<1>10. Waits(v)' /\ Lets(v)'
  BY <1>2, <1>9, DiscoveryClears
<1> QED BY <1>2, <1>10 DEF Clears, Kinds, Asks, Pending

\* Steps of others: what they leave running, they leave answered for.
LEMMA OthersClear ==
    ASSUME NEW v \in Volumes, Clears(v), UNCHANGED <<held, offline, draining>>,
           cleared' \subseteq cleared, open' \subseteq open,
           \A l \in Locations : listed[l] = None => listed'[l] = None,
           Kinds', Asks(v)', Pending(v)', Waits(v)'
    PROVE  Clears(v)'
<1>1. HeldNow'.held = HeldNow.held /\ HeldNow'.offline = HeldNow.offline
  BY DEF HeldNow
<1>2. \A c, l : Runs(c, l, v)' => Runs(c, l, v)
  BY DEF Runs
<1>3. ASSUME NEW k \in cleared'
      PROVE  /\ Volume(k) = v
             /\ Releases(HeldNow, k[1])' \/ Forgotten(HeldNow, k[1])'
             /\ \A c \in draining' : ~Runs(c, k[1], v)'
  <2>1. /\ k \in cleared /\ k[1] \in Locations /\ Volume(k) = v
        /\ Releases(HeldNow, k[1]) \/ Forgotten(HeldNow, k[1])
        /\ \A c \in draining : ~Runs(c, k[1], v)
    BY <1>3 DEF Clears, Kinds, Lets, Keys
  <2> QED BY <1>1, <1>2, <2>1 DEF Releases, Forgotten
<1>4. Lets(v)'
  BY <1>3 DEF Lets
<1> QED BY <1>4 DEF Clears

\* Who is waited for, while only that changes.
LEMMA WaitsStill ==
    ASSUME NEW v, Waits(v), UNCHANGED <<held, draining, asking, notices>>, open' \subseteq open,
           awaiting \cap open' \subseteq awaiting'
    PROVE  Waits(v)'
<1>1. \A l : Releases(HeldNow, l)' <=> Releases(HeldNow, l)
  BY DEF Releases, HeldNow
<1>2. \A c, l : Runs(c, l, v)' => Runs(c, l, v) /\ c.call \in open'
  BY DEF Runs
<1> QED BY <1>1, <1>2 DEF Waits

\* With nothing waited for, the window may ask or hear what it likes.
LEMMA WaitsOver ==
    ASSUME NEW v, Waits(v), asking = None \/ awaiting = {} \/ notices # <<>>,
           UNCHANGED <<held, draining, open>>
    PROVE  Waits(v)'
<1>1. \A l : Releases(HeldNow, l)' <=> Releases(HeldNow, l)
  BY DEF Releases, HeldNow
<1>2. \A c, l : Runs(c, l, v)' <=> Runs(c, l, v)
  BY DEF Runs
<1>3. ASSUME NEW l \in Locations, Releases(HeldNow, l)
      PROVE  VolumeOf[held[l].at.root] = v /\ \A c \in draining : ~Runs(c, l, v)
  BY <1>3, NoneRuns
<1> QED BY <1>1, <1>2, <1>3 DEF Waits

\* The phase a volume is put in.
LEMMA PhaseKinds ==
    ASSUME removal \in [Volumes -> Removals], NEW u \in Volumes,
           NEW p \in {"ask", "refused", "removed"}, NEW ks \in SUBSET Keys, Phase(u, p, ks)
    PROVE  /\ removal' \in [Volumes -> Removals]
           /\ \A x \in Volumes \ {u} : removal'[x] = removal[x]
           /\ p = "ask" => removal'[u].phase = "ask"
BY DEF Phase, Removals, Quiet

\* The shell, the window at its timer, calls that return, and what Windows does
\* to a volume before it asks or after it told.
LEMMA CalmClears ==
    ASSUME Inv, NEW v \in Volumes, Clears(v),
           \/ ShellFollows \/ WindowFollows \/ UNCHANGED vars
           \/ \E n \in Calls : Returns(n)
           \/ \E u \in Volumes : Request(u) \/ Mount(u)
    PROVE  Clears(v)'
<1>1. UNCHANGED <<listed, held, offline, draining, asking, notices, cleared>>
  BY DEF ShellFollows, WindowFollows, Returns, Request, Mount, vars,
         catalog, windows, discovery, window, answer
<1>2. open' \subseteq open /\ awaiting \cap open' \subseteq awaiting'
  <2>1. CASE ShellFollows \/ WindowFollows \/ UNCHANGED vars \/ \E u \in Volumes : Request(u) \/ Mount(u)
    BY <2>1 DEF ShellFollows, WindowFollows, Request, Mount, vars, answer
  <2>2. CASE \E n \in Calls : Returns(n)
    BY <2>2 DEF Returns
  <2> QED BY <2>1, <2>2
<1>3. /\ removal' \in [Volumes -> Removals]
      /\ removal[v].phase = "ask" => removal'[v].phase = "ask"
  <2>1. removal \in [Volumes -> Removals]
    BY DEF Clears, Kinds
  <2>2. ASSUME NEW u \in Volumes, Request(u)
        PROVE  /\ removal' \in [Volumes -> Removals]
               /\ removal[v].phase = "ask" => removal'[v].phase = "ask"
    <3>1. On(u) \in SUBSET Keys /\ Phase(u, "ask", On(u))
      BY <2>2 DEF On, Request
    <3> QED BY <2>1, <3>1, PhaseKinds
  <2>3. CASE \/ ShellFollows \/ WindowFollows \/ UNCHANGED vars
             \/ \E n \in Calls : Returns(n)
             \/ \E u \in Volumes : Mount(u)
    BY <2>1, <2>3 DEF ShellFollows, WindowFollows, Returns, Mount, vars, windows
  <2> QED BY <2>2, <2>3
<1>4. Kinds' /\ Asks(v)' /\ Pending(v)'
  BY <1>1, <1>3 DEF Clears, Kinds, Asks, Pending
<1>5. Waits(v)'
  BY <1>1, <1>2, WaitsStill DEF Clears
<1> QED BY <1>1, <1>2, <1>4, <1>5, OthersClear

\* What another report does to the order of them.
LEMMA AppendAsks ==
    ASSUME Rest, NEW v \in Volumes, Clears(v), asking = None, NEW k \in Keys, NEW kind,
           Notify(kind, k), \/ kind # "release" /\ asking' = None
                            \/ kind = "release" /\ asking' = k /\ Volume(k) = v
    PROVE  /\ Asks(v)'
           /\ \A i \in DOMAIN notices' :
                 notices'[i].kind = kind \/ \E j \in DOMAIN notices : notices'[i] = notices[j]
<1> DEFINE x == [kind |-> kind, key |-> k]
<1>1. /\ notices \in Seq(Notices) /\ notices' = Append(notices, x) /\ Len(notices) \in Nat
      /\ DOMAIN notices = 1..Len(notices) /\ x.kind = kind /\ x.key = k
  BY DEF Rest, Notify
<1> HIDE DEF x
<1>2. /\ Len(notices') = Len(notices) + 1 /\ DOMAIN notices' = 1..(Len(notices) + 1)
      /\ notices'[Len(notices) + 1] = x
      /\ \A i \in DOMAIN notices : notices'[i] = notices[i]
  BY <1>1
<1>3. \A i \in DOMAIN notices' : i \in DOMAIN notices \/ i = Len(notices')
  BY <1>1, <1>2
<1>4. \A i \in DOMAIN notices : notices[i].kind # "release" /\ i # Len(notices')
  BY <1>1, <1>2 DEF Clears, Asks
<1>5. Asks(v)'
  <2>1. CASE kind # "release" /\ asking' = None
    BY <1>1, <1>2, <1>3, <1>4, <2>1 DEF Asks
  <2>2. CASE kind = "release" /\ asking' = k /\ Volume(k) = v
    <3>1. \A i \in DOMAIN notices' : notices'[i].kind = "release" <=> i = Len(notices')
      BY <1>1, <1>2, <1>3, <1>4, <2>2
    <3>2. k # None
      BY InstanceAssumption
    <3> QED BY <1>1, <1>2, <2>2, <3>1, <3>2 DEF Asks
  <2> QED BY <2>1, <2>2
<1> QED BY <1>1, <1>2, <1>3, <1>5

\* Windows asks a registration, and tells it the outcome.
LEMMA NotifyClears ==
    ASSUME Inv, NEW v \in Volumes, Clears(v), OnlyOn(v), NEW k \in Keys, Ask(k) \/ Tell(k)
    PROVE  Clears(v)'
<1> DEFINE u == Volume(k)
<1>1. /\ UNCHANGED <<listed, held, offline, draining, open, cleared>> /\ asking = None
      /\ removal[u].phase \in {"ask", "refused", "removed"} /\ Rest
  BY DEF Ask, Tell, TellRefused, TellRemoved, catalog, discovery, answer, Inv
<1>2. u \in Volumes
  BY InstanceAssumption DEF Volume, Keys
<1>3. u = v
  BY <1>1, <1>2 DEF OnlyOn, Quiet
<1>4. PICK p \in {"ask", "refused", "removed"} :
         /\ removal[v].phase = p /\ Phase(v, p, removal[v].left \ {k})
  BY <1>3 DEF Ask, Tell, TellRefused, TellRemoved
<1>5. /\ removal' \in [Volumes -> Removals]
      /\ p = "ask" => removal'[v].phase = "ask"
  <2>1. removal \in [Volumes -> Removals]
    BY DEF Clears, Kinds
  <2>2. removal[v].left \ {k} \in SUBSET Keys
    BY <2>1 DEF Removals
  <2> QED BY <1>4, <2>1, <2>2, PhaseKinds
<1>6. \/ UNCHANGED <<asking, notices>>
      \/ p = "ask" /\ asking' = k /\ Notify("release", k)
      \/ p # "ask" /\ asking' = None /\ \E kind \in {"reattach", "gone"} : Notify(kind, k)
  BY <1>1, <1>3, <1>4 DEF Ask, Tell, TellRefused, TellRemoved, answer
<1>7. p # "ask" => cleared = {}
  BY <1>4 DEF Clears, Pending
<1>8. Asks(v)' /\ Pending(v)'
  <2>1. CASE UNCHANGED <<asking, notices>>
    BY <1>1, <1>4, <1>5, <1>7, <2>1 DEF Clears, Asks, Pending
  <2>2. CASE p = "ask" /\ asking' = k /\ Notify("release", k)
    <3>1. /\ Asks(v)'
          /\ \A i \in DOMAIN notices' :
                notices'[i].kind = "release" \/ \E j \in DOMAIN notices : notices'[i] = notices[j]
      BY <1>1, <1>3, <2>2, AppendAsks
    <3> QED BY <1>1, <1>5, <2>2, <3>1 DEF Clears, Pending
  <2>3. CASE p # "ask" /\ asking' = None /\ \E kind \in {"reattach", "gone"} : Notify(kind, k)
    <3>1. Asks(v)'
      BY <1>1, <2>3, AppendAsks
    <3> QED BY <1>1, <1>7, <2>3, <3>1 DEF Pending
  <2> QED BY <1>6, <2>1, <2>2, <2>3
<1>9. Waits(v)'
  BY <1>1, WaitsOver DEF Clears
<1>10. Kinds'
  BY <1>1, <1>5 DEF Clears, Kinds
<1> QED BY <1>1, <1>8, <1>9, <1>10, OthersClear

\* The window has its answer.
LEMMA AnsweredClears ==
    ASSUME Inv, NEW v \in Volumes, Clears(v), Answered
    PROVE  Clears(v)'
<1>1. /\ UNCHANGED <<listed, held, offline, draining, open, notices, removal>>
      /\ asking # None /\ awaiting = {} /\ asking' = None /\ asking \in Keys
      /\ \A i \in DOMAIN notices : notices[i].kind # "release"
      /\ cleared' = cleared \cup {k \in {asking} : /\ removal[Volume(k)].phase = "ask"
                                                /\ held[k[1]] # None /\ held[k[1]].released}
  BY DEF Answered, catalog, windows, discovery, Inv, Rest
<1>2. notices = <<>>
  <2> SUFFICES ASSUME notices # <<>> PROVE FALSE
    OBVIOUS
  <2>1. notices \in Seq(Notices)
    BY DEF Inv, Rest
  <2>2. Len(notices) \in DOMAIN notices
    BY <2>1
  <2> QED BY <1>1, <2>2 DEF Clears, Asks
<1>3. Volume(asking) = v
  BY <1>1 DEF Clears, Asks
<1>4. Waits(v)'
  BY <1>1, WaitsOver DEF Clears
<1>5. Asks(v)'
  BY <1>1 DEF Asks
<1>6. Kinds' /\ Pending(v)'
  BY <1>1, <1>2, <1>3 DEF Clears, Kinds, Pending
<1>7. HeldNow' = HeldNow \/ (HeldNow'.held = HeldNow.held /\ HeldNow'.offline = HeldNow.offline)
  BY <1>1 DEF HeldNow
<1>8. ASSUME NEW k \in cleared'
      PROVE  /\ Volume(k) = v
             /\ Releases(HeldNow, k[1])' \/ Forgotten(HeldNow, k[1])'
             /\ \A c \in draining' : ~Runs(c, k[1], v)'
  <2>1. /\ Volume(k) = v
        /\ Releases(HeldNow, k[1]) \/ Forgotten(HeldNow, k[1])
        /\ \A c \in draining : ~Runs(c, k[1], v)
    <3>1. CASE k \in cleared
      BY <3>1 DEF Clears, Lets
    <3>2. CASE k \notin cleared
      <4>1. k = asking /\ held[k[1]] # None /\ held[k[1]].released /\ k[1] \in Locations
        BY <1>1, <1>8, <3>2 DEF Keys
      <4>2. Releases(HeldNow, k[1])
        BY <4>1 DEF Releases, HeldNow
      <4> QED BY <1>1, <1>3, <4>1, <4>2, NoneRuns DEF Clears
    <3> QED BY <3>1, <3>2
  <2> QED BY <1>1, <1>7, <2>1 DEF Releases, Forgotten, Runs
<1>9. Lets(v)'
  BY <1>8 DEF Lets
<1> QED BY <1>4, <1>5, <1>6, <1>9 DEF Clears

\* A removal is decided: what was answered for is over.
LEMMA DecidesClears ==
    ASSUME Inv, NEW v \in Volumes, Clears(v), OnlyOn(v),
           NEW u \in Volumes, Refuse(u) \/ Grant(u) \/ Pull(u)
    PROVE  Clears(v)'
<1>1. /\ UNCHANGED <<listed, held, offline, draining, open, notices, asking, awaiting>>
      /\ \E p \in {"refused", "removed"} : Decides(u, p)
  BY DEF Refuse, Grant, Pull, catalog, discovery
<1>2. /\ removal' \in [Volumes -> Removals]
      /\ \A x \in Volumes \ {u} : removal'[x] = removal[x]
  <2>1. removal \in [Volumes -> Removals] /\ On(u) \in SUBSET Keys
    BY DEF Clears, Kinds, On
  <2> QED BY <1>1, <2>1, PhaseKinds DEF Decides
<1>3. cleared' = {k \in cleared : Volume(k) # u}
  BY <1>1 DEF Decides
<1>4. cleared' # {} => u # v /\ cleared # {}
  BY <1>3 DEF Clears, Lets
<1>5. Kinds' /\ Asks(v)' /\ Pending(v)'
  BY <1>1, <1>2, <1>3, <1>4 DEF Clears, Kinds, Asks, Pending
<1>6. Waits(v)'
  BY <1>1, WaitsStill DEF Clears
<1> QED BY <1>1, <1>3, <1>5, <1>6, OthersClear

\* The user's changes: none gives a forgotten location back to the catalog.
LEMMA UserClears ==
    ASSUME Inv, NEW v \in Volumes, Clears(v),
           NEW l \in Locations, Remap(l) \/ Reselect(l) \/ Remove(l)
    PROVE  Clears(v)'
<1>1. /\ UNCHANGED <<held, offline, draining, open, notices, asking, awaiting, cleared, removal>>
      /\ listed[l] # None /\ \E at : listed' = [listed EXCEPT ![l] = at]
  BY DEF Remap, Reselect, Remove, Changed, windows, discovery, answer
<1>2. listed \in [Locations -> Listings \cup {None}]
  BY DEF Inv, Rest
<1>3. \A m \in Locations : listed[m] = None => listed'[m] = None
  BY <1>1, <1>2
<1>4. Kinds' /\ Asks(v)' /\ Pending(v)'
  BY <1>1 DEF Clears, Kinds, Asks, Pending
<1>5. Waits(v)'
  BY <1>1, WaitsStill DEF Clears
<1> QED BY <1>1, <1>3, <1>4, <1>5, OthersClear

\* Nothing is asked for at the start.
LEMMA InitClears ==
    ASSUME NEW v \in Volumes, Init
    PROVE  Clears(v)
<1>1. Kinds
  BY DEF Init, Kinds, Quiet, Removals
<1>2. Asks(v) /\ Pending(v) /\ Lets(v)
  BY DEF Init, Asks, Pending, Lets
<1>3. Waits(v)
  BY DEF Init, Waits, Releases, HeldNow
<1> QED BY <1>1, <1>2, <1>3 DEF Clears

\* Every step keeps it, while no other volume is removed.
LEMMA NextClears ==
    ASSUME Inv, NEW v \in Volumes, Clears(v), OnlyOn(v), "slow" \notin World, [Next]_vars
    PROVE  Clears(v)'
<1>1. ASSUME NEW l \in Locations, Sweep(l) \/ Change(l) \/ Rescan(l) \/ WaitedOut(l)
      PROVE  Clears(v)'
  BY <1>1, SweepsClear
<1>2. ASSUME NEW l \in Locations, Remap(l) \/ Reselect(l) \/ Remove(l)
      PROVE  Clears(v)'
  BY <1>2, UserClears
<1>3. CASE Attach
  BY <1>3, AttachClears
<1>4. CASE Tick
  <2>1. /\ Publish(Now) /\ UNCHANGED <<listed, asking, awaiting, cleared, notices, removal>>
    BY <1>4 DEF Tick, Discovers, windows, answer
  <2>2. Elsewhere(Now, Now, None) /\ Remains(Now, Now, None) /\ Settles(Now, Now, None)
    BY DEF Elsewhere, Remains, Settles
  <2>3. Waits(v)' /\ Lets(v)'
    BY <2>1, <2>2, DiscoveryClears
  <2> QED BY <2>1, <2>3 DEF Clears, Kinds, Asks, Pending
<1>5. CASE TakeNotice
  BY <1>5, NoticeClears
<1>6. CASE Answered
  BY <1>6, AnsweredClears
<1>7. CASE \/ ShellFollows \/ WindowFollows \/ UNCHANGED vars
           \/ \E n \in Calls : Returns(n)
           \/ \E u \in Volumes : Request(u) \/ Mount(u)
  BY <1>7, CalmClears
<1>8. ASSUME NEW u \in Volumes, Refuse(u) \/ Grant(u) \/ Pull(u)
      PROVE  Clears(v)'
  BY <1>8, DecidesClears
<1>9. ASSUME NEW k \in Keys, Ask(k) \/ Tell(k)
      PROVE  Clears(v)'
  BY <1>9, NotifyClears
<1> QED BY <1>1, <1>2, <1>3, <1>4, <1>5, <1>6, <1>7, <1>8, <1>9 DEF Next

-----------------------------------------------------------------------------
(* Theorems. *)

\* What discovery remembers of a pending removal it keeps only while the
\* location is released, and a released location has no watcher (`Moved`,
\* `HeldOffline`).
THEOREM TypeCorrect == Spec => []TypeOK
<1>1. Inv => TypeOK
  BY DEF Inv, Rest, Good, States, Fits, HeldNow, TypeOK
<1> QED BY <1>1, Inductive, PTL

\* A step that leaves a location released names no root for it that was not
\* named, whatever the user remapped and whichever volumes are asked for
\* meanwhile (`moved_before_release`, `held_offline`, `follow`).
THEOREM NamesNone == Spec => NamesNothingNew
<1>1. Inv /\ [Next]_vars => [\A l \in Locations : NoneNew(l)]_vars
  BY NextHolds DEF Keeps
<1> QED BY <1>1, Inductive, PTL DEF Spec, NamesNothingNew, NoneNew

\* However often a volume is asked for, pulled and mounted, whatever the user
\* changes and however slowly calls return: once discovery answered with the
\* location released, it holds nothing of that location anywhere on the volume
\* until the removal is decided (`CaptureWatch::release`, `Draining`).  It is
\* so while no other volume is being removed, and Windows takes no longer over
\* a removal than discovery waits; without either it fails.
THEOREM HeldAlwaysClear ==
    ASSUME NEW v \in Volumes, "slow" \notin World
    PROVE  Spec /\ []OnlyOn(v) => []HeldClear
<1>1. Init => Clears(v)
  BY InitClears
<1>2. Inv /\ Clears(v) /\ OnlyOn(v) /\ [Next]_vars => Clears(v)'
  BY NextClears
<1>3. Inv /\ Clears(v) => HeldClear
  <2> SUFFICES ASSUME Inv, Clears(v), NEW k \in cleared
               PROVE  ~Holds(k[1], Volume(k))
    BY DEF HeldClear
  <2>1. /\ Volume(k) = v /\ k[1] \in Locations
        /\ Releases(HeldNow, k[1]) \/ Forgotten(HeldNow, k[1])
        /\ \A c \in draining : ~Runs(c, k[1], v)
    BY DEF Clears, Kinds, Lets, Keys
  <2>2. held[k[1]] # None => held[k[1]].watch = 0
    <3>1. Fits(HeldNow, k[1])
      BY <2>1 DEF Inv, Good
    <3> QED BY <2>1, <3>1 DEF Fits, Releases, Forgotten, HeldNow
  <2> QED BY <2>1, <2>2 DEF Holds, Runs
<1> QED BY <1>1, <1>2, <1>3, Inductive, PTL DEF Spec
=============================================================================
