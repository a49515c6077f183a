---------------------------- MODULE ImportProofs ----------------------------
(***************************************************************************)
(* Theorems of Import: for any imports, files, modes, edits, stops and     *)
(* changes from outside, in every world.                                   *)
(***************************************************************************)
EXTENDS Import, FiniteSetTheorems, WellFoundedInduction, TLAPS

Places == {"idle", "open", "advance", "take", "plan", "attach", "step", "retire", "observe",
           "index", "scan", "collect", "end"}
Steps  == {"none", "pending", "installed", "verified", "retiring"} \cup Outcomes
Read   == Versions \cup {None}
Phases == Preview \cup Waiting \cup Ended
Copies == [by : Imports \cup {"user", Nobody}, version : Read]
InReview(m) == state[m] \in {"none", "previewed"}

Types ==
    /\ source \in [Files -> Read] /\ dest \in [Files -> Copies]
    /\ sourceUp \in BOOLEAN /\ destUp \in BOOLEAN
    /\ state \in [Imports -> {"none", "previewed", "running", "interrupted", "settled"}]
    /\ mode \in [Imports -> Modes \cup {"none"}] /\ rev \in [Imports -> Nat]
    /\ phase \in [Imports -> [Files -> Phases]]
    /\ seen \in [Imports -> [Files -> Read]] /\ evidence \in [Imports -> [Files -> Read]]
    /\ excluded \in [Imports -> SUBSET Files] /\ chosen \in [Imports -> SUBSET Files]
    /\ landed \in [Imports -> SUBSET Files] /\ indexed \in [Imports -> SUBSET Files]
    /\ kind \in [Imports -> {"none", "transfer", "trash"}]
    /\ item \in [Imports -> [Files -> Steps]] /\ attached \in [Imports -> SUBSET Files]
    /\ check \in [Imports \X Askers -> CheckType]
    /\ at \in [Imports -> Places] /\ changes \in Nat

\* An import in review runs nothing and has nothing landed; one that was started
\* has its mode, and nothing that could be started again.
ReviewFits(m) ==
    /\ InReview(m) => /\ at[m] = "idle" /\ attached[m] = {} /\ landed[m] = {}
                      /\ \A f \in Files : phase[m][f] \in Preview
    /\ ~InReview(m) => mode[m] \in Modes /\ \A f \in Files : phase[m][f] # "ready"
    /\ state[m] = "settled" => at[m] = "idle" /\ \A f \in Files : phase[m][f] \notin Waiting

\* What the user left out last stays out; what may land was reviewed.
ChoiceFits(m) ==
    /\ excluded[m] = chosen[m]
    /\ \A f \in excluded[m] : phase[m][f] = "excluded"
    /\ \A f \in Files : phase[m][f] \in {"ready"} \cup Waiting => evidence[m][f] # None

\* What landed stays landed; a landed file waits only in a Move, and waits for
\* its transfer only while its journal says that it has landed.
LandedFits(m) ==
    /\ indexed[m] \subseteq landed[m]
    /\ \A f \in Files : phase[m][f] \in {"landed", "copied", "moved", "sourceKept"} => f \in landed[m]
    /\ \A f \in landed[m] : phase[m][f] \in Waiting => mode[m] = "move"
    /\ \A f \in landed[m] : phase[m][f] = "pending" =>
           f \in attached[m] /\ item[m][f] \notin {"pending", "installed"}

PhaseOf(m) == IF kind[m] = "trash" THEN "landed" ELSE "pending"

\* An item that names the operation is one of its own.
JournalFits(m) ==
    /\ \A f \in attached[m] :
          /\ item[m][f] # "none" /\ phase[m][f] = PhaseOf(m)
          /\ item[m][f] \in {"verified", "retiring"} => mode[m] = "move"
    /\ at[m] \in {"plan", "attach"} => attached[m] = {}
    /\ at[m] = "attach" => \A f \in Files : item[m][f] # "none" =>
           item[m][f] = "pending" /\ phase[m][f] = PhaseOf(m)
    /\ at[m] \in {"retire", "observe"} =>
           First(m) \in attached[m] /\ item[m][First(m)] = "retiring"

\* A check of the preview or an edit began from a revision the import had, and,
\* while it has it still, from what the user left out in it.
CheckFits(m) ==
    /\ \A ask \in Askers :
          LET c == check[<<m, ask>>] IN
             /\ c.at # "none" => c.rev <= rev[m] /\ c.rev < MaxRev
             /\ c.at = "record" => \A f \in Files :
                   /\ c.phase[f] = "ready" => c.evidence[f] # None
                   /\ f \in c.excluded => c.phase[f] = "excluded"
    /\ LET c == check[<<m, "check">>] IN
          c.at # "none" /\ c.rev = rev[m] => c.excluded = excluded[m]

One(m) == ReviewFits(m) /\ ChoiceFits(m) /\ LandedFits(m) /\ JournalFits(m) /\ CheckFits(m)
Inv    == Types /\ \A m \in Imports : One(m)

-----------------------------------------------------------------------------
(* The operators of the model, and what holds at the start. *)

\* The first item of an operation is one of its open ones.
LEMMA LeastIn == ASSUME NEW S, S \subseteq Nat, S # {} PROVE Least(S) \in S
<1> DEFINE T == {0..n : n \in S}
<1>1. T \subseteq FiniteSubsetsOf(Nat) /\ T # {}
  <2>1. ASSUME NEW n \in S PROVE 0..n \in FiniteSubsetsOf(Nat)
    <3>1. n \in Nat /\ 0 \in Int /\ n \in Int /\ 0..n \subseteq Nat
      OBVIOUS
    <3>2. IsFiniteSet(0..n)
      BY <3>1, FS_Interval
    <3> QED BY <3>1, <3>2 DEF FiniteSubsetsOf
  <2>2. T # {}
    OBVIOUS
  <2> QED BY <2>1, <2>2
<1>2. PICK t \in T : \A u \in T : <<u, t>> \notin StrictSubsetOrdering(Nat)
  <2> HIDE DEF T
  <2> QED BY <1>1, FS_StrictSubsetOrderingWellFounded, WFMin
<1>3. PICK n \in S : t = 0..n
  OBVIOUS
<1>4. ASSUME NEW m \in S PROVE n <= m
  <2> SUFFICES ASSUME m < n PROVE FALSE
    OBVIOUS
  <2>1. 0..m \subseteq 0..n /\ 0..m # 0..n /\ 0..n \subseteq Nat
    <3>1. n \in 0..n /\ n \notin 0..m
      OBVIOUS
    <3> QED BY <3>1
  <2>2. 0..m \in T
    OBVIOUS
  <2> QED BY <1>2, <1>3, <2>1, <2>2 DEF StrictSubsetOrdering
<1> QED BY <1>4 DEF Least

\* The first open item names the operation.
LEMMA FirstIn == ASSUME NEW m \in Imports, Types, OpenItem(m) # {} PROVE First(m) \in OpenItem(m)
<1>1. OpenItem(m) \subseteq Nat
  BY InstanceAssumption DEF Types, OpenItem
<1> QED BY <1>1, LeastIn DEF First

\* Numbers, and the empty check and copy.
LEMMA Values ==
    /\ 0 \in Versions /\ 0 \in 0..MaxRev /\ None \notin Versions /\ None \in Read
    /\ Vacant \in Copies /\ NoCheck \in CheckType
<1>1. 0 \in Versions /\ 0 \in 0..MaxRev /\ None \notin Versions /\ None \in Read
  BY InstanceAssumption DEF Versions, None, Read
<1>2. Vacant \in Copies
  BY DEF Vacant, Copies, Nobody, Read
<1>3. NoCheck \in CheckType
  BY <1>1 DEF NoCheck, CheckType, Read, Preview
<1> QED BY <1>1, <1>2, <1>3

\* Nothing was previewed yet.
LEMMA InitHolds == Init => Inv
<1> SUFFICES ASSUME Init PROVE Inv
  OBVIOUS
<1>1. Types
  BY Values DEF Init, Types, Places, Read, Phases, Preview, Steps
<1>2. ASSUME NEW m \in Imports PROVE One(m)
  <2>1. ReviewFits(m) /\ LandedFits(m) /\ JournalFits(m)
    BY <1>2 DEF Init, InReview, ReviewFits, LandedFits, JournalFits, Preview, Waiting
  <2>2. ChoiceFits(m)
    BY <1>2 DEF Init, ChoiceFits, Waiting
  <2>3. CheckFits(m)
    BY <1>2, Values DEF Init, CheckFits, NoCheck, Askers
  <2> QED BY <2>1, <2>2, <2>3 DEF One
<1> QED BY <1>1, <1>2 DEF Inv

-----------------------------------------------------------------------------
(* What a step of one import leaves of the others. *)

\* All the catalog and the runner have of an import.
Own(m) == <<state[m], mode[m], rev[m], phase[m], evidence[m], excluded[m], chosen[m], landed[m],
            indexed[m], kind[m], item[m], attached[m], check[<<m, "check">>], check[<<m, "user">>],
            at[m]>>

\* What an import is depends on nothing else.
LEMMA OwnDecides == ASSUME NEW m \in Imports, One(m), UNCHANGED Own(m) PROVE One(m)'
<1>1. ReviewFits(m)' /\ ChoiceFits(m)' /\ LandedFits(m)'
  BY DEF Own, One, InReview, ReviewFits, ChoiceFits, LandedFits
<1>2. JournalFits(m)'
  <2>1. First(m)' = First(m)
    BY DEF Own, First, OpenItem
  <2> QED BY <2>1 DEF Own, One, JournalFits, PhaseOf
<1>3. CheckFits(m)'
  BY DEF Own, One, CheckFits, Askers
<1> QED BY <1>1, <1>2, <1>3 DEF One

\* So a step of one import has only to keep its own part.
LEMMA OneIsEnough ==
    ASSUME Inv, NEW m \in Imports, Types', One(m)',
           \A n \in Imports \ {m} : UNCHANGED Own(n)
    PROVE  Inv'
BY OwnDecides DEF Inv

-----------------------------------------------------------------------------
(* The steps of a run. *)

\* Where a run goes on, and where it ends.
DriveStep(m) ==
    \/ Open(m) \/ OpenOffline(m) \/ Advance(m) \/ PlanNothing(m) \/ PlanOffline(m) \/ Index(m)
    \/ Scan(m) \/ Collect(m) \/ End(m) \/ Retry(m) \/ Rerun(m) \/ Stop(m)
LEMMA DriveKeeps == ASSUME Inv, NEW m \in Imports, DriveStep(m) PROVE Inv'
<1> USE DEF DriveStep, Open, OpenOffline, Advance, PlanNothing, PlanOffline, Index, Scan,
            Collect, End, Retry, Rerun, Stop, Running, OnlyRun, ItemsIn, ToIndex, Online, Put,
            Goto, disks, preview, progress, landing, journal, runner, bounds
<1>0. Types /\ One(m)
  BY DEF Inv
<1>1. Types'
  <2>1. CASE Open(m)
    BY <1>0, <2>1 DEF Types, Places
  <2>2. CASE OpenOffline(m)
    BY <1>0, <2>2 DEF Types, Places
  <2>3. CASE Advance(m)
    BY <1>0, <2>3 DEF Types, Places
  <2>4. CASE PlanNothing(m)
    BY <1>0, <2>4 DEF Types, Places
  <2>5. CASE PlanOffline(m)
    BY <1>0, <2>5 DEF Types, Places
  <2>6. CASE Index(m)
    BY <1>0, <2>6 DEF Types, Places
  <2>7. CASE Scan(m)
    BY <1>0, <2>7 DEF Types, Places
  <2>8. CASE Collect(m)
    BY <1>0, <2>8 DEF Types, Places
  <2>9. CASE End(m)
    BY <1>0, <2>9 DEF Types, Places
  <2>10. CASE Retry(m)
    BY <1>0, <2>10 DEF Types, Places
  <2>11. CASE Rerun(m)
    BY <1>0, <2>11 DEF Types, Places
  <2>12. CASE Stop(m)
    BY <1>0, <2>12 DEF Types, Places
  <2> QED BY <2>1, <2>2, <2>3, <2>4, <2>5, <2>6, <2>7, <2>8, <2>9, <2>10, <2>11, <2>12
<1>2. ReviewFits(m)'
  BY <1>0 DEF One, Types, ReviewFits, InReview, Waiting
<1>3. ChoiceFits(m)'
  BY <1>0 DEF One, Types, ChoiceFits
<1>4. LandedFits(m)'
  BY <1>0 DEF One, Types, LandedFits
<1>5. JournalFits(m)'
  BY SMTT(30), <1>0 DEF One, Types, JournalFits, PhaseOf
<1>6. CheckFits(m)'
  BY ZenonT(60), <1>0 DEF One, Types, CheckFits, Askers
<1>7. \A n \in Imports \ {m} : UNCHANGED Own(n)
  BY <1>0 DEF Types, Own, Askers
<1> QED BY <1>1, <1>2, <1>3, <1>4, <1>5, <1>6, <1>7, OneIsEnough DEF One

\* The operation of what waits, and the items that name it.
PlanStep(m) ==
    \/ PlanTransfers(m) \/ PlanRetirements(m) \/ Attach(m)
LEMMA PlanKeeps == ASSUME Inv, NEW m \in Imports, PlanStep(m) PROVE Inv'
<1> USE DEF PlanStep, PlanTransfers, PlanRetirements, Attach, Running, Queued, ItemsIn, Put,
            Goto, disks, preview, progress, landing, journal, runner, bounds
<1>0. Types /\ One(m)
  BY DEF Inv
<1>1. Types'
  <2>1. CASE PlanTransfers(m)
    BY <1>0, <2>1 DEF Types, Places, Phases, Ended, Steps
  <2>2. CASE PlanRetirements(m)
    BY <1>0, <2>2 DEF Types, Places, Phases, Ended, Steps
  <2>3. CASE Attach(m)
    BY <1>0, <2>3 DEF Types, Places, Phases, Ended, Steps
  <2> QED BY <2>1, <2>2, <2>3
<1>2. ReviewFits(m)'
  BY <1>0 DEF One, Types, ReviewFits, InReview, Waiting
<1>3. ChoiceFits(m)'
  BY <1>0 DEF One, Types, ChoiceFits, Waiting
<1>4. LandedFits(m)'
  BY <1>0 DEF One, Types, LandedFits, Waiting, JournalFits
<1>5. JournalFits(m)'
  BY <1>0 DEF One, Types, JournalFits, PhaseOf
<1>6. CheckFits(m)'
  BY ZenonT(120), <1>0 DEF One, Types, CheckFits, Askers
<1>7. \A n \in Imports \ {m} : UNCHANGED Own(n)
  BY <1>0 DEF Types, Own, Askers
<1> QED BY <1>1, <1>2, <1>3, <1>4, <1>5, <1>6, <1>7, OneIsEnough DEF One

\* What the journal says of the attached items, recorded.
LEMMA TakeKeeps == ASSUME Inv, NEW m \in Imports, Take(m) PROVE Inv'
<1> USE DEF Take, Running, Put, Goto, disks, preview, runner, bounds
<1> DEFINE ended == {f \in attached[m] : item[m][f] \in Outcomes}
           now   == LandedNow(m)
<1>0. Types /\ One(m)
  BY DEF Inv
<1>a. /\ at[m] = "take" /\ ~InReview(m)
      /\ now \subseteq Files /\ landed'[m] = now /\ landed[m] \subseteq now
      /\ \A f \in now \ landed[m] : f \in attached[m] /\ HasLanded(m, f)
      /\ \A f \in attached[m] : HasLanded(m, f) => f \in now
      /\ attached'[m] = attached[m] \ ended /\ UNCHANGED <<item, kind, mode, evidence>>
  BY <1>0 DEF Types, One, ReviewFits, LandedNow
<1>b. \A f \in Files \ ended : phase'[m][f] = phase[m][f]
  BY <1>0 DEF Types
<1>c. \A f \in ended : /\ phase'[m][f] = SettledPhase(m, f, item[m][f], f \in now)
                       /\ f \in Files /\ item[m][f] \in Outcomes /\ f \in attached[m]
  BY <1>0 DEF Types
\* It goes on waiting only when an unmount stopped it, with its copy or without.
<1>d. \A f \in ended :
         /\ phase'[m][f] \in {"pending", "landed", "sourceKept", "failed", "copied", "moved", "uncertain"}
         /\ phase'[m][f] = "pending" => f \notin now
         /\ phase'[m][f] = "landed" => f \in now /\ item[m][f] = "gone"
         /\ phase'[m][f] = "sourceKept" => f \in now \/ item[m][f] = "sourceKept"
         /\ phase'[m][f] \in {"copied", "moved"} => phase'[m][f] = item[m][f]
  BY <1>c DEF SettledPhase, Outcomes
<1> HIDE DEF ended, now
<1>1. Types'
  <2>1. phase' \in [Imports -> [Files -> Phases]]
    <3>1. \A f \in Files : phase'[m][f] \in Phases
      <4>1. \A f \in Files \ ended : phase'[m][f] \in Phases
        BY <1>0, <1>b DEF Types
      <4>2. \A f \in ended : phase'[m][f] \in Phases
        BY <1>d DEF Phases, Waiting, Ended
      <4> QED BY <4>1, <4>2
    <3>2. DOMAIN phase'[m] = Files /\ phase' = [phase EXCEPT ![m] = phase'[m]]
      BY <1>0 DEF Types
    <3>3. phase'[m] = [f \in Files |-> phase'[m][f]]
      BY <1>0 DEF Types
    <3>4. phase'[m] \in [Files -> Phases]
      BY <3>1, <3>3
    <3> QED BY <1>0, <3>2, <3>4 DEF Types
  <2>2. landed' \in [Imports -> SUBSET Files] /\ attached' \in [Imports -> SUBSET Files]
    BY <1>0, <1>a DEF Types, LandedNow
  <2>3. at' \in [Imports -> Places]
    BY <1>0 DEF Types, Places
  <2> QED BY <1>0, <2>1, <2>2, <2>3 DEF Types
<1>2. ReviewFits(m)'
  <2>1. state' = state /\ at'[m] # "idle" /\ InReview(m)' = InReview(m)
    BY <1>0 DEF Types, InReview
  <2>2. \A f \in ended : phase[m][f] \in Waiting
    BY <1>0, <1>c DEF One, JournalFits, PhaseOf, Waiting
  <2>3. state[m] = "settled" => ended = {}
    BY <1>0, <1>c, <2>2 DEF One, ReviewFits
  <2> QED BY SMTT(30), <1>0, <1>a, <1>b, <1>d, <2>1, <2>3 DEF One, ReviewFits
<1>3. ChoiceFits(m)'
  <2>1. \A f \in ended : phase[m][f] \in Waiting
    BY <1>0, <1>c DEF One, JournalFits, PhaseOf, Waiting
  <2>2. excluded' = excluded /\ chosen' = chosen /\ excluded[m] \subseteq Files
    BY <1>0 DEF Types
  <2>3. \A f \in excluded[m] : phase'[m][f] = "excluded"
    BY <1>0, <1>b, <2>1, <2>2 DEF One, ChoiceFits, Waiting
  <2>4. \A f \in Files : phase'[m][f] \in {"ready"} \cup Waiting => evidence'[m][f] # None
    BY <1>0, <1>a, <1>b, <2>1 DEF One, ChoiceFits
  <2> QED BY <1>0, <2>2, <2>3, <2>4 DEF One, ChoiceFits
<1>4. LandedFits(m)'
  <2>1. \A f \in ended : phase[m][f] \in Waiting
    BY <1>0, <1>c DEF One, JournalFits, PhaseOf, Waiting
  <2>2. indexed'[m] \subseteq landed'[m]
    BY <1>0, <1>a DEF One, LandedFits
  <2>3. ASSUME NEW f \in Files, phase'[m][f] \in {"landed", "copied", "moved", "sourceKept"}
        PROVE  f \in landed'[m]
    BY SMTT(30), <1>0, <1>a, <1>b, <1>c, <1>d, <2>3 DEF One, LandedFits, HasLanded
  <2>4. ASSUME NEW f \in landed'[m], phase'[m][f] \in Waiting
        PROVE  mode'[m] = "move"
    <3>1. CASE f \in ended
      <4>1. item[m][f] = "gone" /\ f \in now
        BY <1>a, <1>d, <2>4, <3>1 DEF Waiting
      <4>2. f \in landed[m]
        BY <1>a, <4>1 DEF HasLanded, Verified
      <4> QED BY <1>0, <1>a, <2>1, <3>1, <4>2 DEF One, LandedFits
    <3>2. CASE f \notin ended
      BY <1>0, <1>a, <1>b, <2>4, <3>2 DEF Types, One, LandedFits, JournalFits, HasLanded, Verified,
         Outcomes, ended
    <3> QED BY <3>1, <3>2
  <2>5. ASSUME NEW f \in landed'[m], phase'[m][f] = "pending"
        PROVE  f \in attached'[m] /\ item'[m][f] \notin {"pending", "installed"}
    <3>1. f \notin ended
      BY <1>a, <1>d, <2>5
    <3> QED BY <1>0, <1>a, <1>b, <2>5, <3>1 DEF Types, One, LandedFits, HasLanded, Verified
  <2> QED BY <2>2, <2>3, <2>4, <2>5 DEF LandedFits
<1>5. JournalFits(m)'
  <2>1. at'[m] \in {"advance", "step", "index"}
    BY <1>0 DEF Types
  <2>2. \A f \in attached'[m] : f \in attached[m] /\ phase'[m][f] = phase[m][f]
    BY <1>0, <1>a, <1>b DEF Types
  <2> QED BY <1>0, <1>a, <2>1, <2>2 DEF One, JournalFits, PhaseOf
<1>6. CheckFits(m)'
  BY <1>0 DEF One, CheckFits, Askers
<1>7. \A n \in Imports \ {m} : UNCHANGED Own(n)
  BY <1>0 DEF Types, Own
<1> QED BY <1>1, <1>2, <1>3, <1>4, <1>5, <1>6, <1>7, OneIsEnough DEF One

-----------------------------------------------------------------------------
(* One step of the journal. *)

\* What is recorded of one item leaves the others.
LEMMA SetItemIs ==
    ASSUME Types, NEW m \in Imports, NEW f \in Files, NEW i \in Steps, SetItem(m, f, i)
    PROVE  /\ item' \in [Imports -> [Files -> Steps]]
           /\ item'[m][f] = i /\ \A g \in Files \ {f} : item'[m][g] = item[m][g]
           /\ \A n \in Imports \ {m} : item'[n] = item[n]
           /\ UNCHANGED <<kind, attached>>
<1>1. item' = [item EXCEPT ![m] = [item[m] EXCEPT ![f] = i]]
  BY DEF SetItem
<1>2. item[m] \in [Files -> Steps]
  BY DEF Types
<1>3. [item[m] EXCEPT ![f] = i] \in [Files -> Steps]
  BY <1>2
<1> QED BY <1>1, <1>2, <1>3 DEF Types, SetItem

\* A step records one state of the first open item and goes on, or goes on to
\* move the source it recorded the intent of.
LEMMA ItemKeeps ==
    ASSUME Inv, NEW m \in Imports, NEW i \in Steps \ {"none", "pending"},
           NEW where \in {"advance", "retire"},
           First(m) \in OpenItem(m), at[m] # "idle", SetItem(m, First(m), i),
           i \in {"verified", "retiring"} => mode[m] = "move",
           i = "installed" => item[m][First(m)] = "pending",
           Goto(m, where), where = "retire" => i = "retiring",
           OnlyItem, source' \in [Files -> Read], dest' \in [Files -> Copies],
           UNCHANGED <<sourceUp, destUp>>
    PROVE  Inv'
<1> USE DEF OnlyItem, Put, Goto, preview, progress, landing, runner, bounds
<1>0. Types /\ One(m)
  BY DEF Inv
<1>a. First(m) \in attached[m] /\ First(m) \in Files /\ item[m][First(m)] \notin Outcomes
  BY <1>0 DEF Types, OpenItem
<1>b. /\ item' \in [Imports -> [Files -> Steps]]
      /\ item'[m][First(m)] = i /\ \A g \in Files \ {First(m)} : item'[m][g] = item[m][g]
      /\ \A n \in Imports \ {m} : item'[n] = item[n]
      /\ UNCHANGED <<kind, attached>>
  BY <1>0, <1>a, SetItemIs
<1>1. Types'
  BY <1>0, <1>b DEF Types, Places
<1>2. ReviewFits(m)' /\ ChoiceFits(m)'
  BY <1>0, <1>b DEF One, Types, ReviewFits, InReview, ChoiceFits
<1>3. LandedFits(m)'
  BY <1>0, <1>a, <1>b DEF One, Types, LandedFits
<1>4. JournalFits(m)'
  <2>1. \A f \in attached[m] :
           /\ item'[m][f] # "none" /\ phase'[m][f] = PhaseOf(m)'
           /\ item'[m][f] \in {"verified", "retiring"} => mode'[m] = "move"
    BY <1>0, <1>a, <1>b DEF One, Types, JournalFits, PhaseOf
  <2>2. CASE where = "retire"
    <3>1. OpenItem(m)' = OpenItem(m)
      BY <1>0, <1>a, <1>b, <2>2 DEF Types, OpenItem, Outcomes
    <3>2. First(m)' = First(m)
      BY <3>1 DEF First
    <3> QED BY <1>0, <1>a, <1>b, <2>1, <2>2, <3>2 DEF Types, JournalFits
  <2>3. CASE where = "advance"
    BY <1>0, <1>b, <2>1, <2>3 DEF Types, JournalFits
  <2> QED BY <2>2, <2>3
<1>5. CheckFits(m)'
  BY <1>0 DEF One, CheckFits, Askers
<1>6. \A n \in Imports \ {m} : UNCHANGED Own(n)
  BY <1>0, <1>b DEF Types, Own
<1> QED BY <1>1, <1>2, <1>3, <1>4, <1>5, <1>6, OneIsEnough DEF One

\* The step of a journal that lands, verifies or retires one item.
LEMMA JournalStepKeeps ==
    ASSUME Inv, NEW m \in Imports,
           Land(m) \/ LandBlocked(m) \/ Verify(m) \/ RecordIntent(m) \/ ResumeRetiring(m)
    PROVE  Inv'
<1> USE DEF Stepping, Running
<1>0. Types /\ One(m) /\ First(m) \in OpenItem(m) /\ at[m] = "step"
      /\ First(m) \in Files /\ First(m) \in attached[m]
  BY FirstIn DEF Inv, Land, LandBlocked, Verify, RecordIntent, ResumeRetiring, Types, OpenItem
<1>1. CASE Land(m)
  <2>1. source' \in [Files -> Read] /\ dest' \in [Files -> Copies]
    <3>1. source[First(m)] \in Read
      BY <1>0 DEF Types
    <3> QED BY <1>0, <1>1, <3>1 DEF Land, Types, Copies
  <2> QED BY <1>0, <1>1, <2>1, ItemKeeps DEF Land, Steps
<1>2. CASE LandBlocked(m)
  <2>1. PICK i \in {"gone", "blocked"} : SetItem(m, First(m), i)
    BY <1>2 DEF LandBlocked
  <2>2. i \in Steps \ {"none", "pending"} /\ i \notin {"verified", "retiring", "installed"}
    BY <2>1 DEF Steps, Outcomes
  <2> QED BY <1>0, <1>2, <2>1, <2>2, ItemKeeps DEF LandBlocked, Types, disks
<1>3. CASE Verify(m)
  <2>1. PICK i \in {"copied", "verified", "gone", "blocked"} :
           SetItem(m, First(m), i) /\ (i = "verified" => mode[m] # "copy")
    BY <1>3 DEF Verify
  <2>2. i \in Steps \ {"none", "pending"} /\ i \notin {"retiring", "installed"}
    BY <2>1 DEF Steps, Outcomes
  <2>3. i = "verified" => mode[m] = "move"
    BY <1>0, <2>1, InstanceAssumption DEF One, ReviewFits
  <2> QED BY <1>0, <1>3, <2>1, <2>2, <2>3, ItemKeeps DEF Verify, Types, disks
<1>4. CASE RecordIntent(m)
  <2>1. mode[m] = "move"
    BY <1>0, <1>4 DEF RecordIntent, One, JournalFits, LandedFits, PhaseOf, Waiting
  <2> QED BY <1>0, <1>4, <2>1, ItemKeeps DEF RecordIntent, Types, disks, Steps
<1>5. CASE ResumeRetiring(m)
  <2>1. CASE Found(First(m)) = evidence[m][First(m)]
    <3> USE DEF ResumeRetiring, OnlyItem, Put, Goto, disks, preview, progress, landing, journal, runner,
                bounds
    <3>1. Types'
      BY <1>0, <1>5, <2>1 DEF Types, Places
    <3>2. ReviewFits(m)' /\ ChoiceFits(m)' /\ LandedFits(m)' /\ CheckFits(m)'
      BY ZenonT(60), <1>0, <1>5, <2>1
      DEF One, Types, ReviewFits, InReview, ChoiceFits, LandedFits, CheckFits, Askers
    <3>3. First(m)' = First(m)
      BY <1>5, <2>1 DEF First, OpenItem
    <3>4. JournalFits(m)'
      BY <1>0, <1>5, <2>1, <3>3 DEF One, Types, JournalFits, PhaseOf
    <3>5. \A n \in Imports \ {m} : UNCHANGED Own(n)
      BY <1>0, <1>5, <2>1 DEF Types, Own
    <3> QED BY <3>1, <3>2, <3>4, <3>5, OneIsEnough DEF One
  <2>2. CASE Found(First(m)) # evidence[m][First(m)]
    BY <1>0, <1>5, <2>2, ItemKeeps DEF ResumeRetiring, Types, disks, Steps, Outcomes
  <2> QED BY <2>1, <2>2
<1> QED BY <1>1, <1>2, <1>3, <1>4, <1>5

\* The source moves to the OS Trash, and the journal says what became of it.
LEMMA RetireKeeps ==
    ASSUME Inv, NEW m \in Imports, MoveToTrash(m) \/ KeepSource(m) \/ RecordMoved(m)
    PROVE  Inv'
<1> USE DEF Running
<1>0. Types /\ One(m) /\ First(m) \in OpenItem(m) /\ at[m] \in {"retire", "observe"}
      /\ First(m) \in Files /\ First(m) \in attached[m]
  BY DEF Inv, One, JournalFits, MoveToTrash, KeepSource, RecordMoved, Types, OpenItem, Outcomes
<1>1. CASE MoveToTrash(m)
  <2> USE DEF MoveToTrash, OnlyItem, Put, Goto, preview, progress, landing, journal, runner, bounds
  <2>1. Types'
    BY <1>0, <1>1, Values DEF Types, Places
  <2>2. ReviewFits(m)' /\ ChoiceFits(m)' /\ LandedFits(m)' /\ CheckFits(m)'
    BY ZenonT(60), <1>0, <1>1 DEF One, Types, ReviewFits, InReview, ChoiceFits, LandedFits, CheckFits, Askers
  <2>3. First(m)' = First(m)
    BY <1>1 DEF First, OpenItem
  <2>4. JournalFits(m)'
    BY <1>0, <1>1, <2>3 DEF One, Types, JournalFits, PhaseOf
  <2>5. \A n \in Imports \ {m} : UNCHANGED Own(n)
    BY <1>0, <1>1 DEF Types, Own
  <2> QED BY <2>1, <2>2, <2>4, <2>5, OneIsEnough DEF One
<1>2. CASE KeepSource(m)
  <2>1. PICK i \in {"gone", "blocked", "sourceKept"} : SetItem(m, First(m), i)
    BY <1>2 DEF KeepSource
  <2>2. i \in Steps \ {"none", "pending"} /\ i \notin {"verified", "retiring", "installed"}
    BY <2>1 DEF Steps, Outcomes
  <2> QED BY <1>0, <1>2, <2>1, <2>2, ItemKeeps DEF KeepSource, Types, disks
<1>3. CASE RecordMoved(m)
  BY <1>0, <1>3, ItemKeeps DEF RecordMoved, Types, disks, Steps, Outcomes
<1> QED BY <1>1, <1>2, <1>3

-----------------------------------------------------------------------------
(* The preview. *)

\* What a check must know of the import to be recorded as it is.
Fits(m, ask, c) ==
    /\ c.at # "none" => c.rev <= rev[m] /\ c.rev < MaxRev
    /\ c.at = "record" => \A f \in Files :
          /\ c.phase[f] = "ready" => c.evidence[f] # None
          /\ f \in c.excluded => c.phase[f] = "excluded"
    /\ ask = "check" /\ c.at # "none" /\ c.rev = rev[m] => c.excluded = excluded[m]

\* A step of a check changes nothing but the check.
LEMMA CheckKeeps ==
    ASSUME Inv, NEW m \in Imports, NEW ask \in Askers, NEW c \in CheckType, Fits(m, ask, c),
           check' = Put(check, <<m, ask>>, c),
           UNCHANGED <<disks, frame, preview, progress, landing, journal, at, runner, bounds>>
    PROVE  Inv'
<1> USE DEF disks, preview, progress, landing, journal, runner, bounds, Put
<1>0. Types /\ One(m) /\ <<m, ask>> \in Imports \X Askers
  BY DEF Inv
<1>1. check' \in [Imports \X Askers -> CheckType] /\ check'[<<m, ask>>] = c
      /\ \A n \in Imports, b \in Askers : <<n, b>> # <<m, ask>> => check'[<<n, b>>] = check[<<n, b>>]
  BY <1>0 DEF Types
<1>2. Types'
  BY <1>0, <1>1 DEF Types
<1>3. ReviewFits(m)' /\ ChoiceFits(m)' /\ LandedFits(m)'
  BY <1>0 DEF One, ReviewFits, InReview, ChoiceFits, LandedFits
<1>4. JournalFits(m)'
  <2>1. First(m)' = First(m)
    BY DEF First, OpenItem
  <2> QED BY <1>0, <2>1 DEF One, JournalFits, PhaseOf
<1>5. CheckFits(m)'
  BY <1>0, <1>1 DEF One, CheckFits, Fits, Askers
<1>6. \A n \in Imports \ {m} : UNCHANGED Own(n)
  BY <1>1 DEF Own, Askers
<1> QED BY <1>2, <1>3, <1>4, <1>5, <1>6, OneIsEnough DEF One

\* The two checks, the edit in review and the routing of what they read.
LEMMA CheckStepKeeps ==
    ASSUME Inv, NEW m \in Imports, NEW ask \in Askers,
           BeginCheck(m) \/ SecondCheck(m) \/ Exclude(m) \/ Route(m, ask) \/ PreviewConflict(m, ask)
    PROVE  Inv'
<1>0. /\ Types /\ One(m) /\ <<m, ask>> \in Imports \X Askers /\ "check" \in Askers /\ "user" \in Askers
      /\ \A b \in Askers : check[<<m, b>>] \in CheckType /\ Fits(m, b, check[<<m, b>>])
      /\ rev[m] \in Nat /\ seen[m] \in [Files -> Read] /\ evidence[m] \in [Files -> Read]
      /\ excluded[m] \subseteq Files
  <2>1. Types /\ One(m) /\ <<m, ask>> \in Imports \X Askers /\ "check" \in Askers /\ "user" \in Askers
    BY DEF Inv, Askers
  <2>2. \A b \in Askers : check[<<m, b>>] \in CheckType
    BY <2>1 DEF Types
  <2>3. \A b \in Askers : Fits(m, b, check[<<m, b>>])
    BY <2>1 DEF One, CheckFits, Fits
  <2> QED BY <2>1, <2>2, <2>3 DEF Types
<1>1. CASE BeginCheck(m)
  <2> DEFINE kept == [f \in Files |-> IF evidence[m][f] = source[f] THEN source[f] ELSE None]
             c == [NoCheck EXCEPT !.at = "second", !.rev = rev[m], !.excluded = excluded[m],
                     !.evidence = [f \in Files |->
                          IF kept[f] = None /\ seen[m][f] = source[f] THEN source[f] ELSE kept[f]],
                     !.seen = source]
  <2>1. rev[m] \in 0..MaxRev
    BY <1>0, <1>1, InstanceAssumption DEF BeginCheck
  <2>2. c \in CheckType
    BY <1>0, <2>1, Values DEF CheckType, NoCheck, Types, Read, Preview
  <2>3. Fits(m, "check", c)
    BY <1>0, <1>1 DEF Fits, NoCheck, BeginCheck
  <2>4. check' = Put(check, <<m, "check">>, c)
    BY <1>1 DEF BeginCheck
  <2> HIDE DEF c
  <2> QED BY <1>0, <1>1, <2>2, <2>3, <2>4, CheckKeeps DEF BeginCheck
<1>2. CASE SecondCheck(m)
  <2> DEFINE b == check[<<m, "check">>]
             c == [b EXCEPT !.at = "route",
                     !.evidence = [f \in Files |->
                          IF b.evidence[f] # None THEN b.evidence[f]
                          ELSE IF Held(b.seen[f], Found(f)) THEN Found(f) ELSE None],
                     !.seen = [f \in Files |-> IF b.evidence[f] # None THEN b.seen[f] ELSE Found(f)]]
  <2>1. \A f \in Files : Found(f) \in Read
    BY <1>0, Values DEF Found, Types
  <2>2. b \in CheckType /\ b.at = "second" /\ Fits(m, "check", b)
    BY SMTT(30), <1>0, <1>2 DEF SecondCheck
  <2> HIDE DEF b
  <2>3. c \in CheckType
    BY <2>1, <2>2, Values DEF CheckType, Read
  <2>4. Fits(m, "check", c)
    BY <2>2 DEF Fits, CheckType
  <2>5. check' = Put(check, <<m, "check">>, c)
    BY <1>2 DEF SecondCheck, b
  <2> HIDE DEF c
  <2> QED BY <1>0, <1>2, <2>3, <2>4, <2>5, CheckKeeps DEF SecondCheck
<1>3. CASE Exclude(m)
  <2>1. PICK f \in Files :
           check' = Put(check, <<m, "user">>,
            [NoCheck EXCEPT !.at = "route", !.rev = rev[m], !.seen = seen[m],
               !.evidence = evidence[m],
               !.excluded = IF f \in excluded[m] THEN excluded[m] \ {f} ELSE excluded[m] \cup {f}])
    BY <1>3 DEF Exclude
  <2> DEFINE c == [NoCheck EXCEPT !.at = "route", !.rev = rev[m], !.seen = seen[m],
               !.evidence = evidence[m],
               !.excluded = IF f \in excluded[m] THEN excluded[m] \ {f} ELSE excluded[m] \cup {f}]
  <2>2. rev[m] \in 0..MaxRev /\ rev[m] < MaxRev
    <3>1. rev[m] < MaxRev
      BY <1>3 DEF Exclude
    <3> QED BY <1>0, <3>1, InstanceAssumption
  <2>3. c \in CheckType
    BY <1>0, <2>2 DEF CheckType, NoCheck, Read, Preview
  <2>4. Fits(m, "user", c)
    BY <1>0, <2>2 DEF Fits, NoCheck
  <2>5. check' = Put(check, <<m, "user">>, c)
    BY <2>1
  <2> HIDE DEF c
  <2> QED BY <1>0, <1>3, <2>3, <2>4, <2>5, CheckKeeps DEF Exclude
<1>4. CASE Route(m, ask)
  <2> DEFINE b == check[<<m, ask>>]
             c == [b EXCEPT !.at = "record", !.phase = [f \in Files |-> Routed(m, f, b)]]
  <2>1. b \in CheckType /\ b.at = "route" /\ Fits(m, ask, b)
    BY <1>0, <1>4 DEF Route
  <2>2. check' = Put(check, <<m, ask>>, c)
    BY <1>4 DEF Route
  <2> HIDE DEF b
  <2>3. \A f \in Files :
           /\ Routed(m, f, b) \in Preview
           /\ Routed(m, f, b) = "ready" => b.evidence[f] # None
           /\ f \in b.excluded => Routed(m, f, b) = "excluded"
    BY DEF Routed, Preview
  <2>4. c \in CheckType
    BY <2>1, <2>3 DEF CheckType
  <2>5. Fits(m, ask, c)
    BY <2>1, <2>3 DEF Fits, CheckType
  <2> HIDE DEF c
  <2> QED BY <1>0, <1>4, <2>2, <2>4, <2>5, CheckKeeps DEF Route
<1>5. CASE PreviewConflict(m, ask)
  <2>1. Fits(m, ask, NoCheck)
    BY DEF Fits, NoCheck
  <2> QED BY <1>0, <1>5, <2>1, Values, CheckKeeps DEF PreviewConflict
<1> QED BY <1>1, <1>2, <1>3, <1>4, <1>5

\* A revision of the preview replaces every item; no other check that began
\* from an older one can do so after it.
LEMMA RecordKeeps == ASSUME Inv, NEW m \in Imports, NEW ask \in Askers, RecordPreview(m, ask) PROVE Inv'
<1> USE DEF RecordPreview, Current, Put, disks, landing, journal, runner, bounds
<1>c. PICK c : c = check[<<m, ask>>]
  OBVIOUS
<1>0. Types /\ One(m) /\ <<m, ask>> \in Imports \X Askers /\ c \in CheckType /\ InReview(m)
  BY <1>c DEF Inv, Types, InReview
<1>1. /\ check' \in [Imports \X Askers -> CheckType] /\ check'[<<m, ask>>] = NoCheck
      /\ \A n \in Imports, b \in Askers : <<n, b>> # <<m, ask>> => check'[<<n, b>>] = check[<<n, b>>]
  BY <1>0, Values DEF Types
<1>2. /\ excluded'[m] = c.excluded /\ evidence'[m] = c.evidence /\ phase'[m] = c.phase
      /\ state'[m] = "previewed" /\ rev'[m] = rev[m] + 1
      /\ chosen'[m] = IF ask = "user" THEN c.excluded ELSE chosen[m]
      /\ c.rev = rev[m] /\ c.at = "record"
  BY <1>c, <1>0 DEF Types
<1>3. Types'
  <2>1. c.seen \in [Files -> Read] /\ c.evidence \in [Files -> Read] /\ c.excluded \in SUBSET Files
        /\ c.phase \in [Files -> Phases]
    BY <1>0 DEF CheckType, Read, Phases
  <2>2. seen' \in [Imports -> [Files -> Read]] /\ evidence' \in [Imports -> [Files -> Read]]
        /\ excluded' \in [Imports -> SUBSET Files] /\ chosen' \in [Imports -> SUBSET Files]
        /\ phase' \in [Imports -> [Files -> Phases]]
    BY <1>0, <1>c, <2>1 DEF Types
  <2>3. state' \in [Imports -> {"none", "previewed", "running", "interrupted", "settled"}]
        /\ rev' \in [Imports -> Nat]
    BY <1>0 DEF Types
  <2> QED BY <1>0, <1>1, <2>2, <2>3 DEF Types
<1>4. ReviewFits(m)'
  BY <1>0, <1>2 DEF One, ReviewFits, InReview, CheckType
<1>5. ChoiceFits(m)'
  <2>1. c.excluded = chosen'[m]
    BY <1>c, <1>0, <1>2 DEF One, CheckFits, ChoiceFits, Askers
  <2>2. \A f \in Files : c.phase[f] \notin Waiting
    BY <1>0 DEF CheckType, Preview, Waiting
  <2>3. c.excluded \subseteq Files
    BY <1>0 DEF CheckType
  <2>4. \A f \in Files : /\ f \in c.excluded => c.phase[f] = "excluded"
                         /\ c.phase[f] = "ready" => c.evidence[f] # None
    BY <1>c, <1>0, <1>2 DEF One, CheckFits
  <2>5. /\ excluded'[m] = chosen'[m] /\ \A f \in excluded'[m] : phase'[m][f] = "excluded"
    BY <1>2, <2>1, <2>3, <2>4
  <2>6. \A f \in Files : phase'[m][f] \in {"ready"} \cup Waiting => evidence'[m][f] # None
    BY <1>2, <2>2, <2>4
  <2> QED BY <2>5, <2>6 DEF ChoiceFits
<1>6. LandedFits(m)'
  BY ZenonT(60), <1>0, <1>2 DEF Types, One, ReviewFits, LandedFits, CheckType, Preview
<1>7. JournalFits(m)'
  BY <1>0 DEF One, ReviewFits, JournalFits
<1>8. CheckFits(m)'
  <2>1. \A b \in Askers : b # ask => check'[<<m, b>>] = check[<<m, b>>]
    BY <1>1
  <2>2. rev[m] \in Nat /\ rev'[m] = rev[m] + 1 /\ \A b \in Askers : check[<<m, b>>].rev \in Int
    BY <1>0, <1>2, InstanceAssumption DEF Types, CheckType
  <2>3. NoCheck.at = "none"
    BY DEF NoCheck
  <2> DEFINE d(b) == check[<<m, b>>]
             e(b) == check'[<<m, b>>]
  <2>4. ASSUME NEW b \in Askers, e(b).at # "none"
        PROVE  e(b) = d(b) /\ e(b).rev < rev'[m] /\ e(b).rev < MaxRev
               /\ (e(b).at = "record" => \A f \in Files :
                        /\ e(b).phase[f] = "ready" => e(b).evidence[f] # None
                        /\ f \in e(b).excluded => e(b).phase[f] = "excluded")
    <3>1. e(b) = d(b)
      BY <1>1, <2>1, <2>3, <2>4
    <3>2. d(b).rev <= rev[m] /\ d(b).rev < MaxRev
      BY <1>0, <2>4, <3>1 DEF One, CheckFits
    <3>3. d(b).at = "record" => \A f \in Files :
             /\ d(b).phase[f] = "ready" => d(b).evidence[f] # None
             /\ f \in d(b).excluded => d(b).phase[f] = "excluded"
      BY <1>0 DEF One, CheckFits
    <3> HIDE DEF d, e
    <3> QED BY <2>2, <3>1, <3>2, <3>3 DEF d
  <2>5. "check" \in Askers
    BY DEF Askers
  <2>6. \A b \in Askers : e(b).rev < rev'[m] \/ e(b).at = "none"
    BY <2>4
  <2>7. e("check").at # "none" => e("check").rev # rev'[m]
    <3>1. e("check").at # "none" => e("check").rev \in Int /\ e("check").rev < rev'[m]
      BY <2>2, <2>4, <2>5
    <3> QED BY <2>2, <3>1
  <2> QED BY <2>2, <2>4, <2>5, <2>7 DEF CheckFits
<1>9. \A n \in Imports \ {m} : UNCHANGED Own(n)
  BY <1>0, <1>1 DEF Types, Own, Askers
<1> QED BY <1>3, <1>4, <1>5, <1>6, <1>7, <1>8, <1>9, OneIsEnough DEF One

\* What is Ready is approved, and nothing else.
LEMMA StartKeeps == ASSUME Inv, NEW m \in Imports, Start(m) PROVE Inv'
<1> USE DEF Start, Put, Goto, disks, landing, journal, runner, bounds
<1>0. Types /\ One(m) /\ InReview(m)
  BY DEF Inv, InReview
<1>1. /\ state'[m] = "running" /\ mode'[m] \in Modes /\ rev'[m] = rev[m] + 1 /\ at'[m] = "open"
      /\ \A f \in Files : phase'[m][f] = IF phase[m][f] = "ready" THEN "pending" ELSE phase[m][f]
  BY <1>0 DEF Types
<1>2. Types'
  <2>1. phase' \in [Imports -> [Files -> Phases]]
    BY <1>0 DEF Types, Phases, Waiting
  <2>2. mode' \in [Imports -> Modes \cup {"none"}] /\ rev' \in [Imports -> Nat]
        /\ state' \in [Imports -> {"none", "previewed", "running", "interrupted", "settled"}]
        /\ at' \in [Imports -> Places]
    BY <1>0 DEF Types, Places
  <2> QED BY <1>0, <2>1, <2>2 DEF Types
<1>3. ReviewFits(m)'
  BY <1>0, <1>1 DEF One, ReviewFits, InReview
<1>4. ChoiceFits(m)'
  BY <1>0, <1>1 DEF Types, One, ChoiceFits, Waiting
<1>5. LandedFits(m)'
  BY <1>0, <1>1 DEF Types, One, ReviewFits, LandedFits, Preview
<1>6. JournalFits(m)'
  BY <1>0, <1>1 DEF One, ReviewFits, JournalFits
<1>7. CheckFits(m)'
  <2>1. rev[m] \in Nat /\ \A b \in Askers : check[<<m, b>>].rev \in Int
    BY <1>0, InstanceAssumption DEF Types, CheckType
  <2> QED BY <1>0, <1>1, <2>1 DEF One, CheckFits, Askers
<1>8. \A n \in Imports \ {m} : UNCHANGED Own(n)
  BY <1>0 DEF Types, Own
<1> QED BY <1>2, <1>3, <1>4, <1>5, <1>6, <1>7, <1>8, OneIsEnough DEF One

-----------------------------------------------------------------------------
(* The world outside, and every step. *)

\* The outside changes the disks and nothing the catalog has of an import.
LEMMA OutsideKeeps == ASSUME Inv, Changed \/ Mount PROVE Inv'
<1> USE DEF Changed, EditSource, DeleteSource, UnmountSource, UnmountDest, Occupy, ChangeCopy, Mount,
            Outside, preview, progress, landing, journal, runner, bounds
<1>1. Types'
  <2>0. Types
    BY DEF Inv
  <2>1. CASE EditSource
    <3>1. PICK f \in Files : /\ source[f] \in 0..(MaxEdits - 1)
                            /\ source' = [source EXCEPT ![f] = source[f] + 1]
      BY <2>1
    <3>2. source[f] + 1 \in Read
      BY <3>1, InstanceAssumption DEF Read, Versions
    <3> HIDE DEF EditSource
    <3>3. /\ UNCHANGED <<sourceUp, destUp, dest, preview, progress, landing, journal, check, at>>
          /\ changes' = changes + 1
      BY <2>1 DEF EditSource
    <3> QED BY <2>0, <3>1, <3>2, <3>3 DEF Types
  <2>2. CASE DeleteSource
    BY <2>0, <2>2, Values DEF Types
  <2>3. CASE UnmountSource \/ UnmountDest \/ Mount
    <3>1. sourceUp' \in BOOLEAN /\ destUp' \in BOOLEAN /\ changes' \in Nat /\ UNCHANGED <<source, dest>>
      <4>1. CASE UnmountSource
        <5>1. UNCHANGED <<destUp, source, dest>> /\ changes' = changes + 1
          BY <4>1
        <5>2. sourceUp' \in BOOLEAN
          BY <4>1, Zenon
        <5> QED BY <2>0, <5>1, <5>2 DEF Types
      <4>2. CASE UnmountDest
        <5>1. UNCHANGED <<sourceUp, source, dest>> /\ changes' = changes + 1
          BY <4>2
        <5>2. destUp' \in BOOLEAN
          BY <4>2, Zenon
        <5> QED BY <2>0, <5>1, <5>2 DEF Types
      <4>3. CASE Mount
        BY <2>0, <4>3 DEF Types
      <4> QED BY <2>3, <4>1, <4>2, <4>3
    <3> QED BY <2>0, <2>3, <3>1 DEF Types
  <2>4. CASE Occupy
    <3>1. PICK f \in Files, v \in Versions : dest' = [dest EXCEPT ![f] = [by |-> "user", version |-> v]]
      BY <2>4
    <3>2. [by |-> "user", version |-> v] \in Copies
      BY DEF Copies, Read
    <3> QED BY <2>0, <2>4, <3>1, <3>2 DEF Types
  <2>5. CASE ChangeCopy
    <3>1. PICK f \in Files : dest' \in {[dest EXCEPT ![f] = Vacant],
                                     [dest EXCEPT ![f] = [by |-> "user", version |-> None]]}
      BY <2>5
    <3>2. [by |-> "user", version |-> None] \in Copies
      BY Values DEF Copies
    <3>3. dest' \in [Files -> Copies]
      BY ZenonT(60), <2>0, <3>1, <3>2, Values DEF Types
    <3>4. UNCHANGED <<source, sourceUp, destUp>> /\ changes' \in Nat
      BY <2>0, <2>5 DEF Types
    <3> QED BY <2>0, <2>5, <3>3, <3>4 DEF Types
  <2> QED BY <2>1, <2>2, <2>3, <2>4, <2>5
<1>2. ASSUME NEW n \in Imports PROVE One(n)'
  BY OwnDecides DEF Inv, Own
<1> QED BY <1>1, <1>2 DEF Inv

\* Every step keeps the invariant.
LEMMA NextKeeps == Inv /\ [Next]_vars => Inv'
<1> SUFFICES ASSUME Inv, [Next]_vars PROVE Inv'
  OBVIOUS
<1>1. ASSUME NEW m \in Imports, PreviewStep(m) \/ Start(m) PROVE Inv'
  <2>1. "check" \in Askers
    BY DEF Askers
  <2> QED BY <1>1, <2>1, CheckStepKeeps, RecordKeeps, StartKeeps DEF PreviewStep
<1>2. ASSUME NEW m \in Imports, Run(m) \/ Retry(m) \/ Rerun(m) \/ Stop(m) PROVE Inv'
  BY <1>2, DriveKeeps, PlanKeeps, TakeKeeps, JournalStepKeeps, RetireKeeps DEF Run, DriveStep, PlanStep
<1>3. CASE UNCHANGED vars
  <2>1. Types'
    BY <1>3 DEF Inv, Types, vars
  <2>2. ASSUME NEW n \in Imports PROVE One(n)'
    BY <1>3, OwnDecides DEF Inv, Own, vars
  <2> QED BY <2>1, <2>2 DEF Inv
<1> QED BY <1>1, <1>2, <1>3, OutsideKeeps DEF Next

\* So it holds of every run.
LEMMA InvHolds == Spec => []Inv
<1> QED BY InitHolds, NextKeeps, PTL DEF Spec

-----------------------------------------------------------------------------
(* Who writes at a destination, and who takes a source. *)

\* A run writes only where it lands, and takes only what it retires.
LEMMA WritesOnly ==
    ASSUME Next
    PROVE  /\ UNCHANGED dest \/ (\E m \in Imports : Land(m)) \/ changes' = changes + 1
           /\ UNCHANGED source \/ (\E m \in Imports : MoveToTrash(m)) \/ changes' = changes + 1
<1> USE DEF disks, journal, runner, bounds
<1>1. ASSUME NEW m \in Imports, PreviewStep(m) \/ Start(m) PROVE UNCHANGED <<source, dest>>
  BY <1>1 DEF PreviewStep, BeginCheck, SecondCheck, Exclude, Route, RecordPreview, PreviewConflict, Start
<1>2. ASSUME NEW m \in Imports, DriveStep(m) \/ PlanStep(m) \/ Take(m) PROVE UNCHANGED <<source, dest>>
  BY <1>2 DEF DriveStep, Open, OpenOffline, Advance, PlanNothing, PlanOffline, Index, Scan, Collect,
     End, Retry, Rerun, Stop, OnlyRun, PlanStep, PlanTransfers, PlanRetirements, Attach, Take
<1>3. ASSUME NEW m \in Imports,
             LandBlocked(m) \/ Verify(m) \/ RecordIntent(m) \/ ResumeRetiring(m) \/ KeepSource(m)
             \/ RecordMoved(m)
      PROVE  UNCHANGED <<source, dest>>
  BY <1>3 DEF LandBlocked, Verify, RecordIntent, ResumeRetiring, KeepSource, RecordMoved
<1>4. ASSUME NEW m \in Imports, Land(m) PROVE UNCHANGED source
  BY <1>4 DEF Land
<1>5. ASSUME NEW m \in Imports, MoveToTrash(m) PROVE UNCHANGED dest
  BY <1>5 DEF MoveToTrash
<1>6. Changed => changes' = changes + 1
  BY DEF Changed, EditSource, DeleteSource, UnmountSource, UnmountDest, Occupy, ChangeCopy, Outside
<1>7. Mount => UNCHANGED <<source, dest>>
  BY DEF Mount
<1> QED BY <1>1, <1>2, <1>3, <1>4, <1>5, <1>6, <1>7 DEF Next, Run, DriveStep, PlanStep

\* What lands had not landed, and stands where nothing stood.
LEMMA LandIsFirst ==
    ASSUME Inv, NEW m \in Imports, Land(m)
    PROVE  /\ First(m) \in Files /\ First(m) \notin landed[m] /\ dest[First(m)] = Vacant
           /\ dest' = [dest EXCEPT ![First(m)] = [by |-> m, version |-> source[First(m)]]]
<1>1. First(m) \in attached[m] /\ First(m) \in Files
  BY FirstIn DEF Inv, Types, Land, Stepping, OpenItem
<1>2. kind[m] = "transfer" /\ item[m][First(m)] = "pending"
  BY DEF Land
<1>3. First(m) \notin landed[m]
  BY <1>1, <1>2 DEF Inv, One, JournalFits, LandedFits, PhaseOf
<1> QED BY <1>1, <1>3 DEF Land, Unoccupied

\* What leaves is what was reviewed, of a Move that holds its whole copy.
LEMMA RetiredIsHeld ==
    ASSUME Inv, NEW m \in Imports, MoveToTrash(m)
    PROVE  LET f == First(m) IN
           /\ f \in Files /\ source' = [source EXCEPT ![f] = None]
           /\ mode[m] = "move" /\ f \notin chosen[m] /\ destUp
           /\ evidence[m][f] = source[f] /\ dest[f] = [by |-> m, version |-> source[f]]
<1> DEFINE f == First(m)
<1>1. f \in attached[m] /\ f \in Files /\ item[m][f] = "retiring"
  BY DEF Inv, Types, One, JournalFits, MoveToTrash, Running
<1>2. mode[m] = "move" /\ phase[m][f] \in Waiting
  BY <1>1 DEF Inv, One, JournalFits, PhaseOf, Waiting
<1>3. evidence[m][f] # None /\ f \notin chosen[m]
  BY <1>1, <1>2 DEF Inv, One, ChoiceFits, Waiting
<1>4. destUp /\ WholeCopy(m, f) /\ Found(f) = evidence[m][f] /\ source' = [source EXCEPT ![f] = None]
  BY DEF MoveToTrash, Retirable
<1>5. source[f] = evidence[m][f]
  BY <1>3, <1>4 DEF Found
<1> QED BY <1>1, <1>2, <1>3, <1>4, <1>5 DEF WholeCopy

-----------------------------------------------------------------------------
(* The theorems. *)

\* Every record is of the kind its reader expects: an attached item is one of
\* its operation's, and only a started import is at work (`revise_import`,
\* `journal_changes`, `queue`).
THEOREM TypeCorrect == Spec => []TypeOK
<1>1. ASSUME Inv PROVE TypeOK
  <2>1. \A m \in Imports :
          /\ attached[m] \subseteq {f \in Files : item[m][f] # "none"}
          /\ attached[m] \subseteq ItemsIn(m, IF kind[m] = "trash" THEN {"landed"} ELSE {"pending"})
    BY <1>1 DEF Inv, Types, One, JournalFits, PhaseOf, ItemsIn
  <2>2. \A m \in Imports :
          indexed[m] \cup ItemsIn(m, {"landed", "copied", "moved", "sourceKept"}) \subseteq landed[m]
    BY <1>1 DEF Inv, One, LandedFits, ItemsIn
  <2>3. \A m \in Imports :
          /\ at[m] # "idle" => state[m] \in {"running", "interrupted"}
          /\ state[m] = "settled" => ItemsIn(m, Waiting \cup {"ready"}) = {}
    BY <1>1 DEF Inv, Types, One, ReviewFits, InReview, ItemsIn
  <2> QED BY <1>1, <2>1, <2>2, <2>3 DEF Inv, Types, TypeOK, Read, Copies, Phases
<1> QED BY <1>1, InvHolds, PTL

\* `revise_import` refuses a revision that moved on: what the user left out
\* last is left out, for any number of checks under way and edits in review.
THEOREM ChoiceAlwaysStands == Spec => []ChoiceStands
<1>1. Inv => ChoiceStands
  BY DEF Inv, One, ChoiceFits, ChoiceStands
<1> QED BY <1>1, InvHolds, PTL

\* `move_noreplace` and `mark_landed`: a file lands where nothing stands, and
\* once for an import, across any stops, unmounts and retries.
THEOREM LandsOnlyOnce == Spec => LandsOnce
<1> DEFINE Once == \A f \in Files :
        changes' = changes /\ dest'[f] # dest[f] =>
            \E m \in Imports : /\ dest[f] = Vacant /\ dest'[f] = [by |-> m, version |-> source[f]]
                              /\ f \notin landed[m]
<1>1. Inv /\ [Next]_vars => [Once]_vars
  <2> SUFFICES ASSUME Inv, Next, NEW f \in Files, changes' = changes, dest'[f] # dest[f]
               PROVE  \E m \in Imports :
                         /\ dest[f] = Vacant /\ dest'[f] = [by |-> m, version |-> source[f]]
                         /\ f \notin landed[m]
    OBVIOUS
  <2>1. changes' # changes + 1
    BY DEF Inv, Types
  <2>2. PICK m \in Imports : Land(m)
    BY <2>1, WritesOnly
  <2>3. f = First(m)
    BY <2>2, LandIsFirst DEF Inv, Types
  <2>4. dest'[f] = [by |-> m, version |-> source[f]]
    BY <2>2, <2>3, LandIsFirst DEF Inv, Types
  <2> QED BY <2>2, <2>3, <2>4, LandIsFirst
<1> QED BY <1>1, InvHolds, PTL DEF Spec, LandsOnce

\* `retire` proves the copy and the source once more: a source file leaves its
\* folder only to a Move that was reviewed with these bytes and holds them.
THEOREM SourceLeaves == Spec => SourceLeavesForCopy
<1> DEFINE Leaves == \A f \in Files :
        changes' = changes /\ source'[f] # source[f] =>
            \E m \in Imports :
                /\ mode[m] = "move" /\ f \notin chosen[m]
                /\ destUp /\ dest[f] = [by |-> m, version |-> source[f]]
                /\ evidence[m][f] = source[f]
<1>1. Inv /\ [Next]_vars => [Leaves]_vars
  <2> SUFFICES ASSUME Inv, Next, NEW f \in Files, changes' = changes, source'[f] # source[f]
               PROVE  \E m \in Imports :
                         /\ mode[m] = "move" /\ f \notin chosen[m]
                         /\ destUp /\ dest[f] = [by |-> m, version |-> source[f]]
                         /\ evidence[m][f] = source[f]
    OBVIOUS
  <2>1. changes' # changes + 1
    BY DEF Inv, Types
  <2>2. PICK m \in Imports : MoveToTrash(m)
    BY <2>1, WritesOnly
  <2>3. source' = [source EXCEPT ![First(m)] = None] /\ source \in [Files -> Read]
    BY <2>2, RetiredIsHeld DEF Inv, Types
  <2>4. f = First(m)
    BY <2>3
  <2> QED BY <2>2, <2>4, RetiredIsHeld
<1> QED BY <1>1, InvHolds, PTL DEF Spec, SourceLeavesForCopy
=============================================================================
