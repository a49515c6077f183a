---------------------------- MODULE OutputProofs ----------------------------
(***************************************************************************)
(* Theorems of Output: for any open Projects, copies, contents, stops and  *)
(* changes from outside, in every world.                                   *)
(***************************************************************************)
EXTENDS Output, SequenceTheorems, TLAPS

CommandPlaces == {"idle", "reviewed", "claim", "run", "probe", "finish"}
PassPlaces    == {"look", "list", "settle", "record"}
ResumePlaces  == {"run", "probe", "finish"}
WatchPlaces   == {"start", "resume", "idle"} \cup PassPlaces \cup ResumePlaces
Queued        == [project : Projects, copy : Nat]

Commands == [at : CommandPlaces, copy : Nat, print : Prints]
Watches  == [at : WatchPlaces, queue : Seq(Queued), copy : Nat, print : Prints,
             project : Projects \cup {Nobody}, copies : Nat, settled : Prints,
             found : {"none", "nothing", "unreadable", "file", "held"}]

DiskTypes ==
    /\ file \in [Projects -> Files]
    /\ up \in [Projects -> BOOLEAN] /\ partial \in [Projects -> BOOLEAN]
    /\ writes \in 0..MaxWrites
    /\ \A p \in Projects : file[p].print = 0 => file[p] = NoFile

RowTypes ==
    /\ open \in [Projects -> BOOLEAN] /\ row \in [Projects -> Rows]
    /\ listed \in [Projects -> BOOLEAN] /\ given \in [Projects -> BOOLEAN]
    /\ \A p \in Projects : row[p].state = "none" \/ row[p].origin = "none" => row[p] = NoRow

CopyTypes ==
    /\ copying \in Seq(Projects) /\ copies \in [Projects -> Nat]
    /\ phase \in [Projects -> {"none", "pending", "writing", "installed", "copied", "blocked"}]

ProcessTypes ==
    /\ live \in [Projects -> {"none", "command", "watch"}]
    /\ cmd \in [Projects -> Commands] /\ watch \in Watches
    /\ watch.at \in PassPlaces \cup ResumePlaces => watch.project \in Projects

MemoryTypes ==
    /\ seen \in [Projects -> [print : Prints, settled : BOOLEAN]]
    /\ met \in [Projects -> [once : SUBSET Prints, again : SUBSET Prints]]

Types == DiskTypes /\ RowTypes /\ CopyTypes /\ ProcessTypes /\ MemoryTypes

\* A Project copies at most once at a time, and lists nothing at the name
\* meanwhile; when none is unsettled the last one ended.
CopyIsOne ==
    /\ \A i, j \in DOMAIN copying : copying[i] = copying[j] => i = j
    /\ \A p \in Projects :
          IF p \in Unfinished THEN phase[p] # "none" /\ open[p] /\ row[p] = NoRow
          ELSE phase[p] \in {"none", "copied", "blocked"}

\* Who runs an operation claimed it, and who settles one saw it end.
ClaimFits ==
    \A p \in Projects :
        /\ live[p] = "command" => cmd[p].at = "run"
        /\ live[p] = "watch" => watch.at = "run" /\ watch.project = p
        /\ cmd[p].at \in {"probe", "finish"} => Ended(p)

ResumedFits ==
    /\ watch.at \in ResumePlaces => watch.queue # <<>> /\ watch.copy <= copies[watch.project]
    /\ watch.at \in {"probe", "finish"} /\ watch.copy = copies[watch.project]
           => Ended(watch.project)

\* No copy began since the basis of a pass that is not stale.
BasisFits ==
    watch.at \in PassPlaces =>
        /\ watch.copies <= copies[watch.project]
        /\ watch.copies = copies[watch.project] => watch.project \notin Unfinished

\* What a pass found of a listed copy nobody touched is that copy.
FoundFits ==
    watch.at \in {"settle", "record"} /\ listed[watch.project] /\ ~Stale(watch.project) =>
        /\ watch.found \in {"file", "unreadable"}
        /\ watch.found = "file" => watch.print = file[watch.project].print

\* The copy listed at a name of a Project reads this way.
CopyReads(p, print) == row[p].origin = "copied" /\ row[p].print = print

\* What was recorded Settled held still, or was a copy.
BasisHeld ==
    watch.at \in PassPlaces /\ watch.settled # 0 =>
        watch.settled \in met[watch.project].again \/ CopyReads(watch.project, watch.settled)

\* What the watch remembers it found before; what it remembers as Settled it
\* found again, or it was a copy.
MemoryHeld ==
    \A p \in Projects :
        /\ seen[p].print # 0 => seen[p].print \in met[p].once
        /\ seen[p].settled => seen[p].print \in met[p].again \/ CopyReads(p, seen[p].print)

FoundHeld ==
    /\ watch.at \in {"settle", "record"} => watch.found # "none"
    /\ watch.at = "settle" /\ watch.found = "file" =>
          /\ watch.print # 0 /\ watch.print \in met[watch.project].once
          /\ seen[watch.project].print = watch.print => watch.print \in met[watch.project].again
    /\ watch.at = "record" =>
          /\ watch.found = "file" => seen[watch.project].print = watch.print
          /\ watch.found \in {"nothing", "held"} => seen[watch.project] = Unseen

Safe == CopyIsOne /\ ClaimFits /\ ResumedFits /\ BasisFits
Held == ListedStays /\ FoundFits
Met  == SettledHeld /\ BasisHeld /\ MemoryHeld /\ FoundHeld
Inv  == Types /\ Safe /\ Held /\ Met

-----------------------------------------------------------------------------
(* What holds at the start, and what a step leaves alone. *)

\* The values the program starts from are of their types.
LEMMA Values ==
    /\ 0 \in Prints /\ NoFile \in Files /\ NoRow \in Rows /\ Idle \in Commands
    /\ Started \in Watches /\ Passes \in Watches
    /\ Unseen \in [print : Prints, settled : BOOLEAN]
    /\ Nobody = 0
<1>1. 0 \in Prints
  BY InstanceAssumption DEF Prints
<1>2. <<>> \in Seq(Queued)
  OBVIOUS
<1>3. Started \in Watches
  BY <1>1, <1>2 DEF Started, Watches, WatchPlaces
<1>4. Passes \in Watches
  BY <1>1, <1>2 DEF Started, Passes, Watches, WatchPlaces
<1> QED BY <1>1, <1>3, <1>4 DEF NoFile, Files, NoRow, Rows, Idle, Commands, CommandPlaces, Unseen, Nobody

LEMMA InitHolds == Init => Inv
<1> SUFFICES ASSUME Init PROVE Inv
  OBVIOUS
<1>1. Types
  <2>1. DiskTypes
    BY Values, InstanceAssumption DEF Init, DiskTypes
  <2>2. RowTypes
    BY Values DEF Init, RowTypes
  <2>3. CopyTypes
    BY DEF Init, CopyTypes
  <2>4. ProcessTypes
    BY Values DEF Init, ProcessTypes, Started, PassPlaces, ResumePlaces
  <2>5. MemoryTypes
    BY Values DEF Init, MemoryTypes
  <2> QED BY <2>1, <2>2, <2>3, <2>4, <2>5 DEF Types
<1>2. Unfinished = {}
  BY DEF Init, Unfinished
<1>3. Safe
  <2>1. CopyIsOne
    BY <1>2 DEF Init, CopyIsOne
  <2>2. ClaimFits
    BY DEF Init, ClaimFits, Idle
  <2>3. ResumedFits /\ BasisFits
    BY DEF Init, ResumedFits, BasisFits, Started, ResumePlaces, PassPlaces
  <2> QED BY <2>1, <2>2, <2>3 DEF Safe
<1>4. Held
  BY DEF Init, Held, ListedStays, FoundFits, Started
<1>5. Met
  BY DEF Init, Met, SettledHeld, BasisHeld, MemoryHeld, FoundHeld, Started, NoRow, Unseen, PassPlaces
<1> QED BY <1>1, <1>3, <1>4, <1>5 DEF Inv

\* A step keeps what it has no variable of.
LEMMA Kept ==
    ASSUME Inv
    PROVE  /\ UNCHANGED <<disk, writes>> => DiskTypes'
           /\ UNCHANGED <<open, row, listed, given>> => RowTypes'
           /\ UNCHANGED <<copying, copies, phase>> => CopyTypes'
           /\ UNCHANGED <<live, cmd, watch>> => ProcessTypes'
           /\ UNCHANGED <<seen, met>> => MemoryTypes'
           /\ UNCHANGED <<copying, phase, open, row>> => CopyIsOne'
           /\ UNCHANGED <<live, cmd, watch, phase>> => ClaimFits'
           /\ UNCHANGED <<watch, copies, phase>> => ResumedFits'
           /\ UNCHANGED <<watch, copies, copying>> => BasisFits'
           /\ UNCHANGED <<listed, row, file, given>> => ListedStays'
           /\ UNCHANGED <<watch, listed, copying, copies, file>> => FoundFits'
           /\ UNCHANGED <<row, met>> => SettledHeld'
           /\ UNCHANGED <<watch, met, row>> => BasisHeld'
           /\ UNCHANGED <<seen, met, row>> => MemoryHeld'
           /\ UNCHANGED <<watch, met, seen>> => FoundHeld'
<1> USE DEF Inv
<1>1. UNCHANGED <<disk, writes>> => DiskTypes'
  BY DEF Types, DiskTypes, disk
<1>2. UNCHANGED <<open, row, listed, given>> => RowTypes'
  BY DEF Types, RowTypes
<1>3. UNCHANGED <<copying, copies, phase>> => CopyTypes'
  BY DEF Types, CopyTypes
<1>4. UNCHANGED <<live, cmd, watch>> => ProcessTypes'
  BY DEF Types, ProcessTypes
<1>5. UNCHANGED <<seen, met>> => MemoryTypes'
  BY DEF Types, MemoryTypes
<1>6. UNCHANGED <<copying, phase, open, row>> => CopyIsOne'
  BY DEF Safe, CopyIsOne, Unfinished
<1>7. UNCHANGED <<live, cmd, watch, phase>> => ClaimFits'
  BY DEF Safe, ClaimFits, Ended
<1>8. UNCHANGED <<watch, copies, phase>> => ResumedFits'
  BY DEF Safe, ResumedFits, Ended
<1>9. UNCHANGED <<watch, copies, copying>> => BasisFits'
  BY DEF Safe, BasisFits, Unfinished
<1>10. UNCHANGED <<listed, row, file, given>> => ListedStays'
  BY DEF Held, ListedStays
<1>11. UNCHANGED <<watch, listed, copying, copies, file>> => FoundFits'
  BY DEF Held, FoundFits, Stale, Unfinished
<1>12. UNCHANGED <<row, met>> => SettledHeld'
  BY DEF Met, SettledHeld
<1>13. UNCHANGED <<watch, met, row>> => BasisHeld'
  BY DEF Met, BasisHeld, CopyReads
<1>14. UNCHANGED <<seen, met, row>> => MemoryHeld'
  BY DEF Met, MemoryHeld, CopyReads
<1>15. UNCHANGED <<watch, met, seen>> => FoundHeld'
  BY DEF Met, FoundHeld
<1> QED BY <1>1, <1>2, <1>3, <1>4, <1>5, <1>6, <1>7, <1>8, <1>9, <1>10, <1>11, <1>12, <1>13,
           <1>14, <1>15

\* A process that goes on to look, or to nothing, relies on nothing.
LEMMA PassesFit ==
    ASSUME Inv, watch'.at \in {"start", "resume", "idle", "run"}
    PROVE  BasisFits' /\ FoundFits' /\ BasisHeld' /\ FoundHeld'
BY DEF BasisFits, FoundFits, BasisHeld, FoundHeld, PassPlaces

-----------------------------------------------------------------------------
(* Transfers and commands. *)

\* The storage operation of an unsettled copy goes on.
LEMMA Advanced ==
    ASSUME Inv, NEW p \in Projects, NEW ph \in {"writing", "installed", "copied", "blocked"},
           phase[p] \in {"pending", "writing", "installed"}, Record(p, ph), UNCHANGED process
    PROVE  CopyTypes' /\ CopyIsOne' /\ ClaimFits' /\ ResumedFits'
<1>1. phase \in [Projects -> {"none", "pending", "writing", "installed", "copied", "blocked"}]
  BY DEF Inv, Types, CopyTypes
<1>2. p \in Unfinished
  BY DEF Inv, Safe, CopyIsOne
<1>3. phase' = [phase EXCEPT ![p] = ph] /\ UNCHANGED <<open, row, copying, copies>>
  BY DEF Record, Put
<1>4. UNCHANGED <<live, cmd, watch>>
  BY DEF process
<1>5. CopyTypes'
  BY <1>1, <1>3 DEF Inv, Types, CopyTypes
<1>6. CopyIsOne'
  BY <1>1, <1>2, <1>3 DEF Inv, Safe, CopyIsOne, Unfinished
<1>7. ~Ended(p)
  BY DEF Ended
<1>8. \A q \in Projects : Ended(q) => Ended(q)'
  BY <1>1, <1>3, <1>7 DEF Ended
<1>9. ClaimFits'
  BY <1>4, <1>8 DEF Inv, Safe, ClaimFits
<1>10. ResumedFits'
  BY <1>3, <1>4, <1>8 DEF Inv, Safe, ResumedFits, Types, ProcessTypes, ResumePlaces
<1> QED BY <1>5, <1>6, <1>9, <1>10

LEMMA TransferKeeps == ASSUME Inv, NEW p \in Projects, Transfer(p) PROVE Inv'
<1> USE DEF Put
<1>1. DiskTypes
  BY DEF Inv, Types
<1>2. CASE Begin(p)
  <2>1. DiskTypes'
    BY <1>1, <1>2 DEF Begin, DiskTypes, bounds
  <2>2. CopyTypes' /\ CopyIsOne' /\ ClaimFits' /\ ResumedFits'
    BY <1>2, Advanced DEF Begin
  <2> QED BY <1>2, <2>1, <2>2, Kept
          DEF Begin, Record, process, ghosts, bounds, Inv, Types, Safe, Held, Met
<1>3. CASE Install(p)
  <2>1. DiskTypes'
    BY <1>1, <1>3, InstanceAssumption DEF Install, DiskTypes, Files, Prints
  <2>2. ~listed[p]
    BY <1>3 DEF Install, Inv, Safe, CopyIsOne, NoRow, Held, ListedStays
  <2>3. ListedStays'
    BY <1>1, <1>3, <2>2 DEF Install, DiskTypes, Inv, Held, ListedStays, catalog, ghosts
  <2>4. FoundFits'
    <3>1. \A q \in Projects : listed'[q] => listed[q] /\ file'[q] = file[q] /\ Stale(q)' = Stale(q)
      BY <1>1, <1>3, <2>2 DEF Install, DiskTypes, Stale, Unfinished, catalog, process, ghosts
    <3>2. UNCHANGED watch /\ (watch.at \in {"settle", "record"} => watch.project \in Projects)
      BY <1>3 DEF Install, process, Inv, Types, ProcessTypes, PassPlaces
    <3> QED BY <3>1, <3>2 DEF Inv, Held, FoundFits
  <2> QED BY <1>3, <2>1, <2>3, <2>4, Kept
          DEF Install, catalog, process, ghosts, Inv, Types, Safe, Held, Met
<1>4. CASE InstallFails(p)
  <2>1. DiskTypes'
    BY <1>1, <1>4 DEF InstallFails, DiskTypes, bounds
  <2>2. CopyTypes' /\ CopyIsOne' /\ ClaimFits' /\ ResumedFits'
    BY <1>4, Advanced DEF InstallFails
  <2> QED BY <1>4, <2>1, <2>2, Kept
          DEF InstallFails, Record, process, ghosts, bounds, Inv, Types, Safe, Held, Met
<1>5. CASE RecordInstalled(p)
  <2>2. CopyTypes' /\ CopyIsOne' /\ ClaimFits' /\ ResumedFits'
    BY <1>5, Advanced DEF RecordInstalled
  <2> QED BY <1>5, <2>2, Kept
          DEF RecordInstalled, Record, disk, process, ghosts, bounds, Inv, Types, Safe, Held, Met
<1>6. CASE Verify(p)
  <2>2. CopyTypes' /\ CopyIsOne' /\ ClaimFits' /\ ResumedFits'
    BY <1>6, Advanced DEF Verify
  <2> QED BY <1>6, <2>2, Kept
          DEF Verify, Record, disk, process, ghosts, bounds, Inv, Types, Safe, Held, Met
<1> QED BY <1>2, <1>3, <1>4, <1>5, <1>6 DEF Transfer

\* What `Without` leaves of the unsettled copies: the others, once each.
LEMMA OthersStay ==
    ASSUME Inv, NEW p \in Projects, p \in Unfinished, copying' = Without(p)
    PROVE  /\ copying' \in Seq(Projects)
           /\ \A i, j \in DOMAIN copying' : copying'[i] = copying'[j] => i = j
           /\ Unfinished' = Unfinished \ {p}
<1> DEFINE n == Len(copying)
           at == CHOOSE i \in DOMAIN copying : copying[i] = p
           From(j) == IF j < at THEN j ELSE j + 1
<1>1. copying \in Seq(Projects)
  BY DEF Inv, Types, CopyTypes
<1>2. n \in Nat /\ DOMAIN copying = 1..n /\ \A i \in 1..n : copying[i] \in Projects
  BY <1>1
<1>3. at \in 1..n /\ copying[at] = p
  BY <1>2 DEF Unfinished
<1>4. \A i, j \in 1..n : copying[i] = copying[j] => i = j
  BY <1>2 DEF Inv, Safe, CopyIsOne
<1>5. copying' = [j \in 1..n - 1 |-> copying[From(j)]]
  BY DEF Without
<1> HIDE DEF at, n
<1>6. \A j \in 1..n - 1 : From(j) \in 1..n /\ From(j) # at
  BY <1>2, <1>3
<1>7. \A i, j \in 1..n - 1 : From(i) = From(j) => i = j
  BY <1>2, <1>3
<1>8. \A i \in 1..n : i # at => \E j \in 1..n - 1 : From(j) = i
  <2> SUFFICES ASSUME NEW i \in 1..n, i # at PROVE \E j \in 1..n - 1 : From(j) = i
    OBVIOUS
  <2>1. CASE i < at
    <3>1. i \in 1..n - 1 /\ From(i) = i
      BY <1>2, <1>3, <2>1
    <3> QED BY <3>1
  <2>2. CASE ~(i < at)
    <3>1. i - 1 \in 1..n - 1 /\ From(i - 1) = i
      BY <1>2, <1>3, <2>2
    <3> QED BY <3>1
  <2> QED BY <2>1, <2>2
<1> HIDE DEF From
<1>9. n - 1 \in Nat
  BY <1>2, <1>3
<1>10. copying' \in [1..n - 1 -> Projects] /\ DOMAIN copying' = 1..n - 1
  BY <1>2, <1>5, <1>6
<1>11. copying' \in Seq(Projects)
  BY <1>9, <1>10, SeqDef
<1>12. \A i, j \in DOMAIN copying' : copying'[i] = copying'[j] => i = j
  BY <1>4, <1>5, <1>6, <1>7, <1>10
<1>13. Unfinished' = {copying'[j] : j \in 1..n - 1}
  BY <1>10 DEF Unfinished
<1>14. Unfinished = {copying[i] : i \in 1..n}
  BY <1>2 DEF Unfinished
<1>15. \A q : q \in Unfinished' => q \in Unfinished /\ q # p
  BY <1>3, <1>4, <1>5, <1>6, <1>13, <1>14
<1>16. \A q : q \in Unfinished /\ q # p => q \in Unfinished'
  BY <1>3, <1>5, <1>8, <1>13, <1>14
<1> QED BY <1>11, <1>12, <1>15, <1>16

\* A copy is listed, or released, by whoever settles it.
LEMMA Finished ==
    ASSUME Inv, NEW p \in Projects, NEW print \in Prints, p \in Unfinished, Ended(p),
           Finish(p, print)
    PROVE  /\ RowTypes' /\ CopyTypes' /\ CopyIsOne' /\ ListedStays' /\ SettledHeld' /\ MemoryHeld'
           /\ Unfinished' = Unfinished \ {p}
           /\ \A q \in Projects : q # p => row'[q] = row[q] /\ listed'[q] = listed[q]
           /\ ~listed[p] /\ row[p] = NoRow
<1> USE DEF Put
<1>1. /\ copying' \in Seq(Projects)
      /\ \A i, j \in DOMAIN copying' : copying'[i] = copying'[j] => i = j
      /\ Unfinished' = Unfinished \ {p}
  BY OthersStay DEF Finish, Settled
<1>2. RowTypes /\ CopyTypes /\ CopyIsOne /\ ListedStays /\ SettledHeld /\ MemoryHeld
  BY DEF Inv, Types, Safe, Held, Met
<1>3. row[p] = NoRow /\ ~listed[p]
  BY <1>2 DEF CopyIsOne, ListedStays, NoRow
<1>4. CopyTypes'
  BY <1>1, <1>2 DEF CopyTypes, Finish
<1>5. RowTypes'
  <2>1. CASE phase[p] = "copied"
    <3> DEFINE copied == [state |-> "settled", print |-> print, origin |-> "copied", kind |-> FALSE]
               held   == file[p].print = print
    <3>1. copied \in Rows /\ held \in BOOLEAN /\ copied.state # "none" /\ copied.origin # "none"
      BY DEF Rows
    <3>2. row' = [row EXCEPT ![p] = copied] /\ listed' = [listed EXCEPT ![p] = held]
          /\ given' = [given EXCEPT ![p] = FALSE] /\ UNCHANGED open
      BY <2>1 DEF Finish
    <3> HIDE DEF copied, held
    <3> QED BY <1>2, <3>1, <3>2 DEF RowTypes
  <2>2. CASE phase[p] # "copied"
    BY <1>2, <2>2 DEF RowTypes, Finish
  <2> QED BY <2>1, <2>2
<1>6. \A q \in Projects : q # p => row'[q] = row[q] /\ listed'[q] = listed[q] /\ given'[q] = given[q]
  BY <1>2 DEF RowTypes, Finish
<1>7. CopyIsOne'
  BY <1>1, <1>2, <1>6 DEF CopyIsOne, Finish, Ended
<1>8. row'[p].origin = "copied" \/ row'[p] = NoRow
  BY <1>2, <1>3 DEF RowTypes, Finish
<1>9. ListedStays'
  <2>1. listed'[p] => row'[p].origin = "copied" /\ row'[p].print = file[p].print
                      /\ row'[p].kind = given'[p]
    <3>1. CASE phase[p] = "copied"
      <4>1. listed'[p] = (file[p].print = print) /\ given'[p] = FALSE
        BY <1>2, <3>1, Zenon DEF RowTypes, Finish
      <4>2. row'[p].origin = "copied" /\ row'[p].print = print /\ row'[p].kind = FALSE
        BY <1>2, <3>1 DEF RowTypes, Finish
      <4> QED BY <4>1, <4>2
    <3>2. CASE phase[p] # "copied"
      BY <1>3, <3>2 DEF Finish
    <3> QED BY <3>1, <3>2
  <2> QED BY <1>2, <1>6, <2>1 DEF ListedStays, Finish, disk
<1>10. SettledHeld'
  BY <1>2, <1>6, <1>8 DEF SettledHeld, Finish, NoRow
<1>11. MemoryHeld'
  BY <1>2, <1>3, <1>6 DEF MemoryHeld, Finish, CopyReads, NoRow
<1> QED BY <1>1, <1>3, <1>4, <1>5, <1>6, <1>7, <1>9, <1>10, <1>11

LEMMA AskKeeps == ASSUME Inv, NEW p \in Projects, Ask(p) PROVE Inv'
<1>1. cmd \in [Projects -> Commands] /\ ProcessTypes /\ ClaimFits
  BY DEF Inv, Types, Safe, ProcessTypes
<1>2. [Idle EXCEPT !.at = "reviewed"] \in Commands
  BY Values DEF Idle, Commands, CommandPlaces
<1>3. ProcessTypes'
  BY <1>1, <1>2 DEF Ask, Goes, Put, ProcessTypes
<1>4. ClaimFits'
  BY <1>1 DEF Ask, Goes, Put, Idle, ClaimFits, Ended, catalog
<1> QED BY <1>3, <1>4, Kept
        DEF Ask, disk, catalog, ghosts, bounds, Inv, Types, Safe, Held, Met

LEMMA ReserveKeeps == ASSUME Inv, NEW p \in Projects, Reserve(p) PROVE Inv'
<1> USE DEF Goes, Put
<1>1. ProcessTypes /\ CopyTypes /\ ClaimFits /\ CopyIsOne /\ ResumedFits /\ BasisFits /\ FoundFits
  BY DEF Inv, Types, Safe, Held
<1>2. CASE open[p] /\ p \notin Unfinished /\ row[p] = NoRow
  <2>1. /\ copying' = Append(copying, p)
        /\ copies' = [copies EXCEPT ![p] = copies[p] + 1]
        /\ phase' = [phase EXCEPT ![p] = "pending"]
        /\ cmd' = [cmd EXCEPT ![p] = [at |-> "claim", copy |-> copies[p] + 1, print |-> 0]]
        /\ UNCHANGED <<disk, open, row, live, watch, seen, ghosts, bounds>>
    BY <1>2 DEF Reserve
  <2>2. CopyTypes'
    BY <1>1, <2>1 DEF CopyTypes
  <2>3. ProcessTypes'
    BY <1>1, <2>1, Values DEF ProcessTypes, CopyTypes, Commands, CommandPlaces
  <2>4. Unfinished' = Unfinished \cup {p}
        /\ \A i, j \in DOMAIN copying' : copying'[i] = copying'[j] => i = j
    <3> DEFINE n == Len(copying)
    <3>1. n \in Nat /\ DOMAIN copying = 1..n
      BY <1>1 DEF CopyTypes
    <3>2. DOMAIN copying' = 1..(n + 1) /\ copying'[n + 1] = p
          /\ \A i \in 1..n : copying'[i] = copying[i]
      BY <1>1, <2>1 DEF CopyTypes
    <3> HIDE DEF n
    <3>3. \A i \in 1..(n + 1) : i \in 1..n \/ i = n + 1
      BY <3>1
    <3>4. \A i \in 1..n : copying[i] # p
      BY <1>2, <3>1 DEF Unfinished
    <3>5. \A i, j \in DOMAIN copying' : copying'[i] = copying'[j] => i = j
      BY <1>1, <3>1, <3>2, <3>3, <3>4 DEF CopyIsOne
    <3>6. 1..n \subseteq 1..(n + 1) /\ n + 1 \in 1..(n + 1)
      BY <3>1
    <3>7. Unfinished' = {copying'[i] : i \in 1..(n + 1)} /\ Unfinished = {copying[i] : i \in 1..n}
      BY <3>1, <3>2 DEF Unfinished
    <3>8. \A q : q \in Unfinished' <=> q \in Unfinished \/ q = p
      BY <3>2, <3>3, <3>6, <3>7
    <3> QED BY <3>5, <3>8
  <2>5. CopyIsOne'
    BY <1>1, <1>2, <2>1, <2>4 DEF CopyIsOne, CopyTypes
  <2>6. ClaimFits'
    BY <1>1, <2>1 DEF ClaimFits, Ended, CopyTypes, ProcessTypes, Reserve
  <2>7. ResumedFits'
    BY <1>1, <2>1 DEF ResumedFits, Ended, CopyTypes, ProcessTypes, Watches, ResumePlaces
  <2>8. BasisFits'
    BY <1>1, <2>1, <2>4 DEF BasisFits, CopyTypes, ProcessTypes, Watches
  <2>9. FoundFits'
    <3>1. \A q \in Projects : ~Stale(q)' => ~Stale(q)
      BY <1>1, <2>1, <2>4 DEF Stale, CopyTypes
    <3> QED BY <1>1, <2>1, <3>1 DEF FoundFits, ProcessTypes, PassPlaces, disk, ghosts
  <2> QED BY <2>1, <2>2, <2>3, <2>5, <2>6, <2>7, <2>8, <2>9, Kept
          DEF disk, ghosts, bounds, Inv, Types, Safe, Held, Met
<1>3. CASE ~(open[p] /\ p \notin Unfinished /\ row[p] = NoRow)
  <2>1. cmd' = [cmd EXCEPT ![p] = Idle]
        /\ UNCHANGED <<disk, catalog, live, watch, seen, ghosts, bounds>>
    BY <1>3 DEF Reserve, catalog
  <2>2. ProcessTypes'
    BY <1>1, <2>1, Values DEF ProcessTypes
  <2>3. ClaimFits'
    BY <1>1, <2>1 DEF ClaimFits, Ended, ProcessTypes, Reserve, Idle, catalog
  <2> QED BY <2>1, <2>2, <2>3, Kept
          DEF disk, catalog, ghosts, bounds, Inv, Types, Safe, Held, Met
<1> QED BY <1>2, <1>3

LEMMA CommandKeeps == ASSUME Inv, NEW p \in Projects, Command(p) PROVE Inv'
<1> USE DEF Goes, Put
<1>1. ProcessTypes /\ ClaimFits /\ CopyTypes /\ DiskTypes
  BY DEF Inv, Types, Safe
<1>2. \A at \in CommandPlaces : [cmd[p] EXCEPT !.at = at] \in Commands
  BY <1>1 DEF ProcessTypes, Commands
<1>3. CASE Claim(p)
  <2>1. ProcessTypes'
    BY <1>1, <1>2, <1>3, Values DEF Claim, ProcessTypes, CommandPlaces
  <2>2. ClaimFits'
    BY <1>1, <1>3 DEF Claim, ClaimFits, ProcessTypes, Commands, Ended, Idle, catalog
  <2> QED BY <1>3, <2>1, <2>2, Kept
          DEF Claim, disk, catalog, ghosts, bounds, Inv, Types, Safe, Held, Met
<1>4. CASE RunEnds(p)
  <2>1. ProcessTypes'
    BY <1>1, <1>2, <1>4 DEF RunEnds, ProcessTypes, CommandPlaces
  <2>2. ClaimFits'
    BY <1>1, <1>4 DEF RunEnds, ClaimFits, ProcessTypes, Commands, Ended, catalog
  <2> QED BY <1>4, <2>1, <2>2, Kept
          DEF RunEnds, disk, catalog, ghosts, bounds, Inv, Types, Safe, Held, Met
<1>5. CASE Probe(p)
  <2>1. Probed(p) \in Prints
    BY <1>1, Values DEF Probed, DiskTypes, Files
  <2>2. [cmd[p] EXCEPT !.at = "finish", !.print = Probed(p)] \in Commands
    BY <1>1, <2>1 DEF ProcessTypes, Commands, CommandPlaces
  <2>3. ProcessTypes'
    BY <1>1, <1>5, <2>2, Values DEF Probe, ProcessTypes
  <2>4. ClaimFits'
    BY <1>1, <1>5 DEF Probe, ClaimFits, ProcessTypes, Commands, Ended, Idle, catalog
  <2> QED BY <1>5, <2>3, <2>4, Kept
          DEF Probe, disk, catalog, ghosts, bounds, Inv, Types, Safe, Held, Met
<1>6. CASE CommandEnds(p)
  <2>1. cmd[p].at = "finish" /\ cmd' = [cmd EXCEPT ![p] = Idle] /\ UNCHANGED watch
    BY <1>6 DEF CommandEnds
  <2>2. CASE Current(p, cmd[p].copy)
    <3>1. Finish(p, cmd[p].print) /\ p \in Unfinished /\ Ended(p) /\ cmd[p].print \in Prints
      BY <1>1, <1>6, <2>2 DEF CommandEnds, Current, ClaimFits, ProcessTypes, Commands
    <3>2. /\ RowTypes' /\ CopyTypes' /\ CopyIsOne' /\ ListedStays' /\ SettledHeld' /\ MemoryHeld'
          /\ Unfinished' = Unfinished \ {p}
          /\ \A q \in Projects : q # p => row'[q] = row[q] /\ listed'[q] = listed[q]
          /\ ~listed[p] /\ row[p] = NoRow
      BY <3>1, Finished
    <3>3. UNCHANGED <<disk, open, copies, phase, live, seen, met, bounds>>
      BY <3>1 DEF Finish
    <3>4. ProcessTypes'
      BY <1>1, <2>1, <3>3, Values DEF ProcessTypes
    <3>5. ClaimFits'
      BY <1>1, <2>1, <3>3 DEF ClaimFits, ProcessTypes, Ended, Idle
    <3>6. BasisFits'
      BY <2>1, <3>2, <3>3 DEF Inv, Safe, BasisFits
    <3>7. FoundFits'
      <4>1. SUFFICES ASSUME watch.at \in {"settle", "record"}, watch.project # p,
                            listed[watch.project], ~Stale(watch.project)
                     PROVE  /\ watch.found \in {"file", "unreadable"}
                            /\ watch.found = "file" => watch.print = file[watch.project].print
        <5>1. watch.at \in {"settle", "record"} => watch.project \in Projects
          BY <1>1 DEF ProcessTypes, PassPlaces
        <5>2. watch.at \in {"settle", "record"} /\ watch.project = p => Stale(p)'
          BY <2>1, <3>1, <3>3 DEF Inv, Safe, BasisFits, Stale, PassPlaces
        <5>3. \A q \in Projects : q # p => (Stale(q)' <=> Stale(q))
          BY <2>1, <3>2, <3>3 DEF Stale
        <5> QED BY <2>1, <3>2, <3>3, <5>1, <5>2, <5>3 DEF FoundFits, disk
      <4> QED BY <4>1 DEF Inv, Held, FoundFits
    <3>8. BasisHeld'
      <4>1. watch.at \in PassPlaces => watch.project \in Projects
        BY <1>1 DEF ProcessTypes
      <4> QED BY <2>1, <3>2, <3>3, <4>1 DEF Inv, Met, BasisHeld, CopyReads, NoRow
    <3> QED BY <2>1, <3>2, <3>3, <3>4, <3>5, <3>6, <3>7, <3>8, Kept
            DEF disk, bounds, Inv, Types, Safe, Held, Met
  <2>3. CASE ~Current(p, cmd[p].copy)
    <3>1. UNCHANGED <<disk, catalog, live, seen, ghosts, bounds>>
      BY <1>6, <2>3 DEF CommandEnds
    <3>2. ProcessTypes'
      BY <1>1, <2>1, <3>1, Values DEF ProcessTypes
    <3>3. ClaimFits'
      BY <1>1, <2>1, <3>1 DEF ClaimFits, ProcessTypes, Ended, Idle, catalog
    <3> QED BY <2>1, <3>1, <3>2, <3>3, Kept
            DEF disk, catalog, ghosts, bounds, Inv, Types, Safe, Held, Met
  <2> QED BY <2>2, <2>3
<1> QED BY <1>3, <1>4, <1>5, <1>6, ReserveKeeps DEF Command

-----------------------------------------------------------------------------
(* The watch. *)

\* A place the watch goes on to keeps who runs what, where nobody's run and no
\* copy is touched.
LEMMA WatchMoves ==
    ASSUME Inv, watch.at \notin {"run"}, UNCHANGED <<live, cmd, phase>>
    PROVE  ClaimFits'
BY DEF Inv, Types, Safe, ClaimFits, ProcessTypes, Ended

LEMMA ReadUnfinishedKeeps == ASSUME Inv, ReadUnfinished PROVE Inv'
<1> DEFINE queue == [i \in DOMAIN copying |-> [project |-> copying[i], copy |-> copies[copying[i]]]]
<1>1. watch.at = "start" /\ watch' = [watch EXCEPT !.at = "resume", !.queue = queue]
      /\ UNCHANGED <<disk, catalog, live, cmd, seen, ghosts, bounds>>
  BY DEF ReadUnfinished
<1>2. CopyTypes /\ ProcessTypes
  BY DEF Inv, Types
<1>3. Len(copying) \in Nat /\ DOMAIN copying = 1..Len(copying)
      /\ \A i \in 1..Len(copying) : copying[i] \in Projects
  BY <1>2 DEF CopyTypes
<1>4. queue \in [1..Len(copying) -> Queued]
  BY <1>2, <1>3 DEF CopyTypes, Queued
<1>5. queue \in Seq(Queued)
  BY <1>3, <1>4, SeqDef
<1> HIDE DEF queue
<1>6. ProcessTypes' /\ watch'.at = "resume"
  BY <1>1, <1>2, <1>5 DEF ProcessTypes, Watches, WatchPlaces, PassPlaces, ResumePlaces
<1>7. ClaimFits'
  BY <1>1, WatchMoves DEF catalog
<1>8. ResumedFits'
  BY <1>6 DEF ResumedFits, ResumePlaces
<1> QED BY <1>1, <1>6, <1>7, <1>8, PassesFit, Kept
        DEF disk, catalog, ghosts, bounds, Inv, Types, Safe, Held, Met

\* The passes begin.
LEMMA PassesBegin ==
    ASSUME Inv, watch.at # "run", watch' = Passes,
           UNCHANGED <<disk, catalog, live, cmd, seen, ghosts, bounds>>
    PROVE  Inv'
<1>1. watch'.at = "idle"
  BY DEF Passes, Started
<1>2. ProcessTypes'
  BY <1>1, Values DEF Inv, Types, ProcessTypes, PassPlaces, ResumePlaces
<1>3. ClaimFits'
  BY WatchMoves DEF catalog
<1>4. ResumedFits'
  BY <1>1 DEF ResumedFits, ResumePlaces
<1> QED BY <1>1, <1>2, <1>3, <1>4, PassesFit, Kept
        DEF disk, catalog, ghosts, bounds, Inv, Types, Safe, Held, Met

LEMMA ResumeNextKeeps == ASSUME Inv, ResumeNext PROVE Inv'
<1> DEFINE next == Head(watch.queue)
           p    == next.project
<1>1. ProcessTypes /\ ClaimFits /\ CopyTypes
  BY DEF Inv, Types, Safe
<1>2. watch.at = "resume" /\ watch.queue # <<>>
      /\ UNCHANGED <<disk, catalog, cmd, seen, ghosts, bounds>>
  BY DEF ResumeNext
<1>3. next \in Queued
  BY <1>1, <1>2 DEF ProcessTypes, Watches
<1>4. CASE ~Current(p, next.copy) \/ live[p] # "none"
  <2>1. watch' = Passes /\ UNCHANGED live
    BY <1>4 DEF ResumeNext
  <2> QED BY <1>2, <2>1, PassesBegin
<1>5. CASE ~(~Current(p, next.copy) \/ live[p] # "none")
  <2> DEFINE to == IF Ended(p) THEN "probe" ELSE "run"
  <2>1. /\ watch' = [watch EXCEPT !.at = to, !.project = p, !.copy = next.copy]
        /\ live' = IF Ended(p) THEN live ELSE [live EXCEPT ![p] = "watch"]
        /\ live[p] = "none" /\ copies[p] = next.copy
    BY <1>5 DEF ResumeNext, Put, Current
  <2>2. p \in Projects /\ next.copy \in Nat /\ to \in ResumePlaces
    BY <1>3 DEF Queued, ResumePlaces
  <2> HIDE DEF p, next
  <2>3. /\ watch' \in Watches /\ watch'.at = to /\ watch'.project = p /\ watch'.copy = copies[p]
        /\ watch'.queue = watch.queue
    BY <1>1, <2>1, <2>2 DEF ProcessTypes, Watches, WatchPlaces, ResumePlaces
  <2>4. ProcessTypes'
    BY <1>1, <1>2, <2>1, <2>2, <2>3 DEF ProcessTypes
  <2>5. ClaimFits'
    BY <1>1, <1>2, <2>1, <2>2, <2>3 DEF ClaimFits, ProcessTypes, Ended, catalog
  <2>6. ResumedFits'
    BY <1>1, <1>2, <2>2, <2>3 DEF ResumedFits, CopyTypes, Ended, catalog
  <2>7. BasisFits' /\ FoundFits' /\ BasisHeld' /\ FoundHeld'
    BY <2>2, <2>3 DEF BasisFits, FoundFits, BasisHeld, FoundHeld, PassPlaces, ResumePlaces
  <2> QED BY <1>2, <2>4, <2>5, <2>6, <2>7, Kept
          DEF disk, catalog, ghosts, bounds, Inv, Types, Safe, Held, Met
<1> QED BY <1>4, <1>5

LEMMA ResumedRanKeeps == ASSUME Inv, ResumedRan PROVE Inv'
<1>1. ProcessTypes /\ ClaimFits /\ ResumedFits
  BY DEF Inv, Types, Safe
<1>2. /\ watch.at = "run" /\ Ended(watch.project)
      /\ watch' = [watch EXCEPT !.at = "probe"]
      /\ live' = [live EXCEPT ![watch.project] = "none"]
      /\ UNCHANGED <<disk, catalog, cmd, seen, ghosts, bounds>>
  BY DEF ResumedRan, Put
<1>3. ProcessTypes'
  BY <1>1, <1>2 DEF ProcessTypes, Watches, WatchPlaces, ResumePlaces, PassPlaces
<1>4. ClaimFits'
  BY <1>1, <1>2 DEF ClaimFits, ProcessTypes, Ended, catalog, ResumePlaces
<1>5. ResumedFits'
  BY <1>1, <1>2 DEF ResumedFits, ProcessTypes, Watches, Ended, catalog, ResumePlaces
<1>6. BasisFits' /\ FoundFits' /\ BasisHeld' /\ FoundHeld'
  BY <1>1, <1>2 DEF BasisFits, FoundFits, BasisHeld, FoundHeld, PassPlaces, ProcessTypes, Watches
<1> QED BY <1>2, <1>3, <1>4, <1>5, <1>6, Kept
        DEF disk, catalog, ghosts, bounds, Inv, Types, Safe, Held, Met

LEMMA ResumedProbeKeeps == ASSUME Inv, ResumedProbe PROVE Inv'
<1>1. ProcessTypes /\ ClaimFits /\ ResumedFits /\ DiskTypes
  BY DEF Inv, Types, Safe
<1>2. watch.at = "probe" /\ UNCHANGED <<disk, catalog, live, cmd, seen, ghosts, bounds>>
  BY DEF ResumedProbe
<1>3. CASE phase[watch.project] = "copied" /\ ~Stands(watch.project)
  BY <1>2, <1>3, PassesBegin DEF ResumedProbe
<1>4. CASE ~(phase[watch.project] = "copied" /\ ~Stands(watch.project))
  <2>1. watch' = [watch EXCEPT !.at = "finish", !.print = Probed(watch.project)]
    BY <1>4 DEF ResumedProbe
  <2>2. Probed(watch.project) \in Prints
    BY <1>1, <1>2, Values DEF Probed, DiskTypes, Files, ProcessTypes, ResumePlaces
  <2>3. ProcessTypes'
    BY <1>1, <1>2, <2>1, <2>2 DEF ProcessTypes, Watches, WatchPlaces, ResumePlaces, PassPlaces
  <2>4. ClaimFits'
    BY <1>2, WatchMoves DEF catalog
  <2>5. ResumedFits'
    BY <1>1, <1>2, <2>1 DEF ResumedFits, ProcessTypes, Watches, Ended, catalog, ResumePlaces
  <2>6. BasisFits' /\ FoundFits' /\ BasisHeld' /\ FoundHeld'
    BY <1>1, <2>1 DEF BasisFits, FoundFits, BasisHeld, FoundHeld, PassPlaces, ProcessTypes, Watches
  <2> QED BY <1>2, <2>3, <2>4, <2>5, <2>6, Kept
          DEF disk, catalog, ghosts, bounds, Inv, Types, Safe, Held, Met
<1> QED BY <1>3, <1>4

LEMMA ResumedEndsKeeps == ASSUME Inv, ResumedEnds PROVE Inv'
<1> DEFINE p == watch.project
<1>1. ProcessTypes /\ ClaimFits /\ ResumedFits
  BY DEF Inv, Types, Safe
<1>2. watch.at = "finish" /\ UNCHANGED cmd
  BY DEF ResumedEnds
<1>3. CASE Current(p, watch.copy)
  <2>1. /\ Finish(p, watch.print)
        /\ watch' = [Started EXCEPT !.at = "resume", !.queue = Tail(watch.queue)]
    BY <1>3 DEF ResumedEnds
  <2>2. p \in Projects /\ p \in Unfinished /\ Ended(p) /\ watch.print \in Prints
    BY <1>1, <1>2, <1>3 DEF Current, ResumedFits, ProcessTypes, Watches, ResumePlaces
  <2>3. /\ RowTypes' /\ CopyTypes' /\ CopyIsOne' /\ ListedStays' /\ SettledHeld' /\ MemoryHeld'
    BY <2>1, <2>2, Finished
  <2>4. UNCHANGED <<disk, open, copies, phase, live, seen, met, bounds>>
    BY <2>1 DEF Finish
  <2>5. watch' \in Watches /\ watch'.at = "resume"
    <3>1. Tail(watch.queue) \in Seq(Queued)
      BY <1>1, <1>2 DEF ProcessTypes, Watches, ResumedFits, ResumePlaces
    <3> QED BY <2>1, <3>1, Values DEF Watches, WatchPlaces, Started
  <2>6. ProcessTypes'
    BY <1>1, <1>2, <2>4, <2>5 DEF ProcessTypes, PassPlaces, ResumePlaces
  <2>7. ClaimFits'
    BY <1>2, <2>4, WatchMoves
  <2>8. ResumedFits'
    BY <2>5 DEF ResumedFits, ResumePlaces
  <2> QED BY <2>3, <2>4, <2>5, <2>6, <2>7, <2>8, PassesFit, Kept
          DEF disk, bounds, Inv, Types, Safe, Held, Met
<1>4. CASE ~Current(p, watch.copy)
  BY <1>2, <1>4, PassesBegin DEF ResumedEnds
<1> QED BY <1>3, <1>4

LEMMA ReadBasisKeeps == ASSUME Inv, NEW p \in Projects, ReadBasis(p) PROVE Inv'
<1> DEFINE settled == IF row[p].state = "settled" THEN row[p].print ELSE 0
<1>1. /\ watch.at = "idle" /\ p \notin Unfinished
      /\ watch' = [watch EXCEPT !.at = "look", !.project = p, !.copies = copies[p],
                                !.settled = settled]
      /\ UNCHANGED <<disk, catalog, live, cmd, seen, ghosts, bounds>>
  BY DEF ReadBasis
<1>2. ProcessTypes /\ CopyTypes /\ RowTypes /\ SettledHeld
  BY DEF Inv, Types, Met
<1>3. settled \in Prints
  BY <1>2, Values DEF RowTypes, Rows
<1>4. settled # 0 => settled \in met[p].again \/ CopyReads(p, settled)
  BY <1>2 DEF RowTypes, Rows, NoRow, SettledHeld, CopyReads
<1> HIDE DEF settled
<1>5. /\ watch' \in Watches /\ watch'.at = "look" /\ watch'.project = p /\ watch'.copies = copies[p]
      /\ watch'.settled = settled
  BY <1>1, <1>2, <1>3 DEF ProcessTypes, CopyTypes, Watches, WatchPlaces, PassPlaces
<1>6. ProcessTypes'
  BY <1>1, <1>2, <1>5 DEF ProcessTypes
<1>7. ClaimFits'
  BY <1>1, WatchMoves DEF catalog
<1>8. ResumedFits'
  BY <1>5 DEF ResumedFits, ResumePlaces
<1>9. BasisFits'
  BY <1>1, <1>2, <1>5 DEF BasisFits, CopyTypes, Unfinished, catalog
<1>10. FoundFits' /\ FoundHeld'
  BY <1>5 DEF FoundFits, FoundHeld
<1>11. BasisHeld'
  BY <1>1, <1>4, <1>5 DEF BasisHeld, CopyReads, catalog, ghosts
<1> QED BY <1>1, <1>6, <1>7, <1>8, <1>9, <1>10, <1>11, Kept
        DEF disk, catalog, ghosts, bounds, Inv, Types, Safe, Held, Met

\* A pass goes on with its basis.
LEMMA PassGoesOn ==
    ASSUME Inv, watch.at \in PassPlaces, watch'.at \in PassPlaces, watch' \in Watches,
           watch'.project = watch.project, watch'.copies = watch.copies,
           watch'.settled = watch.settled, UNCHANGED <<catalog, live, cmd>>
    PROVE  ProcessTypes' /\ ClaimFits' /\ ResumedFits' /\ BasisFits'
<1>1. ProcessTypes'
  BY DEF Inv, Types, ProcessTypes
<1>2. ClaimFits'
  BY WatchMoves DEF catalog, PassPlaces
<1>3. ResumedFits'
  BY DEF ResumedFits, ResumePlaces, PassPlaces
<1>4. BasisFits'
  BY DEF Inv, Safe, BasisFits, Unfinished, catalog
<1> QED BY <1>1, <1>2, <1>3, <1>4

LEMMA LookKeeps == ASSUME Inv, Look PROVE Inv'
<1>1. ProcessTypes
  BY DEF Inv, Types
<1>2. /\ watch.at = "look"
      /\ watch' = IF up[watch.project] THEN [watch EXCEPT !.at = "list"]
                  ELSE [watch EXCEPT !.at = "settle", !.found = "unreadable"]
      /\ UNCHANGED <<disk, catalog, live, cmd, seen, ghosts, bounds>>
  BY DEF Look
<1>3. /\ watch' \in Watches /\ watch'.project = watch.project /\ watch'.copies = watch.copies
      /\ watch'.settled = watch.settled
      /\ watch'.at = "list" \/ (watch'.at = "settle" /\ watch'.found = "unreadable")
  <2>1. \/ watch' = [watch EXCEPT !.at = "list"]
        \/ watch' = [watch EXCEPT !.at = "settle", !.found = "unreadable"]
    BY <1>2, Zenon
  <2>2. CASE watch' = [watch EXCEPT !.at = "list"]
    BY <1>1, <2>2 DEF ProcessTypes, Watches, WatchPlaces, PassPlaces
  <2>3. CASE watch' = [watch EXCEPT !.at = "settle", !.found = "unreadable"]
    BY <1>1, <2>3 DEF ProcessTypes, Watches, WatchPlaces, PassPlaces
  <2> QED BY <2>1, <2>2, <2>3
<1>4. ProcessTypes' /\ ClaimFits' /\ ResumedFits' /\ BasisFits'
  BY <1>2, <1>3, PassGoesOn DEF PassPlaces
<1>5. FoundFits' /\ FoundHeld'
  BY <1>3 DEF FoundFits, FoundHeld
<1>6. BasisHeld'
  BY <1>2, <1>3 DEF Inv, Met, BasisHeld, PassPlaces, CopyReads, catalog, ghosts
<1> QED BY <1>2, <1>4, <1>5, <1>6, Kept
        DEF disk, catalog, ghosts, bounds, Inv, Types, Safe, Held, Met

\* What walks found stays found.
LEMMA MetGrows ==
    ASSUME Inv, NEW p \in Projects, NEW n \in Prints, Sighted(p, n)
    PROVE  /\ MemoryTypes /\ UNCHANGED seen => MemoryTypes'
           /\ \A q \in Projects : met[q].once \subseteq met'[q].once
                                  /\ met[q].again \subseteq met'[q].again
           /\ n \in met'[p].once
           /\ n \in met[p].once => n \in met'[p].again
<1>1. met \in [Projects -> [once : SUBSET Prints, again : SUBSET Prints]]
  BY DEF Inv, Types, MemoryTypes
<1> DEFINE was  == met[p]
           more == IF n \in was.once THEN was.again \cup {n} ELSE was.again
<1>2. met' = [met EXCEPT ![p] = [once |-> was.once \cup {n}, again |-> more]]
  BY <1>1 DEF Sighted
<1>3. was.once \cup {n} \in SUBSET Prints /\ more \in SUBSET Prints /\ was.again \subseteq more
  BY <1>1
<1>4. met'[p].once = was.once \cup {n} /\ met'[p].again = more
      /\ \A q \in Projects : q # p => met'[q] = met[q]
  BY <1>1, <1>2
<1>5. met' \in [Projects -> [once : SUBSET Prints, again : SUBSET Prints]]
  BY <1>1, <1>2, <1>3
<1> QED BY <1>3, <1>4, <1>5 DEF MemoryTypes

LEMMA ListKeeps == ASSUME Inv, List PROVE Inv'
<1> DEFINE p == watch.project
<1>1. ProcessTypes /\ RowTypes /\ DiskTypes /\ MemoryTypes /\ ListedStays
      /\ SettledHeld /\ MemoryHeld /\ BasisHeld
  BY DEF Inv, Types, Held, Met
<1>2. watch.at = "list" /\ UNCHANGED <<disk, catalog, live, cmd, seen, given, writes, faults>>
  BY DEF List
<1>3. p \in Projects
  BY <1>1, <1>2 DEF ProcessTypes, PassPlaces
<1>4. ASSUME NEW found \in {"nothing", "held"},
             watch' = [watch EXCEPT !.at = "settle", !.found = found],
             listed' = Put(listed, p, FALSE), UNCHANGED met
      PROVE  Inv'
  <2>1. /\ watch' \in Watches /\ watch'.at = "settle" /\ watch'.project = p
        /\ watch'.copies = watch.copies /\ watch'.settled = watch.settled /\ watch'.found = found
    BY <1>1, <1>4 DEF ProcessTypes, Watches, WatchPlaces, PassPlaces
  <2>2. ProcessTypes' /\ ClaimFits' /\ ResumedFits' /\ BasisFits'
    BY <1>2, <2>1, PassGoesOn DEF PassPlaces
  <2>3. RowTypes'
    BY <1>1, <1>2, <1>4 DEF RowTypes, Put, catalog
  <2>4. ~listed'[p] /\ \A q \in Projects : listed'[q] => listed[q]
    BY <1>1, <1>3, <1>4 DEF RowTypes, Put
  <2>5. ListedStays'
    BY <1>1, <1>2, <2>4 DEF ListedStays, catalog, disk
  <2>6. FoundFits'
    BY <2>1, <2>4 DEF FoundFits
  <2>7. BasisHeld'
    BY <1>1, <1>2, <1>4, <2>1 DEF BasisHeld, PassPlaces, CopyReads, catalog
  <2>8. FoundHeld'
    BY <2>1 DEF FoundHeld
  <2> QED BY <1>2, <1>4, <2>2, <2>3, <2>5, <2>6, <2>7, <2>8, Kept
          DEF disk, catalog, Inv, Types, Safe, Held, Met
<1>5. ASSUME Stands(p), Sighted(p, file[p].print), UNCHANGED listed,
             watch' = [watch EXCEPT !.at = "settle", !.found = "file", !.print = file[p].print]
      PROVE  Inv'
  <2> DEFINE n == file[p].print
  <2>1. n \in Prints /\ n # 0
    BY <1>1, <1>3, <1>5 DEF DiskTypes, Files, Stands
  <2>2. /\ watch' \in Watches /\ watch'.at = "settle" /\ watch'.project = p
        /\ watch'.copies = watch.copies /\ watch'.settled = watch.settled
        /\ watch'.found = "file" /\ watch'.print = n
    BY <1>1, <1>5, <2>1 DEF ProcessTypes, Watches, WatchPlaces, PassPlaces
  <2>3. ProcessTypes' /\ ClaimFits' /\ ResumedFits' /\ BasisFits'
    BY <1>2, <2>2, PassGoesOn DEF PassPlaces
  <2>4. /\ MemoryTypes'
        /\ \A q \in Projects : met[q].once \subseteq met'[q].once /\ met[q].again \subseteq met'[q].again
        /\ n \in met'[p].once
        /\ n \in met[p].once => n \in met'[p].again
    BY <1>1, <1>2, <1>3, <1>5, <2>1, MetGrows
  <2>5. FoundFits'
    BY <1>2, <2>2 DEF FoundFits, disk
  <2>6. SettledHeld'
    BY <1>1, <1>2, <2>4 DEF SettledHeld, catalog
  <2>7. BasisHeld'
    BY <1>1, <1>2, <1>3, <2>2, <2>4 DEF BasisHeld, PassPlaces, CopyReads, catalog
  <2>8. MemoryHeld'
    BY <1>1, <1>2, <2>4 DEF MemoryHeld, CopyReads, catalog
  <2>9. FoundHeld'
    <3>1. seen[p].print = n => n \in met'[p].again
      BY <1>1, <1>3, <2>1, <2>4 DEF MemoryHeld
    <3> QED BY <1>2, <2>1, <2>2, <2>4, <3>1 DEF FoundHeld
  <2> QED BY <1>2, <1>5, <2>3, <2>4, <2>5, <2>6, <2>7, <2>8, <2>9, Kept
          DEF disk, catalog, Inv, Types, Safe, Held, Met
<1> QED BY <1>4, <1>5 DEF List

LEMMA SettleKeeps == ASSUME Inv, NEW aged \in BOOLEAN, Settle(aged) PROVE Inv'
<1> DEFINE p == watch.project
<1>1. ProcessTypes /\ MemoryTypes /\ BasisHeld /\ MemoryHeld /\ FoundHeld /\ FoundFits
  BY DEF Inv, Types, Held, Met
<1>2. /\ watch.at = "settle" /\ seen' = [seen EXCEPT ![p] = Remembered(p, aged)]
      /\ watch' = [watch EXCEPT !.at = "record"]
      /\ UNCHANGED <<disk, catalog, live, cmd, ghosts, bounds>>
  BY DEF Settle, Put
<1>3. p \in Projects /\ watch.print \in Prints
  BY <1>1, <1>2 DEF ProcessTypes, Watches, PassPlaces
<1>4. /\ watch' \in Watches /\ watch'.at = "record" /\ watch'.project = p
      /\ watch'.copies = watch.copies /\ watch'.settled = watch.settled
      /\ watch'.found = watch.found /\ watch'.print = watch.print
  BY <1>1, <1>2 DEF ProcessTypes, Watches, WatchPlaces, PassPlaces
<1>5. ProcessTypes' /\ ClaimFits' /\ ResumedFits' /\ BasisFits'
  BY <1>2, <1>4, PassGoesOn DEF PassPlaces
<1>6. FoundFits'
  BY <1>1, <1>2, <1>4 DEF FoundFits, Stale, Unfinished, catalog, disk, ghosts
<1>7. BasisHeld'
  BY <1>1, <1>2, <1>4 DEF BasisHeld, PassPlaces, CopyReads, catalog, ghosts
<1> DEFINE memory == Remembered(p, aged)
<1>8. /\ watch.found \in {"nothing", "held"} => memory = Unseen
      /\ watch.found = "file" => memory.print = watch.print
  BY DEF Remembered
<1>9. memory = Unseen \/ memory = seen[p] \/ watch.found = "file"
  BY <1>1, <1>2, <1>4 DEF Remembered, FoundHeld, ProcessTypes, Watches
<1>10. memory \in [print : Prints, settled : BOOLEAN]
       /\ (memory.print # 0 => memory.print \in met[p].once)
       /\ (memory.settled => memory.print \in met[p].again \/ CopyReads(p, memory.print))
  <2>1. CASE memory = Unseen
    BY <2>1, Values DEF Unseen
  <2>2. CASE memory = seen[p]
    BY <1>1, <1>3, <2>2 DEF MemoryTypes, MemoryHeld
  <2>3. CASE watch.found = "file" /\ seen[p].print = watch.print
    <3>1. memory = [print |-> watch.print, settled |-> seen[p].settled \/ aged]
      BY <2>3 DEF Remembered
    <3>2. watch.print \in met[p].once /\ watch.print \in met[p].again
      BY <1>1, <1>2, <2>3 DEF FoundHeld
    <3> QED BY <1>3, <3>1, <3>2
  <2>4. CASE watch.found = "file" /\ seen[p].print # watch.print
    <3>1. memory = [print |-> watch.print, settled |-> RecordedSettled(p)]
      BY <2>4 DEF Remembered
    <3>2. watch.print \in met[p].once /\ watch.print # 0
      BY <1>1, <1>2, <2>4 DEF FoundHeld
    <3>3. RecordedSettled(p) => watch.print \in met[p].again \/ CopyReads(p, watch.print)
      BY <1>1, <1>2, <3>2 DEF BasisHeld, RecordedSettled, PassPlaces
    <3>4. RecordedSettled(p) \in BOOLEAN
      BY DEF RecordedSettled
    <3> QED BY <1>3, <3>1, <3>2, <3>3, <3>4
  <2> QED BY <1>9, <2>1, <2>2, <2>3, <2>4
<1> HIDE DEF memory
<1>11. seen'[p] = memory /\ seen' \in [Projects -> [print : Prints, settled : BOOLEAN]]
       /\ \A q \in Projects : q # p => seen'[q] = seen[q]
  BY <1>1, <1>2, <1>3, <1>10 DEF MemoryTypes, memory
<1>12. MemoryTypes'
  BY <1>1, <1>2, <1>11 DEF MemoryTypes, ghosts
<1>13. MemoryHeld'
  BY <1>1, <1>2, <1>3, <1>10, <1>11 DEF MemoryHeld, CopyReads, catalog, ghosts
<1>14. FoundHeld'
  BY <1>1, <1>2, <1>4, <1>8, <1>11 DEF FoundHeld
<1> QED BY <1>2, <1>5, <1>6, <1>7, <1>12, <1>13, <1>14, Kept
        DEF disk, catalog, ghosts, bounds, Inv, Types, Safe, Held, Met

LEMMA RecordScanKeeps == ASSUME Inv, RecordScan PROVE Inv'
<1> DEFINE p == watch.project
<1>1. /\ ProcessTypes /\ RowTypes /\ MemoryTypes /\ CopyIsOne /\ ListedStays /\ FoundFits
      /\ SettledHeld /\ MemoryHeld /\ FoundHeld
  BY DEF Inv, Types, Safe, Held, Met
<1>2. /\ watch.at = "record" /\ watch' = Passes
      /\ UNCHANGED <<disk, open, copying, copies, phase, live, cmd, seen, ghosts, bounds>>
  BY DEF RecordScan
<1>3. p \in Projects /\ watch.print \in Prints
  BY <1>1, <1>2 DEF ProcessTypes, Watches, PassPlaces
<1>4. CASE ~(open[p] /\ ~Stale(p))
  <2>1. UNCHANGED row
    BY <1>4 DEF RecordScan
  <2> QED BY <1>2, <2>1, PassesBegin DEF catalog
<1>5. CASE open[p] /\ ~Stale(p)
  <2> DEFINE scan == Scanned(p)
  <2>1. row' = [row EXCEPT ![p] = scan]
    BY <1>5 DEF RecordScan, Put
  <2>2. /\ scan \in Rows
        /\ scan.state = "none" \/ scan.origin = "none" => scan = NoRow
        /\ listed[p] => scan.origin = "copied" /\ scan.print = file[p].print /\ scan.kind = given[p]
        /\ scan.origin = "observed" /\ scan.state = "settled" => scan.print \in met[p].again
        /\ seen[p].settled => \/ seen[p].print \in met[p].again
                              \/ scan.origin = "copied" /\ scan.print = seen[p].print
    <3>1. /\ row[p] \in Rows /\ (row[p].state = "none" \/ row[p].origin = "none" => row[p] = NoRow)
          /\ listed[p] => /\ row[p].origin = "copied" /\ row[p].print = file[p].print
                          /\ row[p].kind = given[p]
          /\ seen[p].settled => \/ seen[p].print \in met[p].again
                                \/ row[p].origin = "copied" /\ row[p].print = seen[p].print
          /\ seen[p].settled \in BOOLEAN
      BY <1>1, <1>3 DEF RowTypes, ListedStays, MemoryHeld, CopyReads, MemoryTypes
    <3>2. listed[p] => /\ watch.found \in {"file", "unreadable"}
                       /\ watch.found = "file" => watch.print = file[p].print
      BY <1>1, <1>2, <1>5 DEF FoundFits
    <3>3. CASE watch.found = "nothing"
      <4>1. scan = NoRow /\ seen[p] = Unseen
        BY <1>1, <1>2, <3>3 DEF Scanned, FoundHeld
      <4> QED BY <3>2, <3>3, <4>1, Values DEF NoRow, Unseen
    <3>4. CASE watch.found = "unreadable" /\ row[p] = NoRow
      <4>1. scan = NoRow
        BY <3>4 DEF Scanned
      <4> QED BY <3>1, <3>4, <4>1, Values DEF NoRow
    <3>5. CASE watch.found = "unreadable" /\ row[p] # NoRow
      <4>1. scan = [row[p] EXCEPT !.state = "unreadable"]
        BY <3>5 DEF Scanned
      <4>2. scan \in Rows /\ scan.state = "unreadable" /\ scan.origin = row[p].origin
            /\ scan.print = row[p].print /\ scan.kind = row[p].kind
        BY <3>1, <4>1 DEF Rows
      <4> QED BY <3>1, <3>5, <4>2
    <3>6. CASE watch.found \notin {"nothing", "unreadable"}
      <4> DEFINE same == row[p].origin = "copied" /\ watch.found = "file" /\ row[p].print = watch.print
                 held == watch.found = "file" /\ seen[p].settled
      <4>1. scan = [state  |-> IF held THEN "settled" ELSE "settling",
                    print  |-> watch.print,
                    origin |-> IF same THEN "copied" ELSE "observed",
                    kind   |-> row[p].kind]
        BY <3>6 DEF Scanned, Observed
      <4>2. row[p].kind \in BOOLEAN
        BY <3>1 DEF Rows
      <4>3. scan \in Rows /\ scan.state # "none" /\ scan.origin # "none"
        BY <1>3, <4>1, <4>2 DEF Rows
      <4>4. listed[p] => same /\ watch.print = file[p].print
        BY <3>1, <3>2, <3>6
      <4>5. listed[p] => scan.origin = "copied" /\ scan.print = file[p].print /\ scan.kind = given[p]
        BY <3>1, <4>1, <4>4
      <4>6. watch.found = "file" => seen[p].print = watch.print
        BY <1>1, <1>2 DEF FoundHeld
      <4>7. watch.found # "file" => ~seen[p].settled
        BY <1>1, <1>2, <3>6 DEF FoundHeld, Unseen, ProcessTypes, Watches
      <4>8. scan.origin = "observed" /\ scan.state = "settled" => scan.print \in met[p].again
        BY <3>1, <4>1, <4>6
      <4>9. seen[p].settled => \/ seen[p].print \in met[p].again
                               \/ scan.origin = "copied" /\ scan.print = seen[p].print
        BY <3>1, <4>1, <4>6, <4>7
      <4> QED BY <4>3, <4>5, <4>8, <4>9
    <3> QED BY <3>3, <3>4, <3>5, <3>6
  <2> HIDE DEF scan
  <2>3. row' \in [Projects -> Rows] /\ row'[p] = scan
        /\ \A q \in Projects : q # p => row'[q] = row[q]
    BY <1>1, <1>3, <2>1, <2>2 DEF RowTypes
  <2>4. RowTypes'
    BY <1>1, <1>2, <2>2, <2>3 DEF RowTypes, ghosts
  <2>5. p \notin Unfinished
    BY <1>5 DEF Stale
  <2>6. CopyIsOne'
    BY <1>1, <1>2, <2>3, <2>5 DEF CopyIsOne, Unfinished
  <2>7. ListedStays'
    BY <1>1, <1>2, <2>2, <2>3 DEF ListedStays, disk, ghosts
  <2>8. SettledHeld'
    BY <1>1, <1>2, <2>2, <2>3 DEF SettledHeld, ghosts
  <2>9. MemoryHeld'
    BY <1>1, <1>2, <2>2, <2>3 DEF MemoryHeld, CopyReads, ghosts
  <2>10. watch'.at = "idle"
    BY <1>2 DEF Passes, Started
  <2>11. ProcessTypes'
    BY <1>1, <1>2, <2>10, Values DEF ProcessTypes, PassPlaces, ResumePlaces
  <2>12. ClaimFits'
    BY <1>2, WatchMoves
  <2>13. ResumedFits'
    BY <2>10 DEF ResumedFits, ResumePlaces
  <2> QED BY <1>2, <2>4, <2>6, <2>7, <2>8, <2>9, <2>10, <2>11, <2>12, <2>13, PassesFit, Kept
          DEF disk, ghosts, bounds, Inv, Types, Safe, Held, Met
<1> QED BY <1>4, <1>5

LEMMA WatchKeeps == Inv /\ (Resume \/ Pass) => Inv'
<1> SUFFICES ASSUME Inv, Resume \/ Pass PROVE Inv'
  OBVIOUS
<1>1. CASE ResumeEnds
  BY <1>1, PassesBegin DEF ResumeEnds
<1> QED BY <1>1, ReadUnfinishedKeeps, ResumeNextKeeps, ResumedRanKeeps, ResumedProbeKeeps,
           ResumedEndsKeeps, LookKeeps, ListKeeps, SettleKeeps, RecordScanKeeps DEF Resume, Pass

-----------------------------------------------------------------------------
(* The outside, and the end of the process. *)

LEMMA OutsideKeeps ==
    ASSUME Inv, NEW p \in Projects,
           Save(p) \/ Delete(p) \/ Unmount(p) \/ Mount(p) \/ SetKind(p) \/ Close(p)
    PROVE  Inv'
<1> USE DEF Put
<1>1. /\ DiskTypes /\ RowTypes /\ ProcessTypes /\ CopyIsOne /\ ListedStays /\ FoundFits
      /\ SettledHeld /\ MemoryHeld /\ BasisHeld
  BY DEF Inv, Types, Safe, Held, Met
<1>2. watch.at \in PassPlaces => watch.project \in Projects
  BY <1>1 DEF ProcessTypes
<1>3. ASSUME NEW f \in Files, f.print = 0 => f = NoFile, file' = [file EXCEPT ![p] = f],
             writes' \in 0..MaxWrites, listed' = [listed EXCEPT ![p] = FALSE],
             UNCHANGED <<up, partial, open, row, given, copying, copies, phase, process, met>>
      PROVE  Inv'
  <2>1. DiskTypes'
    BY <1>1, <1>3 DEF DiskTypes
  <2>2. RowTypes'
    BY <1>1, <1>3 DEF RowTypes
  <2>3. \A q \in Projects : listed'[q] => listed[q] /\ file'[q] = file[q]
    BY <1>1, <1>3 DEF DiskTypes, RowTypes
  <2>4. ListedStays'
    BY <1>1, <1>3, <2>3 DEF ListedStays
  <2>5. FoundFits'
    BY <1>1, <1>2, <1>3, <2>3 DEF FoundFits, PassPlaces, Stale, Unfinished, process
  <2> QED BY <1>3, <2>1, <2>2, <2>4, <2>5, Kept DEF process, Inv, Types, Safe, Held, Met
<1>4. CASE Save(p)
  <2>1. PICK by \in {"other", "edited"} : file' = [file EXCEPT ![p] = [print |-> writes + 1, by |-> by]]
    BY <1>4 DEF Save
  <2>2. writes + 1 \in 1..MaxWrites
    BY <1>1, <1>4, InstanceAssumption DEF Save, DiskTypes
  <2>3. [print |-> writes + 1, by |-> by] \in Files
    BY <2>2 DEF Files, Prints
  <2>4. [print |-> writes + 1, by |-> by].print # 0
    BY <2>2
  <2>5. /\ writes' \in 0..MaxWrites /\ listed' = [listed EXCEPT ![p] = FALSE]
        /\ UNCHANGED <<up, partial, open, row, given, copying, copies, phase, process, met>>
    BY <1>4, <2>2 DEF Save, Outside
  <2> QED BY <1>3, <2>1, <2>3, <2>4, <2>5
<1>5. CASE Delete(p)
  BY <1>1, <1>3, <1>5, Values DEF Delete, Outside, DiskTypes
<1>6. CASE Unmount(p)
  <2>1. DiskTypes'
    BY <1>1, <1>6 DEF Unmount, Outside, DiskTypes
  <2> QED BY <1>6, <2>1, Kept DEF Unmount, Outside, process, Inv, Types, Safe, Held, Met
<1>7. CASE Mount(p)
  <2>1. DiskTypes'
    BY <1>1, <1>7 DEF Mount, DiskTypes, bounds
  <2> QED BY <1>7, <2>1, Kept
          DEF Mount, catalog, process, ghosts, bounds, Inv, Types, Safe, Held, Met
<1>8. CASE SetKind(p)
  <2>1. /\ row' = [row EXCEPT ![p].kind = TRUE] /\ given' = [given EXCEPT ![p] = TRUE]
        /\ row[p] # NoRow
        /\ UNCHANGED <<file, up, open, listed, writes, partial, copying, copies, phase, process, met>>
    BY <1>8 DEF SetKind, Outside
  <2>2. /\ row' \in [Projects -> Rows]
        /\ row'[p].kind = TRUE /\ row'[p].state = row[p].state /\ row'[p].origin = row[p].origin
        /\ row'[p].print = row[p].print
        /\ \A q \in Projects : q # p => row'[q] = row[q] /\ given'[q] = given[q]
        /\ given'[p] = TRUE /\ given' \in [Projects -> BOOLEAN]
    BY <1>1, <2>1 DEF RowTypes, Rows
  <2>3. RowTypes'
    BY <1>1, <2>1, <2>2 DEF RowTypes
  <2>4. CopyIsOne'
    BY <1>1, <2>1, <2>2 DEF CopyIsOne, Unfinished
  <2>5. ListedStays'
    BY ZenonT(60), <1>1, <2>1, <2>2 DEF ListedStays
  <2>6. SettledHeld'
    BY <1>1, <2>1, <2>2 DEF SettledHeld
  <2>7. BasisHeld' /\ MemoryHeld'
    BY <1>1, <1>2, <2>1, <2>2 DEF BasisHeld, MemoryHeld, CopyReads, process
  <2> QED BY <2>1, <2>3, <2>4, <2>5, <2>6, <2>7, Kept DEF disk, process, Inv, Types, Safe, Held, Met
<1>9. CASE Close(p)
  <2>1. open' = [open EXCEPT ![p] = FALSE] /\ p \notin Unfinished
        /\ UNCHANGED <<file, up, row, listed, given, writes, partial, copying, copies, phase,
                       process, met>>
    BY <1>9 DEF Close, Closable, Outside
  <2>2. RowTypes'
    BY <1>1, <2>1 DEF RowTypes
  <2>3. CopyIsOne'
    BY <1>1, <2>1 DEF CopyIsOne, Unfinished, RowTypes
  <2> QED BY <2>1, <2>2, <2>3, Kept DEF disk, process, Inv, Types, Safe, Held, Met
<1> QED BY <1>4, <1>5, <1>6, <1>7, <1>8, <1>9

LEMMA StopKeeps == ASSUME Inv, Stop PROVE Inv'
<1>1. watch'.at = "start"
  BY DEF Stop, Started
<1>2. ProcessTypes'
  BY <1>1, Values DEF Stop, ProcessTypes, PassPlaces, ResumePlaces
<1>3. MemoryTypes'
  BY Values DEF Inv, Types, Stop, MemoryTypes, ghosts
<1>4. ClaimFits' /\ ResumedFits'
  BY <1>1 DEF Stop, ClaimFits, ResumedFits, Idle, ResumePlaces
<1>5. MemoryHeld'
  BY DEF Stop, MemoryHeld, Unseen
<1> QED BY <1>1, <1>2, <1>3, <1>4, <1>5, PassesFit, Kept
        DEF Stop, disk, catalog, ghosts, Inv, Types, Safe, Held, Met

-----------------------------------------------------------------------------
(* Theorems. *)

LEMMA StepHolds == Inv /\ [Next]_vars => Inv'
<1> SUFFICES ASSUME Inv, [Next]_vars PROVE Inv'
  OBVIOUS
<1>1. CASE UNCHANGED vars
  BY <1>1, Kept DEF vars, disk, Inv, Types, Safe, Held, Met
<1>2. ASSUME NEW p \in Projects,
             \/ Ask(p) \/ Command(p) \/ Transfer(p) \/ ReadBasis(p)
             \/ Save(p) \/ Delete(p) \/ Unmount(p) \/ Mount(p) \/ SetKind(p) \/ Close(p)
      PROVE  Inv'
  BY <1>2, AskKeeps, CommandKeeps, TransferKeeps, ReadBasisKeeps, OutsideKeeps
<1>3. CASE Crash \/ Quit
  BY <1>3, StopKeeps DEF Crash, Quit
<1> QED BY <1>1, <1>2, <1>3, WatchKeeps DEF Next

LEMMA InvHolds == Spec => []Inv
BY InitHolds, StepHolds, PTL DEF Spec

\* Every variable keeps its type, an unsettled copy stands in an open Project,
\* and an operation runs for whoever claimed it (`Live::claim`, `close_project`).
THEOREM TypeCorrect == Spec => []TypeOK
<1>1. Inv => TypeOK
  BY DEF Inv, Types, DiskTypes, RowTypes, Safe, CopyIsOne, ClaimFits, TypeOK, NoRow
<1> QED BY <1>1, InvHolds, PTL

\* A listed copy nobody touched stays listed as it reads, whatever pass began
\* before it was listed (`record_output_scan`, `observed`, `walk_output`).
THEOREM ListedAlwaysStays == Spec => []ListedStays
<1>1. Inv => ListedStays
  BY DEF Inv, Held
<1> QED BY <1>1, InvHolds, PTL

\* Nothing a tool saves reads Settled that two walks did not find the same
\* (`Settler::state`, `scanned`).
THEOREM SettledOnlyHeld == Spec => []SettledHeld
<1>1. Inv => SettledHeld
  BY DEF Inv, Met
<1> QED BY <1>1, InvHolds, PTL
=============================================================================
