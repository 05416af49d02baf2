--------------------------- MODULE LauncherProofs ---------------------------
(***************************************************************************)
(* Proofs about Launcher, for any releases, commands and bounds.           *)
(***************************************************************************)
EXTENDS Launcher, TLAPS

\* The slots a path names: none, the seeded root, or one that is in its place.
There(path) == path \in {None, Seed} \/ slots[path] # None
AllThere(st) == There(st.active) /\ There(st.previous)

\* Everything that names a slot, on disk or in a process, names one that is there.
FilesThere ==
  \A f \in {file, temp} :
    There(f["current"]) /\ (f["state"] # None => AllThere(f["state"]))

ProcThere(p) == AllThere(proc[p].st) /\ There(proc[p].next) /\ There(proc[p].old)

Writing(p) == proc[p].at \in {"write", "rename", "remove", "rename again"}
Activating(p) == Writing(p) /\ proc[p].write \in {"pointer", "commit"}

\* Which commands get where.
CommandRight(p) ==
  /\ proc[p].at \in {"check", "stage", "move", "verify"} => Cmd(p) = "install"
  /\ Writing(p) /\ proc[p].write = "fail" => Cmd(p) = "install"
  /\ Writing(p) /\ proc[p].write = "startup" => Cmd(p) = "run"
  /\ Activating(p) => proc[p].next # None

\* The slot that an install activates holds its release, and what it commits
\* carries a number that is not lower.
InstallRight(p) ==
  Cmd(p) = "install" =>
    LET own == Version[proc[p].cmd.rel] IN
    /\ At(p, "verify") \/ Activating(p) => slots[own] = proc[p].cmd.rel
    /\ Activating(p) => proc[p].next = own
    /\ Activating(p) /\ proc[p].write = "commit" =>
         proc[p].st.highest >= Sequence[proc[p].cmd.rel]

\* As long as no two commands have run at the same time, a command renames what
\* it has written itself, and that rename does not fail;
RenamesOwn(p) ==
  /\ proc[p].at \notin {"remove", "rename again"}
  /\ At(p, "rename") =>
       temp[FileOf(proc[p].write)] =
         IF proc[p].write = "pointer" THEN proc[p].next ELSE proc[p].st

\* the state it loaded is not out of date;
UpToDate(p) ==
  p \in Running /\ ~At(p, "load") => proc[p].st.highest >= HighestOnDisk

\* and a run activates another slot only in the place of a broken one.
ActiveOnDisk == IF file["state"] = None THEN None ELSE file["state"].active

RunRight(p) ==
  ActiveOnDisk # None /\ p \in Running /\ Cmd(p) = "run" /\ proc[p].at \notin {"load", "launch"} =>
    IF Activating(p) THEN ActiveOnDisk \in broken ELSE proc[p].st.active = ActiveOnDisk

OneByOne == \A p, q \in Running : p = q
AcceptedKnown == \A r \in accepted : Sequence[r] <= HighestOnDisk

LauncherInv ==
  /\ FilesThere
  /\ \A p \in Procs : ProcThere(p) /\ CommandRight(p) /\ InstallRight(p)
  /\ ~overlap => /\ OneByOne
                 /\ AcceptedKnown
                 /\ \A p \in Procs : RenamesOwn(p) /\ UpToDate(p) /\ RunRight(p)

-----------------------------------------------------------------------------
(* What setting the locals of one process does. *)

LEMMA SetProcEffect ==
  ASSUME proc \in [Procs -> ProcStates], NEW p \in Procs, NEW r \in ProcStates, SetProc(p, r)
  PROVE  /\ proc' \in [Procs -> ProcStates]
         /\ proc'[p] = r
         /\ \A q \in Procs \ {p} : proc'[q] = proc[q]
BY DEF SetProc

LEMMA IdleType == Idle \in ProcStates /\ Idle.at = "idle" /\ NewState \in States
BY DEF Idle, ProcStates, Labels, AllCommands, States, NewState, Writes

LEMMA Moved ==
  ASSUME NEW r \in ProcStates, NEW a \in Labels, NEW s, s = [r EXCEPT !.at = a]
  PROVE  /\ s \in ProcStates /\ s.at = a /\ s.cmd = r.cmd /\ s.st = r.st
         /\ s.next = r.next /\ s.old = r.old /\ s.write = r.write
BY DEF ProcStates

LEMMA GotoEffect ==
  ASSUME proc \in [Procs -> ProcStates], NEW p \in Procs, NEW a \in Labels, Goto(p, a)
  PROVE  /\ proc' \in [Procs -> ProcStates]
         /\ \A q \in Procs \ {p} : proc'[q] = proc[q]
         /\ proc'[p].at = a /\ proc'[p].cmd = proc[p].cmd /\ proc'[p].st = proc[p].st
         /\ proc'[p].next = proc[p].next /\ proc'[p].old = proc[p].old
         /\ proc'[p].write = proc[p].write
<1>1. PICK s : s = [proc[p] EXCEPT !.at = a]  OBVIOUS
<1>2. /\ s \in ProcStates /\ s.at = a /\ s.cmd = proc[p].cmd /\ s.st = proc[p].st
      /\ s.next = proc[p].next /\ s.old = proc[p].old /\ s.write = proc[p].write
  BY <1>1, Moved
<1>3. SetProc(p, s)  BY <1>1 DEF Goto
<1> QED  BY <1>2, <1>3, SetProcEffect

LEMMA StartWriteEffect ==
  ASSUME proc \in [Procs -> ProcStates], NEW p \in Procs, NEW r \in ProcStates,
         NEW w \in Writes, StartWrite(p, r, w)
  PROVE  /\ proc' \in [Procs -> ProcStates]
         /\ \A q \in Procs \ {p} : proc'[q] = proc[q]
         /\ proc'[p].at = "write" /\ proc'[p].cmd = r.cmd /\ proc'[p].st = r.st
         /\ proc'[p].next = r.next /\ proc'[p].old = r.old /\ proc'[p].write = w
<1>1. PICK s : s = [r EXCEPT !.at = "write", !.write = w]  OBVIOUS
<1>2. /\ s \in ProcStates /\ s.at = "write" /\ s.cmd = r.cmd /\ s.st = r.st
      /\ s.next = r.next /\ s.old = r.old /\ s.write = w
  BY <1>1 DEF ProcStates, Labels
<1>3. SetProc(p, s)  BY <1>1 DEF StartWrite
<1> QED  BY <1>2, <1>3, SetProcEffect

LEMMA WithState ==
  ASSUME NEW r \in ProcStates, NEW x \in States, NEW s, s = [r EXCEPT !.st = x]
  PROVE  /\ s \in ProcStates /\ s.at = r.at /\ s.cmd = r.cmd /\ s.st = x
         /\ s.next = r.next /\ s.old = r.old /\ s.write = r.write
BY DEF ProcStates

LEMMA ExitEffect ==
  ASSUME proc \in [Procs -> ProcStates], NEW p \in Procs, Exit(p)
  PROVE  /\ proc' \in [Procs -> ProcStates]
         /\ \A q \in Procs \ {p} : proc'[q] = proc[q]
         /\ proc'[p] = Idle
         /\ lock' = IF lock = p THEN None ELSE lock
BY IdleType, SetProcEffect DEF Exit

LEMMA ProcType ==
  ASSUME TypeOK, NEW p \in Procs
  PROVE  /\ proc \in [Procs -> ProcStates]
         /\ proc[p] \in ProcStates
         /\ proc[p].at \in Labels /\ proc[p].cmd \in AllCommands /\ proc[p].st \in States
         /\ proc[p].next \in Paths \union {None} /\ proc[p].old \in Paths \union {None}
         /\ proc[p].write \in Writes
         /\ proc[p].st.active \in Paths \union {None}
         /\ proc[p].st.previous \in Paths \union {None}
         /\ proc[p].st.highest \in Int
<1>1. proc \in [Procs -> ProcStates] /\ proc[p] \in ProcStates  BY DEF TypeOK
<1>2. /\ proc[p].at \in Labels /\ proc[p].cmd \in AllCommands /\ proc[p].st \in States
      /\ proc[p].next \in Paths \union {None} /\ proc[p].old \in Paths \union {None}
      /\ proc[p].write \in Writes
  BY <1>1 DEF ProcStates
<1> QED  BY <1>1, <1>2 DEF States

\* The release of an install, and the slot that it names.
LEMMA ReleaseType ==
  ASSUME TypeOK, NEW p \in Procs, Cmd(p) = "install"
  PROVE  proc[p].cmd.rel \in Releases /\ Version[proc[p].cmd.rel] \in Versions
<1>1. proc[p].cmd \in AllCommands /\ proc[p].cmd.name = "install"  BY ProcType DEF Cmd
<1> QED  BY <1>1 DEF AllCommands, Versions

\* The state a command starts from, and the one a commit records.
LEMMA LoadedState ==
  ASSUME TypeOK
  PROVE  /\ LoadOrSeed \in States
         /\ LoadOrSeed.highest = HighestOnDisk
         /\ ActiveOnDisk # None => LoadOrSeed.active = ActiveOnDisk
         /\ FilesThere => AllThere(LoadOrSeed)
<1> DEFINE st == IF file["state"] = None THEN NewState ELSE file["state"]
<1>1. /\ st \in States /\ st.highest = HighestOnDisk /\ st.active = ActiveOnDisk
      /\ FilesThere => AllThere(st)
  BY IdleType DEF TypeOK, HighestOnDisk, ActiveOnDisk, FilesThere, AllThere, There, NewState
<1>2. LoadOrSeed = IF st.active # None THEN st
                   ELSE [st EXCEPT !.active =
                           IF file["current"] # None /\ Verified(file["current"], TRUE)
                           THEN file["current"] ELSE Seed]
  BY DEF LoadOrSeed
<1> HIDE DEF st
<1>3. CASE st.active # None  BY <1>1, <1>2, <1>3
<1>4. CASE st.active = None
  <2>1. PICK a : a = IF file["current"] # None /\ Verified(file["current"], TRUE)
                     THEN file["current"] ELSE Seed
    OBVIOUS
  <2>2. a \in Paths /\ (FilesThere => There(a))
    BY <2>1 DEF TypeOK, FilesThere, There, Paths
  <2>3. LoadOrSeed = [st EXCEPT !.active = a]  BY <1>2, <1>4, <2>1
  <2>4. /\ LoadOrSeed \in States /\ LoadOrSeed.highest = st.highest
        /\ LoadOrSeed.active = a /\ LoadOrSeed.previous = st.previous
    BY <1>1, <2>2, <2>3 DEF States
  <2> QED  BY <1>1, <1>4, <2>2, <2>4 DEF AllThere
<1> QED  BY <1>3, <1>4

LEMMA CommittedState ==
  ASSUME TypeOK, NEW p \in Procs, proc[p].next # None
  PROVE  LET st == Activated(proc[p]) IN
         /\ st \in States
         /\ st.active = proc[p].next /\ st.previous = proc[p].old
         /\ st.highest >= proc[p].st.highest
         /\ st.highest >= SlotSequence(proc[p].next)
<1>1. SlotSequence(proc[p].next) \in Nat
  BY ProcType, LauncherAssumption DEF SlotSequence, TypeOK, Paths
<1> QED  BY <1>1, ProcType DEF Activated, States

-----------------------------------------------------------------------------
(* The three outcomes of a write. *)

LEMMA WrittenEffect ==
  ASSUME TypeOK, NEW p \in Procs, CommandRight(p), Writing(p), Written(p)
  PROVE  /\ proc' \in [Procs -> ProcStates]
         /\ \A q \in Procs \ {p} : proc'[q] = proc[q]
         /\ \/ /\ proc[p].write = "startup"
               /\ proc'[p].at = "lock" /\ proc'[p].cmd = proc[p].cmd /\ proc'[p].st = proc[p].st
               /\ proc'[p].next = proc[p].next /\ proc'[p].old = proc[p].old
               /\ UNCHANGED <<lock, accepted>>
            \/ /\ proc[p].write = "pointer"
               /\ proc'[p].at = "write" /\ proc'[p].cmd = proc[p].cmd
               /\ proc'[p].st = Activated(proc[p])
               /\ proc'[p].next = proc[p].next /\ proc'[p].old = proc[p].old
               /\ proc'[p].write = "commit"
               /\ UNCHANGED <<lock, accepted>>
            \/ /\ proc[p].write = "commit" /\ Cmd(p) = "run"
               /\ proc'[p].at = "launch" /\ proc'[p].cmd = proc[p].cmd
               /\ proc'[p].st = proc[p].st
               /\ proc'[p].next = proc[p].next /\ proc'[p].old = proc[p].old
               /\ UNCHANGED <<lock, accepted>>
            \/ /\ proc[p].write = "commit" /\ Cmd(p) # "run"
               /\ proc'[p] = Idle /\ lock' = IF lock = p THEN None ELSE lock
               /\ accepted' = accepted \union
                                (IF Cmd(p) = "install" THEN {proc[p].cmd.rel} ELSE {})
            \/ /\ proc[p].write = "fail"
               /\ proc'[p] = Idle /\ lock' = IF lock = p THEN None ELSE lock
               /\ accepted' = accepted
<1>0. proc \in [Procs -> ProcStates] /\ proc[p] \in ProcStates  BY ProcType
<1>1. CASE proc[p].write = "startup" /\ Goto(p, "lock") /\ UNCHANGED <<lock, accepted>>
  BY <1>0, <1>1, GotoEffect DEF Labels
<1>2. CASE /\ proc[p].write = "pointer"
           /\ StartWrite(p, [proc[p] EXCEPT !.st = Activated(proc[p])], "commit")
           /\ UNCHANGED <<lock, accepted>>
  <2>1. PICK s : s = [proc[p] EXCEPT !.st = Activated(proc[p])]  OBVIOUS
  <2>2. Activated(proc[p]) \in States
    BY <1>2, CommittedState DEF CommandRight, Activating
  <2>3. /\ s \in ProcStates /\ s.cmd = proc[p].cmd /\ s.st = Activated(proc[p])
        /\ s.next = proc[p].next /\ s.old = proc[p].old
    BY <1>0, <2>1, <2>2, WithState
  <2> QED  BY <1>0, <1>2, <2>1, <2>3, StartWriteEffect DEF Writes
<1>3. CASE /\ proc[p].write = "commit"
           /\ IF Cmd(p) = "run" THEN Goto(p, "launch") /\ UNCHANGED lock ELSE Exit(p)
           /\ accepted' = accepted \union
                            (IF Cmd(p) = "install" THEN {proc[p].cmd.rel} ELSE {})
  <2>1. CASE Cmd(p) = "run"  BY <1>0, <1>3, <2>1, GotoEffect DEF Labels
  <2>2. CASE Cmd(p) # "run"  BY <1>0, <1>3, <2>2, ExitEffect
  <2> QED  BY <2>1, <2>2
<1>4. CASE proc[p].write = "fail" /\ Exit(p) /\ UNCHANGED accepted
  BY <1>0, <1>4, ExitEffect
<1> QED  BY <1>1, <1>2, <1>3, <1>4 DEF Written

LEMMA NotWrittenEffect ==
  ASSUME TypeOK, NEW p \in Procs, Writing(p), NotWritten(p)
  PROVE  /\ proc' \in [Procs -> ProcStates]
         /\ \A q \in Procs \ {p} : proc'[q] = proc[q]
         /\ accepted' = accepted
         /\ \/ /\ proc[p].write = "startup"
               /\ proc'[p].at = "lock" /\ proc'[p].cmd = proc[p].cmd /\ proc'[p].st = proc[p].st
               /\ proc'[p].next = proc[p].next /\ proc'[p].old = proc[p].old
               /\ lock' = lock
            \/ /\ Cmd(p) = "install"
               /\ proc'[p].at = "write" /\ proc'[p].cmd = proc[p].cmd /\ proc'[p].st = proc[p].st
               /\ proc'[p].next = proc[p].next /\ proc'[p].old = proc[p].old
               /\ proc'[p].write = "fail"
               /\ lock' = lock
            \/ proc'[p] = Idle /\ lock' = IF lock = p THEN None ELSE lock
<1>0. proc \in [Procs -> ProcStates] /\ proc[p] \in ProcStates  BY ProcType
<1>1. CASE proc[p].write = "startup" /\ Goto(p, "lock") /\ UNCHANGED <<lock, accepted>>
  BY <1>0, <1>1, GotoEffect DEF Labels
<1>2. CASE StartWrite(p, proc[p], "fail") /\ UNCHANGED <<lock, accepted>> /\ Cmd(p) = "install"
  BY <1>0, <1>2, StartWriteEffect DEF Writes
<1>3. CASE Exit(p) /\ UNCHANGED accepted
  BY <1>0, <1>3, ExitEffect
<1> QED  BY <1>1, <1>2, <1>3 DEF NotWritten

-----------------------------------------------------------------------------
(***************************************************************************)
(* What a step of one process has to show: the rest of the invariant holds *)
(* because slots are only ever added, and because, as long as no two       *)
(* commands have overlapped, the others are not running.                   *)
(***************************************************************************)
OwnRight(p) == ProcThere(p) /\ CommandRight(p) /\ InstallRight(p)
OwnFresh(p) == RenamesOwn(p) /\ UpToDate(p) /\ RunRight(p)

LEMMA LockKept ==
  ASSUME TypeOK, NEW p \in Procs, proc' \in [Procs -> ProcStates],
         \A q \in Procs \ {p} : proc'[q] = proc[q],
         \/ lock' = None
         \/ lock' \in {lock, p} /\ proc'[p].at # "idle"
         \/ lock' = lock /\ lock # p
  PROVE  lock' \in Running' \union {None}
<1>1. lock \in Running \union {None}  BY DEF TypeOK
<1>2. CASE lock' = None  BY <1>2
<1>3. CASE lock' = p /\ proc'[p].at # "idle"  BY <1>3 DEF Running, At
<1>4. CASE lock' = lock /\ lock # p  BY <1>1, <1>4 DEF Running, At
<1> QED  BY <1>2, <1>3, <1>4

LEMMA OthersKept ==
  ASSUME TypeOK, LauncherInv, NEW p \in Procs, NEW q \in Procs \ {p}, proc'[q] = proc[q],
         \A v \in Versions : slots[v] # None => slots'[v] = slots[v]
  PROVE  OwnRight(q)'
<1>1. OwnRight(q)  BY DEF LauncherInv, OwnRight
<1>2. \A path \in Paths \union {None} : There(path) => There(path)'
  BY DEF There, Paths
<1>3. ProcThere(q)'  BY <1>1, <1>2, ProcType DEF OwnRight, ProcThere, AllThere, There
<1>4. CommandRight(q)'
  BY <1>1 DEF OwnRight, CommandRight, Writing, Activating, Cmd
<1>5. InstallRight(q)'
  <2>1. SUFFICES ASSUME Cmd(q) = "install"  PROVE InstallRight(q)'
    BY DEF InstallRight, Cmd
  <2>2. proc[q].cmd.rel \in Releases /\ Version[proc[q].cmd.rel] \in Versions
    BY <2>1, ReleaseType
  <2>3. proc[q].cmd.rel # None  BY <2>2, LauncherAssumption
  <2> QED
    BY <1>1, <2>1, <2>2, <2>3 DEF OwnRight, InstallRight, Writing, Activating, At, Cmd
<1> QED  BY <1>3, <1>4, <1>5 DEF OwnRight

LEMMA StepFrame ==
  ASSUME TypeOK, LauncherInv, NEW p \in Running,
         \A q \in Procs \ {p} : proc'[q] = proc[q],
         \A v \in Versions : slots[v] # None => slots'[v] = slots[v],
         overlap' = overlap,
         FilesThere', OwnRight(p)',
         ~overlap => AcceptedKnown' /\ OwnFresh(p)'
  PROVE  LauncherInv'
<1>0. p \in Procs  BY DEF Running
<1>1. \A q \in Procs : OwnRight(q)'  BY <1>0, OthersKept
<1>2. ASSUME ~overlap  PROVE OneByOne' /\ AcceptedKnown' /\ \A q \in Procs : OwnFresh(q)'
  <2>1. OneByOne  BY <1>2 DEF LauncherInv
  <2>2. \A q \in Procs \ {p} : proc'[q].at = "idle"
    BY <2>1 DEF OneByOne, Running, At
  <2>3. OneByOne'  BY <2>2 DEF OneByOne, Running, At
  <2>4. ASSUME NEW q \in Procs \ {p}  PROVE OwnFresh(q)'
    <3>1. proc'[q].at = "idle" /\ q \notin Running'  BY <2>2, <2>4 DEF Running, At
    <3> QED  BY <3>1 DEF OwnFresh, RenamesOwn, UpToDate, RunRight, At
  <2> QED  BY <1>2, <2>3, <2>4
<1> QED  BY <1>1, <1>2 DEF LauncherInv, OwnRight, OwnFresh

\* A step that touches neither the disk nor the history.
LEMMA QuietStep ==
  ASSUME TypeOK, LauncherInv, NEW p \in Running, UNCHANGED <<disk, accepted, bounds>>,
         proc' \in [Procs -> ProcStates], \A q \in Procs \ {p} : proc'[q] = proc[q],
         \/ lock' = None
         \/ lock' \in {lock, p} /\ proc'[p].at # "idle"
         \/ lock' = lock /\ lock # p,
         OwnRight(p)', ~overlap => OwnFresh(p)'
  PROVE  TypeOK' /\ LauncherInv'
<1>0. p \in Procs  BY DEF Running
<1>1. lock' \in Running' \union {None}  BY <1>0, LockKept
<1>2. TypeOK'  BY <1>1 DEF TypeOK, disk, bounds
<1>3. FilesThere'
  BY DEF LauncherInv, FilesThere, AllThere, There, disk
<1>4. ~overlap => AcceptedKnown'
  BY DEF LauncherInv, AcceptedKnown, HighestOnDisk, disk
<1> QED  BY <1>2, <1>3, <1>4, StepFrame DEF disk, bounds

LEMMA IdleRight ==
  ASSUME NEW p \in Procs, proc'[p] = Idle
  PROVE  OwnRight(p)' /\ OwnFresh(p)'
<1>1. /\ Idle.at = "idle" /\ Idle.cmd.name = "run" /\ Idle.next = None /\ Idle.old = None
      /\ Idle.st.active = None /\ Idle.st.previous = None
  BY DEF Idle, NewState
<1>2. OwnRight(p)'
  BY <1>1 DEF OwnRight, ProcThere, AllThere, There, CommandRight, InstallRight,
              Writing, Activating, At, Cmd
<1>3. OwnFresh(p)'
  BY <1>1 DEF OwnFresh, RenamesOwn, UpToDate, RunRight, Running, At
<1> QED  BY <1>2, <1>3

LEMMA ExitStep ==
  ASSUME TypeOK, LauncherInv, NEW p \in Running, Exit(p), UNCHANGED <<disk, accepted, bounds>>
  PROVE  TypeOK' /\ LauncherInv'
<1>0. p \in Procs  BY DEF Running
<1>1. /\ proc' \in [Procs -> ProcStates] /\ proc'[p] = Idle
      /\ \A q \in Procs \ {p} : proc'[q] = proc[q]
      /\ lock' = IF lock = p THEN None ELSE lock
  BY <1>0, ProcType, ExitEffect
<1> QED  BY <1>0, <1>1, IdleRight, QuietStep

\* An install gives up, and records that; or it goes on to its next phase.
LEMMA FailStep ==
  ASSUME TypeOK, LauncherInv, NEW p \in Running,
         proc[p].at \in {"check", "stage", "move", "verify"},
         StartWrite(p, proc[p], "fail"), UNCHANGED <<disk, lock, accepted, bounds>>
  PROVE  TypeOK' /\ LauncherInv'
<1>0. p \in Procs  BY DEF Running
<1>1. /\ proc' \in [Procs -> ProcStates] /\ \A q \in Procs \ {p} : proc'[q] = proc[q]
      /\ proc'[p].at = "write" /\ proc'[p].cmd = proc[p].cmd /\ proc'[p].st = proc[p].st
      /\ proc'[p].next = proc[p].next /\ proc'[p].old = proc[p].old /\ proc'[p].write = "fail"
  BY <1>0, ProcType, StartWriteEffect DEF Writes
<1>2. OwnRight(p) /\ Cmd(p) = "install"
  BY <1>0 DEF LauncherInv, OwnRight, CommandRight
<1>3. ProcThere(p)'
  BY <1>1, <1>2 DEF OwnRight, ProcThere, AllThere, There, disk
<1>4. CommandRight(p)' /\ InstallRight(p)'
  BY <1>1, <1>2 DEF CommandRight, InstallRight, Writing, Activating, At, Cmd
<1>5. ~overlap => OwnFresh(p)'
  <2>1. ~overlap => UpToDate(p)  BY <1>0 DEF LauncherInv
  <2>2. ~overlap => UpToDate(p)'
    BY <1>1, <2>1 DEF UpToDate, Running, At, HighestOnDisk, disk
  <2>3. RenamesOwn(p)' /\ RunRight(p)'
    BY <1>1, <1>2 DEF RenamesOwn, RunRight, At, Cmd
  <2> QED  BY <2>2, <2>3 DEF OwnFresh
<1> QED  BY <1>1, <1>3, <1>4, <1>5, QuietStep DEF OwnRight

LEMMA NextPhase ==
  ASSUME TypeOK, LauncherInv, NEW p \in Running, proc[p].at \in {"check", "stage"},
         NEW a \in {"stage", "move"},
         Goto(p, a), UNCHANGED <<disk, lock, accepted, bounds>>
  PROVE  TypeOK' /\ LauncherInv'
<1>0. p \in Procs  BY DEF Running
<1>1. /\ proc' \in [Procs -> ProcStates] /\ \A q \in Procs \ {p} : proc'[q] = proc[q]
      /\ proc'[p].at = a /\ proc'[p].cmd = proc[p].cmd /\ proc'[p].st = proc[p].st
      /\ proc'[p].next = proc[p].next /\ proc'[p].old = proc[p].old
  BY <1>0, ProcType, GotoEffect DEF Labels
<1>2. OwnRight(p) /\ Cmd(p) = "install"
  BY <1>0 DEF LauncherInv, OwnRight, CommandRight
<1>3. ProcThere(p)'
  BY <1>1, <1>2 DEF OwnRight, ProcThere, AllThere, There, disk
<1>4. CommandRight(p)' /\ InstallRight(p)'
  BY <1>1, <1>2 DEF CommandRight, InstallRight, Writing, Activating, At, Cmd
<1>5. ~overlap => OwnFresh(p)'
  <2>1. ~overlap => UpToDate(p)  BY <1>0 DEF LauncherInv
  <2>2. ~overlap => UpToDate(p)'
    BY <1>1, <2>1 DEF UpToDate, Running, At, HighestOnDisk, disk
  <2>3. RenamesOwn(p)' /\ RunRight(p)'
    BY <1>1, <1>2 DEF RenamesOwn, RunRight, At, Cmd
  <2> QED  BY <2>2, <2>3 DEF OwnFresh
<1> QED  BY <1>1, <1>3, <1>4, <1>5, QuietStep DEF OwnRight

-----------------------------------------------------------------------------
(* The actions that leave the disk alone. *)

LEMMA StartStep ==
  ASSUME TypeOK, LauncherInv, NEW p \in Procs, NEW cmd \in Commands, Start(p, cmd)
  PROVE  TypeOK' /\ LauncherInv'
<1>0. PICK r : r = [Idle EXCEPT !.at = "load", !.cmd = cmd]  OBVIOUS
<1>1. /\ r \in ProcStates /\ r.at = "load" /\ r.cmd = cmd /\ r.st = NewState
      /\ r.next = None /\ r.old = None
  BY <1>0, IdleType, LauncherAssumption DEF ProcStates, Labels, Idle
<1>2. proc' \in [Procs -> ProcStates] /\ proc'[p] = r /\ \A q \in Procs \ {p} : proc'[q] = proc[q]
  BY <1>0, <1>1, ProcType, SetProcEffect DEF Start
<1>3. UNCHANGED <<disk, lock, accepted>> /\ overlap' = (overlap \/ Running # {})
  BY DEF Start
<1>4. TypeOK'
  <2>1. lock' \in Running' \union {None}  BY <1>1, <1>2, <1>3, LockKept DEF TypeOK
  <2>2. starts' \in 0 .. MaxStarts  BY LauncherAssumption DEF Start, TypeOK
  <2>3. overlap' \in BOOLEAN  BY <1>3 DEF TypeOK
  <2> QED  BY <1>2, <1>3, <2>1, <2>2, <2>3 DEF TypeOK, disk
<1>5. OwnRight(p)' /\ OwnFresh(p)'
  <2>1. r.st.active = None /\ r.st.previous = None  BY <1>1 DEF NewState
  <2>2. OwnRight(p)'
    BY <1>1, <1>2, <2>1 DEF OwnRight, ProcThere, AllThere, There, CommandRight, InstallRight,
                            Writing, Activating, At, Cmd
  <2>3. OwnFresh(p)'
    BY <1>1, <1>2 DEF OwnFresh, RenamesOwn, UpToDate, RunRight, Running, At
  <2> QED  BY <2>2, <2>3
<1>6. \A q \in Procs : OwnRight(q)'  BY <1>2, <1>3, <1>5, OthersKept DEF disk
<1>7. FilesThere'  BY <1>3 DEF LauncherInv, FilesThere, AllThere, There, disk
<1>8. ASSUME ~overlap'  PROVE OneByOne' /\ AcceptedKnown' /\ \A q \in Procs : OwnFresh(q)'
  <2>1. ~overlap /\ Running = {}  BY <1>3, <1>8 DEF TypeOK
  <2>2. \A q \in Procs \ {p} : proc'[q].at = "idle"  BY <1>2, <2>1 DEF Running, At
  <2>3. OneByOne'  BY <2>2 DEF OneByOne, Running, At
  <2>4. AcceptedKnown'  BY <1>3, <2>1 DEF LauncherInv, AcceptedKnown, HighestOnDisk, disk
  <2>5. ASSUME NEW q \in Procs \ {p}  PROVE OwnFresh(q)'
    <3>1. proc'[q].at = "idle" /\ q \notin Running'  BY <2>2, <2>5 DEF Running, At
    <3> QED  BY <3>1 DEF OwnFresh, RenamesOwn, UpToDate, RunRight, At
  <2> QED  BY <1>5, <2>3, <2>4, <2>5
<1> QED  BY <1>4, <1>6, <1>7, <1>8 DEF LauncherInv, OwnRight, OwnFresh

LEMMA LoadStep ==
  ASSUME TypeOK, LauncherInv, NEW p \in Running, Load(p)
  PROVE  TypeOK' /\ LauncherInv'
<1>0. p \in Procs  BY DEF Running
<1>1. At(p, "load") /\ UNCHANGED <<disk, lock, accepted, bounds>>  BY DEF Load
<1>2. PICK r : r = [proc[p] EXCEPT !.st = LoadOrSeed]  OBVIOUS
<1>3. /\ r \in ProcStates /\ r.cmd = proc[p].cmd /\ r.st = LoadOrSeed
      /\ r.next = proc[p].next /\ r.old = proc[p].old
  BY <1>0, <1>2, ProcType, LoadedState, WithState
<1>4. /\ proc' \in [Procs -> ProcStates] /\ \A q \in Procs \ {p} : proc'[q] = proc[q]
      /\ proc'[p].cmd = proc[p].cmd /\ proc'[p].st = LoadOrSeed
      /\ proc'[p].next = proc[p].next /\ proc'[p].old = proc[p].old
      /\ \/ proc'[p].at = "write" /\ proc'[p].write = "startup" /\ Cmd(p) = "run"
         \/ proc'[p].at = "lock"
  <2>1. CASE Cmd(p) = "run"
    <3>1. StartWrite(p, r, "startup")  BY <1>2, <2>1 DEF Load
    <3> QED  BY <1>0, <1>3, <2>1, <3>1, ProcType, StartWriteEffect DEF Writes
  <2>2. CASE Cmd(p) # "run"
    <3>1. PICK s : s = [r EXCEPT !.at = "lock"]  OBVIOUS
    <3>2. "lock" \in Labels  BY DEF Labels
    <3>3. /\ s \in ProcStates /\ s.at = "lock" /\ s.cmd = r.cmd /\ s.st = r.st
          /\ s.next = r.next /\ s.old = r.old
      BY <1>3, <3>1, <3>2, Moved
    <3>4. SetProc(p, s)  BY <1>2, <2>2, <3>1 DEF Load
    <3> QED  BY <1>0, <1>3, <3>3, <3>4, ProcType, SetProcEffect
  <2> QED  BY <2>1, <2>2
<1>5. OwnRight(p)'
  <2>1. AllThere(LoadOrSeed) /\ ProcThere(p)  BY <1>0, LoadedState DEF LauncherInv
  <2>2. ProcThere(p)'  BY <1>1, <1>4, <2>1 DEF ProcThere, AllThere, There, disk
  <2>3. CommandRight(p)' /\ InstallRight(p)'
    BY <1>4 DEF CommandRight, InstallRight, Writing, Activating, At, Cmd
  <2> QED  BY <2>2, <2>3 DEF OwnRight
<1>6. OwnFresh(p)'
  <2>1. LoadOrSeed.highest = HighestOnDisk /\ HighestOnDisk' = HighestOnDisk
    BY <1>1, LoadedState DEF HighestOnDisk, disk
  <2>2. HighestOnDisk \in Int  BY DEF HighestOnDisk, TypeOK, States
  <2>3. RenamesOwn(p)'  BY <1>4 DEF RenamesOwn, At
  <2>6. UpToDate(p)'
    <3>1. proc'[p].st.highest >= HighestOnDisk'  BY <1>4, <2>1, <2>2
    <3> QED  BY <3>1 DEF UpToDate
  <2>4. ActiveOnDisk' = ActiveOnDisk  BY <1>1 DEF ActiveOnDisk, disk
  <2>5. RunRight(p)'
    BY <1>4, <2>4, LoadedState DEF RunRight, Writing, Activating
  <2> QED  BY <2>3, <2>5, <2>6 DEF OwnFresh
<1> QED  BY <1>1, <1>4, <1>5, <1>6, QuietStep

LEMMA TryLockStep ==
  ASSUME TypeOK, LauncherInv, NEW p \in Running, TryLock(p)
  PROVE  TypeOK' /\ LauncherInv'
<1>0. p \in Procs  BY DEF Running
<1>1. At(p, "lock") /\ UNCHANGED <<disk, accepted, bounds>>  BY DEF TryLock
<1>2. CASE Exit(p)  BY <1>1, <1>2, ExitStep
<1>3. CASE Goto(p, AfterLock(p)) /\ lock' \in {lock, p}
  <2>1. /\ AfterLock(p) \in {"check", "resolve"}
        /\ AfterLock(p) = "check" => Cmd(p) = "install"
    BY DEF AfterLock
  <2>2. /\ proc' \in [Procs -> ProcStates] /\ \A q \in Procs \ {p} : proc'[q] = proc[q]
        /\ proc'[p].at = AfterLock(p) /\ proc'[p].cmd = proc[p].cmd /\ proc'[p].st = proc[p].st
        /\ proc'[p].next = proc[p].next /\ proc'[p].old = proc[p].old
    BY <1>0, <1>3, <2>1, ProcType, GotoEffect DEF Labels
  <2>3. OwnRight(p)'
    <3>1. ProcThere(p)  BY <1>0 DEF LauncherInv
    <3>2. ProcThere(p)'  BY <1>1, <2>2, <3>1 DEF ProcThere, AllThere, There, disk
    <3>3. CommandRight(p)' /\ InstallRight(p)'
      BY <2>1, <2>2 DEF CommandRight, InstallRight, Writing, Activating, At, Cmd
    <3> QED  BY <3>2, <3>3 DEF OwnRight
  <2>4. ASSUME ~overlap  PROVE OwnFresh(p)'
    <3>1. UpToDate(p) /\ RunRight(p)  BY <1>0, <2>4 DEF LauncherInv
    <3>2. RenamesOwn(p)'  BY <2>1, <2>2 DEF RenamesOwn, At
    <3>3. UpToDate(p)'
      BY <1>1, <2>2, <3>1 DEF UpToDate, Running, At, HighestOnDisk, disk
    <3>4. RunRight(p)'
      BY <1>1, <2>1, <2>2, <3>1 DEF RunRight, ActiveOnDisk, Writing, Activating, At, Cmd, disk
    <3> QED  BY <3>2, <3>3, <3>4 DEF OwnFresh
  <2> QED  BY <1>1, <1>3, <2>1, <2>2, <2>3, <2>4, QuietStep
<1> QED  BY <1>2, <1>3 DEF TryLock

LEMMA CheckSequenceStep ==
  ASSUME TypeOK, LauncherInv, NEW p \in Running, CheckSequence(p)
  PROVE  TypeOK' /\ LauncherInv'
BY FailStep, NextPhase DEF CheckSequence, At

LEMMA StageStep ==
  ASSUME TypeOK, LauncherInv, NEW p \in Running, Stage(p)
  PROVE  TypeOK' /\ LauncherInv'
BY FailStep, NextPhase DEF Stage, At

\* A process that has chosen the slot to activate starts to write the pointer.
LEMMA ActivateStep ==
  ASSUME TypeOK, LauncherInv, NEW p \in Running, At(p, "verify") \/ At(p, "resolve"),
         NEW next \in Paths, NEW old \in Paths \union {None}, There(next), There(old),
         StartWrite(p, [proc[p] EXCEPT !.next = next, !.old = old], "pointer"),
         UNCHANGED <<disk, lock, accepted, bounds>>,
         Cmd(p) = "install" => At(p, "verify") /\ next = Version[proc[p].cmd.rel],
         Cmd(p) = "run" /\ ActiveOnDisk # None /\ proc[p].st.active = ActiveOnDisk
           => ActiveOnDisk \in broken
  PROVE  TypeOK' /\ LauncherInv'
<1>0. p \in Procs  BY DEF Running
<1>1. PICK r : r = [proc[p] EXCEPT !.next = next, !.old = old]  OBVIOUS
<1>2. r \in ProcStates /\ r.cmd = proc[p].cmd /\ r.st = proc[p].st /\ r.next = next /\ r.old = old
  <2>1. proc[p] \in ProcStates /\ next \in Paths \union {None}  BY <1>0, ProcType
  <2> QED  BY <1>1, <2>1 DEF ProcStates
<1>3. /\ proc' \in [Procs -> ProcStates] /\ \A q \in Procs \ {p} : proc'[q] = proc[q]
      /\ proc'[p].at = "write" /\ proc'[p].cmd = proc[p].cmd /\ proc'[p].st = proc[p].st
      /\ proc'[p].next = next /\ proc'[p].old = old /\ proc'[p].write = "pointer"
  BY <1>0, <1>1, <1>2, ProcType, StartWriteEffect DEF Writes
<1>4. next # None  BY LauncherAssumption
<1>5. OwnRight(p)'
  <2>1. ProcThere(p) /\ InstallRight(p)  BY <1>0 DEF LauncherInv
  <2>2. ProcThere(p)'  BY <1>3, <2>1 DEF ProcThere, AllThere, There, disk
  <2>3. CommandRight(p)'  BY <1>3, <1>4 DEF CommandRight, Writing, Activating, At, Cmd
  <2>4. InstallRight(p)'
    BY <1>3, <2>1 DEF InstallRight, Writing, Activating, At, Cmd, disk
  <2> QED  BY <2>2, <2>3, <2>4 DEF OwnRight
<1>6. ASSUME ~overlap  PROVE OwnFresh(p)'
  <2>1. UpToDate(p) /\ RunRight(p)  BY <1>0, <1>6 DEF LauncherInv
  <2>2. RenamesOwn(p)'  BY <1>3 DEF RenamesOwn, At
  <2>3. UpToDate(p)'
    BY <1>3, <2>1 DEF UpToDate, Running, At, HighestOnDisk, disk
  <2>4. RunRight(p)'
    BY <1>3, <2>1 DEF RunRight, ActiveOnDisk, Writing, Activating, At, Cmd, disk
  <2> QED  BY <2>2, <2>3, <2>4 DEF OwnFresh
<1> QED  BY <1>3, <1>5, <1>6, QuietStep

\* The slot that ResolveActive names is there, unless nothing names one.
LEMMA ResolvedThere ==
  ASSUME TypeOK, LauncherInv, NEW p \in Procs
  PROVE  LET active == ResolveActive(proc[p].st) IN
         /\ active \in Paths /\ There(active)
         /\ Verified(active, TRUE) \/ active \in broken
<1> DEFINE active == ResolveActive(proc[p].st)
<1>1. active \in Paths /\ active # None
  BY ProcType, LauncherAssumption DEF ResolveActive, TypeOK, Paths
<1>2. There(active)
  BY DEF LauncherInv, FilesThere, ProcThere, AllThere, There, ResolveActive
<1> QED  BY <1>1, <1>2 DEF There, Verified

LEMMA VerifyInstalledStep ==
  ASSUME TypeOK, LauncherInv, NEW p \in Running, VerifyInstalled(p)
  PROVE  TypeOK' /\ LauncherInv'
<1>0. p \in Procs  BY DEF Running
<1>1. PICK path, old : path = Version[proc[p].cmd.rel] /\ old = ResolveActive(proc[p].st)
  OBVIOUS
<1>2. Cmd(p) = "install" /\ At(p, "verify") /\ InstallRight(p)
  BY <1>0 DEF VerifyInstalled, LauncherInv, CommandRight, At
<1>3. path \in Versions /\ There(path)
  BY <1>0, <1>1, <1>2, ReleaseType, LauncherAssumption DEF InstallRight, There
<1>4. CASE ~Verified(path, FALSE)
  BY <1>1, <1>2, <1>4, FailStep DEF VerifyInstalled, At
<1>5. CASE Verified(path, FALSE)
  <2>1. PICK x : x = IF Verified(old, TRUE) THEN old ELSE None  OBVIOUS
  <2>2. x \in Paths \union {None} /\ There(x)
    BY <1>0, <1>1, <2>1, ResolvedThere DEF There
  <2>3. StartWrite(p, [proc[p] EXCEPT !.next = path, !.old = x], "pointer")
    BY <1>1, <1>5, <2>1 DEF VerifyInstalled
  <2>4. path \in Paths  BY <1>3 DEF Paths
  <2>5. UNCHANGED <<disk, lock, accepted, bounds>>  BY DEF VerifyInstalled
  <2> QED  BY <1>1, <1>2, <1>3, <2>2, <2>3, <2>4, <2>5, ActivateStep
<1> QED  BY <1>4, <1>5

LEMMA ResolveRunStep ==
  ASSUME TypeOK, LauncherInv, NEW p \in Running, ResolveRun(p)
  PROVE  TypeOK' /\ LauncherInv'
<1>0. p \in Procs  BY DEF Running
<1>1. PICK active : active = ResolveActive(proc[p].st)  OBVIOUS
<1>2. At(p, "resolve") /\ Cmd(p) = "run" /\ UNCHANGED <<disk, accepted, bounds>>
  BY DEF ResolveRun
<1>3. active \in Paths /\ There(active) /\ (Verified(active, TRUE) \/ active \in broken)
  BY <1>0, <1>1, ResolvedThere
<1>4. ProcThere(p)  BY <1>0 DEF LauncherInv
<1>5. CASE Verified(active, TRUE)
  <2>1. PICK r : r = [proc[p] EXCEPT !.at = "launch", !.next = active]  OBVIOUS
  <2>2. /\ r \in ProcStates /\ r.at = "launch" /\ r.cmd = proc[p].cmd /\ r.st = proc[p].st
        /\ r.next = active /\ r.old = proc[p].old
    BY <1>0, <1>3, <2>1, ProcType DEF ProcStates, Labels
  <2>3. SetProc(p, r) /\ lock' = lock  BY <1>1, <1>5, <2>1 DEF ResolveRun
  <2>4. proc' \in [Procs -> ProcStates] /\ proc'[p] = r /\ \A q \in Procs \ {p} : proc'[q] = proc[q]
    BY <1>0, <2>2, <2>3, ProcType, SetProcEffect
  <2>5. OwnRight(p)'
    <3>1. ProcThere(p)'
      BY <1>2, <1>3, <1>4, <2>2, <2>4 DEF ProcThere, AllThere, There, disk
    <3>2. CommandRight(p)' /\ InstallRight(p)'
      BY <1>2, <2>2, <2>4 DEF CommandRight, InstallRight, Writing, Activating, At, Cmd
    <3> QED  BY <3>1, <3>2 DEF OwnRight
  <2>6. ASSUME ~overlap  PROVE OwnFresh(p)'
    <3>1. UpToDate(p)  BY <1>0, <2>6 DEF LauncherInv
    <3>2. UpToDate(p)'
      BY <1>2, <2>2, <2>4, <3>1 DEF UpToDate, Running, At, HighestOnDisk, disk
    <3>3. RenamesOwn(p)' /\ RunRight(p)'
      BY <2>2, <2>4 DEF RenamesOwn, RunRight, At
    <3> QED  BY <3>2, <3>3 DEF OwnFresh
  <2> QED  BY <1>2, <2>2, <2>3, <2>4, <2>5, <2>6, QuietStep
<1>6. CASE ~Verified(active, TRUE) /\ PreviousUsable(proc[p].st)
  <2>1. PICK next : next = proc[p].st.previous  OBVIOUS
  <2>2. next \in Paths /\ There(next)
    BY <1>0, <1>4, <1>6, <2>1, ProcType DEF PreviousUsable, ProcThere, AllThere
  <2>3. StartWrite(p, [proc[p] EXCEPT !.next = next, !.old = Seed], "pointer") /\ lock' = lock
    BY <1>1, <1>6, <2>1 DEF ResolveRun
  <2>4. proc[p].st.active = ActiveOnDisk /\ ActiveOnDisk # None => ActiveOnDisk \in broken
    BY <1>1, <1>3, <1>6 DEF ResolveActive
  <2>5. Seed \in Paths /\ There(Seed)  BY DEF Paths, There
  <2> QED  BY <1>2, <2>2, <2>3, <2>4, <2>5, ActivateStep
<1>7. CASE Exit(p)  BY <1>2, <1>7, ExitStep
<1> QED  BY <1>1, <1>5, <1>6, <1>7 DEF ResolveRun

LEMMA ResolveRollbackStep ==
  ASSUME TypeOK, LauncherInv, NEW p \in Running, ResolveRollback(p)
  PROVE  TypeOK' /\ LauncherInv'
<1>0. p \in Procs  BY DEF Running
<1>1. PICK old : old = ResolveActive(proc[p].st)  OBVIOUS
<1>2. At(p, "resolve") /\ Cmd(p) = "rollback" /\ UNCHANGED <<disk, accepted, bounds>>
  BY DEF ResolveRollback
<1>3. CASE PreviousUsable(proc[p].st)
  <2>1. PICK next, x : /\ next = proc[p].st.previous
                       /\ x = IF Verified(old, TRUE) THEN old ELSE None
    OBVIOUS
  <2>2. x \in Paths \union {None} /\ There(x)
    BY <1>0, <1>1, <2>1, ResolvedThere DEF There
  <2>3. next \in Paths /\ There(next)
    BY <1>0, <1>3, <2>1, ProcType DEF PreviousUsable, LauncherInv, ProcThere, AllThere
  <2>4. StartWrite(p, [proc[p] EXCEPT !.next = next, !.old = x], "pointer") /\ lock' = lock
    BY <1>1, <1>3, <2>1 DEF ResolveRollback
  <2> QED  BY <1>2, <2>2, <2>3, <2>4, ActivateStep
<1>4. CASE Exit(p)  BY <1>2, <1>4, ExitStep
<1> QED  BY <1>1, <1>3, <1>4 DEF ResolveRollback

-----------------------------------------------------------------------------
(* The actions that change the disk. *)

LEMMA FileType ==
  ASSUME TypeOK, NEW p \in Procs
  PROVE  /\ FileOf(proc[p].write) \in {"state", "current"}
         /\ FileOf(proc[p].write) = "current" <=> proc[p].write = "pointer"
BY DEF FileOf

\* What WriteAtomic is to put in place.
Content(p) == IF proc[p].write = "pointer" THEN proc[p].next ELSE proc[p].st

LEMMA ContentRight ==
  ASSUME TypeOK, LauncherInv, NEW p \in Procs, Writing(p)
  PROVE  IF proc[p].write = "pointer"
         THEN Content(p) \in Paths /\ There(Content(p))
         ELSE Content(p) \in States /\ Content(p) # None /\ AllThere(Content(p))
<1>1. CommandRight(p) /\ ProcThere(p)  BY DEF LauncherInv
<1>2. proc[p].write = "pointer" => proc[p].next # None  BY <1>1 DEF CommandRight, Activating
<1>3. proc[p].st # None  BY ProcType, LauncherAssumption
<1> QED  BY <1>1, <1>2, <1>3, ProcType DEF Content, ProcThere

\* The two files after one of them has got new content.
LEMMA FileSet ==
  ASSUME NEW f, DOMAIN f = {"state", "current"}, NEW x \in {"state", "current"}, NEW c, NEW g,
         g = [f EXCEPT ![x] = c]
  PROVE  /\ DOMAIN g = {"state", "current"}
         /\ g[x] = c
         /\ \A y \in {"state", "current"} \ {x} : g[y] = f[y]
OBVIOUS

LEMMA WriteTempStep ==
  ASSUME TypeOK, LauncherInv, NEW p \in Running, WriteTemp(p)
  PROVE  TypeOK' /\ LauncherInv'
<1>0. p \in Procs  BY DEF Running
<1>1. /\ At(p, "write") /\ Goto(p, "rename")
      /\ UNCHANGED <<file, slots, broken, lock, accepted, bounds>>
  BY DEF WriteTemp
<1>2. PICK x : x = FileOf(proc[p].write)  OBVIOUS
<1>3. x \in {"state", "current"} /\ (x = "current" <=> proc[p].write = "pointer")
  BY <1>0, <1>2, FileType
<1>4. /\ DOMAIN temp' = {"state", "current"} /\ temp'[x] = Content(p)
      /\ \A y \in {"state", "current"} \ {x} : temp'[y] = temp[y]
  <2>1. temp' = [temp EXCEPT ![x] = Content(p)]  BY <1>2 DEF WriteTemp, Content
  <2>2. DOMAIN temp = {"state", "current"}  BY DEF TypeOK
  <2> QED  BY <1>3, <2>1, <2>2, FileSet
<1>5. /\ proc' \in [Procs -> ProcStates] /\ \A q \in Procs \ {p} : proc'[q] = proc[q]
      /\ proc'[p].at = "rename" /\ proc'[p].cmd = proc[p].cmd /\ proc'[p].st = proc[p].st
      /\ proc'[p].next = proc[p].next /\ proc'[p].old = proc[p].old
      /\ proc'[p].write = proc[p].write
  BY <1>0, <1>1, ProcType, GotoEffect DEF Labels
<1>6. Writing(p)  BY <1>1 DEF Writing, At
<1>7. TypeOK'
  <2>1. lock' \in Running' \union {None}
    BY <1>0, <1>1, <1>5, LockKept
  <2>2. /\ temp'["state"] \in States \union {None}
        /\ temp'["current"] \in Paths \union {None}
    BY <1>0, <1>3, <1>4, <1>6, ContentRight DEF TypeOK
  <2> QED  BY <1>1, <1>4, <1>5, <2>1, <2>2 DEF TypeOK, bounds
<1>8. FilesThere'
  <2>1. There(temp'["current"]) /\ (temp'["state"] # None => AllThere(temp'["state"]))
    BY <1>0, <1>3, <1>4, <1>6, ContentRight DEF LauncherInv, FilesThere
  <2>2. There(file["current"]) /\ (file["state"] # None => AllThere(file["state"]))
    BY DEF LauncherInv, FilesThere
  <2> QED  BY <1>1, <2>1, <2>2 DEF FilesThere, AllThere, There
<1>9. OwnRight(p)'
  <2>1. OwnRight(p)  BY <1>0 DEF LauncherInv, OwnRight
  <2>2. ProcThere(p)'
    BY <1>1, <1>5, <2>1 DEF OwnRight, ProcThere, AllThere, There
  <2>3. CommandRight(p)'
    BY <1>1, <1>5, <2>1 DEF OwnRight, CommandRight, Writing, Activating, At, Cmd
  <2>4. InstallRight(p)'
    BY <1>1, <1>5, <2>1 DEF OwnRight, InstallRight, Writing, Activating, At, Cmd
  <2> QED  BY <2>2, <2>3, <2>4 DEF OwnRight
<1>10. ASSUME ~overlap  PROVE AcceptedKnown' /\ OwnFresh(p)'
  <2>1. AcceptedKnown /\ UpToDate(p) /\ RunRight(p)  BY <1>0, <1>10 DEF LauncherInv
  <2>2. AcceptedKnown'  BY <1>1, <2>1 DEF AcceptedKnown, HighestOnDisk
  <2>3. UpToDate(p)'
    BY <1>1, <1>5, <2>1 DEF UpToDate, Running, At, HighestOnDisk
  <2>4. RunRight(p)'
    BY <1>1, <1>5, <2>1 DEF RunRight, ActiveOnDisk, Writing, Activating, At, Cmd
  <2>5. RenamesOwn(p)'
    <3>1. temp'[FileOf(proc'[p].write)] = Content(p)  BY <1>2, <1>4, <1>5
    <3> QED  BY <1>5, <3>1 DEF RenamesOwn, Content
  <2> QED  BY <2>2, <2>3, <2>4, <2>5 DEF OwnFresh
<1> QED  BY <1>1, <1>5, <1>7, <1>8, <1>9, <1>10, StepFrame DEF bounds

LEMMA MoveToSlotStep ==
  ASSUME TypeOK, LauncherInv, NEW p \in Running, MoveToSlot(p)
  PROVE  TypeOK' /\ LauncherInv'
<1>0. p \in Procs  BY DEF Running
<1>1. At(p, "move") /\ UNCHANGED <<file, temp, broken, lock, accepted, bounds>>
  BY DEF MoveToSlot
<1>2. OwnRight(p) /\ Cmd(p) = "install"
  BY <1>0, <1>1 DEF LauncherInv, OwnRight, CommandRight, At
<1>3. PICK rel, own : rel = proc[p].cmd.rel /\ own = Version[rel]  OBVIOUS
<1>4. rel \in Releases /\ own \in Versions /\ rel # None
  BY <1>0, <1>2, <1>3, ReleaseType, LauncherAssumption
<1>5. CASE StartWrite(p, proc[p], "fail") /\ UNCHANGED slots
  BY <1>1, <1>5, FailStep DEF At, disk
<1>6. CASE /\ slots[own] = None
           /\ slots' = [slots EXCEPT ![own] = rel]
           /\ Goto(p, "verify")
  <2>1. /\ proc' \in [Procs -> ProcStates] /\ \A q \in Procs \ {p} : proc'[q] = proc[q]
        /\ proc'[p].at = "verify" /\ proc'[p].cmd = proc[p].cmd /\ proc'[p].st = proc[p].st
        /\ proc'[p].next = proc[p].next /\ proc'[p].old = proc[p].old
    BY <1>0, <1>6, ProcType, GotoEffect DEF Labels
  <2>2. /\ slots' \in [Versions -> Releases \union {None}]
        /\ slots'[own] = rel /\ \A v \in Versions \ {own} : slots'[v] = slots[v]
    BY <1>4, <1>6 DEF TypeOK
  <2>3. \A v \in Versions : slots[v] # None => slots'[v] = slots[v]
    BY <1>6, <2>2
  <2>4. TypeOK'
    <3>1. lock' \in Running' \union {None}  BY <1>0, <1>1, <2>1, LockKept
    <3>2. \A v \in Versions : slots'[v] # None => Version[slots'[v]] = v
      BY <1>3, <2>2 DEF TypeOK
    <3>3. broken' \subseteq {v \in Versions : slots'[v] # None}
      BY <1>1, <2>3 DEF TypeOK
    <3> QED  BY <1>1, <2>1, <2>2, <3>1, <3>2, <3>3 DEF TypeOK, bounds
  <2>5. \A path \in Paths \union {None} : There(path) => There(path)'
    BY <2>3 DEF There, Paths
  <2>6. FilesThere'
    <3>1. \A f \in {file, temp} : There(f["current"])' /\ (f["state"] # None => AllThere(f["state"])')
      BY <2>5 DEF LauncherInv, FilesThere, AllThere, TypeOK, States
    <3> QED  BY <1>1, <3>1 DEF FilesThere, AllThere, There
  <2>7. OwnRight(p)'
    <3>1. ProcThere(p)'
      <4> DEFINE named == {proc[p].st.active, proc[p].st.previous, proc[p].next, proc[p].old}
      <4>1. \A path \in named : path \in Paths \union {None} /\ There(path)
        BY <1>0, <1>2, ProcType DEF OwnRight, ProcThere, AllThere
      <4>2. \A path \in named : There(path)'  BY <2>5, <4>1
      <4> QED  BY <2>1, <4>2 DEF ProcThere, AllThere
    <3>2. CommandRight(p)' /\ InstallRight(p)'
      BY <1>2, <1>3, <2>1, <2>2 DEF CommandRight, InstallRight, Writing, Activating, At, Cmd
    <3> QED  BY <3>1, <3>2 DEF OwnRight
  <2>8. ASSUME ~overlap  PROVE AcceptedKnown' /\ OwnFresh(p)'
    <3>1. AcceptedKnown /\ UpToDate(p)  BY <1>0, <2>8 DEF LauncherInv
    <3>2. AcceptedKnown'  BY <1>1, <3>1 DEF AcceptedKnown, HighestOnDisk
    <3>3. UpToDate(p)'
      BY <1>1, <2>1, <3>1 DEF UpToDate, Running, At, HighestOnDisk
    <3>4. RenamesOwn(p)' /\ RunRight(p)'
      BY <1>2, <2>1 DEF RenamesOwn, RunRight, At, Cmd
    <3> QED  BY <3>2, <3>3, <3>4 DEF OwnFresh
  <2> QED  BY <1>1, <2>1, <2>3, <2>4, <2>6, <2>7, <2>8, StepFrame DEF bounds
<1> QED  BY <1>3, <1>5, <1>6 DEF MoveToSlot

LEMMA RemoveStep ==
  ASSUME TypeOK, LauncherInv, NEW p \in Running, Remove(p)
  PROVE  TypeOK' /\ LauncherInv'
<1>0. p \in Procs  BY DEF Running
<1>1. /\ At(p, "remove") /\ Goto(p, "rename again")
      /\ UNCHANGED <<temp, slots, broken, lock, accepted, bounds>>
  BY DEF Remove
<1>2. PICK x : x = FileOf(proc[p].write)  OBVIOUS
<1>3. /\ DOMAIN file' = {"state", "current"} /\ file'[x] = None
      /\ \A y \in {"state", "current"} \ {x} : file'[y] = file[y]
  <2>1. file' = [file EXCEPT ![x] = None]  BY <1>2 DEF Remove
  <2>2. DOMAIN file = {"state", "current"}  BY DEF TypeOK
  <2>3. x \in {"state", "current"}  BY <1>0, <1>2, FileType
  <2> QED  BY <2>1, <2>2, <2>3, FileSet
<1>4. \A y \in {"state", "current"} : file'[y] \in {file[y], None}
  BY <1>3
<1>5. /\ proc' \in [Procs -> ProcStates] /\ \A q \in Procs \ {p} : proc'[q] = proc[q]
      /\ proc'[p].at = "rename again" /\ proc'[p].cmd = proc[p].cmd /\ proc'[p].st = proc[p].st
      /\ proc'[p].next = proc[p].next /\ proc'[p].old = proc[p].old
      /\ proc'[p].write = proc[p].write
  BY <1>0, <1>1, ProcType, GotoEffect DEF Labels
<1>6. TypeOK'
  <2>1. lock' \in Running' \union {None}  BY <1>0, <1>1, <1>5, LockKept
  <2>2. file'["state"] \in States \union {None} /\ file'["current"] \in Paths \union {None}
    BY <1>4 DEF TypeOK
  <2> QED  BY <1>1, <1>3, <1>5, <2>1, <2>2 DEF TypeOK, bounds
<1>7. FilesThere'
  <2>1. There(file'["current"]) /\ (file'["state"] # None => AllThere(file'["state"]))
    BY <1>4 DEF LauncherInv, FilesThere, There
  <2>2. There(temp["current"]) /\ (temp["state"] # None => AllThere(temp["state"]))
    BY DEF LauncherInv, FilesThere
  <2> QED  BY <1>1, <2>1, <2>2 DEF FilesThere, AllThere, There
<1>8. OwnRight(p)'
  <2>1. OwnRight(p)  BY <1>0 DEF LauncherInv, OwnRight
  <2>2. ProcThere(p)'
    BY <1>1, <1>5, <2>1 DEF OwnRight, ProcThere, AllThere, There
  <2>3. CommandRight(p)'
    BY <1>1, <1>5, <2>1 DEF OwnRight, CommandRight, Writing, Activating, At, Cmd
  <2>4. InstallRight(p)'
    BY <1>1, <1>5, <2>1 DEF OwnRight, InstallRight, Writing, Activating, At, Cmd
  <2> QED  BY <2>2, <2>3, <2>4 DEF OwnRight
<1>9. overlap  BY <1>0, <1>1 DEF LauncherInv, RenamesOwn, At
<1> QED  BY <1>1, <1>5, <1>6, <1>7, <1>8, <1>9, StepFrame DEF bounds

LEMMA EditStep ==
  ASSUME TypeOK, LauncherInv, NEW v \in Versions, Edit(v)
  PROVE  TypeOK' /\ LauncherInv'
<1>1. /\ UNCHANGED <<file, temp, slots, lock, proc, accepted, bounds>>
      /\ broken' = broken \union {v} /\ slots[v] # None
  BY DEF Edit
<1>2. TypeOK'  BY <1>1 DEF TypeOK, bounds, Running, At
<1>3. FilesThere'  BY <1>1 DEF LauncherInv, FilesThere, AllThere, There
<1>4. \A q \in Procs : OwnRight(q)'
  BY <1>1 DEF LauncherInv, OwnRight, ProcThere, AllThere, There, CommandRight, InstallRight,
              Writing, Activating, At, Cmd
<1>5. ASSUME ~overlap  PROVE OneByOne' /\ AcceptedKnown' /\ \A q \in Procs : OwnFresh(q)'
  <2>1. OneByOne /\ AcceptedKnown  BY <1>5 DEF LauncherInv
  <2>2. OneByOne' /\ AcceptedKnown'
    BY <1>1, <2>1 DEF OneByOne, AcceptedKnown, HighestOnDisk, Running, At
  <2>3. ASSUME NEW q \in Procs  PROVE OwnFresh(q)'
    <3>1. RenamesOwn(q) /\ UpToDate(q) /\ RunRight(q)  BY <1>5 DEF LauncherInv
    <3>2. RenamesOwn(q)'  BY <1>1, <3>1 DEF RenamesOwn, At
    <3>3. UpToDate(q)'  BY <1>1, <3>1 DEF UpToDate, Running, At, HighestOnDisk
    <3>4. RunRight(q)'
      BY <1>1, <3>1 DEF RunRight, ActiveOnDisk, Running, Writing, Activating, At, Cmd
    <3> QED  BY <3>2, <3>3, <3>4 DEF OwnFresh
  <2> QED  BY <2>2, <2>3
<1> QED  BY <1>1, <1>2, <1>3, <1>4, <1>5 DEF LauncherInv, OwnRight, OwnFresh, bounds

-----------------------------------------------------------------------------
(* A rename that succeeds, the first or the second one. *)

Replace(p, x) ==
  /\ At(p, "rename") \/ At(p, "rename again")
  /\ x = FileOf(proc[p].write)
  /\ temp[x] # None
  /\ file' = [file EXCEPT ![x] = temp[x]]
  /\ temp' = [temp EXCEPT ![x] = None]
  /\ Written(p)
  /\ UNCHANGED <<slots, broken, bounds>>

LEMMA ReplaceFiles ==
  ASSUME TypeOK, LauncherInv, NEW p \in Running, NEW x, Replace(p, x)
  PROVE  /\ x \in {"state", "current"} /\ (x = "current" <=> proc[p].write = "pointer")
         /\ DOMAIN file' = {"state", "current"} /\ DOMAIN temp' = {"state", "current"}
         /\ file'[x] = temp[x] /\ temp[x] # None /\ temp'[x] = None
         /\ \A y \in {"state", "current"} \ {x} : file'[y] = file[y] /\ temp'[y] = temp[y]
         /\ FilesThere'
         /\ file'["state"] \in States \union {None} /\ file'["current"] \in Paths \union {None}
         /\ temp'["state"] \in States \union {None} /\ temp'["current"] \in Paths \union {None}
<1>0. p \in Procs  BY DEF Running
<1>1. x \in {"state", "current"} /\ (x = "current" <=> proc[p].write = "pointer")
  BY <1>0, FileType DEF Replace
<1>2. DOMAIN file = {"state", "current"} /\ DOMAIN temp = {"state", "current"}  BY DEF TypeOK
<1>3. /\ DOMAIN file' = {"state", "current"} /\ file'[x] = temp[x]
      /\ \A y \in {"state", "current"} \ {x} : file'[y] = file[y]
  <2>1. file' = [file EXCEPT ![x] = temp[x]]  BY DEF Replace
  <2> QED  BY <1>1, <1>2, <2>1, FileSet
<1>4. /\ DOMAIN temp' = {"state", "current"} /\ temp'[x] = None
      /\ \A y \in {"state", "current"} \ {x} : temp'[y] = temp[y]
  <2>1. temp' = [temp EXCEPT ![x] = None]  BY DEF Replace
  <2> QED  BY <1>1, <1>2, <2>1, FileSet
<1>5. temp[x] # None /\ slots' = slots  BY DEF Replace
<1>6. /\ \A y \in {"state", "current"} : file'[y] \in {file[y], temp[y]}
      /\ \A y \in {"state", "current"} : temp'[y] \in {temp[y], None}
  BY <1>3, <1>4
<1>7. /\ file'["state"] \in States \union {None} /\ file'["current"] \in Paths \union {None}
      /\ temp'["state"] \in States \union {None} /\ temp'["current"] \in Paths \union {None}
  BY <1>6 DEF TypeOK
<1>8. FilesThere'
  <2>1. /\ There(file'["current"]) /\ (file'["state"] # None => AllThere(file'["state"]))
        /\ There(temp'["current"]) /\ (temp'["state"] # None => AllThere(temp'["state"]))
    BY <1>6 DEF LauncherInv, FilesThere, There
  <2> QED  BY <1>5, <2>1 DEF FilesThere, AllThere, There
<1> QED  BY <1>1, <1>3, <1>4, <1>5, <1>7, <1>8

\* Without overlap the rename puts in place what this process has written.
LEMMA ReplacedState ==
  ASSUME TypeOK, LauncherInv, NEW p \in Running, NEW x, Replace(p, x), ~overlap
  PROVE  IF proc[p].write = "pointer"
         THEN HighestOnDisk' = HighestOnDisk /\ ActiveOnDisk' = ActiveOnDisk
         ELSE HighestOnDisk' = proc[p].st.highest /\ ActiveOnDisk' = proc[p].st.active
<1>0. p \in Procs  BY DEF Running
<1>1. At(p, "rename") /\ temp[x] = Content(p)
  BY <1>0 DEF Replace, LauncherInv, RenamesOwn, At, Content
<1>2. CASE proc[p].write = "pointer"
  <2>1. file'["state"] = file["state"]  BY <1>2, ReplaceFiles
  <2> QED  BY <1>2, <2>1 DEF HighestOnDisk, ActiveOnDisk
<1>3. CASE proc[p].write # "pointer"
  <2>1. file'["state"] = proc[p].st /\ file'["state"] # None
    BY <1>1, <1>3, ReplaceFiles DEF Content
  <2> QED  BY <1>3, <2>1 DEF HighestOnDisk, ActiveOnDisk
<1> QED  BY <1>2, <1>3

\* What an install is about to commit is not lower than its own release.
LEMMA InstallCommits ==
  ASSUME TypeOK, LauncherInv, NEW p \in Procs, Cmd(p) = "install", Activating(p)
  PROVE  /\ SlotSequence(proc[p].next) = Sequence[proc[p].cmd.rel]
         /\ proc[p].write = "commit" => proc[p].st.highest >= Sequence[proc[p].cmd.rel]
<1>1. PICK rel, own : rel = proc[p].cmd.rel /\ own = Version[rel]  OBVIOUS
<1>2. rel # None /\ own # Seed  BY <1>1, ReleaseType, LauncherAssumption
<1>3. InstallRight(p)  BY DEF LauncherInv
<1>4. /\ slots[own] = rel /\ proc[p].next = own
      /\ proc[p].write = "commit" => proc[p].st.highest >= Sequence[rel]
  BY <1>1, <1>3 DEF InstallRight
<1> QED  BY <1>1, <1>2, <1>4 DEF SlotSequence

LEMMA ReplaceStep ==
  ASSUME TypeOK, LauncherInv, NEW p \in Running, NEW x, Replace(p, x)
  PROVE  TypeOK' /\ LauncherInv'
<1>0. p \in Procs  BY DEF Running
<1>1. Writing(p) /\ Written(p) /\ UNCHANGED <<slots, broken, bounds>>
  BY DEF Replace, Writing, At
<1>2. ProcThere(p) /\ CommandRight(p) /\ InstallRight(p)  BY <1>0 DEF LauncherInv
<1>3. ~overlap => AcceptedKnown /\ UpToDate(p) /\ RunRight(p)
  BY <1>0 DEF LauncherInv
<1>4. proc[p].st.highest \in Int /\ HighestOnDisk \in Int
  BY <1>0, ProcType DEF HighestOnDisk, TypeOK, States
<1>5. ~overlap => proc[p].st.highest >= HighestOnDisk
  BY <1>1, <1>3 DEF UpToDate, Writing, At
<1>6. /\ proc' \in [Procs -> ProcStates] /\ \A q \in Procs \ {p} : proc'[q] = proc[q]
  BY <1>0, <1>1, <1>2, WrittenEffect
<1>7. ASSUME UNCHANGED <<lock, accepted>> \/ lock' = IF lock = p THEN None ELSE lock,
             lock' = lock => proc'[p].at # "idle" \/ lock # p,
             accepted' \subseteq Releases,
             OwnRight(p)', ~overlap => AcceptedKnown' /\ OwnFresh(p)'
      PROVE  TypeOK' /\ LauncherInv'
  <2>1. lock' \in Running' \union {None}  BY <1>0, <1>6, <1>7, LockKept
  <2>2. TypeOK'  BY <1>1, <1>6, <1>7, <2>1, ReplaceFiles DEF TypeOK, bounds
  <2> QED  BY <1>1, <1>6, <1>7, <2>2, ReplaceFiles, StepFrame DEF bounds
<1>8. accepted \subseteq Releases  BY DEF TypeOK
<1>9. ASSUME accepted' = accepted, ~overlap  PROVE AcceptedKnown'
  <2>1. HighestOnDisk' \in Int /\ HighestOnDisk' >= HighestOnDisk
    BY <1>4, <1>5, <1>9, ReplacedState
  <2>2. \A r \in accepted : Sequence[r] \in Nat  BY <1>8, LauncherAssumption
  <2> QED  BY <1>3, <1>4, <1>9, <2>1, <2>2 DEF AcceptedKnown
<1>10. CASE /\ proc[p].write = "startup"
            /\ proc'[p].at = "lock" /\ proc'[p].cmd = proc[p].cmd /\ proc'[p].st = proc[p].st
            /\ proc'[p].next = proc[p].next /\ proc'[p].old = proc[p].old
            /\ UNCHANGED <<lock, accepted>>
  <2>1. ProcThere(p)'  BY <1>1, <1>2, <1>10 DEF ProcThere, AllThere, There
  <2>2. CommandRight(p)' /\ InstallRight(p)'
    BY <1>10 DEF CommandRight, InstallRight, Writing, Activating, At
  <2>3. ASSUME ~overlap  PROVE OwnFresh(p)'
    <3>1. proc'[p].st.highest >= HighestOnDisk'
      BY <1>4, <1>10, <2>3, ReplacedState
    <3>2. proc'[p].st.active = ActiveOnDisk'  BY <1>10, <2>3, ReplacedState
    <3> QED  BY <1>10, <3>1, <3>2 DEF OwnFresh, RenamesOwn, UpToDate, RunRight, Writing, Activating, At
  <2> QED  BY <1>7, <1>8, <1>9, <1>10, <2>1, <2>2, <2>3 DEF OwnRight
<1>11. CASE /\ proc[p].write = "pointer"
            /\ proc'[p].at = "write" /\ proc'[p].cmd = proc[p].cmd
            /\ proc'[p].st = Activated(proc[p])
            /\ proc'[p].next = proc[p].next /\ proc'[p].old = proc[p].old
            /\ proc'[p].write = "commit"
            /\ UNCHANGED <<lock, accepted>>
  <2>1. Activating(p) /\ proc[p].next # None
    BY <1>1, <1>2, <1>11 DEF CommandRight, Activating
  <2>2. PICK st : st = Activated(proc[p])  OBVIOUS
  <2>3. /\ st \in States /\ st.active = proc[p].next /\ st.previous = proc[p].old
        /\ st.highest >= proc[p].st.highest /\ st.highest >= SlotSequence(proc[p].next)
    BY <1>0, <2>1, <2>2, CommittedState
  <2>4. ProcThere(p)'
    BY <1>1, <1>2, <1>11, <2>2, <2>3 DEF ProcThere, AllThere, There
  <2>5. CommandRight(p)'
    BY <1>11, <2>1 DEF CommandRight, Writing, Activating
  <2>6. InstallRight(p)'
    <3>1. SUFFICES ASSUME Cmd(p) = "install"  PROVE InstallRight(p)'
      BY <1>11 DEF InstallRight, Cmd
    <3>2. st.highest >= Sequence[proc[p].cmd.rel]
      BY <1>0, <2>1, <2>3, <3>1, InstallCommits
    <3>3. /\ slots[Version[proc[p].cmd.rel]] = proc[p].cmd.rel
          /\ proc[p].next = Version[proc[p].cmd.rel]
      BY <1>2, <2>1, <3>1 DEF InstallRight
    <3> QED  BY <1>1, <1>11, <2>2, <3>2, <3>3 DEF InstallRight
  <2>7. ASSUME ~overlap  PROVE OwnFresh(p)'
    <3>1. HighestOnDisk' = HighestOnDisk /\ ActiveOnDisk' = ActiveOnDisk
      BY <1>11, <2>7, ReplacedState
    <3>2. proc'[p].st.highest >= HighestOnDisk'
      <4>1. st.highest \in Int  BY <2>3 DEF States
      <4> QED  BY <1>4, <1>5, <1>11, <2>2, <2>3, <2>7, <3>1, <4>1
    <3>3. RunRight(p)'
      BY <1>1, <1>3, <1>11, <2>1, <2>7, <3>1 DEF RunRight, Writing, Activating, At, Cmd
    <3> QED  BY <1>11, <3>2, <3>3 DEF OwnFresh, RenamesOwn, UpToDate, At
  <2> QED  BY <1>7, <1>8, <1>9, <1>11, <2>4, <2>5, <2>6, <2>7 DEF OwnRight
<1>12. CASE /\ proc[p].write = "commit" /\ Cmd(p) = "run"
            /\ proc'[p].at = "launch" /\ proc'[p].cmd = proc[p].cmd
            /\ proc'[p].st = proc[p].st
            /\ proc'[p].next = proc[p].next /\ proc'[p].old = proc[p].old
            /\ UNCHANGED <<lock, accepted>>
  <2>1. ProcThere(p)'  BY <1>1, <1>2, <1>12 DEF ProcThere, AllThere, There
  <2>2. CommandRight(p)' /\ InstallRight(p)'
    BY <1>12 DEF CommandRight, InstallRight, Writing, Activating, At
  <2>3. ASSUME ~overlap  PROVE OwnFresh(p)'
    <3>1. proc'[p].st.highest >= HighestOnDisk'
      BY <1>4, <1>12, <2>3, ReplacedState
    <3> QED  BY <1>12, <3>1 DEF OwnFresh, RenamesOwn, UpToDate, RunRight, At
  <2> QED  BY <1>7, <1>8, <1>9, <1>12, <2>1, <2>2, <2>3 DEF OwnRight
<1>13. CASE /\ proc'[p] = Idle /\ lock' = IF lock = p THEN None ELSE lock
            /\ \/ accepted' = accepted
               \/ /\ proc[p].write = "commit" /\ Cmd(p) = "install"
                  /\ accepted' = accepted \union {proc[p].cmd.rel}
  <2>1. OwnRight(p)' /\ OwnFresh(p)'  BY <1>0, <1>13, IdleRight
  <2>2. lock' = lock => lock # p
    BY <1>0, <1>13, LauncherAssumption
  <2>3. CASE accepted' = accepted
    BY <1>7, <1>8, <1>9, <1>13, <2>1, <2>2, <2>3
  <2>4. CASE /\ proc[p].write = "commit" /\ Cmd(p) = "install"
             /\ accepted' = accepted \union {proc[p].cmd.rel}
    <3>1. accepted' \subseteq Releases
      <4>1. proc[p].cmd.rel \in Releases  BY <1>0, <2>4, ReleaseType
      <4> QED  BY <1>8, <2>4, <4>1
    <3>2. ASSUME ~overlap  PROVE AcceptedKnown'
      <4>1. HighestOnDisk' = proc[p].st.highest  BY <2>4, <3>2, ReplacedState
      <4>2. proc[p].st.highest >= Sequence[proc[p].cmd.rel]
        BY <1>0, <1>1, <2>4, InstallCommits DEF Activating
      <4>3. \A r \in accepted : Sequence[r] <= proc[p].st.highest
        <5>1. \A r \in accepted : Sequence[r] \in Nat  BY <1>8, LauncherAssumption
        <5> QED  BY <1>3, <1>4, <1>5, <3>2, <5>1 DEF AcceptedKnown
      <4> QED  BY <2>4, <4>1, <4>2, <4>3 DEF AcceptedKnown
    <3> QED  BY <1>7, <1>13, <2>1, <2>2, <3>1, <3>2
  <2> QED  BY <1>13, <2>3, <2>4
<1> QED  BY <1>0, <1>1, <1>2, <1>10, <1>11, <1>12, <1>13, WrittenEffect

\* A rename that fails: temp is empty, so another command has taken it.
LEMMA RenameStep ==
  ASSUME TypeOK, LauncherInv, NEW p \in Running, Rename(p)
  PROVE  TypeOK' /\ LauncherInv'
<1>0. p \in Procs  BY DEF Running
<1>1. PICK x : x = FileOf(proc[p].write)  OBVIOUS
<1>2. CASE temp[x] # None
  <2>1. Replace(p, x)  BY <1>1, <1>2 DEF Rename, Replace
  <2> QED  BY <2>1, ReplaceStep
<1>3. CASE temp[x] = None
  <2>1. /\ At(p, "rename") /\ Goto(p, "remove")
        /\ UNCHANGED <<file, temp, slots, broken, lock, accepted, bounds>>
    BY <1>1, <1>3 DEF Rename
  <2>2. Writing(p)  BY <2>1 DEF Writing, At
  <2>3. overlap
    <3>1. Content(p) # None
      BY <1>0, <2>2, ContentRight, LauncherAssumption
    <3> QED  BY <1>0, <1>1, <1>3, <2>1, <3>1 DEF LauncherInv, RenamesOwn, Content
  <2>4. /\ proc' \in [Procs -> ProcStates] /\ \A q \in Procs \ {p} : proc'[q] = proc[q]
        /\ proc'[p].at = "remove" /\ proc'[p].cmd = proc[p].cmd /\ proc'[p].st = proc[p].st
        /\ proc'[p].next = proc[p].next /\ proc'[p].old = proc[p].old
        /\ proc'[p].write = proc[p].write
    BY <1>0, <2>1, ProcType, GotoEffect DEF Labels
  <2>5. OwnRight(p)  BY <1>0 DEF LauncherInv, OwnRight
  <2>6. ProcThere(p)'
    BY <2>1, <2>4, <2>5 DEF OwnRight, ProcThere, AllThere, There
  <2>7. CommandRight(p)'
    BY <2>2, <2>4, <2>5 DEF OwnRight, CommandRight, Writing, Activating, At, Cmd
  <2>8. InstallRight(p)'
    BY <2>1, <2>2, <2>4, <2>5 DEF OwnRight, InstallRight, Writing, Activating, At, Cmd
  <2> QED  BY <2>1, <2>3, <2>4, <2>6, <2>7, <2>8, QuietStep DEF OwnRight, disk
<1> QED  BY <1>2, <1>3

LEMMA RenameAgainStep ==
  ASSUME TypeOK, LauncherInv, NEW p \in Running, RenameAgain(p)
  PROVE  TypeOK' /\ LauncherInv'
<1>0. p \in Procs  BY DEF Running
<1>1. PICK x : x = FileOf(proc[p].write)  OBVIOUS
<1>2. CASE temp[x] # None
  <2>1. Replace(p, x)  BY <1>1, <1>2 DEF RenameAgain, Replace
  <2> QED  BY <2>1, ReplaceStep
<1>3. CASE temp[x] = None
  <2>1. /\ At(p, "rename again") /\ NotWritten(p)
        /\ UNCHANGED <<file, temp, slots, broken, bounds>>
    BY <1>1, <1>3 DEF RenameAgain
  <2>2. Writing(p) /\ overlap
    BY <1>0, <2>1 DEF Writing, At, LauncherInv, RenamesOwn
  <2>3. /\ proc' \in [Procs -> ProcStates] /\ \A q \in Procs \ {p} : proc'[q] = proc[q]
        /\ accepted' = accepted
    BY <1>0, <2>1, <2>2, NotWrittenEffect
  <2>4. ProcThere(p)  BY <1>0 DEF LauncherInv
  <2>5. CASE /\ proc[p].write = "startup"
             /\ proc'[p].at = "lock" /\ proc'[p].cmd = proc[p].cmd /\ proc'[p].st = proc[p].st
             /\ proc'[p].next = proc[p].next /\ proc'[p].old = proc[p].old
             /\ lock' = lock
    <3>1. ProcThere(p)'  BY <2>1, <2>4, <2>5 DEF ProcThere, AllThere, There
    <3>2. CommandRight(p)' /\ InstallRight(p)'
      BY <2>5 DEF CommandRight, InstallRight, Writing, Activating, At
    <3> QED  BY <2>1, <2>2, <2>3, <2>5, <3>1, <3>2, QuietStep DEF OwnRight, disk
  <2>6. CASE /\ Cmd(p) = "install"
             /\ proc'[p].at = "write" /\ proc'[p].cmd = proc[p].cmd /\ proc'[p].st = proc[p].st
             /\ proc'[p].next = proc[p].next /\ proc'[p].old = proc[p].old
             /\ proc'[p].write = "fail"
             /\ lock' = lock
    <3>1. ProcThere(p)'  BY <2>1, <2>4, <2>6 DEF ProcThere, AllThere, There
    <3>2. CommandRight(p)' /\ InstallRight(p)'
      BY <2>6 DEF CommandRight, InstallRight, Writing, Activating, At, Cmd
    <3> QED  BY <2>1, <2>2, <2>3, <2>6, <3>1, <3>2, QuietStep DEF OwnRight, disk
  <2>7. CASE proc'[p] = Idle /\ lock' = IF lock = p THEN None ELSE lock
    <3>1. OwnRight(p)'  BY <1>0, <2>7, IdleRight
    <3> QED  BY <2>1, <2>2, <2>3, <2>7, <3>1, QuietStep DEF disk
  <2> QED  BY <1>0, <2>1, <2>2, <2>5, <2>6, <2>7, NotWrittenEffect
<1> QED  BY <1>2, <1>3

-----------------------------------------------------------------------------
LEMMA InitRight == Init => TypeOK /\ LauncherInv
<1> SUFFICES ASSUME Init  PROVE TypeOK /\ LauncherInv
  OBVIOUS
<1>1. /\ DOMAIN file = {"state", "current"} /\ file["state"] = None /\ file["current"] = None
      /\ temp = file
  BY DEF Init
<1>2. slots \in [Versions -> {None}] /\ lock = None /\ accepted = {} /\ overlap = FALSE
  BY DEF Init
<1>3. proc \in [Procs -> ProcStates] /\ \A q \in Procs : proc[q] = Idle
  BY IdleType DEF Init
<1>4. Running = {}  BY <1>3, IdleType DEF Running, At
<1>5. TypeOK
  <2>1. starts \in 0 .. MaxStarts  BY LauncherAssumption DEF Init
  <2>2. \A v \in Versions : slots[v] = None  BY <1>2
  <2>3. broken = {}  BY DEF Init
  <2> QED  BY <1>1, <1>2, <1>3, <2>1, <2>2, <2>3 DEF TypeOK
<1>6. FilesThere  BY <1>1 DEF FilesThere, There
<1>7. ASSUME NEW q \in Procs
      PROVE  /\ ProcThere(q) /\ CommandRight(q) /\ InstallRight(q)
             /\ RenamesOwn(q) /\ UpToDate(q) /\ RunRight(q)
  <2>1. /\ proc[q].at = "idle" /\ proc[q].cmd.name = "run"
        /\ proc[q].next = None /\ proc[q].old = None
        /\ proc[q].st.active = None /\ proc[q].st.previous = None
    BY <1>3 DEF Idle, NewState
  <2>2. ProcThere(q) /\ CommandRight(q) /\ InstallRight(q)
    BY <2>1 DEF ProcThere, AllThere, There, CommandRight, InstallRight, Writing, Activating, At, Cmd
  <2>3. RenamesOwn(q) /\ UpToDate(q) /\ RunRight(q)
    BY <1>4, <2>1 DEF RenamesOwn, UpToDate, RunRight, At
  <2> QED  BY <2>2, <2>3
<1>8. OneByOne /\ AcceptedKnown  BY <1>2, <1>4 DEF OneByOne, AcceptedKnown
<1> QED  BY <1>5, <1>6, <1>7, <1>8 DEF LauncherInv

LEMMA ActiveProcess ==
  ASSUME NEW p \in Procs,
         \/ Load(p) \/ TryLock(p)
         \/ WriteTemp(p) \/ Rename(p) \/ Remove(p) \/ RenameAgain(p)
         \/ CheckSequence(p) \/ Stage(p) \/ MoveToSlot(p) \/ VerifyInstalled(p)
         \/ ResolveRun(p) \/ Launch(p) \/ ResolveRollback(p)
         \/ Crash(p)
  PROVE  p \in Running
BY DEF Load, TryLock, WriteTemp, Rename, Remove, RenameAgain, CheckSequence, Stage, MoveToSlot,
       VerifyInstalled, ResolveRun, Launch, ResolveRollback, Crash, Running, At

LEMMA NextRight ==
  ASSUME TypeOK, LauncherInv, [Next]_vars
  PROVE  TypeOK' /\ LauncherInv'
<1>1. CASE UNCHANGED vars
  <2>1. TypeOK'  BY <1>1 DEF vars, TypeOK, Running, At
  <2>2. FilesThere'
    <3>1. /\ There(file["current"]) /\ (file["state"] # None => AllThere(file["state"]))
          /\ There(temp["current"]) /\ (temp["state"] # None => AllThere(temp["state"]))
      BY DEF LauncherInv, FilesThere
    <3>2. file' = file /\ temp' = temp /\ slots' = slots  BY <1>1 DEF vars
    <3> QED  BY <3>1, <3>2 DEF FilesThere, AllThere, There
  <2>3. \A q \in Procs : OwnRight(q)'
    BY <1>1 DEF vars, LauncherInv, OwnRight, ProcThere, AllThere, There, CommandRight,
                InstallRight, Writing, Activating, At, Cmd
  <2>4. ~overlap' => OneByOne' /\ AcceptedKnown' /\ \A q \in Procs : OwnFresh(q)'
    BY <1>1 DEF vars, LauncherInv, OneByOne, AcceptedKnown, HighestOnDisk, ActiveOnDisk, Running,
                OwnFresh, RenamesOwn, UpToDate, RunRight, Writing, Activating, At, Cmd
  <2> QED  BY <2>1, <2>2, <2>3, <2>4 DEF LauncherInv, OwnRight, OwnFresh
<1>2. ASSUME NEW v \in Versions, Edit(v)  PROVE TypeOK' /\ LauncherInv'
  BY <1>2, EditStep
<1>3. ASSUME NEW p \in Procs, Step(p)  PROVE TypeOK' /\ LauncherInv'
  <2>1. CASE \E cmd \in Commands : Start(p, cmd)  BY <2>1, StartStep
  <2>2. CASE Load(p)  BY <2>2, ActiveProcess, LoadStep
  <2>3. CASE TryLock(p)  BY <2>3, ActiveProcess, TryLockStep
  <2>4. CASE WriteTemp(p)  BY <2>4, ActiveProcess, WriteTempStep
  <2>5. CASE Rename(p)  BY <2>5, ActiveProcess, RenameStep
  <2>6. CASE Remove(p)  BY <2>6, ActiveProcess, RemoveStep
  <2>7. CASE RenameAgain(p)  BY <2>7, ActiveProcess, RenameAgainStep
  <2>8. CASE CheckSequence(p)  BY <2>8, ActiveProcess, CheckSequenceStep
  <2>9. CASE Stage(p)  BY <2>9, ActiveProcess, StageStep
  <2>10. CASE MoveToSlot(p)  BY <2>10, ActiveProcess, MoveToSlotStep
  <2>11. CASE VerifyInstalled(p)  BY <2>11, ActiveProcess, VerifyInstalledStep
  <2>12. CASE ResolveRun(p)  BY <2>12, ActiveProcess, ResolveRunStep
  <2>13. CASE Launch(p)  BY <2>13, ActiveProcess, ExitStep DEF Launch
  <2>14. CASE ResolveRollback(p)  BY <2>14, ActiveProcess, ResolveRollbackStep
  <2>15. CASE Crash(p)  BY <2>15, ExitStep DEF Crash
  <2> QED
    BY <1>3, <2>1, <2>2, <2>3, <2>4, <2>5, <2>6, <2>7, <2>8, <2>9, <2>10, <2>11, <2>12, <2>13,
       <2>14, <2>15 DEF Step
<1> QED  BY <1>1, <1>2, <1>3 DEF Next

-----------------------------------------------------------------------------
(***************************************************************************)
(* The types, and the invariant that everything else follows from, hold in *)
(* every state: commands that run at the same time, crashes between any    *)
(* two file operations, and edited slots included.                         *)
(***************************************************************************)
THEOREM LauncherInvariant == Spec => [](TypeOK /\ LauncherInv)
BY InitRight, NextRight, PTL DEF Spec

(***************************************************************************)
(* The type invariant: update-lock belongs to a command that is running,   *)
(* a slot holds the release it is named after, and only a slot that has    *)
(* been filled can be broken.                                              *)
(***************************************************************************)
THEOREM TypeCorrect == Spec => []TypeOK
BY LauncherInvariant, PTL

(***************************************************************************)
(* Whatever the pointer file and update-state.json name is installed,      *)
(* whichever commands overlap and wherever they are killed.                *)
(***************************************************************************)
THEOREM NamedSlotsAreInstalled == Spec => []ActiveInstalled
<1>1. LauncherInv => ActiveInstalled
  BY DEF LauncherInv, FilesThere, AllThere, There, ActiveInstalled
<1> QED  BY <1>1, LauncherInvariant, PTL

\* Without overlap the files change only by a rename of what was just written.
LEMMA FileChanges ==
  ASSUME TypeOK, LauncherInv, [Next]_vars, ~overlap
  PROVE  file' = file \/ \E p \in Running : \E x : Replace(p, x)
<1>1. ASSUME NEW p \in Procs, Rename(p)
      PROVE  file' = file \/ \E x : Replace(p, x)
  BY <1>1 DEF Rename, Replace
<1>2. ASSUME NEW p \in Procs  PROVE ~Remove(p) /\ ~RenameAgain(p)
  BY DEF LauncherInv, RenamesOwn, Remove, RenameAgain, At
<1>3. ASSUME NEW p \in Procs, Step(p), ~Rename(p)  PROVE file' = file
  BY <1>2, <1>3 DEF Step, Start, Load, TryLock, WriteTemp, CheckSequence, Stage, MoveToSlot,
     VerifyInstalled, ResolveRun, Launch, ResolveRollback, Crash, disk
<1>4. ASSUME NEW p \in Procs, Rename(p)  PROVE p \in Running
  BY <1>4 DEF Rename, Running, At
<1> QED  BY <1>1, <1>3, <1>4 DEF Next, Edit, vars

(***************************************************************************)
(* The highest accepted sequence on disk never decreases, as long as the   *)
(* commands run one after the other: what a command renames over           *)
(* update-state.json is its own state, and that is not out of date.        *)
(***************************************************************************)
THEOREM HighestIsKept == Spec => HighestKeptOneByOne
<1>1. ASSUME TypeOK, LauncherInv, [Next]_vars
      PROVE  ~overlap => HighestOnDisk' >= HighestOnDisk
  <2> SUFFICES ASSUME ~overlap  PROVE HighestOnDisk' >= HighestOnDisk
    OBVIOUS
  <2>1. HighestOnDisk \in Int  BY <1>1 DEF HighestOnDisk, TypeOK, States
  <2>2. CASE file' = file  BY <2>1, <2>2 DEF HighestOnDisk
  <2>3. ASSUME NEW p \in Running, NEW x, Replace(p, x)
        PROVE  HighestOnDisk' >= HighestOnDisk
    <3>1. UpToDate(p) /\ ~At(p, "load")
      BY <1>1, <2>3 DEF LauncherInv, Replace, At, Running
    <3>2. proc[p].st.highest >= HighestOnDisk  BY <2>3, <3>1 DEF UpToDate
    <3> QED  BY <1>1, <2>1, <2>3, <3>2, ReplacedState
  <2> QED  BY <1>1, <2>2, <2>3, FileChanges
<1>2. TypeOK /\ LauncherInv /\ [Next]_vars => [~overlap => HighestOnDisk' >= HighestOnDisk]_vars
  BY <1>1
<1> QED  BY <1>2, LauncherInvariant, PTL DEF Spec, HighestKeptOneByOne

(***************************************************************************)
(* A release is staged only if it is newer than every release accepted     *)
(* before, as long as the commands run one after the other.                *)
(***************************************************************************)
THEOREM NoReplays == Spec => NoReplayOneByOne
<1>1. ASSUME TypeOK, LauncherInv, [Next]_vars, NEW p \in Procs,
             ~overlap, At(p, "check"), proc'[p].at = "stage", NEW r \in accepted
      PROVE  Sequence[r] < Sequence[proc[p].cmd.rel]
  <2>1. p \in Running  BY <1>1 DEF Running, At
  <2>2. \A q \in Procs \ {p} : q \notin Running
    BY <1>1, <2>1 DEF LauncherInv, OneByOne
  <2>3. CheckSequence(p)
    <3>1. ASSUME NEW q \in Procs \ {p}  PROVE ~Step(q)
      <4>1. q \notin Running  BY <2>2
      <4>2. ASSUME NEW cmd \in Commands  PROVE ~Start(q, cmd)
        BY <1>1, <4>2 DEF Start, SetProc, TypeOK, At
      <4> QED  BY <4>1, <4>2, ActiveProcess DEF Step
    <3>2. proc' # proc  BY <1>1 DEF At
    <3>3. Step(p)  BY <1>1, <3>1, <3>2 DEF Next, Edit, vars
    <3>4. ~Crash(p)
      BY <1>1, ProcType, ExitEffect, IdleType DEF Crash
    <3> QED
      BY <1>1, <3>3, <3>4 DEF Step, Start, Load, TryLock, WriteTemp, Rename, Remove, RenameAgain,
         Stage, MoveToSlot, VerifyInstalled, ResolveRun, Launch, ResolveRollback, At
  <2>4. proc[p].st.highest < 0 \/ Sequence[proc[p].cmd.rel] > proc[p].st.highest
    <3>1. proc \in [Procs -> ProcStates] /\ proc[p] \in ProcStates
      BY <1>1, ProcType
    <3>2. ~StartWrite(p, proc[p], "fail")
      BY <1>1, <3>1, StartWriteEffect DEF Writes
    <3>3. ~(proc[p].st.highest >= 0 /\ Sequence[proc[p].cmd.rel] <= proc[p].st.highest)
      BY <2>3, <3>2 DEF CheckSequence
    <3>4. Sequence[proc[p].cmd.rel] \in Nat
      <4>1. Cmd(p) = "install"  BY <1>1 DEF LauncherInv, CommandRight, At
      <4> QED  BY <1>1, <4>1, ReleaseType, LauncherAssumption
    <3> QED  BY <1>1, <3>3, <3>4, ProcType
  <2>5. proc[p].st.highest >= HighestOnDisk
    BY <1>1, <2>1 DEF LauncherInv, UpToDate, At
  <2>6. Sequence[r] <= HighestOnDisk /\ Sequence[r] \in Nat
    BY <1>1, LauncherAssumption DEF LauncherInv, AcceptedKnown, TypeOK
  <2>7. proc[p].st.highest \in Int /\ HighestOnDisk \in Int
    BY <1>1, ProcType DEF HighestOnDisk, TypeOK, States
  <2>8. Sequence[proc[p].cmd.rel] \in Nat
    <3>1. Cmd(p) = "install"  BY <1>1 DEF LauncherInv, CommandRight, At
    <3> QED  BY <1>1, <3>1, ReleaseType, LauncherAssumption
  <2> QED  BY <2>4, <2>5, <2>6, <2>7, <2>8
<1>2. TypeOK /\ LauncherInv /\ [Next]_vars =>
        [\A p \in Procs : ~overlap /\ At(p, "check") /\ proc'[p].at = "stage" =>
           \A r \in accepted : Sequence[r] < Sequence[proc[p].cmd.rel]]_vars
  BY <1>1
<1> QED  BY <1>2, LauncherInvariant, PTL DEF Spec, NoReplayOneByOne

(***************************************************************************)
(* A run that is alone changes the active compiler only if that one no     *)
(* longer verifies, even after a crash has left the pointer file and       *)
(* update-state.json in disagreement.                                      *)
(***************************************************************************)
THEOREM RunKeepsActive == Spec => RunKeepsActiveOneByOne
<1>1. ASSUME TypeOK, LauncherInv, [Next]_vars, NEW p \in Procs,
             ~overlap, p \in Running, Cmd(p) = "run", ~At(p, "load"),
             file["state"] # None, file["state"].active # None
      PROVE  file'["state"].active = file["state"].active \/ file["state"].active \in broken
  <2>1. ActiveOnDisk = file["state"].active /\ ActiveOnDisk # None
    BY <1>1 DEF ActiveOnDisk
  <2>2. CASE file' = file  BY <2>2
  <2>3. ASSUME NEW q \in Running, NEW x, Replace(q, x)
        PROVE  file'["state"].active = file["state"].active \/ file["state"].active \in broken
    <3>1. q = p  BY <1>1 DEF LauncherInv, OneByOne
    <3>2. Writing(p)  BY <2>3, <3>1 DEF Replace, Writing, At
    <3>3. IF Activating(p) THEN ActiveOnDisk \in broken ELSE proc[p].st.active = ActiveOnDisk
      BY <1>1, <2>1, <3>2 DEF LauncherInv, RunRight, Writing
    <3>4. CASE Activating(p)  BY <2>1, <3>3, <3>4
    <3>5. CASE ~Activating(p)
      <4>1. proc[p].write # "pointer"  BY <3>2, <3>5 DEF Activating
      <4>2. ActiveOnDisk' = ActiveOnDisk
        BY <1>1, <2>3, <3>1, <3>3, <3>5, <4>1, ReplacedState
      <4> QED  BY <2>1, <4>2 DEF ActiveOnDisk
    <3> QED  BY <3>4, <3>5
  <2> QED  BY <1>1, <2>2, <2>3, FileChanges
<1>2. TypeOK /\ LauncherInv /\ [Next]_vars =>
        [\A p \in Procs :
           /\ ~overlap
           /\ p \in Running /\ Cmd(p) = "run" /\ ~At(p, "load")
           /\ file["state"] # None
           /\ file["state"].active # None
           => file'["state"].active = file["state"].active \/ file["state"].active \in broken]_vars
  BY <1>1
<1> QED  BY <1>2, LauncherInvariant, PTL DEF Spec, RunKeepsActiveOneByOne
=============================================================================
