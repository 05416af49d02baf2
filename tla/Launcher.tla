------------------------------ MODULE Launcher ------------------------------
(***************************************************************************)
(* launcher/Launcher.cpp: the launcher that installs, activates, verifies  *)
(* and runs compiler releases.  Every command is a process of its own; the *)
(* processes share an installation directory: the release slots, the       *)
(* pointer file "current", "update-state.json", and "update-lock".         *)
(*                                                                         *)
(* A process can be killed between any two file operations.  What it had   *)
(* on disk stays, its lock goes.  A slot can be edited behind the          *)
(* launcher's back, so that it fails verification from then on.            *)
(***************************************************************************)
EXTENDS Integers, FiniteSets

CONSTANTS
  Procs,
  Releases,
  Sequence,    \* per release: its sequence number
  Version,     \* per release: its version, which names its slot
  Defective,   \* releases that fail a check while they are staged
  Commands,    \* the commands that are tried
  Seed,        \* the root directory itself, with an unmanaged cflat.exe
  MaxRunning,  \* bound: commands that run at the same time
  MaxStarts,   \* bound: commands in all
  MaxEdits,    \* bound: slots edited behind the launcher's back
  None

Versions == {Version[r] : r \in Releases}
Paths == Versions \union {Seed}
AllCommands == [name : {"run", "rollback"}] \union [name : {"install"}, rel : Releases]

\* What update-state.json holds; -1: no sequence has been accepted.
States == [active : Paths \union {None}, previous : Paths \union {None}, highest : Int]
NewState == [active |-> None, previous |-> None, highest |-> -1]

ASSUME LauncherAssumption ==
  /\ Sequence \in [Releases -> Nat]
  /\ IsFiniteSet(Releases)
  /\ Seed \notin Versions
  /\ None \notin Paths \union Procs \union Releases \union States
  /\ Defective \subseteq Releases
  /\ Commands \subseteq AllCommands
  /\ MaxRunning \in Nat /\ MaxStarts \in Nat /\ MaxEdits \in Nat

VARIABLES
  file,      \* the files "state" and "current": content, or None
  temp,      \* the same with the suffix .new
  slots,     \* per version: the release in its slot, or None
  broken,    \* versions whose slot fails verification
  lock,      \* owner of update-lock
  proc,      \* per process: its step and its local variables
  starts,    \* commands started so far
  accepted,  \* history: the releases that have been activated by an install
  overlap    \* history: two commands have run at the same time

vars == <<file, temp, slots, broken, lock, proc, starts, accepted, overlap>>

Idle == [at |-> "idle", cmd |-> [name |-> "run"], st |-> NewState,
         next |-> None, old |-> None, write |-> "fail"]

Init ==
  /\ file = [f \in {"state", "current"} |-> None]
  /\ temp = file
  /\ slots = [v \in Versions |-> None]
  /\ broken = {}
  /\ lock = None
  /\ proc = [p \in Procs |-> Idle]
  /\ starts = 0
  /\ accepted = {}
  /\ overlap = FALSE

At(p, label) == proc[p].at = label
Running == {p \in Procs : ~At(p, "idle")}
Cmd(p) == proc[p].cmd.name
SetProc(p, r) == proc' = [proc EXCEPT ![p] = r]
Goto(p, label) == SetProc(p, [proc[p] EXCEPT !.at = label])

\* WriteAtomic is entered with the reason for the write.
StartWrite(p, r, why) == SetProc(p, [r EXCEPT !.at = "write", !.write = why])
FileOf(why) == IF why = "pointer" THEN "current" ELSE "state"

\* Return from the command, or be killed: the local variables and the lock are
\* gone.
Exit(p) ==
  /\ SetProc(p, Idle)
  /\ lock' = IF lock = p THEN None ELSE lock

disk == <<file, temp, slots, broken>>
bounds == <<starts, overlap>>

(***************************************************************************)
(* VerifySlot and ResolveActive.  Only the seeded root has no manifest.    *)
(***************************************************************************)
Verified(path, allowSeed) ==
  IF path = Seed THEN allowSeed ELSE slots[path] # None /\ path \notin broken

\* Without a manifest the sequence keeps its initial value.
SlotSequence(path) ==
  IF path = Seed \/ slots[path] = None THEN 0 ELSE Sequence[slots[path]]

ResolveActive(st) ==
  IF st.active # None THEN st.active
  ELSE IF file["current"] # None THEN file["current"] ELSE Seed

\* Mutation of LoadOrSeed: the pointer file is believed before the state.
LoadPointerFirst ==
  LET st == IF file["state"] = None THEN NewState ELSE file["state"] IN
  IF file["current"] # None /\ Verified(file["current"], TRUE)
  THEN [st EXCEPT !.active = file["current"]]
  ELSE IF st.active = None THEN [st EXCEPT !.active = Seed] ELSE st

LoadOrSeed ==
  LET st == IF file["state"] = None THEN NewState ELSE file["state"] IN
  IF st.active # None THEN st
  ELSE [st EXCEPT !.active =
          IF file["current"] # None /\ Verified(file["current"], TRUE)
          THEN file["current"] ELSE Seed]

(***************************************************************************)
(* Starting a command, loading the state, and only then taking the lock.   *)
(***************************************************************************)
Start(p, cmd) ==
  /\ At(p, "idle")
  /\ starts < MaxStarts
  /\ Cardinality(Running) < MaxRunning
  /\ starts' = starts + 1
  /\ overlap' = (overlap \/ Running # {})
  /\ SetProc(p, [Idle EXCEPT !.at = "load", !.cmd = cmd])
  /\ UNCHANGED <<disk, lock, accepted>>

\* run saves what it loaded at once.
Load(p) ==
  /\ At(p, "load")
  /\ LET r == [proc[p] EXCEPT !.st = LoadOrSeed] IN
     IF Cmd(p) = "run" THEN StartWrite(p, r, "startup")
                       ELSE SetProc(p, [r EXCEPT !.at = "lock"])
  /\ UNCHANGED <<disk, lock, accepted, bounds>>

AfterLock(p) == IF Cmd(p) = "install" THEN "check" ELSE "resolve"

TryLock(p) ==
  /\ At(p, "lock")
  /\ \/ lock = None /\ lock' = p /\ Goto(p, AfterLock(p))
     \/ lock # None /\ Cmd(p) = "run" /\ UNCHANGED lock /\ Goto(p, AfterLock(p))
     \/ lock # None /\ Cmd(p) # "run" /\ Exit(p)
  /\ UNCHANGED <<disk, accepted, bounds>>

(***************************************************************************)
(* WriteAtomic: write the .new file, then rename it over the old one; if   *)
(* the rename fails, remove the old file and rename once more.             *)
(***************************************************************************)
WriteTemp(p) ==
  /\ At(p, "write")
  /\ LET why == proc[p].write IN
     temp' = [temp EXCEPT ![FileOf(why)] =
                IF why = "pointer" THEN proc[p].next ELSE proc[p].st]
  /\ Goto(p, "rename")
  /\ UNCHANGED <<file, slots, broken, lock, accepted, bounds>>

\* Activate: what is recorded once the pointer file has been replaced.
\* (The mutation records the sequence of the slot, also when that is lower.)
ActivatedLatest(r) ==
  [active |-> r.next, previous |-> r.old, highest |-> SlotSequence(r.next)]

Activated(r) ==
  [active   |-> r.next,
   previous |-> r.old,
   highest  |-> IF SlotSequence(r.next) > r.st.highest THEN SlotSequence(r.next)
                ELSE r.st.highest]

\* What the command does after a write that succeeded ...
Written(p) ==
  LET r == proc[p] IN
  \/ r.write = "startup" /\ Goto(p, "lock") /\ UNCHANGED <<lock, accepted>>
  \/ /\ r.write = "pointer"
     /\ StartWrite(p, [r EXCEPT !.st = Activated(r)], "commit")
     /\ UNCHANGED <<lock, accepted>>
  \/ /\ r.write = "commit"
     /\ IF Cmd(p) = "run" THEN Goto(p, "launch") /\ UNCHANGED lock ELSE Exit(p)
     /\ accepted' = accepted \union (IF Cmd(p) = "install" THEN {r.cmd.rel} ELSE {})
  \/ r.write = "fail" /\ Exit(p) /\ UNCHANGED accepted

\* ... and after one that failed.
NotWritten(p) ==
  LET r == proc[p] IN
  /\ \/ r.write = "startup" /\ Goto(p, "lock") /\ UNCHANGED lock
     \/ /\ r.write \in {"pointer", "commit"}
        /\ IF Cmd(p) = "install" THEN StartWrite(p, r, "fail") /\ UNCHANGED lock ELSE Exit(p)
     \/ r.write = "fail" /\ Exit(p)
  /\ UNCHANGED accepted

Rename(p) ==
  /\ At(p, "rename")
  /\ LET f == FileOf(proc[p].write) IN
     IF temp[f] # None
     THEN file' = [file EXCEPT ![f] = temp[f]] /\ temp' = [temp EXCEPT ![f] = None] /\ Written(p)
     ELSE Goto(p, "remove") /\ UNCHANGED <<file, temp, lock, accepted>>
  /\ UNCHANGED <<slots, broken, bounds>>

Remove(p) ==
  /\ At(p, "remove")
  /\ file' = [file EXCEPT ![FileOf(proc[p].write)] = None]
  /\ Goto(p, "rename again")
  /\ UNCHANGED <<temp, slots, broken, lock, accepted, bounds>>

RenameAgain(p) ==
  /\ At(p, "rename again")
  /\ LET f == FileOf(proc[p].write) IN
     IF temp[f] # None
     THEN file' = [file EXCEPT ![f] = temp[f]] /\ temp' = [temp EXCEPT ![f] = None] /\ Written(p)
     ELSE NotWritten(p) /\ UNCHANGED <<file, temp>>
  /\ UNCHANGED <<slots, broken, bounds>>

(***************************************************************************)
(* InstallRelease.                                                         *)
(***************************************************************************)
\* Mutation of CheckSequence: < where the code has <=.
CheckSequenceStrict(p) ==
  /\ At(p, "check")
  /\ LET r == proc[p] IN
     IF r.st.highest >= 0 /\ Sequence[r.cmd.rel] < r.st.highest
     THEN StartWrite(p, r, "fail")
     ELSE Goto(p, "stage")
  /\ UNCHANGED <<disk, lock, accepted, bounds>>

CheckSequence(p) ==
  /\ At(p, "check")
  /\ LET r == proc[p] IN
     IF r.st.highest >= 0 /\ Sequence[r.cmd.rel] <= r.st.highest
     THEN StartWrite(p, r, "fail")
     ELSE Goto(p, "stage")
  /\ UNCHANGED <<disk, lock, accepted, bounds>>

\* Mutation of Stage: the pointer is replaced before the slot is in its place.
StageActivates(p) ==
  /\ At(p, "stage")
  /\ StartWrite(p, [proc[p] EXCEPT !.next = Version[proc[p].cmd.rel]], "pointer")
  /\ UNCHANGED <<disk, lock, accepted, bounds>>

\* Copy into a staging directory, verify, --init-local, smoke check, and look
\* whether the slot is free; otherwise quarantine.
Stage(p) ==
  /\ At(p, "stage")
  /\ LET rel == proc[p].cmd.rel IN
     IF rel \in Defective \/ slots[Version[rel]] # None
     THEN StartWrite(p, proc[p], "fail")
     ELSE Goto(p, "move")
  /\ UNCHANGED <<disk, lock, accepted, bounds>>

\* A directory that is not empty cannot be replaced by a rename.
MoveToSlot(p) ==
  /\ At(p, "move")
  /\ LET rel == proc[p].cmd.rel IN
     IF slots[Version[rel]] # None
     THEN StartWrite(p, proc[p], "fail") /\ UNCHANGED slots
     ELSE slots' = [slots EXCEPT ![Version[rel]] = rel] /\ Goto(p, "verify")
  /\ UNCHANGED <<file, temp, broken, lock, accepted, bounds>>

\* Verify the new slot and the one it replaces, then start to activate.
VerifyInstalled(p) ==
  /\ At(p, "verify")
  /\ LET r == proc[p]
         path == Version[r.cmd.rel]
         old == ResolveActive(r.st)
     IN IF ~Verified(path, FALSE)
        THEN StartWrite(p, r, "fail")
        ELSE StartWrite(p, [r EXCEPT !.next = path,
                              !.old = IF Verified(old, TRUE) THEN old ELSE None], "pointer")
  /\ UNCHANGED <<disk, lock, accepted, bounds>>

(***************************************************************************)
(* Run and Rollback.                                                       *)
(***************************************************************************)
PreviousUsable(st) == st.previous # None /\ Verified(st.previous, FALSE)

\* The fallback passes on the slot that failed verification; its empty path
\* is recorded as ".", the root.
ResolveRun(p) ==
  /\ At(p, "resolve")
  /\ Cmd(p) = "run"
  /\ LET r == proc[p] IN
     IF Verified(ResolveActive(r.st), TRUE)
     THEN SetProc(p, [r EXCEPT !.at = "launch", !.next = ResolveActive(r.st)]) /\ UNCHANGED lock
     ELSE IF PreviousUsable(r.st)
          THEN /\ StartWrite(p, [r EXCEPT !.next = r.st.previous, !.old = Seed], "pointer")
               /\ UNCHANGED lock
          ELSE Exit(p)
  /\ UNCHANGED <<disk, accepted, bounds>>

\* Verify once more and run the compiler; the lock is held until it returns.
Launch(p) ==
  /\ At(p, "launch")
  /\ Exit(p)
  /\ UNCHANGED <<disk, accepted, bounds>>

ResolveRollback(p) ==
  /\ At(p, "resolve")
  /\ Cmd(p) = "rollback"
  /\ LET r == proc[p]
         old == ResolveActive(r.st)
     IN IF PreviousUsable(r.st)
        THEN /\ StartWrite(p, [r EXCEPT !.next = r.st.previous,
                                 !.old = IF Verified(old, TRUE) THEN old ELSE None], "pointer")
             /\ UNCHANGED lock
        ELSE Exit(p)
  /\ UNCHANGED <<disk, accepted, bounds>>

-----------------------------------------------------------------------------
Crash(p) ==
  /\ p \in Running
  /\ Exit(p)
  /\ UNCHANGED <<disk, accepted, bounds>>

\* Somebody edits a file of an installed slot.
Edit(v) ==
  /\ slots[v] # None
  /\ Cardinality(broken) < MaxEdits
  /\ broken' = broken \union {v}
  /\ UNCHANGED <<file, temp, slots, lock, proc, accepted, bounds>>

Step(p) ==
  \/ \E cmd \in Commands : Start(p, cmd)
  \/ Load(p) \/ TryLock(p)
  \/ WriteTemp(p) \/ Rename(p) \/ Remove(p) \/ RenameAgain(p)
  \/ CheckSequence(p) \/ Stage(p) \/ MoveToSlot(p) \/ VerifyInstalled(p)
  \/ ResolveRun(p) \/ Launch(p) \/ ResolveRollback(p)
  \/ Crash(p)

Next ==
  \/ \E p \in Procs : Step(p)
  \/ \E v \in Versions : Edit(v)

Spec == Init /\ [][Next]_vars

-----------------------------------------------------------------------------
Labels == {"idle", "load", "lock", "write", "rename", "remove", "rename again",
           "check", "stage", "move", "verify", "resolve", "launch"}
Writes == {"startup", "pointer", "commit", "fail"}
ProcStates ==
  [at : Labels, cmd : AllCommands, st : States,
   next : Paths \union {None}, old : Paths \union {None}, write : Writes]

\* The type invariant; the lock belongs to a command that is running.
TypeOK ==
  /\ \A f \in {file, temp} :
       /\ DOMAIN f = {"state", "current"}
       /\ f["state"] \in States \union {None}
       /\ f["current"] \in Paths \union {None}
  /\ slots \in [Versions -> Releases \union {None}]
  /\ \A v \in Versions : slots[v] # None => Version[slots[v]] = v
  /\ broken \subseteq {v \in Versions : slots[v] # None}
  /\ lock \in Running \union {None}
  /\ proc \in [Procs -> ProcStates]
  /\ starts \in 0 .. MaxStarts
  /\ accepted \subseteq Releases
  /\ overlap \in BOOLEAN

(***************************************************************************)
(* Whatever the files name as the compiler to run or to fall back to is    *)
(* there: a slot is complete before anything points to it, a crash between *)
(* the two included.                                                       *)
(***************************************************************************)
ActiveInstalled ==
  LET there(path) == path \in {None, Seed} \/ slots[path] # None IN
  /\ there(file["current"])
  /\ file["state"] # None => there(file["state"].active) /\ there(file["state"].previous)

(***************************************************************************)
(* Only an install or a rollback changes which compiler is active; a run   *)
(* keeps it unless that slot no longer verifies.  A crash between the      *)
(* replacement of the pointer and the commit leaves the two files in       *)
(* disagreement, and the state file decides.                               *)
(***************************************************************************)
RunKeepsActiveOneByOne ==
  [][\A p \in Procs :
       /\ ~overlap
       /\ p \in Running /\ Cmd(p) = "run" /\ ~At(p, "load")
       /\ file["state"] # None
       /\ file["state"].active # None
       => file'["state"].active = file["state"].active \/ file["state"].active \in broken]_vars

HighestOnDisk == IF file["state"] = None THEN -1 ELSE file["state"].highest

(***************************************************************************)
(* "persist the highest accepted sequence": the number on disk never       *)
(* decreases ...                                                           *)
(***************************************************************************)
HighestKept == [][HighestOnDisk' >= HighestOnDisk]_vars

(***************************************************************************)
(* ... and an install is refused unless its release is newer than every    *)
(* release that was accepted before ("reject lower sequences by default").  *)
(***************************************************************************)
NoReplay ==
  [][\A p \in Procs : At(p, "check") /\ proc'[p].at = "stage" =>
       \A r \in accepted : Sequence[r] < Sequence[proc[p].cmd.rel]]_vars

\* Both hold as long as the commands run one after the other, crashes included.
HighestKeptOneByOne == [][~overlap => HighestOnDisk' >= HighestOnDisk]_vars
NoReplayOneByOne ==
  [][\A p \in Procs : ~overlap /\ At(p, "check") /\ proc'[p].at = "stage" =>
       \A r \in accepted : Sequence[r] < Sequence[proc[p].cmd.rel]]_vars
=============================================================================
