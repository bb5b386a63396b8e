------------------------------ MODULE FileLock ------------------------------
(***************************************************************************)
(* withFileLock of src/files.mjs: a lock is a file created exclusively.  A *)
(* file older than staleMs is taken for the remains of a dead process and  *)
(* removed, by path, in a step after the one that looked at its age; and   *)
(* every holder removes whatever file is at the path when it is done.      *)
(***************************************************************************)
EXTENDS Naturals

CONSTANTS
  Proc,         \* processes that run commands
  Dead,         \* owner of a lock file whose process died
  Free,         \* no lock file
  OneBreaker,   \* assume that no two processes take over a stale lock at once
  InTime,       \* assume that every callback ends within staleMs
  MaxDeaths    \* bound of the exploration

ASSUME LockConstants ==
  /\ Dead \notin Proc /\ Free \notin Proc \cup {Dead}
  /\ Free \notin [owner : Proc \cup {Dead}, stale : BOOLEAN]
  /\ OneBreaker \in BOOLEAN /\ InTime \in BOOLEAN /\ MaxDeaths \in Nat

VARIABLES
  file,      \* the lock file: the process that created it, and its age
  at,        \* where each process is in withFileLock
  deaths

lockVars == <<file, at, deaths>>

Fresh(p) == [owner |-> p, stale |-> FALSE]
Inside(p) == at[p] = "in"

LockInit == /\ file = Free /\ at = [p \in Proc |-> "idle"] /\ deaths = 0

Move(p, from, to) == at[p] = from /\ at' = [at EXCEPT ![p] = to]

\* open(path, "wx") creates the file.
Opens(p) ==
  /\ Move(p, "idle", "in")
  /\ file = Free /\ file' = Fresh(p)
  /\ UNCHANGED deaths

\* It exists: its age is looked at next.
Finds(p) ==
  /\ Move(p, "idle", "stat")
  /\ file # Free
  /\ UNCHANGED <<file, deaths>>

\* Gone by now, or not stale: operation_locked.
Refused(p) ==
  /\ Move(p, "stat", "idle")
  /\ file # Free => ~file.stale
  /\ UNCHANGED <<file, deaths>>

\* Mutant of SeenStale: a stale lock is refused like any other.
NeverBroken(p) ==
  /\ Move(p, "stat", "idle")
  /\ file # Free /\ file.stale
  /\ UNCHANGED <<file, deaths>>

SeenStale(p) ==
  /\ Move(p, "stat", "break")
  /\ file # Free /\ file.stale
  /\ OneBreaker => \A q \in Proc \ {p} : at[q] # "break"
  /\ UNCHANGED <<file, deaths>>

\* rm(path, force): whichever file is at the path now.
Break(p) ==
  /\ Move(p, "break", "reopen")
  /\ file' = Free
  /\ UNCHANGED deaths

\* Mutant of Reopen: the file is opened without the exclusive flag.
ReopenShared(p) ==
  /\ Move(p, "reopen", "in")
  /\ file' = Fresh(p)
  /\ UNCHANGED deaths

Reopen(p) ==
  /\ Move(p, "reopen", "in")
  /\ file = Free /\ file' = Fresh(p)
  /\ UNCHANGED deaths

\* Another process was faster: EEXIST.
ReopenFails(p) ==
  /\ Move(p, "reopen", "idle")
  /\ file # Free
  /\ UNCHANGED <<file, deaths>>

\* The callback is over: the file at the path is removed, whoever made it.
Unlocks(p) ==
  /\ Move(p, "in", "idle")
  /\ file' = Free
  /\ UNCHANGED deaths

\* The process dies; a later command may run in its place.
Dies(p) ==
  /\ at[p] # "idle" /\ deaths < MaxDeaths
  /\ at' = [at EXCEPT ![p] = "idle"]
  /\ file' = IF file # Free /\ file.owner = p THEN [file EXCEPT !.owner = Dead] ELSE file
  /\ deaths' = deaths + 1

\* staleMs have passed since the file was written.
Age ==
  /\ file # Free
  /\ InTime => file.owner = Dead
  /\ file' = [file EXCEPT !.stale = TRUE]
  /\ UNCHANGED <<at, deaths>>

Step(p) == \/ Opens(p) \/ Finds(p) \/ Refused(p) \/ SeenStale(p) \/ Break(p)
           \/ Reopen(p) \/ ReopenFails(p) \/ Unlocks(p)

LockNext == (\E p \in Proc : Step(p) \/ Dies(p)) \/ Age

LockSpec == LockInit /\ [][LockNext]_lockVars
\* Commands keep being issued (withSpaceSwitcherLock polls), callbacks end,
\* and time passes.
LockFairSpec == LockSpec /\ WF_lockVars(Age) /\ \A p \in Proc : WF_lockVars(Step(p))
-----------------------------------------------------------------------------
LockFile == {Free} \cup [owner : Proc \cup {Dead}, stale : BOOLEAN]
Pc == {"idle", "stat", "break", "reopen", "in"}

\* Type invariant of the lock.
LockTypeOK == /\ file \in LockFile /\ at \in [Proc -> Pc] /\ deaths \in Nat

\* test/space-switch.test.mjs:414, "concurrent begin calls cannot both create
\* pending transactions": no two processes are in the callback at once.
MutualExclusion == \A p, q \in Proc : Inside(p) /\ Inside(q) => p = q

\* What makes MutualExclusion inductive: the file says who is inside, and a
\* process about to remove a stale file still faces the remains of a dead one.
OwnersInside ==
  /\ \A p \in Proc : Inside(p) <=> file # Free /\ file.owner = p
  /\ file # Free /\ file.stale => file.owner = Dead
  /\ \A p \in Proc : at[p] = "break" => file # Free /\ file.stale
  /\ \A p, q \in Proc : at[p] = "break" /\ at[q] = "break" => p = q

\* A lock a dead process left behind is eventually taken over or removed
\* (staleMs in files.mjs:30): a crash never blocks the commands for good.
DeadLockBroken == (file # Free /\ file.owner = Dead) ~> (file = Free \/ file.owner # Dead)

\* Who is inside, as far as ExclusiveLock can tell.
Holder == IF \E p \in Proc : Inside(p) THEN CHOOSE p \in Proc : Inside(p) ELSE Free
Promise == INSTANCE ExclusiveLock WITH None <- Free, holder <- Holder

\* Under the two assumptions the lock file is an exclusive lock.
ImplementsExclusiveLock == Promise!Spec
=============================================================================
