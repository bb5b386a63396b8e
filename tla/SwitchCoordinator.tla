-------------------------- MODULE SwitchCoordinator --------------------------
(***************************************************************************)
(* The one-shot LaunchAgent that finishes a pending switch when Codex App  *)
(* quits (src/space-switch.mjs, src/service-manager.mjs).  A begin records *)
(* its transaction under the transaction lock, releases the lock, and only *)
(* then installs the agent; cancel, commit and other begins run meanwhile. *)
(* Applying a transaction is one step here: see SpaceSwitch.               *)
(***************************************************************************)
EXTENDS Naturals

CONSTANTS
  Client,      \* user commands that may run at the same time
  Target,      \* revisions
  None,        \* no transaction, no lock holder
  Agent,       \* the coordinator process, as a lock holder
  Dead,        \* holder of a lock whose process was killed
  MaxBegins, MaxReboots    \* bounds of the exploration

ASSUME CoordinatorConstants ==
  /\ None \notin Client \cup {Agent, Dead} \cup Nat
  /\ Agent \notin Client /\ Dead \notin Client \cup {Agent}
  /\ MaxBegins \in Nat /\ MaxReboots \in Nat

VARIABLES
  tx,        \* the transaction file, or None
  active,    \* the active revision
  lock,      \* holder of the transaction lock
  plist,     \* the LaunchAgent file exists
  job,       \* the launchd job and how far its process has come
  seen,      \* the transaction a waiting coordinator expects
  step,      \* where each command is
  mine,      \* the transaction each installs the agent for
  appOpen, begins, reboots,
  calm       \* in this behaviour launchctl works, commands come one by one,
             \* nobody waits 24 hours and the machine restarts only while
             \* nothing is applied

agent == <<plist, job, seen>>
switcherVars  == <<tx, active, lock, agent, step, mine, appOpen, begins, reboots, calm>>

NoTx == [id |-> 0, target |-> active, stage |-> "none"]
Running == {"start", "wait", "again", "apply", "clean"}
Lost(h) == IF lock = h THEN Dead ELSE lock

SwitcherInit ==
  /\ tx = None /\ active \in Target /\ lock = None
  /\ plist = FALSE /\ job = "unloaded" /\ seen = None
  /\ step = [c \in Client |-> "idle"] /\ mine = [c \in Client |-> NoTx]
  /\ appOpen \in BOOLEAN /\ begins = 0 /\ reboots = 0 /\ calm \in BOOLEAN

Alone == calm => \A c \in Client : step[c] = "idle"
Moves(c, from, to) == step[c] = from /\ step' = [step EXCEPT ![c] = to]

-----------------------------------------------------------------------------
(* Commands                                                                *)

\* A new transaction: App open, the agent is installed after the lock is
\* released; App closed, the switch is resumed, under the lock again.
Begin(c, t) ==
  /\ Alone
  /\ lock = None /\ tx = None /\ t # active /\ begins < MaxBegins
  /\ begins' = begins + 1
  /\ tx' = [id |-> begins + 1, target |-> t, stage |-> "pending"]
  /\ mine' = [mine EXCEPT ![c] = tx']
  /\ Moves(c, "idle", IF appOpen THEN "install" ELSE "resume")
  /\ UNCHANGED <<active, lock, agent, appOpen, reboots, calm>>

\* space resume, or space use with the target that is pending already.
AskResume(c) ==
  /\ Alone /\ tx # None
  /\ Moves(c, "idle", "resume")
  /\ UNCHANGED <<tx, active, lock, agent, mine, appOpen, begins, reboots, calm>>

Resume(c) ==
  /\ lock = None
  /\ \/ /\ tx = None
        /\ Moves(c, "resume", "idle")
        /\ UNCHANGED <<lock, mine>>
     \/ /\ tx # None /\ appOpen
        /\ Moves(c, "resume", "install")
        /\ mine' = [mine EXCEPT ![c] = tx]
        /\ UNCHANGED lock
     \/ /\ tx # None /\ ~appOpen
        /\ Moves(c, "resume", "apply")
        /\ lock' = c
        /\ UNCHANGED mine
  /\ UNCHANGED <<tx, active, agent, appOpen, begins, reboots, calm>>

\* operation_locked.
Locked(c) ==
  /\ lock # None
  /\ Moves(c, "resume", "idle")
  /\ UNCHANGED <<tx, active, lock, agent, mine, appOpen, begins, reboots, calm>>

Apply(c) ==
  /\ Moves(c, "apply", "finish")
  /\ active' = tx.target /\ tx' = None
  /\ UNCHANGED <<lock, agent, mine, appOpen, begins, reboots, calm>>

ApplyFails(c) ==
  /\ Moves(c, "apply", "idle")
  /\ tx' = [tx EXCEPT !.stage = "failed"] /\ lock' = None
  /\ UNCHANGED <<active, agent, mine, appOpen, begins, reboots, calm>>

\* Mutant of Cancel: it does not wait for the transaction lock.
CancelUnlocked(c) ==
  /\ Alone /\ tx # None /\ tx.stage \in {"pending", "failed"}
  /\ Moves(c, "idle", "finish")
  /\ tx' = None /\ lock' = c
  /\ UNCHANGED <<active, agent, mine, appOpen, begins, reboots, calm>>

Cancel(c) ==
  /\ Alone /\ lock = None /\ tx # None /\ tx.stage \in {"pending", "failed"}
  /\ Moves(c, "idle", "finish")
  /\ tx' = None /\ lock' = c
  /\ UNCHANGED <<active, agent, mine, appOpen, begins, reboots, calm>>

\* uninstallSpaceSwitcher: the job is booted out, which kills its process, and
\* an error of launchctl is swallowed.  l: what becomes of the lock then.
Uninstall(l) ==
  /\ plist' = FALSE
  /\ \/ job' = "unloaded" /\ seen' = None
        /\ lock' = IF l = Agent THEN Dead ELSE l
     \/ ~calm /\ UNCHANGED <<job, seen>> /\ lock' = l

\* The command that removed the transaction still holds the lock.
Finish(c) ==
  /\ Moves(c, "finish", "idle")
  /\ Uninstall(None)
  /\ UNCHANGED <<tx, active, mine, appOpen, begins, reboots, calm>>

\* Mutant of Install: an agent that is loaded already is not started again.
InstallLoaded(c) ==
  /\ Moves(c, "install", "check")
  /\ plist' = TRUE
  /\ IF job # "unloaded" THEN UNCHANGED <<job, seen, lock>>
     ELSE job' = "start" /\ seen' = None /\ UNCHANGED lock
  /\ UNCHANGED <<tx, active, mine, appOpen, begins, reboots, calm>>

\* installSpaceSwitcher: a job whose plist is gone is booted out and loaded
\* again, which starts it; a loaded one is started unless it runs.
Install(c) ==
  /\ Moves(c, "install", "check")
  /\ plist' = TRUE
  /\ IF plist /\ job # "unloaded"
     THEN /\ job' = IF job = "loaded" THEN "start" ELSE job
          /\ UNCHANGED <<seen, lock>>
     ELSE job' = "start" /\ seen' = None /\ lock' = Lost(Agent)
  /\ UNCHANGED <<tx, active, mine, appOpen, begins, reboots, calm>>

\* launchctl failed: the command ends with the transaction pending.
InstallFails(c) ==
  /\ ~calm
  /\ Moves(c, "install", "idle")
  /\ UNCHANGED <<tx, active, lock, agent, mine, appOpen, begins, reboots, calm>>

\* Read without the lock: no transaction and not my target means it was
\* cancelled, and the agent is removed again; another transaction is left alone.
Check(c) ==
  /\ Moves(c, "check", IF tx = None /\ active # mine[c].target THEN "drop" ELSE "idle")
  /\ UNCHANGED <<tx, active, lock, agent, mine, appOpen, begins, reboots, calm>>

Drop(c) ==
  /\ Moves(c, "drop", "idle")
  /\ Uninstall(lock)
  /\ UNCHANGED <<tx, active, mine, appOpen, begins, reboots, calm>>

-----------------------------------------------------------------------------
(* The coordinator process                                                 *)

\* resumeSpaceSwitch under the lock; expected: the transaction it waited for.
AgentResumes(from, expected) ==
  /\ job = from /\ lock = None
  /\ IF tx = None \/ expected \notin {None, tx.id}
     THEN job' = "loaded" /\ seen' = None /\ UNCHANGED lock
     ELSE IF appOpen THEN job' = "wait" /\ seen' = tx.id /\ UNCHANGED lock
     ELSE job' = "apply" /\ lock' = Agent /\ UNCHANGED seen
  /\ UNCHANGED <<tx, active, plist, step, mine, appOpen, begins, reboots, calm>>

AgentStarts == AgentResumes("start", None)

\* Mutant of AgentRetries: the expected transaction is not passed on.
AgentRetriesAny == AgentResumes("again", None)
AgentRetries == AgentResumes("again", seen)

\* operation_locked, or another error, ends the process; it is not restarted.
AgentLocked ==
  /\ job \in {"start", "again"}
  /\ lock # None \/ ~calm
  /\ job' = "loaded" /\ seen' = None
  /\ UNCHANGED <<tx, active, lock, plist, step, mine, appOpen, begins, reboots, calm>>

\* A poll saw the App stopped.
AgentSeesQuit ==
  /\ job = "wait" /\ ~appOpen
  /\ job' = "again"
  /\ UNCHANGED <<tx, active, lock, plist, seen, step, mine, appOpen, begins, reboots, calm>>

\* 24 hours have passed.
AgentGivesUp ==
  /\ ~calm /\ job = "wait"
  /\ job' = "loaded" /\ seen' = None
  /\ UNCHANGED <<tx, active, lock, plist, step, mine, appOpen, begins, reboots, calm>>

AgentApplies ==
  /\ job = "apply"
  /\ job' = "clean" /\ active' = tx.target /\ tx' = None
  /\ UNCHANGED <<lock, plist, seen, step, mine, appOpen, begins, reboots, calm>>

AgentFails ==
  /\ job = "apply"
  /\ job' = "loaded" /\ seen' = None /\ lock' = None
  /\ tx' = [tx EXCEPT !.stage = "failed"]
  /\ UNCHANGED <<active, plist, step, mine, appOpen, begins, reboots, calm>>

\* skipBootout: the process does not boot itself out.
AgentCleans ==
  /\ job = "clean"
  /\ job' = "loaded" /\ seen' = None /\ plist' = FALSE /\ lock' = None
  /\ UNCHANGED <<tx, active, step, mine, appOpen, begins, reboots, calm>>

-----------------------------------------------------------------------------
AppToggle ==
  /\ appOpen' = ~appOpen
  /\ UNCHANGED <<tx, active, lock, agent, step, mine, begins, reboots, calm>>

\* Everything dies; launchd loads the plist again at login (RunAtLoad).
Reboot ==
  /\ reboots < MaxReboots
  /\ calm => lock = None /\ \A c \in Client : step[c] = "idle"
  /\ reboots' = reboots + 1
  /\ step' = [c \in Client |-> "idle"]
  /\ job' = (IF plist THEN "start" ELSE "unloaded") /\ seen' = None
  /\ lock' = IF lock = None THEN None ELSE Dead
  /\ UNCHANGED <<tx, active, plist, mine, appOpen, begins, calm>>

\* The lock of a dead process is taken over once it is stale.
LockStale ==
  /\ lock = Dead /\ lock' = None
  /\ UNCHANGED <<tx, active, agent, step, mine, appOpen, begins, reboots, calm>>

CommandStep(c) ==
  \/ Resume(c) \/ Locked(c) \/ Apply(c) \/ ApplyFails(c) \/ Finish(c)
  \/ Install(c) \/ InstallFails(c) \/ Check(c) \/ Drop(c)

Coordinate ==
  \/ AgentStarts \/ AgentRetries \/ AgentLocked \/ AgentSeesQuit
  \/ AgentGivesUp \/ AgentApplies \/ AgentFails \/ AgentCleans

SwitcherNext ==
  \/ \E c \in Client :
       CommandStep(c) \/ AskResume(c) \/ Cancel(c) \/ \E t \in Target : Begin(c, t)
  \/ Coordinate \/ AppToggle \/ Reboot \/ LockStale

SwitcherSpec == SwitcherInit /\ [][SwitcherNext]_switcherVars
\* A command and the coordinator process go on while they live.
SwitcherFairSpec ==
  SwitcherSpec /\ WF_switcherVars(Coordinate) /\ \A c \in Client : WF_switcherVars(CommandStep(c))
-----------------------------------------------------------------------------
\* Once the App stays closed a pending switch is applied or fails: nobody has
\* to run a second command (docs/public/configuration-spaces.md:67).
Pending == tx # None /\ tx.stage = "pending"
PendingResolved == calm /\ <>[]~appOpen => [](Pending => <>~Pending)

\* The coordinator "applies and verifies the exact transaction once"
\* (docs/public/configuration-spaces.md:67): one that waited for a transaction
\* never applies another, begun after a cancel the waiting one has survived.
ExactTransaction ==
  [][job = "apply" /\ job' = "clean" /\ seen # None => tx.id = seen]_switcherVars

\* A transaction is removed by the one process that holds the lock: a commit is
\* never lost to a command that cancels it meanwhile, nor applied twice.
AppliersHoldLock ==
  /\ job \in {"apply", "clean"} => lock = Agent
  /\ job = "apply" => tx # None
  /\ \A c \in Client : step[c] \in {"apply", "finish"} => lock = c
  /\ \A c \in Client : step[c] = "apply" => tx # None

\* What test/space-switch.test.mjs:592 says: "a superseded begin cannot uninstall
\* the newer pending transaction coordinator".
CoordinatorKept ==
  [][\A c \in Client : step[c] = "drop" /\ Pending => plist' = plist]_switcherVars
=============================================================================
