---------------------------- MODULE SpaceSwitch ----------------------------
(***************************************************************************)
(* The configuration-space switch of src/space-switch.mjs: one transaction *)
(* moves an installation from its active revision to a target revision by  *)
(* rewriting three files (the gateway config, the Codex config and the     *)
(* Codex model catalog), the recorded integration state and the Router     *)
(* service, and moves the active pointer last.  Every await that another   *)
(* party can observe is a step of its own, and the process may die at any  *)
(* of them.  The transaction lock is assumed exclusive (module FileLock is *)
(* about that lock), so at most one command is inside it: pc is its place. *)
(***************************************************************************)
EXTENDS Naturals

CONSTANTS
  Router,        \* Router revisions that exist
  Base,          \* contents of a Codex file that no Router revision writes
  Direct,        \* the Base content the protected revision official@1 records
  ToolModeOnly,  \* pairs of Router revisions whose runtime configs behave alike
  Unset,         \* a transaction field that is still undefined
  EditContent,   \* what a user may write into a file by hand
  MaxAttempts, MaxEdits, MaxCrashes, MaxRestarts   \* bounds of the exploration

File     == {"gateway", "codex", "catalog"}
Content  == Router \cup Base
Official == [codex : Base, catalog : Content]
Rev      == Router \cup Official
Protected == [codex |-> Direct, catalog |-> Direct]

ASSUME ConstantsOK ==
  /\ Direct \in Base
  /\ Router \cap Base = {} /\ Router \cap Official = {}
  /\ Unset \notin Content \cup Rev \cup {"yes", "no", "live", "dead"}
  /\ ToolModeOnly \subseteq Router \X Router
  /\ \A r \in Router : <<r, r>> \in ToolModeOnly
  /\ \A p, q \in ToolModeOnly : p[2] = q[1] => <<p[1], q[2]>> \in ToolModeOnly
  /\ \A p \in ToolModeOnly : <<p[2], p[1]>> \in ToolModeOnly
  /\ EditContent \subseteq Content
  /\ MaxAttempts \in Nat /\ MaxEdits \in Nat
  /\ MaxCrashes \in Nat /\ MaxRestarts \in Nat

VARIABLES
  file,      \* content of each file on disk
  integ,     \* revision the integration state file says is materialised
  svc,       \* the Router service: running, accepting turns, config it loaded
             \*   (cfgUser, ghost: that config, or the file since, is the user's)
  active,    \* the active pointer of the space index
  revs,      \* revisions recorded in the space store
  tx,        \* the transaction file; stage "none" when there is no file
  pc,        \* what the command holding the transaction lock does next
  recovering,\* that command first undoes an attempt a dead process left behind
  drainPid,  \* pid the running drain has signalled, relative to the service
  appOpen,   \* Codex App is running
  attempts, edits, crashes, restarts,   \* how much of each bound is used
  byUser,    \* ghost: files whose last writer was the user
  atRest,    \* ghost: foreign edits made while a transaction lay on disk unlocked
  torn       \* ghost: a rescue died half-way and no activation has followed

world  == <<file, integ, svc>>
ctl    == <<pc, recovering, drainPid>>
bounds == <<attempts, edits, crashes, restarts>>
ghosts == <<byUser, atRest, torn>>
vars   == <<world, active, revs, tx, ctl, appOpen, bounds, ghosts>>

-----------------------------------------------------------------------------
\* What revision r puts into file f; an official revision leaves the gateway alone.
Image(r, f) == IF r \in Router THEN r ELSE r[f]
Fits(r, f, c) == \/ f = "gateway" /\ r \notin Router
                 \/ c = Image(r, f)

NoFiles == [f \in File |-> Unset]
NoTx == [stage |-> "none", source |-> Protected, target |-> Protected,
         src |-> NoFiles, exp |-> NoFiles, app |-> NoFiles, snapshot |-> Unset,
         recovered |-> Unset, drained |-> FALSE, wasRunning |-> Unset,
         pid |-> Unset, skip |-> FALSE]

Idle      == pc = "idle"
Unchanged == file = tx.src
Applied   == tx.app["gateway"] # Unset
AsApplied == file = tx.app
Down      == [up |-> FALSE, accepting |-> FALSE, cfg |-> Unset, cfgUser |-> FALSE]
\* A process started now accepts turns and runs the gateway config on disk.
Started   == [up |-> TRUE, accepting |-> TRUE, cfg |-> file["gateway"],
              cfgUser |-> "gateway" \in byUser]
\* The pids on record once the service process they may name is gone.
PidGone(p) == IF p = "live" THEN "dead" ELSE p
TxPidGone  == [tx EXCEPT !.pid = PidGone(@)]

Goto(p, q) == /\ pc = p /\ pc' = q

Write(f, c) == /\ file' = [file EXCEPT ![f] = c]
               /\ byUser' = byUser \ {f}

Init ==
  /\ active \in Router \cup {Protected}
  /\ \E g \in Router :
       file = [f \in File |-> IF active \in Router THEN active
                              ELSE IF f = "gateway" THEN g ELSE active[f]]
  /\ integ = active
  /\ svc = IF active \in Router
           THEN [up |-> TRUE, accepting |-> TRUE, cfg |-> active, cfgUser |-> FALSE]
           ELSE Down
  /\ revs = Router \cup {Protected}
  /\ tx = NoTx
  /\ pc = "idle" /\ recovering = FALSE /\ drainPid = Unset
  /\ appOpen \in BOOLEAN
  /\ attempts = 0 /\ edits = 0 /\ crashes = 0 /\ restarts = 0
  /\ byUser = {} /\ atRest = {} /\ torn = FALSE

-----------------------------------------------------------------------------
(* beginSpaceSwitch                                                        *)

\* captureOfficialSpace: direct settings that changed become a revision of their
\* own, and the active one; a Codex config the Router still manages is refused.
CaptureOfficial ==
  LET now == [codex |-> file["codex"], catalog |-> file["catalog"]]
  IN  /\ now \in Official
      /\ active' = now
      /\ revs' = revs \cup {now}

\* Refused when t is active or a transaction exists; a Router config that
\* drifted from its revision blocks the switch, official settings do not.
Begin(t) ==
  /\ Idle /\ tx.stage = "none" /\ t # active
  /\ active \in Router => file["gateway"] = active
  /\ tx' = [tx EXCEPT !.target = t]
  /\ pc' = "readSource"
  /\ IF active \in Router THEN UNCHANGED <<active, revs>> ELSE CaptureOfficial
  /\ UNCHANGED <<world, recovering, drainPid, appOpen, bounds, ghosts>>

\* The source bytes are read, then the candidate is checked on a spare port.
ReadSource ==
  /\ Goto("readSource", "preflight")
  /\ tx' = [tx EXCEPT !.source = active, !.src = file]
  /\ UNCHANGED <<world, active, revs, recovering, drainPid, appOpen, bounds, ghosts>>

\* Preflight passed and no source file moved meanwhile: the transaction exists.
Prepare ==
  /\ Goto("preflight", "appCheck")
  /\ Unchanged
  /\ tx' = [tx EXCEPT !.stage = "prepared", !.snapshot = tx.src["gateway"],
              !.exp["gateway"] = IF tx.target \in Router THEN tx.target
                                 ELSE tx.src["gateway"]]
  /\ UNCHANGED <<world, active, revs, recovering, drainPid, appOpen, bounds, ghosts>>

\* A missing credential, a failed candidate, a moved file: nothing is recorded.
PrepareFails ==
  /\ pc \in {"readSource", "preflight"}
  /\ pc' = "idle" /\ tx' = NoTx
  /\ UNCHANGED <<world, active, revs, recovering, drainPid, appOpen, bounds, ghosts>>

\* App running: the transaction waits.  App stopped, or its state unknown: the
\* lock is released with the transaction prepared (a resume may follow).
AppCheck ==
  /\ Goto("appCheck", "idle")
  /\ tx' \in {tx} \cup (IF appOpen THEN {[tx EXCEPT !.stage = "pending_app_quit"]} ELSE {})
  /\ UNCHANGED <<world, active, revs, recovering, drainPid, appOpen, bounds, ghosts>>

-----------------------------------------------------------------------------
(* resumeSpaceSwitch                                                       *)

\* Where a resume goes once it sees the App stopped: an attempt a dead process
\* left in "applying" is undone first.
Resume ==
  /\ Idle /\ ~appOpen /\ attempts < MaxAttempts
  /\ \/ tx.stage \in {"prepared", "pending_app_quit"}
     \/ tx.stage = "failed" /\ tx.recovered = "yes"
     \/ tx.stage = "applying" /\ active # tx.target
  /\ recovering' = (tx.stage = "applying")
  /\ pc' = IF tx.stage # "applying" THEN "start"
           ELSE IF tx.source \in Router /\ ~tx.skip THEN "drain" ELSE "noDrain"
  /\ UNCHANGED <<world, active, revs, tx, drainPid, appOpen, bounds, ghosts>>

Start ==
  /\ Goto("start", "check")
  /\ recovering' = FALSE
  /\ attempts' = attempts + 1
  /\ tx' = [tx EXCEPT !.stage = "applying"]
  /\ UNCHANGED <<world, active, revs, drainPid, appOpen, edits, crashes, restarts, ghosts>>

\* Mutant of Check: every switch between Router revisions skips the restart.
CheckAlwaysSkips ==
  /\ pc = "check" /\ Unchanged
  /\ LET skip == tx.source \in Router /\ tx.target \in Router /\ svc.up
     IN  /\ tx' = [tx EXCEPT !.skip = skip]
         /\ pc' = IF tx.source \in Router /\ ~skip THEN "drain" ELSE "noDrain"
  /\ UNCHANGED <<world, active, revs, recovering, drainPid, appOpen, bounds, ghosts>>

\* assertSourceFiles; a change of tool mode alone needs no service restart.
Check ==
  /\ pc = "check" /\ Unchanged
  /\ LET skip == <<tx.source, tx.target>> \in ToolModeOnly /\ svc.up
     IN  /\ tx' = [tx EXCEPT !.skip = skip]
         /\ pc' = IF tx.source \in Router /\ ~skip THEN "drain" ELSE "noDrain"
  /\ UNCHANGED <<world, active, revs, recovering, drainPid, appOpen, bounds, ghosts>>

\* The drain result as the transaction records it.  Undoing a dead attempt
\* keeps what that attempt recorded (??=); a fresh attempt overwrites it.
Record(drained, wasRunning, pid) ==
  tx' = IF recovering
        THEN [tx EXCEPT !.drained = drained,
                !.wasRunning = IF @ = Unset THEN wasRunning ELSE @,
                !.pid = IF @ = Unset THEN pid ELSE @]
        ELSE [tx EXCEPT !.drained = drained, !.wasRunning = wasRunning, !.pid = pid]

AfterDrain == IF recovering THEN "rollback" ELSE "recheck"
\* Not drained: an attempt rolls back, a recovery gives up and stays "applying".
AfterNoDrain == IF recovering THEN "idle" ELSE "rollback"

NoDrain ==
  /\ Goto("noDrain", AfterDrain)
  /\ Record(TRUE, IF tx.skip THEN "yes" ELSE "no",
            IF tx.skip /\ ~recovering THEN "live" ELSE Unset)
  /\ UNCHANGED <<world, active, revs, recovering, drainPid, appOpen, bounds, ghosts>>

\* drainService: SIGUSR2 to the pid that answered /healthz.
DrainSignal ==
  /\ Goto("drain", "draining")
  /\ svc.up
  /\ svc' = [svc EXCEPT !.accepting = FALSE]
  /\ drainPid' = "live"
  /\ UNCHANGED <<file, integ, active, revs, tx, recovering, appOpen, bounds, ghosts>>

DrainNotLoaded ==
  /\ Goto("drain", AfterDrain)
  /\ ~svc.up
  /\ Record(TRUE, "no", Unset)
  /\ UNCHANGED <<world, active, revs, recovering, drainPid, appOpen, bounds, ghosts>>

\* Loaded but not answering: no signal was sent.
DrainNoHealth ==
  /\ Goto("drain", AfterNoDrain)
  /\ svc.up
  /\ Record(FALSE, "yes", Unset)
  /\ UNCHANGED <<world, active, revs, recovering, drainPid, appOpen, bounds, ghosts>>

\* A poll saw no active turn.
Drained ==
  /\ Goto("draining", AfterDrain)
  /\ Record(TRUE, "yes", drainPid)
  /\ drainPid' = Unset
  /\ UNCHANGED <<world, active, revs, recovering, appOpen, bounds, ghosts>>

DrainTimeout ==
  /\ Goto("draining", AfterNoDrain)
  /\ drainPid = "live"
  /\ svc' = [svc EXCEPT !.accepting = TRUE]
  /\ Record(FALSE, "yes", drainPid)
  /\ drainPid' = Unset
  /\ UNCHANGED <<file, integ, active, revs, recovering, appOpen, bounds, ghosts>>

\* The signalled process is gone: the signal throws and nothing is recorded.
DrainThrows ==
  /\ Goto("draining", AfterNoDrain)
  /\ drainPid = "dead"
  /\ drainPid' = Unset
  /\ UNCHANGED <<world, active, revs, tx, recovering, appOpen, bounds, ghosts>>

\* The App must still be stopped and the source files unmoved after the drain.
Recheck ==
  /\ Goto("recheck", "writeGateway")
  /\ ~appOpen /\ Unchanged
  /\ UNCHANGED <<world, active, revs, tx, recovering, drainPid, appOpen, bounds, ghosts>>

\* writeConfigTransaction compares with what was read at the start, then renames.
WriteGateway ==
  /\ Goto("writeGateway", "checkpoint")
  /\ IF tx.target \in Router /\ tx.src["gateway"] # tx.target
     THEN file["gateway"] = tx.src["gateway"] /\ Write("gateway", tx.target)
     ELSE UNCHANGED <<file, byUser>>
  /\ UNCHANGED <<integ, svc, active, revs, tx, recovering, drainPid, appOpen, bounds, atRest, torn>>

Checkpoint ==
  /\ Goto("checkpoint", "expect")
  /\ tx' = [tx EXCEPT !.app = [NoFiles EXCEPT !["gateway"] = file["gateway"]]]
  /\ UNCHANGED <<world, active, revs, recovering, drainPid, appOpen, bounds, ghosts>>

Expect ==
  /\ Goto("expect", "applyCodex")
  /\ tx' = [tx EXCEPT !.exp["codex"] = Image(tx.target, "codex"),
                      !.exp["catalog"] = Image(tx.target, "catalog")]
  /\ UNCHANGED <<world, active, revs, recovering, drainPid, appOpen, bounds, ghosts>>

-----------------------------------------------------------------------------
(* syncIntegration / disableIntegration towards revision r, as the attempt, *)
(* the rollback and the rescue run it: Codex config, catalog, state file.   *)

IntegrateCodex(r, from, to) ==
  /\ Goto(from, to)
  /\ Write("codex", Image(r, "codex"))
  /\ UNCHANGED <<integ, svc, active, revs, tx, recovering, drainPid, appOpen, bounds, atRest, torn>>

IntegrateCatalog(r, from, to) ==
  /\ Goto(from, to)
  /\ Write("catalog", Image(r, "catalog"))
  /\ UNCHANGED <<integ, svc, active, revs, tx, recovering, drainPid, appOpen, bounds, atRest, torn>>

IntegrateState(r, from, to) ==
  /\ Goto(from, to)
  /\ integ' = r
  /\ UNCHANGED <<file, svc, active, revs, tx, recovering, drainPid, appOpen, bounds, ghosts>>

\* The attempt passes the source hashes it expects to find.
ApplyCodex ==
  /\ file["codex"] = tx.src["codex"] /\ file["catalog"] = tx.src["catalog"]
  /\ IntegrateCodex(tx.target, "applyCodex", "applyCatalog")
ApplyCatalog == IntegrateCatalog(tx.target, "applyCatalog", "applyState")
ApplyState   == IntegrateState(tx.target, "applyState", "compare")

Compare ==
  /\ Goto("compare", "service")
  /\ file["codex"] = tx.exp["codex"] /\ file["catalog"] = tx.exp["catalog"]
  /\ tx' = [tx EXCEPT !.app["codex"] = tx.exp["codex"],
                      !.app["catalog"] = tx.exp["catalog"]]
  /\ UNCHANGED <<world, active, revs, recovering, drainPid, appOpen, bounds, ghosts>>

ActivateService ==
  /\ Goto("service", "verify")
  /\ IF tx.target \in Official THEN svc' = Down /\ tx' = TxPidGone
     ELSE IF ~tx.skip THEN svc' = Started /\ tx' = TxPidGone
     ELSE UNCHANGED <<svc, tx>>
  /\ UNCHANGED <<file, integ, active, revs, recovering, drainPid, appOpen, bounds, ghosts>>

\* launchctl refused: nothing runs, or a new process runs under the old plist.
ActivateServiceFails ==
  /\ Goto("service", "rollback")
  /\ tx.target \in Router /\ ~tx.skip
  /\ svc' \in {Down, Started} /\ tx' = TxPidGone
  /\ UNCHANGED <<file, integ, active, revs, recovering, drainPid, appOpen, bounds, ghosts>>

\* verifyApplied: what the integration state and the service say of revision r.
Verified(r) ==
  IF r \in Official
  THEN /\ file["codex"] = r.codex /\ file["catalog"] = r.catalog
       /\ integ \in Official /\ ~svc.up
  ELSE /\ integ \in Router
       /\ file["codex"] = integ /\ file["catalog"] = integ
       /\ svc.up

\* Mutant of Verify: the verified stage is not written before the commit.
VerifyUnrecorded ==
  /\ Goto("verify", "commit")
  /\ Verified(tx.target) /\ AsApplied
  /\ UNCHANGED <<world, active, revs, tx, recovering, drainPid, appOpen, bounds, ghosts>>

Verify ==
  /\ Goto("verify", "commit")
  /\ Verified(tx.target) /\ AsApplied
  /\ tx' = [tx EXCEPT !.stage = "verified"]
  /\ UNCHANGED <<world, active, revs, recovering, drainPid, appOpen, bounds, ghosts>>

\* commitSpaceActivation with expectedActive = source.
Commit ==
  /\ Goto("commit", "clear")
  /\ active = tx.source
  /\ active' = tx.target
  /\ torn' = FALSE
  /\ UNCHANGED <<world, revs, tx, recovering, drainPid, appOpen, bounds, byUser, atRest>>

\* rm of the transaction file; the switcher is uninstalled with it.
Clear ==
  /\ Goto("clear", "idle")
  /\ tx' = NoTx /\ atRest' = {}
  /\ UNCHANGED <<world, active, revs, recovering, drainPid, appOpen, bounds, byUser, torn>>

\* Any awaited step of the attempt may throw: a failed comparison, an unknown
\* App state, a lock held by another command, an I/O error.
AttemptSteps == {"check", "drain", "noDrain", "recheck", "writeGateway", "checkpoint",
                 "expect", "applyCodex", "applyCatalog", "applyState", "compare",
                 "service", "verify", "commit"}
AttemptFails ==
  /\ pc \in AttemptSteps
  /\ pc' = IF recovering THEN "idle" ELSE "rollback"
  /\ UNCHANGED <<world, active, revs, tx, recovering, drainPid, appOpen, bounds, ghosts>>

\* The branch of resumeSpaceSwitch that finishes a verified transaction, and
\* its re-check of the files after verification; a mismatch changes nothing.
ResumeVerified ==
  /\ Idle
  /\ \/ tx.stage = "verified"
     \/ tx.stage = "applying" /\ active = tx.target
  /\ AsApplied
  /\ Verified(tx.target)
  /\ pc' = "recommit"
  /\ UNCHANGED <<world, active, revs, tx, recovering, drainPid, appOpen, bounds, ghosts>>

Recommit ==
  /\ Goto("recommit", "clear")
  /\ AsApplied
  /\ active \in {tx.source, tx.target}
  /\ active' = tx.target
  /\ torn' = FALSE
  /\ UNCHANGED <<world, revs, tx, recovering, drainPid, appOpen, bounds, byUser, atRest>>

RecommitFails ==
  /\ Goto("recommit", "idle")
  /\ UNCHANGED <<world, active, revs, tx, recovering, drainPid, appOpen, bounds, ghosts>>

-----------------------------------------------------------------------------
(* rollback                                                                *)

AfterRollback == IF recovering THEN "start" ELSE "idle"

\* resumeService(pid): SIGUSR1; signalling a pid that is gone throws.
MustResume == tx.drained /\ tx.wasRunning = "yes"

RollbackUntouched ==
  /\ Goto("rollback", AfterRollback)
  /\ ~Applied /\ Unchanged
  /\ IF MustResume /\ ~tx.skip
     THEN /\ tx.pid # "dead"
          /\ svc' = [svc EXCEPT !.accepting = IF tx.pid = "live" THEN TRUE ELSE @]
     ELSE UNCHANGED svc
  /\ tx' = [tx EXCEPT !.stage = "failed", !.recovered = "yes"]
  /\ UNCHANGED <<file, integ, active, revs, recovering, drainPid, appOpen, bounds, ghosts>>

\* Mutant of OwnHash: rollback does not compare before it writes.
AnyHash(f) == TRUE

\* Every file must still carry one of the transaction's own hashes.
OwnHash(f) == IF tx.app[f] # Unset THEN file[f] = tx.app[f]
              ELSE file[f] \in {tx.src[f], tx.exp[f]}

RollbackCheck ==
  /\ Goto("rollback", "restoreGateway")
  /\ Applied \/ ~Unchanged
  /\ \A f \in File : OwnHash(f)
  /\ UNCHANGED <<world, active, revs, tx, recovering, drainPid, appOpen, bounds, ghosts>>

\* The user wrote the snapshot back over the config the attempt had written.
PutBack == tx.target \in Router /\ tx.app["gateway"] = tx.snapshot /\ tx.snapshot # tx.target

\* The snapshot may itself carry a hand edit made before begin read the file, or
\* be what the user put back during the attempt: it stays the user's then.
RestoreGateway ==
  /\ Goto("restoreGateway", "restoreCodex")
  /\ IF file["gateway"] # tx.src["gateway"]
     THEN /\ tx.snapshot = tx.src["gateway"]
          /\ file' = [file EXCEPT !["gateway"] = tx.snapshot]
          /\ byUser' = IF Fits(tx.source, "gateway", tx.snapshot) /\ ~PutBack
                       THEN byUser \ {"gateway"} ELSE byUser \cup {"gateway"}
     ELSE UNCHANGED <<file, byUser>>
  /\ UNCHANGED <<integ, svc, active, revs, tx, recovering, drainPid, appOpen, bounds, atRest, torn>>

RestoreCodex   == IntegrateCodex(tx.source, "restoreCodex", "restoreCatalog")
RestoreCatalog == IntegrateCatalog(tx.source, "restoreCatalog", "restoreState")
RestoreState   == IntegrateState(tx.source, "restoreState", "restoreService")

RestoreService ==
  /\ Goto("restoreService", "restored")
  /\ IF tx.source \in Official \/ tx.wasRunning = "no" THEN svc' = Down /\ tx' = TxPidGone
     ELSE IF ~tx.skip \/ ~svc.up THEN svc' = Started /\ tx' = TxPidGone
     ELSE UNCHANGED <<svc, tx>>
  /\ UNCHANGED <<file, integ, active, revs, recovering, drainPid, appOpen, bounds, ghosts>>

\* The restored files become the source of the next attempt.
Restored ==
  /\ Goto("restored", AfterRollback)
  /\ tx' = [tx EXCEPT !.stage = "failed", !.recovered = "yes", !.src = file, !.app = NoFiles]
  /\ UNCHANGED <<world, active, revs, recovering, drainPid, appOpen, bounds, ghosts>>

RollbackSteps == {"rollback", "restoreGateway", "restoreCodex", "restoreCatalog",
                  "restoreState", "restoreService", "restored"}
\* Mutant of RollbackFails: a rollback that threw is tried again at once.
RollbackRetries ==
  /\ pc \in RollbackSteps
  /\ pc' = "rollback"
  /\ UNCHANGED <<world, active, revs, tx, recovering, drainPid, appOpen, bounds, ghosts>>

\* Recovery itself threw: the material is kept and only a rescue goes on.
RollbackFails ==
  /\ pc \in RollbackSteps
  /\ pc' = "idle"
  /\ tx' = [tx EXCEPT !.stage = "failed", !.recovered = "no"]
  /\ svc' = [svc EXCEPT !.accepting = IF MustResume /\ tx.pid = "live" THEN TRUE ELSE @]
  /\ UNCHANGED <<file, integ, active, revs, recovering, drainPid, appOpen, bounds, ghosts>>

-----------------------------------------------------------------------------
(* cancelSpaceSwitch and the subscription rescue of gateway-admin.mjs      *)

\* Mutant of Cancel: an interrupted attempt may be cancelled too.
CancelApplying ==
  /\ Idle
  /\ \/ tx.stage \in {"prepared", "pending_app_quit", "applying"}
     \/ tx.stage = "failed" /\ tx.recovered = "yes"
  /\ tx' = NoTx /\ atRest' = {}
  /\ UNCHANGED <<world, active, revs, ctl, appOpen, bounds, byUser, torn>>

Cancel ==
  /\ Idle
  /\ \/ tx.stage \in {"prepared", "pending_app_quit"}
     \/ tx.stage = "failed" /\ tx.recovered = "yes"
  /\ tx' = NoTx /\ atRest' = {}
  /\ UNCHANGED <<world, active, revs, ctl, appOpen, bounds, byUser, torn>>

Rescue ==
  /\ Idle /\ ~appOpen
  /\ pc' = "rescueCodex"
  /\ atRest' = {}      \* the user confirmed that they are given up
  /\ UNCHANGED <<world, active, revs, tx, recovering, drainPid, appOpen, bounds, byUser, torn>>

RescueCodex   == IntegrateCodex(Protected, "rescueCodex", "rescueCatalog")
RescueCatalog == IntegrateCatalog(Protected, "rescueCatalog", "rescueState")
RescueState   == IntegrateState(Protected, "rescueState", "rescueService")

RescueService ==
  /\ Goto("rescueService", "rescueClear")
  /\ svc' = Down /\ tx' = TxPidGone
  /\ UNCHANGED <<file, integ, active, revs, recovering, drainPid, appOpen, bounds, ghosts>>

\* Mutant of RescueClear: the rescue leaves the transaction file behind.
RescueKeepsTx ==
  /\ Goto("rescueClear", "rescueCommit")
  /\ atRest' = {}
  /\ UNCHANGED <<world, active, revs, tx, recovering, drainPid, appOpen, bounds, byUser, torn>>

RescueClear ==
  /\ Goto("rescueClear", "rescueCommit")
  /\ tx' = NoTx /\ atRest' = {}
  /\ UNCHANGED <<world, active, revs, recovering, drainPid, appOpen, bounds, byUser, torn>>

\* No expectedActive: the pointer moves whatever it was.
RescueCommit ==
  /\ Goto("rescueCommit", "idle")
  /\ active' = Protected
  /\ torn' = FALSE
  /\ UNCHANGED <<world, revs, tx, recovering, drainPid, appOpen, bounds, byUser, atRest>>

RescueSteps == {"rescueCodex", "rescueCatalog", "rescueState", "rescueService",
                "rescueClear", "rescueCommit"}
RescueFails ==
  /\ pc \in RescueSteps
  /\ pc' = "idle" /\ torn' = (torn \/ pc # "rescueCodex")
  /\ UNCHANGED <<world, active, revs, tx, recovering, drainPid, appOpen, bounds, byUser, atRest>>

-----------------------------------------------------------------------------
(* The world around the commands                                           *)

\* The process holding the lock dies; what it had on disk stays.
Crash ==
  /\ ~Idle /\ crashes < MaxCrashes
  /\ crashes' = crashes + 1
  /\ pc' = "idle" /\ recovering' = FALSE /\ drainPid' = Unset
  /\ tx' = IF tx.stage = "none" THEN NoTx ELSE tx
  /\ torn' = (torn \/ pc \in RescueSteps \ {"rescueCodex"})
  /\ UNCHANGED <<world, active, revs, appOpen, attempts, edits, restarts, byUser, atRest>>

\* A hand edit of any file at any time; of the gateway config it also sets the
\* ghost that says the running service need not follow the pointer until it starts anew.
UserEdit(f, c) ==
  /\ edits < MaxEdits /\ c # file[f]
  /\ edits' = edits + 1
  /\ file' = [file EXCEPT ![f] = c]
  /\ byUser' = byUser \cup {f}
  /\ atRest' = IF Idle /\ tx.stage # "none" /\ c \notin {tx.src[f], tx.exp[f], tx.app[f]}
               THEN atRest \cup {f} ELSE atRest \ {f}
  /\ svc' = [svc EXCEPT !.cfgUser = @ \/ (svc.up /\ f = "gateway")]
  /\ UNCHANGED <<integ, active, revs, tx, ctl, appOpen, attempts, crashes, restarts, torn>>

\* launchd starts a new process when the service dies (KeepAlive).
ServiceRestart ==
  /\ svc.up /\ restarts < MaxRestarts
  /\ restarts' = restarts + 1
  /\ svc' = Started
  /\ tx' = TxPidGone /\ drainPid' = PidGone(drainPid)
  /\ UNCHANGED <<file, integ, active, revs, pc, recovering, appOpen, attempts, edits, crashes, ghosts>>

AppToggle ==
  /\ appOpen' = ~appOpen
  /\ UNCHANGED <<world, active, revs, tx, ctl, bounds, ghosts>>

Step ==
  \/ ReadSource \/ Prepare \/ PrepareFails \/ AppCheck
  \/ Start \/ Check \/ NoDrain \/ DrainSignal \/ DrainNotLoaded \/ DrainNoHealth
  \/ Drained \/ DrainTimeout \/ DrainThrows \/ Recheck \/ WriteGateway \/ Checkpoint \/ Expect
  \/ ApplyCodex \/ ApplyCatalog \/ ApplyState \/ Compare
  \/ ActivateService \/ ActivateServiceFails \/ Verify \/ Commit \/ Clear
  \/ AttemptFails \/ Recommit \/ RecommitFails
  \/ RollbackUntouched \/ RollbackCheck \/ RestoreGateway \/ RestoreCodex
  \/ RestoreCatalog \/ RestoreState \/ RestoreService \/ Restored \/ RollbackFails
  \/ RescueCodex \/ RescueCatalog \/ RescueState \/ RescueService
  \/ RescueClear \/ RescueCommit \/ RescueFails

Command == (\E t \in revs : Begin(t)) \/ Resume \/ ResumeVerified \/ Cancel \/ Rescue

Environment ==
  \/ Crash \/ ServiceRestart \/ AppToggle
  \/ \E f \in File, c \in EditContent : UserEdit(f, c)

Next == Command \/ Step \/ Environment

Spec == Init /\ [][Next]_vars
\* An awaited call returns or throws, so a command that does not die goes on.
FairSpec == Spec /\ WF_vars(Step)
-----------------------------------------------------------------------------
(* Properties                                                              *)

Pc == {"idle", "readSource", "preflight", "appCheck", "start", "draining",
       "recommit", "clear"} \cup AttemptSteps \cup RollbackSteps \cup RescueSteps
Stage == {"none", "prepared", "pending_app_quit", "applying", "verified", "failed"}
Pid   == {Unset, "live", "dead"}
Hashes == [File -> Content \cup {Unset}]
Tx == [stage : Stage, source : Rev, target : Rev, src : Hashes, exp : Hashes,
       app : Hashes, snapshot : Content \cup {Unset},
       recovered : {Unset, "yes", "no"}, drained : BOOLEAN,
       wasRunning : {Unset, "yes", "no"}, pid : Pid, skip : BOOLEAN]
Service == [up : BOOLEAN, accepting : BOOLEAN, cfg : Content \cup {Unset}, cfgUser : BOOLEAN]

\* Type invariant of the switch: every variable holds a value of its kind.
TypeOK ==
  /\ file \in [File -> Content] /\ integ \in Rev /\ svc \in Service
  /\ revs \subseteq Rev /\ {active, tx.target, Protected} \subseteq revs
  /\ tx \in Tx /\ pc \in Pc /\ recovering \in BOOLEAN /\ drainPid \in Pid
  /\ appOpen \in BOOLEAN
  /\ attempts \in Nat /\ edits \in Nat /\ crashes \in Nat /\ restarts \in Nat
  /\ byUser \subseteq File /\ atRest \subseteq File /\ torn \in BOOLEAN

\* The active pointer is committed last (docs/public/configuration-spaces.md:67):
\* until a transaction is verified the pointer still names its source, whatever
\* died or failed on the way.
PointerLast ==
  tx.stage \in {"prepared", "pending_app_quit", "applying", "failed"} => active = tx.source

\* What the command in the lock may rely on, by its place: this makes PointerLast
\* inductive.  Attempts and rollbacks run with the pointer still at the source.
Holding == {"appCheck", "start", "draining"} \cup AttemptSteps \cup RollbackSteps
LockHeld ==
  /\ pc \in {"readSource", "preflight", "rescueCommit"} => tx.stage = "none"
  /\ pc \in Holding => tx.stage # "none" /\ active = tx.source
  /\ pc = "preflight" => active = tx.source
  /\ pc = "commit" => tx.stage = "verified"
  /\ pc \in {"recommit", "clear"} =>
       \/ tx.stage = "verified"
       \/ tx.stage = "applying" /\ active = tx.target
  /\ tx.stage # "none" \/ pc = "preflight" => tx.src \in [File -> Content]

\* No transaction is open and no command runs, or only its clean-up is missing.
Settled == /\ Idle /\ ~torn
           /\ tx.stage = "none" \/ (tx.stage = "verified" /\ active = tx.target)

Installed(r) == \A f \in File \ byUser : Fits(r, f, file[f])

\* A switch is all or nothing: once no transaction is left, every file the user
\* did not edit since carries the active revision and the integration state
\* agrees with it, through crashes, failed attempts, recoveries and cancels.
AllOrNothing ==
  Settled => /\ Installed(active)
             /\ active \in Router <=> integ \in Router

\* The Router service never runs while official is active
\* (docs/public/configuration-spaces.md:105) and otherwise accepts turns under a
\* config that behaves like the active revision, unless the user wrote one since
\* the service started.
ServiceFollowsPointer ==
  Settled =>
    /\ active \in Official => ~svc.up
    /\ active \in Router =>
         /\ svc.up /\ svc.accepting
         /\ svc.cfgUser \/ <<svc.cfg, active>> \in ToolModeOnly

\* A transaction reported as failed but recovered has really restored its
\* source: files, integration and service; this is what lets cancel drop it.
RecoveredIsRestored ==
  Idle /\ ~torn /\ tx.stage = "failed" /\ tx.recovered = "yes" =>
    /\ Installed(tx.source)
    /\ tx.source \in Router <=> integ \in Router
    /\ svc.up => tx.source \in Router /\ svc.accepting

\* The three together: what a space switch guarantees about files and service.
SwitchSafe == TypeOK /\ AllOrNothing /\ ServiceFollowsPointer /\ RecoveredIsRestored

\* Rollback and apply write only over the transaction's own contents
\* (docs/public/architecture.md:15): a foreign edit made while the transaction
\* lay on disk is never overwritten by a later resume, recovery or rollback.
EditAtRestSurvives ==
  [][\A f \in atRest : \/ file'[f] = file[f]
                       \/ edits' # edits
                       \/ pc \in RescueSteps]_vars

\* A command never keeps the transaction lock for ever while it lives.
CommandEnds == ~Idle ~> Idle

\* What src/test/space-switch.test.mjs:376 says of a switch that drained its
\* source and then failed: the reopened App finds the source Router serving.
ReopenedAppServed ==
  Idle /\ appOpen /\ tx.stage = "failed" /\ tx.source \in Router /\ svc.up => svc.accepting

\* docs/public/configuration-spaces.md:90 says of hand edits to Router-owned fields
\* of the active config: switching stops rather than overwriting those edits.
DriftNotOverwritten ==
  [][pc = "writeGateway" /\ active \in Router /\ "gateway" \in byUser
       => file'["gateway"] = file["gateway"] \/ edits' # edits]_vars

\* The promise to a user: see AtomicSwitch.  A transaction that only waits for
\* its file to be removed is no longer pending.
Pending == IF tx.stage = "none" \/ (tx.stage = "verified" /\ active = tx.target)
           THEN Unset ELSE tx.target
Promise == INSTANCE AtomicSwitch WITH None <- Unset, pending <- Pending

\* The file-by-file switch implements the one-step switch of AtomicSwitch.
RefinesAtomicSwitch == Promise!Spec
=============================================================================
