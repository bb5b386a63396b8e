------------------------------ MODULE MCStoredFiles ------------------------------
(* What lies on the disk, each part by itself: the revision store and the lock *)
(* file it is changed under, the archive of histories, and the rollout files   *)
(* of Codex.  Two commands, three spaces and up to three revisions of two      *)
(* contents; three processes at the lock and up to three deaths, enough for a  *)
(* dead owner, a process that takes its lock over and a third that looked at   *)
(* the old one; a branch and its fork with up to three versions; files of up   *)
(* to four records.                                                            *)
EXTENDS MCSpaceRevisions, FileLock, MCHistoryVersions, RolloutRecovery

VARIABLE machine

spaces == <<machine, vars>>
locks == <<machine, lockVars>>
archived == <<machine, archiveVars>>
recovered == <<machine, rolloutVars>>
all == <<spaces, locks, archived, recovered>>

SideInit ==
  /\ machine \in {"revisions", "lock", "archive", "rollout"}
  /\ Init /\ LockInit /\ ArchiveInit /\ RolloutInit
  /\ machine # "revisions" =>
       /\ active.space = Official
       /\ \A s \in {Official, Default} : files[s][1].content = x

SideNext ==
  \/ machine = "revisions" /\ Next /\ UNCHANGED <<locks, archived, recovered>>
  \/ machine = "lock" /\ LockNext /\ UNCHANGED <<spaces, archived, recovered>>
  \/ machine = "archive" /\ ArchiveNext /\ UNCHANGED <<spaces, locks, recovered>>
  \/ machine = "rollout" /\ RolloutNext /\ UNCHANGED <<spaces, locks, archived>>

\* The fairness of the lock; nothing it names is enabled before it is taken but a
\* process's first step.
SideSpec ==
  /\ SideInit /\ [][SideNext]_all
  /\ WF_lockVars(machine = "lock" /\ Age)
  /\ \A i \in Proc : WF_lockVars(machine = "lock" /\ Step(i))
=============================================================================
