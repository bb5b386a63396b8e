------------------------- MODULE StoredFilesProofs --------------------------
(* Theorems about what lies on the disk: the lock file, for any set of         *)
(* processes and any number of crashes; the revision store, for any number of  *)
(* commands, spaces, revisions and crashes; the archive, for any histories and *)
(* any number of saves, recoveries and prunes; and the rollout files, for any  *)
(* tasks, forks and lines lost.                                                *)
EXTENDS FileLock, SpaceRevisions, HistoryVersions, RolloutRecovery, FiniteSetTheorems,
        WellFoundedInduction, TLAPS

-----------------------------------------------------------------------------
(* The lock file. *)

LockInv == LockTypeOK /\ OwnersInside

LEMMA LockInitInv == LockInit => LockInv
BY LockConstants DEF LockInit, LockInv, LockTypeOK, OwnersInside, Inside, LockFile, Pc

\* Creating the file when there is none lets its creator in, and it alone.
LEMMA EntersFree ==
  ASSUME LockInv, NEW p \in Proc, file = Free, file' = Fresh(p),
         at' = [at EXCEPT ![p] = "in"], deaths' = deaths
  PROVE  LockInv'
<1> USE LockConstants DEF LockInv, LockTypeOK, OwnersInside
<1>1. file' \in LockFile /\ file' # Free /\ file'.owner = p /\ ~file'.stale
  <2>1. Fresh(p) \in [owner : Proc \cup {Dead}, stale : BOOLEAN]
    BY DEF Fresh
  <2>2. Fresh(p) # Free /\ Fresh(p).owner = p /\ ~Fresh(p).stale
    BY <2>1 DEF Fresh
  <2>3. QED
    BY <2>1, <2>2 DEF LockFile
<1>2. LockTypeOK'
  BY <1>1 DEF Pc
<1>3. \A q \in Proc : ~Inside(q) /\ at[q] # "break"
  OBVIOUS
<1>4. \A q \in Proc : (Inside(q)' <=> q = p) /\ (at[q] # "break")'
  BY <1>3 DEF Inside
<1>5. QED
  BY <1>1, <1>2, <1>4

\* Who may be inside follows the file, step by step.
LEMMA LockStepKeeps ==
  ASSUME OneBreaker, InTime, LockInv, [LockNext]_lockVars
  PROVE  LockInv'
<1> USE LockConstants DEF LockInv, LockTypeOK, OwnersInside, Inside, LockFile, Pc, Move
<1>1. ASSUME NEW p \in Proc, Opens(p) PROVE LockInv'
  BY <1>1, EntersFree DEF Opens
<1>2. ASSUME NEW p \in Proc, Finds(p) PROVE LockInv'
  BY <1>2 DEF Finds
<1>3. ASSUME NEW p \in Proc, Refused(p) PROVE LockInv'
  BY <1>3 DEF Refused
<1>4. ASSUME NEW p \in Proc, SeenStale(p) PROVE LockInv'
  BY <1>4 DEF SeenStale
<1>5. ASSUME NEW p \in Proc, Break(p) PROVE LockInv'
  BY <1>5 DEF Break
<1>6. ASSUME NEW p \in Proc, Reopen(p) PROVE LockInv'
  BY <1>6, EntersFree DEF Reopen
<1>7. ASSUME NEW p \in Proc, ReopenFails(p) PROVE LockInv'
  BY <1>7 DEF ReopenFails
<1>8. ASSUME NEW p \in Proc, Unlocks(p) PROVE LockInv'
  BY <1>8 DEF Unlocks
<1>9. ASSUME NEW p \in Proc, Dies(p) PROVE LockInv'
  BY <1>9 DEF Dies
<1>10. CASE Age
  BY <1>10 DEF Age
<1>11. CASE UNCHANGED lockVars
  BY <1>11 DEF lockVars
<1>12. QED
  BY <1>1, <1>2, <1>3, <1>4, <1>5, <1>6, <1>7, <1>8, <1>9, <1>10, <1>11 DEF LockNext, Step

\* If callbacks end within staleMs and stale locks are taken over one at a time,
\* no two processes are inside at once, however many there are.
THEOREM LockIsExclusive ==
  ASSUME OneBreaker, InTime
  PROVE  LockSpec => []MutualExclusion
<1>1. LockInv /\ [LockNext]_lockVars => LockInv'
  BY LockStepKeeps
<1>2. LockInv => MutualExclusion
  BY DEF LockInv, OwnersInside, MutualExclusion, LockTypeOK, LockFile
<1>3. QED
  BY LockInitInv, <1>1, <1>2, PTL DEF LockSpec

-----------------------------------------------------------------------------
(* FileLock implements ExclusiveLock.                                      *)

LEMMA HolderIs ==
  ASSUME LockInv
  PROVE  /\ \A p \in Proc : Inside(p) <=> Holder = p
         /\ (\A p \in Proc : ~Inside(p)) => Holder = Free
<1>1. \A p, q \in Proc : Inside(p) /\ Inside(q) => p = q
  BY DEF LockInv, OwnersInside, LockTypeOK, LockFile
<1>2. QED
  BY <1>1, LockConstants DEF Holder

\* A step by which nobody enters or leaves stutters; entering acquires and
\* leaving frees.
LEMMA StepRefines ==
  ASSUME LockInv, LockInv', [LockNext]_lockVars
  PROVE  [Promise!Next]_Holder
<1> USE LockConstants
<1>1. CASE \A p \in Proc : Inside(p)' <=> Inside(p)
  <2>1. Holder' = Holder
    BY <1>1 DEF Holder
  <2>2. QED
    BY <2>1
<1>2. ASSUME NEW p \in Proc, at' = [at EXCEPT ![p] = "in"], file = Free
      PROVE  [Promise!Next]_Holder
  <2>1. \A q \in Proc : ~Inside(q)
    BY <1>2 DEF LockInv, OwnersInside
  <2>2. Inside(p)'
    BY <1>2 DEF Inside, LockInv, LockTypeOK
  <2>3. Holder = Free
    BY <2>1 DEF Holder
  <2>4. \A q \in Proc : Inside(q)' => q = p
    BY <1>2, <2>1 DEF Inside, LockInv, LockTypeOK
  <2>5. Holder' = p
    BY <2>2, <2>4 DEF Holder
  <2>6. QED
    BY <2>3, <2>5 DEF Promise!Next, Promise!Acquire
<1>3. ASSUME NEW p \in Proc, Inside(p), at' = [at EXCEPT ![p] = "idle"]
      PROVE  [Promise!Next]_Holder
  <2>1. Holder = p
    BY <1>3, HolderIs
  <2>2. \A q \in Proc : ~Inside(q)'
    BY <1>3 DEF Inside, LockInv, LockTypeOK, OwnersInside, LockFile
  <2>3. Holder' = Free
    BY <2>2 DEF Holder
  <2>4. QED
    BY <2>1, <2>3 DEF Promise!Next, Promise!Leave
<1>4. ASSUME NEW p \in Proc, Opens(p) \/ Reopen(p) PROVE [Promise!Next]_Holder
  BY <1>4, <1>2 DEF Opens, Reopen, Move
<1>5. ASSUME NEW p \in Proc, Unlocks(p) PROVE [Promise!Next]_Holder
  BY <1>5, <1>3 DEF Unlocks, Move, Inside
<1>6. ASSUME NEW p \in Proc, Dies(p) PROVE [Promise!Next]_Holder
  <2>1. CASE Inside(p)
    BY <1>6, <2>1, <1>3 DEF Dies
  <2>2. CASE ~Inside(p)
    <3>1. \A q \in Proc : Inside(q)' <=> Inside(q)
      BY <1>6, <2>2 DEF Dies, Inside, LockInv, LockTypeOK
    <3>2. QED
      BY <3>1, <1>1
  <2>3. QED
    BY <2>1, <2>2
<1>7. ASSUME NEW p \in Proc,
             Finds(p) \/ Refused(p) \/ SeenStale(p) \/ Break(p) \/ ReopenFails(p)
      PROVE  [Promise!Next]_Holder
  <2>1. \A q \in Proc : Inside(q)' <=> Inside(q)
    BY <1>7 DEF Finds, Refused, SeenStale, Break, ReopenFails, Move, Inside, LockInv, LockTypeOK
  <2>2. QED
    BY <2>1, <1>1
<1>8. CASE Age \/ UNCHANGED lockVars
  BY <1>8, <1>1 DEF Age, lockVars, Inside
<1>9. QED
  BY <1>4, <1>5, <1>6, <1>7, <1>8 DEF LockNext, Step

\* Under the same assumptions the lock file implements an exclusive lock.
THEOREM FileLockImplements ==
  ASSUME OneBreaker, InTime
  PROVE  LockSpec => ImplementsExclusiveLock
<1>1. LockInit => Promise!Init
  BY DEF LockInit, Promise!Init, Holder, Inside
<1>2. LockInv /\ [LockNext]_lockVars => LockInv'
  BY LockStepKeeps
<1>3. LockInv /\ LockInv' /\ [LockNext]_lockVars => [Promise!Next]_Holder
  BY StepRefines
<1>4. QED
  BY LockInitInv, <1>1, <1>2, <1>3, PTL DEF LockSpec, ImplementsExclusiveLock, Promise!Spec

-----------------------------------------------------------------------------
(* The revision store. *)

\* Who is between taking the lock and naming a revision holds it.
Holders == \A p \in Process : pc[p] \in {"create", "fill", "index"} => lock = p

\* A command that holds the lock stores the revision after the latest, which it
\* has read; one that waits for the lock has read an earlier latest, or this one.
Prepared(p) ==
  /\ job[p] \in Job
  /\ pc[p] = "append" => job[p].from \in 1..latest[job[p].space] /\ job[p].stored = job[p].from
  /\ pc[p] \in {"create", "fill", "index"} =>
       job[p].from = latest[job[p].space] /\ job[p].stored = job[p].from + 1
  /\ pc[p] = "index" => files[job[p].space][job[p].stored]
                          = [content |-> job[p].content, from |-> job[p].from]
  /\ pc[p] = "activate" => job[p].stored \in 1..latest[job[p].space]
AllPrepared == \A p \in Process : pc[p] # "idle" => Prepared(p)

RevisionsInv == NamedWhole /\ NoLostEdit /\ Holders /\ AllPrepared

LEMMA RevisionsInitInv == Init => RevisionsInv
<1> SUFFICES ASSUME Init PROVE RevisionsInv
  OBVIOUS
<1> USE RevisionConstants
<1>1. TypeOK
  BY DEF Init, TypeOK, Space, Ref, Revision
<1>2. NamedWhole
  BY <1>1 DEF Init, NamedWhole, Space, Ref, Revision
<1>3. NoLostEdit
  BY DEF Init, NoLostEdit, Space
<1> QED
  BY <1>2, <1>3 DEF Init, RevisionsInv, Holders, AllPrepared

\* What a command reads before it takes the lock.
LEMMA ReadKeeps ==
  ASSUME RevisionsInv, NEW p \in Process, NEW s \in Space, NEW c \in Content, NEW moves \in BOOLEAN,
         latest[s] > 0, Reads(p, s, c, moves)
  PROVE  RevisionsInv'
<1> USE RevisionConstants DEF RevisionsInv, NamedWhole, TypeOK, Reads, Goto, store
<1>1. job'[p] \in Job /\ job'[p].from = latest[s] /\ job'[p].stored = latest[s]
      /\ job'[p].space = s /\ \A q \in Process \ {p} : job'[q] = job[q]
  BY DEF Job, Ref
<1>2. TypeOK'
  BY <1>1
<1>3. NoLostEdit'
  BY DEF NoLostEdit
<1>4. Holders'
  BY DEF Holders
<1>5. AllPrepared'
  BY <1>1 DEF AllPrepared, Prepared
<1> QED
  BY <1>2, <1>3, <1>4, <1>5

\* Steps that leave the files and the numbers of the index alone.
LEMMA QuietKeeps ==
  ASSUME RevisionsInv, NEW p \in Process,
         Conflict(p) \/ Unchanged(p) \/ Exists(p) \/ Activate(p) \/ ActivateRefused(p) \/ Crash(p)
  PROVE  RevisionsInv'
<1> USE RevisionConstants DEF RevisionsInv, NamedWhole, TypeOK, Leave, Goto, store, Takes, Release
<1>0. UNCHANGED <<latest, files>> /\ crashes' \in Nat
  BY DEF Conflict, Unchanged, Exists, Activate, ActivateRefused, Crash, Moves
<1>1. pc'[p] \in {"idle", "activate"} /\ pc' = [pc EXCEPT ![p] = pc'[p]] /\ pc[p] # "idle"
  BY DEF Conflict, Unchanged, Exists, Activate, ActivateRefused, Crash, After
<1>2. job' = [job EXCEPT ![p] = job'[p]] /\ job'[p] \in {job[p], None}
      /\ (pc'[p] # "idle" => job' = job /\ Unchanged(p))
  BY DEF Conflict, Unchanged, Exists, Activate, ActivateRefused, Crash
<1>3. lock' = lock \/ (lock = p /\ lock' = None)
  BY DEF Conflict, Unchanged, Exists, Activate, ActivateRefused, Crash, Moves
<1>4. active' \in Ref /\ active'.revision \in 1..latest[active'.space]
  <2>1. CASE Activate(p)
    <3>1. job[p] \in Job /\ job[p].stored \in 1..latest[job[p].space]
      BY <2>1 DEF Activate, AllPrepared, Prepared
    <3>2. job[p].space \in Space /\ latest[job[p].space] \in 0..MaxRevision
      BY <3>1 DEF Job
    <3>3. active' = [space |-> job[p].space, revision |-> job[p].stored]
      BY <2>1 DEF Activate, Moves
    <3> QED
      BY <3>1, <3>2, <3>3, <1>0 DEF Ref
  <2>2. CASE ~Activate(p)
    BY <2>2 DEF Conflict, Unchanged, Exists, ActivateRefused, Crash
  <2> QED
    BY <2>1, <2>2
<1>5. TypeOK'
  BY <1>0, <1>1, <1>2, <1>3, <1>4
<1>6. NoLostEdit'
  BY <1>0 DEF NoLostEdit
<1>7. Holders'
  BY <1>1, <1>3 DEF Holders
<1>8. AllPrepared'
  <2> SUFFICES ASSUME NEW q \in Process, pc'[q] # "idle" PROVE Prepared(q)'
    BY DEF AllPrepared
  <2>1. CASE q = p
    BY <2>1, <1>0, <1>1, <1>2 DEF Unchanged, AllPrepared, Prepared
  <2>2. CASE q # p
    BY <2>2, <1>0, <1>1, <1>2 DEF AllPrepared, Prepared
  <2> QED
    BY <2>1, <2>2
<1> QED
  BY <1>0, <1>4, <1>5, <1>6, <1>7, <1>8

\* The lock is taken for the revision after the latest.
LEMMA TakeKeeps ==
  ASSUME RevisionsInv, NEW p \in Process, CreateSpace(p) \/ AppendRevision(p)
  PROVE  RevisionsInv'
<1> USE RevisionConstants DEF RevisionsInv, NamedWhole, TypeOK, Goto, store
<1>1. UNCHANGED <<latest, active, files, crashes>> /\ lock = None /\ lock' = p
      /\ pc' = [pc EXCEPT ![p] = "create"]
  BY DEF CreateSpace, AppendRevision, Adds, Takes
<1>2. job' = [job EXCEPT ![p] = job'[p]] /\ job'[p] \in Job
      /\ job'[p].from = latest[job'[p].space] /\ job'[p].stored = job'[p].from + 1
  <2>1. CASE CreateSpace(p)
    <3> PICK s \in Other, from \in Space \ {Official} : \E r \in 1..latest[from] :
         /\ latest[s] = 0
         /\ job' = [job EXCEPT ![p] = [space |-> s, content |-> files[from][r].content,
                      from |-> 0, stored |-> 1, active |-> active, moves |-> FALSE]]
      BY <2>1 DEF CreateSpace
    <3> PICK r \in 1..latest[from] :
         job' = [job EXCEPT ![p] = [space |-> s, content |-> files[from][r].content,
                      from |-> 0, stored |-> 1, active |-> active, moves |-> FALSE]]
      OBVIOUS
    <3>1. files[from][r].content \in Content
      BY DEF Revision
    <3> QED
      BY <3>1 DEF Job, Space
  <2>2. CASE AppendRevision(p)
    <3>1. job[p] \in Job /\ job[p].from = latest[job[p].space]
      BY <2>2 DEF AppendRevision, Adds, AllPrepared, Prepared
    <3>2. job' = [job EXCEPT ![p].stored = job[p].from + 1] /\ job[p].from + 1 \in 0..MaxRevision
      BY <2>2, <3>1 DEF AppendRevision, Adds, Job
    <3> QED
      BY <3>1, <3>2 DEF Job
  <2> QED
    BY <2>1, <2>2
<1>3. TypeOK'
  BY <1>1, <1>2
<1>4. NoLostEdit'
  BY <1>1 DEF NoLostEdit
<1>5. Holders'
  BY <1>1 DEF Holders
<1>6. AllPrepared'
  <2> SUFFICES ASSUME NEW q \in Process, pc'[q] # "idle" PROVE Prepared(q)'
    BY DEF AllPrepared
  <2>1. CASE q = p
    BY <2>1, <1>1, <1>2 DEF Prepared
  <2>2. CASE q # p
    BY <2>2, <1>1, <1>2 DEF AllPrepared, Prepared
  <2> QED
    BY <2>1, <2>2
<1> QED
  BY <1>1, <1>3, <1>4, <1>5, <1>6

\* A file is written only above the latest revision, by the holder of the lock.
LEMMA WriteKeeps ==
  ASSUME RevisionsInv, NEW p \in Process, Create(p) \/ Fill(p)
  PROVE  RevisionsInv'
<1> DEFINE s == job[p].space
           r == job[p].stored
<1> USE RevisionConstants DEF RevisionsInv, NamedWhole, TypeOK, Goto
<1>1. /\ UNCHANGED <<latest, active, lock, job, crashes>> /\ lock = p
      /\ pc[p] \in {"create", "fill"} /\ pc' = [pc EXCEPT ![p] = pc'[p]]
      /\ pc'[p] \in {"fill", "index"}
  BY DEF Create, Fill, Holders
<1>2. /\ job[p] \in Job /\ s \in Space /\ r \in 1..MaxRevision /\ r = latest[s] + 1
      /\ job[p].from = latest[s] /\ job[p].content \in Content
  <2>1. Prepared(p)
    BY <1>1 DEF AllPrepared
  <2>2. job[p] \in Job /\ job[p].from = latest[s] /\ r = job[p].from + 1
    BY <1>1, <2>1 DEF Prepared
  <2>3. s \in Space /\ r \in 0..MaxRevision /\ job[p].content \in Content /\ latest[s] \in Nat
    BY <2>2 DEF Job
  <2> QED
    BY <2>2, <2>3
<1>3. PICK f \in Revision \cup {Torn} :
        /\ files' = [files EXCEPT ![s][r] = f]
        /\ pc'[p] = "index" => f = [content |-> job[p].content, from |-> job[p].from]
  <2>1. CASE Create(p)
    BY <2>1 DEF Create
  <2>2. CASE Fill(p)
    BY <2>2, <1>2 DEF Fill, Revision
  <2> QED
    BY <2>1, <2>2
<1>4. TypeOK'
  BY <1>1, <1>2, <1>3
<1>5. \A t \in Space : \A n \in 1..latest[t] : files'[t][n] = files[t][n]
  BY <1>2, <1>3
<1>6. NoLostEdit'
  BY <1>1, <1>5 DEF NoLostEdit
<1>7. Holders'
  BY <1>1 DEF Holders
<1>8. AllPrepared'
  <2> SUFFICES ASSUME NEW q \in Process, pc'[q] # "idle" PROVE Prepared(q)'
    BY DEF AllPrepared
  <2>1. CASE q = p
    BY <2>1, <1>1, <1>2, <1>3 DEF Prepared
  <2>2. CASE q # p
    BY <2>2, <1>1, <1>2 DEF AllPrepared, Prepared, Holders
  <2> QED
    BY <2>1, <2>2
<1> QED
  BY <1>1, <1>4, <1>5, <1>6, <1>7, <1>8

\* The index is replaced and the lock released.
LEMMA PublishKeeps ==
  ASSUME RevisionsInv, NEW p \in Process, Publish(p)
  PROVE  RevisionsInv'
<1> DEFINE s == job[p].space
           r == job[p].stored
<1> USE RevisionConstants DEF RevisionsInv, NamedWhole, TypeOK, Leave, Goto, Publish, Release
<1>1. /\ UNCHANGED <<active, files, crashes>> /\ lock = p /\ lock' = None
      /\ pc[p] = "index" /\ pc' = [pc EXCEPT ![p] = pc'[p]] /\ pc'[p] \in {"idle", "activate"}
      /\ job' = [job EXCEPT ![p] = job'[p]] /\ job'[p] \in {job[p], None}
      /\ pc'[p] # "idle" => job' = job
  BY DEF After
<1>2. /\ job[p] \in Job /\ s \in Space /\ r \in 1..MaxRevision /\ r = latest[s] + 1
      /\ files[s][r] \in Revision /\ files[s][r].from = r - 1
      /\ latest' = [latest EXCEPT ![s] = r]
  <2>1. Prepared(p)
    BY <1>1 DEF AllPrepared
  <2>2. /\ job[p] \in Job /\ job[p].from = latest[s] /\ r = job[p].from + 1
        /\ files[s][r] = [content |-> job[p].content, from |-> job[p].from]
    BY <1>1, <2>1 DEF Prepared
  <2>3. /\ s \in Space /\ r \in 0..MaxRevision /\ job[p].content \in Content
        /\ latest[s] \in Nat /\ job[p].from \in 0..MaxRevision
    BY <2>2 DEF Job
  <2> QED
    BY <2>2, <2>3 DEF Revision
<1>3. TypeOK'
  BY <1>1, <1>2
<1>4. NamedWhole'
  BY <1>1, <1>2, <1>3 DEF Ref
<1>5. NoLostEdit'
  BY <1>1, <1>2 DEF NoLostEdit
<1>6. Holders'
  BY <1>1 DEF Holders
<1>7. AllPrepared'
  <2> SUFFICES ASSUME NEW q \in Process, pc'[q] # "idle" PROVE Prepared(q)'
    BY DEF AllPrepared
  <2>1. CASE q = p
    BY <2>1, <1>1, <1>2 DEF Prepared
  <2>2. CASE q # p
    BY <2>2, <1>1, <1>2 DEF AllPrepared, Prepared, Holders, Job
  <2> QED
    BY <2>1, <2>2
<1> QED
  BY <1>4, <1>5, <1>6, <1>7

LEMMA CommitKeeps == RevisionsInv /\ Commit => RevisionsInv'
BY RevisionConstants DEF RevisionsInv, NamedWhole, TypeOK, NoLostEdit, Holders, AllPrepared, Prepared,
   Commit, Ref

LEMMA RevisionsStepKeeps == RevisionsInv /\ [Next]_vars => RevisionsInv'
<1> SUFFICES ASSUME RevisionsInv, [Next]_vars PROVE RevisionsInv'
  OBVIOUS
<1>1. CASE UNCHANGED vars
  BY <1>1 DEF RevisionsInv, NamedWhole, TypeOK, NoLostEdit, Holders, AllPrepared, Prepared, vars, store
<1>2. ASSUME NEW p \in Process, Edit(p) \/ Capture(p) \/ CaptureOfficial(p) PROVE RevisionsInv'
  <2>1. \E s \in Space, c \in Content, moves \in BOOLEAN : latest[s] > 0 /\ Reads(p, s, c, moves)
    <3>1. CASE CaptureOfficial(p)
      <4>1. active.space = Official /\ latest[Official] \in Nat /\ Official \in Space
            /\ active.revision \in 1..latest[Official]
        BY <3>1 DEF CaptureOfficial, RevisionsInv, NamedWhole, TypeOK, Space
      <4>2. latest[Official] > 0
        BY <4>1
      <4> QED
        BY <3>1, <4>1, <4>2 DEF CaptureOfficial
    <3>2. CASE Edit(p) \/ Capture(p)
      BY <3>2 DEF Edit, Capture
    <3> QED
      BY <1>2, <3>1, <3>2
  <2> QED
    BY <2>1, ReadKeeps
<1> QED
  BY <1>1, <1>2, QuietKeeps, TakeKeeps, WriteKeeps, PublishKeeps, CommitKeeps DEF Next, Command

\* Whatever command dies when: a revision the index names, and the one the pointer
\* names, has its whole file.
THEOREM NamedAreWhole == Spec => []NamedWhole
<1>1. RevisionsInv => NamedWhole
  BY DEF RevisionsInv
<1> QED
  BY <1>1, RevisionsInitInv, RevisionsStepKeeps, PTL DEF Spec

\* No edit is lost: each revision was made from the one before it.
THEOREM EditsKept == Spec => []NoLostEdit
<1>1. RevisionsInv => NoLostEdit
  BY DEF RevisionsInv
<1> QED
  BY <1>1, RevisionsInitInv, RevisionsStepKeeps, PTL DEF Spec

\* What the index has named never changes and is never taken back.
THEOREM NamedAreKept == Spec => Immutable
<1> DEFINE Kept == \A s \in Space : /\ latest[s] <= latest'[s]
                                    /\ \A r \in 1..latest[s] : files'[s][r] = files[s][r]
<1>1. RevisionsInv /\ [Next]_vars => [Kept]_vars
  <2> SUFFICES ASSUME RevisionsInv, Next PROVE Kept
    OBVIOUS
  <2> USE RevisionConstants DEF RevisionsInv, NamedWhole, TypeOK
  <2>1. CASE Commit
    BY <2>1 DEF Commit
  <2>2. ASSUME NEW p \in Process, Command(p) \/ Crash(p) PROVE Kept
    <3>1. CASE Create(p) \/ Fill(p)
      <4>1. Prepared(p) /\ pc[p] \in {"create", "fill"} /\ latest' = latest
        BY <3>1 DEF Create, Fill, Goto, AllPrepared
      <4>2. job[p].space \in Space /\ latest[job[p].space] \in Nat
            /\ job[p].stored = latest[job[p].space] + 1
        BY <4>1 DEF Prepared, Job
      <4> QED
        BY <3>1, <4>1, <4>2 DEF Create, Fill
    <3>2. CASE Publish(p)
      <4>1. Prepared(p) /\ pc[p] = "index"
        BY <3>2 DEF Publish, Leave, Goto, AllPrepared
      <4>2. job[p].space \in Space /\ latest[job[p].space] \in Nat
            /\ job[p].stored = latest[job[p].space] + 1
        BY <4>1 DEF Prepared, Job
      <4> QED
        BY <3>2, <4>2 DEF Publish
    <3>3. CASE ~(Create(p) \/ Fill(p) \/ Publish(p))
      <4>1. UNCHANGED <<latest, files>>
        BY <2>2, <3>3 DEF Command, Crash, Edit, Capture, CaptureOfficial, Reads, CreateSpace,
           Conflict, Unchanged, AppendRevision, Adds, Takes, Exists, Activate, ActivateRefused, Moves, store
      <4> QED
        BY <4>1
    <3> QED
      BY <3>1, <3>2, <3>3
  <2> QED
    BY <2>1, <2>2 DEF Next
<1> QED
  BY <1>1, RevisionsInitInv, RevisionsStepKeeps, PTL DEF Spec, Immutable

\* A capture moves the pointer only from where it found it, whatever was committed
\* while its author answered.
THEOREM PointerStays == Spec => PointerNotStolen
<1> DEFINE Stays == \A p \in Process : pc[p] = "activate" /\ active' # active /\ pc'[p] = "idle"
                                         => active = job[p].active
<1>1. RevisionsInv /\ [Next]_vars => [Stays]_vars
  <2> SUFFICES ASSUME RevisionsInv, Next, NEW p \in Process,
                      pc[p] = "activate", active' # active, pc'[p] = "idle"
               PROVE  active = job[p].active
    OBVIOUS
  <2>1. pc \in [Process -> {"idle", "append", "create", "fill", "index", "activate"}]
    BY DEF RevisionsInv, NamedWhole, TypeOK
  <2>2. ~Commit
    BY DEF Commit
  <2>3. PICK q \in Process : Command(q) \/ Crash(q)
    BY <2>2 DEF Next
  <2>4. Activate(q)
    BY <2>3 DEF Command, Crash, Edit, Capture, CaptureOfficial, Reads, CreateSpace, Conflict,
       Unchanged, AppendRevision, Adds, Takes, Create, Exists, Fill, Publish, ActivateRefused, store
  <2>5. pc' = [pc EXCEPT ![q] = "idle"] /\ active = job[q].active
    BY <2>4 DEF Activate, Leave, Goto
  <2>6. p = q
    BY <2>1, <2>5
  <2> QED
    BY <2>5, <2>6
<1> QED
  BY <1>1, RevisionsInitInv, RevisionsStepKeeps, PTL DEF Spec, PointerNotStolen

-----------------------------------------------------------------------------
(* The archive: sequences, and the least of some numbers. *)

LEMMA SeqAt ==
  ASSUME NEW S, NEW s \in Seq(S), NEW n \in 1 .. Len(s)
  PROVE  s[n] \in S
OBVIOUS

LEMMA SeqDomain ==
  ASSUME NEW S, NEW s \in Seq(S)
  PROVE  DOMAIN s = 1 .. Len(s)
OBVIOUS

\* Of any numbers there is a least one: how the proofs below argue by induction.
LEMMA Least ==
  ASSUME NEW S \in SUBSET Nat, S # {}
  PROVE  \E m \in S : \A n \in S : m <= n
<1>1. PICK m \in S : \A n \in S : <<n, m>> \notin OpToRel(<, Nat)
  BY NatLessThanWellFounded, WFMin, Zenon
<1>2. \A n \in S : ~(n < m)
  BY <1>1, Zenon DEF OpToRel
<1> QED
  BY <1>2

LEMMA MaxIs ==
  ASSUME NEW n \in Nat, NEW S \in SUBSET (0 .. n), S # {}
  PROVE  Max(S) \in S /\ \A m \in S : m <= Max(S)
<1>1. PICK top \in {t \in Nat : \A m \in S : m <= t} :
         \A t \in {u \in Nat : \A m \in S : m <= u} : top <= t
  BY Least, n \in {t \in Nat : \A m \in S : m <= t}
<1>2. top \in S
  <2> SUFFICES ASSUME top \notin S PROVE FALSE
    OBVIOUS
  <2>1. \A m \in S : m < top
    BY <1>1
  <2>2. PICK m \in S : TRUE
    OBVIOUS
  <2>3. top - 1 \in Nat /\ \A k \in S : k <= top - 1
    BY <1>1, <2>1, <2>2
  <2> QED
    BY <1>1, <2>3
<1>3. \E x \in S : \A y \in S : x >= y
  BY <1>1, <1>2
<1>4. Max(S) \in S /\ \A y \in S : Max(S) >= y
  BY <1>3, Zenon DEF Max
<1> QED
  BY <1>4

-----------------------------------------------------------------------------
(* Tables of versions. *)

\* A difference taken from version v, or from none.
DiffFrom(v) == [base : {Absent} \cup ({v} \ {0}), prefix : Nat, suffix : Seq(EventItem), count : Nat]
Diff(v) == [base : {Absent} \cup (1 .. v - 1), prefix : Nat, suffix : Seq(EventItem), count : Nat]

Table(rows) ==
  /\ \E n \in Nat : DOMAIN rows \subseteq 1 .. n
  /\ \A v \in DOMAIN rows, kind \in Kinds : rows[v][kind] \in Diff(v)

LEMMA LatestIs ==
  ASSUME NEW rows, NEW n \in Nat, DOMAIN rows \subseteq 1 .. n
  PROVE  /\ Latest(rows) \in Nat
         /\ DOMAIN rows \subseteq 1 .. Latest(rows)
         /\ IF DOMAIN rows = {} THEN Latest(rows) = 0 ELSE Latest(rows) \in DOMAIN rows
<1> DEFINE S == DOMAIN rows \cup {0}
<1>1. S \in SUBSET (0 .. n) /\ S # {}
  OBVIOUS
<1>2. Max(S) \in S /\ \A m \in S : m <= Max(S)
  BY <1>1, MaxIs
<1>3. Latest(rows) = Max(S)
  BY DEF Latest
<1> HIDE DEF S
<1>4. Latest(rows) \in S /\ \A m \in S : m <= Latest(rows)
  BY <1>2, <1>3
<1> QED
  BY <1>4 DEF S

\* What a version reads is the same over two tables that agree on it and on what it
\* starts from.
LEMMA ItemsAgree ==
  ASSUME NEW rows, NEW more, NEW kind, NEW v, NEW f, NEW g,
         rows[v][kind] = more[v][kind],
         LET base == rows[v][kind].base
         IN base # Absent => /\ base \in DOMAIN rows <=> base \in DOMAIN more
                             /\ base \in DOMAIN rows => f[base] = g[base]
  PROVE  Items(rows, kind, v, f) = Items(more, kind, v, g)
BY DEF Items

LEMMA StreamIs ==
  ASSUME NEW rows, NEW kind \in Kinds, Table(rows)
  PROVE  Stream(rows, kind) = [v \in DOMAIN rows |-> Items(rows, kind, v, Stream(rows, kind))]
<1> DEFINE
  D(n) == {v \in DOMAIN rows : v <= n}
  Good(n) == \E g : g = [v \in D(n) |-> Items(rows, kind, v, g)]
<1>1. PICK top \in Nat : DOMAIN rows \subseteq 1 .. top
  BY DEF Table
<1>2. \A n \in Nat : Good(n)
  <2> SUFFICES ASSUME {n \in Nat : ~Good(n)} # {} PROVE FALSE
    OBVIOUS
  <2>1. PICK n \in {k \in Nat : ~Good(k)} : \A k \in {l \in Nat : ~Good(l)} : n <= k
    BY Least
  <2>2. n # 0
    <3>1. D(0) = {}
      BY <1>1
    <3>2. [v \in {} |-> 0] = [v \in D(0) |-> Items(rows, kind, v, [w \in {} |-> 0])]
      BY <3>1
    <3> QED
      BY <2>1, <3>2
  <2>3. n - 1 \in Nat /\ Good(n - 1)
    <3> HIDE DEF Good
    <3> QED
      BY <2>1, <2>2
  <2>4. PICK g : g = [v \in D(n - 1) |-> Items(rows, kind, v, g)]
    BY <2>3
  <2> DEFINE more == [v \in D(n) |-> IF v < n THEN g[v] ELSE Items(rows, kind, v, g)]
  <2>5. ASSUME NEW v \in D(n) PROVE Items(rows, kind, v, more) = Items(rows, kind, v, g)
    <3> DEFINE base == rows[v][kind].base
    <3>1. base \in DOMAIN rows => base < v
      BY <1>1, <2>5, ArchiveAssumption DEF Table, Diff
    <3>2. base \in DOMAIN rows => base \in D(n) /\ base < n
      BY <3>1, <1>1, <2>1
    <3>3. base \in DOMAIN rows => more[base] = g[base]
      BY <3>2
    <3> QED
      <4> HIDE DEF more
      <4> QED
        BY <3>3, ItemsAgree
  <2>6. ASSUME NEW v \in D(n) PROVE more[v] = Items(rows, kind, v, more)
    <3>1. CASE v < n
      <4>1. v \in D(n - 1)
        BY <3>1, <1>1, <2>1
      <4>2. g[v] = Items(rows, kind, v, g)
        BY <2>4, <4>1
      <4> QED
        BY <4>2, <2>5, <3>1
    <3>2. CASE ~(v < n)
      BY <3>2, <2>5
    <3> QED
      BY <3>1, <3>2
  <2>7. more = [v \in D(n) |-> Items(rows, kind, v, more)]
    BY <2>6
  <2> QED
    BY <2>7, <2>1
<1>3. D(top) = DOMAIN rows
  BY <1>1
<1>4. PICK g : g = [v \in DOMAIN rows |-> Items(rows, kind, v, g)]
  BY <1>2, <1>3
<1> QED
  BY <1>4, Zenon DEF Stream

LEMMA StreamAt ==
  ASSUME NEW rows, NEW kind \in Kinds, Table(rows), NEW v \in DOMAIN rows
  PROVE  Stream(rows, kind)[v] = Items(rows, kind, v, Stream(rows, kind))
BY StreamIs

\* A version reads items, or not at all.
LEMMA StreamType ==
  ASSUME NEW rows, NEW kind \in Kinds, Table(rows), NEW v \in DOMAIN rows
  PROVE  Stream(rows, kind)[v] \in Seq(EventItem) \cup {Absent}
<1> DEFINE
  f == Stream(rows, kind)
  Bad == {w \in DOMAIN rows : f[w] \notin Seq(EventItem) \cup {Absent}}
<1> SUFFICES ASSUME Bad # {} PROVE FALSE
  OBVIOUS
<1>1. Bad \in SUBSET Nat
  BY DEF Table
<1>2. PICK w \in Bad : \A u \in Bad : w <= u
  BY <1>1, Least
<1> DEFINE row == rows[w][kind]
           base == IF row.base = Absent THEN <<>>
                   ELSE IF row.base \in DOMAIN rows THEN f[row.base] ELSE Absent
<1>3. row \in Diff(w)
  BY DEF Table
<1>4. base \in Seq(EventItem) \cup {Absent}
  <2>1. row.base \in DOMAIN rows => row.base \in 1 .. w - 1
    BY <1>3, ArchiveAssumption DEF Diff, Table
  <2>2. row.base \in DOMAIN rows => row.base \notin Bad
    BY <2>1, <1>1, <1>2
  <2> QED
    BY <2>2
<1>5. row.prefix \in Nat /\ row.suffix \in Seq(EventItem)
  BY <1>3 DEF Diff
<1>6. ASSUME base # Absent
      PROVE  SubSeq(base, 1, row.prefix) \o row.suffix \in Seq(EventItem) \/ Len(base) < row.prefix
  <2>1. base \in Seq(EventItem)
    BY <1>6, <1>4
  <2> HIDE DEF base, row
  <2>2. CASE ~(Len(base) < row.prefix)
    <3>1. SubSeq(base, 1, row.prefix) \in Seq(EventItem)
      BY <2>1, <2>2, <1>5
    <3> QED
      BY <3>1, <1>5
  <2> QED
    BY <2>2
<1>7. f[w] = Items(rows, kind, w, f)
  BY StreamAt
<1>8. Items(rows, kind, w, f) \in Seq(EventItem) \cup {Absent}
  BY <1>6, Zenon DEF Items
<1> QED
  BY <1>7, <1>8

\* A version reads the same over two tables that agree up to it.
LEMMA StreamAgree ==
  ASSUME NEW rows, NEW more, NEW kind \in Kinds, Table(rows), Table(more), NEW n \in Nat,
         \A v \in 1 .. n : v \in DOMAIN rows <=> v \in DOMAIN more,
         \A v \in DOMAIN rows : v <= n => rows[v] = more[v]
  PROVE  \A v \in DOMAIN rows : v <= n => Stream(rows, kind)[v] = Stream(more, kind)[v]
<1> DEFINE
  f == Stream(rows, kind)
  g == Stream(more, kind)
  Bad == {w \in DOMAIN rows : w <= n /\ f[w] # g[w]}
<1> SUFFICES ASSUME Bad # {} PROVE FALSE
  OBVIOUS
<1>1. DOMAIN rows \subseteq Nat \ {0} /\ DOMAIN more \subseteq Nat \ {0}
  BY DEF Table
<1>2. PICK w \in Bad : \A u \in Bad : w <= u
  BY <1>1, Least
<1>3. w \in DOMAIN rows /\ w \in DOMAIN more /\ rows[w] = more[w]
  BY <1>1
<1> DEFINE base == rows[w][kind].base
<1>4. base # Absent => base \in 1 .. w - 1
  BY <1>3 DEF Table, Diff
<1>5. base # Absent => /\ base \in DOMAIN rows <=> base \in DOMAIN more
                       /\ base \in DOMAIN rows => f[base] = g[base]
  BY <1>1, <1>2, <1>4
<1>6. Items(rows, kind, w, f) = Items(more, kind, w, g)
  <2> HIDE DEF f, g
  <2> QED
    BY <1>3, <1>5, ItemsAgree
<1>7. f[w] = Items(rows, kind, w, f) /\ g[w] = Items(more, kind, w, g)
  BY <1>3, StreamAt
<1> QED
  BY <1>6, <1>7

\* Over a table that has lost versions, a version reads as before or not at all.
LEMMA StreamLess ==
  ASSUME NEW rows, NEW fewer, NEW kind \in Kinds, Table(rows), Table(fewer),
         DOMAIN fewer \subseteq DOMAIN rows,
         \A v \in DOMAIN fewer : fewer[v] = rows[v]
  PROVE  \A v \in DOMAIN fewer : Stream(fewer, kind)[v] \in {Absent, Stream(rows, kind)[v]}
<1> DEFINE
  f == Stream(fewer, kind)
  g == Stream(rows, kind)
  Bad == {w \in DOMAIN fewer : f[w] \notin {Absent, g[w]}}
<1> SUFFICES ASSUME Bad # {} PROVE FALSE
  OBVIOUS
<1>1. DOMAIN rows \subseteq Nat \ {0} /\ DOMAIN fewer \subseteq Nat \ {0}
  BY DEF Table
<1>2. PICK w \in Bad : \A u \in Bad : w <= u
  BY <1>1, Least
<1> DEFINE base == fewer[w][kind].base
<1>3. fewer[w] = rows[w]
  OBVIOUS
<1>4. base # Absent => base \in 1 .. w - 1
  BY DEF Table, Diff
<1>5. f[w] = Items(fewer, kind, w, f) /\ g[w] = Items(rows, kind, w, g)
  BY StreamAt
<1>6. base # Absent => base \in DOMAIN fewer /\ f[base] # Absent
  <2> HIDE DEF f, g
  <2> QED
    BY <1>5 DEF Items
<1>7. base # Absent => base \in DOMAIN rows /\ f[base] = g[base]
  BY <1>2, <1>4, <1>6, <1>1
<1>8. Items(fewer, kind, w, f) = Items(rows, kind, w, g)
  <2> HIDE DEF f, g
  <2> QED
    BY <1>3, <1>6, <1>7, ItemsAgree
<1> QED
  BY <1>5, <1>8

LEMMA ReadBackIs ==
  ASSUME NEW rows, NEW v, Table(rows)
  PROVE  IF v \in DOMAIN rows /\ \A kind \in Kinds : Stream(rows, kind)[v] # Absent
         THEN /\ ReadBack(rows, v) = [kind \in Kinds |-> Stream(rows, kind)[v]]
              /\ ReadBack(rows, v) \in Histories
         ELSE ReadBack(rows, v) = Absent
<1>1. CASE v \in DOMAIN rows /\ \A kind \in Kinds : Stream(rows, kind)[v] # Absent
  <2>1. ReadBack(rows, v) = [kind \in Kinds |-> Stream(rows, kind)[v]]
    BY <1>1 DEF ReadBack
  <2>2. \A kind \in Kinds : Stream(rows, kind)[v] \in Seq(EventItem)
    BY <1>1, StreamType
  <2> QED
    BY <1>1, <2>1, <2>2 DEF Histories
<1>2. CASE ~(v \in DOMAIN rows /\ \A kind \in Kinds : Stream(rows, kind)[v] # Absent)
  BY <1>2 DEF ReadBack
<1> QED
  BY <1>1, <1>2

\* Histories are no Absent.
LEMMA Readable ==
  ASSUME NEW rows, NEW v, Table(rows)
  PROVE  ReadBack(rows, v) # Absent <=>
           v \in DOMAIN rows /\ \A kind \in Kinds : Stream(rows, kind)[v] # Absent
BY ReadBackIs, ArchiveAssumption

LEMMA ReadsAgree ==
  ASSUME NEW rows, NEW more, Table(rows), Table(more), NEW n \in Nat,
         \A v \in 1 .. n : v \in DOMAIN rows <=> v \in DOMAIN more,
         \A v \in DOMAIN rows : v <= n => rows[v] = more[v]
  PROVE  \A v \in DOMAIN rows : v <= n => ReadBack(rows, v) = ReadBack(more, v)
<1> TAKE v \in DOMAIN rows
<1> HAVE v <= n
<1>1. \A kind \in Kinds : Stream(rows, kind)[v] = Stream(more, kind)[v]
  BY StreamAgree
<1>2. v \in DOMAIN more
  BY DEF Table
<1> QED
  BY <1>1, <1>2 DEF ReadBack

LEMMA ReadsLess ==
  ASSUME NEW rows, NEW fewer, Table(rows), Table(fewer),
         DOMAIN fewer \subseteq DOMAIN rows,
         \A v \in DOMAIN fewer : fewer[v] = rows[v]
  PROVE  \A v \in DOMAIN fewer : ReadBack(fewer, v) \in {Absent, ReadBack(rows, v)}
<1> TAKE v \in DOMAIN fewer
<1>1. \A kind \in Kinds : Stream(fewer, kind)[v] \in {Absent, Stream(rows, kind)[v]}
  BY StreamLess
<1>2. CASE \A kind \in Kinds : Stream(fewer, kind)[v] # Absent
  <2>1. \A kind \in Kinds : Stream(fewer, kind)[v] = Stream(rows, kind)[v]
    BY <1>1, <1>2
  <2> QED
    BY <2>1 DEF ReadBack
<1>3. CASE \E kind \in Kinds : Stream(fewer, kind)[v] = Absent
  BY <1>3 DEF ReadBack
<1> QED
  BY <1>2, <1>3

-----------------------------------------------------------------------------
(* A version put behind the others. *)

LEMMA SharedIs ==
  ASSUME NEW entries \in Seq(EventItem), NEW previous \in Seq(EventItem)
  PROVE  /\ Shared(entries, previous) \in 0 .. Len(entries)
         /\ Shared(entries, previous) <= Len(previous)
         /\ SubSeq(entries, 1, Shared(entries, previous)) = SubSeq(previous, 1, Shared(entries, previous))
<1> DEFINE
  Same == {n \in 1 .. Len(entries) : /\ n <= Len(previous)
                                   /\ SubSeq(entries, 1, n) = SubSeq(previous, 1, n)}
  S == {0} \cup Same
<1>1. S \in SUBSET (0 .. Len(entries)) /\ S # {}
  OBVIOUS
<1>2. Max(S) \in S
  <2>1. Len(entries) \in Nat
    OBVIOUS
  <2> HIDE DEF S
  <2> QED
    BY <1>1, <2>1, MaxIs
<1>3. Shared(entries, previous) = Max(S)
  BY DEF Shared
<1>4. Shared(entries, previous) \in S
  BY <1>2, <1>3
<1>5. CASE Shared(entries, previous) = 0
  BY <1>5
<1>6. CASE Shared(entries, previous) \in Same
  BY <1>6
<1> QED
  BY <1>4, <1>5, <1>6

LEMMA JoinedAgain ==
  ASSUME NEW entries \in Seq(EventItem), NEW n \in 0 .. Len(entries)
  PROVE  /\ SubSeq(entries, 1, n) \in Seq(EventItem)
         /\ SubSeq(entries, n + 1, Len(entries)) \in Seq(EventItem)
         /\ Len(SubSeq(entries, n + 1, Len(entries))) = Len(entries) - n
         /\ SubSeq(entries, 1, n) \o SubSeq(entries, n + 1, Len(entries)) = entries
<1> DEFINE a == SubSeq(entries, 1, n)
           b == SubSeq(entries, n + 1, Len(entries))
<1>1. /\ a \in Seq(EventItem) /\ Len(a) = n
      /\ \A i \in 1 .. n : a[i] = entries[i]
  OBVIOUS
<1>2. /\ b \in Seq(EventItem) /\ Len(b) = Len(entries) - n
      /\ \A i \in 1 .. Len(entries) - n : b[i] = entries[n + i]
  OBVIOUS
<1> HIDE DEF a, b
<1>3. a \o b \in Seq(EventItem) /\ Len(a \o b) = Len(entries)
  BY <1>1, <1>2, Z3
<1>4. ASSUME NEW i \in 1 .. Len(entries) PROVE (a \o b)[i] = entries[i]
  <2>1. CASE i <= n
    <3>1. (a \o b)[i] = a[i]
      BY <1>1, <1>2, <2>1
    <3> QED
      BY <3>1, <1>1, <2>1
  <2>2. CASE ~(i <= n)
    <3>1. (a \o b)[i] = b[i - n]
      BY <1>1, <1>2, <2>2
    <3>2. i - n \in 1 .. Len(entries) - n /\ n + (i - n) = i
      BY <2>2
    <3> QED
      BY <3>1, <3>2, <1>2
  <2> QED
    BY <2>1, <2>2
<1>5. a \o b = entries
  <2> DEFINE c == a \o b
  <2>1. c \in Seq(EventItem) /\ Len(c) = Len(entries) /\ \A i \in 1 .. Len(entries) : c[i] = entries[i]
    BY <1>3, <1>4
  <2> HIDE DEF c
  <2>2. c = entries
    BY <2>1
  <2> QED
    BY <2>2 DEF c
<1> QED
  BY <1>1, <1>2, <1>5 DEF a, b

\* Version w's stream of a kind is what a stream of entries differs by from what
\* version v reads, or from none.
Differs(rows, kind, w, read, entries, previous, v) ==
  /\ entries \in Seq(EventItem) /\ previous \in Seq(EventItem) /\ v \in Nat
  /\ rows[w][kind] = Difference(entries, v, previous)
  /\ v # 0 => v \in DOMAIN rows /\ read[v] = previous
  /\ v = 0 => previous = <<>>

\* The difference reads back, over what it was taken from.
LEMMA DifferenceReads ==
  ASSUME NEW entries, NEW previous, NEW rows, NEW kind, NEW v, NEW w, NEW read,
         Differs(rows, kind, w, read, entries, previous, v)
  PROVE  /\ Difference(entries, v, previous) \in DiffFrom(v)
         /\ Items(rows, kind, w, read) = entries
<1> DEFINE n == Shared(entries, previous)
           row == rows[w][kind]
           base == IF row.base = Absent THEN <<>>
                   ELSE IF row.base \in DOMAIN rows THEN read[row.base] ELSE Absent
<1>0. /\ entries \in Seq(EventItem) /\ previous \in Seq(EventItem) /\ v \in Nat
      /\ rows[w][kind] = Difference(entries, v, previous)
      /\ v # 0 => v \in DOMAIN rows /\ read[v] = previous
      /\ v = 0 => previous = <<>>
  BY DEF Differs
<1>1. /\ n \in 0 .. Len(entries) /\ n <= Len(previous)
      /\ SubSeq(entries, 1, n) = SubSeq(previous, 1, n)
  BY <1>0, SharedIs
<1> HIDE DEF n
<1>2. row = [base |-> IF n > 0 THEN v ELSE Absent, prefix |-> n,
             suffix |-> SubSeq(entries, n + 1, Len(entries)), count |-> Len(entries)]
  BY <1>0 DEF Difference, n
<1> HIDE DEF row
<1>3. n > 0 => v # 0
  BY <1>0, <1>1
<1>4. base = IF n > 0 THEN previous ELSE <<>>
  <2>1. CASE n > 0
    BY <1>0, <1>2, <1>3, <2>1, ArchiveAssumption
  <2>2. CASE ~(n > 0)
    BY <1>2, <2>2
  <2> QED
    BY <2>1, <2>2
<1>5. /\ row.prefix = n /\ row.suffix = SubSeq(entries, n + 1, Len(entries)) /\ row.count = Len(entries)
  BY <1>2
<1>6. /\ SubSeq(entries, 1, n) \in Seq(EventItem)
      /\ row.suffix \in Seq(EventItem) /\ n + Len(row.suffix) = Len(entries)
      /\ SubSeq(entries, 1, n) \o row.suffix = entries
  <2> DEFINE b == SubSeq(entries, n + 1, Len(entries))
  <2>1. /\ SubSeq(entries, 1, n) \in Seq(EventItem)
        /\ b \in Seq(EventItem) /\ Len(b) = Len(entries) - n
        /\ SubSeq(entries, 1, n) \o b = entries
    BY <1>0, <1>1, JoinedAgain
  <2>2. row.suffix = b
    BY <1>5
  <2> HIDE DEF b
  <2> QED
    BY <1>0, <1>1, <2>1, <2>2
<1>7. base # Absent /\ Len(base) >= n /\ SubSeq(base, 1, n) = SubSeq(entries, 1, n)
  <2>1. CASE n > 0
    BY <1>0, <1>1, <1>4, <2>1, ArchiveAssumption
  <2>2. CASE n = 0
    <3>1. base = <<>>
      BY <1>4, <2>2
    <3>2. <<>> \in Seq(EventItem) /\ Len(<<>>) = 0
      OBVIOUS
    <3>3. base # Absent
      BY <3>1, <3>2, ArchiveAssumption
    <3>4. SubSeq(<<>>, 1, 0) = <<>> /\ SubSeq(entries, 1, 0) = <<>>
      OBVIOUS
    <3>5. Len(base) >= n
      BY <3>1, <3>2, <2>2
    <3>6. SubSeq(base, 1, n) = SubSeq(entries, 1, n)
      BY <3>1, <3>4, <2>2, Zenon
    <3> QED
      BY <3>3, <3>5, <3>6
  <2> QED
    BY <1>0, <1>1, <2>1, <2>2
<1>8. Items(rows, kind, w, read) = SubSeq(base, 1, n) \o row.suffix
  <2>1. ~(Len(base) < row.prefix) /\ row.prefix + Len(row.suffix) = row.count
    BY <1>0, <1>1, <1>5, <1>6, <1>7
  <2>2. Items(rows, kind, w, read) = SubSeq(base, 1, row.prefix) \o row.suffix
    BY <1>7, <2>1, Zenon DEF Items, row
  <2> QED
    BY <2>2, <1>5
<1>9. row \in DiffFrom(v)
  BY <1>0, <1>1, <1>2, <1>3, <1>6 DEF DiffFrom
<1> QED
  BY <1>0, <1>6, <1>7, <1>8, <1>9 DEF row

LEMMA LastReadIs ==
  ASSUME NEW rows, Table(rows), LastRead(rows) # Absent
  PROVE  /\ LastRead(rows) \in Histories
         /\ Latest(rows) # 0 => \A kind \in Kinds :
              Stream(rows, kind)[Latest(rows)] = LastRead(rows)[kind]
         /\ Latest(rows) = 0 => \A kind \in Kinds : LastRead(rows)[kind] = <<>>
<1>1. PICK n \in Nat : DOMAIN rows \subseteq 1 .. n
  BY DEF Table
<1>2. IF DOMAIN rows = {} THEN Latest(rows) = 0 ELSE Latest(rows) \in DOMAIN rows /\ Latest(rows) # 0
  BY <1>1, LatestIs
<1>3. CASE DOMAIN rows = {}
  <2>1. LastRead(rows) = [kind \in Kinds |-> <<>>]
    BY <1>3 DEF LastRead
  <2> QED
    BY <2>1, <1>2, <1>3 DEF Histories
<1>4. CASE DOMAIN rows # {}
  <2>1. LastRead(rows) = ReadBack(rows, Latest(rows))
    BY <1>4 DEF LastRead
  <2> QED
    BY <2>1, <1>2, <1>4, ReadBackIs
<1> QED
  BY <1>3, <1>4

\* The version behind the others reads back what it was saved with, and the others what
\* they read before.
Appended(rows, more, last, h, r) ==
  /\ Table(more)
  /\ DOMAIN more = DOMAIN rows \cup {last} /\ last \notin DOMAIN rows
  /\ last \in Nat \ {0} /\ Latest(more) = last
  /\ ReadBack(more, last) = h /\ more[last].response = r
  /\ \A v \in DOMAIN rows : more[v] = rows[v] /\ ReadBack(more, v) = ReadBack(rows, v)
  /\ LastRead(more) # Absent

LEMMA AppendedReads ==
  ASSUME NEW rows, Table(rows), LastRead(rows) # Absent, NEW h \in Histories, NEW r,
         NEW more, more = Append1(rows, h, r), NEW last, last = Latest(rows) + 1
  PROVE  Appended(rows, more, last, h, r)
<1> DEFINE
  before == LastRead(rows)
  row == [original |-> Difference(h["original"], Latest(rows), before["original"]),
          view |-> Difference(h["view"], Latest(rows), before["view"]), response |-> r]
<1>1. PICK n \in Nat : DOMAIN rows \subseteq 1 .. n
  BY DEF Table
<1>2. /\ Latest(rows) \in Nat
      /\ DOMAIN rows \subseteq 1 .. Latest(rows)
      /\ IF DOMAIN rows = {} THEN Latest(rows) = 0 ELSE Latest(rows) \in DOMAIN rows
  BY <1>1, LatestIs
<1>3. more = Put(rows, {last}, row)
  BY DEF Append1
<1>4. last \in Nat \ {0} /\ last \notin DOMAIN rows
  BY <1>2
<1> HIDE DEF row
<1>5. /\ DOMAIN more = DOMAIN rows \cup {last}
      /\ \A v \in DOMAIN rows : more[v] = rows[v]
      /\ more[last] = row
  BY <1>3, <1>4 DEF Put
<1>6. \A kind \in Kinds : row[kind] = Difference(h[kind], Latest(rows), before[kind])
  BY DEF row, Kinds
<1>7. row.response = r
  BY DEF row
<1>8. before \in Histories
  BY LastReadIs
<1> DEFINE had(kind) == Stream(rows, kind)
<1>9. ASSUME NEW kind \in Kinds, NEW read, Latest(rows) # 0 => read[Latest(rows)] = before[kind]
      PROVE  more[last][kind] \in Diff(last) /\ Items(more, kind, last, read) = h[kind]
  <2>1. h[kind] \in Seq(EventItem) /\ before[kind] \in Seq(EventItem)
    BY <1>8 DEF Histories
  <2>2. more[last][kind] = Difference(h[kind], Latest(rows), before[kind])
    BY <1>5, <1>6
  <2>3. Latest(rows) # 0 => Latest(rows) \in DOMAIN more
    BY <1>2, <1>5
  <2>4. Latest(rows) = 0 => before[kind] = <<>>
    BY LastReadIs
  <2>5. /\ Difference(h[kind], Latest(rows), before[kind]) \in DiffFrom(Latest(rows))
        /\ Items(more, kind, last, read) = h[kind]
    <3>1. Latest(rows) \in Nat
      BY <1>2
    <3>2. Latest(rows) # 0 => Latest(rows) \in DOMAIN more /\ read[Latest(rows)] = before[kind]
      BY <1>9, <2>3
    <3> DEFINE entries == h[kind]
               previous == before[kind]
               v == Latest(rows)
    <3>3. entries \in Seq(EventItem) /\ previous \in Seq(EventItem) /\ v \in Nat
      BY <2>1, <3>1
    <3>4. Differs(more, kind, last, read, entries, previous, v)
      BY <2>2, <2>4, <3>2, <3>3 DEF Differs
    <3> HIDE DEF entries, previous, v
    <3>5. /\ Difference(entries, v, previous) \in DiffFrom(v)
          /\ Items(more, kind, last, read) = entries
      BY <3>4, DifferenceReads
    <3> QED
      BY <3>5 DEF entries, previous, v
  <2>6. {Latest(rows)} \ {0} \subseteq 1 .. last - 1
    BY <1>2
  <2> QED
    BY <2>2, <2>5, <2>6 DEF Diff, DiffFrom
<1>10. Table(more)
  <2>1. DOMAIN more \subseteq 1 .. last
    BY <1>2, <1>5
  <2>2. ASSUME NEW kind \in Kinds PROVE more[last][kind] \in Diff(last)
    <3>1. PICK read : Latest(rows) # 0 => read[Latest(rows)] = before[kind]
      BY LastReadIs
    <3> QED
      BY <3>1, <1>9
  <2>3. \A v \in DOMAIN rows, kind \in Kinds : more[v][kind] \in Diff(v)
    BY <1>5 DEF Table
  <2> QED
    BY <1>4, <1>5, <2>1, <2>2, <2>3 DEF Table
<1>11. \A v \in DOMAIN rows : ReadBack(rows, v) = ReadBack(more, v)
  <2>1. \A v \in 1 .. Latest(rows) : v \in DOMAIN rows <=> v \in DOMAIN more
    BY <1>2, <1>5
  <2>2. \A v \in DOMAIN rows : v <= Latest(rows) /\ rows[v] = more[v]
    BY <1>2, <1>5
  <2> QED
    BY <1>2, <1>10, <2>1, <2>2, ReadsAgree
<1>12. ReadBack(more, last) = h
  <2>1. ASSUME NEW kind \in Kinds PROVE Stream(more, kind)[last] = h[kind]
    <3>1. Latest(rows) # 0 => Stream(more, kind)[Latest(rows)] = before[kind]
      <4> SUFFICES ASSUME Latest(rows) # 0 PROVE Stream(more, kind)[Latest(rows)] = before[kind]
        OBVIOUS
      <4>1. Latest(rows) \in DOMAIN rows
        BY <1>2
      <4>2. Stream(rows, kind)[Latest(rows)] = before[kind]
        BY LastReadIs
      <4>3. \A v \in 1 .. Latest(rows) : v \in DOMAIN rows <=> v \in DOMAIN more
        BY <1>2, <1>5
      <4>4. \A v \in DOMAIN rows : v <= Latest(rows) => rows[v] = more[v]
        BY <1>5
      <4>5. Stream(rows, kind)[Latest(rows)] = Stream(more, kind)[Latest(rows)]
        BY <1>2, <1>10, <4>1, <4>3, <4>4, StreamAgree
      <4> QED
        BY <4>2, <4>5
    <3>2. Stream(more, kind)[last] = Items(more, kind, last, Stream(more, kind))
      BY <1>5, <1>10, StreamAt
    <3> QED
      BY <3>1, <3>2, <1>9
  <2>2. h = [kind \in Kinds |-> h[kind]] /\ \A kind \in Kinds : h[kind] \in Seq(EventItem)
    BY DEF Histories
  <2>3. \A kind \in Kinds : Stream(more, kind)[last] # Absent
    BY <2>1, <2>2, ArchiveAssumption
  <2>4. last \in DOMAIN more
    BY <1>5
  <2>5. ReadBack(more, last) = [kind \in Kinds |-> Stream(more, kind)[last]]
    BY <1>10, <2>3, <2>4, ReadBackIs
  <2>6. [kind \in Kinds |-> Stream(more, kind)[last]] = [kind \in Kinds |-> h[kind]]
    BY <2>1
  <2> QED
    BY <2>2, <2>5, <2>6
<1>13. Latest(more) = last
  <2>1. DOMAIN more \subseteq 1 .. last
    BY <1>2, <1>5
  <2>2. /\ Latest(more) \in Nat /\ DOMAIN more \subseteq 1 .. Latest(more)
        /\ IF DOMAIN more = {} THEN Latest(more) = 0 ELSE Latest(more) \in DOMAIN more
    BY <1>4, <2>1, LatestIs
  <2> QED
    BY <1>4, <1>5, <2>1, <2>2
<1>14. LastRead(more) # Absent
  <2>1. LastRead(more) = h
    BY <1>5, <1>12, <1>13 DEF LastRead
  <2> QED
    BY <2>1, ArchiveAssumption
<1> QED
  BY <1>4, <1>5, <1>7, <1>10, <1>11, <1>12, <1>13, <1>14 DEF Appended

LEMMA AppendReads ==
  ASSUME NEW rows, Table(rows), LastRead(rows) # Absent, NEW h \in Histories, NEW r
  PROVE  Appended(rows, Append1(rows, h, r), Latest(rows) + 1, h, r)
BY AppendedReads, Zenon

-----------------------------------------------------------------------------
(* One transaction adds histories behind the others. *)

\* `more` has the versions of `rows` and, behind them, versions that read back members
\* of H.
Grown(rows, more, H, r) ==
  /\ Table(more) /\ LastRead(more) # Absent
  /\ Latest(more) \in Nat /\ Latest(rows) <= Latest(more)
  /\ DOMAIN more = DOMAIN rows \cup (Latest(rows) + 1 .. Latest(more))
  /\ \A v \in DOMAIN rows : more[v] = rows[v] /\ ReadBack(more, v) = ReadBack(rows, v)
  /\ \A v \in Latest(rows) + 1 .. Latest(more) : ReadBack(more, v) \in H /\ more[v].response = r

LEMMA LatestOf ==
  ASSUME NEW rows, Table(rows)
  PROVE  /\ Latest(rows) \in Nat /\ DOMAIN rows \subseteq 1 .. Latest(rows)
         /\ Latest(rows) # 0 => Latest(rows) \in DOMAIN rows
BY LatestIs DEF Table

LEMMA GrownNot ==
  ASSUME NEW rows, NEW H, NEW r, Table(rows), LastRead(rows) # Absent
  PROVE  Grown(rows, rows, H, r)
BY LatestOf DEF Grown

LEMMA GrownByOne ==
  ASSUME NEW rows, NEW mid, NEW H \in SUBSET Histories, NEW r, NEW h \in H,
         Table(rows), Grown(rows, mid, H, r),
         NEW more, more = Append1(mid, h, r), NEW last, last = Latest(mid) + 1
  PROVE  Grown(rows, more, H, r) /\ Appended(mid, more, last, h, r)
<1>1. Latest(rows) \in Nat /\ DOMAIN rows \subseteq 1 .. Latest(rows)
  BY LatestOf
<1>2. h \in Histories /\ Table(mid) /\ LastRead(mid) # Absent
  BY DEF Grown
<1>11. Appended(mid, more, last, h, r)
  BY <1>2, AppendReads
<1>3. /\ Table(more) /\ LastRead(more) # Absent
      /\ DOMAIN more = DOMAIN mid \cup {last} /\ last \notin DOMAIN mid
      /\ Latest(more) = last
      /\ ReadBack(more, last) = h /\ more[last].response = r
      /\ \A v \in DOMAIN mid : more[v] = mid[v] /\ ReadBack(more, v) = ReadBack(mid, v)
  BY <1>11, Zenon DEF Appended
<1>4. /\ Latest(mid) \in Nat /\ Latest(rows) <= Latest(mid)
      /\ DOMAIN mid = DOMAIN rows \cup (Latest(rows) + 1 .. Latest(mid))
      /\ \A v \in DOMAIN rows : mid[v] = rows[v] /\ ReadBack(mid, v) = ReadBack(rows, v)
      /\ \A v \in Latest(rows) + 1 .. Latest(mid) : ReadBack(mid, v) \in H /\ mid[v].response = r
  BY DEF Grown
<1>5. Latest(rows) + 1 .. last = (Latest(rows) + 1 .. Latest(mid)) \cup {last}
  BY <1>1, <1>4
<1>6. DOMAIN more = DOMAIN rows \cup (Latest(rows) + 1 .. last)
  BY <1>3, <1>4, <1>5
<1>7. Latest(more) \in Nat /\ Latest(rows) <= Latest(more)
  BY <1>1, <1>3, <1>4
<1>8. \A v \in DOMAIN rows : more[v] = rows[v] /\ ReadBack(more, v) = ReadBack(rows, v)
  BY <1>3, <1>4
<1>9. \A v \in Latest(rows) + 1 .. last : ReadBack(more, v) \in H /\ more[v].response = r
  BY <1>3, <1>4, <1>5
<1>10. Grown(rows, more, H, r)
  BY <1>3, <1>6, <1>7, <1>8, <1>9, Zenon DEF Grown
<1> QED
  BY <1>10, <1>11

\* What is read back, and nothing else, is in the log.
LEMMA LogIs ==
  ASSUME NEW rows, Table(rows)
  PROVE  /\ DOMAIN LogOf(rows) = {v \in DOMAIN rows : ReadBack(rows, v) # Absent}
         /\ \A v \in DOMAIN LogOf(rows) :
              LogOf(rows)[v] = [original |-> ReadBack(rows, v)["original"],
                                view |-> ReadBack(rows, v)["view"], response |-> rows[v].response]
BY DEF LogOf

LEMMA AsHistory ==
  ASSUME NEW h \in Histories
  PROVE  [original |-> h["original"], view |-> h["view"]] = h
BY DEF Histories, Kinds

\* Such versions are what HistoryLog calls added.
LEMMA GrownIsAdded ==
  ASSUME NEW rows, NEW more, NEW H \in SUBSET (Saves \cap Histories), NEW r,
         Table(rows), LastRead(rows) # Absent, Grown(rows, more, H, r), Latest(rows) < Latest(more),
         \/ r = Absent
         \/ /\ Latest(more) = Latest(rows) + 1
            /\ \A v \in DOMAIN rows : rows[v].response # r
  PROVE  Log!Added(LogOf(rows), LogOf(more))
<1> DEFINE old   == LogOf(rows)
           later == LogOf(more)
           new   == DOMAIN later \ DOMAIN old
           first == Latest(rows) + 1
           last  == Latest(more)
<1>1. /\ Latest(rows) \in Nat /\ DOMAIN rows \subseteq 1 .. Latest(rows)
      /\ Latest(rows) # 0 => Latest(rows) \in DOMAIN rows
  BY LatestOf
<1>2. /\ Table(more) /\ last \in Nat
      /\ DOMAIN more = DOMAIN rows \cup (first .. last)
      /\ \A v \in DOMAIN rows : more[v] = rows[v] /\ ReadBack(more, v) = ReadBack(rows, v)
      /\ \A v \in first .. last : ReadBack(more, v) \in H /\ more[v].response = r
  BY DEF Grown
<1>3. \A v \in first .. last : ReadBack(more, v) # Absent /\ v \notin DOMAIN rows
  BY <1>1, <1>2, ArchiveAssumption
<1>4. /\ DOMAIN old = {v \in DOMAIN rows : ReadBack(rows, v) # Absent}
      /\ \A v \in DOMAIN old :
           old[v] = [original |-> ReadBack(rows, v)["original"],
                     view |-> ReadBack(rows, v)["view"], response |-> rows[v].response]
  BY LogIs
<1>5. /\ DOMAIN later = {v \in DOMAIN more : ReadBack(more, v) # Absent}
      /\ \A v \in DOMAIN later :
           later[v] = [original |-> ReadBack(more, v)["original"],
                       view |-> ReadBack(more, v)["view"], response |-> more[v].response]
  BY <1>2, LogIs
<1> HIDE DEF old, later
<1>6. new = first .. last
  BY <1>2, <1>3, <1>4, <1>5
<1>7. Max(DOMAIN old \cup {0}) + 1 = first
  <2> DEFINE S == DOMAIN old \cup {0}
  <2>1. Latest(rows) # 0 => Latest(rows) \in DOMAIN old
    <3> SUFFICES ASSUME Latest(rows) # 0 PROVE Latest(rows) \in DOMAIN old
      OBVIOUS
    <3>1. LastRead(rows) = ReadBack(rows, Latest(rows))
      BY <1>1 DEF LastRead
    <3> QED
      BY <1>1, <1>4, <3>1
  <2>2. S \in SUBSET (0 .. Latest(rows)) /\ S # {} /\ Latest(rows) \in S
    BY <1>1, <1>4, <2>1
  <2> HIDE DEF S
  <2>3. Max(S) \in S /\ \A m \in S : m <= Max(S)
    BY <1>1, <2>2, MaxIs
  <2>4. Max(S) = Latest(rows)
    <3>1. Max(S) \in 0 .. Latest(rows)
      BY <2>2, <2>3
    <3>2. Latest(rows) <= Max(S)
      BY <2>2, <2>3
    <3> QED
      BY <1>1, <3>1, <3>2
  <2> QED
    BY <2>4 DEF S
<1>8. new # {} /\ Max(new) = last
  <2>1. first \in Nat /\ first <= last
    BY <1>1, <1>2
  <2>2. new \in SUBSET (0 .. last) /\ new # {} /\ last \in new
    BY <1>2, <1>6, <2>1
  <2> HIDE DEF new
  <2>3. Max(new) \in new /\ \A m \in new : m <= Max(new)
    BY <1>2, <2>2, MaxIs
  <2>4. Max(new) \in 0 .. last /\ last <= Max(new)
    BY <2>2, <2>3
  <2> QED
    BY <1>2, <2>2, <2>4
<1>9. \A v \in DOMAIN old : later[v] = old[v]
  BY <1>2, <1>4, <1>5
<1>10. \A v \in new : [original |-> later[v].original, view |-> later[v].view] \in Saves
  <2> TAKE v \in new
  <2>1. v \in first .. last /\ v \in DOMAIN later
    BY <1>6
  <2>2. ReadBack(more, v) \in Saves /\ ReadBack(more, v) \in Histories
    BY <1>2, <2>1
  <2>3. /\ later[v].original = ReadBack(more, v)["original"]
        /\ later[v].view = ReadBack(more, v)["view"]
    BY <1>5, <2>1
  <2> QED
    BY <2>2, <2>3, AsHistory
<1>11. ASSUME NEW v \in new, NEW w \in DOMAIN later, v # w
       PROVE  later[v].response = Absent \/ later[v].response # later[w].response
  <2>1. v \in first .. last /\ v \in DOMAIN later
    BY <1>6
  <2>2. later[v].response = r /\ later[w].response = more[w].response
    <3>1. more[v].response = r
      BY <1>2, <2>1
    <3>2. w \in DOMAIN later
      OBVIOUS
    <3> QED
      BY <1>5, <2>1, <3>1, <3>2
  <2>3. CASE r = Absent
    BY <2>2, <2>3
  <2>4. CASE last = first /\ \A u \in DOMAIN rows : rows[u].response # r
    <3>1. w \in DOMAIN more /\ w # first /\ v = first
      BY <1>1, <1>5, <2>1, <2>4, <1>11
    <3>2. w \in DOMAIN rows
      BY <1>1, <1>2, <2>4, <3>1
    <3> QED
      BY <1>2, <2>2, <2>4, <3>2
  <2> QED
    BY <2>3, <2>4
<1>12. new = Log!Max(DOMAIN old \cup {0}) + 1 .. Log!Max(new)
  <2>1. Log!Max(DOMAIN old \cup {0}) = Max(DOMAIN old \cup {0}) /\ Log!Max(new) = Max(new)
    BY Zenon DEF Log!Max, Max
  <2> QED
    BY <1>6, <1>7, <1>8, <2>1, Zenon
<1> QED
  BY <1>8, <1>9, <1>10, <1>11, <1>12, Zenon DEF Log!Added, old, later

\* And versions that go, dropped.
LEMMA LessIsDropped ==
  ASSUME NEW rows, NEW fewer, Table(rows), Table(fewer),
         DOMAIN fewer \subseteq DOMAIN rows,
         \A v \in DOMAIN fewer : fewer[v] = rows[v]
  PROVE  Log!Dropped(LogOf(rows), LogOf(fewer))
<1>1. \A v \in DOMAIN fewer : ReadBack(fewer, v) \in {Absent, ReadBack(rows, v)}
  BY ReadsLess
<1> DEFINE old == LogOf(rows)
           later == LogOf(fewer)
<1>4. /\ DOMAIN old = {v \in DOMAIN rows : ReadBack(rows, v) # Absent}
      /\ \A v \in DOMAIN old :
           old[v] = [original |-> ReadBack(rows, v)["original"],
                     view |-> ReadBack(rows, v)["view"], response |-> rows[v].response]
  BY LogIs
<1>5. /\ DOMAIN later = {v \in DOMAIN fewer : ReadBack(fewer, v) # Absent}
      /\ \A v \in DOMAIN later :
           later[v] = [original |-> ReadBack(fewer, v)["original"],
                       view |-> ReadBack(fewer, v)["view"], response |-> fewer[v].response]
  BY LogIs
<1> HIDE DEF old, later
<1>2. \A v \in DOMAIN later :
        /\ v \in DOMAIN fewer /\ v \in DOMAIN old
        /\ ReadBack(fewer, v) = ReadBack(rows, v)
  BY <1>1, <1>4, <1>5
<1>3. \A v \in DOMAIN later : later[v] = old[v]
  BY <1>2, <1>4, <1>5
<1> QED
  BY <1>2, <1>3 DEF Log!Dropped, old, later

-----------------------------------------------------------------------------
(* The loop of a recovery. *)

Planned == Seq([item : Compaction, history : Histories])

LoopStep(b, plan, missing, after, n) ==
  IF n = 0 THEN [rows |-> versions[b], refs |-> refs[b], said |-> said[b]]
  ELSE IF n \in missing THEN Recovered(after[n - 1], b, plan[n])
  ELSE after[n - 1]

LEMMA LoopIs ==
  ASSUME NEW b, NEW plan, Len(plan) \in Nat, NEW missing
  PROVE  \E after :
           /\ AfterLoop(b, plan, missing) = after[Len(plan)]
           /\ \A n \in 0 .. Len(plan) : after[n] = LoopStep(b, plan, missing, after, n)
<1> DEFINE Good(n) == \E g : g = [i \in 0 .. n |-> LoopStep(b, plan, missing, g, i)]
<1>1. \A n \in Nat : Good(n)
  <2> SUFFICES ASSUME {n \in Nat : ~Good(n)} # {} PROVE FALSE
    OBVIOUS
  <2>1. PICK n \in {k \in Nat : ~Good(k)} : \A k \in {l \in Nat : ~Good(l)} : n <= k
    BY Least
  <2>2. CASE n = 0
    <3> DEFINE g == [i \in 0 .. 0 |-> LoopStep(b, plan, missing, <<>>, 0)]
    <3>1. \A i \in 0 .. 0 : LoopStep(b, plan, missing, g, i) = LoopStep(b, plan, missing, <<>>, 0)
      BY DEF LoopStep
    <3>2. g = [i \in 0 .. 0 |-> LoopStep(b, plan, missing, g, i)]
      BY <3>1
    <3> QED
      BY <2>1, <2>2, <3>2
  <2>3. CASE n # 0
    <3>1. n - 1 \in Nat /\ Good(n - 1)
      <4> HIDE DEF Good
      <4> QED
        BY <2>1, <2>3
    <3>2. PICK g : g = [i \in 0 .. n - 1 |-> LoopStep(b, plan, missing, g, i)]
      BY <3>1
    <3> DEFINE more == [i \in 0 .. n |-> IF i = n THEN LoopStep(b, plan, missing, g, n) ELSE g[i]]
    <3>3. ASSUME NEW i \in 0 .. n PROVE LoopStep(b, plan, missing, more, i) = LoopStep(b, plan, missing, g, i)
      <4>1. i # 0 => more[i - 1] = g[i - 1]
        BY <3>1
      <4> HIDE DEF more
      <4> QED
        BY <4>1 DEF LoopStep
    <3>4. ASSUME NEW i \in 0 .. n PROVE more[i] = LoopStep(b, plan, missing, more, i)
      <4>1. CASE i = n
        BY <4>1, <3>3
      <4>2. CASE i # n
        <5>1. i \in 0 .. n - 1
          BY <3>1, <4>2
        <5>2. g[i] = LoopStep(b, plan, missing, g, i)
          BY <3>2, <5>1
        <5> QED
          BY <4>2, <5>2, <3>3
      <4> QED
        BY <4>1, <4>2
    <3>5. more = [i \in 0 .. n |-> LoopStep(b, plan, missing, more, i)]
      BY <3>4
    <3> QED
      BY <2>1, <3>5
  <2> QED
    BY <2>2, <2>3
<1> DEFINE after == CHOOSE g : g = [n \in 0 .. Len(plan) |-> LoopStep(b, plan, missing, g, n)]
<1>2. after = [n \in 0 .. Len(plan) |-> LoopStep(b, plan, missing, after, n)]
  BY <1>1
<1>3. AfterLoop(b, plan, missing) = after[Len(plan)]
  BY Zenon DEF AfterLoop, LoopStep
<1> HIDE DEF after
<1> QED
  BY <1>2, <1>3

\* What a pass leaves: histories behind the others, and of each record it wrote the
\* version that reads back what it says.
Passed(b, H, n, missing, kept) ==
  /\ Grown(versions[b], kept.rows, H, Absent)
  /\ (\E i \in 1 .. n : i \in missing) => Latest(versions[b]) < Latest(kept.rows)
  /\ DOMAIN kept.said = DOMAIN kept.refs
  /\ \A k \in DOMAIN kept.refs :
       \/ k \in DOMAIN refs[b] /\ kept.refs[k] = refs[b][k] /\ kept.said[k] = said[b][k]
       \/ /\ k \in Compaction /\ kept.said[k] \in Histories
          /\ kept.refs[k] \in [branch : {b}, version : DOMAIN kept.rows]
          /\ ReadBack(kept.rows, kept.refs[k].version) = kept.said[k]

LEMMA LoopKeeps ==
  ASSUME NEW b, NEW plan \in Planned, NEW missing, NEW H \in SUBSET Histories,
         \A n \in 1 .. Len(plan) : plan[n].history \in H,
         Table(versions[b]), LastRead(versions[b]) # Absent, DOMAIN said[b] = DOMAIN refs[b]
  PROVE  Passed(b, H, Len(plan), missing, AfterLoop(b, plan, missing))
<1>1. Len(plan) \in Nat
  BY DEF Planned
<1>6. \A n \in 1 .. Len(plan) : plan[n] \in [item : Compaction, history : Histories]
  BY SeqAt, Zenon DEF Planned
<1>2. PICK after :
        /\ AfterLoop(b, plan, missing) = after[Len(plan)]
        /\ \A n \in 0 .. Len(plan) : after[n] = LoopStep(b, plan, missing, after, n)
  BY <1>1, LoopIs
<1> DEFINE Good(n) == Passed(b, H, n, missing, after[n])
<1>3. Good(0)
  <2>1. after[0] = [rows |-> versions[b], refs |-> refs[b], said |-> said[b]]
    BY <1>1, <1>2 DEF LoopStep
  <2>2. Grown(versions[b], versions[b], H, Absent)
    BY GrownNot
  <2> QED
    BY <2>1, <2>2 DEF Passed
<1>4. ASSUME NEW n \in 1 .. Len(plan), Good(n - 1) PROVE Good(n)
  <2> DEFINE was == after[n - 1]
             is == after[n]
  <2>1. is = IF n \in missing THEN Recovered(was, b, plan[n]) ELSE was
    BY <1>1, <1>2 DEF LoopStep
  <2> HIDE DEF was, is
  <2>2. Passed(b, H, n - 1, missing, was)
    BY <1>4 DEF was
  <2>3. CASE n \notin missing
    <3>1. is = was /\ \A i \in 1 .. n : i \in missing => i \in 1 .. n - 1
      BY <2>1, <2>3
    <3> QED
      BY <2>2, <3>1 DEF Passed, is
  <2>4. CASE n \in missing
    <3> DEFINE one  == plan[n]
               last == Latest(was.rows) + 1
               more == Append1(was.rows, one.history, Absent)
    <3>1. one.item \in Compaction /\ one.history \in H /\ one.history \in Histories
      <4>1. plan[n] \in [item : Compaction, history : Histories]
        BY <1>6
      <4> QED
        BY <4>1
    <3>2. /\ Grown(versions[b], was.rows, H, Absent)
          /\ DOMAIN was.said = DOMAIN was.refs
      BY <2>2 DEF Passed
    <3>3. /\ Grown(versions[b], more, H, Absent)
          /\ Latest(more) = last
          /\ ReadBack(more, last) = one.history
          /\ \A v \in DOMAIN was.rows : ReadBack(more, v) = ReadBack(was.rows, v)
          /\ DOMAIN more = DOMAIN was.rows \cup {last}
      <4>1. more = Append1(was.rows, one.history, Absent) /\ last = Latest(was.rows) + 1
        OBVIOUS
      <4> HIDE DEF more, last, one
      <4> QED
        <5>1. Grown(versions[b], more, H, Absent) /\ Appended(was.rows, more, last, one.history, Absent)
          BY <3>1, <3>2, <4>1, GrownByOne, Zenon
        <5> QED
          BY <5>1 DEF Appended
    <3>4. /\ is.rows = more
          /\ is.refs = Put(was.refs, {one.item}, [branch |-> b, version |-> last])
          /\ is.said = Put(was.said, {one.item}, one.history)
      BY <2>1, <2>4 DEF Recovered
    <3>5. Latest(versions[b]) \in Nat /\ Latest(versions[b]) <= Latest(was.rows) /\ Latest(was.rows) \in Nat
      BY <3>2, LatestOf DEF Grown
    <3>6. Latest(versions[b]) < Latest(more)
      BY <3>3, <3>5
    <3> HIDE DEF more, last, one
    <3>7. DOMAIN is.said = DOMAIN is.refs
      BY <3>2, <3>4 DEF Put
    <3>8. ASSUME NEW k \in DOMAIN is.refs
          PROVE  \/ k \in DOMAIN refs[b] /\ is.refs[k] = refs[b][k] /\ is.said[k] = said[b][k]
                 \/ /\ k \in Compaction /\ is.said[k] \in Histories
                    /\ is.refs[k] \in [branch : {b}, version : DOMAIN is.rows]
                    /\ ReadBack(is.rows, is.refs[k].version) = is.said[k]
      <4>1. CASE k = one.item
        <5>1. is.refs[k] = [branch |-> b, version |-> last] /\ is.said[k] = one.history
          BY <3>2, <3>4, <4>1 DEF Put
        <5> QED
          BY <3>1, <3>3, <3>4, <4>1, <5>1
      <4>2. CASE k # one.item
        <5>1. k \in DOMAIN was.refs /\ is.refs[k] = was.refs[k] /\ is.said[k] = was.said[k]
          BY <3>2, <3>4, <4>2 DEF Put
        <5>2. \/ k \in DOMAIN refs[b] /\ was.refs[k] = refs[b][k] /\ was.said[k] = said[b][k]
              \/ /\ k \in Compaction /\ was.said[k] \in Histories
                 /\ was.refs[k] \in [branch : {b}, version : DOMAIN was.rows]
                 /\ ReadBack(was.rows, was.refs[k].version) = was.said[k]
          BY <2>2, <5>1 DEF Passed
        <5> QED
          BY <3>3, <3>4, <5>1, <5>2
      <4> QED
        BY <4>1, <4>2
    <3>9. Passed(b, H, n, missing, is)
      BY <3>3, <3>4, <3>6, <3>7, <3>8 DEF Passed
    <3> QED
      BY <3>9 DEF is
  <2> QED
    BY <2>3, <2>4
<1>5. Good(Len(plan))
  <2> HIDE DEF Good
  <2> DEFINE Bad == {n \in 0 .. Len(plan) : ~Good(n)}
  <2> SUFFICES ASSUME Bad # {} PROVE FALSE
    BY <1>1
  <2>1. PICK n \in Bad : \A k \in Bad : n <= k
    <3>1. Bad \in SUBSET Nat
      BY <1>1
    <3> HIDE DEF Bad
    <3> QED
      BY <3>1, Least
  <2>2. n # 0
    BY <1>3, <2>1
  <2>3. n \in 1 .. Len(plan) /\ n - 1 \in 0 .. Len(plan) /\ n - 1 \notin Bad
    BY <1>1, <2>1, <2>2
  <2> QED
    BY <1>4, <2>1, <2>3
<1> QED
  BY <1>2, <1>5

-----------------------------------------------------------------------------
(* Where threads come from. *)

\* Branch a is among those that b's thread was forked from, directly or not.
Above(a, b) ==
  \A S \in SUBSET Branch :
    /\ Parent[b] # Absent => Parent[b] \in S
    /\ \A c \in S : Parent[c] # Absent => Parent[c] \in S
    => a \in S

LEMMA ParentAbove ==
  ASSUME NEW b \in Branch, Parent[b] # Absent
  PROVE  Above(Parent[b], b) /\ \A a : Above(a, Parent[b]) => Above(a, b)
<1>1. Above(Parent[b], b)
  BY DEF Above
<1>2. ASSUME NEW a, Above(a, Parent[b]) PROVE Above(a, b)
  BY <1>2 DEF Above
<1> QED
  BY <1>1, <1>2

LEMMA NotItself ==
  ASSUME NEW b \in Branch
  PROVE  ~Above(b, b)
<1> SUFFICES ASSUME Above(b, b) PROVE FALSE
  OBVIOUS
<1> DEFINE Down == {c \in Branch : Above(b, c)}
<1>1. PICK c \in Down : Parent[c] \notin Down
  BY ArchiveAssumption
<1>2. Parent[c] # Absent
  <2>1. CASE Parent[c] = Absent
    <3>1. b \in {}
      BY <1>1, <2>1 DEF Above
    <3> QED
      BY <3>1
  <2> QED
    BY <2>1
<1>3. Parent[c] \in Branch /\ ~Above(b, Parent[c])
  BY <1>1, <1>2, ArchiveAssumption
<1>4. PICK S \in SUBSET Branch :
        /\ Parent[Parent[c]] # Absent => Parent[Parent[c]] \in S
        /\ \A d \in S : Parent[d] # Absent => Parent[d] \in S
        /\ b \notin S
  BY <1>3, Zenon DEF Above
<1>5. b \in S \cup {Parent[c]}
  <2> DEFINE T == S \cup {Parent[c]}
  <2>1. T \in SUBSET Branch /\ Parent[c] \in T /\ \A d \in T : Parent[d] # Absent => Parent[d] \in T
    BY <1>3, <1>4
  <2> HIDE DEF T
  <2>2. b \in T
    BY <1>1, <2>1 DEF Above
  <2> QED
    BY <2>2 DEF T
<1>6. Parent[c] = b
  BY <1>4, <1>5
<1> QED
  BY <1>1, <1>6

-----------------------------------------------------------------------------
(* Records. *)

\* The records of branch b, over its versions: what they name and what they were
\* saved with.
Records(b, rows, named, told) ==
  /\ DOMAIN named \subseteq RecordKeys /\ DOMAIN told = DOMAIN named
  /\ \A k \in DOMAIN named :
       /\ told[k] \in Histories
       /\ named[k] \in [branch : Branch, version : Nat]
       /\ IF named[k].branch = b THEN ReadBack(rows, named[k].version) = told[k]
          ELSE Above(named[k].branch, b)

LEMMA RecordsGrow ==
  ASSUME NEW b, NEW rows, NEW more, NEW named, NEW told, Table(rows),
         Records(b, rows, named, told),
         \A v \in DOMAIN rows : ReadBack(more, v) = ReadBack(rows, v)
  PROVE  Records(b, more, named, told)
<1>1. ASSUME NEW k \in DOMAIN named, named[k].branch = b
      PROVE  ReadBack(more, named[k].version) = told[k]
  <2>1. ReadBack(rows, named[k].version) = told[k] /\ told[k] \in Histories
    BY <1>1 DEF Records
  <2>2. named[k].version \in DOMAIN rows
    BY <2>1, Readable, ArchiveAssumption
  <2> QED
    BY <2>1, <2>2
<1> QED
  BY <1>1 DEF Records

LEMMA RecordsPut ==
  ASSUME NEW b, NEW rows, NEW named, NEW told, Records(b, rows, named, told),
         NEW keys \in SUBSET RecordKeys, NEW h \in Histories,
         NEW ref \in [branch : Branch, version : Nat],
         IF ref.branch = b THEN ReadBack(rows, ref.version) = h ELSE Above(ref.branch, b)
  PROVE  Records(b, rows, Put(named, keys, ref), Put(told, keys, h))
<1> DEFINE names == Put(named, keys, ref)
           tells == Put(told, keys, h)
<1>1. DOMAIN told = DOMAIN named
  BY DEF Records
<1>2. DOMAIN names = DOMAIN named \cup keys /\ DOMAIN tells = DOMAIN named \cup keys
  BY <1>1 DEF Put
<1>3. \A k \in keys : names[k] = ref /\ tells[k] = h
  BY DEF Put
<1>4. \A k \in DOMAIN named \ keys : names[k] = named[k] /\ tells[k] = told[k]
  BY <1>1 DEF Put
<1> HIDE DEF names, tells
<1>5. Records(b, rows, names, tells)
  BY <1>2, <1>3, <1>4 DEF Records
<1> QED
  BY <1>5 DEF names, tells

LEMMA RecordsPassed ==
  ASSUME NEW b \in Branch, Records(b, versions[b], refs[b], said[b]), Table(versions[b]),
         NEW H, NEW n, NEW missing, NEW kept, Passed(b, H, n, missing, kept)
  PROVE  Records(b, kept.rows, kept.refs, kept.said)
<1>1. Table(kept.rows) /\ \A v \in DOMAIN versions[b] : ReadBack(kept.rows, v) = ReadBack(versions[b], v)
  BY DEF Passed, Grown
<1>2. Records(b, kept.rows, refs[b], said[b])
  BY <1>1, RecordsGrow
<1>3. DOMAIN kept.rows \subseteq Nat
  BY <1>1, LatestOf
<1>4. ASSUME NEW k \in DOMAIN kept.refs
      PROVE  /\ k \in RecordKeys /\ kept.said[k] \in Histories
             /\ kept.refs[k] \in [branch : Branch, version : Nat]
             /\ IF kept.refs[k].branch = b THEN ReadBack(kept.rows, kept.refs[k].version) = kept.said[k]
                ELSE Above(kept.refs[k].branch, b)
  <2>1. CASE k \in DOMAIN refs[b] /\ kept.refs[k] = refs[b][k] /\ kept.said[k] = said[b][k]
    BY <1>2, <2>1 DEF Records
  <2>2. CASE /\ k \in Compaction /\ kept.said[k] \in Histories
             /\ kept.refs[k] \in [branch : {b}, version : DOMAIN kept.rows]
             /\ ReadBack(kept.rows, kept.refs[k].version) = kept.said[k]
    BY <1>3, <2>2 DEF RecordKeys
  <2> QED
    BY <2>1, <2>2 DEF Passed
<1>5. DOMAIN kept.said = DOMAIN kept.refs
  BY DEF Passed
<1> QED
  BY <1>4, <1>5 DEF Records

-----------------------------------------------------------------------------
(* The archive. *)

ArchiveInv ==
  /\ DOMAIN versions = Branch /\ DOMAIN refs = Branch /\ DOMAIN said = Branch
  /\ \A b \in Branch : Table(versions[b]) /\ Records(b, versions[b], refs[b], said[b])
  /\ DOMAIN forks \subseteq Branch /\ Range(forks) \subseteq Branch \cup {Absent}
  /\ prunes \in 0 .. MaxPrunes
  /\ pruning \in {Absent} \cup [branch : Branch, before : {Absent} \cup Nat]

KeptLog == [b \in Branch |-> LogOf(versions[b])]

\* A step that writes one branch, as the log sees it.
LEMMA LogStep ==
  ASSUME NEW b \in Branch, NEW more, DOMAIN versions = Branch,
         versions' = [versions EXCEPT ![b] = more],
         Log!Added(LogOf(versions[b]), LogOf(more)) \/ Log!Dropped(LogOf(versions[b]), LogOf(more))
  PROVE  Log!LogNext
<1>1. KeptLog' = [c \in Branch |-> LogOf(versions'[c])]
  BY DEF KeptLog, LogOf, ReadBack, Stream, Items
<1>2. \A c \in Branch : versions'[c] = IF c = b THEN more ELSE versions[c]
  OBVIOUS
<1> DEFINE old == KeptLog
           later == KeptLog'
<1>3. /\ Log!Added(old[b], later[b]) \/ Log!Dropped(old[b], later[b])
      /\ \A c \in Branch \ {b} : later[c] = old[c]
  BY <1>1, <1>2 DEF KeptLog
<1> QED
  BY <1>3, Zenon DEF Log!LogNext, KeptLog

\* A step that writes one branch, as the invariant sees it.
LEMMA BranchStep ==
  ASSUME ArchiveInv, NEW b \in Branch, NEW rows, NEW named, NEW told,
         versions' = [versions EXCEPT ![b] = rows],
         refs' = [refs EXCEPT ![b] = named], said' = [said EXCEPT ![b] = told],
         Table(rows), Records(b, rows, named, told)
  PROVE  /\ DOMAIN versions' = Branch /\ DOMAIN refs' = Branch /\ DOMAIN said' = Branch
         /\ \A c \in Branch : Table(versions'[c]) /\ Records(c, versions'[c], refs'[c], said'[c])
BY DEF ArchiveInv

LEMMA RegisteredIs ==
  ASSUME ArchiveInv, NEW b \in Branch, NEW parent \in Branch \cup {Absent}
  PROVE  /\ DOMAIN Registered(b, parent) \subseteq Branch
         /\ Range(Registered(b, parent)) \subseteq Branch \cup {Absent}
BY DEF ArchiveInv, Registered, Put, Range

\* A call's history behind the others.
LEMMA OneAdded ==
  ASSUME NEW rows, Table(rows), LastRead(rows) # Absent, NEW h \in Given, NEW r,
         r = Absent \/ \A v \in DOMAIN rows : rows[v].response # r
  PROVE  /\ Appended(rows, Append1(rows, h, r), Latest(rows) + 1, h, r)
         /\ Log!Added(LogOf(rows), LogOf(Append1(rows, h, r)))
<1> DEFINE more == Append1(rows, h, r)
           last == Latest(rows) + 1
<1>1. h \in Histories /\ {h} \in SUBSET Histories /\ {h} \in SUBSET (Saves \cap Histories)
  BY ArchiveAssumption DEF Saves
<1>2. Grown(rows, rows, {h}, r)
  BY GrownNot
<1>3. more = Append1(rows, h, r) /\ last = Latest(rows) + 1
  OBVIOUS
<1> HIDE DEF more, last
<1>4. Grown(rows, more, {h}, r) /\ Appended(rows, more, last, h, r)
  BY <1>1, <1>2, <1>3, GrownByOne, Zenon
<1>5. Latest(rows) \in Nat /\ Latest(more) = last
  BY <1>4, LatestOf DEF Appended
<1>6. Latest(rows) < Latest(more) /\ Latest(more) = Latest(rows) + 1
  BY <1>3, <1>5
<1>7. Log!Added(LogOf(rows), LogOf(more))
  BY <1>1, <1>4, <1>6, GrownIsAdded, Zenon
<1> QED
  BY <1>4, <1>7 DEF more, last

LEMMA RespondKeeps ==
  ASSUME ArchiveInv, NEW b \in Branch, NEW r \in Response, NEW h \in Given,
         NEW entries \in SUBSET Compaction, Respond(b, r, h, entries)
  PROVE  ArchiveInv' /\ Log!LogNext
<1> DEFINE rows == versions[b]
           last == Latest(rows) + 1
           more == Append1(rows, h, r)
           keys == {r} \cup entries
           ref  == [branch |-> b, version |-> last]
<1>1. Table(rows) /\ Records(b, rows, refs[b], said[b])
  BY DEF ArchiveInv
<1>2. LastRead(rows) # Absent /\ (r = Absent \/ \A v \in DOMAIN rows : rows[v].response # r)
  BY DEF Respond, Writable, Prior
<1>3. h \in Histories
  BY ArchiveAssumption
<1>4. Appended(rows, more, last, h, r) /\ Log!Added(LogOf(rows), LogOf(more))
  BY <1>1, <1>2, OneAdded, Zenon
<1>5. /\ versions' = [versions EXCEPT ![b] = more]
      /\ refs' = [refs EXCEPT ![b] = Put(refs[b], keys, ref)]
      /\ said' = [said EXCEPT ![b] = Put(said[b], keys, h)]
      /\ forks' = Registered(b, Parent[b])
      /\ pruning' = pruning /\ prunes' = prunes
  BY Zenon DEF Respond
<1> HIDE DEF rows, more, last
<1>6. Table(more) /\ ReadBack(more, last) = h /\ last \in Nat
      /\ \A v \in DOMAIN rows : ReadBack(more, v) = ReadBack(rows, v)
  BY <1>4 DEF Appended
<1>7. Records(b, more, refs[b], said[b])
  BY <1>1, <1>6, RecordsGrow
<1>8. Records(b, more, Put(refs[b], keys, ref), Put(said[b], keys, h))
  <2>1. keys \in SUBSET RecordKeys /\ ref \in [branch : Branch, version : Nat] /\ ref.branch = b
        /\ ref.version = last
    BY <1>6 DEF RecordKeys
  <2> HIDE DEF keys, ref
  <2> QED
    BY <1>3, <1>6, <1>7, <2>1, RecordsPut
<1>9. Log!LogNext
  BY <1>4, <1>5, LogStep DEF ArchiveInv, rows
<1>10. /\ DOMAIN forks' \subseteq Branch
       /\ Range(forks') \subseteq Branch \cup {Absent}
  BY <1>5, RegisteredIs, ArchiveAssumption
<1>11. ArchiveInv'
  <2> HIDE DEF keys, ref
  <2>1. /\ DOMAIN versions' = Branch /\ DOMAIN refs' = Branch /\ DOMAIN said' = Branch
        /\ \A c \in Branch : Table(versions'[c]) /\ Records(c, versions'[c], refs'[c], said'[c])
    BY <1>5, <1>6, <1>8, BranchStep
  <2> QED
    BY <1>5, <1>10, <2>1 DEF ArchiveInv
<1> QED
  BY <1>9, <1>11

LEMMA ImportKeeps ==
  ASSUME ArchiveInv, NEW b \in Branch, NEW r, NEW h \in Given, Import(b, r, h)
  PROVE  ArchiveInv' /\ Log!LogNext
<1> DEFINE rows == versions[b]
           last == Latest(rows) + 1
           more == Append1(rows, h, r)
<1>1. Table(rows) /\ Records(b, rows, refs[b], said[b])
  BY DEF ArchiveInv
<1>2. LastRead(rows) # Absent /\ (r = Absent \/ \A v \in DOMAIN rows : rows[v].response # r)
  BY DEF Import, Writable, Prior
<1>3. Appended(rows, more, last, h, r) /\ Log!Added(LogOf(rows), LogOf(more))
  BY <1>1, <1>2, OneAdded, Zenon
<1>4. /\ versions' = [versions EXCEPT ![b] = more] /\ refs' = refs /\ said' = said
      /\ forks' = Registered(b, Parent[b])
      /\ pruning' = pruning /\ prunes' = prunes
  BY Zenon DEF Import
<1> HIDE DEF rows, more, last
<1>5. Table(more) /\ \A v \in DOMAIN rows : ReadBack(more, v) = ReadBack(rows, v)
  BY <1>3 DEF Appended
<1>6. Records(b, more, refs[b], said[b])
  BY <1>1, <1>5, RecordsGrow
<1>7. Log!LogNext
  BY <1>3, <1>4, LogStep DEF ArchiveInv, rows
<1>8. /\ DOMAIN forks' \subseteq Branch
      /\ Range(forks') \subseteq Branch \cup {Absent}
  BY <1>4, RegisteredIs, ArchiveAssumption
<1> QED
  BY <1>4, <1>5, <1>6, <1>7, <1>8 DEF ArchiveInv

LEMMA RecoverKeeps ==
  ASSUME ArchiveInv, NEW b \in Branch, NEW plan \in Plans, Recover(b, plan)
  PROVE  ArchiveInv' /\ Log!LogNext
<1> DEFINE missing == {n \in DOMAIN plan : plan[n].item \notin DOMAIN refs[b]}
           kept == AfterLoop(b, plan, missing)
           H == Saves \cap Histories
<1>1. Table(versions[b]) /\ Records(b, versions[b], refs[b], said[b])
  BY DEF ArchiveInv
<1>2. LastRead(versions[b]) # Absent
  BY DEF Recover, Writable
<1>3. /\ versions' = [versions EXCEPT ![b] = kept.rows]
      /\ refs' = [refs EXCEPT ![b] = kept.refs]
      /\ said' = [said EXCEPT ![b] = kept.said]
      /\ forks' = Registered(b, Absent)
      /\ pruning' = pruning /\ prunes' = prunes /\ missing # {}
  BY Zenon DEF Recover
<1>4. plan \in Planned /\ DOMAIN plan = 1 .. Len(plan)
  <2>1. plan \in Planned
    BY ArchiveAssumption, Zenon DEF Planned
  <2> QED
    BY <2>1, SeqDomain, Zenon DEF Planned
<1>5. \A n \in 1 .. Len(plan) : plan[n].history \in H
  <2> TAKE n \in 1 .. Len(plan)
  <2>1. plan[n] \in [item : Compaction, history : Histories]
    BY <1>4, SeqAt, Zenon DEF Planned
  <2>2. plan[n].history \in Saves
    BY <1>4 DEF Saves
  <2> QED
    BY <2>1, <2>2
<1>6. \E i \in 1 .. Len(plan) : i \in missing
  BY <1>3, <1>4
<1> HIDE DEF missing
<1>7. Passed(b, H, Len(plan), missing, kept)
  <2>1. H \in SUBSET Histories /\ DOMAIN said[b] = DOMAIN refs[b]
    BY <1>1 DEF Records
  <2> HIDE DEF H
  <2> QED
    BY <1>1, <1>2, <1>4, <1>5, <2>1, LoopKeeps, Zenon
<1> HIDE DEF kept
<1>8. /\ Table(kept.rows) /\ Grown(versions[b], kept.rows, H, Absent)
      /\ Latest(versions[b]) < Latest(kept.rows)
  BY <1>6, <1>7 DEF Passed, Grown
<1>9. Records(b, kept.rows, kept.refs, kept.said)
  <2> HIDE DEF H
  <2> QED
    BY <1>1, <1>7, RecordsPassed, Zenon
<1>10. Log!Added(LogOf(versions[b]), LogOf(kept.rows))
  <2>1. H \in SUBSET (Saves \cap Histories)
    OBVIOUS
  <2> HIDE DEF H
  <2> QED
    BY <1>1, <1>2, <1>8, <2>1, GrownIsAdded, Zenon
<1>11. Log!LogNext
  BY <1>3, <1>10, LogStep DEF ArchiveInv
<1>12. /\ DOMAIN forks' \subseteq Branch
       /\ Range(forks') \subseteq Branch \cup {Absent}
  BY <1>3, RegisteredIs
<1>13. /\ DOMAIN versions' = Branch /\ DOMAIN refs' = Branch /\ DOMAIN said' = Branch
       /\ \A c \in Branch : Table(versions'[c]) /\ Records(c, versions'[c], refs'[c], said'[c])
  BY <1>3, <1>8, <1>9, BranchStep
<1>14. ArchiveInv'
  BY <1>3, <1>12, <1>13 DEF ArchiveInv
<1> QED
  BY <1>11, <1>14

LEMMA InheritKeeps ==
  ASSUME ArchiveInv, NEW b \in Branch, NEW c \in Compaction, Inherit(b, c)
  PROVE  ArchiveInv' /\ versions' = versions
<1> DEFINE p == Parent[b]
           ref == refs[p][c]
           h == said[p][c]
<1>1. p # Absent /\ p \in Branch /\ c \in DOMAIN refs[p]
  BY ArchiveAssumption DEF Inherit
<1>2. Records(p, versions[p], refs[p], said[p]) /\ Records(b, versions[b], refs[b], said[b])
  BY <1>1 DEF ArchiveInv
<1>3. /\ refs' = [refs EXCEPT ![b] = Put(refs[b], {c}, ref)]
      /\ said' = [said EXCEPT ![b] = Put(said[b], {c}, h)]
      /\ versions' = versions /\ forks' = forks /\ pruning' = pruning /\ prunes' = prunes
  BY Zenon DEF Inherit
<1>4. h \in Histories /\ ref \in [branch : Branch, version : Nat]
  BY <1>1, <1>2 DEF Records
<1>5. Above(ref.branch, b)
  <2>1. ref.branch = p \/ Above(ref.branch, p)
    BY <1>1, <1>2, Zenon DEF Records
  <2> QED
    BY <1>1, <2>1, ParentAbove
<1>6. ref.branch # b
  BY <1>5, NotItself
<1> HIDE DEF ref, h
<1>7. Records(b, versions[b], Put(refs[b], {c}, ref), Put(said[b], {c}, h))
  <2>1. {c} \in SUBSET RecordKeys
    BY DEF RecordKeys
  <2> QED
    BY <1>2, <1>4, <1>5, <1>6, <2>1, RecordsPut
<1>8. ArchiveInv'
  BY <1>3, <1>7 DEF ArchiveInv
<1> QED
  BY <1>3, <1>8

LEMMA PruneKeeps ==
  ASSUME ArchiveInv, Prune
  PROVE  ArchiveInv' /\ Log!LogNext
<1> DEFINE b == pruning.branch
           rows == versions[b]
           stay == {w \in DOMAIN rows : pruning.before # Absent /\ w >= pruning.before}
           fewer == [v \in stay |-> rows[v]]
<1>1. b \in Branch
  BY DEF ArchiveInv, Prune
<1>2. Table(rows)
  BY <1>1 DEF ArchiveInv
<1>3. /\ versions' = [versions EXCEPT ![b] = fewer]
      /\ refs' = [refs EXCEPT ![b] = <<>>] /\ said' = [said EXCEPT ![b] = <<>>]
      /\ DOMAIN forks' \subseteq DOMAIN forks /\ \A c \in DOMAIN forks' : forks'[c] = forks[c]
      /\ pruning' = Absent /\ prunes' = prunes
  BY DEF Prune, Pruned
<1>4. DOMAIN fewer \subseteq DOMAIN rows /\ \A v \in DOMAIN fewer : fewer[v] = rows[v]
  OBVIOUS
<1> HIDE DEF b, rows, fewer
<1>5. Table(fewer)
  BY <1>2, <1>4 DEF Table
<1>6. Log!Dropped(LogOf(rows), LogOf(fewer))
  BY <1>2, <1>4, <1>5, LessIsDropped
<1>7. Log!LogNext
  BY <1>1, <1>3, <1>6, LogStep DEF ArchiveInv, rows
<1>8. Records(b, fewer, <<>>, <<>>)
  BY DEF Records
<1>9. /\ DOMAIN versions' = Branch /\ DOMAIN refs' = Branch /\ DOMAIN said' = Branch
      /\ \A c \in Branch : Table(versions'[c]) /\ Records(c, versions'[c], refs'[c], said'[c])
  BY <1>1, <1>3, <1>5, <1>8, BranchStep
<1>10. ArchiveInv'
  BY <1>3, <1>9 DEF ArchiveInv, Range
<1> QED
  BY <1>7, <1>10

LEMMA ArchiveInitInv ==
  ASSUME ArchiveInit
  PROVE  ArchiveInv /\ Log!LogInit
<1>1. Table(<<>>)
  BY DEF Table
<1>2. \A b : Records(b, <<>>, <<>>, <<>>)
  BY DEF Records
<1>3. LogOf(<<>>) = <<>>
  BY DEF LogOf
<1>4. ArchiveInv
  BY <1>1, <1>2, ArchiveAssumption DEF ArchiveInit, ArchiveInv, Range
<1>5. Log!LogInit
  BY <1>3 DEF ArchiveInit, Log!LogInit
<1> QED
  BY <1>4, <1>5

\* Every step keeps the invariant, and is one of the log or leaves it.
LEMMA ArchiveStep ==
  ASSUME ArchiveInv, [ArchiveNext]_archiveVars
  PROVE  ArchiveInv' /\ [Log!LogNext]_([b \in Branch |-> LogOf(versions[b])])
<1>1. ASSUME NEW b \in Branch, NEW r \in Response, NEW h \in Given,
             NEW entries \in {{}} \cup {{c} : c \in Compaction}, Respond(b, r, h, entries)
      PROVE  ArchiveInv' /\ Log!LogNext
  <2>1. entries \in SUBSET Compaction
    OBVIOUS
  <2> QED
    BY <1>1, <2>1, RespondKeeps
<1>2. ASSUME NEW b \in Branch, NEW r \in Imported, NEW h \in Given, Import(b, r, h)
      PROVE  ArchiveInv' /\ Log!LogNext
  BY <1>2, ImportKeeps
<1>3. ASSUME NEW b \in Branch, NEW plan \in Plans, Recover(b, plan)
      PROVE  ArchiveInv' /\ Log!LogNext
  BY <1>3, RecoverKeeps
<1>4. ASSUME NEW b \in Branch, NEW c \in Compaction, Inherit(b, c)
      PROVE  ArchiveInv' /\ versions' = versions
  BY <1>4, InheritKeeps
<1>5. ASSUME NEW b \in Branch, NEW before \in {Absent} \cup 1 .. MaxVersions + 1, PruneChecks(b, before)
      PROVE  ArchiveInv' /\ versions' = versions
  BY <1>5, ArchiveAssumption DEF PruneChecks, ArchiveInv
<1>6. CASE Prune
  BY <1>6, PruneKeeps
<1>7. CASE UNCHANGED archiveVars
  BY <1>7 DEF ArchiveInv, archiveVars
<1>8. UNCHANGED versions => UNCHANGED [b \in Branch |-> LogOf(versions[b])]
  BY DEF LogOf, ReadBack, Stream, Items
<1> QED
  BY <1>1, <1>2, <1>3, <1>4, <1>5, <1>6, <1>7, <1>8 DEF ArchiveNext, archiveVars

\* Rows, records, forks and what a prune has read keep their shapes, and a record a
\* branch keeps for itself names a version that reads back what it was saved with.
THEOREM ArchiveIsKept == ArchiveSpec => []ArchiveInv
<1>1. ArchiveInit => ArchiveInv
  BY ArchiveInitInv
<1>2. ArchiveInv /\ [ArchiveNext]_archiveVars => ArchiveInv'
  BY ArchiveStep
<1> QED
  BY <1>1, <1>2, PTL DEF ArchiveSpec

\* The differences amount to a log of whole histories, whatever is saved, imported,
\* recovered and pruned, for any histories, branches and forks.
THEOREM LogIsKept == ArchiveSpec => KeepsTheLog
<1>1. ArchiveInit => Log!LogInit
  BY ArchiveInitInv
<1>2. ArchiveInv /\ [ArchiveNext]_archiveVars => [Log!LogNext]_([b \in Branch |-> LogOf(versions[b])])
  BY ArchiveStep
<1> QED
  BY <1>1, <1>2, ArchiveIsKept, PTL DEF ArchiveSpec, KeepsTheLog, Log!LogSpec

\* A record a branch keeps for itself reads back what it was saved with, and is never
\* left behind by a prune.
THEOREM OwnRecordsAreRead == ArchiveSpec => []OwnRecordsRead
<1>1. ArchiveInv => OwnRecordsRead
  <2> SUFFICES ASSUME ArchiveInv PROVE OwnRecordsRead
    OBVIOUS
  <2>1. \A b \in Branch : DOMAIN versions[b] \subseteq Nat \ {0}
    BY DEF ArchiveInv, Table
  <2>2. ArchiveTypeOK
    BY <2>1 DEF ArchiveInv, ArchiveTypeOK, Records
  <2> QED
    BY <2>2 DEF ArchiveInv, OwnRecordsRead, Records
<1> QED
  BY <1>1, ArchiveIsKept, PTL

-----------------------------------------------------------------------------
(* Rollouts: the n-th of some numbers. *)

UpThrough(S, k) == {i \in S : i <= k}

\* Each place is taken, by one number.
LEMMA NthIs ==
  ASSUME NEW S \in SUBSET Nat, IsFiniteSet(S), NEW n \in 1 .. Cardinality(S)
  PROVE  Nth(S, n) \in S /\ Cardinality(UpThrough(S, Nth(S, n))) = n
<1> DEFINE Good(k) == \E x \in S : Cardinality(UpThrough(S, x)) = k
<1>1. Cardinality(S) \in Nat
  BY FS_CardinalityType
<1>2. Good(n)
  <2> DEFINE Bad == {k \in 1 .. Cardinality(S) : ~Good(k)}
  <2> SUFFICES ASSUME Bad # {} PROVE FALSE
    BY <1>1
  <2>1. PICK k \in Bad : \A i \in Bad : k <= i
    <3>1. Bad \in SUBSET Nat
      BY <1>1
    <3> HIDE DEF Bad
    <3> QED
      BY <3>1, Least
  <2>2. k \in 1 .. Cardinality(S) /\ ~Good(k)
    BY <2>1
  <2>3. PICK T \in SUBSET S : /\ IsFiniteSet(T) /\ Cardinality(T) = k - 1
                              /\ \A x \in S, y \in T : x <= y => x \in T
    <3>1. CASE k = 1
      <4>1. IsFiniteSet({}) /\ Cardinality({}) = 0
        BY FS_EmptySet
      <4> QED
        BY <3>1, <4>1
    <3>2. CASE k # 1
      <4>1. k - 1 \in 1 .. Cardinality(S) /\ k - 1 \notin Bad
        BY <1>1, <2>1, <2>2, <3>2
      <4>2. PICK x \in S : Cardinality(UpThrough(S, x)) = k - 1
        BY <4>1
      <4>3. IsFiniteSet(UpThrough(S, x))
        BY FS_Subset DEF UpThrough
      <4>4. \A u \in S, y \in UpThrough(S, x) : u <= y => u \in UpThrough(S, x)
        BY DEF UpThrough
      <4> QED
        BY <4>2, <4>3, <4>4 DEF UpThrough
    <3> QED
      BY <3>1, <3>2
  <2>4. S \ T # {}
    <3>1. CASE S = T
      BY <1>1, <2>2, <2>3, <3>1
    <3> QED
      BY <3>1
  <2>5. PICK x \in S \ T : \A y \in S \ T : x <= y
    BY <2>4, Least
  <2>6. UpThrough(S, x) = T \cup {x}
    <3>1. \A y \in S : y <= x => y \in T \cup {x}
      BY <2>5
    <3>2. \A y \in T : y <= x
      BY <2>3, <2>5
    <3> QED
      BY <3>1, <3>2, <2>5 DEF UpThrough
  <2>7. Cardinality(T \cup {x}) = k
    <3>1. Cardinality(T \cup {x}) = Cardinality(T) + 1
      BY <2>3, <2>5, FS_AddElement
    <3>2. k \in Nat /\ Cardinality(T) = k - 1
      BY <1>1, <2>2, <2>3
    <3> QED
      BY <3>1, <3>2
  <2> QED
    BY <2>2, <2>5, <2>6, <2>7
<1> QED
  BY <1>2 DEF Nth, UpThrough

LEMMA NthUnique ==
  ASSUME NEW S \in SUBSET Nat, IsFiniteSet(S), NEW x \in S, NEW y \in S,
         Cardinality(UpThrough(S, x)) = Cardinality(UpThrough(S, y))
  PROVE  x = y
<1>1. ASSUME NEW a \in S, NEW b \in S, a < b
      PROVE  Cardinality(UpThrough(S, a)) < Cardinality(UpThrough(S, b))
  <2>1. UpThrough(S, a) \subseteq UpThrough(S, b) /\ UpThrough(S, a) # UpThrough(S, b)
    <3>1. \A i \in S : i \in Nat
      OBVIOUS
    <3>2. \A i \in S : i <= a => i <= b
      BY <1>1, <3>1
    <3>3. b \in UpThrough(S, b) /\ b \notin UpThrough(S, a)
      BY <1>1, <3>1 DEF UpThrough
    <3> QED
      BY <3>2, <3>3 DEF UpThrough
  <2>2. IsFiniteSet(UpThrough(S, b))
    BY FS_Subset DEF UpThrough
  <2>3. /\ Cardinality(UpThrough(S, a)) <= Cardinality(UpThrough(S, b))
        /\ Cardinality(UpThrough(S, a)) = Cardinality(UpThrough(S, b)) => UpThrough(S, a) = UpThrough(S, b)
    BY <2>1, <2>2, FS_Subset
  <2>4. Cardinality(UpThrough(S, a)) \in Nat /\ Cardinality(UpThrough(S, b)) \in Nat
    BY <2>1, <2>2, FS_Subset, FS_CardinalityType
  <2> QED
    BY <2>1, <2>3, <2>4
<1>2. x \in Nat /\ y \in Nat
  OBVIOUS
<1>3. \A z : IsFiniteSet(UpThrough(S, z)) /\ Cardinality(UpThrough(S, z)) \in Nat
  BY FS_Subset, FS_CardinalityType DEF UpThrough
<1> QED
  BY <1>1, <1>2, <1>3

\* What keeps the order of numbers keeps their places.
LEMMA NthMapped ==
  ASSUME NEW S \in SUBSET Nat, IsFiniteSet(S), NEW U \in SUBSET Nat, NEW g \in [S -> U],
         \A x, y \in S : x < y => g[x] < g[y],
         \A u \in U : \E x \in S : g[x] = u
  PROVE  /\ IsFiniteSet(U) /\ Cardinality(U) = Cardinality(S)
         /\ \A n \in 1 .. Cardinality(S) : Nth(U, n) = g[Nth(S, n)]
<1>1. \A x, y \in S : g[x] <= g[y] <=> x <= y
  <2>1. \A x \in S : x \in Nat /\ g[x] \in Nat
    OBVIOUS
  <2> QED
    BY <2>1
<1>2. ASSUME NEW A \in SUBSET S, NEW B \in SUBSET U, \A x \in A : g[x] \in B,
             \A u \in B : \E x \in A : g[x] = u
      PROVE  IsFiniteSet(A) /\ IsFiniteSet(B) /\ Cardinality(B) = Cardinality(A)
  <2> DEFINE h == [x \in A |-> g[x]]
  <2>1. IsFiniteSet(A)
    BY FS_Subset
  <2>2. h \in Bijection(A, B)
    <3>1. h \in [A -> B]
      BY <1>2
    <3>2. \A x, y \in A : h[x] = h[y] => x = y
      <4> TAKE x, y \in A
      <4>1. x \in Nat /\ y \in Nat /\ g[x] \in Nat /\ g[y] \in Nat /\ x \in S /\ y \in S
        OBVIOUS
      <4> QED
        BY <1>1, <4>1
    <3>3. \A u \in B : \E x \in A : h[x] = u
      BY <1>2
    <3> HIDE DEF h
    <3> QED
      BY <3>1, <3>2, <3>3 DEF Bijection, Injection, Surjection, IsInjective
  <2>3. IsFiniteSet(B) /\ Cardinality(B) = Cardinality(A)
    BY <2>1, <2>2, FS_Bijection DEF ExistsBijection
  <2> QED
    BY <2>1, <2>3
<1>3. IsFiniteSet(U) /\ Cardinality(U) = Cardinality(S)
  BY <1>2
<1>4. ASSUME NEW n \in 1 .. Cardinality(S) PROVE Nth(U, n) = g[Nth(S, n)]
  <2>1. Nth(S, n) \in S /\ Cardinality(UpThrough(S, Nth(S, n))) = n
    BY NthIs
  <2>2. Nth(U, n) \in U /\ Cardinality(UpThrough(U, Nth(U, n))) = n
    BY <1>3, NthIs
  <2> DEFINE x == Nth(S, n)
             A == UpThrough(S, x)
             B == UpThrough(U, g[x])
  <2> HIDE DEF x
  <2>3. \A y \in A : g[y] \in B
    <3> SUFFICES ASSUME NEW y \in A PROVE g[y] \in B
      OBVIOUS
    <3>1. y \in S /\ y <= x /\ x \in S
      BY <2>1 DEF UpThrough, x
    <3>2. g[y] \in U /\ g[x] \in U /\ g[y] <= g[x]
      BY <1>1, <3>1
    <3> QED
      BY <3>2 DEF UpThrough
  <2>4. \A u \in B : \E y \in A : g[y] = u
    <3> SUFFICES ASSUME NEW u \in B PROVE \E y \in A : g[y] = u
      OBVIOUS
    <3>1. u \in U /\ u <= g[x]
      BY DEF UpThrough
    <3>2. PICK y \in S : g[y] = u
      BY <3>1
    <3>3. x \in S /\ y <= x
      BY <1>1, <2>1, <3>1, <3>2 DEF x
    <3> QED
      BY <3>2, <3>3 DEF UpThrough
  <2>5. A \in SUBSET S /\ B \in SUBSET U
    BY DEF UpThrough
  <2> HIDE DEF A, B
  <2>6. Cardinality(B) = Cardinality(A)
    BY <1>2, <2>3, <2>4, <2>5
  <2>7. Cardinality(UpThrough(U, g[x])) = Cardinality(UpThrough(U, Nth(U, n))) /\ g[x] \in U
    BY <2>1, <2>2, <2>6 DEF A, B, x
  <2> QED
    <3> DEFINE y == g[x]
               z == Nth(U, n)
    <3>1. y \in U /\ z \in U /\ Cardinality(UpThrough(U, y)) = Cardinality(UpThrough(U, z))
      BY <2>2, <2>7
    <3> HIDE DEF y, z
    <3>2. y = z
      BY <1>3, <3>1, NthUnique
    <3> QED
      BY <3>2 DEF y, z, x
<1> QED
  BY <1>3, <1>4

-----------------------------------------------------------------------------
(* Rollouts: what an interruption leaves. *)

HistoryItem == [type : {"message", "call", "output", "unknown"}, id : Nat]

\* Where the elements of a set are in a sequence.
Places(s, S) == {n \in 1 .. Len(s) : s[n] \in S}

LEMMA PlacesAre ==
  ASSUME NEW T, NEW s \in Seq(T), NEW S
  PROVE  /\ Places(s, S) \in SUBSET Nat /\ IsFiniteSet(Places(s, S)) /\ Cardinality(Places(s, S)) \in Nat
         /\ Among(s, S) = [n \in 1 .. Cardinality(Places(s, S)) |-> s[Nth(Places(s, S), n)]]
<1>1. DOMAIN s = 1 .. Len(s) /\ Len(s) \in Nat
  OBVIOUS
<1>2. Places(s, S) \in SUBSET (1 .. Len(s)) /\ IsFiniteSet(1 .. Len(s))
  BY <1>1, FS_Interval DEF Places
<1>3. IsFiniteSet(Places(s, S)) /\ Cardinality(Places(s, S)) \in Nat
  BY <1>2, FS_Subset, FS_CardinalityType
<1>4. Places(s, S) \in SUBSET Nat
  BY <1>1, <1>2
<1>5. Among(s, S) = [n \in 1 .. Cardinality(Places(s, S)) |-> s[Nth(Places(s, S), n)]]
  BY <1>1, Zenon DEF Among, Places
<1> QED
  BY <1>3, <1>4, <1>5

LEMMA AmongAre ==
  ASSUME NEW T, NEW s \in Seq(T), NEW S
  PROVE  /\ Among(s, S) \in Seq(T)
         /\ \A k \in 1 .. Len(Among(s, S)) : \E n \in 1 .. Len(s) : Among(s, S)[k] = s[n]
<1> DEFINE spots == Places(s, S)
<1>1. /\ spots \in SUBSET Nat /\ IsFiniteSet(spots) /\ Cardinality(spots) \in Nat
      /\ Among(s, S) = [n \in 1 .. Cardinality(spots) |-> s[Nth(spots, n)]]
  BY PlacesAre
<1>2. \A n \in spots : n \in 1 .. Len(s)
  BY DEF Places
<1> HIDE DEF spots
<1>3. \A n \in 1 .. Cardinality(spots) : Nth(spots, n) \in spots
  BY <1>1, NthIs
<1>4. \A n \in 1 .. Cardinality(spots) : s[Nth(spots, n)] \in T
  BY <1>2, <1>3
<1>5. Among(s, S) \in Seq(T) /\ Len(Among(s, S)) = Cardinality(spots)
  BY <1>1, <1>4
<1>6. \A k \in 1 .. Cardinality(spots) : Among(s, S)[k] = s[Nth(spots, k)]
  BY <1>1
<1> QED
  BY <1>2, <1>3, <1>5, <1>6

\* A task's open calls are among its items, each once, in the order of their ids.
Ordered(s, ids) ==
  /\ \A i \in ids : \E n \in 1 .. Len(s) : s[n] = [type |-> "call", id |-> i]
  /\ \A m, n \in 1 .. Len(s) :
       m < n /\ s[m] \in Calls(ids) /\ s[n] \in Calls(ids) => s[m].id < s[n].id

\* The notes a reader makes from the calls it finds are those of the calls there are.
LEMMA NotesAgree ==
  ASSUME NEW s \in Seq(HistoryItem), NEW ids \in SUBSET Nat, IsFiniteSet(ids), Ordered(s, ids)
  PROVE  LET calls == Among(s, Calls(ids))
         IN [n \in DOMAIN calls |-> Note(calls[n].id)] = [n \in 1 .. Cardinality(ids) |-> Note(Nth(ids, n))]
<1> DEFINE spots == Places(s, Calls(ids))
           calls == Among(s, Calls(ids))
           g == [n \in spots |-> s[n].id]
<1>1. /\ spots \in SUBSET Nat /\ IsFiniteSet(spots) /\ Cardinality(spots) \in Nat
      /\ calls = [n \in 1 .. Cardinality(spots) |-> s[Nth(spots, n)]]
  BY PlacesAre
<1>2. \A n \in spots : n \in 1 .. Len(s) /\ s[n] \in Calls(ids) /\ s[n].id \in ids
  BY DEF Places, Calls
<1>3. \A n \in 1 .. Len(s) : s[n] \in Calls(ids) => n \in spots
  BY DEF Places
<1> HIDE DEF spots
<1>4. g \in [spots -> ids]
  BY <1>2
<1>5. \A m, n \in spots : m < n => g[m] < g[n]
  BY <1>2 DEF Ordered
<1>6. \A i \in ids : \E n \in spots : g[n] = i
  <2> TAKE i \in ids
  <2>1. PICK n \in 1 .. Len(s) : s[n] = [type |-> "call", id |-> i]
    BY DEF Ordered
  <2>2. s[n] \in Calls(ids) /\ s[n].id = i
    BY <2>1 DEF Calls
  <2> QED
    BY <1>3, <2>2
<1>7. /\ Cardinality(ids) = Cardinality(spots)
      /\ \A n \in 1 .. Cardinality(spots) : Nth(ids, n) = g[Nth(spots, n)]
  <2> HIDE DEF g
  <2> QED
    BY <1>1, <1>4, <1>5, <1>6, NthMapped
<1>8. \A n \in 1 .. Cardinality(spots) : calls[n].id = Nth(ids, n)
  <2> TAKE n \in 1 .. Cardinality(spots)
  <2>1. Nth(spots, n) \in spots
    BY <1>1, NthIs
  <2>2. calls[n] = s[Nth(spots, n)]
    BY <1>1
  <2> HIDE DEF calls
  <2> QED
    BY <1>7, <2>1, <2>2
<1>9. DOMAIN calls = 1 .. Cardinality(ids)
  BY <1>1, <1>7
<1> HIDE DEF calls
<1>10. [n \in DOMAIN calls |-> Note(calls[n].id)] = [n \in 1 .. Cardinality(ids) |-> Note(Nth(ids, n))]
  BY <1>7, <1>8, <1>9
<1> QED
  BY <1>10 DEF calls

-----------------------------------------------------------------------------
(* Rollouts: the loop over the records of a file. *)

Turned(start, rs, bound, boundary, g, i) ==
  IF i = 0 THEN start ELSE Read(g[i - 1], rs[i], bound, boundary)

LEMMA TurnsExist ==
  ASSUME NEW start, NEW rs, NEW bound, NEW boundary, NEW N \in Nat
  PROVE  \E g : g = [i \in 0 .. N |-> Turned(start, rs, bound, boundary, g, i)]
<1> DEFINE Good(n) == \E g : g = [i \in 0 .. n |-> Turned(start, rs, bound, boundary, g, i)]
<1> SUFFICES ASSUME {n \in Nat : ~Good(n)} # {} PROVE FALSE
  OBVIOUS
<1>1. PICK n \in {k \in Nat : ~Good(k)} : \A k \in {l \in Nat : ~Good(l)} : n <= k
  BY Least
<1>2. CASE n = 0
  <2> DEFINE g == [i \in 0 .. 0 |-> start]
  <2>1. g = [i \in 0 .. 0 |-> Turned(start, rs, bound, boundary, g, i)]
    BY DEF Turned
  <2> QED
    BY <1>1, <1>2, <2>1
<1>3. CASE n # 0
  <2>1. n - 1 \in Nat /\ Good(n - 1)
    <3> HIDE DEF Good
    <3> QED
      BY <1>1, <1>3
  <2>2. PICK g : g = [i \in 0 .. n - 1 |-> Turned(start, rs, bound, boundary, g, i)]
    BY <2>1
  <2> DEFINE more == [i \in 0 .. n |-> Turned(start, rs, bound, boundary, g, i)]
  <2>3. ASSUME NEW i \in 0 .. n PROVE Turned(start, rs, bound, boundary, more, i) = Turned(start, rs, bound, boundary, g, i)
    <3>1. CASE i = 0
      BY <3>1 DEF Turned
    <3>2. CASE i # 0
      <4>1. i - 1 \in 0 .. n - 1 /\ i - 1 \in 0 .. n
        BY <1>1, <3>2
      <4>2. g[i - 1] = Turned(start, rs, bound, boundary, g, i - 1)
        BY <2>2, <4>1
      <4>3. more[i - 1] = g[i - 1]
        BY <4>1, <4>2
      <4> HIDE DEF more
      <4> QED
        BY <3>2, <4>3 DEF Turned
    <3> QED
      BY <3>1, <3>2
  <2>4. more = [i \in 0 .. n |-> Turned(start, rs, bound, boundary, more, i)]
    BY <2>3
  <2> QED
    BY <1>1, <2>4
<1> QED
  BY <1>2, <1>3

LEMMA ReadToIs ==
  ASSUME NEW start, NEW rs, NEW bound, NEW boundary, NEW N \in Nat
  PROVE  \E g : /\ ReadTo(N, start, rs, bound, boundary) = g[N]
                /\ \A i \in 0 .. N : g[i] = Turned(start, rs, bound, boundary, g, i)
<1> DEFINE g == CHOOSE g : g = [i \in 0 .. N |-> Turned(start, rs, bound, boundary, g, i)]
<1>1. g = [i \in 0 .. N |-> Turned(start, rs, bound, boundary, g, i)]
  BY TurnsExist
<1>2. ReadTo(N, start, rs, bound, boundary) = g[N]
  BY Zenon DEF ReadTo, Turned
<1> HIDE DEF g
<1> QED
  BY <1>1, <1>2

\* Two loops that start alike over the same records come to the same.
LEMMA TurnsAgree ==
  ASSUME NEW start, NEW rs, NEW rr, NEW bound, NEW limited, NEW boundary, NEW N \in Nat,
         NEW g, \A i \in 0 .. N : g[i] = Turned(start, rs, bound, boundary, g, i),
         NEW h, \A i \in 0 .. N : h[i] = Turned(start, rr, limited, boundary, h, i),
         \A i \in 1 .. N : \A s : Read(s, rs[i], bound, boundary) = Read(s, rr[i], limited, boundary)
  PROVE  \A i \in 0 .. N : g[i] = h[i]
<1> DEFINE Bad == {i \in 0 .. N : g[i] # h[i]}
<1> SUFFICES ASSUME Bad # {} PROVE FALSE
  OBVIOUS
<1>1. PICK i \in Bad : \A k \in Bad : i <= k
  <2>1. Bad \in SUBSET Nat
    OBVIOUS
  <2> HIDE DEF Bad
  <2> QED
    BY <2>1, Least
<1>2. CASE i = 0
  BY <1>1, <1>2 DEF Turned
<1>3. CASE i # 0
  <2>1. i - 1 \in 0 .. N /\ i \in 1 .. N /\ i - 1 \notin Bad
    BY <1>1, <1>3
  <2>2. g[i - 1] = h[i - 1]
    BY <2>1
  <2>3. g[i] = Read(g[i - 1], rs[i], bound, boundary) /\ h[i] = Read(h[i - 1], rr[i], limited, boundary)
    BY <1>3, <2>1 DEF Turned
  <2> QED
    BY <1>1, <2>1, <2>2, <2>3
<1> QED
  BY <1>2, <1>3

LEMMA ReadNone ==
  ASSUME NEW start, NEW rs, NEW bound, NEW boundary
  PROVE  ReadTo(0, start, rs, bound, boundary) = start
<1>1. PICK g : /\ ReadTo(0, start, rs, bound, boundary) = g[0]
               /\ \A i \in 0 .. 0 : g[i] = Turned(start, rs, bound, boundary, g, i)
  BY ReadToIs
<1> QED
  BY <1>1 DEF Turned

LEMMA ReadNext ==
  ASSUME NEW start, NEW rs, NEW bound, NEW boundary, NEW n \in Nat \ {0}
  PROVE  ReadTo(n, start, rs, bound, boundary)
           = Read(ReadTo(n - 1, start, rs, bound, boundary), rs[n], bound, boundary)
<1>1. PICK g : /\ ReadTo(n, start, rs, bound, boundary) = g[n]
               /\ \A i \in 0 .. n : g[i] = Turned(start, rs, bound, boundary, g, i)
  BY ReadToIs
<1>2. n - 1 \in Nat /\ n - 1 \in 0 .. n /\ \A i \in 0 .. n - 1 : i \in 0 .. n
  OBVIOUS
<1>3. PICK h : /\ ReadTo(n - 1, start, rs, bound, boundary) = h[n - 1]
               /\ \A i \in 0 .. n - 1 : h[i] = Turned(start, rs, bound, boundary, h, i)
  BY <1>2, ReadToIs
<1>4. \A i \in 0 .. n - 1 : g[i] = h[i]
  <2>1. \A i \in 0 .. n - 1 : g[i] = Turned(start, rs, bound, boundary, g, i)
    BY <1>1, <1>2
  <2> QED
    BY <1>2, <1>3, <2>1, TurnsAgree
<1>5. g[n] = Read(g[n - 1], rs[n], bound, boundary)
  BY <1>1 DEF Turned
<1>6. g[n - 1] = h[n - 1]
  BY <1>2, <1>4
<1> QED
  BY <1>1, <1>3, <1>5, <1>6

\* It comes to the same over the same records, or where a bound cuts none of them.
LEMMA ReadSame ==
  ASSUME NEW start, NEW rs, NEW rr, NEW bound, NEW limited, NEW boundary, NEW N \in Nat,
         \A i \in 1 .. N : \A s : Read(s, rs[i], bound, boundary) = Read(s, rr[i], limited, boundary)
  PROVE  ReadTo(N, start, rs, bound, boundary) = ReadTo(N, start, rr, limited, boundary)
<1>1. PICK g : /\ ReadTo(N, start, rs, bound, boundary) = g[N]
               /\ \A i \in 0 .. N : g[i] = Turned(start, rs, bound, boundary, g, i)
  BY ReadToIs
<1>2. PICK h : /\ ReadTo(N, start, rr, limited, boundary) = h[N]
               /\ \A i \in 0 .. N : h[i] = Turned(start, rr, limited, boundary, h, i)
  BY ReadToIs
<1>3. \A i \in 0 .. N : g[i] = h[i]
  <2>1. /\ \A i \in 0 .. N : g[i] = Turned(start, rs, bound, boundary, g, i)
        /\ \A i \in 0 .. N : h[i] = Turned(start, rr, limited, boundary, h, i)
    BY <1>1, <1>2
  <2> QED
    BY <2>1, TurnsAgree
<1>4. N \in 0 .. N
  OBVIOUS
<1> QED
  BY <1>1, <1>2, <1>3, <1>4

-----------------------------------------------------------------------------
(* Rollouts: one record. *)

RecordTypes == {"meta", "message", "call", "output", "aborted", "compacted"}
Record == [ordinal : Nat, type : RecordTypes, id : Nat]

\* The ordinal a record counts as.
Counted(r, boundary) ==
  IF r.type = "meta" /\ boundary # Unbound /\ r.ordinal < boundary THEN boundary - 1 ELSE r.ordinal

\* A record of what is known after some records; `previous` and `included` are numbers.
Reading(s) ==
  s \in [previous : Int, included : Int, refused : BOOLEAN, original : {s.original},
         pending : {s.pending}, completed : {s.completed}, checkpoints : {s.checkpoints}]

Follows(s, r, boundary) ==
  /\ ~s.refused
  /\ s.previous < Counted(r, boundary)
  /\ s.previous < 0 \/ Counted(r, boundary) = s.previous + 1

\* What a record says, after its ordinal.
Taken(s, r) ==
  IF r.type = "aborted" THEN Aborted(s)
  ELSE IF r.type = "compacted" THEN Compacted(s, r)
  ELSE IF r.type = "meta" THEN s
  ELSE Item(s, r)

Counting(s, r, boundary) == [s EXCEPT !.previous = Counted(r, boundary)]

LEMMA CountedIs ==
  ASSUME NEW r \in Record, NEW boundary \in {Unbound} \cup Nat
  PROVE  Counted(r, boundary) \in Nat
BY RolloutAssumption DEF Counted, Record

LEMMA RejectedIs ==
  ASSUME NEW s, Reading(s)
  PROVE  /\ Reading(Rejected(s)) /\ Rejected(s).refused
         /\ Rejected(s).checkpoints = s.checkpoints /\ Rejected(s).original = s.original
BY DEF Reading, Rejected

LEMMA ReadIs ==
  ASSUME NEW s, Reading(s), NEW r \in Record, NEW bound \in {Unbound} \cup Nat,
         NEW boundary \in {Unbound} \cup Nat
  PROVE  /\ s.refused => Read(s, r, bound, boundary) = s
         /\ ~s.refused /\ ~Follows(s, r, boundary) => Read(s, r, bound, boundary) = Rejected(s)
         /\ Follows(s, r, boundary) /\ bound # Unbound /\ r.ordinal >= bound =>
              Read(s, r, bound, boundary) = Counting(s, r, boundary)
         /\ Follows(s, r, boundary) /\ ~(bound # Unbound /\ r.ordinal >= bound) =>
              Read(s, r, bound, boundary) = Taken([Counting(s, r, boundary) EXCEPT !.included = r.ordinal], r)
<1>1. Counted(r, boundary) \in Nat /\ s.previous \in Int /\ s.refused \in BOOLEAN
  BY CountedIs DEF Reading
<1> DEFINE o == IF r.type = "meta" /\ boundary # Unbound /\ r.ordinal < boundary
                THEN boundary - 1 ELSE r.ordinal
           next == [s EXCEPT !.previous = o]
           kept == [next EXCEPT !.included = r.ordinal]
<1>2. o = Counted(r, boundary)
  BY DEF Counted
<1>3. Read(s, r, bound, boundary) =
        IF s.refused THEN s
        ELSE IF o <= s.previous \/ (s.previous >= 0 /\ o # s.previous + 1) THEN Rejected(s)
        ELSE IF bound # Unbound /\ r.ordinal >= bound THEN next
        ELSE CASE r.type = "aborted" -> Aborted(kept)
               [] r.type = "compacted" -> Compacted(kept, r)
               [] r.type = "meta" -> kept
               [] OTHER -> Item(kept, r)
  BY Zenon DEF Read
<1>4. s.refused => Read(s, r, bound, boundary) = s
  BY <1>3, Zenon
<1>5. ~s.refused /\ ~Follows(s, r, boundary) => Read(s, r, bound, boundary) = Rejected(s)
  <2> HAVE ~s.refused /\ ~Follows(s, r, boundary)
  <2>1. o <= s.previous \/ (s.previous >= 0 /\ o # s.previous + 1)
    BY <1>1, <1>2 DEF Follows
  <2> HIDE DEF o, next, kept
  <2> QED
    BY <1>3, <2>1
<1>6. Follows(s, r, boundary) => ~s.refused /\ ~(o <= s.previous \/ (s.previous >= 0 /\ o # s.previous + 1))
  BY <1>1, <1>2 DEF Follows
<1>7. next = Counting(s, r, boundary)
  BY <1>2 DEF Counting
<1> HIDE DEF o, next
<1>8. Follows(s, r, boundary) /\ bound # Unbound /\ r.ordinal >= bound =>
              Read(s, r, bound, boundary) = Counting(s, r, boundary)
  BY <1>3, <1>6, <1>7
<1>9. Follows(s, r, boundary) /\ ~(bound # Unbound /\ r.ordinal >= bound) =>
              Read(s, r, bound, boundary) = Taken(kept, r)
  <2> HIDE DEF kept
  <2> QED
    BY <1>3, <1>6 DEF Taken
<1> QED
  BY <1>4, <1>5, <1>7, <1>8, <1>9

\* What a record that is taken leaves.
LEMMA TakenIs ==
  ASSUME NEW s, Reading(s), NEW r \in Record
  PROVE  /\ Reading(Taken(s, r))
         /\ Taken(s, r).previous = s.previous /\ Taken(s, r).included = s.included
         /\ s.refused => Taken(s, r).refused
<1>1. /\ Reading(Aborted(s)) /\ Aborted(s).previous = s.previous /\ Aborted(s).included = s.included
      /\ Aborted(s).refused = s.refused
  BY DEF Aborted, Reading
<1>2. /\ Reading(Compacted(s, r)) /\ Compacted(s, r).previous = s.previous /\ Compacted(s, r).included = s.included
      /\ s.refused => Compacted(s, r).refused
  BY DEF Compacted, Rejected, Reading
<1>3. /\ Reading(Item(s, r)) /\ Item(s, r).previous = s.previous /\ Item(s, r).included = s.included
      /\ s.refused => Item(s, r).refused
  BY DEF Item, Rejected, Reading
<1> QED
  BY <1>1, <1>2, <1>3 DEF Taken

\* A record that is read is of the last ordinal, or the reader refuses.
LEMMA ReadGoes ==
  ASSUME NEW s, Reading(s), NEW r \in Record, NEW bound \in {Unbound} \cup Nat,
         NEW boundary \in {Unbound} \cup Nat
  PROVE  LET t == Read(s, r, bound, boundary)
         IN /\ Reading(t)
            /\ ~t.refused =>
                 /\ Follows(s, r, boundary) /\ t.previous = Counted(r, boundary)
                 /\ IF bound # Unbound /\ r.ordinal >= bound
                    THEN t = Counting(s, r, boundary) ELSE t.included = r.ordinal
<1> DEFINE t == Read(s, r, bound, boundary)
           c == Counting(s, r, boundary)
           k == [c EXCEPT !.included = r.ordinal]
<1>1. r.ordinal \in Nat /\ Counted(r, boundary) \in Nat
  BY CountedIs DEF Record
<1>2. Reading(c) /\ c.previous = Counted(r, boundary)
  BY <1>1 DEF Counting, Reading
<1>3. Reading(k) /\ k.previous = Counted(r, boundary) /\ k.included = r.ordinal
  BY <1>1, <1>2 DEF Reading
<1>4. CASE ~Follows(s, r, boundary)
  <2>1. (t = s /\ s.refused) \/ t = Rejected(s)
    BY <1>4, ReadIs DEF Reading
  <2> QED
    BY <2>1, RejectedIs
<1>5. CASE Follows(s, r, boundary) /\ bound # Unbound /\ r.ordinal >= bound
  <2>1. t = c
    BY <1>5, ReadIs
  <2> HIDE DEF t
  <2> QED
    BY <1>2, <1>5, <2>1 DEF t
<1>6. CASE Follows(s, r, boundary) /\ ~(bound # Unbound /\ r.ordinal >= bound)
  <2>1. t = Taken(k, r)
    BY <1>6, ReadIs
  <2> HIDE DEF t, k
  <2>2. Reading(t) /\ t.previous = k.previous /\ t.included = k.included
    BY <1>3, <2>1, TakenIs
  <2> QED
    BY <1>3, <1>6, <2>2 DEF t
<1> QED
  BY <1>4, <1>5, <1>6

-----------------------------------------------------------------------------
(* Rollouts: a file that is written on, and one that loses a line. *)

Bounds == {Unbound} \cup Nat

\* The records of a file count up.
Rising(rs, boundary) ==
  \A m, n \in 1 .. Len(rs) : m < n => Counted(rs[m], boundary) < Counted(rs[n], boundary)

LEMMA RecordAt ==
  ASSUME NEW rs \in Seq(Record), NEW n \in 1 .. Len(rs)
  PROVE  rs[n] \in Record
OBVIOUS

\* What holds after any number of records.
LEMMA ReadToGoes ==
  ASSUME NEW start, Reading(start), NEW rs \in Seq(Record), NEW bound \in Bounds, NEW boundary \in Bounds,
         NEW n \in 0 .. Len(rs)
  PROVE  Reading(ReadTo(n, start, rs, bound, boundary))
<1> DEFINE S(k) == ReadTo(k, start, rs, bound, boundary)
           Bad == {k \in 0 .. Len(rs) : ~Reading(S(k))}
<1> SUFFICES ASSUME Bad # {} PROVE FALSE
  OBVIOUS
<1>0. Len(rs) \in Nat
  OBVIOUS
<1>1. PICK k \in Bad : \A i \in Bad : k <= i
  <2>1. Bad \in SUBSET Nat
    BY <1>0
  <2> HIDE DEF Bad
  <2> QED
    BY <2>1, Least
<1>2. CASE k = 0
  BY <1>1, <1>2, ReadNone
<1>3. CASE k # 0
  <2>1. k - 1 \in 0 .. Len(rs) /\ k \in 1 .. Len(rs) /\ k - 1 \notin Bad /\ k \in Nat \ {0}
    BY <1>0, <1>1, <1>3
  <2>2. Reading(S(k - 1)) /\ rs[k] \in Record
    BY <2>1, RecordAt
  <2>3. S(k) = Read(S(k - 1), rs[k], bound, boundary)
    BY <2>1, ReadNext
  <2> HIDE DEF S
  <2>4. Reading(Read(S(k - 1), rs[k], bound, boundary))
    BY <2>2, ReadGoes DEF Bounds
  <2>5. Reading(S(k))
    BY <2>3, <2>4
  <2> QED
    BY <1>1, <2>5 DEF S
<1> QED
  BY <1>2, <1>3

LEMMA ReadToStep ==
  ASSUME NEW start, Reading(start), NEW rs \in Seq(Record), NEW bound \in Bounds, NEW boundary \in Bounds,
         NEW n \in 1 .. Len(rs)
  PROVE  LET s == ReadTo(n - 1, start, rs, bound, boundary)
             t == ReadTo(n, start, rs, bound, boundary)
         IN /\ Reading(s) /\ Reading(t) /\ rs[n] \in Record /\ t = Read(s, rs[n], bound, boundary)
            /\ ~t.refused =>
                 /\ Follows(s, rs[n], boundary) /\ t.previous = Counted(rs[n], boundary)
                 /\ IF bound # Unbound /\ rs[n].ordinal >= bound
                    THEN t = Counting(s, rs[n], boundary) ELSE t.included = rs[n].ordinal
<1> DEFINE S(k) == ReadTo(k, start, rs, bound, boundary)
<1>1. n - 1 \in 0 .. Len(rs) /\ n \in 0 .. Len(rs) /\ n \in Nat \ {0}
  OBVIOUS
<1>2. Reading(S(n - 1)) /\ Reading(S(n)) /\ rs[n] \in Record
  BY <1>1, ReadToGoes, RecordAt
<1>3. S(n) = Read(S(n - 1), rs[n], bound, boundary)
  BY <1>1, ReadNext
<1> HIDE DEF S
<1>4. ~S(n).refused =>
                 /\ Follows(S(n - 1), rs[n], boundary) /\ S(n).previous = Counted(rs[n], boundary)
                 /\ IF bound # Unbound /\ rs[n].ordinal >= bound
                    THEN S(n) = Counting(S(n - 1), rs[n], boundary) ELSE S(n).included = rs[n].ordinal
  <2> DEFINE s == S(n - 1)
             t == S(n)
             r == rs[n]
  <2>1. Reading(s) /\ r \in Record /\ t = Read(s, r, bound, boundary)
    BY <1>2, <1>3
  <2> HIDE DEF s, t, r
  <2>2. /\ bound \in {Unbound} \cup Nat /\ boundary \in {Unbound} \cup Nat
    BY DEF Bounds
  <2>3. ~Read(s, r, bound, boundary).refused =>
          /\ Follows(s, r, boundary) /\ Read(s, r, bound, boundary).previous = Counted(r, boundary)
          /\ IF bound # Unbound /\ r.ordinal >= bound
             THEN Read(s, r, bound, boundary) = Counting(s, r, boundary)
             ELSE Read(s, r, bound, boundary).included = r.ordinal
    BY <2>1, <2>2, ReadGoes
  <2> QED
    BY <2>1, <2>3 DEF s, t, r
<1> QED
  BY <1>2, <1>3, <1>4 DEF S

\* What is refused stays refused.
LEMMA RefusedStays ==
  ASSUME NEW start, Reading(start), NEW rs \in Seq(Record), NEW bound \in Bounds, NEW boundary \in Bounds,
         NEW m \in 0 .. Len(rs), NEW n \in m .. Len(rs), ReadTo(m, start, rs, bound, boundary).refused
  PROVE  ReadTo(n, start, rs, bound, boundary).refused
<1> DEFINE S(k) == ReadTo(k, start, rs, bound, boundary)
           Bad == {k \in m .. Len(rs) : ~S(k).refused}
<1> SUFFICES ASSUME Bad # {} PROVE FALSE
  OBVIOUS
<1>0. Len(rs) \in Nat
  OBVIOUS
<1>1. PICK k \in Bad : \A i \in Bad : k <= i
  <2>1. Bad \in SUBSET Nat
    BY <1>0
  <2> HIDE DEF Bad
  <2> QED
    BY <2>1, Least
<1>2. k # m
  BY <1>1
<1>3. k - 1 \in m .. Len(rs) /\ k \in 1 .. Len(rs) /\ k - 1 \notin Bad
  BY <1>0, <1>1, <1>2
<1>4. S(k - 1).refused
  BY <1>3
<1>5. ~S(k).refused => Follows(S(k - 1), rs[k], boundary)
  BY <1>3, ReadToStep
<1> QED
  BY <1>1, <1>4, <1>5 DEF Follows

LEMMA WrittenReads ==
  ASSUME NEW start, Reading(start), NEW rs \in Seq(Record), NEW r \in Record,
         NEW bound \in Bounds, NEW boundary \in Bounds
  PROVE  /\ Append(rs, r) \in Seq(Record) /\ Len(Append(rs, r)) = Len(rs) + 1
         /\ \A n \in 0 .. Len(rs) :
              ReadTo(n, start, Append(rs, r), bound, boundary) = ReadTo(n, start, rs, bound, boundary)
         /\ ReadTo(Len(rs) + 1, start, Append(rs, r), bound, boundary)
              = Read(ReadTo(Len(rs), start, rs, bound, boundary), r, bound, boundary)
<1> DEFINE rr == Append(rs, r)
           N == Len(rs)
<1>1. /\ rr \in Seq(Record) /\ Len(rr) = N + 1 /\ N \in Nat /\ N + 1 \in Nat \ {0} /\ (N + 1) - 1 = N
      /\ rr[N + 1] = r /\ \A n \in 1 .. N : rr[n] = rs[n]
  OBVIOUS
<1> HIDE DEF rr
<1>2. ASSUME NEW n \in 0 .. N
      PROVE  ReadTo(n, start, rr, bound, boundary) = ReadTo(n, start, rs, bound, boundary)
  <2>1. \A i \in 1 .. n : rr[i] = rs[i]
    BY <1>1
  <2>2. n \in Nat /\ \A i \in 1 .. n : \A s : Read(s, rr[i], bound, boundary) = Read(s, rs[i], bound, boundary)
    BY <2>1, <1>1
  <2> QED
    BY <2>2, ReadSame
<1>3. ReadTo(N + 1, start, rr, bound, boundary) = Read(ReadTo(N, start, rr, bound, boundary), r, bound, boundary)
  <2> DEFINE M == N + 1
  <2>1. M \in Nat \ {0} /\ M - 1 = N /\ rr[M] = r
    BY <1>1
  <2> HIDE DEF M
  <2>2. ReadTo(M, start, rr, bound, boundary) = Read(ReadTo(M - 1, start, rr, bound, boundary), rr[M], bound, boundary)
    BY <2>1, ReadNext
  <2> QED
    BY <2>1, <2>2 DEF M
<1>4. ReadTo(N, start, rr, bound, boundary) = ReadTo(N, start, rs, bound, boundary)
  BY <1>1, <1>2
<1> QED
  BY <1>1, <1>2, <1>3, <1>4 DEF rr

LEMMA Joined ==
  ASSUME NEW T, NEW a \in Seq(T), NEW b \in Seq(T)
  PROVE  /\ a \o b \in Seq(T) /\ Len(a \o b) = Len(a) + Len(b)
         /\ Len(a) \in Nat /\ Len(b) \in Nat
         /\ \A n \in 1 .. Len(a) + Len(b) : (a \o b)[n] = IF n <= Len(a) THEN a[n] ELSE b[n - Len(a)]
OBVIOUS

LEMMA CutIs ==
  ASSUME NEW rs \in Seq(Record), NEW d \in 1 .. Len(rs)
  PROVE  /\ RemoveAt(rs, d) \in Seq(Record) /\ Len(RemoveAt(rs, d)) = Len(rs) - 1
         /\ \A n \in 1 .. Len(rs) - 1 : RemoveAt(rs, d)[n] = IF n < d THEN rs[n] ELSE rs[n + 1]
<1> DEFINE a == SubSeq(rs, 1, d - 1)
           b == SubSeq(rs, d + 1, Len(rs))
<1>1. a \in Seq(Record) /\ Len(a) = d - 1 /\ \A n \in 1 .. d - 1 : a[n] = rs[n]
  OBVIOUS
<1>2. b \in Seq(Record) /\ Len(b) = Len(rs) - d /\ \A n \in 1 .. Len(rs) - d : b[n] = rs[d + n]
  OBVIOUS
<1>3. RemoveAt(rs, d) = a \o b
  BY DEF RemoveAt
<1> HIDE DEF a, b
<1>4. /\ a \o b \in Seq(Record) /\ Len(a \o b) = Len(rs) - 1
      /\ \A n \in 1 .. Len(rs) - 1 : (a \o b)[n] = IF n <= Len(a) THEN a[n] ELSE b[n - Len(a)]
  <2>1. Len(a) + Len(b) = Len(rs) - 1 /\ Len(rs) \in Nat
    BY <1>1, <1>2
  <2>2. /\ a \o b \in Seq(Record) /\ Len(a \o b) = Len(a) + Len(b)
        /\ \A n \in 1 .. Len(a) + Len(b) : (a \o b)[n] = IF n <= Len(a) THEN a[n] ELSE b[n - Len(a)]
    BY <1>1, <1>2, Joined, Zenon
  <2> QED
    BY <2>1, <2>2
<1>5. ASSUME NEW n \in 1 .. Len(rs) - 1 PROVE (a \o b)[n] = IF n < d THEN rs[n] ELSE rs[n + 1]
  BY <1>1, <1>2, <1>4
<1> QED
  BY <1>3, <1>4, <1>5

\* Whatever line is lost but the first, what is read is what was read, or refused.
LEMMA CutReads ==
  ASSUME NEW start, Reading(start), NEW rs \in Seq(Record), NEW bound \in Bounds, NEW boundary \in Bounds,
         Rising(rs, boundary), NEW d \in 2 .. Len(rs), NEW n \in 0 .. Len(rs) - 1
  PROVE  LET t == ReadTo(n, start, RemoveAt(rs, d), bound, boundary)
         IN t.refused \/ t = ReadTo(n, start, rs, bound, boundary)
<1> DEFINE rr == RemoveAt(rs, d)
           N == Len(rs)
           S(k) == ReadTo(k, start, rr, bound, boundary)
<1>1. /\ rr \in Seq(Record) /\ Len(rr) = N - 1 /\ N \in Nat /\ d \in 2 .. N
      /\ \A k \in 1 .. N - 1 : rr[k] = IF k < d THEN rs[k] ELSE rs[k + 1]
  <2>1. d \in 1 .. Len(rs) /\ Len(rs) \in Nat
    OBVIOUS
  <2> QED
    BY <2>1, CutIs
<1> HIDE DEF rr
<1>2. CASE n < d
  <2>1. n \in Nat /\ \A i \in 1 .. n : rr[i] = rs[i]
    BY <1>1, <1>2
  <2>2. \A i \in 1 .. n : \A s : Read(s, rr[i], bound, boundary) = Read(s, rs[i], bound, boundary)
    BY <2>1
  <2> QED
    BY <2>1, <2>2, ReadSame DEF rr
<1>3. CASE ~(n < d)
  <2>1. d - 1 \in 1 .. Len(rr) /\ d \in 1 .. Len(rr) /\ d \in 0 .. Len(rr) /\ n \in d .. Len(rr)
    BY <1>1, <1>3
  <2>2. rr[d - 1] = rs[d - 1] /\ rr[d] = rs[d + 1]
    BY <1>1, <2>1
  <2>3. /\ Reading(S(d - 1))
        /\ ~S(d - 1).refused => S(d - 1).previous = Counted(rs[d - 1], boundary)
    <3> DEFINE e == d - 1
    <3>1. e \in 1 .. Len(rr) /\ rr[e] = rs[e]
      BY <2>1, <2>2
    <3> HIDE DEF e
    <3>2. Reading(S(e)) /\ (~S(e).refused => S(e).previous = Counted(rs[e], boundary))
      <4>1. /\ Reading(S(e - 1)) /\ Reading(S(e)) /\ rr[e] \in Record
            /\ ~S(e).refused => Follows(S(e - 1), rr[e], boundary) /\ S(e).previous = Counted(rr[e], boundary)
        BY <1>1, <3>1, ReadToStep
      <4> QED
        BY <3>1, <4>1
    <3> QED
      BY <3>2 DEF e
  <2>4. ~S(d).refused => Follows(S(d - 1), rs[d + 1], boundary)
    BY <1>1, <2>1, <2>2, ReadToStep
  <2>5. /\ Counted(rs[d - 1], boundary) \in Nat /\ Counted(rs[d], boundary) \in Nat
        /\ Counted(rs[d + 1], boundary) \in Nat
        /\ Counted(rs[d - 1], boundary) < Counted(rs[d], boundary)
        /\ Counted(rs[d], boundary) < Counted(rs[d + 1], boundary)
    <3>1. d - 1 \in 1 .. N /\ d \in 1 .. N /\ d + 1 \in 1 .. N
      BY <1>1, <2>1
    <3>2. rs[d - 1] \in Record /\ rs[d] \in Record /\ rs[d + 1] \in Record
      BY <3>1
    <3>3. d - 1 < d /\ d < d + 1
      BY <1>1
    <3> QED
      BY <3>1, <3>2, <3>3, CountedIs DEF Rising, Bounds
  <2> HIDE DEF S
  <2>6. S(d).refused
    BY <2>3, <2>4, <2>5 DEF Follows
  <2>7. S(n).refused
    BY <1>1, <2>1, <2>6, RefusedStays DEF S
  <2> QED
    BY <2>7 DEF S, rr
<1> QED
  BY <1>2, <1>3

LEMMA CutRises ==
  ASSUME NEW rs \in Seq(Record), NEW boundary, Rising(rs, boundary), NEW d \in 1 .. Len(rs)
  PROVE  Rising(RemoveAt(rs, d), boundary)
<1> DEFINE rr == RemoveAt(rs, d)
           N == Len(rs)
<1>1. /\ rr \in Seq(Record) /\ Len(rr) = N - 1 /\ N \in Nat
      /\ \A k \in 1 .. N - 1 : rr[k] = IF k < d THEN rs[k] ELSE rs[k + 1]
  BY CutIs
<1> HIDE DEF rr
<1>2. ASSUME NEW m \in 1 .. N - 1, NEW n \in 1 .. N - 1, m < n
      PROVE  Counted(rr[m], boundary) < Counted(rr[n], boundary)
  <2> DEFINE i == IF m < d THEN m ELSE m + 1
             j == IF n < d THEN n ELSE n + 1
  <2>1. i \in 1 .. N /\ j \in 1 .. N /\ i < j
    BY <1>1, <1>2
  <2>2. rr[m] = rs[i] /\ rr[n] = rs[j]
    BY <1>1
  <2> HIDE DEF i, j
  <2> QED
    BY <2>1, <2>2 DEF Rising
<1> QED
  BY <1>1, <1>2 DEF Rising, rr

-----------------------------------------------------------------------------
(* Rollouts: what a task did, and a reader that has read all of it. *)

Shapes ==
  /\ lines \in [Files -> Seq(Record)] /\ ordinals \in [Files -> Nat]
  /\ open \in [Files -> SUBSET Nat] /\ items \in [Files -> Seq(HistoryItem)]
  /\ really = [f \in Files |-> really[f]]
  /\ limit \in Bounds /\ lost \in Nat

\* Ids are ordinals; the open calls are among the items.
Lived(f) ==
  /\ ordinals[f] > 0
  /\ open[f] \subseteq 0 .. ordinals[f] - 1
  /\ \A n \in 1 .. Len(items[f]) : items[f][n].type = "call" => items[f][n].id < ordinals[f]
  /\ Ordered(items[f], open[f])
  /\ DOMAIN really[f] \subseteq 0 .. ordinals[f] - 1

\* A reader knows all a task did.
KnowsAll(s, past, calls, points, ordinal) ==
  /\ s.original = past /\ s.pending = calls /\ s.checkpoints = points
  /\ s.completed \subseteq 0 .. ordinal - 1 /\ s.completed \cap calls = {}

Current(s, f) == KnowsAll(s, items[f], open[f], really[f], ordinals[f])
CurrentNext(s, f) == KnowsAll(s, items'[f], open'[f], really'[f], ordinals'[f])

\* What each action leaves of a task.
Does(f, r) ==
  /\ r \in Record /\ r.ordinal = ordinals[f] /\ r.type # "meta"
  /\ lines' = [lines EXCEPT ![f] = Append(@, r)]
  /\ ordinals' = [ordinals EXCEPT ![f] = @ + 1]
  /\ UNCHANGED <<limit, lost>>
  /\ Shapes' /\ Lived(f)'
  /\ \A c \in DOMAIN really[f] : c \in DOMAIN really'[f] /\ really'[f][c] = really[f][c]
  /\ \A g \in Files \ {f} : open'[g] = open[g] /\ items'[g] = items[g] /\ really'[g] = really[g]
  /\ \A s : Reading(s) /\ ~s.refused /\ Current(s, f) => ~Taken(s, r).refused /\ CurrentNext(Taken(s, r), f)

LEMMA ShapesAt ==
  ASSUME Shapes, NEW f \in Files, Lived(f)
  PROVE  /\ lines[f] \in Seq(Record) /\ ordinals[f] \in Nat \ {0} /\ open[f] \in SUBSET Nat
         /\ items[f] \in Seq(HistoryItem) /\ IsFiniteSet(open[f])
<1>1. /\ lines[f] \in Seq(Record) /\ ordinals[f] \in Nat \ {0} /\ open[f] \in SUBSET Nat
      /\ items[f] \in Seq(HistoryItem)
  BY DEF Shapes, Lived
<1>2. IsFiniteSet(open[f])
  <2>1. 0 \in Int /\ ordinals[f] - 1 \in Int /\ open[f] \subseteq 0 .. ordinals[f] - 1
    BY <1>1 DEF Lived
  <2> QED
    BY <2>1, FS_Interval, FS_Subset
<1> QED
  BY <1>1, <1>2

LEMMA AppendedItem ==
  ASSUME NEW s \in Seq(HistoryItem), NEW x \in HistoryItem
  PROVE  /\ Append(s, x) \in Seq(HistoryItem) /\ Len(Append(s, x)) = Len(s) + 1 /\ Len(s) \in Nat
         /\ Append(s, x)[Len(s) + 1] = x
         /\ \A n \in 1 .. Len(s) : Append(s, x)[n] = s[n]
OBVIOUS

LEMMA ItemAt ==
  ASSUME NEW s \in Seq(HistoryItem), NEW n \in 1 .. Len(s)
  PROVE  s[n] \in HistoryItem /\ s[n].id \in Nat
<1>1. s[n] \in HistoryItem
  OBVIOUS
<1> QED
  BY <1>1 DEF HistoryItem

\* An item that is no open call leaves the open ones in their order.
LEMMA OrderedMore ==
  ASSUME NEW s \in Seq(HistoryItem), NEW x \in HistoryItem, NEW ids \in SUBSET Nat, NEW more \in SUBSET ids,
         Ordered(s, ids), x \notin Calls(more)
  PROVE  Ordered(Append(s, x), more)
<1> DEFINE t == Append(s, x)
<1>1. /\ t \in Seq(HistoryItem) /\ Len(t) = Len(s) + 1 /\ Len(s) \in Nat
      /\ t[Len(s) + 1] = x /\ \A n \in 1 .. Len(s) : t[n] = s[n]
  BY AppendedItem
<1> HIDE DEF t
<1>2. ASSUME NEW i \in more PROVE \E n \in 1 .. Len(t) : t[n] = [type |-> "call", id |-> i]
  <2>1. PICK n \in 1 .. Len(s) : s[n] = [type |-> "call", id |-> i]
    BY DEF Ordered
  <2>2. n \in 1 .. Len(t) /\ t[n] = s[n]
    BY <1>1
  <2> QED
    BY <2>1, <2>2
<1>3. Calls(more) \subseteq Calls(ids)
  BY DEF Calls
<1>4. ASSUME NEW m \in 1 .. Len(t), NEW n \in 1 .. Len(t), m < n, t[m] \in Calls(more), t[n] \in Calls(more)
      PROVE  t[m].id < t[n].id
  <2>1. m \in 1 .. Len(s) /\ n \in 1 .. Len(s)
    BY <1>1, <1>4
  <2> QED
    BY <1>1, <1>3, <1>4, <2>1 DEF Ordered
<1> QED
  BY <1>2, <1>4 DEF Ordered, t

LEMMA MessageDoes ==
  ASSUME Shapes, NEW f \in Files, Lived(f), Message(f)
  PROVE  \E r : Does(f, r)
<1> DEFINE o == ordinals[f]
           r == [ordinal |-> o, type |-> "message", id |-> o]
           x == [type |-> "message", id |-> o]
<1>1. /\ lines[f] \in Seq(Record) /\ o \in Nat \ {0} /\ open[f] \in SUBSET Nat
      /\ items[f] \in Seq(HistoryItem)
  BY ShapesAt
<1>2. r \in Record /\ x \in HistoryItem /\ r.ordinal = o /\ r.type = "message" /\ r.id = o
  BY <1>1 DEF Record, RecordTypes, HistoryItem
<1>3. /\ lines' = [lines EXCEPT ![f] = Append(@, r)] /\ ordinals' = [ordinals EXCEPT ![f] = @ + 1]
      /\ items' = [items EXCEPT ![f] = Append(@, x)]
      /\ UNCHANGED <<limit, open, really, lost>>
  BY DEF Message, Writes, Happens
<1> HIDE DEF r, x
<1>4. Shapes'
  BY <1>1, <1>2, <1>3, AppendedItem DEF Shapes
<1>5. items'[f] = Append(items[f], x) /\ ordinals'[f] = o + 1 /\ open'[f] = open[f] /\ really'[f] = really[f]
  BY <1>3 DEF Shapes
<1>6. Lived(f)'
  <2>1. Ordered(Append(items[f], x), open[f])
    BY <1>1, <1>2, OrderedMore DEF Lived, Calls, x
  <2>2. \A n \in 1 .. Len(Append(items[f], x)) : Append(items[f], x)[n].type = "call" => Append(items[f], x)[n].id < o + 1
    <3>1. \A n \in 1 .. Len(items[f]) : items[f][n] \in HistoryItem
      BY <1>1
    <3> QED
      BY <1>1, <1>2, <3>1, AppendedItem DEF Lived, HistoryItem, x
  <2> QED
    BY <1>1, <1>5, <2>1, <2>2 DEF Lived
<1>7. ASSUME NEW s, Reading(s), ~s.refused, Current(s, f)
      PROVE  ~Taken(s, r).refused /\ CurrentNext(Taken(s, r), f)
  <2>1. Taken(s, r) = [s EXCEPT !.original = Append(@, x)]
    BY <1>2 DEF Taken, Item, x
  <2>2. /\ Taken(s, r).original = Append(s.original, x) /\ Taken(s, r).refused = s.refused
        /\ Taken(s, r).pending = s.pending /\ Taken(s, r).completed = s.completed
        /\ Taken(s, r).checkpoints = s.checkpoints
    BY <1>7, <2>1 DEF Reading
  <2> QED
    BY <1>1, <1>5, <1>7, <2>2 DEF Current, CurrentNext, KnowsAll
<1>8. \A g \in Files \ {f} : open'[g] = open[g] /\ items'[g] = items[g] /\ really'[g] = really[g]
  BY <1>3 DEF Shapes
<1> QED
  BY <1>2, <1>3, <1>4, <1>5, <1>6, <1>7, <1>8 DEF Does

LEMMA CallDoes ==
  ASSUME Shapes, NEW f \in Files, Lived(f), Call(f)
  PROVE  \E r : Does(f, r)
<1> DEFINE o == ordinals[f]
           r == [ordinal |-> o, type |-> "call", id |-> o]
           x == [type |-> "call", id |-> o]
           t == Append(items[f], x)
<1>1. /\ lines[f] \in Seq(Record) /\ o \in Nat \ {0} /\ open[f] \in SUBSET Nat
      /\ items[f] \in Seq(HistoryItem)
  BY ShapesAt
<1>2. r \in Record /\ x \in HistoryItem /\ r.ordinal = o /\ r.type = "call" /\ r.id = o
  BY <1>1 DEF Record, RecordTypes, HistoryItem
<1>3. /\ lines' = [lines EXCEPT ![f] = Append(@, r)] /\ ordinals' = [ordinals EXCEPT ![f] = @ + 1]
      /\ items' = [items EXCEPT ![f] = Append(@, x)] /\ open' = [open EXCEPT ![f] = @ \cup {o}]
      /\ UNCHANGED <<limit, really, lost>>
  BY DEF Call, Writes, Happens
<1>a. x.type = "call" /\ x.id = o
  OBVIOUS
<1> HIDE DEF r, x
<1>4. Shapes'
  BY <1>1, <1>2, <1>3, AppendedItem DEF Shapes
<1>5. items'[f] = t /\ ordinals'[f] = o + 1 /\ open'[f] = open[f] \cup {o} /\ really'[f] = really[f]
  BY <1>3 DEF Shapes
<1>b. /\ t \in Seq(HistoryItem) /\ Len(t) = Len(items[f]) + 1 /\ Len(items[f]) \in Nat
      /\ t[Len(items[f]) + 1] = x /\ \A n \in 1 .. Len(items[f]) : t[n] = items[f][n]
  BY <1>1, <1>2, AppendedItem
<1>c. \A n \in 1 .. Len(items[f]) : items[f][n] \in HistoryItem
  BY <1>1
<1>d. \A n \in 1 .. Len(items[f]) : items[f][n].type = "call" => items[f][n].id < o
  BY DEF Lived
<1> HIDE DEF t
<1>6. Lived(f)'
  <2>1. Ordered(t, open[f] \cup {o})
    <3>1. ASSUME NEW i \in open[f] \cup {o} PROVE \E n \in 1 .. Len(t) : t[n] = [type |-> "call", id |-> i]
      <4>1. CASE i = o
        BY <1>b, <4>1 DEF x
      <4>2. CASE i \in open[f]
        BY <1>b, <4>2 DEF Lived, Ordered
      <4> QED
        BY <4>1, <4>2
    <3>2. ASSUME NEW m \in 1 .. Len(t), NEW n \in 1 .. Len(t), m < n,
                 t[m] \in Calls(open[f] \cup {o}), t[n] \in Calls(open[f] \cup {o})
          PROVE  t[m].id < t[n].id
      <4>1. m \in 1 .. Len(items[f]) /\ t[m] = items[f][m]
        BY <1>b, <3>2
      <4>2. t[m].type = "call" /\ t[m] \in Calls(open[f]) /\ t[m].id < o
        <5>1. t[m].type = "call"
          BY <3>2 DEF Calls
        <5>2. t[m].id < o
          BY <1>d, <4>1, <5>1
        <5> QED
          BY <1>1, <3>2, <5>1, <5>2 DEF Calls
      <4>3. CASE n \in 1 .. Len(items[f])
        <5>1. t[n] = items[f][n] /\ t[n].type = "call" /\ t[n].id < o
          BY <1>b, <1>d, <3>2, <4>3 DEF Calls
        <5>2. t[n] \in Calls(open[f])
          BY <1>1, <3>2, <5>1 DEF Calls
        <5> QED
          BY <3>2, <4>1, <4>2, <4>3, <5>1, <5>2 DEF Lived, Ordered
      <4>4. CASE n = Len(items[f]) + 1
        BY <1>a, <1>b, <4>2, <4>4
      <4> QED
        BY <1>b, <4>3, <4>4
    <3> QED
      BY <3>1, <3>2 DEF Ordered
  <2>2. \A n \in 1 .. Len(t) : t[n].type = "call" => t[n].id < o + 1
    <3> TAKE n \in 1 .. Len(t)
    <3>1. CASE n = Len(items[f]) + 1
      BY <1>1, <1>a, <1>b, <3>1
    <3>2. CASE n # Len(items[f]) + 1
      <4>1. n \in 1 .. Len(items[f])
        BY <1>b, <3>2
      <4>2. items[f][n].id \in Nat /\ t[n] = items[f][n]
        BY <1>b, <1>c, <4>1 DEF HistoryItem
      <4> QED
        BY <1>1, <1>d, <4>1, <4>2
    <3> QED
      BY <3>1, <3>2
  <2>3. open[f] \cup {o} \subseteq 0 .. (o + 1) - 1 /\ DOMAIN really[f] \subseteq 0 .. (o + 1) - 1
    BY <1>1 DEF Lived
  <2> QED
    BY <1>1, <1>5, <2>1, <2>2, <2>3 DEF Lived
<1>7. ASSUME NEW s, Reading(s), ~s.refused, Current(s, f)
      PROVE  ~Taken(s, r).refused /\ CurrentNext(Taken(s, r), f)
  <2>0. o \notin s.pending \cup s.completed
    BY <1>1, <1>7 DEF Current, KnowsAll, Lived
  <2>1. Taken(s, r) = [[s EXCEPT !.original = Append(@, x)] EXCEPT !.pending = @ \cup {o}]
    BY <1>2, <2>0 DEF Taken, Item, x
  <2>2. /\ Taken(s, r).original = Append(s.original, x) /\ Taken(s, r).refused = s.refused
        /\ Taken(s, r).pending = s.pending \cup {o} /\ Taken(s, r).completed = s.completed
        /\ Taken(s, r).checkpoints = s.checkpoints
    BY <1>7, <2>1 DEF Reading
  <2>3. s.completed \subseteq 0 .. (o + 1) - 1 /\ s.completed \cap (open[f] \cup {o}) = {}
    BY <1>1, <1>7, <2>0 DEF Current, CurrentNext, KnowsAll
  <2> QED
    BY <1>5, <1>7, <2>2, <2>3 DEF Current, CurrentNext, KnowsAll, t
<1>8. \A g \in Files \ {f} : open'[g] = open[g] /\ items'[g] = items[g] /\ really'[g] = really[g]
  BY <1>3 DEF Shapes
<1> QED
  BY <1>2, <1>3, <1>4, <1>5, <1>6, <1>7, <1>8 DEF Does

LEMMA AnswerDoes ==
  ASSUME Shapes, NEW f \in Files, Lived(f), NEW id, Answer(f, id)
  PROVE  \E r : Does(f, r)
<1> DEFINE o == ordinals[f]
           r == [ordinal |-> o, type |-> "output", id |-> id]
           x == [type |-> "output", id |-> id]
           t == Append(items[f], x)
<1>1. /\ lines[f] \in Seq(Record) /\ o \in Nat \ {0} /\ open[f] \in SUBSET Nat
      /\ items[f] \in Seq(HistoryItem)
  BY ShapesAt
<1>0. id \in open[f] /\ id \in Nat /\ id < o
  BY <1>1 DEF Answer, Lived
<1>2. r \in Record /\ x \in HistoryItem /\ r.ordinal = o /\ r.type = "output" /\ r.id = id
  BY <1>0, <1>1 DEF Record, RecordTypes, HistoryItem
<1>3. /\ lines' = [lines EXCEPT ![f] = Append(@, r)] /\ ordinals' = [ordinals EXCEPT ![f] = @ + 1]
      /\ items' = [items EXCEPT ![f] = Append(@, x)] /\ open' = [open EXCEPT ![f] = @ \ {id}]
      /\ UNCHANGED <<limit, really, lost>>
  BY DEF Answer, Writes, Happens
<1>a. x.type = "output" /\ x.id = id
  OBVIOUS
<1> HIDE DEF r, x
<1>4. Shapes'
  BY <1>1, <1>2, <1>3, AppendedItem DEF Shapes
<1>5. items'[f] = t /\ ordinals'[f] = o + 1 /\ open'[f] = open[f] \ {id} /\ really'[f] = really[f]
  BY <1>3 DEF Shapes
<1>6. Lived(f)'
  <2>1. Ordered(t, open[f] \ {id})
    BY <1>1, <1>2, <1>a, OrderedMore DEF Lived, Calls
  <2>2. \A n \in 1 .. Len(t) : t[n].type = "call" => t[n].id < o + 1
    <3>1. \A n \in 1 .. Len(items[f]) : items[f][n] \in HistoryItem
      BY <1>1
    <3> QED
      BY <1>1, <1>2, <1>a, <3>1, AppendedItem DEF Lived, HistoryItem
  <2>3. open[f] \ {id} \subseteq 0 .. (o + 1) - 1 /\ DOMAIN really[f] \subseteq 0 .. (o + 1) - 1
    BY <1>1 DEF Lived
  <2> HIDE DEF t
  <2> QED
    BY <1>1, <1>5, <2>1, <2>2, <2>3 DEF Lived
<1>7. ASSUME NEW s, Reading(s), ~s.refused, Current(s, f)
      PROVE  ~Taken(s, r).refused /\ CurrentNext(Taken(s, r), f)
  <2>0. id \in s.pending /\ id \notin s.completed
    BY <1>0, <1>7 DEF Current, KnowsAll
  <2>1. Taken(s, r) = [[[s EXCEPT !.original = Append(@, x)] EXCEPT !.pending = @ \ {id}] EXCEPT !.completed = @ \cup {id}]
    BY <1>2, <2>0 DEF Taken, Item, x
  <2>2. /\ Taken(s, r).original = Append(s.original, x) /\ Taken(s, r).refused = s.refused
        /\ Taken(s, r).pending = s.pending \ {id} /\ Taken(s, r).completed = s.completed \cup {id}
        /\ Taken(s, r).checkpoints = s.checkpoints
    BY <1>7, <2>1 DEF Reading
  <2>3. /\ s.completed \cup {id} \subseteq 0 .. (o + 1) - 1
        /\ (s.completed \cup {id}) \cap (open[f] \ {id}) = {}
    BY <1>0, <1>1, <1>7 DEF Current, KnowsAll
  <2> QED
    BY <1>5, <1>7, <2>2, <2>3 DEF Current, CurrentNext, KnowsAll, t
<1>8. \A g \in Files \ {f} : open'[g] = open[g] /\ items'[g] = items[g] /\ really'[g] = really[g]
  BY <1>3 DEF Shapes
<1> QED
  BY <1>2, <1>3, <1>4, <1>5, <1>6, <1>7, <1>8 DEF Does

LEMMA InterruptDoes ==
  ASSUME Shapes, NEW f \in Files, Lived(f), Interrupt(f)
  PROVE  \E r : Does(f, r)
<1> DEFINE o == ordinals[f]
           r == [ordinal |-> o, type |-> "aborted", id |-> 0]
           kept == Among(items[f], ToSet(items[f]) \ Calls(open[f]))
           notes == [n \in 1 .. Cardinality(open[f]) |-> Note(Nth(open[f], n))]
           t == kept \o notes
<1>1. /\ lines[f] \in Seq(Record) /\ o \in Nat \ {0} /\ open[f] \in SUBSET Nat
      /\ items[f] \in Seq(HistoryItem) /\ IsFiniteSet(open[f])
  BY ShapesAt
<1>2. r \in Record /\ r.ordinal = o /\ r.type = "aborted"
  BY <1>1 DEF Record, RecordTypes
<1>3. /\ lines' = [lines EXCEPT ![f] = Append(@, r)] /\ ordinals' = [ordinals EXCEPT ![f] = @ + 1]
      /\ items' = [items EXCEPT ![f] = t] /\ open' = [open EXCEPT ![f] = {}]
      /\ UNCHANGED <<limit, really, lost>>
  BY DEF Interrupt, Writes
<1> HIDE DEF r
<1>a. /\ kept \in Seq(HistoryItem)
      /\ \A k \in 1 .. Len(kept) : \E n \in 1 .. Len(items[f]) : kept[k] = items[f][n]
  <2> DEFINE S == ToSet(items[f]) \ Calls(open[f])
  <2> HIDE DEF S
  <2>1. /\ Among(items[f], S) \in Seq(HistoryItem)
        /\ \A k \in 1 .. Len(Among(items[f], S)) : \E n \in 1 .. Len(items[f]) : Among(items[f], S)[k] = items[f][n]
    <3> DEFINE past == items[f]
    <3>1. past \in Seq(HistoryItem)
      BY <1>1
    <3> HIDE DEF past
    <3>2. /\ Among(past, S) \in Seq(HistoryItem)
          /\ \A k \in 1 .. Len(Among(past, S)) : \E n \in 1 .. Len(past) : Among(past, S)[k] = past[n]
      BY <3>1, AmongAre
    <3> QED
      BY <3>2 DEF past
  <2> QED
    BY <2>1 DEF S
<1>b. notes \in Seq(HistoryItem) /\ \A k \in 1 .. Len(notes) : notes[k].type = "unknown"
  <2>1. Cardinality(open[f]) \in Nat
    BY <1>1, FS_CardinalityType
  <2>2. \A n \in 1 .. Cardinality(open[f]) : Nth(open[f], n) \in Nat
    BY <1>1, NthIs
  <2>3. \A n \in 1 .. Cardinality(open[f]) : Note(Nth(open[f], n)) \in HistoryItem
    BY <2>2 DEF Note, HistoryItem
  <2> QED
    BY <2>1, <2>3 DEF Note
<1> HIDE DEF kept, notes
<1>c. /\ t \in Seq(HistoryItem) /\ Len(t) = Len(kept) + Len(notes) /\ Len(kept) \in Nat /\ Len(notes) \in Nat
      /\ \A n \in 1 .. Len(kept) + Len(notes) : t[n] = IF n <= Len(kept) THEN kept[n] ELSE notes[n - Len(kept)]
  BY <1>a, <1>b, Joined
<1> HIDE DEF t
<1>4. Shapes'
  <2>1. lines' \in [Files -> Seq(Record)] /\ ordinals' \in [Files -> Nat] /\ limit' \in Bounds /\ lost' \in Nat
        /\ really' = [g \in Files |-> really'[g]]
    BY <1>1, <1>2, <1>3 DEF Shapes
  <2>2. items' \in [Files -> Seq(HistoryItem)] /\ open' \in [Files -> SUBSET Nat]
    BY <1>1, <1>3, <1>c DEF Shapes
  <2> QED
    BY <2>1, <2>2 DEF Shapes
<1>5. items'[f] = t /\ ordinals'[f] = o + 1 /\ open'[f] = {} /\ really'[f] = really[f]
  BY <1>3 DEF Shapes
<1>6. Lived(f)'
  <2>1. Ordered(t, {})
    BY DEF Ordered, Calls
  <2>2. \A n \in 1 .. Len(t) : t[n].type = "call" => t[n].id < o + 1
    <3> TAKE n \in 1 .. Len(t)
    <3> HAVE t[n].type = "call"
    <3>1. CASE n <= Len(kept)
      <4>1. n \in 1 .. Len(kept) /\ t[n] = kept[n]
        BY <1>c, <3>1
      <4>2. PICK m \in 1 .. Len(items[f]) : kept[n] = items[f][m]
        BY <1>a, <4>1
      <4>3. items[f][m].id \in Nat
        BY <1>1, ItemAt
      <4>4. items[f][m].id < o
        BY <4>1, <4>2 DEF Lived
      <4> QED
        BY <1>1, <4>1, <4>2, <4>3, <4>4
    <3>2. CASE ~(n <= Len(kept))
      <4>1. n - Len(kept) \in 1 .. Len(notes) /\ t[n] = notes[n - Len(kept)]
        BY <1>c, <3>2
      <4> QED
        BY <1>b, <4>1
    <3> QED
      BY <3>1, <3>2
  <2>3. DOMAIN really[f] \subseteq 0 .. (o + 1) - 1
    BY <1>1 DEF Lived
  <2> QED
    BY <1>1, <1>5, <2>1, <2>2, <2>3 DEF Lived
<1>7. ASSUME NEW s, Reading(s), ~s.refused, Current(s, f)
      PROVE  ~Taken(s, r).refused /\ CurrentNext(Taken(s, r), f)
  <2>1. s.original = items[f] /\ s.pending = open[f]
    BY <1>7 DEF Current, KnowsAll
  <2> DEFINE calls == Among(items[f], Calls(open[f]))
             written == [n \in DOMAIN calls |-> Note(calls[n].id)]
  <2>2. written = notes
    BY <1>1, NotesAgree DEF Lived, notes
  <2>3. Taken(s, r) = [s EXCEPT !.original = kept \o written, !.pending = {}]
    BY <1>2, <2>1 DEF Taken, Aborted, kept
  <2> HIDE DEF written
  <2>4. /\ Taken(s, r).original = t /\ Taken(s, r).refused = s.refused /\ Taken(s, r).pending = {}
        /\ Taken(s, r).completed = s.completed /\ Taken(s, r).checkpoints = s.checkpoints
    BY <1>7, <2>2, <2>3 DEF Reading, t
  <2>5. s.completed \subseteq 0 .. (o + 1) - 1
    BY <1>1, <1>7 DEF Current, KnowsAll
  <2> QED
    BY <1>5, <1>7, <2>4, <2>5 DEF Current, CurrentNext, KnowsAll
<1>8. \A g \in Files \ {f} : open'[g] = open[g] /\ items'[g] = items[g] /\ really'[g] = really[g]
  BY <1>3 DEF Shapes
<1> QED
  BY <1>2, <1>3, <1>4, <1>5, <1>6, <1>7, <1>8 DEF Does

LEMMA CompactDoes ==
  ASSUME Shapes, NEW f \in Files, Lived(f), CompactTask(f)
  PROVE  \E r : Does(f, r)
<1> DEFINE o == ordinals[f]
           r == [ordinal |-> o, type |-> "compacted", id |-> o]
           points == With(really[f], o, items[f])
<1>1. /\ lines[f] \in Seq(Record) /\ o \in Nat \ {0} /\ open[f] \in SUBSET Nat
      /\ items[f] \in Seq(HistoryItem)
  BY ShapesAt
<1>2. r \in Record /\ r.ordinal = o /\ r.type = "compacted" /\ r.id = o
  BY <1>1 DEF Record, RecordTypes
<1>3. /\ lines' = [lines EXCEPT ![f] = Append(@, r)] /\ ordinals' = [ordinals EXCEPT ![f] = @ + 1]
      /\ really' = [really EXCEPT ![f] = points]
      /\ UNCHANGED <<limit, items, open, lost>>
  BY DEF CompactTask, Writes
<1> HIDE DEF r
<1>a. DOMAIN points = DOMAIN really[f] \cup {o} /\ \A c \in DOMAIN really[f] : points[c] = really[f][c]
  <2>1. o \notin DOMAIN really[f]
    BY <1>1 DEF Lived
  <2> QED
    BY <2>1 DEF With
<1> HIDE DEF points
<1>4. Shapes'
  <2>1. lines' \in [Files -> Seq(Record)] /\ ordinals' \in [Files -> Nat] /\ limit' \in Bounds /\ lost' \in Nat
    BY <1>1, <1>2, <1>3 DEF Shapes
  <2>2. items' \in [Files -> Seq(HistoryItem)] /\ open' \in [Files -> SUBSET Nat]
    BY <1>3 DEF Shapes
  <2>3. really' = [g \in Files |-> really'[g]]
    BY <1>3 DEF Shapes
  <2> QED
    BY <2>1, <2>2, <2>3 DEF Shapes
<1>5. items'[f] = items[f] /\ ordinals'[f] = o + 1 /\ open'[f] = open[f] /\ really'[f] = points
  BY <1>3 DEF Shapes
<1>6. Lived(f)'
  <2>2. \A n \in 1 .. Len(items[f]) : items[f][n].type = "call" => items[f][n].id < o + 1
    <3>1. \A n \in 1 .. Len(items[f]) : items[f][n].id \in Nat
      BY <1>1, ItemAt
    <3> QED
      BY <1>1, <3>1 DEF Lived
  <2>3. open[f] \subseteq 0 .. (o + 1) - 1 /\ DOMAIN points \subseteq 0 .. (o + 1) - 1
    BY <1>1, <1>a DEF Lived
  <2> QED
    BY <1>1, <1>5, <2>2, <2>3 DEF Lived
<1>7. ASSUME NEW s, Reading(s), ~s.refused, Current(s, f)
      PROVE  ~Taken(s, r).refused /\ CurrentNext(Taken(s, r), f)
  <2>1. s.original = items[f] /\ s.pending = open[f] /\ s.checkpoints = really[f]
    BY <1>7 DEF Current, KnowsAll
  <2>2. s.original # <<>> /\ s.pending = {}
    BY <2>1 DEF CompactTask
  <2>3. Taken(s, r) = [s EXCEPT !.checkpoints = With(@, o, s.original)]
    BY <1>2, <2>2 DEF Taken, Compacted
  <2>4. /\ Taken(s, r).original = s.original /\ Taken(s, r).refused = s.refused /\ Taken(s, r).pending = s.pending
        /\ Taken(s, r).completed = s.completed /\ Taken(s, r).checkpoints = points
    BY <1>7, <2>1, <2>3 DEF Reading, points
  <2>5. s.completed \subseteq 0 .. (o + 1) - 1
    BY <1>1, <1>7 DEF Current, KnowsAll
  <2> QED
    BY <1>5, <1>7, <2>4, <2>5 DEF Current, CurrentNext, KnowsAll
<1>8. \A g \in Files \ {f} : open'[g] = open[g] /\ items'[g] = items[g] /\ really'[g] = really[g]
  BY <1>3 DEF Shapes
<1>9. \A c \in DOMAIN really[f] : c \in DOMAIN really'[f] /\ really'[f][c] = really[f][c]
  BY <1>5, <1>a
<1> QED
  BY <1>2, <1>3, <1>4, <1>6, <1>7, <1>8, <1>9 DEF Does

-----------------------------------------------------------------------------
(* Rollouts: the inductive invariant. *)

\* What a reader knows of a task is true; all of it, if it has read to the end.
KnownAs(s, past, calls, points, ordinal) ==
  s.refused \/ /\ s.previous < ordinal
               /\ \A c \in DOMAIN s.checkpoints : c \in DOMAIN points /\ s.checkpoints[c] = points[c]
               /\ s.previous = ordinal - 1 => KnowsAll(s, past, calls, points, ordinal)

Known(s, f) == KnownAs(s, items[f], open[f], really[f], ordinals[f])
KnownNext(s, f) == KnownAs(s, items'[f], open'[f], really'[f], ordinals'[f])

\* The readers of a file: of the parent's, of what the child inherits of it, and of the child's.
OfParent(n) == ReadTo(n, Started(Unread), lines["parent"], Unbound, Unbound)
Inherited(n) == ReadTo(n, Started(Unread), lines["parent"], limit, Unbound)
OfChild(b, m) == ReadTo(m, Started(b), lines["child"], Unbound, limit)

Length(f) == Len(lines[f])
UpToDate(s, f) == ~s.refused /\ s.previous = ordinals[f] - 1
Complete(b) == ~b.refused /\ b.included = limit - 1

Written(f, boundary) ==
  /\ Length(f) \in 1 .. ordinals[f]
  /\ Rising(lines[f], boundary)
  /\ \A n \in 1 .. Length(f) : Counted(lines[f][n], boundary) < ordinals[f]

ParentInv ==
  /\ Lived("parent") /\ Written("parent", Unbound)
  /\ \A n \in 0 .. Length("parent") : Known(OfParent(n), "parent")
  /\ lost = 0 => UpToDate(OfParent(Length("parent")), "parent")

\* Whatever prefix of the parent's file has all the child inherits, what is read
\* of the child's file after it is true.
ChildInv ==
  IF limit = Unbound THEN lines["child"] = <<>> /\ really["child"] = <<>>
  ELSE
  /\ limit \in 1 .. ordinals["parent"] /\ limit <= ordinals["child"]
  /\ Lived("child") /\ Written("child", limit)
  /\ \A n \in 0 .. Length("parent") :
       Complete(Inherited(n)) =>
         \A m \in 0 .. Length("child") : Known(OfChild(Inherited(n), m), "child")
  /\ lost = 0 => LET b == Inherited(Length("parent"))
                 IN Complete(b) /\ UpToDate(b, "parent") /\ UpToDate(OfChild(b, Length("child")), "child")

RolloutInv ==
  /\ Shapes /\ lost <= MaxLost /\ \A f \in Files : ordinals[f] + lost <= MaxRecords + 1
  /\ ParentInv /\ ChildInv

SameButCount(t, s) ==
  /\ t.refused = s.refused /\ t.checkpoints = s.checkpoints /\ t.original = s.original
  /\ t.pending = s.pending /\ t.completed = s.completed

LEMMA PreviousSet ==
  ASSUME NEW s, Reading(s), NEW p \in Int
  PROVE  LET t == [s EXCEPT !.previous = p]
         IN Reading(t) /\ t.previous = p /\ t.included = s.included /\ SameButCount(t, s)
BY DEF Reading, SameButCount

LEMMA IncludedSet ==
  ASSUME NEW s, Reading(s), NEW p \in Int
  PROVE  LET t == [s EXCEPT !.included = p]
         IN Reading(t) /\ t.previous = s.previous /\ t.included = p /\ SameButCount(t, s)
BY DEF Reading, SameButCount

LEMMA StartReads ==
  /\ Reading(Unread) /\ ~Unread.refused /\ Unread.previous = -1 /\ Unread.included = -1
  /\ \A s : Reading(s) =>
       /\ Reading(Started(s)) /\ Started(s).previous = -1 /\ Started(s).included = -1
       /\ Started(s).refused = s.refused /\ Started(s).checkpoints = s.checkpoints
       /\ Started(s).original = s.original /\ Started(s).pending = s.pending /\ Started(s).completed = s.completed
<1>1. Reading(Unread)
  <2>1. /\ Unread.previous = -1 /\ Unread.included = -1 /\ Unread.refused = FALSE /\ Unread.original = <<>>
        /\ Unread.pending = {} /\ Unread.completed = {} /\ Unread.checkpoints = <<>>
    BY DEF Unread
  <2>2. Unread \in [previous : Int, included : Int, refused : BOOLEAN, original : {<<>>},
                    pending : {{}}, completed : {{}}, checkpoints : {<<>>}]
    BY DEF Unread
  <2>3. Reading(Unread)
    BY <2>1, <2>2 DEF Reading
  <2> QED
    BY <2>3
<1>2. ~Unread.refused /\ Unread.previous = -1 /\ Unread.included = -1
  BY DEF Unread
<1>3. ASSUME NEW s, Reading(s)
      PROVE  /\ Reading(Started(s)) /\ Started(s).previous = -1 /\ Started(s).included = -1
             /\ Started(s).refused = s.refused /\ Started(s).checkpoints = s.checkpoints
             /\ Started(s).original = s.original /\ Started(s).pending = s.pending
             /\ Started(s).completed = s.completed
  <2> DEFINE t == [s EXCEPT !.previous = -1]
             u == [t EXCEPT !.included = -1]
  <2>1. Started(s) = u
    BY DEF Started
  <2>2. Reading(t) /\ t.previous = -1 /\ SameButCount(t, s)
    BY <1>3, PreviousSet
  <2> HIDE DEF t
  <2>3. Reading(u) /\ u.previous = t.previous /\ u.included = -1 /\ SameButCount(u, t)
    BY <2>2, IncludedSet
  <2> HIDE DEF u
  <2> QED
    BY <2>1, <2>2, <2>3 DEF SameButCount
<1> QED
  BY <1>1, <1>2, <1>3

LEMMA TakenKnows ==
  ASSUME NEW s, NEW t, s.original = t.original, s.pending = t.pending, s.checkpoints = t.checkpoints,
         s.completed = t.completed, NEW f, Current(s, f)
  PROVE  Current(t, f)
BY DEF Current, KnowsAll

\* What a task does, every reader knows that knew all before.
LEMMA DoneIsKnown ==
  ASSUME Shapes, NEW f \in Files, Lived(f), NEW r, Does(f, r), NEW s, Reading(s), Known(s, f),
         NEW boundary \in Bounds
  PROVE  /\ KnownNext(s, f)
         /\ s.previous >= 0 \/ s.refused =>
              LET t == Read(s, r, Unbound, boundary)
              IN /\ KnownNext(t, f)
                 /\ UpToDate(s, f) => ~t.refused /\ t.previous = ordinals[f]
<1> DEFINE o == ordinals[f]
           t == Read(s, r, Unbound, boundary)
           c == Counting(s, r, boundary)
           k == [c EXCEPT !.included = r.ordinal]
<1>1. o \in Nat \ {0} /\ ordinals'[f] = o + 1 /\ r \in Record /\ r.ordinal = o /\ Counted(r, boundary) = o
  BY ShapesAt DEF Does, Shapes, Counted
<1>2. s.previous \in Int /\ s.refused \in BOOLEAN
  BY DEF Reading
<1>3. KnownNext(s, f)
  BY <1>1, <1>2 DEF Known, KnownNext, KnownAs, Does
<1>4. ASSUME ~Follows(s, r, boundary), s.previous >= 0 \/ s.refused
      PROVE  KnownNext(t, f) /\ ~UpToDate(s, f)
  <2>1. (t = s /\ s.refused) \/ t = Rejected(s)
    <3>1. s.refused \/ (~s.refused /\ ~Follows(s, r, boundary))
      BY <1>4
    <3>2. /\ s.refused => t = s
          /\ ~s.refused /\ ~Follows(s, r, boundary) => t = Rejected(s)
      <4>1. Unbound \in {Unbound} \cup Nat /\ boundary \in {Unbound} \cup Nat
        BY DEF Bounds
      <4> HIDE DEF c, k
      <4>2. /\ s.refused => Read(s, r, Unbound, boundary) = s
            /\ ~s.refused /\ ~Follows(s, r, boundary) => Read(s, r, Unbound, boundary) = Rejected(s)
        BY <1>1, <4>1, ReadIs
      <4> QED
        BY <4>2
    <3> HIDE DEF t
    <3> QED
      BY <3>1, <3>2
  <2>2. t.refused
    BY <2>1, RejectedIs
  <2> QED
    BY <1>1, <1>2, <1>4, <2>2 DEF KnownNext, KnownAs, UpToDate, Follows
<1>5. ASSUME Follows(s, r, boundary), s.previous >= 0 \/ s.refused
      PROVE  KnownNext(t, f) /\ ~t.refused /\ t.previous = o
  <2>1. ~s.refused /\ s.previous = o - 1
    BY <1>1, <1>2, <1>5 DEF Follows
  <2>2. t = Taken(k, r)
    BY <1>1, <1>5, ReadIs DEF Bounds
  <2>3. /\ Reading(k) /\ ~k.refused /\ k.previous = o /\ k.original = s.original /\ k.pending = s.pending
        /\ k.completed = s.completed /\ k.checkpoints = s.checkpoints
    <3>1. Reading(c) /\ c.previous = o /\ SameButCount(c, s)
      BY <1>1, PreviousSet DEF Counting
    <3> HIDE DEF c
    <3>2. Reading(k) /\ k.previous = c.previous /\ SameButCount(k, c)
      BY <1>1, <3>1, IncludedSet
    <3> HIDE DEF k
    <3> QED
      BY <2>1, <3>1, <3>2 DEF SameButCount
  <2>4. Current(s, f)
    BY <2>1 DEF Known, KnownAs, Current
  <2> HIDE DEF k, t
  <2>5. Current(k, f)
    BY <2>3, <2>4 DEF Current, KnowsAll
  <2>6. ~t.refused /\ CurrentNext(t, f)
    BY <2>2, <2>3, <2>5 DEF Does
  <2>7. t.previous = o
    BY <1>1, <2>2, <2>3, TakenIs
  <2>8. KnownAs(t, items'[f], open'[f], really'[f], ordinals'[f])
    BY <1>1, <2>6, <2>7 DEF KnownAs, CurrentNext, KnowsAll
  <2> QED
    BY <2>6, <2>7, <2>8 DEF KnownNext
<1>6. s.previous >= 0 \/ s.refused =>
              /\ KnownNext(t, f)
              /\ UpToDate(s, f) => ~t.refused /\ t.previous = o
  <2> HIDE DEF t
  <2> QED
    BY <1>4, <1>5
<1> QED
  BY <1>3, <1>6

\* A file that is written on is as it should be.
LEMMA WrittenMore ==
  ASSUME Shapes, NEW f \in Files, Lived(f), NEW r, Does(f, r), NEW boundary \in Bounds, Written(f, boundary)
  PROVE  /\ lines[f] \in Seq(Record) /\ lines'[f] = Append(lines[f], r) /\ ordinals'[f] = ordinals[f] + 1
         /\ Length(f)' = Length(f) + 1 /\ Length(f) \in Nat \ {0}
         /\ Length(f)' \in 1 .. ordinals'[f]
         /\ Rising(lines'[f], boundary)
         /\ \A n \in 1 .. Length(f)' : Counted(lines'[f][n], boundary) < ordinals'[f]
<1> DEFINE rs == lines[f]
           rr == lines'[f]
           N == Len(rs)
<1>1. rs \in Seq(Record) /\ ordinals[f] \in Nat \ {0}
  BY ShapesAt
<1>2. rr = Append(rs, r) /\ ordinals'[f] = ordinals[f] + 1 /\ r \in Record /\ r.ordinal = ordinals[f]
      /\ Counted(r, boundary) = ordinals[f]
  BY DEF Does, Shapes, Counted
<1> HIDE DEF rs, rr
<1>3. /\ N \in Nat /\ Len(rr) = N + 1 /\ rr[N + 1] = r /\ \A n \in 1 .. N : rr[n] = rs[n]
  BY <1>1, <1>2
<1>4. /\ N \in 1 .. ordinals[f] /\ Rising(rs, boundary)
      /\ \A n \in 1 .. N : Counted(rs[n], boundary) < ordinals[f] /\ Counted(rs[n], boundary) \in Nat
  <2>1. \A n \in 1 .. N : rs[n] \in Record
    BY <1>1
  <2> QED
    BY <2>1, CountedIs DEF Written, Length, rs, Bounds
<1>5. \A n \in 1 .. N + 1 : Counted(rr[n], boundary) < ordinals[f] + 1
  BY <1>1, <1>2, <1>3, <1>4
<1>6. Rising(rr, boundary)
  <2> SUFFICES ASSUME NEW m \in 1 .. N + 1, NEW n \in 1 .. N + 1, m < n
               PROVE  Counted(rr[m], boundary) < Counted(rr[n], boundary)
    BY <1>3 DEF Rising
  <2>1. m \in 1 .. N /\ rr[m] = rs[m]
    BY <1>3
  <2>2. CASE n = N + 1
    BY <1>2, <1>3, <1>4, <2>1, <2>2
  <2>3. CASE n # N + 1
    <3>1. n \in 1 .. N
      BY <1>3, <2>3
    <3> QED
      BY <1>3, <1>4, <2>1, <3>1 DEF Rising
  <2> QED
    BY <2>2, <2>3
<1> QED
  BY <1>1, <1>2, <1>3, <1>4, <1>5, <1>6 DEF Length, rs, rr

LEMMA FilesAre == "parent" \in Files /\ "child" \in Files /\ \A f \in Files : f = "parent" \/ f = "child"
BY DEF Files

\* After a record a reader that goes on has a number for it.
LEMMA HasRead ==
  ASSUME NEW start, Reading(start), NEW rs \in Seq(Record), NEW bound \in Bounds, NEW boundary \in Bounds,
         NEW n \in 1 .. Len(rs)
  PROVE  LET t == ReadTo(n, start, rs, bound, boundary)
         IN Reading(t) /\ (t.previous >= 0 \/ t.refused) /\ (~t.refused => t.previous = Counted(rs[n], boundary))
<1> DEFINE t == ReadTo(n, start, rs, bound, boundary)
<1>1. /\ Reading(t) /\ rs[n] \in Record
      /\ ~t.refused => t.previous = Counted(rs[n], boundary)
  BY ReadToStep
<1>2. Counted(rs[n], boundary) \in Nat
  BY <1>1, CountedIs DEF Bounds
<1> HIDE DEF t
<1>3. t.previous \in Int /\ t.refused \in BOOLEAN
  BY <1>1 DEF Reading
<1>4. t.previous >= 0 \/ t.refused
  BY <1>1, <1>2, <1>3
<1> QED
  BY <1>1, <1>4 DEF t

\* The readers of what the files are next.
LEMMA ReadersNext ==
  /\ \A n : OfParent(n)' = ReadTo(n, Started(Unread), lines'["parent"], Unbound, Unbound)
  /\ \A n : Inherited(n)' = ReadTo(n, Started(Unread), lines'["parent"], limit', Unbound)
  /\ \A b, n : OfChild(b, n)' = ReadTo(n, Started(b), lines'["child"], Unbound, limit')
<1>1. \A n : OfParent(n)' = ReadTo(n, Started(Unread), lines'["parent"], Unbound, Unbound)
  BY DEF OfParent
<1>2. \A n : Inherited(n)' = ReadTo(n, Started(Unread), lines'["parent"], limit', Unbound)
  BY DEF Inherited
<1>3. \A b, n : OfChild(b, n)' = ReadTo(n, Started(b), lines'["child"], Unbound, limit')
  BY DEF OfChild
<1> QED
  BY <1>1, <1>2, <1>3

LEMMA UpToDateNext ==
  /\ UpToDate(OfParent(Length("parent")), "parent")' <=>
       LET t == ReadTo(Length("parent")', Started(Unread), lines'["parent"], Unbound, Unbound)
       IN ~t.refused /\ t.previous = ordinals'["parent"] - 1
  /\ UpToDate(Inherited(Length("parent")), "parent")' <=>
       LET t == ReadTo(Length("parent")', Started(Unread), lines'["parent"], limit', Unbound)
       IN ~t.refused /\ t.previous = ordinals'["parent"] - 1
  /\ UpToDate(OfChild(Inherited(Length("parent")), Length("child")), "child")' <=>
       LET b == ReadTo(Length("parent")', Started(Unread), lines'["parent"], limit', Unbound)
           t == ReadTo(Length("child")', Started(b), lines'["child"], Unbound, limit')
       IN ~t.refused /\ t.previous = ordinals'["child"] - 1
  /\ Complete(Inherited(Length("parent")))' <=>
       LET b == ReadTo(Length("parent")', Started(Unread), lines'["parent"], limit', Unbound)
       IN ~b.refused /\ b.included = limit' - 1
BY DEF UpToDate, OfParent, Inherited, OfChild, Complete

LEMMA ParentWrites ==
  ASSUME Shapes, ParentInv, NEW r, Does("parent", r)
  PROVE  ParentInv'
<1> DEFINE f == "parent"
           rs == lines[f]
           N == Len(rs)
<1>1. /\ rs \in Seq(Record) /\ lines'[f] = Append(rs, r) /\ ordinals'[f] = ordinals[f] + 1
      /\ Length(f)' = N + 1 /\ N \in Nat \ {0} /\ Written(f, Unbound)' /\ f \in Files /\ Lived(f)
      /\ Unbound \in Bounds /\ r \in Record /\ ordinals[f] \in Nat \ {0}
  <2>1. Unbound \in Bounds /\ f \in Files /\ Lived(f) /\ Written(f, Unbound) /\ Unbound' = Unbound
    BY FilesAre DEF Bounds, ParentInv
  <2>2. /\ rs \in Seq(Record) /\ lines'[f] = Append(rs, r) /\ ordinals'[f] = ordinals[f] + 1
        /\ Length(f)' = Length(f) + 1 /\ Length(f) \in Nat \ {0}
        /\ Length(f)' \in 1 .. ordinals'[f]
        /\ Rising(lines'[f], Unbound)
        /\ \A n \in 1 .. Length(f)' : Counted(lines'[f][n], Unbound) < ordinals'[f]
    BY <2>1, WrittenMore
  <2>3. Written(f, Unbound)'
    BY <2>2 DEF Written
  <2>4. r \in Record /\ ordinals[f] \in Nat \ {0}
    BY <2>1, ShapesAt DEF Does
  <2> QED
    BY <2>1, <2>2, <2>3, <2>4 DEF Length
<1> DEFINE start == Started(Unread)
<1>2. Reading(start)
  BY StartReads
<1> HIDE DEF start, rs
<1>3. /\ \A n \in 0 .. N : ReadTo(n, start, Append(rs, r), Unbound, Unbound) = ReadTo(n, start, rs, Unbound, Unbound)
      /\ ReadTo(N + 1, start, Append(rs, r), Unbound, Unbound)
           = Read(ReadTo(N, start, rs, Unbound, Unbound), r, Unbound, Unbound)
  BY <1>1, <1>2, WrittenReads
<1> DEFINE Q(n) == ReadTo(n, start, Append(rs, r), Unbound, Unbound)
<1>4. /\ \A n \in 0 .. N : Q(n) = OfParent(n)
      /\ Q(N + 1) = Read(OfParent(N), r, Unbound, Unbound)
      /\ \A n : OfParent(n)' = Q(n)
  <2>1. \A n : OfParent(n)' = Q(n)
    BY <1>1, ReadersNext DEF rs, start
  <2> QED
    BY <1>1, <1>3, <2>1 DEF OfParent, rs, start
<1> HIDE DEF Q
<1>5. \A n \in 0 .. N : Reading(OfParent(n)) /\ Known(OfParent(n), f)
  BY <1>1, <1>2, ReadToGoes DEF OfParent, start, ParentInv, Length, rs
<1>6. OfParent(N).previous >= 0 \/ OfParent(N).refused
  <2>1. N \in 1 .. Len(rs)
    BY <1>1
  <2> QED
    BY <1>1, <1>2, <2>1, HasRead DEF OfParent, rs, start
<1>7. /\ \A n \in 0 .. N : KnownNext(OfParent(n), f)
      /\ KnownNext(Q(N + 1), f)
      /\ UpToDate(OfParent(N), f) => ~Q(N + 1).refused /\ Q(N + 1).previous = ordinals[f]
  <2>1. N \in 0 .. N /\ Shapes /\ f \in Files /\ Lived(f) /\ Does(f, r)
    BY <1>1
  <2>2. ASSUME NEW n \in 0 .. N PROVE KnownNext(OfParent(n), f)
    BY <1>1, <1>5, <2>1, DoneIsKnown
  <2>3. /\ KnownNext(Read(OfParent(N), r, Unbound, Unbound), f)
        /\ UpToDate(OfParent(N), f) =>
             /\ ~Read(OfParent(N), r, Unbound, Unbound).refused
             /\ Read(OfParent(N), r, Unbound, Unbound).previous = ordinals[f]
    BY <1>1, <1>5, <1>6, <2>1, DoneIsKnown
  <2> QED
    BY <1>4, <2>2, <2>3
<1>8. \A n \in 0 .. Length(f)' : Known(OfParent(n), f)'
  <2>1. ASSUME NEW n \in 0 .. N + 1 PROVE KnownNext(Q(n), f)
    <3>1. CASE n = N + 1
      BY <1>7, <3>1
    <3>2. CASE n # N + 1
      <4>1. n \in 0 .. N
        BY <1>1, <3>2
      <4> QED
        BY <1>4, <1>7, <4>1
    <3> QED
      BY <3>1, <3>2
  <2> QED
    BY <1>1, <1>4, <2>1 DEF Known, KnownNext
<1>9. lost' = 0 => UpToDate(OfParent(Length(f)), f)'
  <2> HAVE lost' = 0
  <2>1. UpToDate(OfParent(N), f)
    BY DEF Does, ParentInv, Length, rs
  <2>2. ~Q(N + 1).refused /\ Q(N + 1).previous = ordinals'[f] - 1
    BY <1>1, <1>7, <2>1
  <2> QED
    BY <1>1, <1>4, <2>2, ReadersNext, UpToDateNext
<1> QED
  BY <1>1, <1>8, <1>9 DEF ParentInv, Does

\* The child's readers of what the files are next.
InheritedNext(n) == ReadTo(n, Started(Unread), lines'["parent"], limit', Unbound)
OfChildNext(b, m) == ReadTo(m, Started(b), lines'["child"], Unbound, limit')

ChildNext ==
  /\ limit' \in 1 .. ordinals'["parent"] /\ limit' <= ordinals'["child"]
  /\ Lived("child")' /\ Written("child", limit)'
  /\ \A n \in 0 .. Length("parent")' :
       ~InheritedNext(n).refused /\ InheritedNext(n).included = limit' - 1 =>
         \A m \in 0 .. Length("child")' : KnownNext(OfChildNext(InheritedNext(n), m), "child")
  /\ lost' = 0 => LET b == InheritedNext(Length("parent")')
                      t == OfChildNext(b, Length("child")')
                  IN /\ ~b.refused /\ b.included = limit' - 1 /\ b.previous = ordinals'["parent"] - 1
                     /\ ~t.refused /\ t.previous = ordinals'["child"] - 1

LEMMA ChildIsNext ==
  ASSUME ChildNext
  PROVE  ChildInv'
<1>1. limit' # Unbound
  BY RolloutAssumption DEF ChildNext
<1>2. \A n : /\ InheritedNext(n) = Inherited(n)'
             /\ Complete(Inherited(n))' <=> ~InheritedNext(n).refused /\ InheritedNext(n).included = limit' - 1
  BY ReadersNext DEF InheritedNext, Complete, Inherited
<1>3. \A n, m : Known(OfChild(Inherited(n), m), "child")' <=> KnownNext(OfChildNext(InheritedNext(n), m), "child")
  BY DEF Known, KnownNext, InheritedNext, OfChildNext, OfChild, Inherited
<1>4. (\A n \in 0 .. Length("parent") :
         Complete(Inherited(n)) => \A m \in 0 .. Length("child") : Known(OfChild(Inherited(n), m), "child"))'
  BY <1>2, <1>3 DEF ChildNext
<1>5. lost' = 0 =>
        /\ Complete(Inherited(Length("parent")))'
        /\ UpToDate(Inherited(Length("parent")), "parent")'
        /\ UpToDate(OfChild(Inherited(Length("parent")), Length("child")), "child")'
  BY UpToDateNext DEF ChildNext, InheritedNext, OfChildNext
<1> QED
  BY <1>1, <1>4, <1>5 DEF ChildInv, ChildNext

\* A reader of the parent's file that goes only so far.
LEMMA InheritedReads ==
  ASSUME Shapes, limit \in Nat
  PROVE  /\ Reading(Started(Unread)) /\ lines["parent"] \in Seq(Record) /\ limit \in Bounds /\ Unbound \in Bounds
         /\ Length("parent") \in Nat
         /\ \A n \in 0 .. Length("parent") : Reading(Inherited(n)) /\ Reading(OfParent(n))
<1>1. /\ Reading(Started(Unread)) /\ lines["parent"] \in Seq(Record) /\ limit \in Bounds /\ Unbound \in Bounds
      /\ Length("parent") \in Nat
  BY StartReads, FilesAre DEF Shapes, Bounds, Length
<1> QED
  BY <1>1, ReadToGoes DEF Inherited, OfParent, Length

LEMMA ChildReads ==
  ASSUME Shapes, limit \in Nat, NEW b, Reading(b)
  PROVE  /\ Reading(Started(b)) /\ lines["child"] \in Seq(Record) /\ limit \in Bounds /\ Unbound \in Bounds
         /\ Length("child") \in Nat
         /\ \A m \in 0 .. Length("child") : Reading(OfChild(b, m))
         /\ \A m \in 1 .. Length("child") : OfChild(b, m).previous >= 0 \/ OfChild(b, m).refused
<1>1. /\ Reading(Started(b)) /\ lines["child"] \in Seq(Record) /\ limit \in Bounds /\ Unbound \in Bounds
      /\ Length("child") \in Nat
  BY StartReads, FilesAre DEF Shapes, Bounds, Length
<1>2. \A m \in 0 .. Length("child") : Reading(OfChild(b, m))
  BY <1>1, ReadToGoes DEF OfChild, Length
<1>3. \A m \in 1 .. Length("child") : OfChild(b, m).previous >= 0 \/ OfChild(b, m).refused
  BY <1>1, HasRead DEF OfChild, Length
<1> QED
  BY <1>1, <1>2, <1>3

\* The parent goes on after the fork: the child inherits as before.
LEMMA ParentWritesChild ==
  ASSUME Shapes, ParentInv, ChildInv, NEW r, Does("parent", r)
  PROVE  ChildInv'
<1> DEFINE rs == lines["parent"]
           N == Len(rs)
           start == Started(Unread)
           o == ordinals["parent"]
<1>1. /\ limit' = limit /\ lost' = lost /\ lines'["child"] = lines["child"] /\ ordinals'["child"] = ordinals["child"]
      /\ open'["child"] = open["child"] /\ items'["child"] = items["child"] /\ really'["child"] = really["child"]
      /\ rs \in Seq(Record) /\ lines'["parent"] = Append(rs, r) /\ ordinals'["parent"] = o + 1
      /\ r \in Record /\ r.ordinal = o /\ r.type # "meta" /\ o \in Nat \ {0} /\ N \in Nat \ {0}
      /\ Length("parent")' = N + 1 /\ Length("child")' = Length("child")
  <2>1. Unbound \in Bounds /\ "parent" \in Files /\ "child" \in Files \ {"parent"} /\ Lived("parent")
        /\ Written("parent", Unbound)
    BY FilesAre DEF Bounds, ParentInv
  <2>2. /\ rs \in Seq(Record) /\ lines'["parent"] = Append(rs, r) /\ ordinals'["parent"] = o + 1
        /\ Length("parent")' = N + 1 /\ N \in Nat \ {0}
    BY <2>1, WrittenMore DEF Length
  <2>3. lines \in [Files -> Seq(Record)] /\ ordinals \in [Files -> Nat]
    BY DEF Shapes
  <2>4. lines'["child"] = lines["child"] /\ ordinals'["child"] = ordinals["child"]
    BY <2>1, <2>3 DEF Does
  <2>5. o \in Nat \ {0}
    BY <2>1, ShapesAt
  <2> QED
    BY <2>1, <2>2, <2>4, <2>5 DEF Does, Length
<1>2. CASE limit = Unbound
  BY <1>1, <1>2 DEF ChildInv
<1>3. CASE limit # Unbound
  <2>1. limit \in 1 .. o /\ limit \in Nat
    BY <1>1, <1>3 DEF ChildInv
  <2>2. /\ Reading(start) /\ limit \in Bounds /\ Unbound \in Bounds
        /\ \A n \in 0 .. N : Reading(Inherited(n))
    BY <2>1, InheritedReads DEF Length
  <2> HIDE DEF rs, start
  <2>3. /\ \A n \in 0 .. N : ReadTo(n, start, Append(rs, r), limit, Unbound) = ReadTo(n, start, rs, limit, Unbound)
        /\ ReadTo(N + 1, start, Append(rs, r), limit, Unbound)
             = Read(ReadTo(N, start, rs, limit, Unbound), r, limit, Unbound)
    BY <1>1, <2>2, WrittenReads
  <2>4. /\ \A n \in 0 .. N : InheritedNext(n) = Inherited(n)
        /\ InheritedNext(N + 1) = Read(Inherited(N), r, limit, Unbound)
        /\ \A b, m : OfChildNext(b, m) = OfChild(b, m)
    BY <1>1, <2>3 DEF InheritedNext, Inherited, OfChildNext, OfChild, start, rs
  <2> DEFINE s == Inherited(N)
             t == InheritedNext(N + 1)
  <2>5. /\ Reading(s) /\ s.previous \in Int /\ s.refused \in BOOLEAN /\ Counted(r, Unbound) = o
        /\ s.refused => t = s
        /\ ~s.refused /\ ~Follows(s, r, Unbound) => t = Rejected(s)
        /\ Follows(s, r, Unbound) => t = Counting(s, r, Unbound)
    <3>1. Reading(s) /\ N \in 0 .. N
      BY <1>1, <2>2
    <3>2. Counted(r, Unbound) = o /\ r.ordinal >= limit
      BY <1>1, <2>1 DEF Counted
    <3>3. s.previous \in Int /\ s.refused \in BOOLEAN
      BY <3>1 DEF Reading
    <3> HIDE DEF s
    <3>4. /\ s.refused => Read(s, r, limit, Unbound) = s
          /\ ~s.refused /\ ~Follows(s, r, Unbound) => Read(s, r, limit, Unbound) = Rejected(s)
          /\ Follows(s, r, Unbound) => Read(s, r, limit, Unbound) = Counting(s, r, Unbound)
      BY <1>1, <1>3, <2>2, <3>1, <3>2, ReadIs DEF Bounds
    <3>5. t = Read(s, r, limit, Unbound)
      BY <2>4 DEF s
    <3> QED
      BY <3>1, <3>2, <3>3, <3>4, <3>5
  <2> HIDE DEF s, t
  <2>6. Follows(s, r, Unbound) => /\ ~t.refused /\ t.previous = o /\ t.included = s.included
                                  /\ Started(t) = Started(s) /\ ~s.refused
    <3> HAVE Follows(s, r, Unbound)
    <3>1. t = [s EXCEPT !.previous = o]
      BY <2>5 DEF Counting
    <3>2. Reading(t) /\ t.previous = o /\ t.included = s.included /\ SameButCount(t, s)
      BY <1>1, <2>5, <3>1, PreviousSet
    <3>3. Started(t) = Started(s)
      BY <2>5, <3>1 DEF Started, Reading
    <3> QED
      BY <3>2, <3>3 DEF SameButCount, Follows
  <2>7. ~t.refused => Follows(s, r, Unbound)
    BY <2>5, RejectedIs
  <2>8. ~t.refused => \A m : OfChildNext(t, m) = OfChild(s, m)
    BY <1>1, <2>6, <2>7 DEF OfChildNext, OfChild
  <2>9. \A x : KnownNext(x, "child") <=> Known(x, "child")
    BY <1>1 DEF Known, KnownNext
  <2>10. ASSUME NEW n \in 0 .. N + 1, ~InheritedNext(n).refused, InheritedNext(n).included = limit - 1,
                NEW m \in 0 .. Length("child")
         PROVE  KnownNext(OfChildNext(InheritedNext(n), m), "child")
    <3>1. CASE n = N + 1
      <4>1. InheritedNext(n) = t
        BY <3>1 DEF t
      <4>2. Complete(s)
        BY <2>6, <2>7, <2>10, <4>1 DEF Complete
      <4>3. Known(OfChild(s, m), "child")
        BY <1>1, <1>3, <2>10, <4>2 DEF s, rs, ChildInv, Length
      <4> QED
        BY <2>8, <2>9, <2>10, <4>1, <4>3
    <3>2. CASE n # N + 1
      <4>1. n \in 0 .. N
        BY <1>1, <3>2
      <4>2. Complete(Inherited(n))
        BY <2>4, <2>10, <4>1 DEF Complete
      <4>3. Known(OfChild(Inherited(n), m), "child")
        BY <1>3, <2>10, <4>1, <4>2 DEF rs, ChildInv, Length
      <4> QED
        BY <2>4, <2>9, <4>1, <4>3
    <3> QED
      BY <3>1, <3>2
  <2>11. lost' = 0 => LET b == InheritedNext(N + 1)
                          c == OfChildNext(b, Length("child"))
                      IN /\ ~b.refused /\ b.included = limit - 1 /\ b.previous = ordinals'["parent"] - 1
                         /\ ~c.refused /\ c.previous = ordinals'["child"] - 1
    <3> HAVE lost' = 0
    <3>1. Complete(s) /\ UpToDate(s, "parent") /\ UpToDate(OfChild(s, Length("child")), "child")
      BY <1>1, <1>3 DEF s, rs, ChildInv, Length
    <3>2. Follows(s, r, Unbound)
      BY <1>1, <2>5, <3>1 DEF Follows, UpToDate
    <3>3. ~t.refused /\ t.previous = o /\ t.included = limit - 1
      BY <2>6, <3>1, <3>2 DEF Complete
    <3>4. OfChildNext(t, Length("child")) = OfChild(s, Length("child"))
      BY <2>8, <3>3
    <3>5. o + 1 - 1 = o
      BY <1>1
    <3> QED
      BY <1>1, <3>1, <3>3, <3>4, <3>5 DEF t, UpToDate
  <2>12. /\ limit' \in 1 .. ordinals'["parent"] /\ limit' <= ordinals'["child"]
         /\ Lived("child")' /\ Written("child", limit)'
    <3>1. limit <= ordinals["child"] /\ Lived("child") /\ Written("child", limit)
      BY <1>3 DEF ChildInv
    <3>2. Lived("child")' /\ Written("child", limit)'
      BY <1>1, <3>1 DEF Lived, Written, Length
    <3> QED
      BY <1>1, <2>1, <3>1, <3>2
  <2>13. ChildNext
    BY <1>1, <2>10, <2>11, <2>12 DEF ChildNext
  <2> QED
    BY <2>13, ChildIsNext
<1> QED
  BY <1>2, <1>3

\* What the child does leaves the parent as it is.
LEMMA ParentStays ==
  ASSUME ParentInv, lines'["parent"] = lines["parent"], ordinals'["parent"] = ordinals["parent"],
         open'["parent"] = open["parent"], items'["parent"] = items["parent"],
         really'["parent"] = really["parent"], lost' = lost
  PROVE  ParentInv'
<1>1. \A n : OfParent(n)' = OfParent(n)
  BY ReadersNext DEF OfParent
<1>2. Length("parent")' = Length("parent")
  BY DEF Length
<1>3. Lived("parent")' /\ Written("parent", Unbound)'
  BY DEF ParentInv, Lived, Written, Length
<1>4. \A n : Known(OfParent(n), "parent")' <=> Known(OfParent(n), "parent")
  BY <1>1 DEF Known
<1>5. UpToDate(OfParent(Length("parent")), "parent")' <=> UpToDate(OfParent(Length("parent")), "parent")
  <2>1. ReadTo(Length("parent")', Started(Unread), lines'["parent"], Unbound, Unbound) = OfParent(Length("parent"))
    BY <1>2 DEF OfParent
  <2> QED
    BY <2>1, UpToDateNext DEF UpToDate
<1>6. (\A n \in 0 .. Length("parent") : Known(OfParent(n), "parent"))'
  BY <1>2, <1>4 DEF ParentInv
<1> QED
  BY <1>3, <1>5, <1>6 DEF ParentInv

LEMMA ChildWrites ==
  ASSUME Shapes, ParentInv, ChildInv, NEW r, Does("child", r), limit # Unbound
  PROVE  ParentInv' /\ ChildInv'
<1> DEFINE f == "child"
           rs == lines[f]
           N == Len(rs)
           P == Length("parent")
           o == ordinals[f]
<1>1. /\ limit \in Nat /\ limit \in 1 .. ordinals["parent"] /\ limit <= o /\ limit \in Bounds /\ Unbound \in Bounds
      /\ f \in Files /\ Lived(f) /\ Written(f, limit)
  BY FilesAre DEF Bounds, ChildInv
<1>2. /\ limit' = limit /\ lost' = lost /\ lines'["parent"] = lines["parent"]
      /\ ordinals'["parent"] = ordinals["parent"] /\ P' = P
      /\ open'["parent"] = open["parent"] /\ items'["parent"] = items["parent"]
      /\ really'["parent"] = really["parent"]
  <2>1. lines \in [Files -> Seq(Record)] /\ ordinals \in [Files -> Nat] /\ "parent" \in Files \ {f}
    BY FilesAre DEF Shapes
  <2>2. lines'["parent"] = lines["parent"] /\ ordinals'["parent"] = ordinals["parent"]
    BY <1>1, <2>1 DEF Does
  <2> QED
    BY <2>1, <2>2 DEF Does, Length
<1>3. ParentInv'
  BY <1>2, ParentStays
<1>4. /\ rs \in Seq(Record) /\ lines'[f] = Append(rs, r) /\ ordinals'[f] = o + 1
      /\ Length(f)' = N + 1 /\ N \in Nat \ {0} /\ Written(f, limit)' /\ r \in Record /\ o \in Nat \ {0}
  <2>2. /\ rs \in Seq(Record) /\ lines'[f] = Append(rs, r) /\ ordinals'[f] = o + 1
        /\ Length(f)' = Length(f) + 1 /\ Length(f) \in Nat \ {0}
        /\ Length(f)' \in 1 .. ordinals'[f]
        /\ Rising(lines'[f], limit)
        /\ \A n \in 1 .. Length(f)' : Counted(lines'[f][n], limit) < ordinals'[f]
    BY <1>1, WrittenMore
  <2>3. Written(f, limit)'
    BY <1>2, <2>2 DEF Written, Counted, Rising
  <2>4. r \in Record /\ ordinals[f] \in Nat \ {0}
    BY <1>1, ShapesAt DEF Does
  <2> QED
    BY <2>2, <2>3, <2>4 DEF Length
<1> HIDE DEF rs
<1>5. \A n : InheritedNext(n) = Inherited(n)
  BY <1>2 DEF InheritedNext, Inherited
<1>6. ASSUME NEW b, Reading(b)
      PROVE  /\ \A m \in 0 .. N : OfChildNext(b, m) = OfChild(b, m)
             /\ OfChildNext(b, N + 1) = Read(OfChild(b, N), r, Unbound, limit)
  <2>1. Reading(Started(b))
    BY <1>1, <1>6, ChildReads
  <2>2. /\ \A m \in 0 .. N : ReadTo(m, Started(b), Append(rs, r), Unbound, limit) = ReadTo(m, Started(b), rs, Unbound, limit)
        /\ ReadTo(N + 1, Started(b), Append(rs, r), Unbound, limit)
             = Read(ReadTo(N, Started(b), rs, Unbound, limit), r, Unbound, limit)
    BY <1>1, <1>4, <2>1, WrittenReads
  <2> QED
    BY <1>2, <1>4, <2>2 DEF OfChildNext, OfChild, rs
<1>7. \A n \in 0 .. P : Reading(Inherited(n))
  BY <1>1, InheritedReads
<1>8. ASSUME NEW n \in 0 .. P, Complete(Inherited(n))
      PROVE  /\ \A m \in 0 .. N + 1 : KnownNext(OfChildNext(Inherited(n), m), f)
             /\ UpToDate(OfChild(Inherited(n), N), f) =>
                  ~OfChildNext(Inherited(n), N + 1).refused /\ OfChildNext(Inherited(n), N + 1).previous = o
  <2> DEFINE b == Inherited(n)
             s == OfChild(b, N)
             t == OfChildNext(b, N + 1)
  <2>1. Reading(b) /\ \A m \in 0 .. N : Known(OfChild(b, m), f)
    BY <1>1, <1>7, <1>8, RolloutAssumption DEF ChildInv, Length, rs
  <2> HIDE DEF b
  <2>2. /\ \A m \in 0 .. N : Reading(OfChild(b, m))
        /\ s.previous >= 0 \/ s.refused
    <3>1. /\ \A m \in 0 .. Length(f) : Reading(OfChild(b, m))
          /\ \A m \in 1 .. Length(f) : OfChild(b, m).previous >= 0 \/ OfChild(b, m).refused
      BY <1>1, <2>1, ChildReads
    <3>2. Length(f) = N /\ N \in 1 .. N
      BY <1>4 DEF Length, rs
    <3> QED
      BY <3>1, <3>2
  <2>3. t = Read(s, r, Unbound, limit) /\ \A m \in 0 .. N : OfChildNext(b, m) = OfChild(b, m)
    BY <1>6, <2>1
  <2>4. N \in 0 .. N /\ Shapes /\ Does(f, r)
    BY <1>4
  <2> HIDE DEF s, t
  <2>5. ASSUME NEW m \in 0 .. N PROVE KnownNext(OfChildNext(b, m), f)
    <3>1. KnownNext(OfChild(b, m), f)
      BY <1>1, <2>1, <2>2, <2>4, DoneIsKnown
    <3> QED
      BY <2>3, <3>1
  <2>6. KnownNext(t, f) /\ (UpToDate(s, f) => ~t.refused /\ t.previous = o)
    <3>1. Reading(s) /\ Known(s, f)
      BY <2>1, <2>2, <2>4 DEF s
    <3>2. /\ KnownNext(Read(s, r, Unbound, limit), f)
          /\ UpToDate(s, f) => /\ ~Read(s, r, Unbound, limit).refused
                               /\ Read(s, r, Unbound, limit).previous = o
      BY <1>1, <2>2, <2>4, <3>1, DoneIsKnown
    <3> QED
      BY <2>3, <3>2
  <2>7. ASSUME NEW m \in 0 .. N + 1 PROVE KnownNext(OfChildNext(b, m), f)
    <3>1. CASE m = N + 1
      BY <2>6, <3>1 DEF t
    <3>2. CASE m # N + 1
      <4>1. m \in 0 .. N
        BY <1>4, <3>2
      <4> QED
        BY <2>5, <4>1
    <3> QED
      BY <3>1, <3>2
  <2> QED
    BY <2>6, <2>7 DEF b, s, t
<1>9. \A n \in 0 .. P' : ~InheritedNext(n).refused /\ InheritedNext(n).included = limit' - 1 =>
         \A m \in 0 .. Length(f)' : KnownNext(OfChildNext(InheritedNext(n), m), f)
  BY <1>2, <1>4, <1>5, <1>8 DEF Complete
<1>10. lost' = 0 => LET b == InheritedNext(P')
                        t == OfChildNext(b, Length(f)')
                    IN /\ ~b.refused /\ b.included = limit' - 1 /\ b.previous = ordinals'["parent"] - 1
                       /\ ~t.refused /\ t.previous = ordinals'[f] - 1
  <2> HAVE lost' = 0
  <2>1. /\ Complete(Inherited(P)) /\ UpToDate(Inherited(P), "parent") /\ UpToDate(OfChild(Inherited(P), N), f)
        /\ P \in 0 .. P
    BY <1>1, <1>2, InheritedReads, RolloutAssumption DEF ChildInv, Length, rs
  <2>2. ~OfChildNext(Inherited(P), N + 1).refused /\ OfChildNext(Inherited(P), N + 1).previous = o
    BY <1>8, <2>1
  <2>3. o + 1 - 1 = o
    BY <1>4
  <2> QED
    BY <1>2, <1>4, <1>5, <2>1, <2>2, <2>3 DEF Complete, UpToDate
<1>11. ChildNext
  <2>1. limit' \in 1 .. ordinals'["parent"] /\ limit' <= ordinals'[f]
    BY <1>1, <1>2, <1>4
  <2>2. Lived(f)'
    BY DEF Does
  <2> QED
    BY <1>4, <1>9, <1>10, <2>1, <2>2 DEF ChildNext
<1> QED
  BY <1>3, <1>11, ChildIsNext

Header == [ordinal |-> 0, type |-> "meta", id |-> 0]

LEMMA HeaderIs ==
  /\ Header \in Record /\ Header.ordinal = 0 /\ Header.type = "meta"
  /\ <<Header>> \in Seq(Record) /\ Len(<<Header>>) = 1 /\ <<Header>>[1] = Header
<1>1. Header \in Record /\ Header.ordinal = 0 /\ Header.type = "meta"
  BY DEF Header, Record, RecordTypes
<1> QED
  BY <1>1

\* What is read up to the fork is what is read of the whole file, and who has
\* all the child inherits has all its parent did.
LEMMA ForkReads ==
  ASSUME Shapes, ParentInv, NEW n \in 0 .. Length("parent")
  PROVE  LET b == ReadTo(n, Started(Unread), lines["parent"], ordinals["parent"], Unbound)
         IN /\ b = OfParent(n) /\ Reading(b)
            /\ ~b.refused /\ b.included = ordinals["parent"] - 1 => b.previous = ordinals["parent"] - 1
            /\ UpToDate(b, "parent") /\ n > 0 => b.included = ordinals["parent"] - 1
<1> DEFINE rs == lines["parent"]
           L == ordinals["parent"]
           start == Started(Unread)
           b == ReadTo(n, start, rs, Unbound, Unbound)
<1>1. /\ rs \in Seq(Record) /\ L \in Nat \ {0} /\ Reading(start) /\ Unbound \in Bounds /\ Len(rs) \in Nat
      /\ start.included = -1 /\ n \in 0 .. Len(rs) /\ n \in Nat
      /\ \A i \in 1 .. Len(rs) : Counted(rs[i], Unbound) < L
  <2>1. "parent" \in Files /\ Lived("parent") /\ Written("parent", Unbound)
    BY FilesAre DEF ParentInv
  <2>2. rs \in Seq(Record) /\ L \in Nat \ {0}
    BY <2>1, ShapesAt
  <2> QED
    BY <2>1, <2>2, StartReads DEF Written, Bounds, Length
<1> HIDE DEF rs, L, start
<1>2. \A i \in 1 .. n : rs[i].ordinal = Counted(rs[i], Unbound) /\ rs[i].ordinal < L /\ rs[i].ordinal \in Nat
  <2> SUFFICES ASSUME NEW i \in 1 .. n
               PROVE  rs[i].ordinal = Counted(rs[i], Unbound) /\ rs[i].ordinal < L /\ rs[i].ordinal \in Nat
    OBVIOUS
  <2>1. i \in 1 .. Len(rs)
    BY <1>1
  <2>2. rs[i] \in Record
    BY <1>1, <2>1
  <2>3. rs[i].ordinal = Counted(rs[i], Unbound) /\ rs[i].ordinal \in Nat
    BY <2>2 DEF Counted, Record
  <2> QED
    BY <1>1, <2>1, <2>3
<1>3. \A i \in 1 .. n : \A s : Read(s, rs[i], L, Unbound) = Read(s, rs[i], Unbound, Unbound)
  <2> SUFFICES ASSUME NEW i \in 1 .. n, NEW s
               PROVE  Read(s, rs[i], L, Unbound) = Read(s, rs[i], Unbound, Unbound)
    OBVIOUS
  <2> DEFINE r == rs[i]
  <2>1. ~(r.ordinal >= L)
    BY <1>1, <1>2
  <2> HIDE DEF r
  <2>2. Read(s, r, L, Unbound) = Read(s, r, Unbound, Unbound)
    BY <2>1 DEF Read
  <2> QED
    BY <2>2 DEF r
<1>4. ReadTo(n, start, rs, L, Unbound) = b
  BY <1>1, <1>3, ReadSame
<1>5. Reading(b)
  BY <1>1, ReadToGoes
<1>6. CASE n = 0
  <2>1. b = start
    BY <1>6, ReadNone
  <2>2. b.included # L - 1
    BY <1>1, <2>1
  <2> QED
    BY <1>4, <1>5, <1>6, <2>2 DEF OfParent, rs, L, start
<1>7. CASE n # 0
  <2>1. n \in 1 .. Len(rs) /\ n \in 1 .. n
    BY <1>1, <1>7
  <2>2. ~b.refused => b.previous = Counted(rs[n], Unbound) /\ b.included = rs[n].ordinal
    BY <1>1, <2>1, ReadToStep
  <2>3. rs[n].ordinal = Counted(rs[n], Unbound)
    BY <1>2, <2>1
  <2> HIDE DEF b
  <2>4. ~b.refused => b.previous = b.included
    BY <2>2, <2>3
  <2>5. /\ ~b.refused /\ b.included = L - 1 => b.previous = L - 1
        /\ UpToDate(b, "parent") /\ n > 0 => b.included = L - 1
    BY <2>4 DEF UpToDate, L
  <2> QED
    BY <1>4, <1>5, <2>5 DEF b, OfParent, rs, L, start
<1> QED
  BY <1>6, <1>7

\* What the metadata at the head of a file leaves of what its reader knows.
LEMMA HeaderReads ==
  ASSUME NEW b, Reading(b), ~b.refused, NEW L \in Bounds \ {0}
  PROVE  LET t == Read(Started(b), Header, Unbound, L)
         IN Reading(t) /\ t.previous = (IF L = Unbound THEN 0 ELSE L - 1) /\ SameButCount(t, b)
<1> DEFINE s == Started(b)
           o == Counted(Header, L)
           c == [s EXCEPT !.previous = o]
           k == [c EXCEPT !.included = 0]
<1>1. Reading(s) /\ s.previous = -1 /\ SameButCount(s, b) /\ ~s.refused
  BY StartReads DEF SameButCount
<1>2. o = (IF L = Unbound THEN 0 ELSE L - 1) /\ o \in Nat /\ o \in Int
  BY HeaderIs, RolloutAssumption DEF Counted, Bounds
<1> HIDE DEF s, o
<1>3. Follows(s, Header, L)
  BY <1>1, <1>2 DEF Follows, o
<1>4. c = Counting(s, Header, L)
  BY DEF Counting, o
<1>5. Reading(c) /\ c.previous = o /\ SameButCount(c, s)
  BY <1>1, <1>2, PreviousSet
<1>6. Read(s, Header, Unbound, L) = Taken(k, Header)
  <2>1. Unbound \in {Unbound} \cup Nat /\ L \in {Unbound} \cup Nat
    BY DEF Bounds
  <2>2. Follows(s, Header, L) /\ ~(Unbound # Unbound /\ Header.ordinal >= Unbound) =>
          Read(s, Header, Unbound, L)
            = Taken([Counting(s, Header, L) EXCEPT !.included = Header.ordinal], Header)
    BY <1>1, <2>1, HeaderIs, ReadIs
  <2>3. k = [Counting(s, Header, L) EXCEPT !.included = Header.ordinal]
    BY <1>4, HeaderIs
  <2> HIDE DEF k
  <2> QED
    BY <1>3, <2>2, <2>3
<1> HIDE DEF c
<1>7. Reading(k) /\ k.previous = o /\ SameButCount(k, c)
  BY <1>5, IncludedSet
<1> HIDE DEF k
<1>8. Taken(k, Header) = k
  BY HeaderIs DEF Taken
<1> QED
  BY <1>1, <1>2, <1>5, <1>6, <1>7, <1>8 DEF SameButCount, s

LEMMA ForkKeeps ==
  ASSUME Shapes, ParentInv, Fork
  PROVE  Shapes' /\ ParentInv' /\ ChildInv'
<1> DEFINE L == ordinals["parent"]
           P == Length("parent")
           f == "child"
<1>1. /\ limit' = L /\ lost' = lost /\ lines'[f] = <<Header>> /\ lines'["parent"] = lines["parent"]
      /\ ordinals'[f] = L /\ ordinals'["parent"] = L
      /\ items'[f] = items["parent"] /\ items'["parent"] = items["parent"]
      /\ open'[f] = open["parent"] /\ open'["parent"] = open["parent"]
      /\ really'[f] = really["parent"] /\ really'["parent"] = really["parent"]
      /\ P' = P /\ Length(f)' = 1 /\ Shapes'
  <2>1. /\ "parent" \in Files /\ f \in Files /\ f # "parent"
        /\ lines \in [Files -> Seq(Record)] /\ ordinals \in [Files -> Nat]
        /\ open \in [Files -> SUBSET Nat] /\ items \in [Files -> Seq(HistoryItem)]
        /\ really = [g \in Files |-> really[g]] /\ lost \in Nat
    BY FilesAre DEF Shapes
  <2>2. /\ limit' = L /\ lost' = lost
        /\ lines' = [lines EXCEPT ![f] = <<Header>>] /\ ordinals' = [ordinals EXCEPT ![f] = L]
        /\ items' = [items EXCEPT ![f] = items["parent"]] /\ open' = [open EXCEPT ![f] = open["parent"]]
        /\ really' = [really EXCEPT ![f] = really["parent"]]
    BY DEF Fork, Header
  <2>3. /\ lines'[f] = <<Header>> /\ lines'["parent"] = lines["parent"]
        /\ ordinals'[f] = L /\ ordinals'["parent"] = L
        /\ items'[f] = items["parent"] /\ items'["parent"] = items["parent"]
        /\ open'[f] = open["parent"] /\ open'["parent"] = open["parent"]
    BY <2>1, <2>2
  <2>4. really'[f] = really["parent"] /\ really'["parent"] = really["parent"]
        /\ really' = [g \in Files |-> really'[g]]
    BY <2>1, <2>2
  <2>5. P' = P /\ Length(f)' = 1
    BY <2>3, HeaderIs DEF Length
  <2>6. /\ lines' \in [Files -> Seq(Record)] /\ ordinals' \in [Files -> Nat]
        /\ open' \in [Files -> SUBSET Nat] /\ items' \in [Files -> Seq(HistoryItem)]
        /\ limit' \in Bounds /\ lost' \in Nat
    BY <2>1, <2>2, HeaderIs DEF Bounds
  <2> QED
    BY <2>2, <2>3, <2>4, <2>5, <2>6 DEF Shapes
<1>2. ParentInv'
  BY <1>1, ParentStays
<1>3. L \in Nat \ {0} /\ P \in Nat \ {0}
  <2>1. "parent" \in Files /\ Lived("parent") /\ Written("parent", Unbound)
    BY FilesAre DEF ParentInv
  <2>2. L \in Nat \ {0}
    BY <2>1, ShapesAt
  <2>3. P \in 1 .. L
    BY <2>1 DEF Written
  <2> QED
    BY <2>2, <2>3
<1>4. \A n \in 0 .. P :
        LET b == InheritedNext(n)
        IN /\ b = OfParent(n) /\ Reading(b)
           /\ ~b.refused /\ b.included = L - 1 => b.previous = L - 1
           /\ UpToDate(b, "parent") /\ n > 0 => b.included = L - 1
  BY <1>1, ForkReads DEF InheritedNext
<1>5. ASSUME NEW b, Reading(b), ~b.refused
      PROVE  /\ OfChildNext(b, 0) = Started(b)
             /\ Reading(OfChildNext(b, 1)) /\ OfChildNext(b, 1).previous = L - 1
             /\ SameButCount(OfChildNext(b, 1), b)
  <2>1. OfChildNext(b, 0) = Started(b)
    BY ReadNone DEF OfChildNext
  <2>2. Started(b) = ReadTo(0, Started(b), <<Header>>, Unbound, L)
    BY ReadNone
  <2>3. ReadTo(1, Started(b), <<Header>>, Unbound, L) = Read(Started(b), Header, Unbound, L)
    <3>1. ReadTo(1, Started(b), <<Header>>, Unbound, L)
            = Read(ReadTo(1 - 1, Started(b), <<Header>>, Unbound, L), <<Header>>[1], Unbound, L)
      <4>1. 1 \in Nat \ {0}
        OBVIOUS
      <4> QED
        BY <4>1, ReadNext
    <3>2. 1 - 1 = 0
      OBVIOUS
    <3> QED
      BY <2>2, <3>1, <3>2, HeaderIs
  <2>4. OfChildNext(b, 1) = Read(Started(b), Header, Unbound, L)
    BY <1>1, <2>3 DEF OfChildNext
  <2>5. L \in Bounds \ {0} /\ L # Unbound
    BY <1>3, RolloutAssumption DEF Bounds
  <2> QED
    BY <1>5, <2>1, <2>4, <2>5, HeaderReads
<1>6. ASSUME NEW n \in 0 .. P, ~InheritedNext(n).refused, InheritedNext(n).included = L - 1,
             NEW m \in 0 .. 1
      PROVE  KnownNext(OfChildNext(InheritedNext(n), m), f)
  <2> DEFINE b == InheritedNext(n)
  <2>1. /\ Reading(b) /\ ~b.refused /\ b.previous = L - 1 /\ b = OfParent(n)
    BY <1>4, <1>6
  <2>2. Known(b, "parent")
    BY <2>1 DEF ParentInv
  <2> HIDE DEF b
  <2>3. /\ \A c \in DOMAIN b.checkpoints : c \in DOMAIN really["parent"] /\ b.checkpoints[c] = really["parent"][c]
        /\ KnowsAll(b, items["parent"], open["parent"], really["parent"], L)
    BY <2>1, <2>2 DEF Known, KnownAs
  <2>4. CASE m = 0
    <3>1. /\ OfChildNext(b, 0).previous = -1 /\ OfChildNext(b, 0).checkpoints = b.checkpoints
      BY <1>5, <2>1, StartReads
    <3>2. -1 < L /\ -1 # L - 1
      BY <1>3
    <3>3. KnownNext(OfChildNext(b, 0), f)
      BY <1>1, <2>3, <3>1, <3>2 DEF KnownNext, KnownAs
    <3> QED
      BY <2>4, <3>3 DEF b
  <2>5. CASE m = 1
    <3>1. OfChildNext(b, 1).previous = L - 1 /\ SameButCount(OfChildNext(b, 1), b) /\ L - 1 < L
      BY <1>3, <1>5, <2>1
    <3>2. KnownNext(OfChildNext(b, 1), f)
      BY <1>1, <2>3, <3>1 DEF KnownNext, KnownAs, KnowsAll, SameButCount
    <3> QED
      BY <2>5, <3>2 DEF b
  <2> QED
    BY <2>4, <2>5
<1>7. lost' = 0 => LET b == InheritedNext(P)
                       t == OfChildNext(b, 1)
                   IN /\ ~b.refused /\ b.included = L - 1 /\ b.previous = L - 1
                      /\ ~t.refused /\ t.previous = L - 1
  <2> HAVE lost' = 0
  <2> DEFINE b == InheritedNext(P)
  <2>1. P \in 0 .. P /\ P > 0
    BY <1>3
  <2>2. b = OfParent(P) /\ Reading(b) /\ (UpToDate(b, "parent") => b.included = L - 1)
    BY <1>4, <2>1
  <2> HIDE DEF b
  <2>3. UpToDate(b, "parent")
    BY <1>1, <2>2 DEF ParentInv
  <2>4. ~b.refused /\ b.previous = L - 1 /\ b.included = L - 1
    BY <2>2, <2>3 DEF UpToDate
  <2>5. OfChildNext(b, 1).previous = L - 1 /\ SameButCount(OfChildNext(b, 1), b)
    BY <1>5, <2>2, <2>4
  <2> QED
    BY <2>4, <2>5 DEF b, SameButCount
<1>8. Lived(f)' /\ Written(f, limit)' /\ limit' \in 1 .. L
  <2>1. Lived(f)'
    <3>1. Lived("parent")
      BY DEF ParentInv
    <3> QED
      BY <1>1, <3>1 DEF Lived
  <2>2. Counted(Header, L) = L - 1
    BY <1>3, HeaderIs, RolloutAssumption DEF Counted
  <2>3. Rising(<<Header>>, L) /\ \A n \in 1 .. 1 : Counted(<<Header>>[n], L) < L
    BY <1>3, <2>2, HeaderIs DEF Rising
  <2>4. Rising(lines'[f], limit') /\ (\A n \in 1 .. Length(f)' : Counted(lines'[f][n], limit') < ordinals'[f])
        /\ Length(f)' \in 1 .. ordinals'[f] /\ limit' \in 1 .. L
    BY <1>1, <1>3, <2>3
  <2> QED
    BY <2>1, <2>4 DEF Written, Rising, Counted
<1>9. ChildNext
  <2>1. limit' \in 1 .. ordinals'["parent"] /\ limit' <= ordinals'[f]
    BY <1>1, <1>3
  <2> QED
    BY <1>1, <1>6, <1>7, <1>8, <2>1 DEF ChildNext
<1> QED
  BY <1>1, <1>2, <1>9, ChildIsNext

\* A file without one of its lines, but for the first, is written as before.
LEMMA CutWritten ==
  ASSUME Shapes, NEW f \in Files, NEW boundary \in Bounds, Written(f, boundary), ordinals' = ordinals,
         NEW d \in DOMAIN lines[f] \ {1}, lines' = [lines EXCEPT ![f] = RemoveAt(@, d)]
  PROVE  /\ d \in 2 .. Len(lines[f]) /\ lines[f] \in Seq(Record) /\ lines'[f] = RemoveAt(lines[f], d)
         /\ lines' \in [Files -> Seq(Record)]
         /\ Length(f) \in Nat /\ Length(f)' = Length(f) - 1
         /\ Length(f)' \in 1 .. ordinals[f] /\ Rising(lines'[f], boundary)
         /\ \A n \in 1 .. Length(f)' : Counted(lines'[f][n], boundary) < ordinals[f]
<1> DEFINE rs == lines[f]
           rr == RemoveAt(rs, d)
           N == Len(rs)
<1>1. /\ lines \in [Files -> Seq(Record)] /\ rs \in Seq(Record) /\ ordinals[f] \in Nat
      /\ N \in 1 .. ordinals[f] /\ Rising(rs, boundary)
      /\ \A n \in 1 .. N : Counted(rs[n], boundary) < ordinals[f]
  BY DEF Shapes, Written, Length
<1>2. d \in 2 .. N /\ d \in 1 .. N
  BY <1>1
<1>3. /\ rr \in Seq(Record) /\ Len(rr) = N - 1
      /\ \A n \in 1 .. N - 1 : rr[n] = IF n < d THEN rs[n] ELSE rs[n + 1]
  BY <1>1, <1>2, CutIs
<1>4. Rising(rr, boundary)
  BY <1>1, <1>2, CutRises
<1> HIDE DEF rr
<1>5. \A n \in 1 .. N - 1 : Counted(rr[n], boundary) < ordinals[f]
  <2> SUFFICES ASSUME NEW n \in 1 .. N - 1 PROVE Counted(rr[n], boundary) < ordinals[f]
    OBVIOUS
  <2> DEFINE i == IF n < d THEN n ELSE n + 1
  <2>1. i \in 1 .. N /\ rr[n] = rs[i]
    BY <1>1, <1>3
  <2> HIDE DEF i
  <2> QED
    BY <1>1, <2>1
<1>6. lines'[f] = rr /\ lines' \in [Files -> Seq(Record)]
  BY <1>1, <1>3 DEF rr
<1> QED
  BY <1>1, <1>2, <1>3, <1>4, <1>5, <1>6 DEF Length, rr

LEMMA DamageKeeps ==
  ASSUME RolloutInv, NEW f \in Files, NEW d \in DOMAIN lines[f], Damage(f, d)
  PROVE  RolloutInv'
<1> DEFINE P == Length("parent")
           M == Length("child")
<1>1. /\ Shapes /\ ParentInv /\ ChildInv /\ lost \in Nat /\ lost' = lost + 1 /\ lost < MaxLost
      /\ limit' = limit /\ ordinals' = ordinals /\ items' = items /\ open' = open /\ really' = really
      /\ lines' = [lines EXCEPT ![f] = RemoveAt(@, d)] /\ d \in DOMAIN lines[f] \ {1}
      /\ Unbound \in Bounds /\ limit \in Bounds /\ Reading(Started(Unread))
      /\ \A g \in Files : ordinals[g] + lost <= MaxRecords
      /\ lines \in [Files -> Seq(Record)] /\ ordinals \in [Files -> Nat]
  BY StartReads DEF RolloutInv, Damage, Shapes, Bounds
<1>2. lost' # 0 /\ lost' <= MaxLost /\ lost' \in Nat /\ \A g \in Files : ordinals'[g] + lost' <= MaxRecords + 1
  BY <1>1, RolloutAssumption
<1>3. Lived("parent")' /\ (Lived("child") => Lived("child")')
  BY <1>1 DEF ParentInv, Lived
<1>4. \A s, g : KnownNext(s, g) <=> Known(s, g)
  BY <1>1 DEF Known, KnownNext
<1>5. CASE f = "parent"
  <2>1. /\ d \in 2 .. Len(lines["parent"]) /\ lines["parent"] \in Seq(Record)
        /\ lines'["parent"] = RemoveAt(lines["parent"], d) /\ lines' \in [Files -> Seq(Record)]
        /\ P \in Nat /\ P' = P - 1
        /\ P' \in 1 .. ordinals["parent"] /\ Rising(lines'["parent"], Unbound)
        /\ \A n \in 1 .. P' : Counted(lines'["parent"][n], Unbound) < ordinals["parent"]
    <3>1. Written("parent", Unbound)
      BY <1>1 DEF ParentInv
    <3> QED
      BY <1>1, <1>5, <3>1, CutWritten
  <2>2. Shapes'
    BY <1>1, <1>2, <2>1 DEF Shapes
  <2>3. Written("parent", Unbound)'
    BY <1>1, <2>1 DEF Written
  <2>4. Rising(lines["parent"], Unbound)
    BY <1>1 DEF ParentInv, Written
  <2>5. ASSUME NEW n \in 0 .. P', NEW bound \in Bounds
        PROVE  LET t == ReadTo(n, Started(Unread), lines'["parent"], bound, Unbound)
               IN t.refused \/ t = ReadTo(n, Started(Unread), lines["parent"], bound, Unbound)
    <3>1. n \in 0 .. Len(lines["parent"]) - 1
      BY <2>1 DEF Length
    <3> QED
      BY <1>1, <2>1, <2>4, <3>1, CutReads
  <2>6. \A n \in 0 .. P' : n \in 0 .. P
    BY <2>1
  <2>7. ASSUME NEW n \in 0 .. P'
        PROVE  KnownNext(ReadTo(n, Started(Unread), lines'["parent"], Unbound, Unbound), "parent")
    <3> DEFINE t == ReadTo(n, Started(Unread), lines'["parent"], Unbound, Unbound)
    <3>1. t.refused \/ t = OfParent(n)
      BY <1>1, <2>5 DEF OfParent
    <3>2. Known(OfParent(n), "parent")
      BY <1>1, <2>6 DEF ParentInv
    <3> HIDE DEF t
    <3>3. KnownNext(t, "parent")
      BY <1>4, <3>1, <3>2 DEF KnownNext, KnownAs
    <3> QED
      BY <3>3 DEF t
  <2>8. ParentInv'
    <3>1. \A n \in 0 .. P' : Known(OfParent(n), "parent")'
      BY <2>7, ReadersNext DEF Known, KnownNext
    <3> QED
      BY <1>2, <1>3, <2>3, <3>1 DEF ParentInv
  <2>9. lines'["child"] = lines["child"] /\ M' = M
    BY <1>1, <1>5, FilesAre DEF Length
  <2>10. CASE limit = Unbound
    BY <1>1, <2>2, <2>8, <2>9, <2>10, <1>2 DEF ChildInv, RolloutInv
  <2>11. CASE limit # Unbound
    <3>1. /\ limit \in 1 .. ordinals["parent"] /\ limit <= ordinals["child"] /\ Lived("child")
          /\ Written("child", limit)
      BY <1>1, <2>11 DEF ChildInv
    <3>2. Written("child", limit)'
      BY <1>1, <2>9, <3>1 DEF Written, Length
    <3>3. ASSUME NEW n \in 0 .. P', ~InheritedNext(n).refused, InheritedNext(n).included = limit' - 1,
                 NEW m \in 0 .. M'
          PROVE  KnownNext(OfChildNext(InheritedNext(n), m), "child")
      <4>1. InheritedNext(n) = Inherited(n)
        BY <1>1, <2>5, <3>3 DEF InheritedNext, Inherited
      <4>2. Complete(Inherited(n))
        BY <1>1, <3>3, <4>1 DEF Complete
      <4>3. OfChildNext(Inherited(n), m) = OfChild(Inherited(n), m)
        BY <1>1, <2>9 DEF OfChildNext, OfChild
      <4>4. Known(OfChild(Inherited(n), m), "child")
        BY <1>1, <2>6, <2>9, <2>11, <3>3, <4>2 DEF ChildInv
      <4> QED
        BY <1>4, <4>1, <4>3, <4>4
    <3>4. ChildNext
      BY <1>1, <1>2, <1>3, <3>1, <3>2, <3>3 DEF ChildNext
    <3> QED
      BY <1>2, <2>2, <2>8, <3>4, ChildIsNext DEF RolloutInv
  <2> QED
    BY <2>10, <2>11
<1>6. CASE f = "child"
  <2>1. limit # Unbound
    BY <1>1, <1>6 DEF ChildInv
  <2>2. /\ limit \in 1 .. ordinals["parent"] /\ limit <= ordinals["child"] /\ Lived("child")
        /\ Written("child", limit)
    BY <1>1, <2>1 DEF ChildInv
  <2>3. /\ d \in 2 .. Len(lines["child"]) /\ lines["child"] \in Seq(Record)
        /\ lines'["child"] = RemoveAt(lines["child"], d) /\ lines' \in [Files -> Seq(Record)]
        /\ M \in Nat /\ M' = M - 1
        /\ M' \in 1 .. ordinals["child"] /\ Rising(lines'["child"], limit)
        /\ \A n \in 1 .. M' : Counted(lines'["child"][n], limit) < ordinals["child"]
    BY <1>1, <1>6, <2>2, CutWritten
  <2>4. Shapes'
    BY <1>1, <1>2, <2>3 DEF Shapes
  <2>5. lines'["parent"] = lines["parent"] /\ P' = P
    BY <1>1, <1>6, FilesAre DEF Length
  <2>6. ParentInv'
    <3>1. Written("parent", Unbound)'
      BY <1>1, <2>5 DEF ParentInv, Written, Length
    <3>2. \A n : OfParent(n)' = OfParent(n)
      BY <2>5, ReadersNext DEF OfParent
    <3>3. \A n \in 0 .. P' : Known(OfParent(n), "parent")'
      BY <1>1, <2>5, <3>2 DEF ParentInv, Known
    <3> QED
      BY <1>2, <1>3, <3>1, <3>3 DEF ParentInv
  <2>7. Written("child", limit)'
    <3>1. /\ Rising(lines'["child"], limit') /\ M' \in 1 .. ordinals'["child"]
          /\ \A n \in 1 .. M' : Counted(lines'["child"][n], limit') < ordinals'["child"]
      BY <1>1, <2>3
    <3> QED
      BY <3>1 DEF Written
  <2>8. ASSUME NEW n \in 0 .. P', ~InheritedNext(n).refused, InheritedNext(n).included = limit' - 1,
               NEW m \in 0 .. M'
        PROVE  KnownNext(OfChildNext(InheritedNext(n), m), "child")
    <3> DEFINE b == Inherited(n)
               t == OfChildNext(b, m)
    <3>1. InheritedNext(n) = b
      BY <1>1, <2>5 DEF InheritedNext, Inherited
    <3>2. Complete(b) /\ n \in 0 .. P
      BY <1>1, <2>5, <2>8, <3>1 DEF Complete
    <3>3. Reading(b) /\ Reading(Started(b))
      <4>1. limit \in Nat
        BY <1>1, <2>1 DEF Bounds
      <4>2. Reading(b)
        BY <1>1, <3>2, <4>1, InheritedReads
      <4> HIDE DEF b
      <4> QED
        BY <4>2, StartReads
    <3>4. Known(OfChild(b, m), "child")
      <4>1. m \in 0 .. M
        BY <2>3
      <4> QED
        BY <1>1, <2>1, <3>2, <4>1 DEF ChildInv
    <3> HIDE DEF b
    <3>5. t.refused \/ t = OfChild(b, m)
      <4>1. m \in 0 .. Len(lines["child"]) - 1 /\ Rising(lines["child"], limit)
        BY <2>2, <2>3 DEF Length, Written
      <4> QED
        BY <1>1, <2>3, <3>3, <4>1, CutReads DEF OfChildNext, OfChild
    <3> HIDE DEF t
    <3>6. KnownNext(t, "child")
      BY <1>4, <3>4, <3>5 DEF KnownNext, KnownAs
    <3> QED
      BY <3>1, <3>6 DEF t
  <2>9. ChildNext
    BY <1>1, <1>2, <1>3, <2>2, <2>7, <2>8 DEF ChildNext
  <2> QED
    BY <1>2, <2>4, <2>6, <2>9, ChildIsNext DEF RolloutInv
<1> QED
  BY <1>5, <1>6, FilesAre

LEMMA WritesKeep ==
  ASSUME RolloutInv, NEW f \in Files, Live(f), NEW r, Does(f, r)
  PROVE  RolloutInv'
<1>1. /\ Shapes /\ ParentInv /\ ChildInv /\ Shapes' /\ lost' = lost /\ lost <= MaxLost
      /\ ordinals' = [ordinals EXCEPT ![f] = @ + 1]
  BY DEF RolloutInv, Does
<1>2. \A g \in Files : ordinals'[g] + lost' <= MaxRecords + 1
  <2>1. ordinals \in [Files -> Nat] /\ lost \in Nat /\ ordinals[f] + lost <= MaxRecords
        /\ \A g \in Files : ordinals[g] + lost <= MaxRecords + 1
    BY DEF RolloutInv, Shapes, Live
  <2> QED
    BY <1>1, <2>1, RolloutAssumption
<1>3. ParentInv' /\ ChildInv'
  <2>1. CASE f = "parent"
    BY <1>1, <2>1, ParentWrites, ParentWritesChild
  <2>2. CASE f = "child"
    BY <1>1, <2>2, ChildWrites DEF Live
  <2> QED
    BY <2>1, <2>2, FilesAre
<1> QED
  BY <1>1, <1>2, <1>3 DEF RolloutInv

\* A task that is written on is one that lives.
LEMMA LiveLives ==
  ASSUME RolloutInv, NEW f \in Files, Live(f)
  PROVE  Lived(f)
BY FilesAre DEF RolloutInv, ParentInv, ChildInv, Live

LEMMA RolloutStarts ==
  ASSUME RolloutInit
  PROVE  RolloutInv
<1> DEFINE p == "parent"
           start == Started(Unread)
<1>1. /\ lines = [f \in Files |-> IF f = p THEN <<Header>> ELSE <<>>]
      /\ lines[p] = <<Header>> /\ lines["child"] = <<>> /\ ordinals[p] = 1 /\ ordinals["child"] = 1
      /\ open[p] = {} /\ items[p] = <<>> /\ really[p] = <<>> /\ really["child"] = <<>>
      /\ limit = Unbound /\ lost = 0 /\ p \in Files
  BY FilesAre DEF RolloutInit, Header
<1>2. Shapes
  <2>1. \A f \in Files : (IF f = p THEN <<Header>> ELSE <<>>) \in Seq(Record)
    BY HeaderIs
  <2>2. lines \in [Files -> Seq(Record)]
    BY <1>1, <2>1
  <2> QED
    BY <1>1, <2>2 DEF Shapes, RolloutInit, Bounds
<1>3. Lived(p)
  <2>1. Ordered(<<>>, {})
    BY DEF Ordered, Calls
  <2> QED
    BY <1>1, <2>1 DEF Lived
<1>4. Length(p) = 1 /\ Counted(Header, Unbound) = 0
  BY <1>1, HeaderIs DEF Length, Counted
<1>5. Written(p, Unbound)
  <2>1. Rising(<<Header>>, Unbound) /\ \A n \in 1 .. 1 : Counted(<<Header>>[n], Unbound) < 1
    BY <1>4, HeaderIs DEF Rising
  <2> QED
    BY <1>1, <1>4, <2>1 DEF Written
<1>6. /\ Reading(Unread) /\ ~Unread.refused /\ start.previous = -1 /\ Unread.checkpoints = <<>>
      /\ start.checkpoints = <<>> /\ Unread.original = <<>> /\ Unread.pending = {} /\ Unread.completed = {}
  <2>1. Unread.checkpoints = <<>> /\ Unread.original = <<>> /\ Unread.pending = {} /\ Unread.completed = {}
    BY DEF Unread
  <2> QED
    BY <2>1, StartReads
<1>7. OfParent(0) = start
  BY ReadNone DEF OfParent
<1> DEFINE t == Read(start, Header, Unbound, Unbound)
<1>8. OfParent(1) = t
  <2>1. ReadTo(1, start, <<Header>>, Unbound, Unbound)
          = Read(ReadTo(1 - 1, start, <<Header>>, Unbound, Unbound), <<Header>>[1], Unbound, Unbound)
    <3>1. 1 \in Nat \ {0}
      OBVIOUS
    <3> QED
      BY <3>1, ReadNext
  <2>2. 1 - 1 = 0 /\ ReadTo(0, start, <<Header>>, Unbound, Unbound) = start
    BY ReadNone
  <2>3. ReadTo(1, start, <<Header>>, Unbound, Unbound) = t
    BY <2>1, <2>2, HeaderIs
  <2> QED
    BY <1>1, <2>3 DEF OfParent
<1>9. t.previous = 0 /\ SameButCount(t, Unread)
  <2>1. Unbound \in Bounds \ {0}
    BY RolloutAssumption DEF Bounds
  <2> QED
    BY <1>6, <2>1, HeaderReads
<1> HIDE DEF t, start
<1>10. Known(OfParent(0), p)
  <2>1. start.previous = -1 /\ start.checkpoints = <<>> /\ DOMAIN <<>> = {}
    BY <1>6
  <2> QED
    BY <1>1, <1>7, <2>1 DEF Known, KnownAs
<1>11. Known(OfParent(1), p)
  <2>1. t.previous = 0 /\ t.checkpoints = <<>> /\ t.original = <<>> /\ t.pending = {} /\ t.completed = {}
        /\ DOMAIN <<>> = {}
    BY <1>6, <1>9 DEF SameButCount
  <2> QED
    BY <1>1, <1>8, <2>1 DEF Known, KnownAs, KnowsAll
<1>12. ParentInv
  <2>1. \A n \in 0 .. Length(p) : n = 0 \/ n = 1
    BY <1>4
  <2>2. UpToDate(OfParent(Length(p)), p)
    BY <1>1, <1>4, <1>6, <1>8, <1>9 DEF UpToDate, SameButCount
  <2> QED
    BY <1>3, <1>5, <1>10, <1>11, <2>1, <2>2 DEF ParentInv
<1>13. ChildInv
  BY <1>1 DEF ChildInv
<1>14. \A f \in Files : ordinals[f] + lost <= MaxRecords + 1
  BY <1>1, FilesAre, RolloutAssumption
<1> QED
  BY <1>1, <1>2, <1>12, <1>13, <1>14, RolloutAssumption DEF RolloutInv

LEMMA RolloutSteps ==
  ASSUME RolloutInv, [RolloutNext]_rolloutVars
  PROVE  RolloutInv'
<1>1. CASE RolloutNext
  <2>0. Shapes /\ ParentInv
    BY DEF RolloutInv
  <2>1. ASSUME NEW f \in Files, Message(f) PROVE RolloutInv'
    <3>1. Live(f) /\ Lived(f)
      BY <2>1, LiveLives DEF Message
    <3> QED
      BY <2>0, <2>1, <3>1, MessageDoes, WritesKeep
  <2>2. ASSUME NEW f \in Files, Call(f) PROVE RolloutInv'
    <3>1. Live(f) /\ Lived(f)
      BY <2>2, LiveLives DEF Call
    <3> QED
      BY <2>0, <2>2, <3>1, CallDoes, WritesKeep
  <2>3. ASSUME NEW f \in Files, Interrupt(f) PROVE RolloutInv'
    <3>1. Live(f) /\ Lived(f)
      BY <2>3, LiveLives DEF Interrupt
    <3> QED
      BY <2>0, <2>3, <3>1, InterruptDoes, WritesKeep
  <2>4. ASSUME NEW f \in Files, CompactTask(f) PROVE RolloutInv'
    <3>1. Live(f) /\ Lived(f)
      BY <2>4, LiveLives DEF CompactTask
    <3> QED
      BY <2>0, <2>4, <3>1, CompactDoes, WritesKeep
  <2>5. ASSUME NEW f \in Files, NEW id \in open[f], Answer(f, id) PROVE RolloutInv'
    <3>1. Live(f) /\ Lived(f)
      BY <2>5, LiveLives DEF Answer
    <3> QED
      BY <2>0, <2>5, <3>1, AnswerDoes, WritesKeep
  <2>6. ASSUME NEW f \in Files, NEW n \in DOMAIN lines[f], Damage(f, n) PROVE RolloutInv'
    BY <2>6, DamageKeeps
  <2>7. ASSUME Fork PROVE RolloutInv'
    <3>1. Shapes' /\ ParentInv' /\ ChildInv'
      BY <2>0, <2>7, ForkKeeps
    <3>2. lost' = lost /\ ordinals' = [ordinals EXCEPT !["child"] = ordinals["parent"]]
      BY <2>7 DEF Fork
    <3>3. \A f \in Files : ordinals'[f] + lost' <= MaxRecords + 1
      BY <3>2, FilesAre DEF RolloutInv, Shapes
    <3> QED
      BY <3>1, <3>2, <3>3 DEF RolloutInv
  <2> QED
    BY <1>1, <2>1, <2>2, <2>3, <2>4, <2>5, <2>6, <2>7 DEF RolloutNext
<1>2. CASE UNCHANGED rolloutVars
  <2>1. /\ lines' = lines /\ limit' = limit /\ ordinals' = ordinals /\ open' = open /\ items' = items
        /\ really' = really /\ lost' = lost
    BY <1>2 DEF rolloutVars
  <2>2. Shapes'
    BY <2>1 DEF RolloutInv, Shapes
  <2>3. ParentInv'
    BY <2>1, ParentStays DEF RolloutInv
  <2>4. ChildInv'
    <3>1. CASE limit = Unbound
      BY <2>1, <3>1 DEF RolloutInv, ChildInv
    <3>2. CASE limit # Unbound
      <4>1. ChildInv /\ Lived("child") /\ Written("child", limit)
        BY <3>2 DEF RolloutInv, ChildInv
      <4>2. \A n : InheritedNext(n) = Inherited(n)
        BY <2>1 DEF InheritedNext, Inherited
      <4>3. \A b, m : OfChildNext(b, m) = OfChild(b, m)
        BY <2>1 DEF OfChildNext, OfChild
      <4>4. \A s : KnownNext(s, "child") <=> Known(s, "child")
        BY <2>1 DEF Known, KnownNext
      <4>5. Lived("child")' /\ Written("child", limit)' /\ Length("parent")' = Length("parent")
            /\ Length("child")' = Length("child")
        BY <2>1, <4>1 DEF Lived, Written, Length
      <4>6. \A n \in 0 .. Length("parent")' :
              ~InheritedNext(n).refused /\ InheritedNext(n).included = limit' - 1 =>
                \A m \in 0 .. Length("child")' : KnownNext(OfChildNext(InheritedNext(n), m), "child")
        BY <2>1, <3>2, <4>1, <4>2, <4>3, <4>4, <4>5 DEF ChildInv, Complete
      <4>7. lost' = 0 => LET b == InheritedNext(Length("parent")')
                             t == OfChildNext(b, Length("child")')
                         IN /\ ~b.refused /\ b.included = limit' - 1 /\ b.previous = ordinals'["parent"] - 1
                            /\ ~t.refused /\ t.previous = ordinals'["child"] - 1
        BY <2>1, <3>2, <4>1, <4>2, <4>3, <4>5 DEF ChildInv, Complete, UpToDate
      <4>8. ChildNext
        BY <2>1, <3>2, <4>1, <4>5, <4>6, <4>7 DEF ChildNext, ChildInv
      <4> QED
        BY <4>8, ChildIsNext
    <3> QED
      BY <3>1, <3>2
  <2> QED
    BY <2>1, <2>2, <2>3, <2>4 DEF RolloutInv
<1> QED
  BY <1>1, <1>2

\* A plan from a reading that is true says what is true.
LEMMA PlannedIsTrue ==
  ASSUME NEW f \in Files, NEW all, Reading(all), Known(all, f),
         Plan(f) = (IF all.checkpoints = <<>> THEN Rejected(all) ELSE all)
  PROVE  /\ ~Plan(f).refused =>
              \A c \in DOMAIN Plan(f).checkpoints :
                c \in DOMAIN really[f] /\ Plan(f).checkpoints[c] = really[f][c]
         /\ UpToDate(all, f) => /\ DOMAIN Plan(f).checkpoints = DOMAIN really[f]
                                /\ Plan(f).refused <=> really[f] = <<>>
<1>1. Rejected(all).refused /\ Rejected(all).checkpoints = all.checkpoints
  BY RejectedIs
<1>2. Plan(f).checkpoints = all.checkpoints /\ (Plan(f).refused <=> all.refused \/ all.checkpoints = <<>>)
  <2>1. all.refused \in BOOLEAN
    BY DEF Reading
  <2> QED
    BY <1>1, <2>1
<1>3. UpToDate(all, f) => ~all.refused /\ all.checkpoints = really[f]
  BY DEF UpToDate, Known, KnownAs, KnowsAll
<1> QED
  BY <1>2, <1>3 DEF Known, KnownAs

LEMMA RolloutSafe ==
  ASSUME RolloutInv
  PROVE  RecoveredIsTrue
<1> DEFINE P == Length("parent")
           M == Length("child")
<1>1. /\ Shapes /\ ParentInv /\ ChildInv /\ lost \in Nat /\ lost <= MaxLost /\ limit \in Bounds
      /\ ordinals \in [Files -> Nat] /\ \A f \in Files : ordinals[f] + lost <= MaxRecords + 1
  BY DEF RolloutInv, Shapes
<1>2. P \in 1 .. ordinals["parent"] /\ Lived("parent")
  BY <1>1 DEF ParentInv, Written
<1>3. RolloutTypeOK
  <2>1. limit \in {Unbound} \cup Nat /\ lost \in 0 .. MaxLost
    BY <1>1, RolloutAssumption DEF Bounds
  <2>2. Len(lines["parent"]) <= MaxRecords + 1 /\ DOMAIN really["parent"] \subseteq Nat
    <3>1. Len(lines["parent"]) <= MaxRecords + 1
      BY <1>1, <1>2, FilesAre, RolloutAssumption DEF Length
    <3> QED
      BY <1>1, <1>2, <3>1, FilesAre DEF Lived
  <2>3. Len(lines["child"]) <= MaxRecords + 1 /\ DOMAIN really["child"] \subseteq Nat
    <3>1. CASE limit = Unbound
      <4>1. lines["child"] = <<>> /\ really["child"] = <<>> /\ Len(<<>>) = 0 /\ DOMAIN <<>> = {}
        BY <1>1, <3>1 DEF ChildInv
      <4> QED
        BY <4>1, RolloutAssumption
    <3>2. CASE limit # Unbound
      <4>1. M \in 1 .. ordinals["child"] /\ Lived("child")
        BY <1>1, <3>2 DEF ChildInv, Written
      <4>2. M <= MaxRecords + 1
        BY <1>1, <4>1, FilesAre, RolloutAssumption
      <4> QED
        BY <1>1, <4>1, <4>2, FilesAre DEF Lived, Length
    <3> QED
      BY <3>1, <3>2
  <2> QED
    BY <2>1, <2>2, <2>3, FilesAre DEF RolloutTypeOK
<1>4. /\ ~Plan("parent").refused =>
           \A c \in DOMAIN Plan("parent").checkpoints :
             c \in DOMAIN really["parent"] /\ Plan("parent").checkpoints[c] = really["parent"][c]
      /\ lost = 0 => /\ DOMAIN Plan("parent").checkpoints = DOMAIN really["parent"]
                     /\ Plan("parent").refused <=> really["parent"] = <<>>
  <2> DEFINE all == OfParent(P)
  <2>1. Plan("parent") = (IF all.checkpoints = <<>> THEN Rejected(all) ELSE all)
    BY DEF Plan, ReadFile, OfParent, Length
  <2>2. Reading(all)
    <3>1. Reading(Started(Unread)) /\ lines["parent"] \in Seq(Record) /\ Unbound \in Bounds
          /\ P \in 0 .. Len(lines["parent"])
      BY <1>1, <1>2, StartReads, FilesAre DEF Shapes, Bounds, Length
    <3> QED
      BY <3>1, ReadToGoes DEF OfParent
  <2>3. Known(all, "parent") /\ (lost = 0 => UpToDate(all, "parent"))
    BY <1>1, <1>2 DEF ParentInv
  <2> HIDE DEF all
  <2> QED
    BY <2>1, <2>2, <2>3, PlannedIsTrue, FilesAre
<1>5. ASSUME limit # Unbound
      PROVE  /\ ~Plan("child").refused =>
                  \A c \in DOMAIN Plan("child").checkpoints :
                    c \in DOMAIN really["child"] /\ Plan("child").checkpoints[c] = really["child"][c]
             /\ lost = 0 => /\ DOMAIN Plan("child").checkpoints = DOMAIN really["child"]
                            /\ Plan("child").refused <=> really["child"] = <<>>
  <2> DEFINE b == Inherited(P)
             bb == IF b.included # limit - 1 THEN Rejected(b) ELSE b
             all == OfChild(bb, M)
  <2>1. ReadFile(Unread, "parent", limit, Unbound) = bb
    BY <1>5 DEF ReadFile, Inherited, Length
  <2>2. Plan("child") = (IF all.checkpoints = <<>> THEN Rejected(all) ELSE all)
    BY <2>1 DEF Plan, ReadFile, OfChild, Length
  <2>3. limit \in Nat /\ Reading(b) /\ M \in 1 .. ordinals["child"] /\ M \in 0 .. M /\ P \in 0 .. P
    <3>1. limit \in Nat /\ P \in 0 .. P
      BY <1>1, <1>2, <1>5 DEF Bounds
    <3>2. M \in 1 .. ordinals["child"]
      BY <1>1, <1>5 DEF ChildInv, Written
    <3>3. Reading(b)
      BY <1>1, <3>1, InheritedReads
    <3> QED
      BY <1>1, <3>1, <3>2, <3>3
  <2>4. Reading(bb) /\ (Complete(b) => bb = b) /\ (~Complete(b) => bb.refused)
    <3> HIDE DEF b
    <3> QED
      BY <2>3, RejectedIs DEF Complete
  <2> HIDE DEF b, bb
  <2>5. Reading(all)
    BY <1>1, <2>3, <2>4, ChildReads
  <2>6. Known(all, "child")
    <3>1. CASE Complete(b)
      BY <1>1, <1>5, <2>3, <2>4, <3>1 DEF ChildInv, b
    <3>2. CASE ~Complete(b)
      <4>1. Reading(Started(bb)) /\ Started(bb).refused
        BY <2>4, <3>2, StartReads
      <4>2. lines["child"] \in Seq(Record) /\ limit \in Bounds /\ Unbound \in Bounds /\ M \in Nat
        BY <1>1, <2>3, <2>4, ChildReads
      <4>3. ReadTo(0, Started(bb), lines["child"], Unbound, limit).refused
        BY <4>1, ReadNone
      <4>4. all.refused
        <5>1. 0 \in 0 .. Len(lines["child"]) /\ M \in 0 .. Len(lines["child"])
          BY <4>2 DEF Length
        <5> QED
          BY <4>1, <4>2, <4>3, <5>1, RefusedStays DEF OfChild
      <4> QED
        BY <4>4 DEF Known, KnownAs
    <3> QED
      BY <3>1, <3>2
  <2>7. lost = 0 => UpToDate(all, "child")
    BY <1>1, <1>5, <2>4 DEF ChildInv, b
  <2> HIDE DEF all
  <2> QED
    BY <2>2, <2>5, <2>6, <2>7, PlannedIsTrue, FilesAre
<1> QED
  BY <1>3, <1>4, <1>5, FilesAre DEF RecoveredIsTrue

\* What history recovery rebuilds is what happened, whatever was lost; and it is
\* all that happened when nothing was (planRolloutRecovery, rollout.mjs).
THEOREM RecoveredAreTrue == RolloutSpec => []RecoveredIsTrue
<1>1. RolloutInit => RolloutInv
  BY RolloutStarts
<1>2. RolloutInv /\ [RolloutNext]_rolloutVars => RolloutInv'
  BY RolloutSteps
<1>3. RolloutInv => RecoveredIsTrue
  BY RolloutSafe
<1> QED
  BY <1>1, <1>2, <1>3, PTL DEF RolloutSpec

=============================================================================
