---------------------------- MODULE SpaceRevisions ----------------------------
(***************************************************************************)
(* The store of configuration spaces (src/config-spaces.mjs): an index and *)
(* one immutable file per revision, changed by commands that read first,   *)
(* ask the user, and only then take the space lock.  A revision file is    *)
(* created exclusively and filled before the index names it.               *)
(***************************************************************************)
EXTENDS Naturals, FiniteSets

CONSTANTS
  Process,       \* commands that may run at the same time
  Official,      \* the protected space
  Default,       \* the Router space made by space init
  Other,         \* names further Router spaces may get
  Content,       \* what a revision holds
  None,          \* no file; no job; the lock is free
  Torn,          \* a file that was created and not filled
  MaxRevision, MaxFiles, MaxCrashes   \* bounds of the exploration

Space == {Official, Default} \cup Other

ASSUME RevisionConstants ==
  /\ Official # Default /\ {Official, Default} \cap Other = {}
  /\ None \notin Process /\ None # Torn
  /\ MaxRevision \in Nat \ {0} /\ MaxFiles \in Nat /\ MaxCrashes \in Nat

VARIABLES
  latest,     \* index: latest revision of each space, 0 when it does not exist
  active,     \* index: the active reference
  files,      \* the file of each revision
  lock,       \* holder of the space lock
  pc, job,    \* each command, and what it has read and means to store
  crashes

store == <<latest, active, files>>
vars  == <<store, lock, pc, job, crashes>>

Ref == [space : Space, revision : 1..MaxRevision]
\* from: the revision the author had read; 0 for the first of a space.
Revision == [content : Content, from : 0..MaxRevision]
\* stored: the revision the command stores, or finds it has stored already.
Job == [space : Space, content : Content, from : 0..MaxRevision,
        stored : 0..MaxRevision, active : Ref, moves : BOOLEAN]

\* initializeSpaces: both spaces appear in one rename.
Init ==
  /\ \E c, d \in Content :
       files = [s \in Space |-> [r \in 1..MaxRevision |->
                 IF r = 1 /\ s \in {Official, Default}
                 THEN [content |-> IF s = Official THEN c ELSE d, from |-> 0]
                 ELSE None]]
  /\ latest = [s \in Space |-> IF s \in {Official, Default} THEN 1 ELSE 0]
  /\ active \in [space : {Official, Default}, revision : {1}]
  /\ lock = None /\ pc = [p \in Process |-> "idle"] /\ crashes = 0
  /\ job = [p \in Process |-> None]

Goto(p, from, to) == pc[p] = from /\ pc' = [pc EXCEPT ![p] = to]
\* A command that ends forgets what it has read.
Leave(p, from, to) ==
  /\ Goto(p, from, to)
  /\ job' = IF to = "idle" THEN [job EXCEPT ![p] = None] ELSE job
Release(p) == lock = p /\ lock' = None

\* The bound on what is stored.
Room == Cardinality({f \in Space \X (1..MaxRevision) : files[f[1]][f[2]] # None}) < MaxFiles

-----------------------------------------------------------------------------
(* What a command reads before it takes the lock                           *)

Reads(p, s, c, moves) ==
  /\ Goto(p, "idle", "append")
  /\ job' = [job EXCEPT ![p] = [space |-> s, content |-> c, from |-> latest[s],
                                stored |-> latest[s], active |-> active, moves |-> moves]]
  /\ UNCHANGED <<store, lock, crashes>>

\* An edit of the latest revision of a Router space.
Edit(p) == \E s \in Space \ {Official}, c \in Content :
             latest[s] > 0 /\ Reads(p, s, c, FALSE)

\* space capture: the pointer follows if the space is the active one.
Capture(p) == \E s \in Space \ {Official}, c \in Content :
                latest[s] > 0 /\ Reads(p, s, c, active.space = s)

\* captureOfficialSpace, when the live settings are not those of the active
\* official revision.
CaptureOfficial(p) ==
  \E c \in Content : /\ active.space = Official
                     /\ c # files[Official][active.revision].content
                     /\ Reads(p, Official, c, TRUE)

\* createSpace clones a revision it reads under the lock.
CreateSpace(p) ==
  \E s \in Other, from \in Space \ {Official} : \E r \in 1..latest[from] :
    /\ lock = None /\ lock' = p
    /\ latest[s] = 0 /\ Room
    /\ Goto(p, "idle", "create")
    /\ job' = [job EXCEPT ![p] = [space |-> s, content |-> files[from][r].content,
                                  from |-> 0, stored |-> 1, active |-> active,
                                  moves |-> FALSE]]
    /\ UNCHANGED <<store, crashes>>

-----------------------------------------------------------------------------
(* appendSpaceRevision under the lock                                      *)

\* commitSpaceActivation follows when the pointer names another revision.
After(p) == IF job[p].moves /\ job[p].active.revision # job[p].stored
            THEN "activate" ELSE "idle"

Takes(p) ==
  /\ lock = None
  /\ UNCHANGED <<store, crashes>>

Adds(p, r) ==
  /\ Goto(p, "append", "create") /\ r <= MaxRevision /\ Room
  /\ Takes(p)
  /\ files[job[p].space][r - 1].content # job[p].content
  /\ job' = [job EXCEPT ![p].stored = r]
  /\ lock' = p

\* space_operation_conflict: another revision was appended meanwhile.
Conflict(p) ==
  /\ Leave(p, "append", "idle")
  /\ Takes(p) /\ latest[job[p].space] # job[p].from
  /\ UNCHANGED lock

\* The content is the latest already.
Unchanged(p) ==
  /\ Leave(p, "append", After(p))
  /\ Takes(p) /\ latest[job[p].space] = job[p].from
  /\ files[job[p].space][job[p].from].content = job[p].content
  /\ UNCHANGED lock

\* Mutant of AppendRevision: the expected revision is not compared.
AppendAnyway(p) == Adds(p, latest[job[p].space] + 1)

AppendRevision(p) ==
  /\ Adds(p, job[p].from + 1)
  /\ latest[job[p].space] = job[p].from

\* Mutant of Create: the index names the file before it is filled.
CreateNamed(p) ==
  /\ Goto(p, "create", "fill")
  /\ files[job[p].space][job[p].stored] = None
  /\ files' = [files EXCEPT ![job[p].space][job[p].stored] = Torn]
  /\ latest' = [latest EXCEPT ![job[p].space] = job[p].stored]
  /\ UNCHANGED <<active, lock, job, crashes>>

\* Opened with "wx": a file that is there already is an error.
Create(p) ==
  /\ Goto(p, "create", "fill")
  /\ files[job[p].space][job[p].stored] = None
  /\ files' = [files EXCEPT ![job[p].space][job[p].stored] = Torn]
  /\ UNCHANGED <<latest, active, lock, job, crashes>>

Exists(p) ==
  /\ Leave(p, "create", "idle")
  /\ files[job[p].space][job[p].stored] # None
  /\ Release(p)
  /\ UNCHANGED <<store, crashes>>

Fill(p) ==
  /\ Goto(p, "fill", "index")
  /\ files' = [files EXCEPT ![job[p].space][job[p].stored] =
                 [content |-> job[p].content, from |-> job[p].from]]
  /\ UNCHANGED <<latest, active, lock, job, crashes>>

\* The index is replaced atomically and the lock released.
Publish(p) ==
  /\ Leave(p, "index", After(p))
  /\ latest' = [latest EXCEPT ![job[p].space] = job[p].stored]
  /\ Release(p)
  /\ UNCHANGED <<active, files, crashes>>

-----------------------------------------------------------------------------
(* The pointer, under the lock again                                       *)

Moves(p) ==
  /\ lock = None
  /\ active' = [space |-> job[p].space, revision |-> job[p].stored]
  /\ UNCHANGED <<latest, files, lock, crashes>>

\* Mutant of Activate: the pointer read before is not compared.
ActivateAnyway(p) ==
  /\ Leave(p, "activate", "idle")
  /\ Moves(p)

Activate(p) ==
  /\ Leave(p, "activate", "idle")
  /\ active = job[p].active
  /\ Moves(p)

ActivateRefused(p) ==
  /\ Leave(p, "activate", "idle")
  /\ lock = None /\ active # job[p].active
  /\ UNCHANGED <<store, lock, crashes>>

\* A switch commits, or the rescue moves the pointer to official@1.
Commit ==
  /\ lock = None
  /\ \E s \in Space : \E r \in 1..latest[s] : active' = [space |-> s, revision |-> r]
  /\ UNCHANGED <<latest, files, lock, pc, job, crashes>>

\* The process dies; its lock becomes stale and is broken.
Crash(p) ==
  /\ crashes < MaxCrashes /\ crashes' = crashes + 1
  /\ pc[p] # "idle" /\ Leave(p, pc[p], "idle")
  /\ lock' = IF lock = p THEN None ELSE lock
  /\ UNCHANGED store

Command(p) ==
  \/ Edit(p) \/ Capture(p) \/ CaptureOfficial(p) \/ CreateSpace(p)
  \/ Conflict(p) \/ Unchanged(p) \/ AppendRevision(p)
  \/ Create(p) \/ Exists(p) \/ Fill(p) \/ Publish(p)
  \/ Activate(p) \/ ActivateRefused(p)

Next == Commit \/ \E p \in Process : Command(p) \/ Crash(p)

Spec == Init /\ [][Next]_vars
-----------------------------------------------------------------------------
\* Variables have their types.
TypeOK ==
  /\ latest \in [Space -> 0..MaxRevision] /\ active \in Ref
  /\ files \in [Space -> [1..MaxRevision -> Revision \cup {None, Torn}]]
  /\ lock \in Process \cup {None} /\ job \in [Process -> Job \cup {None}]
  /\ pc \in [Process -> {"idle", "append", "create", "fill", "index", "activate"}]
  /\ crashes \in Nat

\* Whatever dies when: a revision the index names has its whole file, and the
\* pointer names such a revision.
NamedWhole ==
  /\ TypeOK
  /\ \A s \in Space : \A r \in 1..latest[s] : files[s][r] \in Revision
  /\ active.revision \in 1..latest[active.space]

\* Two authors who started from the same revision do not both get one: each
\* revision was written by somebody who had read the one before it.
NoLostEdit ==
  \A s \in Space : \A r \in 2..latest[s] : files[s][r].from = r - 1

\* A revision that can be named never changes ("official@1 is never replaced",
\* docs/public/configuration-spaces.md:28), and none is taken back.
Immutable ==
  [][\A s \in Space : /\ latest[s] <= latest'[s]
                      /\ \A r \in 1..latest[s] : files'[s][r] = files[s][r]]_vars

\* A capture moves the pointer only from where it found it: a switch that was
\* committed since stays.
PointerNotStolen ==
  [][\A p \in Process : pc[p] = "activate" /\ active' # active /\ pc'[p] = "idle"
       => active = job[p].active]_vars

\* Each confirmed change can be stored ("creates a new immutable revision",
\* docs/public/configuration-spaces.md:46): the number it needs is free.
NextRevisionFree ==
  lock = None => \A s \in Space : latest[s] \in 1..(MaxRevision - 1) =>
                   files[s][latest[s] + 1] = None
=============================================================================
