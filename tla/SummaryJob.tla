---- MODULE SummaryJob ----
(***************************************************************************)
(* The summaries a migration asks of the model a history came from         *)
(* (engine.mjs: prepareNativeMigrationSummaries, singleSummary,            *)
(* performSingleSummary, describeImage).  Requests of one task come to the *)
(* same opaque checkpoint, each for a destination and with the items that  *)
(* follow the checkpoint, its tail.  A tail too long for the destination   *)
(* goes into the summary.  The source is asked once per destination and    *)
(* window; requests for the same summary share the call.                   *)
(***************************************************************************)
EXTENDS Integers, FiniteSets

CONSTANTS
  Caller,     \* the requests
  Place,      \* the destinations
  MaxTail,    \* the longest tail
  Short,      \* the longest tail a destination takes as it is
  Crashes,    \* how often the process may die
  NoOne        \* no caller, no migration

ASSUME SummaryConstants ==
  /\ MaxTail \in Nat /\ Short \in Nat /\ Crashes \in Nat
  /\ NoOne \notin Caller

VARIABLES
  phase,      \* how far a request is
  wants,      \* its destination, its tail and whether it is itself a compaction
  aborted,    \* the requests whose client is gone
  job,        \* the "summary:" keys of the state
  flight,     \* summaryInflight: the request that asked, per key
  migration,  \* the migration kept in the checkpoint
  image,      \* the "image-description:" key of one image
  asked,      \* how often the source was asked, per key (history)
  described,  \* how often it was asked for the image (history)
  trouble,    \* how often a call failed or died with the process, per key (history)
  crashes     \* how often the process died

asks == <<phase, wants, aborted>>
ghosts == <<asked, described, trouble, crashes>>
summaryVars == <<asks, job, flight, migration, image, ghosts>>

\* A summary is identified by its destination and by how much of the tail it covers.
Key == Place \X (0..MaxTail)
Status == {"none", "running", "completed", "failed", "uncertain"}
Migration == [to : Place, covers : 0..MaxTail, status : {"completed", "failed", "uncertain"}]

SummaryTypeOK ==
  /\ phase \in [Caller -> {"idle", "asking", "waiting", "describing", "done",
                         "failed"}]
  /\ \A r \in Caller :
       wants[r] # NoOne => wants[r] \in [to : Place, tail : 0..MaxTail, compaction : BOOLEAN]
  /\ aborted \subseteq Caller
  /\ job \in [Key -> Status]
  /\ flight \in [Key -> Caller \cup {NoOne}]
  /\ migration \in Migration \cup {NoOne}
  /\ image \in Status
  /\ asked \in [Key -> Nat] /\ trouble \in [Key -> Nat] /\ described \in Nat
  /\ crashes \in 0..Crashes

SummaryInit ==
  /\ phase = [r \in Caller |-> "idle"]
  /\ wants = [r \in Caller |-> NoOne]
  /\ aborted = {}
  /\ job = [k \in Key |-> "none"]
  /\ flight = [k \in Key |-> NoOne]
  /\ migration = NoOne
  /\ image = "none"
  /\ asked = [k \in Key |-> 0]
  /\ trouble = [k \in Key |-> 0]
  /\ described = 0
  /\ crashes = 0

Phase(r, s) == phase' = [phase EXCEPT ![r] = s]
\* The status a failure leaves: an aborted call may have been billed and answered.
Outcome(gone) == IF gone THEN "uncertain" ELSE "failed"

-----------------------------------------------------------------------------
(* prepareNativeMigrationSummaries, up to the call. *)

Wish == [to : Place, tail : 0..MaxTail, compaction : BOOLEAN]
Covered(w) == IF w.tail <= Short THEN 0 ELSE w.tail
KeyOf(w) == <<w.to, Covered(w)>>

Comes(r, w, s) ==
  /\ phase[r] = "idle"
  /\ wants' = [wants EXCEPT ![r] = w]
  /\ phase' = [phase EXCEPT ![r] = s]

\* Mutant of Written: the checkpoint says that the summary covers the whole tail.
WrittenWhole(w, status) == [to |-> w.to, covers |-> w.tail, status |-> status]

\* The checkpoint after a request's summary ended, as the request writes it: a summary made for a
\* compaction that covers the tail is not kept there.
Written(w, status) ==
  IF status = "completed" /\ w.compaction /\ Covered(w) > 0
  THEN migration
  ELSE [to |-> w.to, covers |-> IF status = "completed" THEN Covered(w) ELSE 0, status |-> status]

Migrated(w) == migration # NoOne /\ migration.to = w.to /\ migration.status = "completed"
Blocked(w) == ~Migrated(w) /\ migration # NoOne /\ migration.status = "uncertain"

\* The checkpoint has the summary.  One that covers a tail is used when the request's history
\* begins with that tail, and refused as uncertain otherwise; so is any request while the
\* outcome of a migration is uncertain.
Answered(r, w) ==
  /\ Migrated(w) \/ Blocked(w)
  /\ Comes(r, w, IF Migrated(w) /\ migration.covers <= w.tail THEN "done" ELSE "failed")
  /\ UNCHANGED <<aborted, job, flight, migration, image, ghosts>>

Open(w) == ~Migrated(w) /\ ~Blocked(w)

\* singleSummary: another request is asking for the same summary.
Join(r, w) ==
  /\ Open(w)
  /\ flight[KeyOf(w)] # NoOne
  /\ Comes(r, w, "waiting")
  /\ UNCHANGED <<aborted, job, flight, migration, image, ghosts>>

\* performSingleSummary, for a key that was settled before: the view, or a refusal.
SettledBefore(r, w) ==
  /\ Open(w)
  /\ flight[KeyOf(w)] = NoOne
  /\ \/ job[KeyOf(w)] = "completed" /\ Comes(r, w, "done") /\ migration' = Written(w, "completed")
     \/ job[KeyOf(w)] = "uncertain" /\ Comes(r, w, "failed") /\ migration' = Written(w, "failed")
  /\ UNCHANGED <<aborted, job, flight, image, ghosts>>

\* Mutant of AskSource: a call for the same summary is not looked for.
AskSourceAgain(r, w) ==
  /\ Open(w)
  /\ job[KeyOf(w)] \in {"none", "failed", "running"}
  /\ job' = [job EXCEPT ![KeyOf(w)] = "running"]
  /\ flight' = [flight EXCEPT ![KeyOf(w)] = r]
  /\ asked' = [asked EXCEPT ![KeyOf(w)] = @ + 1]
  /\ Comes(r, w, "asking")
  /\ UNCHANGED <<aborted, migration, image, described, trouble, crashes>>

\* For a key that is new or failed, or that an earlier process left running: the source is asked.
AskSource(r, w) ==
  /\ Open(w)
  /\ flight[KeyOf(w)] = NoOne
  /\ job[KeyOf(w)] \in {"none", "failed", "running"}
  /\ job' = [job EXCEPT ![KeyOf(w)] = "running"]
  /\ flight' = [flight EXCEPT ![KeyOf(w)] = r]
  /\ asked' = [asked EXCEPT ![KeyOf(w)] = @ + 1]
  /\ Comes(r, w, "asking")
  /\ UNCHANGED <<aborted, migration, image, described, trouble, crashes>>

-----------------------------------------------------------------------------
(* The call ends. *)

\* The requests that hold the promise of a call.
Holders(k) == {r \in Caller : phase[r] \in {"asking", "waiting"} /\ KeyOf(wants[r]) = k}

\* The summary is there: it is stored under its key, and every request that waited for it notes
\* it in the checkpoint.
Summarised(k) ==
  /\ flight[k] # NoOne
  /\ flight[k] \notin aborted
  /\ job' = [job EXCEPT ![k] = "completed"]
  /\ flight' = [flight EXCEPT ![k] = NoOne]
  /\ \E r \in Holders(k) : migration' = Written(wants[r], "completed")
  /\ phase' = [r \in Caller |-> IF r \in Holders(k) THEN "done" ELSE phase[r]]
  /\ UNCHANGED <<wants, aborted, image, ghosts>>

\* The call fails, or ends because the client of the request that made it is gone.  All who share
\* it fail; the last to do so leaves its note in the checkpoint.
CallFails(k) ==
  /\ flight[k] # NoOne
  /\ job' = [job EXCEPT ![k] = Outcome(flight[k] \in aborted)]
  /\ flight' = [flight EXCEPT ![k] = NoOne]
  /\ trouble' = [trouble EXCEPT ![k] = @ + 1]
  /\ \E r \in Holders(k) :
       migration' = Written(wants[r], Outcome(r \in aborted \/ flight[k] \in aborted))
  /\ phase' = [r \in Caller |-> IF r \in Holders(k) THEN "failed" ELSE phase[r]]
  /\ UNCHANGED <<wants, aborted, image, asked, described, crashes>>

Abort(r) ==
  /\ phase[r] \in {"asking", "waiting", "describing"}
  /\ r \notin aborted
  /\ aborted' = aborted \cup {r}
  /\ UNCHANGED <<phase, wants, job, flight, migration, image, ghosts>>

\* The process dies: the keys it left running stay.
Crash ==
  /\ crashes < Crashes
  /\ crashes' = crashes + 1
  /\ phase' = [r \in Caller |-> IF phase[r] \in {"idle", "done"} THEN phase[r] ELSE "failed"]
  /\ flight' = [k \in Key |-> NoOne]
  /\ trouble' = [k \in Key |-> IF flight[k] # NoOne THEN trouble[k] + 1 ELSE trouble[k]]
  /\ UNCHANGED <<wants, aborted, job, migration, image, asked, described>>

-----------------------------------------------------------------------------
(* describeImage: a request whose destination reads no images has one described by the source.
   Nothing is shared: a second request finds the key running and fails. *)

Describe(r) ==
  /\ phase[r] = "idle"
  /\ IF image = "none"
     THEN /\ image' = "running"
          /\ described' = described + 1
          /\ Phase(r, "describing")
     ELSE /\ Phase(r, IF image = "completed" THEN "done" ELSE "failed")
          /\ UNCHANGED <<image, described>>
  /\ UNCHANGED <<wants, aborted, job, flight, migration, asked, trouble, crashes>>

Described(r) ==
  /\ phase[r] = "describing"
  /\ \/ r \notin aborted /\ image' = "completed" /\ Phase(r, "done")
     \/ image' = Outcome(r \in aborted) /\ Phase(r, "failed")
  /\ UNCHANGED <<wants, aborted, job, flight, migration, ghosts>>

CallEnds == (\E k \in Key : Summarised(k) \/ CallFails(k)) \/ (\E r \in Caller : Described(r))

SummaryNext ==
  \/ \E r \in Caller, w \in Wish : Answered(r, w) \/ Join(r, w) \/ SettledBefore(r, w) \/ AskSource(r, w)
  \/ \E r \in Caller : Describe(r) \/ Abort(r)
  \/ CallEnds
  \/ Crash

SummarySpec == SummaryInit /\ [][SummaryNext]_summaryVars

-----------------------------------------------------------------------------
(* Properties. *)

\* Compaction recovery: the source is asked once for a window and a destination, whoever asks and
\* however often: again only after a call that failed, or that died with its process; an image is
\* never described twice.
AskedOnce ==
  /\ SummaryTypeOK
  /\ \A k \in Key : asked[k] <= 1 + trouble[k]
  /\ described <= 1

\* A summary that was made is not lost to a request that needs it: what the checkpoint says is
\* completed, its key or the key of a compaction has.
MadeIsKept ==
  migration # NoOne /\ migration.status = "completed"
    => job[<<migration.to, migration.covers>>] = "completed"
====
