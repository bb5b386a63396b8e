-------------------------- MODULE HistoryVersions --------------------------
(***************************************************************************)
(* The task archive (src/src/archive.mjs): conversation histories kept as  *)
(* differences.  A version of a branch holds, for its original items and   *)
(* for its view, the version it starts from, how many of that version's    *)
(* items it shares, the items that follow, and how many there are in all.  *)
(* A record of a response or of a compaction holds no items: it names the  *)
(* version that has them.  The Gateway saves and the command line imports, *)
(* recovers and prunes in the same file, each write one transaction; what  *)
(* `history prune` checks, it reads before its transaction.                *)
(***************************************************************************)
EXTENDS Integers, FiniteSetsExt, SequencesExt, Functions

CONSTANTS
  Branch,        \* the branches of one account's conversations
  Parent,        \* for each branch, the one its thread was forked from, or Absent
  Response,      \* ids of responses the Gateway answered
  Imported,      \* ids of imported histories; Absent for one that has no id
  Compaction,    \* compaction items, the keys of checkpoints
  EventItem,     \* what histories are made of
  Given,         \* the histories calls save: [original, view] of sequences
  Plans,         \* what rollouts give back: sequences of [item, history]
  MaxVersions,   \* bound on the versions of all the branches
  MaxPrunes,     \* bound on the prunes
  Absent

Kinds == {"original", "view"}
RecordKeys == Response \cup Compaction
Histories == [Kinds -> Seq(EventItem)]

\* No thread is forked from itself, however far back.
ASSUME ArchiveAssumption ==
  /\ Parent \in [Branch -> Branch \cup {Absent}]
  /\ \A S \in (SUBSET Branch) \ {{}} : \E b \in S : Parent[b] \notin S
  /\ Given \subseteq Histories
  /\ Plans \subseteq Seq([item : Compaction, history : Histories])
  /\ Absent \notin Branch \cup RecordKeys \cup Nat \cup Seq(EventItem) \cup Histories
  /\ MaxVersions \in Nat /\ MaxPrunes \in Nat

VARIABLES
  versions,  \* history_versions and its items: each branch's rows, by version
  refs,   \* records: each branch's response and checkpoint keys, with their historyRef
  forks,     \* branches: the parent, or Absent, that each branch was first saved with
  pruning,   \* what a prune read and has not acted on yet, or Absent
  prunes,    \* prunes begun
  said       \* ghost: what each record was saved with

archiveVars == <<versions, refs, forks, pruning, prunes, said>>

\* A table once the rows of `keys` are written, over those that are there.
Put(table, keys, row) ==
  [k \in DOMAIN table \cup keys |-> IF k \in keys THEN row ELSE table[k]]

Latest(rows) == Max(DOMAIN rows \cup {0})

\* readEventStream: the items of one kind of a version, of which it holds those after
\* a prefix of the version it starts from, as `read`; Absent where that one is missing
\* or too short, or the count disagrees.
Items(rows, kind, v, read) ==
  LET row  == rows[v][kind]
      base == IF row.base = Absent THEN <<>>
              ELSE IF row.base \in DOMAIN rows THEN read[row.base] ELSE Absent
  IN IF base = Absent THEN Absent
     ELSE IF Len(base) < row.prefix \/ row.prefix + Len(row.suffix) # row.count THEN Absent
     ELSE SubSeq(base, 1, row.prefix) \o row.suffix

\* Those of every version.
Stream(rows, kind) ==
  LET read[v \in DOMAIN rows] == Items(rows, kind, v, read) IN read

\* history: both streams of one version, or Absent where it is corrupt or absent.
ReadBack(rows, v) ==
  IF v \notin DOMAIN rows \/ \E kind \in Kinds : Stream(rows, kind)[v] = Absent THEN Absent
  ELSE [kind \in Kinds |-> Stream(rows, kind)[v]]

\* What the last version reads: an append reads it first, and fails with it.
LastRead(rows) ==
  IF DOMAIN rows = {} THEN [kind \in Kinds |-> <<>>] ELSE ReadBack(rows, Latest(rows))

\* The items two streams share from their start; mutant: as many as both have.
SharedLength(items, previous) == Min({Len(items), Len(previous)})
Shared(items, previous) ==
  Max({0} \cup {n \in 1 .. Len(items) : /\ n <= Len(previous)
                                        /\ SubSeq(items, 1, n) = SubSeq(previous, 1, n)})

\* writeEventStream: what one kind of a new version keeps, after version v.
Difference(items, v, previous) ==
  LET prefix == Shared(items, previous)
  IN [base   |-> IF prefix > 0 THEN v ELSE Absent,
      prefix |-> prefix,
      suffix |-> SubSeq(items, prefix + 1, Len(items)),
      count  |-> Len(items)]

\* appendHistoryRow: `rows` with h behind them.
Append1(rows, h, r) ==
  LET before == LastRead(rows)
      Row(kind) == Difference(h[kind], Latest(rows), before[kind])
  IN Put(rows, {Latest(rows) + 1},
         [original |-> Row("original"), view |-> Row("view"), response |-> r])

\* The bound: n more versions may be written.
RoomFor(n) == SumFunction([b \in Branch |-> Latest(versions[b])]) + n <= MaxVersions

Writable(b) == LastRead(versions[b]) # Absent /\ RoomFor(1)

Prior(b, r) == r # Absent /\ \E v \in DOMAIN versions[b] : versions[b][v].response = r

\* INSERT OR IGNORE INTO branches: the parent of the first save stays.
Registered(b, parent) == Put(forks, {b} \ DOMAIN forks, parent)

-----------------------------------------------------------------------------
\* Nothing is kept: an archive just made by openArchive.
ArchiveInit ==
  /\ versions = [b \in Branch |-> <<>>]
  /\ refs = [b \in Branch |-> <<>>]
  /\ forks = <<>>
  /\ pruning = Absent
  /\ prunes = 0
  /\ said = [b \in Branch |-> <<>>]

\* saveResponse: the version and the record that names it, together; a
\* response kept before changes nothing.  A response that compacts is followed
\* by the checkpoint of its item, which a crash in between leaves out.
Respond(b, r, h, items) ==
  LET keys == {r} \cup items
      ref  == [branch |-> b, version |-> Latest(versions[b]) + 1]
  IN /\ ~Prior(b, r)
     /\ Writable(b)
     /\ versions' = [versions EXCEPT ![b] = Append1(@, h, r)]
     /\ refs' = [refs EXCEPT ![b] = Put(@, keys, ref)]
     /\ said' = [said EXCEPT ![b] = Put(@, keys, h)]
     /\ forks' = Registered(b, Parent[b])
     /\ UNCHANGED <<pruning, prunes>>

\* importRollout, or `history import` of a package: one snapshot a call, each
\* its own transaction; a repeated import finds the id and adds nothing.
Import(b, r, h) ==
  /\ ~Prior(b, r)
  /\ Writable(b)
  /\ versions' = [versions EXCEPT ![b] = Append1(@, h, r)]
  /\ forks' = Registered(b, Parent[b])
  /\ UNCHANGED <<refs, pruning, prunes, said>>

\* setRecoveredCheckpoints, once through its loop: a version, and the checkpoint
\* of a compaction that names it.
Recovered(kept, b, one) ==
  [rows |-> Append1(kept.rows, one.history, Absent),
   refs |-> Put(kept.refs, {one.item}, [branch |-> b, version |-> Latest(kept.rows) + 1]),
   said |-> Put(kept.said, {one.item}, one.history)]

\* The loop, for the n of a plan that are missing.
AfterLoop(b, plan, missing) ==
  LET after[n \in 0 .. Len(plan)] ==
        IF n = 0 THEN [rows |-> versions[b], refs |-> refs[b], said |-> said[b]]
        ELSE IF n \in missing THEN Recovered(after[n - 1], b, plan[n])
        ELSE after[n - 1]
  IN after[Len(plan)]

\* `history recover`, one transaction: the compactions of a rollout that have no
\* checkpoint; one that has another than the rollout gives refuses them all.
Recover(b, plan) ==
  LET missing == {n \in DOMAIN plan : plan[n].item \notin DOMAIN refs[b]}
      kept    == AfterLoop(b, plan, missing)
  IN /\ missing # {}
     /\ \A n \in DOMAIN plan \ missing :
          LET ref == refs[b][plan[n].item]
          IN ReadBack(versions[ref.branch], ref.version) = plan[n].history
     /\ Writable(b) /\ RoomFor(Cardinality(missing))
     /\ versions' = [versions EXCEPT ![b] = kept.rows]
     /\ refs' = [refs EXCEPT ![b] = kept.refs]
     /\ said' = [said EXCEPT ![b] = kept.said]
     /\ forks' = Registered(b, Absent)
     /\ UNCHANGED <<pruning, prunes>>

\* checkpointFor: a forked thread's request names a compaction its parent has;
\* the checkpoint is copied, and goes on naming the parent's version.
Inherit(b, c) ==
  /\ Parent[b] # Absent
  /\ c \in DOMAIN refs[Parent[b]] \ DOMAIN refs[b]
  /\ LET ref == refs[Parent[b]][c]
     IN ReadBack(versions[ref.branch], ref.version) # Absent
  /\ refs' = [refs EXCEPT ![b] = Put(@, {c}, refs[Parent[b]][c])]
  /\ said' = [said EXCEPT ![b] = Put(@, {c}, said[Parent[b]][c])]
  /\ UNCHANGED <<versions, forks, pruning, prunes>>

\* prune, its checks: how many versions lie before the bound (all of them when
\* there is none), how many stay, and whether a branch names b as its parent.
PruneChecks(b, before) ==
  LET gone == {v \in DOMAIN versions[b] : before = Absent \/ v < before}
  IN /\ pruning = Absent
     /\ prunes < MaxPrunes
     /\ gone = {} \/ (gone = DOMAIN versions[b] /\ \A c \in DOMAIN forks : forks[c] # b)
     /\ pruning' = [branch |-> b, before |-> before]
     /\ prunes' = prunes + 1
     /\ UNCHANGED <<versions, refs, forks, said>>

\* Mutant of Pruned: the records stay.
PrunedVersions ==
  LET b == pruning.branch
      before == pruning.before
  IN /\ versions' = [versions EXCEPT ![b] =
          [v \in {w \in DOMAIN @ : before # Absent /\ w >= before} |-> @[v]]]
     /\ forks' = [c \in DOMAIN forks \ (IF before = Absent THEN {b} ELSE {}) |-> forks[c]]
     /\ UNCHANGED <<refs, said>>

\* Its transaction: the versions before the bound with their items, and every
\* record of the branch; the branch itself only without a bound.
Pruned ==
  LET b == pruning.branch
      before == pruning.before
  IN /\ versions' = [versions EXCEPT ![b] =
          [v \in {w \in DOMAIN @ : before # Absent /\ w >= before} |-> @[v]]]
     /\ refs' = [refs EXCEPT ![b] = <<>>]
     /\ said' = [said EXCEPT ![b] = <<>>]
     /\ forks' = [c \in DOMAIN forks \ (IF before = Absent THEN {b} ELSE {}) |-> forks[c]]

Prune ==
  /\ pruning # Absent
  /\ Pruned
  /\ pruning' = Absent
  /\ UNCHANGED prunes

ArchiveNext ==
  \/ \E b \in Branch, r \in Response, h \in Given :
       \E items \in {{}} \cup {{c} : c \in Compaction} : Respond(b, r, h, items)
  \/ \E b \in Branch, r \in Imported, h \in Given : Import(b, r, h)
  \/ \E b \in Branch, plan \in Plans : Recover(b, plan)
  \/ \E b \in Branch, c \in Compaction : Inherit(b, c)
  \/ \E b \in Branch, before \in {Absent} \cup 1 .. MaxVersions + 1 : PruneChecks(b, before)
  \/ Prune

ArchiveSpec == ArchiveInit /\ [][ArchiveNext]_archiveVars

-----------------------------------------------------------------------------
\* Rows, records and forks have their shapes.
ArchiveTypeOK ==
  /\ \A b \in Branch :
       /\ DOMAIN versions[b] \subseteq Nat \ {0}
       /\ DOMAIN refs[b] \subseteq RecordKeys /\ DOMAIN said[b] = DOMAIN refs[b]
  /\ DOMAIN forks \subseteq Branch /\ Range(forks) \subseteq Branch \cup {Absent}
  /\ prunes \in 0 .. MaxPrunes

\* What the versions of a branch read back, those that read at all.
LogOf(rows) ==
  [v \in {w \in DOMAIN rows : ReadBack(rows, w) # Absent} |->
     LET h == ReadBack(rows, v)
     IN [original |-> h["original"], view |-> h["view"], response |-> rows[v].response]]

\* The histories that calls save and rollouts give back.
Saves == Given \cup UNION {{plan[n].history : n \in DOMAIN plan} : plan \in Plans}

\* The differences amount to a log of whole histories (module HistoryLog): a
\* version that reads at all reads back exactly what it was saved with, however
\* the versions it is built on came about, and whatever was pruned meanwhile.
Log == INSTANCE HistoryLog WITH
  History <- Saves, None <- Absent, log <- [b \in Branch |-> LogOf(versions[b])]

KeepsTheLog == Log!LogSpec

\* A response or a compaction a branch keeps for itself is never given the
\* items of another one: the record goes with its version, and a number is not
\* used again while something still names it.
OwnRecordsRead ==
  /\ ArchiveTypeOK
  /\ \A b \in Branch : \A k \in DOMAIN refs[b] :
       LET ref == refs[b][k]
       IN ref.branch = b => ReadBack(versions[b], ref.version) = said[b][k]

\* What "an explicit prune checks later versions and fork references" asks
\* (docs/architecture.md:66): no record is left naming a history that is gone,
\* or another one.
ReferencesKept ==
  \A b \in Branch : \A k \in DOMAIN refs[b] :
    LET ref == refs[b][k]
    IN ReadBack(versions[ref.branch], ref.version) = said[b][k]
=============================================================================
