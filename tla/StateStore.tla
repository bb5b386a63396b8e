----------------------------- MODULE StateStore -----------------------------
(***************************************************************************)
(* StateStore of src/state.mjs: a memory map with a size limit and a time  *)
(* to live over the persisted records of the archive.  JavaScript runs     *)
(* each call to its end, so a call is a step.  A value is a version, its   *)
(* size and whether it is whole: a checkpoint is persisted without the     *)
(* history it refers to and getState of the archive puts that back.        *)
(* A write the archive refuses (quota) throws before memory is touched and *)
(* a value that fits nowhere is refused: both leave everything unchanged.  *)
(***************************************************************************)
EXTENDS Integers, Sequences, SequencesExt, FiniteSetsExt

CONSTANTS
  Keys,         \* the keys in use
  Durable,      \* those with a durable prefix, when there is an archive
  Responses,    \* response:..., written by save with the history
  Checkpoints,  \* checkpoint:..., written by saveCheckpoint
  Cleared,      \* observation-incomplete:..., removed by the engine
  Versions, Sizes, MaxBytes, None

ASSUME StateConstants ==
  /\ Durable \subseteq Keys
  /\ Responses \cup Checkpoints \cup Cleared \subseteq Durable
  /\ Sizes \subseteq Nat \ {0}
  /\ MaxBytes \in Nat
  /\ None \notin [ver : Versions, size : Sizes, whole : BOOLEAN]

VARIABLES
  mem,      \* [order, held, bytes, stale]: the Map with its insertion order,
            \* the running byte count and the keys past their time to live
  records   \* what getState of the archive answers

stateVars == <<mem, records>>

Value == [ver : Versions, size : Sizes, whole : BOOLEAN]
Whole == {v \in Value : v.whole}
Memory == [order : Seq(Keys), held : [Keys -> Value \cup {None}],
           bytes : Int, stale : SUBSET Keys]

-----------------------------------------------------------------------------
Empty == [order |-> <<>>, held |-> [k \in Keys |-> None], bytes |-> 0, stale |-> {}]

Held(m) == {k \in Keys : m.held[k] # None}

\* remove
Without(m, k) ==
  [order |-> RemoveFirst(m.order, k),
   held  |-> [m.held EXCEPT ![k] = None],
   bytes |-> IF k \in Held(m) THEN m.bytes - m.held[k].size ELSE m.bytes,
   stale |-> m.stale \ {k}]

\* The loop of setMemory: the oldest entry goes, one after another, until b fits.
Evicted(m, b) ==
  LET after[n \in 0 .. Len(m.order)] ==
        IF n = 0 THEN m
        ELSE IF after[n - 1].bytes + b <= MaxBytes THEN after[n - 1]
        ELSE Without(after[n - 1], Head(after[n - 1].order))
  IN after[Len(m.order)]

Added(m, k, v) ==
  [order |-> Append(m.order, k), held |-> [m.held EXCEPT ![k] = v],
   bytes |-> m.bytes + v.size, stale |-> m.stale \ {k}]

\* Mutant of Stored: the size of the value that goes is not taken off.
StoredOver(m, k, v) ==
  IF v.size > MaxBytes THEN m
  ELSE Added(Evicted([Without(m, k) EXCEPT !.bytes = m.bytes], v.size), k, v)

Stored(m, k, v) ==
  IF v.size > MaxBytes THEN m
  ELSE Added(Evicted(Without(m, k), v.size), k, v)

\* getState, kept in memory when it is there and fits
Loaded(m, k) ==
  IF k \notin Durable \/ records[k] = None THEN m ELSE Stored(m, k, records[k])

Touched(m, k) ==
  IF m.held[k] # None /\ k \notin m.stale
  THEN [m EXCEPT !.order = Append(RemoveFirst(@, k), k)]
  ELSE Loaded(Without(m, k), k)

\* the record of a checkpoint without its history
Compact(v) == [v EXCEPT !.whole = FALSE, !.size = Min(Sizes)]

-----------------------------------------------------------------------------
StateInit == mem = Empty /\ records = [k \in Durable |-> None]

Get(k) == mem' = Touched(mem, k) /\ UNCHANGED records

\* set of a key the archive keeps
SetDurable(k, v) ==
  /\ k \in Durable \ (Responses \cup Checkpoints)
  /\ records' = [records EXCEPT ![k] = v]
  /\ mem' = Stored(mem, k, v)

\* set of a key that only memory keeps
SetVolatile(k, v) ==
  /\ k \notin Durable
  /\ v.size <= MaxBytes
  /\ mem' = Stored(mem, k, v)
  /\ UNCHANGED records

\* save with an archive: a response id is recorded once; a repeated save
\* answers with the version there is
Save(k, v) ==
  /\ k \in Responses
  /\ \/ /\ records[k] = None
        /\ records' = [records EXCEPT ![k] = v]
        /\ mem' = Stored(mem, k, v)
     \/ /\ records[k] # None
        /\ mem' = Touched(mem, k)
        /\ UNCHANGED records

\* Mutant of SaveCheckpoint: memory keeps the record without its history.
SaveCompact(k, v) ==
  /\ k \in Checkpoints
  /\ records' = [records EXCEPT ![k] = v]
  /\ mem' = Stored(mem, k, Compact(v))

\* saveCheckpoint with a history reference: set of the record without its
\* history, then setMemory of the whole one (the lineage key it also sets is
\* an ordinary durable key)
SaveCheckpoint(k, v) ==
  /\ k \in Checkpoints
  /\ records' = [records EXCEPT ![k] = v]
  /\ mem' = Stored(Stored(mem, k, Compact(v)), k, v)

\* the engine forgets a failed observation: memory only
Clear(k) == k \in Cleared /\ mem' = Without(mem, k) /\ UNCHANGED records

\* the time to live of an entry passes
Age(k) ==
  /\ mem.held[k] # None
  /\ mem' = [mem EXCEPT !.stale = @ \cup {k}]
  /\ UNCHANGED records

\* the process ends and starts again over the same archive
Restart == mem' = Empty /\ UNCHANGED records

StateNext ==
  \/ \E k \in Keys : Get(k) \/ Clear(k) \/ Age(k)
  \/ \E k \in Keys, v \in Whole :
       SetDurable(k, v) \/ SetVolatile(k, v) \/ Save(k, v) \/ SaveCheckpoint(k, v)
  \/ Restart

StateSpec == StateInit /\ [][StateNext]_stateVars

-----------------------------------------------------------------------------
\* The types; a record read back from the archive is whole.
StateTypeOK == mem \in Memory /\ records \in [Durable -> Whole \cup {None}]

\* The byte count that decides evictions is the size of what is held, within
\* the limit, and the eviction order lists every held key once (setMemory and
\* remove keep all three by hand).
BytesExact ==
  /\ StateTypeOK
  /\ mem.bytes = MapThenSumSet(LAMBDA k : mem.held[k].size, Held(mem))
  /\ mem.bytes <= MaxBytes
  /\ ToSet(mem.order) = Held(mem)
  /\ Len(mem.order) = Cardinality(Held(mem))

\* Memory is a layer that can be rebuilt from the archive: what it answers for
\* a persisted key is what the archive would answer (docs/architecture.md:17).
Rebuildable ==
  \A k \in Durable : mem.held[k] # None => mem.held[k] = records[k]
=============================================================================
