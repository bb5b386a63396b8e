-------------------------- MODULE RolloutRecovery --------------------------
(***************************************************************************)
(* `history recover` (src/src/rollout.mjs): the checkpoints of a task are  *)
(* rebuilt from the rollout files Codex wrote.  A forked task's own file   *)
(* starts where it left its parent's, which may have gone on since; every  *)
(* record bears an ordinal.  A checkpoint needs the original items that    *)
(* came before its compaction, all of them, with every tool call answered; *)
(* a call that was interrupted is kept as a note that its result is        *)
(* unknown.  What cannot be rebuilt without loss is refused.               *)
(***************************************************************************)
EXTENDS Integers, SequencesExt

CONSTANTS
  MaxRecords,   \* bound on the records of a file; one less for each line lost
  MaxLost,      \* bound on the lines damage takes away
  Unbound

ASSUME RolloutAssumption == MaxRecords \in Nat /\ MaxLost \in Nat /\ Unbound \notin Nat

Files == {"parent", "child"}

VARIABLES
  lines,     \* the records of each file, as they are on the disk
  limit,     \* the ordinal the child was forked at, or Unbound
  ordinals,  \* ghost: the next ordinal of each file
  open,      \* ghost: the calls of each task without an answer yet
  items,     \* ghost: what really happened in each task, item by item
  really,     \* ghost: for each compaction of each task, the items before it
  lost       \* lines damage took away

rolloutVars == <<lines, limit, ordinals, open, items, really, lost>>

RolloutInit ==
  /\ lines = [f \in Files |-> IF f = "parent" THEN <<[ordinal |-> 0, type |-> "meta", id |-> 0]>>
                                             ELSE <<>>]
  /\ limit = Unbound
  /\ ordinals = [f \in Files |-> 1]
  /\ open = [f \in Files |-> {}]
  /\ items = [f \in Files |-> <<>>]
  /\ really = [f \in Files |-> <<>>]
  /\ lost = 0

-----------------------------------------------------------------------------
\* The n-th of a set of numbers, from the smallest.
Nth(S, n) == CHOOSE k \in S : Cardinality({i \in S : i <= k}) = n

\* The elements of a sequence that are of a set, in their order.
Among(s, S) ==
  LET at == {n \in DOMAIN s : s[n] \in S}
  IN [n \in 1 .. Cardinality(at) |-> s[Nth(at, n)]]

\* A function with one more value.
With(f, k, v) == [x \in DOMAIN f \cup {k} |-> IF x = k THEN v ELSE f[x]]

Calls(ids) == {[type |-> "call", id |-> i] : i \in ids}
Note(id) == [type |-> "unknown", id |-> id]

-----------------------------------------------------------------------------
\* What Codex writes: a record under the next ordinal of its file.
Live(f) == /\ f = "child" => limit # Unbound
           /\ ordinals[f] + lost <= MaxRecords

Writes(f, type, id) ==
  /\ lines' = [lines EXCEPT ![f] =
                 Append(@, [ordinal |-> ordinals[f], type |-> type, id |-> id])]
  /\ ordinals' = [ordinals EXCEPT ![f] = @ + 1]

Happens(f, type, id) == items' = [items EXCEPT ![f] = Append(@, [type |-> type, id |-> id])]

Message(f) ==
  /\ Live(f)
  /\ Writes(f, "message", ordinals[f])
  /\ Happens(f, "message", ordinals[f])
  /\ UNCHANGED <<limit, open, really, lost>>

Call(f) ==
  /\ Live(f)
  /\ Writes(f, "call", ordinals[f])
  /\ Happens(f, "call", ordinals[f])
  /\ open' = [open EXCEPT ![f] = @ \cup {ordinals[f]}]
  /\ UNCHANGED <<limit, really, lost>>

Answer(f, id) ==
  /\ Live(f) /\ id \in open[f]
  /\ Writes(f, "output", id)
  /\ Happens(f, "output", id)
  /\ open' = [open EXCEPT ![f] = @ \ {id}]
  /\ UNCHANGED <<limit, really, lost>>

\* The turn is aborted: what the open calls did is not known.
Interrupt(f) ==
  /\ Live(f)
  /\ Writes(f, "aborted", 0)
  /\ LET kept  == Among(items[f], ToSet(items[f]) \ Calls(open[f]))
         notes == [n \in 1 .. Cardinality(open[f]) |-> Note(Nth(open[f], n))]
     IN items' = [items EXCEPT ![f] = kept \o notes]
  /\ open' = [open EXCEPT ![f] = {}]
  /\ UNCHANGED <<limit, really, lost>>

\* The context is compacted.
CompactTask(f) ==
  /\ Live(f) /\ open[f] = {} /\ items[f] # <<>>
  /\ Writes(f, "compacted", ordinals[f])
  /\ really' = [really EXCEPT ![f] = With(@, ordinals[f], items[f])]
  /\ UNCHANGED <<limit, open, items, lost>>

\* The task is forked: the child's file begins with its metadata, of an ordinal
\* before the boundary, and goes on from there.
Fork ==
  /\ limit = Unbound
  /\ limit' = ordinals["parent"]
  /\ ordinals' = [ordinals EXCEPT !["child"] = ordinals["parent"]]
  /\ lines' = [lines EXCEPT !["child"] = <<[ordinal |-> 0, type |-> "meta", id |-> 0]>>]
  /\ items' = [items EXCEPT !["child"] = items["parent"]]
  /\ open' = [open EXCEPT !["child"] = open["parent"]]
  /\ really' = [really EXCEPT !["child"] = really["parent"]]
  /\ UNCHANGED lost

\* A line of a file is gone: a torn write, a file cut or edited.
Damage(f, n) ==
  /\ lost < MaxLost
  /\ \A g \in Files : ordinals[g] + lost <= MaxRecords
  /\ n \in DOMAIN lines[f] \ {1}
  /\ lines' = [lines EXCEPT ![f] = RemoveAt(@, n)]
  /\ lost' = lost + 1
  /\ UNCHANGED <<limit, ordinals, open, items, really>>

RolloutNext ==
  \/ \E f \in Files :
       \/ Message(f) \/ Call(f) \/ Interrupt(f) \/ CompactTask(f)
       \/ \E id \in open[f] : Answer(f, id)
       \/ \E n \in DOMAIN lines[f] : Damage(f, n)
  \/ Fork

RolloutSpec == RolloutInit /\ [][RolloutNext]_rolloutVars

-----------------------------------------------------------------------------
\* planRolloutRecovery: what is known after some records.
Unread == [previous |-> -1, included |-> -1, original |-> <<>>, pending |-> {},
           completed |-> {}, checkpoints |-> <<>>, refused |-> FALSE]

Rejected(s) == [s EXCEPT !.refused = TRUE]

\* Mutant of Aborted: the calls are closed and stay.
AbortedKept(s) == [s EXCEPT !.pending = {}]

\* preserveAbortedToolCalls: the calls without an answer become notes at the end.
Aborted(s) ==
  LET uncertain == Among(s.original, Calls(s.pending))
      notes == [n \in DOMAIN uncertain |-> Note(uncertain[n].id)]
  IN [s EXCEPT !.original = Among(@, ToSet(@) \ Calls(s.pending)) \o notes,
               !.pending = {}]

\* updateToolPairs, and the item itself.
Item(s, r) ==
  LET told == [s EXCEPT !.original = Append(@, [type |-> r.type, id |-> r.id])]
  IN CASE r.type = "call" ->
            IF r.id \in s.pending \cup s.completed THEN Rejected(s)
            ELSE [told EXCEPT !.pending = @ \cup {r.id}]
       [] r.type = "output" ->
            IF r.id \notin s.pending \/ r.id \in s.completed THEN Rejected(s)
            ELSE [told EXCEPT !.pending = @ \ {r.id}, !.completed = @ \cup {r.id}]
       [] OTHER -> told

Compacted(s, r) ==
  IF s.original = <<>> \/ s.pending # {} THEN Rejected(s)
  ELSE [s EXCEPT !.checkpoints = With(@, r.id, s.original)]

\* One record of a file that counts up to `bound` and inherits up to `boundary`.
\* Ordinals follow one another; the metadata of a fork stands before its boundary.
Read(s, r, bound, boundary) ==
  LET ordinal == IF r.type = "meta" /\ boundary # Unbound /\ r.ordinal < boundary
                 THEN boundary - 1 ELSE r.ordinal
      next == [s EXCEPT !.previous = ordinal]
      kept == [next EXCEPT !.included = r.ordinal]
  IN IF s.refused THEN s
     ELSE IF ordinal <= s.previous \/ (s.previous >= 0 /\ ordinal # s.previous + 1) THEN Rejected(s)
     ELSE IF bound # Unbound /\ r.ordinal >= bound THEN next
     ELSE CASE r.type = "aborted" -> Aborted(kept)
            [] r.type = "compacted" -> Compacted(kept, r)
            [] r.type = "meta" -> kept
            [] OTHER -> Item(kept, r)

\* The loop over the records of a file, up to the n-th.
ReadTo(n, start, records, bound, boundary) ==
  LET after[i \in 0 .. n] ==
        IF i = 0 THEN start ELSE Read(after[i - 1], records[i], bound, boundary)
  IN after[n]

Started(s) == [s EXCEPT !.previous = -1, !.included = -1]

ReadFile(s, f, bound, boundary) ==
  LET all == ReadTo(Len(lines[f]), Started(s), lines[f], bound, boundary)
  IN IF bound # Unbound /\ all.included # bound - 1 THEN Rejected(all) ELSE all

\* rolloutChain: the parent up to the boundary, then the task's own file.
Plan(f) ==
  LET all == IF f = "child"
             THEN ReadFile(ReadFile(Unread, "parent", limit, Unbound), "child", Unbound, limit)
             ELSE ReadFile(Unread, "parent", Unbound, Unbound)
  IN IF all.checkpoints = <<>> THEN Rejected(all) ELSE all

-----------------------------------------------------------------------------
\* Files and ghosts have their shapes.
RolloutTypeOK ==
  /\ limit \in {Unbound} \cup Nat /\ lost \in 0 .. MaxLost
  /\ \A f \in Files : Len(lines[f]) <= MaxRecords + 1 /\ DOMAIN really[f] \subseteq Nat

\* A checkpoint that is recovered has exactly the items that really came before
\* its compaction, whatever was interrupted, forked, written on or lost; and
\* when nothing is lost every compaction is recovered, and a task refused only
\* if it has none.
RecoveredIsTrue ==
  /\ RolloutTypeOK
  /\ \A f \in {g \in Files : g = "child" => limit # Unbound} :
       LET plan == Plan(f)
       IN /\ ~plan.refused =>
               \A c \in DOMAIN plan.checkpoints :
                 c \in DOMAIN really[f] /\ plan.checkpoints[c] = really[f][c]
          /\ lost = 0 => /\ DOMAIN plan.checkpoints = DOMAIN really[f]
                         /\ plan.refused <=> really[f] = <<>>
=============================================================================
