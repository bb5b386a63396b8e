-------------------------- MODULE ResponseStreams --------------------------
(***************************************************************************)
(* What a client reads while an answer is produced (src/src/response-      *)
(* stream.mjs).  The provider's events pass two filters.  The first holds  *)
(* everything from the start of a message until each message begun is      *)
(* done, and then gives it out in its order, the messages with the phase   *)
(* they ended with.  The second joins the rounds of a search into one      *)
(* answer: calls of the private search tool are never shown, a call whose  *)
(* name is not known yet waits for it, and the items shown are numbered    *)
(* anew.                                                                   *)
(***************************************************************************)
EXTENDS Integers, Sequences

CONSTANTS
  ItemsPerRound,  \* bound on the items of one round
  Rounds,         \* bound on the rounds
  MaxDeltas,      \* bound on the pieces between an item's start and its end
  Absent

Phases == {"commentary", "final_answer"}

ASSUME StreamAssumption ==
  /\ ItemsPerRound \in Nat /\ Rounds \in Nat \ {0} /\ MaxDeltas \in Nat
  /\ Absent \notin Phases

VARIABLES
  policy,   \* TRUE: the target's messages are held until their phase is certain
  roundNo,    \* the round the provider is in
  made,     \* its items: kind, phase, how far each is streamed
  held,     \* events not given out by the first filter
  pending,  \* indexes of messages begun; each with its last phase or Absent
  merged,   \* the second filter: its items, the output, what the client was shown
  ended     \* "no", "finished", "failed"

streamVars == <<policy, roundNo, made, held, pending, merged, ended>>

\* A function with one more value, or another one.
Having(f, k, v) == [x \in DOMAIN f \cup {k} |-> IF x = k THEN v ELSE f[x]]

Fresh == [pending |-> <<>>, hidden |-> "unknown", done |-> FALSE, at |-> Absent]

StreamInit ==
  /\ policy \in BOOLEAN
  /\ roundNo = 1
  /\ made = <<>>
  /\ held = <<>>
  /\ pending = <<>>
  /\ merged = [items |-> <<>>, output |-> <<>>, shown |-> <<>>, failed |-> FALSE]
  /\ ended = "no"

-----------------------------------------------------------------------------
\* SearchResponseStream.project: what the client is shown of an event.
Projected(e, at) == [of |-> <<roundNo, e.index>>, type |-> e.type, at |-> at, phase |-> e.phase]

\* push, for an event that starts its item or whose item was started: a call
\* without a name waits, a private one is dropped, any other gets the next number.
PushOne(m, e) ==
  LET old  == IF e.type = "added" THEN Fresh ELSE m.items[e.index]
      over == e.type = "done"
      wait == Append(old.pending, e)
      keeps(item) == [m EXCEPT !.items = Having(@, e.index, item)]
  IN IF old.hidden = "yes"
       THEN keeps([old EXCEPT !.done = @ \/ over])
     ELSE IF old.hidden = "no"
       THEN IF e.what = "private" THEN [m EXCEPT !.failed = TRUE]
            ELSE [keeps([old EXCEPT !.done = @ \/ over]) EXCEPT
                    !.shown = Append(@, Projected(e, old.at))]
     ELSE IF e.what \in {"none", "unnamed"}
       THEN keeps([old EXCEPT !.pending = wait])
     ELSE IF e.what = "private"
       THEN keeps([old EXCEPT !.pending = <<>>, !.hidden = "yes", !.done = over])
     ELSE [items  |-> Having(m.items, e.index, [pending |-> <<>>, hidden |-> "no", done |-> over,
                                                at |-> Len(m.output)]),
           output |-> Append(m.output, <<roundNo, e.index>>),
           shown  |-> m.shown \o [n \in 1 .. Len(wait) |-> Projected(wait[n], Len(m.output))],
           failed |-> m.failed]

Push(m, e) ==
  LET begun == e.index \in DOMAIN m.items
  IN IF m.failed THEN m
     ELSE IF IF begun THEN e.type = "added" ELSE e.type = "delta"
       THEN [m EXCEPT !.failed = TRUE]
     ELSE IF begun \/ e.type = "added"
       THEN PushOne(m, e)
     ELSE PushOne(PushOne(m, [e EXCEPT !.type = "added"]), e)

\* The first n of some events are pushed, one after the other.
Pushed(m, events, n) ==
  LET after[k \in 0 .. n] == IF k = 0 THEN m ELSE Push(after[k - 1], events[k])
  IN after[n]

\* endRound: what the whole response has and the stream left out; then every
\* item must be known and done.
Completed(m, i) ==
  LET event(type) == [index |-> i, type |-> type, what |-> made[i].kind, phase |-> made[i].phase]
      told == IF i \in DOMAIN m.items THEN m ELSE Push(m, event("added"))
  IN IF told.items[i].done THEN told ELSE Push(told, event("done"))

EndRound(m) ==
  LET after[i \in 0 .. Len(made)] == IF i = 0 THEN m ELSE Completed(after[i - 1], i)
      all == after[Len(made)]
  IN [all EXCEPT !.failed = @ \/ \E i \in DOMAIN all.items : ~all.items[i].done]

-----------------------------------------------------------------------------
\* Every message begun has its last phase; mutant: one of them has.
SomeKnown(phases) == phases = <<>> \/ \E i \in DOMAIN phases : phases[i] # Absent
AllKnown(phases) == \A i \in DOMAIN phases : phases[i] # Absent

\* stabilizeResponseMessagePhases: what is held after an event, what is given.
Hold(e) ==
  LET begins == e.type = "added" /\ e.what = "message"
      ends   == e.type = "done" /\ e.what = "message" /\ e.index \in DOMAIN pending
      after  == IF begins THEN Having(pending, e.index, Absent)
                ELSE IF ends THEN [pending EXCEPT ![e.index] = e.phase]
                ELSE pending
      kept   == Append(held, e)
      settle(x) == IF x.what = "message" /\ x.index \in DOMAIN after /\ after[x.index] # Absent
                   THEN [x EXCEPT !.phase = after[x.index]] ELSE x
  IN IF ~policy \/ (held = <<>> /\ ~begins)
       THEN [held |-> <<>>, pending |-> <<>>, given |-> <<e>>]
     ELSE IF AllKnown(after)
       THEN [held |-> <<>>, pending |-> <<>>,
             given |-> [n \in 1 .. Len(kept) |-> settle(kept[n])]]
     ELSE [held |-> kept, pending |-> after, given |-> <<>>]

\* One event of the provider passes both filters.
Passes(e) ==
  LET hold == Hold(e)
      next == Pushed(merged, hold.given, Len(hold.given))
  IN /\ held' = hold.held
     /\ pending' = hold.pending
     /\ merged' = next
     /\ ended' = IF next.failed THEN "failed" ELSE ended
     /\ UNCHANGED <<policy, roundNo>>

\* The provider starts an item; a call may come without its name at first.
Adds(kind, phase, unnamed) ==
  /\ ended = "no" /\ Len(made) < ItemsPerRound
  /\ (kind = "message") = (phase # Absent)
  /\ unnamed => kind # "message"
  /\ made' = Append(made, [kind |-> kind, phase |-> phase, deltas |-> 0, done |-> FALSE])
  /\ Passes([index |-> Len(made) + 1, type |-> "added", phase |-> phase,
             what |-> IF unnamed THEN "unnamed" ELSE kind])

Extends(i) ==
  /\ ended = "no" /\ ~made[i].done /\ made[i].deltas < MaxDeltas
  /\ made' = [made EXCEPT ![i].deltas = @ + 1]
  /\ Passes([index |-> i, type |-> "delta", what |-> "none", phase |-> Absent])

\* It ends an item; a message's phase may have changed since it began.
Ends(i, phase) ==
  /\ ended = "no" /\ ~made[i].done
  /\ (made[i].kind = "message") = (phase # Absent)
  /\ made' = [made EXCEPT ![i].done = TRUE, ![i].phase = phase]
  /\ Passes([index |-> i, type |-> "done", what |-> made[i].kind, phase |-> phase])

\* The answer completes: an item the stream did not end is taken from it; what
\* is still held means the stream was cut.  Private calls alone ask for one more
\* round, up to the limit of rounds; anything else is the end.
Completes ==
  /\ ended = "no" /\ made # <<>>
  /\ LET next  == EndRound(merged)
         kinds == {made[i].kind : i \in DOMAIN made}
         again == "private" \in kinds /\ "call" \notin kinds
     IN IF held # <<>> \/ next.failed \/ (again /\ roundNo = Rounds)
          THEN ended' = "failed" /\ UNCHANGED <<roundNo, made, merged>>
        ELSE IF again
          THEN /\ roundNo' = roundNo + 1
               /\ made' = <<>>
               /\ merged' = [next EXCEPT !.items = <<>>]
               /\ UNCHANGED ended
        ELSE /\ ended' = "finished"
             /\ merged' = next
             /\ UNCHANGED <<roundNo, made>>
  /\ UNCHANGED <<policy, held, pending>>

StreamNext ==
  \/ \E kind \in {"message", "call", "private"}, phase \in Phases \cup {Absent}, unnamed \in BOOLEAN :
       Adds(kind, phase, unnamed)
  \/ \E i \in DOMAIN made : Extends(i) \/ \E phase \in Phases \cup {Absent} : Ends(i, phase)
  \/ Completes

StreamSpec == StreamInit /\ [][StreamNext]_streamVars

-----------------------------------------------------------------------------
\* The shapes of the filters' state.
StreamTypeOK ==
  /\ policy \in BOOLEAN /\ roundNo \in 1 .. Rounds /\ Len(made) <= ItemsPerRound
  /\ DOMAIN merged.items \subseteq 1 .. ItemsPerRound
  /\ ended \in {"no", "finished", "failed"}

\* Whatever the order in which items start, are named and end, the client reads
\* each item under one number of its own, from its start to its end, once, and
\* numbers that follow one another; and at the end no item stays open.
ItemsReadWhole ==
  LET shown  == merged.shown
      output == merged.output
      seen   == 1 .. Len(shown)
  IN /\ \A k \in seen :
          /\ \E n \in 1 .. Len(output) : output[n] = shown[k].of
          /\ \A n \in 1 .. Len(output) : output[n] = shown[k].of => shown[k].at = n - 1
          /\ shown[k].type = "added" <=> \A j \in seen : shown[j].of = shown[k].of => j >= k
          /\ shown[k].type = "done" => \A j \in seen : shown[j].of = shown[k].of => j <= k
     /\ \A n \in 1 .. Len(output) : \E k \in seen :
          /\ shown[k].of = output[n]
          /\ ended = "finished" => shown[k].type = "done"

\* Under the policy, no message is shown with one phase first and another later:
\* all that the client reads of it bears the phase it ended with.
PhaseCertain ==
  policy =>
    \A m, n \in 1 .. Len(merged.shown) :
      LET e == merged.shown[m]
          f == merged.shown[n]
      IN e.of = f.of /\ Absent \notin {e.phase, f.phase} => e.phase = f.phase

\* What a client relies on while it reads, of the numbers and of the phases.
ClientReads == StreamTypeOK /\ ItemsReadWhole /\ PhaseCertain
=============================================================================
