---- MODULE TurnGeneration ----
(***************************************************************************)
(* Engine.generate, compact and sample (engine.mjs): the requests of one   *)
(* Codex turn, one after the other.  A request asks its target, runs the   *)
(* searches the target calls for and asks again, at most maxRounds times;  *)
(* it may once fall back to another target of the same provider, and once  *)
(* replace its history by a summary.  A transcript is a sequence of tool   *)
(* calls and results; messages and reasoning are left out.                 *)
(***************************************************************************)
EXTENDS Integers, FiniteSets, Sequences, SequencesExt

CONSTANTS
  Requests,    \* the number of requests of the turn
  None,        \* no request, no record, no target
  MaxRounds,   \* webSearch.maxRounds
  QuotaHits    \* whether the archive's quota may refuse a write

Reply == 1..Requests   \* the requests in their order, and the ids of their responses

Target == {"routed", "spare"}
Mode == [entry : {"api", "subscription"}, searches : BOOLEAN]
Item == [what : {"call", "result"}, of : Reply, round : Nat, inner : BOOLEAN]
\* A request, and what is stored of its response.
Asked == [kind : {"turn", "compaction"}, from : Reply \cup {None}]
Stored == [items : Seq(Item), target : Target]

ASSUME TurnConstants ==
  /\ Requests \in Nat
  /\ None \notin Nat \cup Target \cup Asked \cup Stored
  /\ MaxRounds \in Nat \ {0}
  /\ QuotaHits \in BOOLEAN

VARIABLES
  mode,      \* the turn's entry, and whether the Router searches for its target
  now,       \* the request that runs, or ran last
  at,        \* where it is
  req,       \* its kind and the response it continues
  target,    \* the target it asks: the routed one, or the fallback
  input,     \* body.input
  heard,     \* output and upstreamOutput: the targets the client heard, and those that began
  effects,   \* sideEffect: a tool has run for this request
  round,     \* how many more times it has asked
  reduced,   \* migrationSummaryAttempted
  reply,     \* response.output of the round being processed
  lease,     \* the target of the "lease:" key of the turn
  evicted,   \* whether that key was ever lost (history)
  record,    \* the "response:" keys: the input of a continuation, and the target
  last,      \* "last-target:"
  point,     \* the checkpoints of compaction responses
  shown,     \* the transcript the client holds with each response
  told       \* the responses whose completion the client has received

flow == <<target, heard, effects, round, reduced>>
bound == <<lease, evicted>>
store == <<record, last, point>>
client == <<shown, told>>
turnVars == <<mode, now, at, req, input, reply, flow, bound, store, client>>

Call(inner) == [what |-> "call", of |-> now, round |-> round, inner |-> inner]
Result(call) == [call EXCEPT !.what = "result"]

\* The calls of a transcript that have no result yet.
Pending(s) == {i \in ToSet(s) : i.what = "call" /\ Result(i) \notin ToSet(s)}

\* A transcript in which no result stands before its call, or before another call of that answer.
Ordered(s) ==
  /\ IsInjective(s)
  /\ \A j \in DOMAIN s : s[j].what = "result" =>
       /\ \E i \in 1..(j - 1) : Result(s[i]) = s[j] /\ s[i].what = "call"
       /\ \A i \in DOMAIN s :
            s[i].what = "call" /\ s[i].of = s[j].of /\ s[i].round = s[j].round => i < j

\* A transcript a provider accepts: every call has its result too.
Whole(s) == Pending(s) = {} /\ Ordered(s)

TurnTypeOK ==
  /\ mode \in Mode
  /\ now \in 0..Requests
  /\ at \in {"idle", "asking", "searching", "summary", "compacting", "done", "failed"}
  /\ req \in Asked \cup {None}
  /\ target \in Target
  /\ input \in Seq(Item) /\ reply \in Seq(Item)
  /\ heard \in [client : SUBSET Target, began : SUBSET Target]
  /\ effects \in BOOLEAN /\ reduced \in BOOLEAN /\ evicted \in BOOLEAN
  /\ round \in 0..MaxRounds
  /\ lease \in Target \cup {None} /\ last \in Target \cup {None}
  /\ record \in [Reply -> Stored \cup {None}]
  /\ point \in [Reply -> {"none", "native", "virtual"}]
  /\ shown \in [Reply -> Seq(Item)]
  /\ told \subseteq 1..now

TurnInit ==
  /\ mode \in Mode
  /\ now = 0
  /\ at = "idle"
  /\ req = None
  /\ target = "routed"
  /\ input = <<>> /\ reply = <<>>
  /\ heard = [client |-> {}, began |-> {}]
  /\ effects = FALSE /\ reduced = FALSE /\ evicted = FALSE
  /\ round = 0
  /\ lease = None /\ last = None
  /\ record = [t \in Reply |-> None]
  /\ point = [t \in Reply |-> "none"]
  /\ shown = [t \in Reply |-> <<>>]
  /\ told = {}

Fails == at' = "failed"

-----------------------------------------------------------------------------
(* A request arrives. *)

Quiet == at \in {"idle", "done", "failed"}
Latest == IF told = {} THEN None ELSE CHOOSE t \in told : \A s \in told : s <= t

\* The results of the calls that were left to the client.
Answered(from) ==
  LET open == SetToSeq(Pending(shown[from])) IN [i \in DOMAIN open |-> Result(open[i])]

\* A turn goes on while the client has calls to answer, with a compaction in between.
GoesOn(from, kind) ==
  IF point[from] # "none" \/ record[from].items = <<>> THEN kind = "turn"
  ELSE Pending(shown[from]) # {}

\* Replayed by its id, or from the client's own copy, and routed: the lease of the turn freezes
\* the target.  A compaction may come before the results of the client's calls: it is refused.
Begin(kind, byId, answers, migrated) ==
  LET from == Latest
      delta == IF answers THEN Answered(from) ELSE <<>>
      body == IF from = None THEN <<>>
              ELSE (IF byId THEN record[from].items ELSE shown[from]) \o delta
      goal == IF kind = "turn" /\ lease # None THEN lease ELSE "routed"
  IN
  /\ Quiet
  /\ now < Requests
  /\ IF from = None THEN kind = "turn" /\ ~byId /\ ~answers /\ ~migrated
     ELSE GoesOn(from, kind) /\ (kind = "turn" => answers)
  /\ now' = now + 1
  /\ req' = [kind |-> kind, from |-> from]
  /\ shown' = [shown EXCEPT ![now + 1] = IF from = None THEN <<>> ELSE shown[from] \o delta]
  /\ input' = body
  /\ target' = goal
  /\ lease' = IF kind = "turn" THEN goal ELSE lease
  /\ heard' = [client |-> {}, began |-> {}]
  /\ effects' = \E i \in ToSet(body) : i.what = "result"
  /\ round' = 0
  /\ reduced' = migrated
  /\ reply' = <<>>
  /\ at' = IF kind = "turn" THEN "asking" ELSE IF Pending(body) # {} THEN "failed" ELSE "compacting"
  /\ UNCHANGED <<mode, evicted, store, told>>

\* The "lease:" key is in memory only: it expires or is evicted.
Evict ==
  /\ lease # None
  /\ Quiet
  /\ lease' = None
  /\ evicted' = TRUE
  /\ UNCHANGED <<mode, now, at, req, input, reply, flow, store, client>>

-----------------------------------------------------------------------------
(* One round of generate. *)

Hears(visible) ==
  heard' = [began |-> heard.began \cup {target},
            client |-> IF visible THEN heard.client \cup {target} ELSE heard.client]
\* Mutant of Silent: only what the client heard counts.
SilentToClient == heard.client = {}
Silent == heard.began = {} /\ heard.client = {}

\* The first events of an answer.  They reach the client unless they wait for the phase of a
\* message, or for the name of a call.
Streams(visible) ==
  /\ at = "asking"
  /\ Hears(visible)
  /\ UNCHANGED <<mode, now, at, req, input, reply, target, effects, round, reduced, bound, store,
                 client>>

\* Mutant of Complete: the client is told whether the response was stored or not.
CompleteTold(items, visible) ==
  /\ \/ record' = [record EXCEPT ![now] = [items |-> items, target |-> target]]
     \/ QuotaHits /\ UNCHANGED record
  /\ shown' = [shown EXCEPT ![now] = @ \o visible]
  /\ told' = told \cup {now}
  /\ at' = "done"

\* A response is stored, and only then the client gets the terminal event, if it is still there.
\* The quota may refuse the write.
Complete(items, visible) ==
  \/ /\ record' = [record EXCEPT ![now] = [items |-> items, target |-> target]]
     /\ \/ /\ shown' = [shown EXCEPT ![now] = @ \o visible]
           /\ told' = told \cup {now}
           /\ at' = "done"
        \/ Fails /\ UNCHANGED <<shown, told>>
  \/ QuotaHits /\ Fails /\ UNCHANGED <<record, shown, told>>

\* The provider completes its answer without a call that is the Router's.
Answers(external) ==
  /\ at = "asking"
  /\ LET output == IF external THEN <<Call(FALSE)>> ELSE <<>>
     IN Complete(input \o output, output)
  /\ last' = IF record' # record THEN target ELSE last
  /\ Hears(TRUE)
  /\ UNCHANGED <<mode, now, req, input, reply, target, effects, round, reduced, bound, point>>

\* The provider calls for a search: it is run here, unless the rounds are used up.
CallsSearch(external) ==
  /\ at = "asking"
  /\ mode.searches
  /\ Hears(TRUE)
  /\ reply' = <<Call(TRUE)>> \o (IF external THEN <<Call(FALSE)>> ELSE <<>>)
  /\ IF round >= MaxRounds
     THEN Fails /\ UNCHANGED round
     ELSE at' = "searching" /\ round' = round + 1
  /\ UNCHANGED <<mode, now, req, input, target, effects, reduced, bound, store, client>>

\* Mutant of Exchange: the result is put before the other calls of the answer.
ExchangeResultFirst == <<Head(reply), Result(reply[1])>> \o Tail(reply)

\* The calls of the answer, then the results the Router has for them.
Exchange == reply \o <<Result(reply[1])>>

\* The internal call has run.  With none left to the client the provider is asked again; else
\* the answer, its calls first, is stored with the result under the id the client sees.
Searched ==
  /\ at = "searching"
  /\ effects' = TRUE
  /\ LET items == input \o Exchange
     IN IF Len(reply) > 1
        THEN Complete(items, Tail(reply)) /\ UNCHANGED input
        ELSE at' = "asking" /\ input' = items /\ UNCHANGED <<record, shown, told>>
  /\ UNCHANGED <<mode, now, req, reply, target, heard, round, reduced, bound, last, point>>

\* Mutant of Overflows: a summary is made as often as the context is too long.
OverflowsAgain(foreign) ==
  /\ at = "asking"
  /\ at' = IF Silent /\ foreign THEN "summary" ELSE "failed"
  /\ UNCHANGED <<mode, now, req, input, reply, flow, bound, store, client>>

\* The context is too long and nothing was heard: one summary, when the history came from another
\* target and this one allows it; never a second.
Overflows(foreign) ==
  /\ at = "asking"
  /\ at' = IF Silent /\ ~reduced /\ foreign THEN "summary" ELSE "failed"
  /\ UNCHANGED <<mode, now, req, input, reply, flow, bound, store, client>>

\* The summary replaces what comes before the last user message: nothing of this turn.
Summarised ==
  /\ at = "summary"
  /\ at' = "asking"
  /\ reduced' = TRUE
  /\ UNCHANGED <<mode, now, req, input, reply, target, heard, effects, round, bound, store, client>>

\* The provider is not reached, or answers with a status that may pass.  The api entry asks the
\* fallback target instead, when nothing was heard, no tool has run and this is the first round.
Breaks ==
  /\ at = "asking"
  /\ IF mode.entry = "api" /\ Silent /\ ~effects /\ round = 0
     THEN target' = "spare" /\ lease' = "spare" /\ round' = round + 1 /\ UNCHANGED at
     ELSE Fails /\ UNCHANGED <<target, lease, round>>
  /\ UNCHANGED <<mode, now, req, input, reply, heard, effects, reduced, evicted, store, client>>

\* Any other error of the request, its target, a search or a summary, or the client is gone.
Gives ==
  /\ at \in {"asking", "searching", "summary", "compacting"}
  /\ Fails
  /\ UNCHANGED <<mode, now, req, input, reply, flow, bound, store, client>>

-----------------------------------------------------------------------------
(* compact. *)

\* The target compacts itself, or a summary is made into an item of the Router's own.  The item
\* replaces the history: response and checkpoint are stored before the client gets it.  Without
\* its checkpoint only an item of the target's own is delivered.
Compacts(kind) ==
  /\ at = "compacting"
  /\ \/ /\ record' = [record EXCEPT ![now] = [items |-> <<>>, target |-> target]]
        /\ \/ point' = [point EXCEPT ![now] = kind]
           \/ QuotaHits /\ kind = "native" /\ UNCHANGED point
        /\ shown' = [shown EXCEPT ![now] = SetToSeq(Pending(@))]
        /\ told' = told \cup {now}
        /\ at' = "done"
     \/ /\ QuotaHits
        /\ record' \in {record, [record EXCEPT ![now] = [items |-> <<>>, target |-> target]]}
        /\ Fails
        /\ UNCHANGED <<point, shown, told>>
  /\ UNCHANGED <<mode, now, req, input, reply, flow, bound, last>>

Step ==
  \/ \E b \in BOOLEAN : Streams(b) \/ Answers(b) \/ CallsSearch(b) \/ Overflows(b)
  \/ Searched
  \/ Summarised
  \/ Breaks
  \/ Gives
  \/ \E kind \in {"native", "virtual"} : Compacts(kind)

TurnNext ==
  \/ \E kind \in {"turn", "compaction"}, byId, answers, migrated \in BOOLEAN :
       Begin(kind, byId, answers, migrated)
  \/ Evict
  \/ Step

\* Every step of a request ends: timeouts end the call of a provider, a search or a summary.
TurnSpec == TurnInit /\ [][TurnNext]_turnVars /\ WF_turnVars(Step)

-----------------------------------------------------------------------------
(* Properties. *)

\* A provider is only asked with transcripts it accepts, however calls for searches, which the
\* client never sees, mix with the client's own over rounds, continuations and compactions.
PairsWhole == at \in {"asking", "summary", "compacting"} => Whole(input)

\* What is stored of a response is what its continuation needs, before the client can continue
\* it: the same calls are open in both copies, and the next request knows the last target.  (That
\* of a response that mixes searches and client calls it does not: generate leaves it alone.)
KeptBeforeTold ==
  /\ TurnTypeOK
  /\ \A t \in told : record[t] # None /\ Pending(record[t].items) = Pending(shown[t])
  /\ now \in told /\ req.kind = "turn" /\ Len(reply) < 2 => last = record[now].target

\* A response is the answer of one target: nothing that was begun is dropped for the answer of
\* another, and the results of tools return to the target that called them as long as the
\* memory keeps the lease of the turn.
OneVoice ==
  /\ Cardinality(heard.began) <= 1
  /\ ~evicted /\ at = "asking" =>
       \A i \in ToSet(input) :
         i.what = "result" /\ i.of # now => record[i.of].target = target

\* Retries are bounded: whatever fails, a request ends.
RequestEnds == at = "asking" ~> Quiet
====
