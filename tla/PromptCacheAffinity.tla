------------------------ MODULE PromptCacheAffinity ------------------------
(***************************************************************************)
(* The key a third-party provider may keep its prompt cache under          *)
(* (src/src/prompt-cache-affinity.mjs).  A turn keeps the key of its first *)
(* request; a new turn takes the client's, its parent thread's or its      *)
(* thread's lineage, or begins one.  Lineages are remembered in one record *)
(* of the archive, bounded in number and in age.  The secret that makes    *)
(* keys opaque is made once, in the Keychain, by the first request.        *)
(***************************************************************************)
EXTENDS Integers, SequencesExt, FiniteSetsExt

CONSTANTS
  Thread, Parent,  \* threads of one account; Parent[t] is a thread or Unset
  TurnOf,          \* turns, and the thread each belongs to
  ClientKey,       \* keys a client may name
  Unset,
  TtlMs,           \* PROMPT_CACHE_LINEAGE_TTL_MS, in ticks
  MaxLineages,     \* PROMPT_CACHE_MAX_LINEAGES
  MaxTime,         \* bound on time
  MaxSecrets,      \* bound on the secrets made
  MaxRequests,     \* bound on requests
  MaxKills         \* bound on deaths of the Router

\* A lineage is that of a client's key, or of a thread and the time it began.
Lineages == ({"client"} \X ClientKey) \cup ({"thread"} \X Thread \X Nat)

ASSUME AffinityAssumption ==
  /\ Parent \in [Thread -> Thread \cup {Unset}]
  /\ Unset \notin Thread \cup ClientKey \cup Lineages \cup (Nat \X Lineages)
  /\ TurnOf \in [DOMAIN TurnOf -> Thread]
  /\ {TtlMs, MaxLineages} \subseteq Nat \ {0} /\ {MaxTime, MaxSecrets, MaxRequests, MaxKills} \subseteq Nat

VARIABLES
  item,     \* the secret in the Keychain: its number, 0 while there is none
  secrets,  \* how many were made
  secret,   \* the one this process has, 0 while it has none
  loading,  \* key(): "no", or what it is at, with the secret it made
  index,    \* the entries of the record, the last used first
  now, requests, kills,
  kept      \* ghost: of each turn and thread what its last request was given, when, and
            \* which references were used since

affinityVars == <<item, secrets, secret, loading, index, now, requests, kills, kept>>

Turns == DOMAIN TurnOf
Refs == (Turns \X {"turn"}) \cup (Thread \X {"thread"})
NotLoading == [at |-> "no", made |-> 0]
Never == [key |-> Unset, at |-> 0, since |-> {}, client |-> FALSE]

AffinityInit ==
  /\ item = 0 /\ secrets = 0 /\ secret = 0 /\ loading = NotLoading
  /\ index = <<>> /\ now = 0 /\ requests = 0 /\ kills = 0
  /\ kept = [ref \in Refs |-> Never]

-----------------------------------------------------------------------------
Fitting(entries) == SubSeq(entries, 1, Min({Len(entries), MaxLineages}))

\* The entries at the positions that have a place, each at its place.
Placed(entries, place) ==
  [k \in 1 .. Cardinality(DOMAIN place) |->
     entries[CHOOSE n \in DOMAIN place : place[n] = k]]

\* prunedIndex: what has not expired, the last used first, no more than fit.
Pruned(entries) ==
  LET alive == {n \in 1 .. Len(entries) : entries[n].expiresAt > now}
      ahead(m, n) == \/ entries[m].updatedAt > entries[n].updatedAt
                     \/ entries[m].updatedAt = entries[n].updatedAt /\ m < n
  IN Fitting(Placed(entries, [n \in alive |-> Cardinality({m \in alive : ahead(m, n)}) + 1]))

\* Mutant of Upsert: an entry stays where it was.
UpsertInPlace(entries, entry) ==
  IF \E n \in 1 .. Len(entries) : entries[n].ref = entry.ref
  THEN [n \in 1 .. Len(entries) |-> IF entries[n].ref = entry.ref
                                    THEN entry ELSE entries[n]]
  ELSE Fitting(<<entry>> \o entries)

Upsert(entries, entry) ==
  LET others == {n \in 1 .. Len(entries) : entries[n].ref # entry.ref}
  IN Fitting(<<entry>> \o Placed(entries, [n \in others |-> Cardinality({m \in others : m <= n})]))

\* The lineage an index has for a reference, or Unset.
Find(entries, ref) ==
  LET at == {n \in 1 .. Len(entries) : entries[n].ref = ref}
  IN IF at = {} THEN Unset ELSE entries[Min(at)].lineage

\* The lineage of a request: its turn's; else the client's, the parent's, the
\* thread's, or a new one that bears the time.
Lineage(entries, turn, client) ==
  LET thread  == TurnOf[turn]
      choices == <<Find(entries, <<turn, "turn">>),
                   IF client = Unset THEN Unset ELSE <<"client", client>>,
                   Find(entries, <<Parent[thread], "thread">>),
                   Find(entries, <<thread, "thread">>),
                   <<"thread", thread, now>>>>
  IN choices[Min({n \in 1 .. 5 : choices[n] # Unset})]

Entry(ref, lineage) ==
  [ref |-> ref, lineage |-> lineage, updatedAt |-> now, expiresAt |-> now + TtlMs]

-----------------------------------------------------------------------------
\* A request needs the secret; the first of the process reads the
\* Keychain, and those that come meanwhile wait for it.
Wants ==
  /\ secret = 0 /\ loading = NotLoading
  /\ loading' = [at |-> "reads", made |-> 0]
  /\ UNCHANGED <<item, secrets, secret, index, now, requests, kills, kept>>

\* The Keychain has it.
Reads ==
  /\ loading.at \in {"reads", "verifies"} /\ item # 0
  /\ loading.at = "verifies" => loading.made = item
  /\ secret' = item
  /\ loading' = NotLoading
  /\ UNCHANGED <<item, secrets, index, now, requests, kills, kept>>

\* It has none: one is made.
Makes ==
  /\ loading.at = "reads" /\ item = 0 /\ secrets < MaxSecrets
  /\ secrets' = secrets + 1
  /\ loading' = [at |-> "stores", made |-> secrets + 1]
  /\ UNCHANGED <<item, secret, index, now, requests, kills, kept>>

\* And stored; add-generic-password refuses to write over another.
Stores ==
  /\ loading.at = "stores" /\ item = 0
  /\ item' = loading.made
  /\ loading' = [loading EXCEPT !.at = "verifies"]
  /\ UNCHANGED <<secrets, secret, index, now, requests, kills, kept>>

\* The Keychain is locked, slow or refuses, before or after it wrote: everyone who
\* waits fails, and the next request tries again.
LoadFails ==
  /\ loading # NotLoading
  /\ \/ UNCHANGED item
     \/ loading.at = "stores" /\ item = 0 /\ item' = loading.made
  /\ loading' = NotLoading
  /\ UNCHANGED <<secrets, secret, index, now, requests, kills, kept>>

\* resolve, from the read of the record to its write, without a pause.
Resolves(turn, client) ==
  LET entries == Pruned(index)
      lineage == Lineage(entries, turn, client)
      thread  == <<TurnOf[turn], "thread">>
      own     == <<turn, "turn">>
      given   == [key |-> <<secret, lineage>>, at |-> now, since |-> {},
                  client |-> client # Unset \/ Parent[TurnOf[turn]] # Unset]
  IN /\ secret # 0 /\ requests < MaxRequests
     /\ requests' = requests + 1
     /\ index' = Upsert(Upsert(entries, Entry(thread, lineage)), Entry(own, lineage))
     /\ kept' = [ref \in Refs |-> IF ref = own THEN given
                                  ELSE IF ref = thread THEN [given EXCEPT !.since = {own}]
                                  ELSE [kept[ref] EXCEPT !.since = @ \cup {thread, own}]]
     /\ UNCHANGED <<item, secrets, secret, loading, now, kills>>

TimeGoes ==
  /\ now < MaxTime
  /\ now' = now + 1
  /\ UNCHANGED <<item, secrets, secret, loading, index, requests, kills, kept>>

\* The Router dies: the record and the Keychain stay.
RouterDies ==
  /\ kills < MaxKills
  /\ kills' = kills + 1
  /\ secret' = 0 /\ loading' = NotLoading
  /\ UNCHANGED <<item, secrets, index, now, requests, kept>>

AffinityNext ==
  \/ \E turn \in Turns, client \in ClientKey \cup {Unset} : Resolves(turn, client)
  \/ Wants \/ Reads \/ Makes \/ Stores \/ LoadFails
  \/ TimeGoes \/ RouterDies

AffinitySpec == AffinityInit /\ [][AffinityNext]_affinityVars

-----------------------------------------------------------------------------
Remembered(ref) ==
  /\ kept[ref].key # Unset /\ now < kept[ref].at + TtlMs
  /\ Cardinality(kept[ref].since) < MaxLineages

\* "Same-turn tool continuations freeze the first policy/key" (docs/public/
\* configuration.md:136): as long as the time between its requests is below the limit
\* and fewer references than fit were used in between, a turn is given the same key,
\* and a thread that names no client key and has no parent goes on with its own,
\* across failures of the Keychain and deaths of the Router.
KeyKept ==
  [][\A turn \in Turns :
       LET own    == <<turn, "turn">>
           thread == <<TurnOf[turn], "thread">>
       IN kept'[own] # kept[own] /\ kept'[own].since = {} =>
            /\ Remembered(own) => kept'[own].key = kept[own].key
            /\ Remembered(thread) /\ kept[own].key = Unset /\ ~kept'[own].client
                 => kept'[own].key = kept[thread].key]_affinityVars
=============================================================================
