------------------------- MODULE IdentityKeysProofs -------------------------
(* Theorems about whose a request is, for any number of requests, tokens and   *)
(* logins and any times a credential is kept; and about the cache key it is    *)
(* given, for any number of turns, threads and client keys and any record.     *)
EXTENDS LocalIdentity, PromptCacheAffinity, WellFoundedInduction, FiniteSetTheorems, TLAPS

-----------------------------------------------------------------------------
(* Identity: the inductive invariant. *)

\* What the stores hold now they are known to hold now, and no write of auth.json
\* is later than the last login.
StoresOK ==
  /\ setting = "file" => keychain = NoToken
  /\ setting = "keyring" => file = NoToken
  /\ written <= logins
  /\ \A t \in Token : heldAt[t] <= clock /\ (t \in Held(file, keychain) => heldAt[t] = clock)

\* As long as auth.json has this stat, it holds this token.
Tells(stat, token) == stat # NoStat /\ stat = FileStat => file = token

\* A request that finds this stat has seen this token.
Saw(q, stat, token) ==
  q.at = "check" /\ stat # NoStat /\ q.stat = stat /\ q.bearer = token => q.seen

\* A token told by a stat; every request that finds the stat has seen the token.
Told(stat, token) == Tells(stat, token) /\ \A r \in Asker : Saw(served[r], stat, token)

Kept(c) ==
  /\ c.stat <= written + 1
  /\ setting # "auto" => c.blockedUntil = 0
  /\ c.auth # NoToken =>
       /\ c.source # "none"
       /\ setting = "keyring" => c.at <= heldAt[c.auth]
       /\ setting # "keyring" /\ c.source = "file" => Told(c.stat, c.auth)

Plain(q) ==
  /\ q.at # "idle" => q.bearer \in Token
  /\ q.now <= clock /\ q.stat <= written + 1
  /\ q.bearer \in Held(file, keychain) => q.seen
  /\ q.steady => Valid(q.bearer, file, keychain)
  /\ q.at \in {"file", "read"} => setting # "keyring"
  /\ q.at \in {"keychain", "asked"} => setting # "file"

HasAsked(q) ==
  q.at = "asked" =>
    /\ q.got = q.bearer => q.seen
    /\ q.got # NoToken => q.now <= heldAt[q.got]
    /\ q.steady => q.got = IF setting = "keyring" THEN q.bearer ELSE NoToken

HasRead(q) ==
  q.at = "read" =>
    /\ q.got = q.bearer => q.seen
    /\ q.steady => q.got = q.bearer

Judgement(q) ==
  /\ q.at = "accepted" => \/ q.how = "unobserved"
                          \/ setting = "keyring" /\ Lately(q)
                          \/ q.seen
  /\ q.at = "rejected" => ~q.steady

Clear(q) == Plain(q) /\ HasAsked(q) /\ HasRead(q) /\ Judgement(q)

ReadersTold ==
  \A r \in Asker : served[r].at = "read" /\ served[r].got # NoToken
                     => Told(served[r].stat, served[r].got)

IdentityInv ==
  /\ IdentityTypeOK /\ StoresOK /\ Kept(cache) /\ ReadersTold
  /\ \A r \in Asker : Clear(served[r])

LEMMA IdentityInitInv == IdentityInit => IdentityInv
<1> SUFFICES ASSUME IdentityInit PROVE IdentityInv
  OBVIOUS
<1> USE IdentityAssumption DEF IdentityInit
<1>1. Nobody \in Asked
  BY DEF Nobody, Asked, NoStat
<1>2. IdentityTypeOK
  BY <1>1 DEF IdentityTypeOK, NoStat
<1>3. StoresOK
  BY DEF StoresOK
<1>4. Kept(cache)
  BY DEF Kept, NoStat
<1>5. ReadersTold
  BY DEF ReadersTold, Nobody
<1>6. ASSUME NEW r \in Asker PROVE Clear(served[r])
  BY DEF Clear, Plain, HasAsked, HasRead, Judgement, Nobody, Held, NoStat
<1> QED
  BY <1>2, <1>3, <1>4, <1>5, <1>6 DEF IdentityInv

-----------------------------------------------------------------------------
(* The steps of one request: the stores stay. *)

Cache == [auth : Token \cup {NoToken}, source : {"none", "keychain", "file"},
          stat : Nat, at : Nat, blockedUntil : Nat]

\* A request goes on to q and c is kept.
LEMMA GoesOn ==
  ASSUME IdentityInv, NEW r \in Asker, NEW q \in Asked, NEW c \in Cache, UNCHANGED stores,
         served' = [served EXCEPT ![r] = q], cache' = c,
         Clear(q), Kept(c),
         q.at = "check" => \A stat, token : Tells(stat, token) => Saw(q, stat, token),
         q.at = "read" /\ q.got # NoToken => Told(q.stat, q.got)
  PROVE  IdentityInv'
<1> USE DEF IdentityInv
<1>1. UNCHANGED <<setting, file, keychain, logins, written, clock, heldAt>>
  BY DEF stores
<1>2. served \in [Asker -> Asked] /\ served'[r] = q /\ \A u \in Asker : u # r => served'[u] = served[u]
  BY DEF IdentityTypeOK
<1>3. IdentityTypeOK'
  BY <1>1, <1>2 DEF IdentityTypeOK, Cache
<1>4. StoresOK'
  BY <1>1 DEF StoresOK, Held
<1>5. FileStat' = FileStat
  BY <1>1 DEF FileStat
<1>6. ASSUME NEW stat, NEW token, Told(stat, token) PROVE Told(stat, token)'
  <2>1. Tells(stat, token)'
    BY <1>1, <1>5, <1>6 DEF Told, Tells
  <2>2. Saw(q, stat, token)
    BY <1>6 DEF Told, Saw
  <2>3. ASSUME NEW u \in Asker PROVE Saw(served'[u], stat, token)
    BY <1>2, <1>6, <2>2 DEF Told
  <2> QED
    BY <2>1, <2>3 DEF Told, Saw
<1>7. Kept(c)'
  BY <1>1, <1>6 DEF Kept
<1>8. Kept(cache)'
  BY <1>7 DEF Kept
<1>9. ReadersTold'
  BY <1>2, <1>6 DEF ReadersTold
<1>10. ASSUME NEW u \in Asker PROVE Clear(served[u])'
  <2>1. Clear(served'[u])
    BY <1>2
  <2> QED
    BY <1>1, <2>1 DEF Clear, Plain, HasAsked, HasRead, Judgement, Lately, Held, Valid
<1> QED
  BY <1>3, <1>4, <1>8, <1>9, <1>10

LEMMA StateIs ==
  ASSUME IdentityInv, NEW r \in Asker
  PROVE  /\ served[r] \in Asked /\ Clear(served[r]) /\ served \in [Asker -> Asked]
         /\ cache \in Cache /\ Kept(cache)
BY DEF IdentityInv, IdentityTypeOK, Cache

LEMMA ArrivesKeeps == ASSUME IdentityInv, NEW r \in Asker, NEW b \in Token, Arrives(r, b) PROVE IdentityInv'
<1> DEFINE new == [Nobody EXCEPT !.at = "stat", !.bearer = b, !.now = clock,
                                 !.seen = b \in Held(file, keychain),
                                 !.steady = Valid(b, file, keychain)]
<1>1. served' = [served EXCEPT ![r] = new] /\ UNCHANGED stores /\ cache' = cache
  BY DEF Arrives
<1>2. /\ new.at = "stat" /\ new.bearer = b /\ new.now = clock /\ new.stat = 0
      /\ (b \in Held(file, keychain) => new.seen) /\ (new.steady => Valid(b, file, keychain))
  BY DEF Nobody, NoStat
<1>3. new \in Asked
  <2>1. clock \in Nat
    BY DEF IdentityInv, IdentityTypeOK
  <2>2. Valid(b, file, keychain) \in BOOLEAN
    <3>1. CASE setting = "keyring"
      BY <3>1 DEF Valid
    <3>2. CASE setting # "keyring"
      BY <3>2 DEF Valid
    <3> QED
      BY <3>1, <3>2
  <2>3. (b \in Held(file, keychain)) \in BOOLEAN
    OBVIOUS
  <2> QED
    BY <2>1, <2>2, <2>3 DEF Nobody, Asked, NoStat
<1> HIDE DEF new
<1>4. Clear(new)
  <2>1. clock \in Nat /\ written \in Nat
    BY DEF IdentityInv, IdentityTypeOK
  <2> QED
    BY <1>2, <2>1 DEF Clear, Plain, HasAsked, HasRead, Judgement
<1> QED
  BY <1>1, <1>2, <1>3, <1>4, StateIs, GoesOn

LEMMA StatsKeeps == ASSUME IdentityInv, NEW r \in Asker, Stats(r) PROVE IdentityInv'
<1> DEFINE q == served[r]
           new == [q EXCEPT !.at = "check", !.stat = FileStat]
<1>1. served' = [served EXCEPT ![r] = new] /\ UNCHANGED stores /\ cache' = cache
  BY DEF Stats
<1>2. q \in Asked /\ Clear(q)
  BY StateIs
<1>3. FileStat \in Nat /\ FileStat <= written + 1
  BY DEF FileStat, NoStat, IdentityInv, IdentityTypeOK
<1>4. /\ new.at = "check" /\ new.stat = FileStat /\ new.bearer = q.bearer /\ new.now = q.now
      /\ new.seen = q.seen /\ new.steady = q.steady /\ new \in Asked
  BY <1>2, <1>3 DEF Asked
<1>5. q.at = "stat"
  BY DEF Stats
<1> HIDE DEF new, q
<1>6. Clear(new)
  BY <1>2, <1>3, <1>4, <1>5 DEF Clear, Plain, HasAsked, HasRead, Judgement
<1>7. ASSUME NEW stat, NEW token, Tells(stat, token) PROVE Saw(new, stat, token)
  BY <1>2, <1>4, <1>5, <1>7, IdentityAssumption DEF Saw, Tells, Clear, Plain, Held
<1> QED
  BY <1>1, <1>4, <1>6, <1>7, StateIs, GoesOn

\* The bearer of a request is compared with a credential.
LEMMA JudgedKeeps ==
  ASSUME IdentityInv, NEW r \in Asker, NEW auth, NEW how \in {"kept", "unobserved", "read"},
         NEW c \in Cache, Kept(c), UNCHANGED stores, cache' = c,
         served' = Judged(r, auth, how), served[r].at # "idle",
         auth = served[r].bearer => \/ how = "unobserved"
                                    \/ setting = "keyring" /\ Lately(served[r])
                                    \/ served[r].seen,
         auth # served[r].bearer /\ served[r].force => ~served[r].steady
  PROVE  IdentityInv'
<1> DEFINE q == served[r]
<1>1. q \in Asked /\ Clear(q)
  BY StateIs
<1>2. clock \in Nat /\ written \in Nat
  BY DEF IdentityInv, IdentityTypeOK
<1>3. CASE auth = q.bearer
  <2> DEFINE new == Answered(q, "accepted", how)
  <2>1. served' = [served EXCEPT ![r] = new]
    BY <1>3 DEF Judged
  <2>2. /\ new \in Asked /\ new.at = "accepted" /\ new.bearer = q.bearer /\ new.now = q.now
        /\ new.stat = 0 /\ new.how = how /\ new.seen = q.seen /\ new.steady = q.steady
    BY <1>1 DEF Answered, Asked, NoStat
  <2> HIDE DEF new
  <2>3. Clear(new)
    BY <1>1, <1>2, <1>3, <2>2 DEF Clear, Plain, HasAsked, HasRead, Judgement, Lately
  <2> QED
    BY <2>1, <2>2, <2>3, GoesOn
<1>4. CASE auth # q.bearer /\ q.force
  <2> DEFINE new == Refused(q)
  <2>1. served' = [served EXCEPT ![r] = new]
    BY <1>4 DEF Judged
  <2>2. /\ new \in Asked /\ new.at = "rejected" /\ new.bearer = q.bearer /\ new.now = q.now
        /\ new.stat = 0 /\ new.seen = q.seen /\ new.steady = q.steady
    BY <1>1 DEF Refused, Answered, Asked, NoStat
  <2> HIDE DEF new
  <2>3. Clear(new)
    BY <1>1, <1>2, <1>4, <2>2 DEF Clear, Plain, HasAsked, HasRead, Judgement
  <2> QED
    BY <2>1, <2>2, <2>3, GoesOn
<1>5. CASE auth # q.bearer /\ ~q.force
  <2> DEFINE new == [q EXCEPT !.at = "stat", !.force = TRUE, !.now = clock, !.got = NoToken]
  <2>1. served' = [served EXCEPT ![r] = new]
    BY <1>5 DEF Judged
  <2>2. /\ new \in Asked /\ new.at = "stat" /\ new.bearer = q.bearer /\ new.now = clock
        /\ new.stat = q.stat /\ new.seen = q.seen /\ new.steady = q.steady
    BY <1>1, <1>2 DEF Asked
  <2> HIDE DEF new
  <2>3. Clear(new)
    BY <1>1, <1>2, <2>2 DEF Clear, Plain, HasAsked, HasRead, Judgement
  <2> QED
    BY <2>1, <2>2, <2>3, GoesOn
<1> QED
  BY <1>3, <1>4, <1>5

LEMMA UsesKeptKeeps == ASSUME IdentityInv, NEW r \in Asker, UsesKept(r) PROVE IdentityInv'
<1> DEFINE q == served[r]
           how == IF Unobserved THEN "unobserved" ELSE "kept"
<1>1. /\ q.at = "check" /\ ~q.force /\ cache.auth # NoToken /\ served' = Judged(r, cache.auth, how)
      /\ IF setting = "keyring" THEN q.now - cache.at < FreshMs ELSE cache.stat = q.stat
      /\ UNCHANGED stores /\ cache' = cache
  BY DEF UsesKept, Fresh
<1>2. q \in Asked /\ cache \in Cache /\ Kept(cache)
  BY StateIs
<1>3. ASSUME cache.auth = q.bearer
      PROVE  how = "unobserved" \/ (setting = "keyring" /\ Lately(q)) \/ q.seen
  <2>1. CASE setting = "keyring"
    <3>1. cache.at <= heldAt[q.bearer]
      BY <1>1, <1>2, <1>3, <2>1 DEF Kept
    <3>2. q.bearer \in Token
      BY <1>1, <1>2, <1>3 DEF Asked
    <3>3. heldAt[q.bearer] \in Int
      BY <3>2 DEF IdentityInv, IdentityTypeOK
    <3>4. q.now \in Nat /\ cache.at \in Nat /\ FreshMs \in Nat
      BY <1>2, IdentityAssumption DEF Asked, Cache
    <3> QED
      BY <1>1, <2>1, <3>1, <3>3, <3>4 DEF Lately
  <2>2. CASE setting # "keyring" /\ ~Unobserved
    <3>1. cache.source = "file" /\ cache.stat # NoStat
      BY <1>1, <1>2, <2>2 DEF Unobserved, Cache, Kept
    <3>2. Saw(q, cache.stat, cache.auth)
      BY <1>1, <1>2, <2>2, <3>1 DEF Kept, Told
    <3> QED
      BY <1>1, <1>3, <2>2, <3>1, <3>2 DEF Saw
  <2> QED
    BY <2>1, <2>2
<1>4. how \in {"kept", "unobserved", "read"}
  OBVIOUS
<1> QED
  BY <1>1, <1>2, <1>3, <1>4, JudgedKeeps

LEMMA LooksUpKeeps == ASSUME IdentityInv, NEW r \in Asker, LooksUp(r) PROVE IdentityInv'
<1> DEFINE q == served[r]
           where == IF setting # "file" /\ q.now >= cache.blockedUntil THEN "keychain" ELSE "file"
           new == [q EXCEPT !.at = where]
<1>1. q.at = "check" /\ served' = [served EXCEPT ![r] = new] /\ UNCHANGED stores /\ cache' = cache
  BY DEF LooksUp
<1>2. q \in Asked /\ Clear(q) /\ cache \in Cache /\ Kept(cache)
  BY StateIs
<1>3. where \in {"keychain", "file"}
  OBVIOUS
<1>4. where = "file" => setting # "keyring"
  BY <1>2 DEF Kept, Asked
<1>5. where = "keychain" => setting # "file"
  OBVIOUS
<1> HIDE DEF where
<1>6. /\ new \in Asked /\ new.at = where /\ new.bearer = q.bearer /\ new.now = q.now
      /\ new.stat = q.stat /\ new.seen = q.seen /\ new.steady = q.steady
  BY <1>2, <1>3 DEF Asked
<1> HIDE DEF new
<1>7. Clear(new)
  BY <1>1, <1>2, <1>3, <1>4, <1>5, <1>6 DEF Clear, Plain, HasAsked, HasRead, Judgement
<1>8. new.at # "check" /\ new.at # "read"
  BY <1>3, <1>6
<1> QED
  BY <1>1, <1>2, <1>6, <1>7, <1>8, GoesOn

LEMMA AsksKeychainKeeps ==
  ASSUME IdentityInv, NEW r \in Asker, NEW works \in BOOLEAN, AsksKeychain(r, works)
  PROVE  IdentityInv'
<1> DEFINE q == served[r]
           got == IF works THEN keychain ELSE NoToken
           still == q.steady /\ (works \/ setting # "keyring")
           new == [q EXCEPT !.at = "asked", !.got = got, !.steady = still]
<1>1. q.at = "keychain" /\ served' = [served EXCEPT ![r] = new] /\ UNCHANGED stores /\ cache' = cache
  BY DEF AsksKeychain
<1>2. q \in Asked /\ Clear(q) /\ cache \in Cache /\ Kept(cache)
  BY StateIs
<1>3. got \in {keychain, NoToken} /\ keychain \in Token \cup {NoToken} /\ clock \in Nat
  BY DEF IdentityInv, IdentityTypeOK
<1>4. still \in BOOLEAN
  OBVIOUS
<1>5. still => q.steady /\ got = IF setting = "keyring" THEN q.bearer ELSE NoToken
  BY <1>2 DEF Clear, Plain, Valid
<1>6. got = q.bearer => q.seen
  BY <1>1, <1>2, <1>3, IdentityAssumption DEF Clear, Plain, Held
<1>7. got # NoToken => q.now <= heldAt[got]
  BY <1>2, <1>3 DEF IdentityInv, StoresOK, Held, Clear, Plain
<1> HIDE DEF got, still
<1>8. /\ new \in Asked /\ new.at = "asked" /\ new.bearer = q.bearer /\ new.now = q.now
      /\ new.stat = q.stat /\ new.got = got /\ new.seen = q.seen /\ new.steady = still
  BY <1>2, <1>3, <1>4 DEF Asked
<1> HIDE DEF new
<1>9. Clear(new)
  BY <1>1, <1>2, <1>5, <1>6, <1>7, <1>8 DEF Clear, Plain, HasAsked, HasRead, Judgement
<1> QED
  BY <1>1, <1>2, <1>8, <1>9, GoesOn

LEMMA KeychainAnswersKeeps ==
  ASSUME IdentityInv, NEW r \in Asker, KeychainAnswers(r) PROVE IdentityInv'
<1> DEFINE q == served[r]
<1>1. q.at = "asked" /\ UNCHANGED stores
  BY DEF KeychainAnswers
<1>2. q \in Asked /\ Clear(q) /\ cache \in Cache /\ Kept(cache)
  BY StateIs
<1>3. CASE q.got # NoToken
  <2> DEFINE c == Cached(q, "keychain", cache.blockedUntil)
  <2>1. cache' = c /\ served' = Judged(r, q.got, "read")
    BY <1>3 DEF KeychainAnswers
  <2>2. /\ c \in Cache /\ c.auth = q.got /\ c.source = "keychain" /\ c.stat = q.stat
        /\ (setting = "keyring" => c.at = q.now) /\ c.blockedUntil = cache.blockedUntil
    BY <1>2 DEF Cached, Cache, Asked
  <2> HIDE DEF c
  <2>3. Kept(c)
    BY <1>1, <1>2, <1>3, <2>2 DEF Kept, Clear, Plain, HasAsked
  <2>4. q.got = q.bearer => q.seen
    BY <1>1, <1>2 DEF Clear, HasAsked
  <2>5. q.got # q.bearer => ~q.steady
    BY <1>1, <1>2, <1>3 DEF Clear, HasAsked
  <2> QED
    BY <1>1, <2>1, <2>2, <2>3, <2>4, <2>5, JudgedKeeps
<1>4. CASE q.got = NoToken /\ setting = "auto"
  <2> DEFINE new == [q EXCEPT !.at = "file"]
  <2>1. served' = [served EXCEPT ![r] = new] /\ cache' = cache
    BY <1>4 DEF KeychainAnswers
  <2>2. /\ new \in Asked /\ new.at = "file" /\ new.bearer = q.bearer /\ new.now = q.now
        /\ new.stat = q.stat /\ new.seen = q.seen /\ new.steady = q.steady
    BY <1>2 DEF Asked
  <2> HIDE DEF new
  <2>3. Clear(new)
    BY <1>1, <1>2, <1>4, <2>2 DEF Clear, Plain, HasAsked, HasRead, Judgement
  <2> QED
    BY <1>1, <1>2, <2>1, <2>2, <2>3, GoesOn
<1>5. CASE q.got = NoToken /\ setting # "auto"
  <2> DEFINE new == Refused(q)
  <2>1. served' = [served EXCEPT ![r] = new] /\ cache' = cache
    BY <1>5 DEF KeychainAnswers
  <2>2. /\ new \in Asked /\ new.at = "rejected" /\ new.bearer = q.bearer /\ new.now = q.now
        /\ new.stat = 0 /\ new.seen = q.seen /\ new.steady = q.steady
    BY <1>2 DEF Refused, Answered, Asked, NoStat
  <2> HIDE DEF new
  <2>3. ~q.steady
    <3>1. setting = "keyring"
      BY <1>1, <1>2, <1>5 DEF Clear, Plain, IdentityInv, IdentityTypeOK
    <3>2. q.bearer \in Token
      BY <1>1, <1>2 DEF Clear, Plain
    <3> QED
      BY <1>1, <1>2, <1>5, <3>1, <3>2, IdentityAssumption DEF Clear, HasAsked
  <2>4. written \in Nat
    BY DEF IdentityInv, IdentityTypeOK
  <2>5. Clear(new)
    BY <1>1, <1>2, <2>2, <2>3, <2>4 DEF Clear, Plain, HasAsked, HasRead, Judgement
  <2> QED
    BY <1>1, <1>2, <2>1, <2>2, <2>5, GoesOn
<1> QED
  BY <1>3, <1>4, <1>5

LEMMA ReadsFileKeeps == ASSUME IdentityInv, NEW r \in Asker, ReadsFile(r) PROVE IdentityInv'
<1> DEFINE q == served[r]
           new == [q EXCEPT !.at = "read", !.got = file]
<1>1. q.at = "file" /\ served' = [served EXCEPT ![r] = new] /\ UNCHANGED stores /\ cache' = cache
  BY DEF ReadsFile
<1>2. q \in Asked /\ Clear(q) /\ cache \in Cache /\ Kept(cache)
  BY StateIs
<1>3. file \in Token \cup {NoToken}
  BY DEF IdentityInv, IdentityTypeOK
<1>4. /\ new \in Asked /\ new.at = "read" /\ new.bearer = q.bearer /\ new.now = q.now
      /\ new.stat = q.stat /\ new.got = file /\ new.seen = q.seen /\ new.steady = q.steady
  BY <1>2, <1>3 DEF Asked
<1> HIDE DEF new
<1>5. Clear(new)
  BY <1>1, <1>2, <1>3, <1>4, IdentityAssumption
     DEF Clear, Plain, HasAsked, HasRead, Judgement, Valid, Held
<1>6. ASSUME file # NoToken PROVE Told(q.stat, file)
  <2>1. ASSUME NEW u \in Asker PROVE Saw(served[u], q.stat, file)
    <3>1. Clear(served[u])
      BY StateIs
    <3> QED
      BY <1>6, <3>1 DEF Saw, Clear, Plain, Held
  <2> QED
    BY <2>1 DEF Told, Tells
<1> QED
  BY <1>1, <1>2, <1>4, <1>5, <1>6, GoesOn

LEMMA FileAnswersKeeps == ASSUME IdentityInv, NEW r \in Asker, FileAnswers(r) PROVE IdentityInv'
<1> DEFINE q == served[r]
<1>1. q.at = "read" /\ UNCHANGED stores
  BY DEF FileAnswers
<1>2. q \in Asked /\ Clear(q) /\ cache \in Cache /\ Kept(cache)
  BY StateIs
<1>3. setting # "keyring"
  BY <1>1, <1>2 DEF Clear, Plain
<1>4. CASE q.got # NoToken
  <2> DEFINE until == IF setting = "auto" THEN q.now + SkipMs ELSE cache.blockedUntil
             c == Cached(q, "file", until)
  <2>1. cache' = c /\ served' = Judged(r, q.got, "read")
    BY <1>4 DEF FileAnswers
  <2>2. until \in Nat /\ (setting # "auto" => until = 0)
    BY <1>2, IdentityAssumption DEF Asked, Cache, Kept
  <2> HIDE DEF until
  <2>3. c \in Cache /\ c.auth = q.got /\ c.source = "file" /\ c.stat = q.stat /\ c.blockedUntil = until
    BY <1>2, <2>2 DEF Cached, Cache, Asked
  <2> HIDE DEF c
  <2>4. Told(q.stat, q.got)
    BY <1>1, <1>4 DEF IdentityInv, ReadersTold
  <2>5. Kept(c)
    BY <1>1, <1>2, <1>3, <2>2, <2>3, <2>4 DEF Kept, Clear, Plain
  <2>6. q.got = q.bearer => q.seen
    BY <1>1, <1>2 DEF Clear, HasRead
  <2>7. q.got # q.bearer => ~q.steady
    BY <1>1, <1>2 DEF Clear, HasRead
  <2> QED
    BY <1>1, <2>1, <2>3, <2>5, <2>6, <2>7, JudgedKeeps
<1>5. CASE q.got = NoToken
  <2> DEFINE new == Refused(q)
  <2>1. served' = [served EXCEPT ![r] = new] /\ cache' = cache
    BY <1>5 DEF FileAnswers
  <2>2. /\ new \in Asked /\ new.at = "rejected" /\ new.bearer = q.bearer /\ new.now = q.now
        /\ new.stat = 0 /\ new.seen = q.seen /\ new.steady = q.steady
    BY <1>2 DEF Refused, Answered, Asked, NoStat
  <2> HIDE DEF new
  <2>3. ~q.steady
    BY <1>1, <1>2, <1>5, IdentityAssumption DEF Clear, Plain, HasRead
  <2>4. written \in Nat
    BY DEF IdentityInv, IdentityTypeOK
  <2>5. Clear(new)
    BY <1>1, <1>2, <2>2, <2>3, <2>4 DEF Clear, Plain, HasAsked, HasRead, Judgement
  <2> QED
    BY <1>1, <1>2, <2>1, <2>2, <2>5, GoesOn
<1> QED
  BY <1>4, <1>5

LEMMA GoesKeeps == ASSUME IdentityInv, NEW r \in Asker, Goes(r) PROVE IdentityInv'
<1>1. served' = [served EXCEPT ![r] = Nobody] /\ UNCHANGED stores /\ cache' = cache
  BY DEF Goes
<1>2. Nobody \in Asked /\ Nobody.at = "idle"
  BY DEF Nobody, Asked, NoStat
<1>3. clock \in Nat /\ written \in Nat
  BY DEF IdentityInv, IdentityTypeOK
<1>4. Clear(Nobody)
  BY <1>3 DEF Clear, Plain, HasAsked, HasRead, Judgement, Nobody, Held, NoStat
<1> QED
  BY <1>1, <1>2, <1>4, StateIs, GoesOn

-----------------------------------------------------------------------------
(* The steps of Codex and of time. *)

LEMMA LoginKeeps ==
  ASSUME IdentityInv, NEW f \in Token \cup {NoToken}, NEW k \in Token \cup {NoToken}, Login(f, k)
  PROVE  IdentityInv'
<1> USE DEF IdentityInv
<1>1. /\ file' = f /\ keychain' = k /\ logins' = logins + 1 /\ UNCHANGED <<setting, clock, cache>>
      /\ written' = IF f = file THEN written ELSE logins + 1
      /\ (setting = "file" => k = NoToken) /\ (setting = "keyring" => f = NoToken)
      /\ heldAt' = [t \in Token |-> IF t \in Held(file, keychain) \cup Held(f, k) THEN clock
                                    ELSE heldAt[t]]
  BY DEF Login
<1>2. {logins, written, clock} \subseteq Nat /\ written <= logins /\ heldAt \in [Token -> Int]
      /\ {file, keychain} \subseteq Token \cup {NoToken}
  BY DEF IdentityTypeOK, StoresOK
<1>3. written' \in Nat /\ written <= written' /\ written' <= logins'
  BY <1>1, <1>2
<1>4. \A t \in Token : heldAt'[t] \in Int /\ heldAt[t] <= heldAt'[t] /\ heldAt'[t] <= clock
  BY <1>1, <1>2 DEF StoresOK
<1>5. StoresOK'
  BY <1>1, <1>3, <1>4 DEF StoresOK, Held
<1>6. ASSUME NEW r \in Asker
      PROVE  LET q == served[r]
                 p == served'[r]
             IN  /\ p \in Asked /\ p.at = q.at /\ p.bearer = q.bearer /\ p.now = q.now
                 /\ p.stat = q.stat /\ p.got = q.got /\ p.how = q.how
                 /\ (q.seen => p.seen) /\ (p.bearer \in Held(f, k) => p.seen)
                 /\ (p.steady => q.steady /\ Valid(p.bearer, f, k))
  <2>1. served[r] \in Asked
    BY StateIs
  <2>2. CASE served[r] = Nobody
    <3>1. served'[r] = Nobody
      BY <2>2 DEF Login
    <3> QED
      BY <2>1, <2>2, <3>1 DEF Nobody, Held
  <2>3. CASE served[r] # Nobody
    <3> DEFINE seen == served[r].seen \/ served[r].bearer \in Held(f, k)
               still == served[r].steady /\ Valid(served[r].bearer, f, k)
               p == [served[r] EXCEPT !.seen = seen, !.steady = still]
    <3>1. served'[r] = p
      BY <2>3 DEF Login
    <3>2. seen \in BOOLEAN /\ still \in BOOLEAN
      OBVIOUS
    <3>3. (served[r].seen => seen) /\ (served[r].bearer \in Held(f, k) => seen)
          /\ (still => served[r].steady /\ Valid(served[r].bearer, f, k))
      OBVIOUS
    <3> HIDE DEF seen, still
    <3>4. /\ p \in Asked /\ p.at = served[r].at /\ p.bearer = served[r].bearer /\ p.now = served[r].now
          /\ p.stat = served[r].stat /\ p.got = served[r].got /\ p.how = served[r].how
          /\ p.seen = seen /\ p.steady = still
      BY <2>1, <3>2 DEF Asked
    <3> HIDE DEF p
    <3> QED
      BY <3>1, <3>3, <3>4
  <2> QED
    BY <2>2, <2>3
<1>7. IdentityTypeOK'
  <2>1. served' \in [Asker -> Asked]
    <3>1. served' = [r \in Asker |-> served'[r]]
      BY DEF Login
    <3> QED
      BY <1>6, <3>1
  <2>2. heldAt' \in [Token -> Int]
    BY <1>1, <1>2
  <2> QED
    BY <1>1, <1>2, <1>3, <2>1, <2>2 DEF IdentityTypeOK
<1>8. ASSUME NEW stat \in Nat, NEW token, stat <= written + 1, Told(stat, token) PROVE Told(stat, token)'
  <2>1. Tells(stat, token)'
    <3> SUFFICES ASSUME stat # NoStat, stat = FileStat' PROVE f = token
      BY <1>1 DEF Tells
    <3>1. f # NoToken /\ stat = written' + 1
      BY <1>1 DEF FileStat, NoStat
    <3>2. f = file
      BY <1>1, <1>2, <1>8, <3>1
    <3>3. stat = FileStat
      BY <1>1, <3>1, <3>2 DEF FileStat
    <3> QED
      BY <1>8, <3>2, <3>3 DEF Told, Tells
  <2>2. ASSUME NEW r \in Asker PROVE Saw(served'[r], stat, token)
    BY <1>6, <1>8 DEF Told, Saw
  <2> QED
    BY <2>1, <2>2 DEF Told, Saw
<1>9. Kept(cache)'
  <2>1. cache \in Cache /\ Kept(cache)
    BY DEF IdentityTypeOK, Cache
  <2>2. cache.stat \in Nat /\ cache.at \in Nat /\ cache.auth \in Token \cup {NoToken}
    BY <2>1 DEF Cache
  <2>3. ASSUME cache.auth # NoToken, setting = "keyring" PROVE cache.at <= heldAt'[cache.auth]
    BY <1>2, <1>4, <2>1, <2>2, <2>3 DEF Kept
  <2>4. cache.stat <= written' + 1
    BY <1>2, <1>3, <2>1, <2>2 DEF Kept
  <2>5. ASSUME cache.auth # NoToken, setting # "keyring", cache.source = "file"
        PROVE  Told(cache.stat, cache.auth)'
    <3>1. Told(cache.stat, cache.auth) /\ cache.stat <= written + 1
      BY <2>1, <2>5 DEF Kept
    <3>2. PICK c : c = cache
      OBVIOUS
    <3>3. Told(c.stat, c.auth)'
      BY <1>8, <2>2, <3>1, <3>2
    <3> QED
      BY <1>1, <3>2, <3>3 DEF Told, Tells, Saw
  <2> QED
    BY <1>1, <2>1, <2>3, <2>4, <2>5 DEF Kept
<1>10. ReadersTold'
  <2> SUFFICES ASSUME NEW r \in Asker, served'[r].at = "read", served'[r].got # NoToken
               PROVE  Told(served[r].stat, served[r].got)'
    BY DEF ReadersTold
  <2>1. PICK q : q = served[r]
    OBVIOUS
  <2>2. q \in Asked /\ Clear(q) /\ q.at = "read" /\ q.got # NoToken
        /\ served'[r].stat = q.stat /\ served'[r].got = q.got
    BY <1>6, <2>1, StateIs
  <2>3. Told(q.stat, q.got) /\ q.stat \in Nat /\ q.stat <= written + 1
    BY <2>1, <2>2 DEF ReadersTold, Asked, Clear, Plain
  <2>4. Told(q.stat, q.got)'
    BY <1>8, <2>3
  <2> QED
    BY <2>2, <2>4 DEF Told, Tells, Saw
<1>11. ASSUME NEW r \in Asker PROVE Clear(served[r])'
  <2> DEFINE q == served[r]
             p == served'[r]
  <2>1. q \in Asked /\ Clear(q)
    BY StateIs
  <2>2. /\ p \in Asked /\ p.at = q.at /\ p.bearer = q.bearer /\ p.now = q.now
        /\ p.stat = q.stat /\ p.got = q.got /\ p.how = q.how
        /\ (q.seen => p.seen) /\ (p.bearer \in Held(f, k) => p.seen)
        /\ (p.steady => q.steady /\ Valid(p.bearer, f, k))
    BY <1>6
  <2>3. q.now \in Nat /\ q.stat \in Nat /\ q.got \in Token \cup {NoToken} /\ q.bearer \in Token \cup {NoToken}
    BY <2>1 DEF Asked
  <2> HIDE DEF q, p
  <2>4. q.stat <= written' + 1
    BY <1>2, <1>3, <2>1, <2>3 DEF Clear, Plain
  <2>6. Plain(served[r])'
    BY <1>1, <2>1, <2>2, <2>4 DEF Clear, Plain, Held, Valid, p
  <2>7. HasAsked(served[r])'
    <3>1. ASSUME q.at = "asked", q.got # NoToken PROVE q.now <= heldAt'[q.got]
      BY <1>2, <1>4, <2>1, <2>3, <3>1 DEF Clear, HasAsked
    <3> QED
      BY <1>1, <2>1, <2>2, <3>1 DEF Clear, HasAsked, p
  <2>8. HasRead(served[r])'
    BY <2>1, <2>2 DEF Clear, HasRead, p
  <2>9. Judgement(served[r])'
    <3>1. ASSUME p.at = "accepted", setting = "keyring", Lately(q)
          PROVE  p.seen \/ heldAt'[p.bearer] > p.now - FreshMs
      <4>1. p.bearer \in Token
        BY <2>1, <2>2, <2>3, <3>1 DEF Clear, Plain
      <4>2. heldAt[p.bearer] \in Int /\ FreshMs \in Nat
        BY <1>2, <4>1, IdentityAssumption
      <4> QED
        BY <1>4, <2>2, <2>3, <3>1, <4>1, <4>2 DEF Lately
    <3> QED
      BY <1>1, <2>1, <2>2, <3>1 DEF Clear, Judgement, Lately, p
  <2> QED
    BY <2>6, <2>7, <2>8, <2>9 DEF Clear
<1> QED
  BY <1>5, <1>7, <1>9, <1>10, <1>11

LEMMA TimeKeeps == ASSUME IdentityInv, TimePasses PROVE IdentityInv'
<1> USE DEF IdentityInv
<1>1. /\ UNCHANGED <<setting, file, keychain, logins, written, cache, served>> /\ clock' = clock + 1
      /\ heldAt' = [t \in Token |-> IF t \in Held(file, keychain) THEN clock + 1 ELSE heldAt[t]]
  BY DEF TimePasses
<1>2. {logins, written, clock} \subseteq Nat /\ heldAt \in [Token -> Int]
  BY DEF IdentityTypeOK
<1>3. \A t \in Token : heldAt'[t] \in Int /\ heldAt[t] <= heldAt'[t] /\ heldAt'[t] <= clock'
  BY <1>1, <1>2 DEF StoresOK
<1>4. IdentityTypeOK'
  <2>1. heldAt' \in [Token -> Int]
    BY <1>1, <1>2
  <2> QED
    BY <1>1, <1>2, <2>1 DEF IdentityTypeOK
<1>5. StoresOK'
  BY <1>1, <1>3 DEF StoresOK, Held
<1>6. FileStat' = FileStat
  BY <1>1 DEF FileStat
<1>7. ReadersTold'
  BY <1>1, <1>6 DEF ReadersTold, Told, Tells, Saw
<1>8. Kept(cache)'
  <2>1. cache \in Cache /\ Kept(cache)
    BY DEF IdentityTypeOK, Cache
  <2>2. cache.auth \in Token \cup {NoToken} /\ cache.at \in Nat
    BY <2>1 DEF Cache
  <2>3. ASSUME cache.auth # NoToken, setting = "keyring" PROVE cache.at <= heldAt'[cache.auth]
    BY <1>2, <1>3, <2>1, <2>2, <2>3 DEF Kept
  <2>4. Told(cache.stat, cache.auth) => Told(cache.stat, cache.auth)'
    BY <1>1, <1>6 DEF Told, Tells, Saw
  <2> QED
    BY <1>1, <2>1, <2>3, <2>4 DEF Kept
<1>9. ASSUME NEW r \in Asker PROVE Clear(served[r])'
  <2> DEFINE q == served[r]
  <2>1. q \in Asked /\ Clear(q) /\ q' = q
    BY <1>1, StateIs
  <2>2. q.now \in Nat /\ q.got \in Token \cup {NoToken} /\ q.bearer \in Token \cup {NoToken}
    BY <2>1 DEF Asked
  <2>3. Plain(served[r])'
    BY <1>1, <1>2, <2>1, <2>2 DEF Clear, Plain, Held, Valid
  <2>4. HasAsked(served[r])'
    <3>1. ASSUME q.at = "asked", q.got # NoToken PROVE q.now <= heldAt'[q.got]
      BY <1>2, <1>3, <2>1, <2>2, <3>1 DEF Clear, HasAsked
    <3> QED
      BY <1>1, <2>1, <3>1 DEF Clear, HasAsked
  <2>5. HasRead(served[r])'
    BY <1>1, <2>1 DEF Clear, HasRead
  <2>6. Judgement(served[r])'
    <3>1. ASSUME q.at = "accepted", Lately(q) PROVE q.seen \/ heldAt'[q.bearer] > q.now - FreshMs
      <4>1. q.bearer \in Token
        BY <2>1, <2>2, <3>1 DEF Clear, Plain
      <4>2. heldAt[q.bearer] \in Int /\ FreshMs \in Nat
        BY <1>2, <4>1, IdentityAssumption
      <4> QED
        BY <1>3, <2>2, <3>1, <4>1, <4>2 DEF Lately
    <3> QED
      BY <1>1, <2>1, <3>1 DEF Clear, Judgement, Lately
  <2> QED
    BY <2>3, <2>4, <2>5, <2>6 DEF Clear
<1> QED
  BY <1>4, <1>5, <1>7, <1>8, <1>9

\* What every step keeps.
LEMMA IdentityStepKeeps == IdentityInv /\ [IdentityNext]_identityVars => IdentityInv'
<1> SUFFICES ASSUME IdentityInv, [IdentityNext]_identityVars PROVE IdentityInv'
  OBVIOUS
<1>1. ASSUME NEW r \in Asker, NEW b \in Token, Arrives(r, b) PROVE IdentityInv'
  BY <1>1, ArrivesKeeps
<1>2. ASSUME NEW r \in Asker, NEW works \in BOOLEAN, AsksKeychain(r, works) PROVE IdentityInv'
  BY <1>2, AsksKeychainKeeps
<1>3. ASSUME NEW r \in Asker, Stats(r) \/ UsesKept(r) \/ LooksUp(r) PROVE IdentityInv'
  BY <1>3, StatsKeeps, UsesKeptKeeps, LooksUpKeeps
<1>4. ASSUME NEW r \in Asker, KeychainAnswers(r) \/ ReadsFile(r) \/ FileAnswers(r) \/ Goes(r)
      PROVE  IdentityInv'
  BY <1>4, KeychainAnswersKeeps, ReadsFileKeeps, FileAnswersKeeps, GoesKeeps
<1>5. ASSUME NEW f \in Token \cup {NoToken}, NEW k \in Token \cup {NoToken}, Login(f, k)
      PROVE  IdentityInv'
  BY <1>5, LoginKeeps
<1>6. CASE TimePasses
  BY <1>6, TimeKeeps
<1>7. CASE UNCHANGED identityVars
  BY <1>7 DEF identityVars, IdentityInv, IdentityTypeOK, StoresOK, Kept, ReadersTold, Told, Tells, Saw,
              FileStat, Clear, Plain, HasAsked, HasRead, Judgement, Lately, Held, Valid
<1> QED
  BY <1>1, <1>2, <1>3, <1>4, <1>5, <1>6, <1>7 DEF IdentityNext

\* For any number of requests at once, any tokens and logins: no request is accepted
\* with a bearer no store held while it was served or, for a Keychain, shortly
\* before, except from a cache the stat of auth.json says nothing of; and none is
\* rejected with the bearer the store held all the while (loadCodexAuth and the
\* second comparison with a credential read for it).
THEOREM AnswersAreTrue == IdentitySpec => []AnsweredTrue
<1>1. IdentityInv => AnsweredTrue
  <2> SUFFICES ASSUME IdentityInv, NEW r \in Asker
               PROVE  LET q == served[r]
                      IN /\ q.at = "accepted" /\ q.how # "unobserved" =>
                              IF setting = "keyring" THEN Lately(q) ELSE q.seen
                         /\ q.at = "rejected" => ~q.steady
    BY DEF IdentityInv, AnsweredTrue
  <2>1. Judgement(served[r])
    BY DEF IdentityInv, Clear
  <2> QED
    BY <2>1 DEF Judgement, Lately
<1> QED
  BY <1>1, IdentityInitInv, IdentityStepKeeps, PTL DEF IdentitySpec

-----------------------------------------------------------------------------
(* Cache keys: least counterexamples. *)

\* Of the numbers that have a property there is a least one.
LEMMA Least ==
  ASSUME NEW S \in SUBSET Nat, S # {}
  PROVE  \E m \in S : \A n \in S : m <= n
<1>1. PICK m \in S : \A n \in S : <<n, m>> \notin OpToRel(<, Nat)
  BY NatLessThanWellFounded, WFMin, Zenon
<1>2. \A n \in S : ~(n < m)
  BY <1>1, Zenon DEF OpToRel
<1> QED
  BY <1>2

\* Min finds it.
LEMMA MinIs ==
  ASSUME NEW S \in SUBSET Nat, NEW m \in S, \A n \in S : m <= n
  PROVE  Min(S) = m
<1>1. \A k \in S : (\A n \in S : k <= n) <=> k = m
  OBVIOUS
<1> QED
  BY <1>1, Zenon DEF Min

LEMMA UpTo ==
  ASSUME NEW n \in Nat
  PROVE  IsFiniteSet(1 .. n) /\ Cardinality(1 .. n) = n
<1>1. IsFiniteSet(1 .. n) /\ Cardinality(1 .. n) = IF 1 > n THEN 0 ELSE n - 1 + 1
  BY FS_Interval
<1> QED
  BY <1>1

-----------------------------------------------------------------------------
(* Cache keys: lists of entries. *)

EntryOf == [ref : Refs, lineage : Lineages, updatedAt : Nat, expiresAt : Nat]

\* Each reference once, the last used first.
Sound(x, time) ==
  /\ x \in Seq(EntryOf)
  /\ \A m, n \in 1 .. Len(x) : x[m].ref = x[n].ref => m = n
  /\ \A m, n \in 1 .. Len(x) : m < n => x[m].updatedAt >= x[n].updatedAt
  /\ \A n \in 1 .. Len(x) : x[n].updatedAt <= time /\ x[n].expiresAt = x[n].updatedAt + TtlMs

\* x has an entry of ref with lineage l of time t, behind references of B only.
Has(x, ref, l, t, B) ==
  \E n \in 1 .. Len(x) :
    /\ x[n].ref = ref /\ x[n].lineage = l /\ x[n].updatedAt = t
    /\ \A m \in 1 .. n - 1 : x[m].ref \in B

LEMMA FittingIs ==
  ASSUME NEW S, NEW x \in Seq(S)
  PROVE  /\ Fitting(x) \in Seq(S)
         /\ Len(Fitting(x)) = IF Len(x) <= MaxLineages THEN Len(x) ELSE MaxLineages
         /\ \A n \in 1 .. Len(Fitting(x)) : Fitting(x)[n] = x[n]
<1> DEFINE l == Min({Len(x), MaxLineages})
<1>1. l = IF Len(x) <= MaxLineages THEN Len(x) ELSE MaxLineages
  <2>1. {Len(x), MaxLineages} \in SUBSET Nat
    BY AffinityAssumption
  <2> QED
    BY <2>1, MinIs
<1>2. Fitting(x) = SubSeq(x, 1, l)
  BY DEF Fitting
<1> HIDE DEF l
<1>3. l \in 0 .. Len(x)
  BY <1>1, AffinityAssumption
<1> QED
  BY <1>1, <1>2, <1>3

\* The n-th has the place n.
LEMMA PlacedFirst ==
  ASSUME NEW S, NEW x \in Seq(S), NEW a \in 0 .. Len(x), NEW place,
         DOMAIN place = 1 .. a, \A n \in 1 .. a : place[n] = n
  PROVE  /\ Placed(x, place) \in Seq(S)
         /\ Len(Placed(x, place)) = a
         /\ \A n \in 1 .. a : Placed(x, place)[n] = x[n]
<1>1. Cardinality(DOMAIN place) = a
  BY UpTo
<1>2. \A k \in 1 .. a : (CHOOSE n \in DOMAIN place : place[n] = k) = k
  OBVIOUS
<1>3. Placed(x, place) = [k \in 1 .. a |-> x[k]]
  BY <1>1, <1>2 DEF Placed
<1>4. \A k \in 1 .. a : x[k] \in S
  OBVIOUS
<1> QED
  BY <1>3, <1>4

\* All but the j-th, each at its place among the others.
LEMMA PlacedOthers ==
  ASSUME NEW S, NEW x \in Seq(S), NEW j \in 1 .. Len(x), NEW place,
         DOMAIN place = (1 .. Len(x)) \ {j},
         \A n \in DOMAIN place : place[n] = IF n < j THEN n ELSE n - 1
  PROVE  /\ Placed(x, place) \in Seq(S)
         /\ Len(Placed(x, place)) = Len(x) - 1
         /\ \A n \in 1 .. Len(x) - 1 : Placed(x, place)[n] = IF n < j THEN x[n] ELSE x[n + 1]
<1> DEFINE N == Len(x)
           other(k) == IF k < j THEN k ELSE k + 1
<1>1. N \in Nat /\ j \in 1 .. N
  OBVIOUS
<1>2. Cardinality(DOMAIN place) = N - 1
  BY <1>1, UpTo, FS_RemoveElement
<1>3. ASSUME NEW k \in 1 .. N - 1 PROVE (CHOOSE n \in DOMAIN place : place[n] = k) = other(k)
  <2>1. other(k) \in DOMAIN place /\ place[other(k)] = k
    BY <1>1
  <2>2. \A n \in DOMAIN place : place[n] = k => n = other(k)
    BY <1>1
  <2> QED
    BY <2>1, <2>2
<1>5. \A k \in 1 .. N - 1 : x[other(k)] \in S
  BY <1>1
<1> HIDE DEF other
<1>4. Placed(x, place) = [k \in 1 .. N - 1 |-> x[other(k)]]
  <2>1. \A k \in 1 .. N - 1 : (CHOOSE n \in DOMAIN place : place[n] = k) = other(k)
    BY <1>3
  <2>2. Placed(x, place) = [k \in 1 .. N - 1 |-> x[CHOOSE n \in DOMAIN place : place[n] = k]]
    BY <1>2, Zenon DEF Placed
  <2> QED
    BY <2>1, <2>2
<1>6. Placed(x, place) \in Seq(S) /\ Len(Placed(x, place)) = N - 1
  BY <1>1, <1>4, <1>5
<1>7. \A n \in 1 .. N - 1 : Placed(x, place)[n] = x[other(n)]
  BY <1>4
<1> QED
  BY <1>6, <1>7 DEF other

\* A record of entries in order loses its end, by age and by number.
LEMMA PrunedIs ==
  ASSUME NEW x, Sound(x, now), now \in Nat
  PROVE  /\ Pruned(x) \in Seq(EntryOf)
         /\ Len(Pruned(x)) <= Len(x)
         /\ \A n \in 1 .. Len(Pruned(x)) : Pruned(x)[n] = x[n]
         /\ \A n \in 1 .. Len(x) : n <= MaxLineages /\ now < x[n].expiresAt => n <= Len(Pruned(x))
<1> DEFINE N == Len(x)
           alive == {n \in 1 .. N : x[n].expiresAt > now}
           ahead(m, n) == \/ x[m].updatedAt > x[n].updatedAt
                          \/ x[m].updatedAt = x[n].updatedAt /\ m < n
           place == [n \in alive |-> Cardinality({m \in alive : ahead(m, n)}) + 1]
<1>1. x \in Seq(EntryOf) /\ N \in Nat /\ \A n \in 1 .. N : x[n].updatedAt \in Nat /\ x[n].expiresAt \in Nat
  <2>1. x \in Seq(EntryOf) /\ N \in Nat /\ \A n \in 1 .. N : x[n] \in EntryOf
    BY DEF Sound
  <2> QED
    BY <2>1 DEF EntryOf
<1>2. \A m, n \in 1 .. N : m < n => x[m].updatedAt >= x[n].updatedAt /\ x[m].expiresAt >= x[n].expiresAt
  <2>1. TtlMs \in Nat
    BY AffinityAssumption
  <2>2. /\ \A m, n \in 1 .. N : m < n => x[m].updatedAt >= x[n].updatedAt
        /\ \A n \in 1 .. N : x[n].expiresAt = x[n].updatedAt + TtlMs
    BY DEF Sound
  <2> QED
    BY <1>1, <2>1, <2>2
<1>3. PICK a \in 0 .. N : alive = 1 .. a
  <2>1. CASE alive = 1 .. N
    BY <1>1, <2>1
  <2>2. CASE alive # 1 .. N
    <3> DEFINE gone == (1 .. N) \ alive
    <3>1. gone \in SUBSET Nat /\ gone # {}
      BY <1>1, <2>2
    <3>2. PICK p \in gone : \A n \in gone : p <= n
      <4> HIDE DEF gone
      <4> QED
        BY <3>1, Least
    <3>3. \A n \in 1 .. N : n \in alive <=> n < p
      BY <1>1, <1>2, <3>2
    <3>4. alive = 1 .. p - 1 /\ p - 1 \in 0 .. N
      BY <1>1, <3>2, <3>3
    <3> QED
      BY <3>4
  <2> QED
    BY <2>1, <2>2
<1>4. ASSUME NEW n \in 1 .. a PROVE place[n] = n
  <2>0. n \in 1 .. N /\ a <= N /\ a \in Nat
    BY <1>1
  <2>a. \A m \in 1 .. N : ahead(m, n) <=> m < n
    <3> TAKE m \in 1 .. N
    <3>1. x[m].updatedAt \in Nat /\ x[n].updatedAt \in Nat
      BY <1>1, <2>0
    <3>2. m < n => x[m].updatedAt >= x[n].updatedAt
      BY <1>2, <2>0
    <3>3. n < m => x[n].updatedAt >= x[m].updatedAt
      BY <1>2, <2>0
    <3> QED
      BY <2>0, <3>1, <3>2, <3>3
  <2>1. {m \in alive : ahead(m, n)} = 1 .. n - 1
    <3> HIDE DEF ahead
    <3>1. \A m : m \in alive /\ ahead(m, n) <=> m \in 1 .. n - 1
      BY <1>3, <2>0, <2>a
    <3> HIDE DEF alive
    <3> QED
      BY <3>1
  <2>2. Cardinality(1 .. n - 1) = n - 1
    BY UpTo
  <2>3. n \in alive
    BY <1>3
  <2> HIDE DEF alive, ahead
  <2>4. place[n] = Cardinality({m \in alive : ahead(m, n)}) + 1
    BY <2>3
  <2> HIDE DEF place
  <2>5. place[n] = (n - 1) + 1
    BY <2>1, <2>2, <2>4, Zenon
  <2> QED
    BY <2>0, <2>5
<1>5. DOMAIN place = 1 .. a
  BY <1>3
<1>6. Pruned(x) = Fitting(Placed(x, place))
  BY DEF Pruned
<1>7. \A n \in 1 .. N : x[n].expiresAt > now => n <= a
  BY <1>3
<1> HIDE DEF place, alive, ahead
<1> DEFINE y == Placed(x, place)
<1>8. y \in Seq(EntryOf) /\ Len(y) = a /\ \A n \in 1 .. a : y[n] = x[n]
  BY <1>1, <1>4, <1>5, PlacedFirst
<1> HIDE DEF y
<1>9. /\ Fitting(y) \in Seq(EntryOf)
      /\ Len(Fitting(y)) = IF a <= MaxLineages THEN a ELSE MaxLineages
      /\ \A n \in 1 .. Len(Fitting(y)) : Fitting(y)[n] = y[n]
  BY <1>8, FittingIs
<1>10. Pruned(x) = Fitting(y)
  BY <1>6 DEF y
<1> QED
  BY <1>1, <1>7, <1>8, <1>9, <1>10, AffinityAssumption

LEMMA PrunedSound ==
  ASSUME NEW x, Sound(x, now), now \in Nat
  PROVE  /\ Sound(Pruned(x), now)
         /\ \A m \in 1 .. Len(Pruned(x)) : \E n \in 1 .. Len(x) : Pruned(x)[m].ref = x[n].ref
<1> DEFINE y == Pruned(x)
<1>1. /\ y \in Seq(EntryOf) /\ Len(y) <= Len(x) /\ Len(x) \in Nat /\ Len(y) \in Nat
      /\ \A n \in 1 .. Len(y) : y[n] = x[n] /\ n \in 1 .. Len(x)
  <2>1. x \in Seq(EntryOf)
    BY DEF Sound
  <2> HIDE DEF y
  <2>2. y \in Seq(EntryOf) /\ Len(y) <= Len(x) /\ \A n \in 1 .. Len(y) : y[n] = x[n]
    BY PrunedIs DEF y
  <2> QED
    BY <2>1, <2>2
<1> HIDE DEF y
<1>2. Sound(y, now)
  BY <1>1 DEF Sound
<1> QED
  BY <1>1, <1>2 DEF y

\* As many entries come before one as there are references they are of.
LEMMA Behind ==
  ASSUME NEW x, NEW n \in Nat, NEW B, IsFiniteSet(B),
         \A i, j \in 1 .. n : x[i].ref = x[j].ref => i = j,
         \A i \in 1 .. n : x[i].ref \in B
  PROVE  n <= Cardinality(B)
<1> DEFINE f == [i \in 1 .. n |-> x[i].ref]
<1>1. f \in Injection(1 .. n, B)
  BY DEF Injection, IsInjective
<1>2. Cardinality(1 .. n) <= Cardinality(B)
  BY <1>1, FS_Injection
<1> QED
  BY <1>2, UpTo

\* What is remembered is not lost to age or number.
LEMMA PrunedHas ==
  ASSUME NEW x, Sound(x, now), now \in Nat, NEW ref, NEW l, NEW t \in Nat, NEW B,
         IsFiniteSet(B), Cardinality(B) < MaxLineages, now < t + TtlMs, Has(x, ref, l, t, B)
  PROVE  Has(Pruned(x), ref, l, t, B)
<1>1. PICK n \in 1 .. Len(x) : /\ x[n].ref = ref /\ x[n].lineage = l /\ x[n].updatedAt = t
                               /\ \A m \in 1 .. n - 1 : x[m].ref \in B
  BY DEF Has
<1>2. x \in Seq(EntryOf) /\ Len(x) \in Nat /\ n \in Nat /\ n - 1 \in Nat
  BY DEF Sound
<1>3. n - 1 <= Cardinality(B)
  <2>1. \A i, j \in 1 .. n - 1 : x[i].ref = x[j].ref => i = j
    BY <1>2 DEF Sound
  <2> QED
    BY <1>1, <1>2, <2>1, Behind
<1>4. n <= MaxLineages /\ now < x[n].expiresAt
  <2>1. Cardinality(B) \in Nat /\ MaxLineages \in Nat
    BY FS_CardinalityType, AffinityAssumption
  <2>2. x[n].expiresAt = t + TtlMs
    BY <1>1 DEF Sound
  <2> QED
    BY <1>2, <1>3, <2>1, <2>2
<1> DEFINE y == Pruned(x)
<1>5. n \in 1 .. Len(y) /\ Len(y) \in Nat
  <2>1. y \in Seq(EntryOf) /\ n <= Len(y)
    BY <1>4, PrunedIs
  <2> HIDE DEF y
  <2> QED
    BY <1>2, <2>1
<1>6. \A m \in 1 .. n : y[m] = x[m]
  <2>1. \A m \in 1 .. Len(y) : y[m] = x[m]
    BY PrunedIs
  <2> HIDE DEF y
  <2> QED
    BY <1>5, <2>1
<1> HIDE DEF y
<1>7. Has(y, ref, l, t, B)
  BY <1>1, <1>2, <1>5, <1>6 DEF Has
<1> QED
  BY <1>7 DEF y

-----------------------------------------------------------------------------
(* The last used entry goes to the front. *)

\* j is where x has the reference, or the place after its end.
InFront(x, e, j, y) ==
  /\ y \in Seq(EntryOf)
  /\ j \in 1 .. Len(x) + 1
  /\ \A n \in 1 .. Len(x) : x[n].ref = e.ref <=> n = j
  /\ Len(y) = IF j <= Len(x) THEN Len(x) ELSE Len(x) + 1
  /\ y[1] = e
  /\ \A n \in 2 .. Len(y) : y[n] = IF n <= j THEN x[n - 1] ELSE x[n]

LEMMA UpsertIs ==
  ASSUME NEW x, Sound(x, now), NEW e \in EntryOf
  PROVE  \E j, y : InFront(x, e, j, y) /\ Upsert(x, e) = Fitting(y)
<1> DEFINE N == Len(x)
           others == {n \in 1 .. N : x[n].ref # e.ref}
           place == [n \in others |-> Cardinality({m \in others : m <= n})]
           t == Placed(x, place)
           y == <<e>> \o t
<1>1. Upsert(x, e) = Fitting(y)
  BY DEF Upsert
<1>2. x \in Seq(EntryOf) /\ N \in Nat /\ \A m, n \in 1 .. N : x[m].ref = x[n].ref => m = n
  BY DEF Sound
<1>3. CASE \A n \in 1 .. N : x[n].ref # e.ref
  <2>1. others = 1 .. N
    BY <1>3
  <2>2. ASSUME NEW n \in 1 .. N PROVE place[n] = n
    <3>1. {m \in others : m <= n} = 1 .. n
      BY <1>2, <2>1
    <3>2. Cardinality(1 .. n) = n /\ n \in others
      BY UpTo, <2>1
    <3> HIDE DEF others
    <3> QED
      BY <3>1, <3>2
  <2>3. DOMAIN place = 1 .. N
    BY <2>1
  <2> HIDE DEF place
  <2>4. t \in Seq(EntryOf) /\ Len(t) = N /\ \A n \in 1 .. N : t[n] = x[n]
    BY <1>2, <2>2, <2>3, PlacedFirst
  <2> HIDE DEF t
  <2>5. y \in Seq(EntryOf) /\ Len(y) = N + 1 /\ y[1] = e /\ \A n \in 2 .. N + 1 : y[n] = t[n - 1]
    BY <1>2, <2>4
  <2> HIDE DEF y
  <2>6. InFront(x, e, N + 1, y)
    BY <1>2, <1>3, <2>4, <2>5 DEF InFront
  <2> QED
    BY <1>1, <2>6
<1>4. ASSUME NEW j \in 1 .. N, x[j].ref = e.ref PROVE \E i, z : InFront(x, e, i, z) /\ Upsert(x, e) = Fitting(z)
  <2>0. \A n \in 1 .. N : x[n].ref = e.ref <=> n = j
    BY <1>2, <1>4
  <2>1. others = (1 .. N) \ {j}
    BY <2>0
  <2>2. ASSUME NEW n \in others PROVE place[n] = IF n < j THEN n ELSE n - 1
    <3>1. CASE n < j
      <4>1. {m \in others : m <= n} = 1 .. n
        BY <1>2, <2>1, <3>1
      <4>2. Cardinality(1 .. n) = n
        BY <2>1, UpTo
      <4> HIDE DEF others
      <4> QED
        BY <3>1, <4>1, <4>2
    <3>2. CASE ~(n < j)
      <4>1. {m \in others : m <= n} = (1 .. n) \ {j} /\ j \in 1 .. n
        BY <1>2, <2>1, <3>2
      <4>2. Cardinality((1 .. n) \ {j}) = n - 1
        <5>1. n \in Nat /\ IsFiniteSet(1 .. n) /\ Cardinality(1 .. n) = n
          BY <2>1, UpTo
        <5> HIDE DEF others
        <5> QED
          BY <4>1, <5>1, FS_RemoveElement
      <4> HIDE DEF others
      <4> QED
        BY <3>2, <4>1, <4>2
    <3> QED
      BY <3>1, <3>2
  <2>3. DOMAIN place = (1 .. N) \ {j}
    BY <2>1
  <2>a. \A n \in DOMAIN place : place[n] = IF n < j THEN n ELSE n - 1
    BY <2>1, <2>2, <2>3
  <2> HIDE DEF place
  <2>4. t \in Seq(EntryOf) /\ Len(t) = N - 1 /\ \A n \in 1 .. N - 1 : t[n] = IF n < j THEN x[n] ELSE x[n + 1]
    <3>1. x \in Seq(EntryOf) /\ j \in 1 .. Len(x) /\ DOMAIN place = (1 .. Len(x)) \ {j}
      BY <1>2, <2>3
    <3> QED
      BY <3>1, <2>a, PlacedOthers, Zenon
  <2> HIDE DEF t
  <2>5. y \in Seq(EntryOf) /\ Len(y) = N /\ y[1] = e /\ \A n \in 2 .. N : y[n] = t[n - 1]
    BY <1>2, <2>4
  <2> HIDE DEF y
  <2>6. \A n \in 2 .. N : y[n] = IF n <= j THEN x[n - 1] ELSE x[n]
    <3> TAKE n \in 2 .. N
    <3>1. n - 1 \in 1 .. N - 1 /\ (n - 1 < j <=> n <= j) /\ n - 1 + 1 = n
      BY <1>2
    <3> QED
      BY <2>4, <2>5, <3>1
  <2>7. InFront(x, e, j, y)
    BY <1>2, <2>0, <2>5, <2>6 DEF InFront
  <2> QED
    BY <1>1, <2>7
<1> QED
  BY <1>3, <1>4

\* An entry of now.
Recent(e) == e \in EntryOf /\ e.updatedAt = now /\ e.expiresAt = now + TtlMs

LEMMA FrontSound ==
  ASSUME NEW x, Sound(x, now), NEW e, Recent(e), now \in Nat, NEW j, NEW y, InFront(x, e, j, y)
  PROVE  Sound(y, now) /\ \A m \in 1 .. Len(y) : y[m].ref = e.ref \/ \E n \in 1 .. Len(x) : y[m].ref = x[n].ref
<1> DEFINE N == Len(x)
           was(n) == IF n <= j THEN n - 1 ELSE n
<1>1. /\ x \in Seq(EntryOf) /\ N \in Nat /\ j \in 1 .. N + 1
      /\ y \in Seq(EntryOf) /\ Len(y) \in Nat /\ Len(y) = IF j <= N THEN N ELSE N + 1
      /\ y[1] = e
      /\ \A n \in 2 .. Len(y) : y[n] = IF n <= j THEN x[n - 1] ELSE x[n]
      /\ \A n \in 1 .. N : x[n].ref = e.ref <=> n = j
  BY DEF Sound, InFront
<1>2. \A n \in 2 .. Len(y) : was(n) \in 1 .. N /\ was(n) # j /\ y[n] = x[was(n)]
  BY <1>1
<1>3. \A m, n \in 2 .. Len(y) : (was(m) = was(n) => m = n) /\ (m < n => was(m) < was(n))
  BY <1>1
<1> HIDE DEF was
<1>4. \A n \in 2 .. Len(y) : y[n].ref # e.ref
  BY <1>1, <1>2
<1>5. \A m, n \in 1 .. Len(y) : y[m].ref = y[n].ref => m = n
  <2> SUFFICES ASSUME NEW m \in 1 .. Len(y), NEW n \in 1 .. Len(y), y[m].ref = y[n].ref PROVE m = n
    OBVIOUS
  <2>1. CASE m = 1 \/ n = 1
    BY <1>1, <1>4, <2>1
  <2>2. CASE ~(m = 1 \/ n = 1)
    <3>1. m \in 2 .. Len(y) /\ n \in 2 .. Len(y)
      BY <1>1, <2>2
    <3>2. was(m) = was(n)
      BY <1>2, <3>1 DEF Sound
    <3> QED
      BY <1>3, <3>1, <3>2
  <2> QED
    BY <2>1, <2>2
<1>6. \A n \in 1 .. N : x[n].updatedAt \in Nat /\ x[n].updatedAt <= now
  <2>1. \A n \in 1 .. N : x[n] \in EntryOf
    BY <1>1
  <2> QED
    BY <2>1 DEF EntryOf, Sound
<1>7. \A m, n \in 1 .. Len(y) : m < n => y[m].updatedAt >= y[n].updatedAt
  <2> SUFFICES ASSUME NEW m \in 1 .. Len(y), NEW n \in 1 .. Len(y), m < n
               PROVE  y[m].updatedAt >= y[n].updatedAt
    OBVIOUS
  <2>1. n \in 2 .. Len(y) /\ was(n) \in 1 .. N /\ y[n] = x[was(n)]
    BY <1>1, <1>2
  <2>2. CASE m = 1
    BY <1>1, <1>6, <2>1, <2>2 DEF Recent
  <2>3. CASE m # 1
    <3>1. m \in 2 .. Len(y)
      BY <1>1, <2>3
    <3>2. was(m) \in 1 .. N /\ y[m] = x[was(m)] /\ was(m) < was(n)
      BY <1>2, <1>3, <2>1, <3>1
    <3> QED
      BY <2>1, <3>2 DEF Sound
  <2> QED
    BY <2>2, <2>3
<1>8. \A n \in 1 .. Len(y) : y[n].updatedAt <= now /\ y[n].expiresAt = y[n].updatedAt + TtlMs
  <2> TAKE n \in 1 .. Len(y)
  <2>1. CASE n = 1
    BY <1>1, <2>1 DEF Recent
  <2>2. CASE n # 1
    <3>1. n \in 2 .. Len(y)
      BY <1>1, <2>2
    <3> QED
      BY <1>2, <3>1 DEF Sound
  <2> QED
    BY <2>1, <2>2
<1>9. Sound(y, now)
  BY <1>1, <1>5, <1>7, <1>8 DEF Sound
<1>10. \A m \in 1 .. Len(y) : m = 1 \/ m \in 2 .. Len(y)
  BY <1>1
<1> QED
  BY <1>1, <1>2, <1>9, <1>10

LEMMA UpsertSound ==
  ASSUME NEW x, Sound(x, now), NEW e, Recent(e), now \in Nat
  PROVE  /\ Sound(Upsert(x, e), now)
         /\ \A m \in 1 .. Len(Upsert(x, e)) :
              Upsert(x, e)[m].ref = e.ref \/ \E n \in 1 .. Len(x) : Upsert(x, e)[m].ref = x[n].ref
<1>1. PICK j, y : InFront(x, e, j, y) /\ Upsert(x, e) = Fitting(y)
  BY UpsertIs DEF Recent
<1>2. Sound(y, now) /\ \A m \in 1 .. Len(y) : y[m].ref = e.ref \/ \E n \in 1 .. Len(x) : y[m].ref = x[n].ref
  BY <1>1, FrontSound
<1> DEFINE z == Fitting(y)
<1>3. /\ z \in Seq(EntryOf) /\ Len(z) <= Len(y) /\ Len(z) \in Nat /\ Len(y) \in Nat
      /\ \A n \in 1 .. Len(z) : z[n] = y[n] /\ n \in 1 .. Len(y)
  <2>1. y \in Seq(EntryOf) /\ Len(y) \in Nat
    BY <1>2 DEF Sound
  <2>2. /\ z \in Seq(EntryOf)
        /\ Len(z) = IF Len(y) <= MaxLineages THEN Len(y) ELSE MaxLineages
        /\ \A n \in 1 .. Len(z) : z[n] = y[n]
    BY <2>1, FittingIs
  <2> HIDE DEF z
  <2> QED
    BY <2>1, <2>2, AffinityAssumption
<1> HIDE DEF z
<1>4. Sound(z, now)
  BY <1>2, <1>3 DEF Sound
<1>5. \A m \in 1 .. Len(z) : z[m].ref = e.ref \/ \E n \in 1 .. Len(x) : z[m].ref = x[n].ref
  BY <1>2, <1>3
<1> QED
  BY <1>1, <1>4, <1>5 DEF z

LEMMA UpsertFirst ==
  ASSUME NEW x, Sound(x, now), NEW e, Recent(e)
  PROVE  Has(Upsert(x, e), e.ref, e.lineage, now, {})
<1>1. PICK j, y : InFront(x, e, j, y) /\ Upsert(x, e) = Fitting(y)
  BY UpsertIs DEF Recent
<1>2. y \in Seq(EntryOf) /\ y[1] = e /\ Len(y) >= 1 /\ Len(y) \in Nat
  BY <1>1 DEF InFront, Sound
<1>3. Len(Fitting(y)) >= 1 /\ Len(Fitting(y)) \in Nat /\ \A n \in 1 .. Len(Fitting(y)) : Fitting(y)[n] = y[n]
  BY <1>2, FittingIs, AffinityAssumption
<1>4. 1 \in 1 .. Len(Fitting(y)) /\ Fitting(y)[1] = e
  BY <1>2, <1>3
<1> QED
  BY <1>1, <1>4 DEF Has, Recent

\* An entry of another reference has that of e before it.
LEMMA UpsertHas ==
  ASSUME NEW x, Sound(x, now), NEW e, Recent(e), now \in Nat, NEW ref, ref # e.ref, NEW l, NEW t, NEW B,
         IsFiniteSet(B), Cardinality(B \cup {e.ref}) < MaxLineages, Has(x, ref, l, t, B)
  PROVE  Has(Upsert(x, e), ref, l, t, B \cup {e.ref})
<1>1. PICK j, y : InFront(x, e, j, y) /\ Upsert(x, e) = Fitting(y)
  BY UpsertIs DEF Recent
<1>2. Sound(y, now)
  BY <1>1, FrontSound
<1>3. PICK n \in 1 .. Len(x) : /\ x[n].ref = ref /\ x[n].lineage = l /\ x[n].updatedAt = t
                               /\ \A m \in 1 .. n - 1 : x[m].ref \in B
  BY DEF Has
<1> DEFINE p == IF n < j THEN n + 1 ELSE n
           C == B \cup {e.ref}
<1>4. /\ x \in Seq(EntryOf) /\ Len(x) \in Nat /\ n \in Nat /\ j \in 1 .. Len(x) + 1
      /\ y \in Seq(EntryOf) /\ Len(y) \in Nat /\ Len(y) = IF j <= Len(x) THEN Len(x) ELSE Len(x) + 1
      /\ y[1] = e
      /\ \A m \in 2 .. Len(y) : y[m] = IF m <= j THEN x[m - 1] ELSE x[m]
      /\ n # j
  BY <1>1, <1>3 DEF Sound, InFront
<1>5. p \in 2 .. Len(y) /\ y[p] = x[n]
  <2>1. CASE n < j
    BY <1>4, <2>1
  <2>2. CASE ~(n < j)
    BY <1>4, <2>2
  <2> QED
    BY <2>1, <2>2
<1>6. \A m \in 1 .. p - 1 : y[m].ref \in C
  <2> SUFFICES ASSUME NEW m \in 1 .. p - 1 PROVE y[m].ref \in C
    OBVIOUS
  <2>1. CASE m = 1
    BY <1>4, <2>1
  <2>2. CASE m # 1 /\ m <= j
    <3>1. m - 1 \in 1 .. n - 1 /\ m \in 2 .. Len(y)
      BY <1>4, <1>5, <2>2
    <3> QED
      BY <1>3, <1>4, <2>2, <3>1
  <2>3. CASE m # 1 /\ ~(m <= j)
    <3>1. m \in 1 .. n - 1 /\ m \in 2 .. Len(y)
      BY <1>4, <1>5, <2>3
    <3> QED
      BY <1>3, <1>4, <2>3, <3>1
  <2> QED
    BY <2>1, <2>2, <2>3
<1> HIDE DEF p
<1>7. IsFiniteSet(C) /\ Cardinality(C) \in Nat
  BY FS_AddElement, FS_CardinalityType
<1>8. p - 1 <= Cardinality(C)
  <2>1. p - 1 \in Nat /\ \A i, k \in 1 .. p - 1 : y[i].ref = y[k].ref => i = k
    BY <1>2, <1>4, <1>5 DEF Sound
  <2> HIDE DEF C
  <2> QED
    BY <1>6, <1>7, <2>1, Behind
<1>9. /\ Len(Fitting(y)) = IF Len(y) <= MaxLineages THEN Len(y) ELSE MaxLineages
      /\ \A m \in 1 .. Len(Fitting(y)) : Fitting(y)[m] = y[m]
  BY <1>4, FittingIs
<1>10. p \in 1 .. Len(Fitting(y)) /\ Len(Fitting(y)) \in Nat
  BY <1>4, <1>5, <1>7, <1>8, <1>9, AffinityAssumption
<1>11. \A m \in 1 .. p : Fitting(y)[m] = y[m]
  <2>1. p \in Nat /\ \A m \in 1 .. p : m \in 1 .. Len(Fitting(y))
    BY <1>4, <1>5, <1>10
  <2> QED
    BY <1>9, <2>1
<1> HIDE DEF C
<1> DEFINE z == Fitting(y)
<1>12. Has(z, ref, l, t, C)
  <2>1. p \in 1 .. Len(z) /\ z[p] = x[n]
    BY <1>5, <1>10, <1>11
  <2>2. \A m \in 1 .. p - 1 : z[m].ref \in C
    <3>1. \A m \in 1 .. p - 1 : m \in 1 .. p
      BY <1>5
    <3>2. \A m \in 1 .. p - 1 : z[m] = y[m]
      BY <1>11, <3>1
    <3> HIDE DEF z
    <3> QED
      BY <1>6, <3>2
  <2> HIDE DEF z
  <2> QED
    BY <1>3, <2>1, <2>2 DEF Has
<1> QED
  BY <1>1, <1>12 DEF C

-----------------------------------------------------------------------------
(* What a request finds. *)

LEMMA FindIs ==
  ASSUME NEW x, Sound(x, now), NEW ref
  PROVE  /\ \A l, t, B : Has(x, ref, l, t, B) => Find(x, ref) = l
         /\ (\A n \in 1 .. Len(x) : x[n].ref # ref) => Find(x, ref) = Unset
         /\ Find(x, ref) \in Lineages \cup {Unset}
<1> DEFINE at == {n \in 1 .. Len(x) : x[n].ref = ref}
<1>1. Find(x, ref) = IF at = {} THEN Unset ELSE x[Min(at)].lineage
  BY DEF Find
<1>2. \A n \in at : at = {n}
  BY DEF Sound
<1>3. ASSUME NEW n \in at PROVE Min(at) = n /\ n \in 1 .. Len(x)
  <2>1. n \in Nat /\ n \in 1 .. Len(x)
    OBVIOUS
  <2>2. at = {n}
    BY <1>2
  <2> HIDE DEF at
  <2>3. at \in SUBSET Nat /\ \A k \in at : n <= k
    BY <2>1, <2>2
  <2> QED
    BY <2>1, <2>3, MinIs
<1>4. \A l, t, B : Has(x, ref, l, t, B) => \E n \in at : x[n].lineage = l
  BY DEF Has
<1>5. \A n \in 1 .. Len(x) : x[n].lineage \in Lineages
  <2>1. x \in Seq(EntryOf)
    BY DEF Sound
  <2>2. \A n \in 1 .. Len(x) : x[n] \in EntryOf
    BY <2>1
  <2> QED
    BY <2>2 DEF EntryOf
<1>6. (\A n \in 1 .. Len(x) : x[n].ref # ref) => at = {}
  OBVIOUS
<1> HIDE DEF at
<1> QED
  BY <1>1, <1>2, <1>3, <1>4, <1>5, <1>6

-----------------------------------------------------------------------------
(* Cache keys: the inductive invariant. *)

\* The secret in use is the one in the Keychain.
SecretKept == secret # 0 => secret = item

\* A key given is of the secret in the Keychain, and what is given to a reference
\* that counts as remembered is in the record, behind those used since.
GivenKept ==
  /\ kept \in [Refs -> [key : {Unset} \cup (Nat \X Lineages), at : Nat, since : SUBSET Refs, client : BOOLEAN]]
  /\ \A ref \in Refs :
       /\ kept[ref].key # Unset => item # 0 /\ kept[ref].key[1] = item
       /\ IsFiniteSet(kept[ref].since)
       /\ Remembered(ref) => Has(index, ref, kept[ref].key[2], kept[ref].at, kept[ref].since)

\* The record has no reference that was given nothing.
OnlyGiven == \A n \in 1 .. Len(index) : kept[index[n].ref].key # Unset

Numbers == now \in Nat /\ secret \in Nat /\ item \in Nat /\ loading \in [at : {"no", "reads", "stores", "verifies"}, made : Nat] /\ secrets \in Nat

AffinityInv == Numbers /\ Sound(index, now) /\ SecretKept /\ GivenKept /\ OnlyGiven

LEMMA AffinityInitInv == AffinityInit => AffinityInv
<1> SUFFICES ASSUME AffinityInit PROVE AffinityInv
  OBVIOUS
<1>1. /\ now = 0 /\ secret = 0 /\ item = 0 /\ loading = NotLoading /\ index = <<>> /\ secrets = 0
      /\ kept = [ref \in Refs |-> Never]
  BY DEF AffinityInit
<1>2. Numbers /\ SecretKept
  BY <1>1 DEF Numbers, SecretKept, NotLoading
<1>3. Sound(index, now) /\ OnlyGiven
  BY <1>1 DEF Sound, OnlyGiven
<1>4. GivenKept
  BY <1>1, FS_EmptySet DEF GivenKept, Never, Remembered
<1> QED
  BY <1>2, <1>3, <1>4 DEF AffinityInv

\* What a request does: its lineage is one, and the record has its two entries.
LEMMA LineageIs ==
  ASSUME NEW x, Sound(x, now), now \in Nat, NEW turn \in Turns, NEW client \in ClientKey \cup {Unset}
  PROVE  /\ Lineage(x, turn, client) \in Lineages
         /\ Find(x, <<turn, "turn">>) # Unset => Lineage(x, turn, client) = Find(x, <<turn, "turn">>)
         /\ /\ Find(x, <<turn, "turn">>) = Unset
            /\ client = Unset
            /\ Find(x, <<Parent[TurnOf[turn]], "thread">>) = Unset
            /\ Find(x, <<TurnOf[turn], "thread">>) # Unset
            => Lineage(x, turn, client) = Find(x, <<TurnOf[turn], "thread">>)
<1> DEFINE c1 == Find(x, <<turn, "turn">>)
           c2 == IF client = Unset THEN Unset ELSE <<"client", client>>
           c3 == Find(x, <<Parent[TurnOf[turn]], "thread">>)
           c4 == Find(x, <<TurnOf[turn], "thread">>)
           c5 == <<"thread", TurnOf[turn], now>>
           c == <<c1, c2, c3, c4, c5>>
           S == {n \in 1 .. 5 : c[n] # Unset}
<1>1. Lineage(x, turn, client) = c[Min(S)]
  BY DEF Lineage
<1>2. TurnOf[turn] \in Thread
  BY AffinityAssumption DEF Turns
<1>3. c1 \in Lineages \cup {Unset} /\ c3 \in Lineages \cup {Unset} /\ c4 \in Lineages \cup {Unset}
  BY FindIs
<1>4. c2 \in Lineages \cup {Unset} /\ c5 \in Lineages
  BY <1>2 DEF Lineages
<1>5. Unset \notin Lineages
  BY AffinityAssumption
<1> HIDE DEF c1, c2, c3, c4, c5
<1>6. \A n \in 1 .. 5 : c[n] \in Lineages \cup {Unset}
  BY <1>3, <1>4
<1>7. 5 \in S /\ S \in SUBSET Nat /\ S \subseteq 1 .. 5
  BY <1>4, <1>5
<1>8. c1 # Unset => 1 \in S
  OBVIOUS
<1>9. c1 = Unset /\ c2 = Unset /\ c3 = Unset /\ c4 # Unset => 4 \in S /\ \A n \in S : 4 <= n
  OBVIOUS
<1>10. c[1] = c1 /\ c[4] = c4
  OBVIOUS
<1>11. \A n \in S : c[n] \in Lineages
  BY <1>6
<1> HIDE DEF c, S
<1>12. PICK m \in S : \A n \in S : m <= n
  BY <1>7, Least
<1>13. Min(S) = m
  BY <1>7, <1>12, MinIs
<1>14. Lineage(x, turn, client) \in Lineages
  BY <1>1, <1>11, <1>13
<1>15. c1 # Unset => Lineage(x, turn, client) = c1
  <2>1. 1 \in S => m = 1
    BY <1>7, <1>12
  <2> QED
    BY <1>1, <1>8, <1>10, <1>13, <2>1
<1>16. c1 = Unset /\ c2 = Unset /\ c3 = Unset /\ c4 # Unset => Lineage(x, turn, client) = c4
  <2>1. 4 \in S /\ (\A n \in S : 4 <= n) => m = 4
    BY <1>7, <1>12
  <2> QED
    BY <1>1, <1>9, <1>10, <1>13, <2>1
<1> QED
  BY <1>14, <1>15, <1>16 DEF c1, c2, c3, c4

LEMMA ResolvesKeeps ==
  ASSUME AffinityInv, NEW turn \in Turns, NEW client \in ClientKey \cup {Unset}, Resolves(turn, client)
  PROVE  AffinityInv'
<1> DEFINE entries == Pruned(index)
           lineage == Lineage(entries, turn, client)
           thread  == <<TurnOf[turn], "thread">>
           own     == <<turn, "turn">>
           first   == Upsert(entries, Entry(thread, lineage))
           given   == [key |-> <<secret, lineage>>, at |-> now, since |-> {},
                       client |-> client # Unset \/ Parent[TurnOf[turn]] # Unset]
<1>1. /\ secret # 0 /\ UNCHANGED <<item, secrets, secret, loading, now>>
      /\ index' = Upsert(first, Entry(own, lineage))
      /\ kept' = [ref \in Refs |-> IF ref = own THEN given
                                   ELSE IF ref = thread THEN [given EXCEPT !.since = {own}]
                                   ELSE [kept[ref] EXCEPT !.since = @ \cup {thread, own}]]
  BY DEF Resolves
<1>2. Numbers /\ Sound(index, now) /\ item = secret /\ item # 0 /\ GivenKept /\ OnlyGiven
  BY <1>1 DEF AffinityInv, SecretKept
<1>3. Numbers' /\ SecretKept' /\ now \in Nat /\ now' = now
  BY <1>1, <1>2 DEF Numbers, SecretKept
<1>4. thread \in Refs /\ own \in Refs /\ thread # own
  BY AffinityAssumption DEF Refs, Turns
<1>5. Sound(entries, now) /\ \A m \in 1 .. Len(entries) : \E n \in 1 .. Len(index) : entries[m].ref = index[n].ref
  BY <1>2, <1>3, PrunedSound
<1> HIDE DEF entries
<1>6. lineage \in Lineages
  BY <1>3, <1>5, LineageIs
<1> HIDE DEF lineage, thread, own
<1> DEFINE e1 == Entry(thread, lineage)
           e2 == Entry(own, lineage)
<1>7. /\ Recent(e1) /\ e1.ref = thread /\ e1.lineage = lineage
      /\ Recent(e2) /\ e2.ref = own /\ e2.lineage = lineage
  <2>1. now + TtlMs \in Nat
    BY <1>3, AffinityAssumption
  <2> QED
    BY <1>3, <1>4, <1>6, <2>1 DEF Entry, Recent, EntryOf
<1> HIDE DEF e1, e2
<1>8. first = Upsert(entries, e1) /\ index' = Upsert(first, e2)
  BY <1>1 DEF e1, e2
<1> HIDE DEF first
<1>9. /\ Sound(first, now)
      /\ \A m \in 1 .. Len(first) : first[m].ref = thread \/ \E n \in 1 .. Len(entries) : first[m].ref = entries[n].ref
  BY <1>3, <1>5, <1>7, <1>8, UpsertSound
<1>10. /\ Sound(index', now)
       /\ \A m \in 1 .. Len(index') : index'[m].ref = own \/ \E n \in 1 .. Len(first) : index'[m].ref = first[n].ref
  <2> DEFINE last == Upsert(first, e2)
  <2>1. /\ Sound(last, now)
        /\ \A m \in 1 .. Len(last) : last[m].ref = e2.ref \/ \E n \in 1 .. Len(first) : last[m].ref = first[n].ref
    BY <1>3, <1>7, <1>9, UpsertSound
  <2>2. index' = last
    BY <1>8
  <2> HIDE DEF last
  <2> QED
    BY <1>7, <2>1, <2>2
<1>11. Sound(index', now')
  BY <1>3, <1>10

<1>12. OnlyGiven'
  <2>1. \A n \in 1 .. Len(index') : index'[n].ref \in {own, thread} \/ \E k \in 1 .. Len(index) : index'[n].ref = index[k].ref
    BY <1>5, <1>9, <1>10
  <2>2. given.key # Unset
    BY <1>2, <1>6, AffinityAssumption DEF Numbers
  <2>3. \A k \in 1 .. Len(index) : index[k].ref \in Refs /\ kept[index[k].ref].key # Unset
    <3>1. \A k \in 1 .. Len(index) : index[k] \in EntryOf
      BY <1>2 DEF Sound
    <3> QED
      BY <1>2, <3>1 DEF OnlyGiven, EntryOf
  <2>4. \A ref \in Refs : kept[ref].key # Unset => kept'[ref].key # Unset
    BY <1>1, <1>2, <2>2 DEF GivenKept
  <2>5. kept'[own].key # Unset /\ kept'[thread].key # Unset
    BY <1>1, <1>4, <2>2
  <2> HIDE DEF given
  <2> QED
    BY <2>1, <2>3, <2>4, <2>5 DEF OnlyGiven
<1>13. kept' \in [Refs -> [key : {Unset} \cup (Nat \X Lineages), at : Nat, since : SUBSET Refs, client : BOOLEAN]]
  <2> DEFINE K == [key : {Unset} \cup (Nat \X Lineages), at : Nat, since : SUBSET Refs, client : BOOLEAN]
  <2>1. given \in K
    BY <1>2, <1>3, <1>6 DEF Numbers
  <2>2. [given EXCEPT !.since = {own}] \in K
    BY <2>1, <1>4
  <2>3. \A ref \in Refs : [kept[ref] EXCEPT !.since = @ \cup {thread, own}] \in K
    BY <1>2, <1>4 DEF GivenKept
  <2> HIDE DEF K, given
  <2>4. kept' \in [Refs -> K]
    BY <1>1, <2>1, <2>2, <2>3
  <2> QED
    BY <2>4 DEF K
<1>14. ASSUME NEW ref \in Refs
       PROVE  /\ kept'[ref].key # Unset => item' # 0 /\ kept'[ref].key[1] = item'
              /\ IsFiniteSet(kept'[ref].since)
              /\ Remembered(ref)' => Has(index', ref, kept'[ref].key[2], kept'[ref].at, kept'[ref].since)
  <2>1. CASE ref = own
    <3>1. kept'[ref] = given
      BY <1>1, <2>1
    <3>2. given.key = <<item, lineage>> /\ given.at = now /\ given.since = {}
      BY <1>2
    <3>3. Has(index', own, lineage, now, {})
      BY <1>7, <1>8, <1>9, UpsertFirst
    <3> HIDE DEF given
    <3>4. kept'[ref].key = <<item, lineage>> /\ kept'[ref].at = now /\ kept'[ref].since = {}
      BY <3>1, <3>2
    <3>5. Has(index', ref, kept'[ref].key[2], kept'[ref].at, kept'[ref].since)
      BY <2>1, <3>3, <3>4
    <3>6. item' = item /\ item # 0
      BY <1>1, <1>2
    <3> QED
      BY <3>4, <3>5, <3>6, FS_EmptySet
  <2>2. CASE ref = thread
    <3>1. kept'[ref] = [given EXCEPT !.since = {own}]
      BY <1>1, <1>4, <2>2
    <3>2. kept'[ref].key = <<item, lineage>> /\ kept'[ref].at = now /\ kept'[ref].since = {own}
      BY <1>2, <3>1
    <3>3. Has(first, thread, lineage, now, {})
      BY <1>5, <1>7, <1>8, UpsertFirst
    <3>4. IsFiniteSet({own}) /\ {} \cup {own} = {own} /\ IsFiniteSet({})
      BY FS_Singleton, FS_EmptySet
    <3>5. ASSUME Cardinality({own}) < MaxLineages PROVE Has(index', thread, lineage, now, {own})
      <4>1. Has(index', thread, lineage, now, {} \cup {own})
        BY <1>3, <1>4, <1>7, <1>8, <1>9, <3>3, <3>4, <3>5, UpsertHas
      <4> QED
        BY <3>4, <4>1
    <3>6. Remembered(ref)' => Cardinality({own}) < MaxLineages
      BY <3>2 DEF Remembered
    <3> QED
      BY <1>1, <1>2, <2>2, <3>2, <3>4, <3>5, <3>6
  <2>3. CASE ref # own /\ ref # thread
    <3> DEFINE B == kept[ref].since
    <3>1. kept'[ref] = [kept[ref] EXCEPT !.since = @ \cup {thread, own}]
      BY <1>1, <2>3
    <3>2. /\ kept'[ref].key = kept[ref].key /\ kept'[ref].at = kept[ref].at /\ kept'[ref].since = (B \cup {thread}) \cup {own}
          /\ kept[ref].at \in Nat /\ IsFiniteSet(B)
          /\ kept[ref].key # Unset => item # 0 /\ kept[ref].key[1] = item
      BY <1>2, <3>1 DEF GivenKept
    <3> HIDE DEF B
    <3>3. /\ IsFiniteSet(B \cup {thread}) /\ IsFiniteSet((B \cup {thread}) \cup {own})
          /\ Cardinality(B) <= Cardinality(B \cup {thread})
          /\ Cardinality(B \cup {thread}) <= Cardinality((B \cup {thread}) \cup {own})
          /\ Cardinality(B) \in Nat /\ Cardinality(B \cup {thread}) \in Nat
          /\ Cardinality((B \cup {thread}) \cup {own}) \in Nat
      <4>1. IsFiniteSet(B \cup {thread}) /\ Cardinality(B) \in Nat
            /\ Cardinality(B \cup {thread}) = IF thread \in B THEN Cardinality(B) ELSE Cardinality(B) + 1
        BY <3>2, FS_AddElement, FS_CardinalityType
      <4> DEFINE C == B \cup {thread}
      <4>2. IsFiniteSet(C) /\ Cardinality(C) \in Nat
        BY <4>1, FS_CardinalityType
      <4> HIDE DEF C
      <4>3. IsFiniteSet(C \cup {own})
            /\ Cardinality(C \cup {own}) = IF own \in C THEN Cardinality(C) ELSE Cardinality(C) + 1
        BY <4>2, FS_AddElement
      <4>4. Cardinality(C) <= Cardinality(C \cup {own}) /\ Cardinality(C \cup {own}) \in Nat
        BY <4>2, <4>3
      <4>5. Cardinality(B) <= Cardinality(B \cup {thread}) /\ Cardinality(B \cup {thread}) \in Nat
        BY <4>1
      <4> QED
        BY <4>1, <4>3, <4>4, <4>5 DEF C
    <3>4. ASSUME Remembered(ref)'
          PROVE  Has(index', ref, kept[ref].key[2], kept[ref].at, (B \cup {thread}) \cup {own})
      <4>1. /\ kept[ref].key # Unset /\ now < kept[ref].at + TtlMs
            /\ Cardinality((B \cup {thread}) \cup {own}) < MaxLineages
        BY <1>3, <3>2, <3>4 DEF Remembered
      <4>2. Cardinality(B) < MaxLineages /\ Cardinality(B \cup {thread}) < MaxLineages
        BY <3>3, <4>1, AffinityAssumption
      <4>3. Has(index, ref, kept[ref].key[2], kept[ref].at, B)
        BY <1>2, <4>1, <4>2 DEF GivenKept, Remembered, B
      <4>4. Has(entries, ref, kept[ref].key[2], kept[ref].at, B)
        BY <1>2, <1>3, <3>2, <4>1, <4>2, <4>3, PrunedHas DEF entries
      <4>5. Has(first, ref, kept[ref].key[2], kept[ref].at, B \cup {thread})
        BY <1>3, <1>5, <1>7, <1>8, <2>3, <3>2, <4>2, <4>4, UpsertHas
      <4> QED
        BY <1>3, <1>7, <1>8, <1>9, <2>3, <3>3, <4>1, <4>5, UpsertHas
    <3> QED
      BY <1>1, <3>2, <3>3, <3>4
  <2> QED
    BY <2>1, <2>2, <2>3
<1>15. GivenKept'
  BY <1>13, <1>14 DEF GivenKept
<1> QED
  BY <1>3, <1>11, <1>12, <1>15 DEF AffinityInv

\* The other steps leave the record and what was given alone.
LEMMA OthersKeep ==
  ASSUME AffinityInv, Wants \/ Reads \/ Makes \/ Stores \/ LoadFails \/ TimeGoes \/ RouterDies
  PROVE  AffinityInv'
<1>1. /\ index' = index /\ kept' = kept
      /\ now' = now \/ now' = now + 1
      /\ item' = item \/ item = 0
  BY DEF Wants, Reads, Makes, Stores, LoadFails, TimeGoes, RouterDies
<1>2. Numbers'
  <2> USE DEF AffinityInv, Numbers, NotLoading
  <2>1. CASE Wants \/ Reads
    BY <2>1 DEF Wants, Reads
  <2>2. CASE Makes \/ Stores
    BY <2>2 DEF Makes, Stores
  <2>3. CASE LoadFails
    BY <2>3 DEF LoadFails
  <2>4. CASE TimeGoes \/ RouterDies
    BY <2>4 DEF TimeGoes, RouterDies
  <2> QED
    BY <2>1, <2>2, <2>3, <2>4
<1>3. SecretKept'
  BY DEF AffinityInv, SecretKept, Wants, Reads, Makes, Stores, LoadFails, TimeGoes, RouterDies, Numbers
<1>4. Sound(index', now')
  <2>1. \A n \in 1 .. Len(index) : index[n].updatedAt \in Nat
    <3>1. \A n \in 1 .. Len(index) : index[n] \in EntryOf
      BY DEF AffinityInv, Sound
    <3> QED
      BY <3>1 DEF EntryOf
  <2>2. now \in Nat /\ Sound(index, now)
    BY DEF AffinityInv, Numbers
  <2>3. Sound(index, now')
    BY <1>1, <2>1, <2>2 DEF Sound
  <2> QED
    BY <1>1, <2>3
<1>5. GivenKept'
  <2>1. \A ref \in Refs : kept[ref].at \in Nat /\ now \in Nat /\ TtlMs \in Nat
    BY AffinityAssumption DEF AffinityInv, GivenKept, Numbers
  <2>2. \A ref \in Refs : Remembered(ref)' => Remembered(ref)
    BY <1>1, <2>1 DEF Remembered
  <2>3. \A ref \in Refs : kept[ref].key # Unset => item' = item
    BY <1>1 DEF AffinityInv, GivenKept
  <2> QED
    BY <1>1, <2>2, <2>3 DEF AffinityInv, GivenKept
<1>6. OnlyGiven'
  BY <1>1 DEF AffinityInv, OnlyGiven
<1> QED
  BY <1>2, <1>3, <1>4, <1>5, <1>6 DEF AffinityInv

LEMMA AffinityStepKeeps == AffinityInv /\ [AffinityNext]_affinityVars => AffinityInv'
<1>1. ASSUME AffinityInv, UNCHANGED affinityVars PROVE AffinityInv'
  BY <1>1 DEF affinityVars, AffinityInv, Numbers, SecretKept, GivenKept, OnlyGiven, Remembered
<1> QED
  BY <1>1, ResolvesKeeps, OthersKeep DEF AffinityNext

\* A request that continues a turn, or a thread, is given what was kept.
LEMMA ResolvesSame ==
  ASSUME AffinityInv, NEW turn \in Turns, NEW client \in ClientKey \cup {Unset}, Resolves(turn, client)
  PROVE  LET own    == <<turn, "turn">>
             thread == <<TurnOf[turn], "thread">>
         IN /\ Remembered(own) => kept'[own].key = kept[own].key
            /\ Remembered(thread) /\ kept[own].key = Unset /\ ~kept'[own].client
                 => kept'[own].key = kept[thread].key
<1> DEFINE entries == Pruned(index)
           lineage == Lineage(entries, turn, client)
           own     == <<turn, "turn">>
           thread  == <<TurnOf[turn], "thread">>
           none    == <<Parent[TurnOf[turn]], "thread">>
<1>1. /\ own \in Refs /\ thread \in Refs
      /\ TurnOf[turn] \in Thread
  BY AffinityAssumption DEF Refs, Turns
<1>2. kept'[own] = [key |-> <<secret, lineage>>, at |-> now, since |-> {},
                    client |-> client # Unset \/ Parent[TurnOf[turn]] # Unset]
  BY <1>1 DEF Resolves
<1>3. /\ Sound(index, now) /\ now \in Nat /\ GivenKept /\ OnlyGiven /\ secret = item
  BY DEF Resolves, AffinityInv, SecretKept, Numbers
<1>4. Sound(entries, now) /\ \A m \in 1 .. Len(entries) : \E n \in 1 .. Len(index) : entries[m].ref = index[n].ref
  BY <1>3, PrunedSound
<1>5. ASSUME NEW ref \in Refs, Remembered(ref)
      PROVE  /\ Find(entries, ref) = kept[ref].key[2]
             /\ kept[ref].key = <<item, kept[ref].key[2]>>
             /\ kept[ref].key[2] \in Lineages
  <2>1. /\ kept[ref].key # Unset /\ now < kept[ref].at + TtlMs /\ Cardinality(kept[ref].since) < MaxLineages
        /\ kept[ref].key \in {Unset} \cup (Nat \X Lineages) /\ kept[ref].at \in Nat
        /\ kept[ref].key[1] = item /\ IsFiniteSet(kept[ref].since)
        /\ Has(index, ref, kept[ref].key[2], kept[ref].at, kept[ref].since)
    BY <1>3, <1>5 DEF GivenKept, Remembered
  <2>2. Has(entries, ref, kept[ref].key[2], kept[ref].at, kept[ref].since)
    BY <1>3, <2>1, PrunedHas
  <2> HIDE DEF entries
  <2>3. Find(entries, ref) = kept[ref].key[2]
    BY <1>4, <2>2, FindIs
  <2> QED
    BY <2>1, <2>3
<1>6. ASSUME NEW ref, ref \notin Refs \/ kept[ref].key = Unset
      PROVE  Find(entries, ref) = Unset
  <2>1. \A n \in 1 .. Len(index) : index[n] \in EntryOf
    BY <1>3 DEF Sound
  <2>2. \A n \in 1 .. Len(index) : index[n].ref # ref
    BY <1>3, <1>6, <2>1 DEF OnlyGiven, EntryOf
  <2> HIDE DEF entries
  <2>3. \A n \in 1 .. Len(entries) : entries[n].ref # ref
    BY <1>4, <2>2
  <2> QED
    BY <1>4, <2>3, FindIs
<1>7. Unset \notin Lineages /\ Unset \notin Thread
  BY AffinityAssumption
<1> HIDE DEF entries
<1>8. /\ Find(entries, own) # Unset => lineage = Find(entries, own)
      /\ /\ Find(entries, own) = Unset /\ client = Unset
         /\ Find(entries, none) = Unset /\ Find(entries, thread) # Unset
         => lineage = Find(entries, thread)
  BY <1>3, <1>4, LineageIs, Zenon
<1> HIDE DEF lineage
<1>9. ASSUME Remembered(own) PROVE kept'[own].key = kept[own].key
  BY <1>1, <1>2, <1>3, <1>5, <1>7, <1>8, <1>9
<1>10. ASSUME Remembered(thread), kept[own].key = Unset, ~kept'[own].client
       PROVE  kept'[own].key = kept[thread].key
  <2>1. client = Unset /\ Parent[TurnOf[turn]] = Unset
    <3>1. kept'[own].client = (client # Unset \/ Parent[TurnOf[turn]] # Unset)
      BY <1>2
    <3> QED
      BY <1>10, <3>1
  <2>2. Find(entries, own) = Unset
    BY <1>6, <1>10
  <2>3. Find(entries, none) = Unset
    <3>1. none \notin Refs
      BY <1>7, <2>1 DEF Refs
    <3> QED
      BY <1>6, <3>1
  <2>4. Find(entries, thread) = kept[thread].key[2] /\ kept[thread].key = <<item, kept[thread].key[2]>>
        /\ kept[thread].key[2] \in Lineages
    BY <1>1, <1>5, <1>10
  <2>5. lineage = kept[thread].key[2]
    BY <1>7, <1>8, <2>1, <2>2, <2>3, <2>4
  <2> QED
    BY <1>2, <1>3, <2>4, <2>5
<1> QED
  BY <1>9, <1>10

\* The key of a turn or thread that is remembered is the one it goes on with:
\* for any number of turns, threads, client keys, secrets, requests and deaths.
THEOREM KeysAreKept == AffinitySpec => KeyKept
<1> DEFINE Same(turn) ==
             LET own    == <<turn, "turn">>
                 thread == <<TurnOf[turn], "thread">>
             IN kept'[own] # kept[own] /\ kept'[own].since = {} =>
                  /\ Remembered(own) => kept'[own].key = kept[own].key
                  /\ Remembered(thread) /\ kept[own].key = Unset /\ ~kept'[own].client
                       => kept'[own].key = kept[thread].key
<1>1. AffinityInv /\ [AffinityNext]_affinityVars => [\A turn \in Turns : Same(turn)]_affinityVars
  <2> SUFFICES ASSUME AffinityInv, AffinityNext, NEW turn \in Turns PROVE Same(turn)
    BY DEF affinityVars
  <2>1. CASE kept' = kept
    BY <2>1
  <2>2. ASSUME NEW t \in Turns, NEW client \in ClientKey \cup {Unset}, Resolves(t, client) PROVE Same(turn)
    <3>1. CASE t = turn
      BY <2>2, <3>1, ResolvesSame
    <3>2. CASE t # turn
      <4>1. <<turn, "turn">> \in Refs
        BY DEF Refs
      <4>2. kept'[<<turn, "turn">>].since # {}
        BY <2>2, <3>2, <4>1 DEF Resolves, AffinityInv, GivenKept
      <4> QED
        BY <4>2
    <3> QED
      BY <3>1, <3>2
  <2> QED
    BY <2>1, <2>2 DEF AffinityNext, Wants, Reads, Makes, Stores, LoadFails, TimeGoes, RouterDies
<1> QED
  BY <1>1, AffinityInitInv, AffinityStepKeeps, PTL DEF AffinitySpec, KeyKept

=============================================================================
