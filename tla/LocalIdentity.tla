--------------------------- MODULE LocalIdentity ---------------------------
(***************************************************************************)
(* Whose a subscription request is (src/src/local-identity.mjs): its       *)
(* bearer must be the token of the credential Codex has stored, in         *)
(* auth.json, in the Keychain, or in the first that answers.  Reading it   *)
(* for every request is slow, so the credential is kept: while auth.json   *)
(* looks the same for a file, for a time for a Keychain; and after a file  *)
(* was read the Keychain is not served for a while.  Requests run at the    *)
(* same time and share what is kept, while Codex logs in, out and renews.  *)
(***************************************************************************)
EXTENDS Integers

CONSTANTS
  Asker,      \* requests served at the same time
  Token,      \* the access tokens Codex may store
  NoToken,
  FreshMs,    \* how long a credential of the Keychain is kept, in ticks
  SkipMs,     \* how long the Keychain is not served after a file was read
  MaxClock,   \* bound on time
  MaxLogins   \* bound on what Codex writes, by setting

ASSUME IdentityAssumption ==
  /\ NoToken \notin Token
  /\ {FreshMs, SkipMs} \subseteq Nat \ {0} /\ MaxClock \in Nat
  /\ MaxLogins \in [{"file", "keyring", "auto"} -> Nat]

VARIABLES
  setting,    \* cli_auth_credentials_store: "file", "keyring" or "auto"
  file,       \* the token in auth.json, or NoToken when there is no such file
  keychain,   \* the token in the Keychain, or NoToken
  logins,     \* what Codex wrote so far
  written,    \* the last of them that wrote auth.json, which then has a new mtime
  clock,
  cache,      \* identityCache: what was read, where, the stat before it, and when
  served,     \* of each request: where it is and what it has read
  heldAt      \* ghost: when a store that is read last held each token

identityVars == <<setting, file, keychain, logins, written, clock, cache, served, heldAt>>
stores == <<setting, file, keychain, logins, written, clock, heldAt>>

NoStat == 0
\* A missing file has no stat; any other is told by its last write.
FileStat == IF file = NoToken THEN NoStat ELSE written + 1

\* seen, steady: ghosts; a store that is read has held the bearer, or always has.
Nobody == [at |-> "idle", bearer |-> NoToken, now |-> 0, stat |-> NoStat, got |-> NoToken,
           force |-> FALSE, how |-> "none", seen |-> FALSE, steady |-> FALSE]

Held(f, k) == {f, k} \ {NoToken}

\* Nothing can be wrong with this bearer: the store that answers holds it.
Valid(b, f, k) ==
  IF setting = "keyring" THEN k = b ELSE f = b /\ k = NoToken

IdentityInit ==
  /\ setting \in {"file", "keyring", "auto"}
  /\ file \in (IF setting # "keyring" THEN Token ELSE {}) \cup {NoToken}
  /\ keychain \in (IF setting # "file" THEN Token ELSE {}) \cup {NoToken}
  /\ logins = 0 /\ written = 0 /\ clock = 0
  /\ cache = [auth |-> NoToken, source |-> "none", stat |-> NoStat, at |-> 0, blockedUntil |-> 0]
  /\ served = [r \in Asker |-> Nobody]
  /\ heldAt = [t \in Token |-> IF t \in Held(file, keychain) THEN 0 ELSE -FreshMs]

-----------------------------------------------------------------------------
\* A request with a bearer; loadCodexAuth takes the time first.
Arrives(r, b) ==
  /\ served[r] = Nobody
  /\ served' = [served EXCEPT ![r] =
       [Nobody EXCEPT !.at = "stat", !.bearer = b, !.now = clock,
                      !.seen = b \in Held(file, keychain),
                      !.steady = Valid(b, file, keychain)]]
  /\ UNCHANGED <<stores, cache>>

Stats(r) ==
  /\ served[r].at = "stat"
  /\ served' = [served EXCEPT ![r].at = "check", ![r].stat = FileStat]
  /\ UNCHANGED <<stores, cache>>

\* What is kept is used again: for a Keychain by its age, otherwise by the stat.
\* FreshForever is a mutant: neither the age nor the stat is looked at.
FreshForever(q) == ~q.force /\ cache.auth # NoToken
Fresh(q) ==
  /\ ~q.force /\ cache.auth # NoToken
  /\ IF setting = "keyring" THEN q.now - cache.at < FreshMs ELSE cache.stat = q.stat

\* What the request had read is forgotten with its answer.
Answered(q, answer, how) ==
  [q EXCEPT !.at = answer, !.how = how, !.stat = NoStat, !.got = NoToken, !.force = FALSE]
Refused(q) == Answered(q, "rejected", "none")

\* The bearer is compared; one that differs from what was kept is compared once
\* more, with a credential read for it.
Judged(r, auth, how) ==
  LET q == served[r]
  IN [served EXCEPT ![r] =
        IF auth = q.bearer THEN Answered(q, "accepted", how)
        ELSE IF q.force THEN Refused(q)
        ELSE [q EXCEPT !.at = "stat", !.force = TRUE, !.now = clock, !.got = NoToken]]

\* ghost: what is kept was read where the stat of auth.json tells nothing of it.
Unobserved == setting # "keyring" /\ (cache.source = "keychain" \/ cache.stat = NoStat)

UsesKept(r) ==
  /\ served[r].at = "check" /\ Fresh(served[r])
  /\ served' = Judged(r, cache.auth, IF Unobserved THEN "unobserved" ELSE "kept")
  /\ UNCHANGED <<stores, cache>>

LooksUp(r) ==
  LET q == served[r]
  IN /\ q.at = "check" /\ ~Fresh(q)
     /\ served' = [served EXCEPT ![r].at =
          IF setting # "file" /\ q.now >= cache.blockedUntil THEN "keychain" ELSE "file"]
     /\ UNCHANGED <<stores, cache>>

\* security(1) answers, or fails, or takes too long.
AsksKeychain(r, works) ==
  /\ served[r].at = "keychain"
  /\ served' = [served EXCEPT ![r].at = "asked",
                            ![r].got = IF works THEN keychain ELSE NoToken,
                            ![r].steady = @ /\ (works \/ setting # "keyring")]
  /\ UNCHANGED <<stores, cache>>

\* cachedAt is kept for every credential and read for a Keychain's.
Cached(q, source, blocked) ==
  [auth |-> q.got, source |-> source, stat |-> q.stat,
   at |-> IF setting = "keyring" THEN q.now ELSE 0, blockedUntil |-> blocked]

KeychainAnswers(r) ==
  LET q == served[r]
  IN /\ q.at = "asked"
     /\ IF q.got # NoToken
          THEN /\ cache' = Cached(q, "keychain", cache.blockedUntil)
               /\ served' = Judged(r, q.got, "read")
        ELSE /\ served' = [served EXCEPT ![r] = IF setting = "auto" THEN [q EXCEPT !.at = "file"]
                                           ELSE Refused(q)]
             /\ UNCHANGED cache
     /\ UNCHANGED stores

ReadsFile(r) ==
  /\ served[r].at = "file"
  /\ served' = [served EXCEPT ![r].at = "read", ![r].got = file]
  /\ UNCHANGED <<stores, cache>>

FileAnswers(r) ==
  LET q == served[r]
  IN /\ q.at = "read"
     /\ IF q.got # NoToken
          THEN /\ cache' = Cached(q, "file", IF setting = "auto" THEN q.now + SkipMs
                                           ELSE cache.blockedUntil)
               /\ served' = Judged(r, q.got, "read")
        ELSE served' = [served EXCEPT ![r] = Refused(q)] /\ UNCHANGED cache
     /\ UNCHANGED stores

Goes(r) ==
  /\ served[r].at \in {"accepted", "rejected"}
  /\ served' = [served EXCEPT ![r] = Nobody]
  /\ UNCHANGED <<stores, cache>>

\* Codex logs in, out, or renews its token, in a store its setting names.
Login(f, k) ==
  /\ logins < MaxLogins[setting]
  /\ (f = file) # (k = keychain)
  /\ setting = "file" => k = NoToken
  /\ setting = "keyring" => f = NoToken
  /\ file' = f /\ keychain' = k
  /\ logins' = logins + 1
  /\ written' = IF f = file THEN written ELSE logins + 1
  /\ heldAt' = [t \in Token |-> IF t \in Held(file, keychain) \cup Held(f, k) THEN clock
                                ELSE heldAt[t]]
  /\ served' = [r \in Asker |->
                 IF served[r] = Nobody THEN Nobody
                 ELSE [served[r] EXCEPT !.seen = @ \/ served[r].bearer \in Held(f, k),
                                       !.steady = @ /\ Valid(served[r].bearer, f, k)]]
  /\ UNCHANGED <<setting, clock, cache>>

\* Time, where it is looked at.
TimePasses ==
  /\ setting # "file" /\ clock < MaxClock
  /\ clock' = clock + 1
  /\ heldAt' = [t \in Token |-> IF t \in Held(file, keychain) THEN clock + 1 ELSE heldAt[t]]
  /\ UNCHANGED <<setting, file, keychain, logins, written, cache, served>>

IdentityNext ==
  \/ \E r \in Asker :
       \/ \E b \in Token : Arrives(r, b)
       \/ Stats(r) \/ UsesKept(r) \/ LooksUp(r)
       \/ \E works \in BOOLEAN : AsksKeychain(r, works)
       \/ KeychainAnswers(r) \/ ReadsFile(r) \/ FileAnswers(r) \/ Goes(r)
  \/ \E f, k \in Token \cup {NoToken} : Login(f, k)
  \/ TimePasses

IdentitySpec == IdentityInit /\ [][IdentityNext]_identityVars

-----------------------------------------------------------------------------
Asked == [at : {"idle", "stat", "check", "keychain", "asked", "file", "read", "accepted", "rejected"},
          bearer : Token \cup {NoToken}, now : Nat, stat : Nat, got : Token \cup {NoToken},
          force : BOOLEAN, how : {"none", "kept", "unobserved", "read"},
          seen : BOOLEAN, steady : BOOLEAN]

IdentityTypeOK ==
  /\ setting \in {"file", "keyring", "auto"}
  /\ {file, keychain} \subseteq Token \cup {NoToken}
  /\ {logins, written, clock} \subseteq Nat
  /\ cache \in [auth : Token \cup {NoToken}, source : {"none", "keychain", "file"},
                stat : Nat, at : Nat, blockedUntil : Nat]
  /\ served \in [Asker -> Asked]
  /\ heldAt \in [Token -> Int]

Lately(q) == q.seen \/ heldAt[q.bearer] > q.now - FreshMs

\* Every answer is true of the stores: a bearer is accepted only if a store that is
\* read held it while the request was served, or, from a Keychain, less than FreshMs
\* before; and one the store held all the while is never rejected, whatever other
\* requests kept in between.  Left out is what Unobserved names: with the setting
\* "auto" a credential of the Keychain is kept as long as auth.json looks the same,
\* and one read just after auth.json appeared is kept under no stat.
AnsweredTrue == IdentityTypeOK /\
  \A r \in Asker :
    LET q == served[r]
    IN /\ q.at = "accepted" /\ q.how # "unobserved" =>
            IF setting = "keyring" THEN Lately(q) ELSE q.seen
       /\ q.at = "rejected" => ~q.steady
=============================================================================
