----------------------------- MODULE MCIdentityKeys -----------------------------
(* Whose a request is and which prompt cache it may use, each part by itself: *)
(* the credential of Codex, and the cache keys of turns.  Two requests with    *)
(* two tokens, which log in or out twice, once where both stores are read; two *)
(* turns of a thread and one of its child, five requests, a record of three    *)
(* references, two secrets, one death of the Router.                           *)
EXTENDS LocalIdentity, PromptCacheAffinity

CONSTANTS p, c1, u1, u2, u3

ParentOf == (p :> Unset) @@ (c1 :> p)
ThreadOf == (u1 :> p) @@ (u2 :> p) @@ (u3 :> c1)
LoginsOf == [file |-> 2, keyring |-> 2, auto |-> 1]

VARIABLE machine

identified == <<machine, identityVars>>
keyed == <<machine, affinityVars>>
all == <<identified, keyed>>

SideInit ==
  /\ machine \in {"identity", "affinity"}
  /\ IdentityInit /\ AffinityInit
  /\ machine # "identity" => setting = "file" /\ file = NoToken

SideNext ==
  \/ machine = "identity" /\ IdentityNext /\ UNCHANGED keyed
  \/ machine = "affinity" /\ AffinityNext /\ UNCHANGED identified

SideSpec == SideInit /\ [][SideNext]_all

\* The requests with a bearer are alike, and so are the tokens.
Alike == Permutations(Asker) \cup Permutations(Token)
=============================================================================
