---------------------------- MODULE SigningKeys ----------------------------
(***************************************************************************)
(* The keys that identity-service signs access tokens with, and the        *)
(* services that verify them offline with a copy of the published keys.    *)
(*                                                                         *)
(* A rotation is a command of its own, so that the serving processes go on *)
(* signing with the key they have cached.  A retired key is published for  *)
(* a time of grace.  A verifier renews its copy when it is old or does not *)
(* have the key it needs, but not too often, and keeps it when Identity    *)
(* does not answer.  Time is in ticks; what is kept is how long ago things *)
(* were, up to where it no longer matters.                                 *)
(***************************************************************************)
EXTENDS Integers

CONSTANTS Signers,     \* the serving processes of Identity
          Verifiers,   \* TokenVerifier in the other services
          MaxKeys,     \* bound on the keys ever made
          Lifetime,    \* access_token_ttl_s with the leeway of the verifiers
          Cache,       \* KeyStore.cache_ttl
          Grace,       \* jwks_grace_seconds
          RefreshEvery, MinRefetch, Stale   \* refresh_interval, min_refetch_interval, stale_max

(* docs/api/service-auth-contract-v1.md asks for a grace of the lifetime and five minutes; load_settings does not. *)
ASSUME KeysAssumption ==
  /\ {MaxKeys, Lifetime, Cache, Grace, RefreshEvery, MinRefetch, Stale} \subseteq Nat \ {0}
  /\ Grace >= Lifetime + Cache /\ RefreshEvery <= Stale

VARIABLES made,      \* number of keys made: the last one is active
          retired,   \* retired[k]: how long ago k was retired
          signer,    \* signer[p]: the key it has cached, 0 for none, and for how long
          valid,     \* the tokens that are still valid: their key, and how long they are
          copy       \* copy[v]: the keys of the verifier, and how long ago it fetched them and last tried to

keys == <<made, retired, signer, valid, copy>>

Keys == 1 .. MaxKeys
Older(age, cap) == IF age < cap THEN age + 1 ELSE cap

KeysInit ==
  /\ made = 1
  /\ retired = [k \in Keys |-> 0]
  /\ signer = [p \in Signers |-> [key |-> 0, age |-> Cache]]
  /\ valid = {}
  /\ copy = [v \in Verifiers |-> [keys |-> {}, age |-> Stale, tried |-> MinRefetch]]

-----------------------------------------------------------------------------
(* Identity *)

\* python -m identity_service.keys rotate
RotateKey ==
  /\ made < MaxKeys
  /\ made' = made + 1
  /\ UNCHANGED <<retired, signer, valid, copy>>

(* The active key is read again when the cache is old. *)
ActiveKey(p) == IF signer[p].key # 0 /\ signer[p].age < Cache THEN signer[p] ELSE [key |-> made, age |-> 0]

IssueToken(p) ==
  /\ signer' = [signer EXCEPT ![p] = ActiveKey(p)]
  /\ valid' = valid \union {[key |-> ActiveKey(p).key, left |-> Lifetime]}
  /\ UNCHANGED <<made, retired, copy>>

\* Mutant: the active key alone is published.
JwksActive == {made}
(* A key is published while it is active, and for the time of grace after it. *)
Jwks == {k \in 1 .. made : k = made \/ retired[k] < Grace}

-----------------------------------------------------------------------------
(* Verifiers *)

CopyIsFresh(v) == copy[v].age < RefreshEvery
MayTry(v) == copy[v].tried >= MinRefetch
CopyIsUsable(v) == copy[v].age < Stale

Fetched == [keys |-> Jwks, age |-> 0, tried |-> 0]

(* The keys are fetched, at the start or for a token that needs it; or Identity does not answer. *)
Fetch(v) ==
  /\ MayTry(v) \/ copy[v].keys = {}
  /\ \/ copy' = [copy EXCEPT ![v] = Fetched]
     \/ copy' = [copy EXCEPT ![v].tried = 0]
  /\ UNCHANGED <<made, retired, signer, valid>>

(* Whether a token of key k is accepted now, if Identity answers. *)
Accepts(v, k) ==
  \/ k \in copy[v].keys /\ CopyIsFresh(v)
  \/ MayTry(v) /\ k \in Jwks
  \/ ~MayTry(v) /\ k \in copy[v].keys /\ CopyIsUsable(v)

-----------------------------------------------------------------------------
\* Time passes; a token that has expired is of no more interest.
Tick ==
  /\ retired' = [k \in Keys |-> IF k < made THEN Older(retired[k], Grace) ELSE 0]
  /\ signer' = [p \in Signers |-> [signer[p] EXCEPT !.age = Older(@, Cache)]]
  /\ valid' = {[t EXCEPT !.left = @ - 1] : t \in {t \in valid : t.left > 1}}
  /\ copy' = [v \in Verifiers |-> [copy[v] EXCEPT !.age = Older(@, Stale), !.tried = Older(@, MinRefetch)]]
  /\ UNCHANGED made

KeysStep ==
  \/ RotateKey \/ Tick
  \/ \E p \in Signers : IssueToken(p)
  \/ \E v \in Verifiers : Fetch(v)

-----------------------------------------------------------------------------
(* Properties *)

\* service-auth-contract, 2: a rotation interrupts nobody.  A token that has not expired is accepted by every verifier
\* that can reach Identity, but for a key that is not in its copy for a moment after it tried.
ValidIsAccepted ==
  \A t \in valid : \A v \in Verifiers :
    Accepts(v, t.key) \/ (~MayTry(v) /\ (t.key \in copy[v].keys => ~CopyIsUsable(v)))
=============================================================================
