---------------------------- MODULE SignOn_proofs ----------------------------
(* Theorems about the two parts of signing in that a service or a page keeps for itself: the keys that verifiers have  *)
(* (SigningKeys) and the session in a tab (WebSession).  Each is a system of its own: the specification of MCSignOn is *)
(* one of them, or the provider, with the others standing still.                                                       *)
EXTENDS WebSession, SigningKeys, TLAPS

KeysSpec == KeysInit /\ [][KeysStep]_keys
WebSpec == WebInit /\ [][WebStep]_web

-----------------------------------------------------------------------------
(* The keys *)

KeysType ==
  /\ made \in Keys
  /\ retired \in [Keys -> 0 .. Grace]
  /\ signer \in [Signers -> [key : 0 .. MaxKeys, age : 0 .. Cache]]
  /\ valid \subseteq [key : Keys, left : 1 .. Lifetime]
  /\ copy \in [Verifiers -> [keys : SUBSET Keys, age : 0 .. Stale, tried : 0 .. MinRefetch]]

(* The active key, and those to come, were never retired. *)
ActiveIsNew == \A k \in Keys : k >= made => retired[k] = 0

(* A signer goes on with a retired key no longer than it may cache it. *)
CachedKeys ==
  \A p \in Signers : /\ signer[p].key <= made
                     /\ signer[p].key \in 1 .. (made - 1) /\ signer[p].age < Cache => retired[signer[p].key] <= signer[p].age

(* What is left of a token, and the time since its key was retired, come to no more than lifetime and cache. *)
ValidKeys ==
  \A t \in valid : /\ t.key <= made
                   /\ t.key < made => retired[t.key] + t.left <= Lifetime + Cache

KeysInv == KeysType /\ ActiveIsNew /\ CachedKeys /\ ValidKeys

LEMMA KeysInitIs == KeysInit => KeysInv
<1> SUFFICES ASSUME KeysInit PROVE KeysInv OBVIOUS
<1>1. {MaxKeys, Lifetime, Cache, Grace, Stale, MinRefetch} \subseteq Nat \ {0} BY KeysAssumption DEF KeysAssumption
<1>2. KeysType BY <1>1 DEF KeysInit, KeysType, Keys
<1>3. ActiveIsNew /\ CachedKeys /\ ValidKeys BY <1>1 DEF KeysInit, ActiveIsNew, CachedKeys, ValidKeys
<1> QED BY <1>2, <1>3 DEF KeysInv

(* A year does not pass a limit by one tick. *)
LEMMA OlderIs ==
  ASSUME NEW cap \in Nat, NEW age \in 0 .. cap
  PROVE  /\ Older(age, cap) \in 0 .. cap /\ Older(age, cap) <= age + 1
         /\ Older(age, cap) < cap => Older(age, cap) = age + 1
BY DEF Older

LEMMA ActiveKeyIs ==
  ASSUME KeysInv, NEW p \in Signers
  PROVE  LET row == ActiveKey(p) IN
         /\ row \in [key : Keys, age : 0 .. Cache] /\ row.key <= made
         /\ row.key < made => row.age < Cache /\ retired[row.key] <= row.age
<1>1. made \in Keys /\ signer[p] \in [key : 0 .. MaxKeys, age : 0 .. Cache] BY DEF KeysInv, KeysType
<1>2. Cache \in Nat BY KeysAssumption DEF KeysAssumption
<1>3. CASE signer[p].key # 0 /\ signer[p].age < Cache
  <2>1. ActiveKey(p) = signer[p] BY <1>3 DEF ActiveKey
  <2>2. signer[p].key <= made /\ (signer[p].key \in 1 .. (made - 1) => retired[signer[p].key] <= signer[p].age)
    BY <1>3 DEF KeysInv, CachedKeys
  <2>3. signer[p].key \in Keys BY <1>1, <1>3, KeysAssumption DEF Keys, KeysAssumption
  <2> QED BY <1>1, <1>3, <2>1, <2>2, <2>3 DEF Keys
<1>4. CASE ~(signer[p].key # 0 /\ signer[p].age < Cache)
  <2>1. ActiveKey(p) = [key |-> made, age |-> 0] BY <1>4 DEF ActiveKey
  <2> QED BY <1>1, <1>2, <2>1 DEF Keys
<1> QED BY <1>3, <1>4

LEMMA KeysStepKeeps == KeysInv /\ [KeysStep]_keys => KeysInv'
<1> SUFFICES ASSUME KeysInv, [KeysStep]_keys PROVE KeysInv' OBVIOUS
<1>0. {MaxKeys, Lifetime, Cache, Grace, Stale, MinRefetch} \subseteq Nat \ {0} BY KeysAssumption DEF KeysAssumption
<1>t. /\ made \in Keys /\ retired \in [Keys -> 0 .. Grace]
      /\ signer \in [Signers -> [key : 0 .. MaxKeys, age : 0 .. Cache]]
      /\ valid \subseteq [key : Keys, left : 1 .. Lifetime]
      /\ copy \in [Verifiers -> [keys : SUBSET Keys, age : 0 .. Stale, tried : 0 .. MinRefetch]]
  BY DEF KeysInv, KeysType
<1>1. CASE UNCHANGED keys BY <1>1 DEF keys, KeysInv, KeysType, ActiveIsNew, CachedKeys, ValidKeys
<1>2. CASE RotateKey
  <2>1. /\ made < MaxKeys /\ made' = made + 1 /\ UNCHANGED <<retired, signer, valid, copy>> BY <1>2 DEF RotateKey
  <2>2. retired[made] = 0 /\ \A k \in Keys : k >= made => retired[k] = 0 BY <1>t DEF KeysInv, ActiveIsNew, Keys
  <2>3. KeysType' BY <1>0, <1>t, <2>1 DEF KeysType, Keys
  <2>4. ActiveIsNew' BY <1>0, <1>t, <2>1, <2>2 DEF ActiveIsNew, Keys
  <2>5. CachedKeys'
    <3>1. ASSUME NEW p \in Signers
          PROVE  /\ signer[p].key <= made + 1
                 /\ signer[p].key \in 1 .. made /\ signer[p].age < Cache => retired[signer[p].key] <= signer[p].age
      <4>1. signer[p].key \in Nat /\ signer[p].age \in Nat /\ signer[p].key <= made BY <1>t DEF KeysInv, CachedKeys
      <4>2. signer[p].key \in 1 .. (made - 1) /\ signer[p].age < Cache => retired[signer[p].key] <= signer[p].age
        BY DEF KeysInv, CachedKeys
      <4> QED BY <1>t, <2>2, <4>1, <4>2 DEF Keys
    <3>2. made' - 1 = made BY <1>t, <2>1 DEF Keys
    <3> QED BY <2>1, <3>1, <3>2 DEF CachedKeys
  <2>6. ValidKeys'
    <3>1. ASSUME NEW t \in valid
          PROVE  t.key <= made + 1 /\ (t.key < made + 1 => retired[t.key] + t.left <= Lifetime + Cache)
      <4>1. t.key \in Keys /\ t.left \in 1 .. Lifetime BY <1>t
      <4>2. t.key <= made /\ (t.key < made => retired[t.key] + t.left <= Lifetime + Cache) BY DEF KeysInv, ValidKeys
      <4> QED BY <1>0, <1>t, <2>2, <4>1, <4>2 DEF Keys
    <3> QED BY <2>1, <3>1 DEF ValidKeys
  <2> QED BY <2>3, <2>4, <2>5, <2>6 DEF KeysInv
<1>3. ASSUME NEW p \in Signers, IssueToken(p) PROVE KeysInv'
  <2> DEFINE row == ActiveKey(p)
             new == [key |-> row.key, left |-> Lifetime]
  <2>1. /\ signer' = [signer EXCEPT ![p] = row] /\ valid' = valid \union {new}
        /\ UNCHANGED <<made, retired, copy>>
    BY <1>3 DEF IssueToken
  <2>2. /\ row \in [key : Keys, age : 0 .. Cache] /\ row.key <= made
        /\ row.key < made => row.age < Cache /\ retired[row.key] <= row.age
    BY ActiveKeyIs
  <2> HIDE DEF row
  <2>3. /\ new \in [key : Keys, left : 1 .. Lifetime] /\ new.key = row.key /\ new.left = Lifetime
    BY <1>0, <2>2
  <2> HIDE DEF new
  <2>4. Keys \subseteq 0 .. MaxKeys BY DEF Keys
  <2>5. KeysType' BY <1>t, <2>1, <2>2, <2>3, <2>4 DEF KeysType
  <2>6. ActiveIsNew' BY <2>1 DEF KeysInv, ActiveIsNew
  <2>7. CachedKeys'
    <3>1. signer'[p] = row /\ \A o \in Signers \ {p} : signer'[o] = signer[o] BY <1>t, <2>1
    <3>2. row.key \in 1 .. (made - 1) => row.key < made BY <1>t DEF Keys
    <3> QED BY <2>1, <2>2, <3>1, <3>2 DEF KeysInv, CachedKeys
  <2>8. ValidKeys'
    <3>1. new.key < made => retired[new.key] + new.left <= Lifetime + Cache BY <1>0, <1>t, <2>2, <2>3
    <3> QED BY <2>1, <2>2, <2>3, <3>1 DEF KeysInv, ValidKeys
  <2> QED BY <2>5, <2>6, <2>7, <2>8 DEF KeysInv
<1>4. ASSUME NEW v \in Verifiers, Fetch(v) PROVE KeysInv'
  <2>1. UNCHANGED <<made, retired, signer, valid>> BY <1>4 DEF Fetch
  <2>2. Jwks \subseteq Keys BY <1>0, <1>t DEF Jwks, Keys
  <2>3. copy' \in [Verifiers -> [keys : SUBSET Keys, age : 0 .. Stale, tried : 0 .. MinRefetch]]
    <3>1. Fetched \in [keys : SUBSET Keys, age : 0 .. Stale, tried : 0 .. MinRefetch] BY <1>0, <2>2 DEF Fetched
    <3>2. CASE copy' = [copy EXCEPT ![v] = Fetched] BY <1>t, <3>1, <3>2
    <3>3. CASE copy' = [copy EXCEPT ![v].tried = 0]
      <4> DEFINE row == [copy[v] EXCEPT !.tried = 0]
      <4>1. copy' = [copy EXCEPT ![v] = row] BY <1>t, <3>3
      <4>2. copy[v] \in [keys : SUBSET Keys, age : 0 .. Stale, tried : 0 .. MinRefetch] /\ 0 \in 0 .. MinRefetch
        BY <1>0, <1>t
      <4>3. row \in [keys : SUBSET Keys, age : 0 .. Stale, tried : 0 .. MinRefetch] BY <4>2
      <4> HIDE DEF row
      <4> QED BY <1>t, <4>1, <4>3
    <3> QED BY <1>4, <3>2, <3>3 DEF Fetch
  <2> QED BY <1>t, <2>1, <2>3 DEF KeysInv, KeysType, ActiveIsNew, CachedKeys, ValidKeys
<1>5. CASE Tick
  <2>1. /\ retired' = [k \in Keys |-> IF k < made THEN Older(retired[k], Grace) ELSE 0]
        /\ signer' = [p \in Signers |-> [signer[p] EXCEPT !.age = Older(signer[p].age, Cache)]]
        /\ valid' = {[t EXCEPT !.left = t.left - 1] : t \in {u \in valid : u.left > 1}}
        /\ copy' = [v \in Verifiers |-> [copy[v] EXCEPT !.age = Older(copy[v].age, Stale),
                                                         !.tried = Older(copy[v].tried, MinRefetch)]]
        /\ made' = made
    BY <1>5 DEF Tick
  <2>2. \A k \in Keys : retired'[k] = (IF k < made THEN Older(retired[k], Grace) ELSE 0) BY <2>1
  <2>3. \A k \in Keys : Older(retired[k], Grace) \in 0 .. Grace /\ Older(retired[k], Grace) <= retired[k] + 1
    BY <1>0, <1>t, OlderIs
  <2>4. retired' \in [Keys -> 0 .. Grace]
    <3>1. 0 \in 0 .. Grace BY <1>0
    <3>2. \A k \in Keys : retired'[k] \in 0 .. Grace BY Zenon, <2>2, <2>3, <3>1
    <3>3. retired' = [k \in Keys |-> retired'[k]] BY Zenon, <2>1, <2>2
    <3> QED BY <3>2, <3>3
  <2>5. ASSUME NEW p \in Signers
        PROVE  /\ signer'[p] \in [key : 0 .. MaxKeys, age : 0 .. Cache] /\ signer'[p].key = signer[p].key
               /\ signer'[p].age < Cache => signer'[p].age = signer[p].age + 1
    <3> DEFINE n == Older(signer[p].age, Cache)
    <3>1. signer[p] \in [key : 0 .. MaxKeys, age : 0 .. Cache] BY <1>t
    <3>2. n \in 0 .. Cache /\ (n < Cache => n = signer[p].age + 1) BY <1>0, <3>1, OlderIs
    <3>3. signer'[p] = [signer[p] EXCEPT !.age = n] BY <2>1
    <3> HIDE DEF n
    <3> QED BY <3>1, <3>2, <3>3
  <2>6. signer' \in [Signers -> [key : 0 .. MaxKeys, age : 0 .. Cache]] BY <2>1, <2>5
  <2>7. ASSUME NEW u \in valid'
        PROVE  \E t \in valid : u.key = t.key /\ u.left = t.left - 1 /\ u \in [key : Keys, left : 1 .. Lifetime]
    <3>1. PICK t \in valid : t.left > 1 /\ u = [t EXCEPT !.left = t.left - 1] BY <2>1, <2>7
    <3>2. t \in [key : Keys, left : 1 .. Lifetime] /\ Lifetime \in Nat BY <1>0, <1>t
    <3> DEFINE n == t.left - 1
    <3>3. n \in 1 .. Lifetime BY <3>1, <3>2
    <3>4. u = [t EXCEPT !.left = n] BY <3>1
    <3> HIDE DEF n
    <3>5. u.key = t.key /\ u.left = n /\ u \in [key : Keys, left : 1 .. Lifetime] BY <3>2, <3>3, <3>4
    <3> QED BY <3>5 DEF n
  <2>8. ASSUME NEW v \in Verifiers
        PROVE  copy'[v] \in [keys : SUBSET Keys, age : 0 .. Stale, tried : 0 .. MinRefetch]
    <3> DEFINE n == Older(copy[v].age, Stale)
               m == Older(copy[v].tried, MinRefetch)
    <3>1. copy[v] \in [keys : SUBSET Keys, age : 0 .. Stale, tried : 0 .. MinRefetch] BY <1>t
    <3>2. n \in 0 .. Stale /\ m \in 0 .. MinRefetch BY <1>0, <3>1, OlderIs
    <3>3. copy'[v] = [copy[v] EXCEPT !.age = n, !.tried = m] BY <2>1
    <3> HIDE DEF n, m
    <3> QED BY <3>1, <3>2, <3>3
  <2>9. KeysType'
    <3>1. copy' \in [Verifiers -> [keys : SUBSET Keys, age : 0 .. Stale, tried : 0 .. MinRefetch]] BY <2>1, <2>8
    <3>2. valid' \subseteq [key : Keys, left : 1 .. Lifetime] BY <2>7
    <3> QED BY <1>t, <2>1, <2>4, <2>6, <3>1, <3>2 DEF KeysType
  <2>10. ActiveIsNew'
    <3>1. ASSUME NEW k \in Keys, k >= made PROVE retired'[k] = 0
      <4>1. ~(k < made) BY <1>t, <3>1 DEF Keys
      <4> QED BY Zenon, <2>2, <4>1
    <3> QED BY <2>1, <3>1 DEF ActiveIsNew
  <2>11. CachedKeys'
    <3>1. ASSUME NEW p \in Signers
          PROVE  /\ signer'[p].key <= made
                 /\ signer'[p].key \in 1 .. (made - 1) /\ signer'[p].age < Cache
                    => retired'[signer'[p].key] <= signer'[p].age
      <4> DEFINE k == signer[p].key
                 a == signer[p].age
      <4>0. signer'[p].key = k /\ (signer'[p].age < Cache => signer'[p].age = a + 1) BY <2>5
      <4>1. k <= made /\ (k \in 1 .. (made - 1) /\ a < Cache => retired[k] <= a) BY DEF KeysInv, CachedKeys
      <4>2. k \in 0 .. MaxKeys /\ a \in 0 .. Cache BY <1>t
      <4> HIDE DEF k, a
      <4>3. k \in 1 .. (made - 1) => k \in Keys /\ k < made BY <1>t, <4>2 DEF Keys
      <4>4. \A i \in Keys : retired[i] \in Nat BY <1>t
      <4> QED BY <1>0, <2>2, <2>3, <2>4, <4>0, <4>1, <4>2, <4>3, <4>4
    <3> QED BY <2>1, <3>1 DEF CachedKeys
  <2>12. ValidKeys'
    <3>1. ASSUME NEW u \in valid'
          PROVE  u.key <= made /\ (u.key < made => retired'[u.key] + u.left <= Lifetime + Cache)
      <4>1. PICK t \in valid : u.key = t.key /\ u.left = t.left - 1 BY <2>7
      <4>2. t.key \in Keys /\ t.left \in Nat BY <1>t
      <4>3. t.key <= made /\ (t.key < made => retired[t.key] + t.left <= Lifetime + Cache) BY DEF KeysInv, ValidKeys
      <4>4. retired[t.key] \in Nat /\ retired'[t.key] \in Nat BY <1>t, <2>4, <4>2
      <4>5. t.key < made => retired'[t.key] <= retired[t.key] + 1 BY <2>2, <2>3, <4>2
      <4> QED BY <1>0, <1>t, <4>1, <4>2, <4>3, <4>4, <4>5
    <3> QED BY <2>1, <3>1 DEF ValidKeys
  <2> QED BY <2>9, <2>10, <2>11, <2>12 DEF KeysInv
<1> QED BY <1>1, <1>2, <1>3, <1>4, <1>5 DEF KeysStep

(* The key of a token that has not expired is published. *)
LEMMA ValidIsPublished == KeysInv => \A t \in valid : t.key \in Jwks
<1> SUFFICES ASSUME KeysInv, NEW t \in valid PROVE t.key \in Jwks OBVIOUS
<1>1. made \in Keys /\ t.key \in Keys /\ t.left \in 1 .. Lifetime /\ retired[t.key] \in 0 .. Grace
  BY DEF KeysInv, KeysType
<1>2. t.key <= made /\ (t.key < made => retired[t.key] + t.left <= Lifetime + Cache) BY DEF KeysInv, ValidKeys
<1>3. /\ Grace \in Nat /\ Lifetime \in Nat /\ Cache \in Nat /\ Grace >= Lifetime + Cache
  BY KeysAssumption DEF KeysAssumption
<1> QED BY <1>1, <1>2, <1>3 DEF Jwks, Keys

(* The inductive invariant of the keys, and their types. *)
THEOREM KeysAreInTime == KeysSpec => []KeysInv
BY KeysInitIs, KeysStepKeeps, PTL DEF KeysSpec

(* A rotation interrupts nobody: a token that has not expired is accepted by every verifier that can reach Identity, if
   the grace of a retired key is at least the lifetime of a token and the time a signer may cache its key. *)
THEOREM RotationInterruptsNobody == KeysSpec => []ValidIsAccepted
<1>1. KeysInv => ValidIsAccepted BY ValidIsPublished DEF ValidIsAccepted, Accepts
<1> QED BY <1>1, KeysAreInTime, PTL

-----------------------------------------------------------------------------
(* The session in a tab *)

Reference == [s : 0 .. MaxSignIns, gen : Nat]
Tab == [access : 0 .. MaxSignIns, refresh : Reference, shown : BOOLEAN]
Row == [live : BOOLEAN, gen : Nat]
Call == [st : {"idle", "sent", "waiting", "again", "stale"}, s : 0 .. MaxSignIns,
         me : {"no", "callback", "restore"}]
Flight == [by : Calls, s : Sessions, gen : Nat, answer : {"none", "ok", "refused"}, current : BOOLEAN]

WebType ==
  /\ mode \in {"password", "oidc"} /\ begun \in 0 .. MaxSignIns /\ signing \in 0 .. begun
  /\ server \in [Sessions -> Row]
  /\ tab \in Tab /\ stored \in Reference
  /\ call \in [Calls -> Call]
  /\ flight \subseteq Flight
  /\ restore \in [st : {"no", "sent"}, current : BOOLEAN, token : Reference]
  /\ overrun \in BOOLEAN

(* A token is none, or of a session that was begun. *)
OfSession(token) == token = None \/ token.s \in 1 .. begun
TokensAreReal ==
  /\ OfSession(tab.refresh) /\ OfSession(stored) /\ OfSession(restore.token)
  /\ tab.access = 0 \/ tab.access \in 1 .. begun
  /\ \A f \in flight : f.s \in 1 .. begun

(* What the tab holds, and what a refresh of this epoch will give it, is of the session the tab is in. *)
InTab ==
  overrun \/ /\ {tab.access, tab.refresh.s, stored.s} \subseteq {0, here}
             /\ \A f \in flight : f.current => f.s = here

(* One refresh of the epoch is under way, for the token in memory. *)
OneRefresh ==
  /\ \A f, h \in flight : f.current /\ h.current => f = h
  /\ \A f \in flight : f.current => f.s = tab.refresh.s /\ f.gen = tab.refresh.gen

(* Of a session whose answers all arrived, no more than one refresh is on its way to the server, with the token the
   server has; and while its token is in memory, what is under way for it is of this epoch. *)
InStep ==
  mode = "oidc" => \A s \in Sessions \ lost :
    /\ \A f \in flight : f.s = s /\ f.answer = "none" =>
         /\ f.gen = server[s].gen
         /\ \A h \in flight : h.s = s /\ h.answer = "none" => h = f
    /\ tab.refresh.s = s =>
         /\ \A f \in flight : f.s = s => f.current /\ (f.answer = "ok" => server[s].gen = f.gen + 1)
         /\ (\A f \in flight : f.s # s) => tab.refresh.gen = server[s].gen

(* A session that a sign-in has just begun is not known to the page yet. *)
SigningIsNew ==
  mode = "oidc" /\ signing # 0 =>
                 /\ server[signing].gen = 0 /\ tab.refresh.s # signing
                 /\ \A f \in flight : f.s # signing

(* The sessions to come have no tokens. *)
ToComeIsNew == \A s \in Sessions : s > begun => server[s].gen = 0

WebInv == WebType /\ TokensAreReal /\ OneRefresh /\ InTab /\ InStep /\ SigningIsNew /\ ToComeIsNew /\ NoTokenIsUsedTwice

(* The refreshes of a set, in an epoch that is over. *)
Past(flights) == {[f EXCEPT !.current = FALSE] : f \in flights}

LEMMA PastIs ==
  ASSUME WebType, NEW flights \in SUBSET flight
  PROVE  /\ Past(flights) \subseteq Flight
         /\ \A f \in Past(flights) : ~f.current
         /\ \A f \in Past(flights) : \E h \in flights : /\ f = [h EXCEPT !.current = FALSE]
                                                        /\ f.s = h.s /\ f.gen = h.gen /\ f.answer = h.answer
<1>1. ASSUME NEW h \in flights
      PROVE  /\ [h EXCEPT !.current = FALSE] \in Flight /\ ~[h EXCEPT !.current = FALSE].current
             /\ [h EXCEPT !.current = FALSE].s = h.s /\ [h EXCEPT !.current = FALSE].gen = h.gen
             /\ [h EXCEPT !.current = FALSE].answer = h.answer
  <2>1. h \in Flight BY DEF WebType
  <2> QED BY <2>1 DEF Flight
<1> QED BY <1>1 DEF Past

(* A new epoch: whatever becomes of the tab, what was under way is of an old epoch; and with OpenID Connect the tab has no
   token to refresh with, or that of the session the sign-in has begun. *)
Epoch ==
  /\ UNCHANGED <<mode, lost, twice>>
  /\ begun' \in 0 .. MaxSignIns /\ begun <= begun' /\ signing' \in 0 .. begun'
  /\ server' \in [Sessions -> Row] /\ \A s \in Sessions : server'[s].gen = server[s].gen
  /\ tab' \in Tab /\ stored' \in Reference /\ call' \in [Calls -> Call] /\ overrun' \in BOOLEAN
  /\ restore' \in [st : {"no", "sent"}, current : BOOLEAN, token : Reference]
  /\ \E flights \in SUBSET flight : flight' = Past(flights)
  /\ OfSession(tab.refresh)' /\ OfSession(stored)' /\ OfSession(restore.token)'
  /\ tab'.access = 0 \/ tab'.access \in 1 .. begun'
  /\ overrun' \/ {tab'.access, tab'.refresh.s, stored'.s} \subseteq {0, here'}
  /\ mode = "oidc" => \/ tab'.refresh = None
                      \/ signing # 0 /\ tab'.refresh = [s |-> signing, gen |-> 0] /\ signing' = 0
  /\ \/ signing' = 0 \/ signing' = signing
     \/ signing' = begun + 1 /\ begun' = begun + 1

LEMMA EpochKeeps == ASSUME WebInv, Epoch PROVE WebInv'
<1>0. /\ WebType /\ TokensAreReal /\ InStep /\ SigningIsNew /\ ToComeIsNew /\ NoTokenIsUsedTwice
      /\ MaxSignIns \in Nat /\ begun \in 0 .. MaxSignIns /\ signing \in 0 .. begun
  BY WebAssumption DEF WebInv, WebType, WebAssumption
<1>1. PICK flights \in SUBSET flight : flight' = Past(flights) BY DEF Epoch
<1>2. /\ flight' \subseteq Flight /\ \A f \in flight' : ~f.current
      /\ \A f \in flight' : \E h \in flights : /\ f = [h EXCEPT !.current = FALSE]
                                               /\ f.s = h.s /\ f.gen = h.gen /\ f.answer = h.answer
  BY <1>0, <1>1, PastIs
<1>3. WebType' BY <1>0, <1>2 DEF Epoch, WebType
<1>4. TokensAreReal'
  <2>1. \A f \in flight' : f.s \in 1 .. begun BY <1>0, <1>2 DEF TokensAreReal
  <2>2. 1 .. begun \subseteq 1 .. begun' BY <1>0 DEF Epoch
  <2> QED BY <2>1, <2>2 DEF Epoch, TokensAreReal
<1>5. OneRefresh' BY <1>2 DEF OneRefresh
<1>6. InTab' BY <1>2 DEF InTab, Epoch
<1>7. ASSUME mode = "oidc", tab'.refresh.s \in Sessions
      PROVE  /\ tab'.refresh.gen = server'[tab'.refresh.s].gen
             /\ \A f \in flight' : f.s # tab'.refresh.s
  <2>1. tab'.refresh # None BY <1>7 DEF None, Sessions
  <2>2. signing # 0 /\ tab'.refresh = [s |-> signing, gen |-> 0] BY <1>7, <2>1 DEF Epoch
  <2>3. tab'.refresh.s = signing /\ tab'.refresh.gen = 0 BY <2>2
  <2>4. server[signing].gen = 0 /\ \A f \in flight : f.s # signing BY <1>0, <1>7, <2>2 DEF SigningIsNew
  <2> QED BY <1>2, <1>7, <2>3, <2>4 DEF Epoch
<1>8. InStep'
  <2> SUFFICES ASSUME mode' = "oidc", NEW s \in Sessions \ lost'
               PROVE  /\ \A f \in flight' : f.s = s /\ f.answer = "none" =>
                           /\ f.gen = server'[s].gen
                           /\ \A h \in flight' : h.s = s /\ h.answer = "none" => h = f
                      /\ tab'.refresh.s = s =>
                           /\ \A f \in flight' : f.s = s => f.current /\ (f.answer = "ok" => server'[s].gen = f.gen + 1)
                           /\ (\A f \in flight' : f.s # s) => tab'.refresh.gen = server'[s].gen
    BY DEF InStep
  <2>1. mode = "oidc" /\ s \notin lost /\ server'[s].gen = server[s].gen BY DEF Epoch
  <2>2. ASSUME NEW f \in flight', f.s = s, f.answer = "none" PROVE f.gen = server[s].gen
    BY <1>0, <1>2, <2>1, <2>2 DEF InStep
  <2>3. ASSUME NEW f \in flight', NEW h \in flight', f.s = s, f.answer = "none", h.s = s, h.answer = "none" PROVE h = f
    <3>1. PICK f1 \in flights : f = [f1 EXCEPT !.current = FALSE] /\ f1.s = s /\ f1.answer = "none" BY <1>2, <2>3
    <3>2. PICK h1 \in flights : h = [h1 EXCEPT !.current = FALSE] /\ h1.s = s /\ h1.answer = "none" BY <1>2, <2>3
    <3>3. h1 = f1 BY <1>0, <2>1, <3>1, <3>2 DEF InStep
    <3> QED BY <3>1, <3>2, <3>3
  <2> QED BY <1>7, <2>1, <2>2, <2>3
<1>9. SigningIsNew'
  <2> SUFFICES ASSUME mode = "oidc", signing' # 0
               PROVE  /\ server'[signing'].gen = 0 /\ tab'.refresh.s # signing'
                      /\ \A f \in flight' : f.s # signing'
    BY DEF SigningIsNew, Epoch
  <2>1. tab'.refresh.s = 0 BY DEF Epoch, None
  <2>2. signing' \in Sessions BY <1>0 DEF Epoch, Sessions
  <2>3. CASE signing' = signing BY <1>0, <1>2, <2>1, <2>2, <2>3 DEF SigningIsNew, Epoch
  <2>4. CASE signing' = begun + 1
    <3>1. \A f \in flight : f.s \in 1 .. begun BY <1>0 DEF TokensAreReal
    <3>2. server[signing'].gen = 0 BY <1>0, <2>2, <2>4 DEF ToComeIsNew
    <3> QED BY <1>0, <1>2, <2>1, <2>2, <2>4, <3>1, <3>2 DEF Epoch
  <2> QED BY <2>3, <2>4 DEF Epoch
<1>10. ToComeIsNew'
  <2>1. ASSUME NEW s \in Sessions, s > begun' PROVE server'[s].gen = 0
    BY <1>0, <2>1 DEF Epoch, ToComeIsNew, Sessions
  <2> QED BY <2>1 DEF ToComeIsNew
<1>11. NoTokenIsUsedTwice' BY <1>0 DEF NoTokenIsUsedTwice, Epoch
<1> QED BY <1>3, <1>4, <1>5, <1>6, <1>8, <1>9, <1>10, <1>11 DEF WebInv

(* Nothing becomes of the tokens in the tab, of the refreshes under way and of the tokens the server has. *)
Quiet ==
  /\ UNCHANGED <<mode, flight, stored, here, overrun, lost, twice>>
  /\ tab' \in Tab /\ tab'.access = tab.access /\ tab'.refresh = tab.refresh
  /\ begun' \in 0 .. MaxSignIns /\ begun <= begun' /\ signing' \in 0 .. begun'
  /\ mode = "oidc" => signing' \in {0, signing}
  /\ server' \in [Sessions -> Row] /\ \A s \in Sessions : server'[s].gen = server[s].gen
  /\ call' \in [Calls -> Call]
  /\ restore' \in [st : {"no", "sent"}, current : BOOLEAN, token : Reference] /\ OfSession(restore.token)'

LEMMA QuietKeeps == ASSUME WebInv, Quiet PROVE WebInv'
<1>0. /\ WebType /\ TokensAreReal /\ OneRefresh /\ InTab /\ InStep /\ SigningIsNew /\ ToComeIsNew /\ NoTokenIsUsedTwice
      /\ MaxSignIns \in Nat /\ begun \in 0 .. MaxSignIns /\ signing \in 0 .. begun
  BY WebAssumption DEF WebInv, WebType, WebAssumption
<1>1. WebType' BY <1>0 DEF WebType, Quiet
<1>2. TokensAreReal'
  <2>1. 1 .. begun \subseteq 1 .. begun' BY <1>0 DEF Quiet
  <2> QED BY <1>0, <2>1 DEF TokensAreReal, Quiet, OfSession
<1>3. OneRefresh' BY <1>0 DEF OneRefresh, Quiet
<1>4. InTab' BY <1>0 DEF InTab, Quiet
<1>5. InStep' BY <1>0 DEF InStep, Quiet
<1>6. SigningIsNew'
  <2>1. signing' = signing /\ signing # 0 => signing \in Sessions BY <1>0 DEF Sessions
  <2> QED BY <1>0, <2>1 DEF SigningIsNew, Quiet
<1>7. ToComeIsNew'
  <2>1. ASSUME NEW s \in Sessions, s > begun' PROVE server'[s].gen = 0
    BY <1>0, <2>1 DEF Quiet, ToComeIsNew, Sessions
  <2> QED BY <2>1 DEF ToComeIsNew
<1>8. NoTokenIsUsedTwice' BY <1>0 DEF NoTokenIsUsedTwice, Quiet
<1> QED BY <1>1, <1>2, <1>3, <1>4, <1>5, <1>6, <1>7, <1>8 DEF WebInv

(* What becomes of the requests in a new epoch. *)
LEMMA NewEpochIs ==
  ASSUME WebType, NEW calls \in [Calls -> Call], NEW flights \in SUBSET flight, NewEpoch(calls, flights)
  PROVE  call' \in [Calls -> Call] /\ \E some \in SUBSET flight : flight' = Past(some)
<1>1. NoCall \in Call BY WebAssumption DEF NoCall, Call, WebAssumption
<1>2. ASSUME NEW c \in Calls PROVE call'[c] \in Call
  <2>1. calls[c] \in Call OBVIOUS
  <2>2. [calls[c] EXCEPT !.st = "stale"] \in Call BY <2>1 DEF Call
  <2>3. call'[c] \in {calls[c], [calls[c] EXCEPT !.st = "stale"], NoCall} BY Zenon DEF NewEpoch
  <2> QED BY <1>1, <2>1, <2>2, <2>3
<1>3. call' = [c \in Calls |-> call'[c]] BY Zenon DEF NewEpoch
<1>4. flight' = Past(flights) BY DEF NewEpoch, Past
<1> QED BY <1>2, <1>3, <1>4

Cleared ==
  /\ call' \in [Calls -> Call] /\ \E some \in SUBSET flight : flight' = Past(some)
  /\ tab' \in Tab /\ tab'.access = 0 /\ tab'.refresh = None
  /\ stored' = None /\ overrun' = FALSE

LEMMA ClearTokensIs ==
  ASSUME WebType, NEW shown \in BOOLEAN, NEW calls \in [Calls -> Call], NEW flights \in SUBSET flight,
         ClearTokens(shown, calls, flights)
  PROVE  Cleared
<1>1. call' \in [Calls -> Call] /\ \E some \in SUBSET flight : flight' = Past(some)
  BY NewEpochIs DEF ClearTokens
<1>2. None \in Reference /\ 0 \in 0 .. MaxSignIns BY WebAssumption DEF None, Reference, WebAssumption
<1>3. tab' = [access |-> 0, refresh |-> None, shown |-> shown] BY DEF ClearTokens, Blank
<1>4. tab' \in Tab /\ tab'.access = 0 /\ tab'.refresh = None BY <1>2, <1>3 DEF Tab
<1>5. stored' = None /\ overrun' = FALSE BY DEF ClearTokens
<1> QED BY <1>1, <1>4, <1>5 DEF Cleared

(* The page is loaded anew. *)
LEMMA LoadedIs ==
  ASSUME WebType, TokensAreReal, InTab, Loaded, stored' = stored
  PROVE  /\ call' \in [Calls -> Call] /\ \E some \in SUBSET flight : flight' = Past(some)
         /\ tab' \in Tab /\ tab'.access = 0 /\ tab'.refresh = None
         /\ restore' \in [st : {"no", "sent"}, current : BOOLEAN, token : Reference]
         /\ OfSession(restore'.token) /\ overrun' \in BOOLEAN
         /\ overrun' \/ stored.s \in {0, here'}
<1>1. NoCall \in Call BY WebAssumption DEF NoCall, Call, WebAssumption
<1>2. None \in Reference /\ None.s = 0 /\ 0 \in 0 .. MaxSignIns BY WebAssumption DEF None, Reference, WebAssumption
<1>3. call' \in [Calls -> Call] BY <1>1 DEF Loaded
<1>4. flight' = Past(flight) BY DEF Loaded, Past
<1>5. tab' \in Tab /\ tab'.access = 0 /\ tab'.refresh = None BY <1>2 DEF Loaded, Blank, Tab
<1>6. stored \in Reference /\ OfSession(stored) /\ overrun \in BOOLEAN BY DEF WebType, TokensAreReal
<1>7. CASE stored = None
  <2>1. restore' = [st |-> "no", current |-> FALSE, token |-> None] BY <1>7 DEF Loaded, NoRestore
  <2>2. restore' \in [st : {"no", "sent"}, current : BOOLEAN, token : Reference] /\ OfSession(restore'.token)
    BY <1>2, <2>1 DEF OfSession
  <2>3. overrun' = FALSE
    <3>1. overrun' = (overrun /\ stored # None) BY DEF Loaded
    <3> QED BY <1>6, <1>7, <3>1
  <2> QED BY <1>2, <1>3, <1>4, <1>5, <1>7, <2>2, <2>3
<1>8. CASE stored # None
  <2>1. restore' = [st |-> "sent", current |-> TRUE, token |-> stored] /\ here' = here /\ overrun' = overrun
    BY <1>6, <1>8 DEF Loaded
  <2> QED BY <1>3, <1>4, <1>5, <1>6, <2>1 DEF InTab
<1> QED BY <1>7, <1>8

LEMMA OutlivedIs ==
  WebType /\ TokensAreReal => /\ Outlived(restore) \in [st : {"no", "sent"}, current : BOOLEAN, token : Reference]
                              /\ OfSession(Outlived(restore).token)
<1> SUFFICES ASSUME WebType, TokensAreReal
             PROVE  /\ Outlived(restore) \in [st : {"no", "sent"}, current : BOOLEAN, token : Reference]
                    /\ OfSession(Outlived(restore).token)
  OBVIOUS
<1>1. restore \in [st : {"no", "sent"}, current : BOOLEAN, token : Reference] /\ OfSession(restore.token)
  BY DEF WebType, TokensAreReal
<1>2. Outlived(restore).token = restore.token BY <1>1 DEF Outlived
<1>3. Outlived(restore) \in [st : {"no", "sent"}, current : BOOLEAN, token : Reference] BY <1>1 DEF Outlived
<1> QED BY <1>1, <1>2, <1>3

(* A step that clears the tokens begins a new epoch. *)
LEMMA ClearedIsEpoch ==
  ASSUME WebInv, Cleared, UNCHANGED <<mode, begun, signing, lost, twice>>,
         restore' \in [st : {"no", "sent"}, current : BOOLEAN, token : Reference], OfSession(restore'.token),
         server' \in [Sessions -> Row], \A s \in Sessions : server'[s].gen = server[s].gen
  PROVE  Epoch
<1>1. None \in Reference /\ None.s = 0 /\ begun \in 0 .. MaxSignIns /\ signing \in 0 .. begun /\ MaxSignIns \in Nat
  BY WebAssumption DEF None, Reference, WebAssumption, WebInv, WebType
<1>2. OfSession(restore.token)' BY DEF OfSession
<1>3. OfSession(tab.refresh)' /\ OfSession(stored)' BY DEF OfSession, Cleared
<1>4. {tab'.access, tab'.refresh.s, stored'.s} \subseteq {0, here'} BY <1>1 DEF Cleared
<1>5. /\ call' \in [Calls -> Call] /\ \E flights \in SUBSET flight : flight' = Past(flights)
      /\ tab' \in Tab /\ stored' \in Reference /\ overrun' \in BOOLEAN
      /\ tab'.access = 0 /\ tab'.refresh = None
  BY <1>1 DEF Cleared
<1>6. begun' \in 0 .. MaxSignIns /\ begun <= begun' /\ signing' \in 0 .. begun' /\ signing' = signing BY <1>1
<1> QED BY <1>2, <1>3, <1>4, <1>5, <1>6 DEF Epoch

(* A request ends; a session ends at the server. *)
LEMMA EndsIs == ASSUME WebType, NEW c \in Calls PROVE Ends(c) \in [Calls -> Call]
<1>1. NoCall \in Call BY WebAssumption DEF NoCall, Call, WebAssumption
<1> QED BY <1>1 DEF Ends, WebType

LEMMA EndedIs ==
  ASSUME WebType, NEW s \in Sessions, server' = [server EXCEPT ![s].live = FALSE]
  PROVE  server' \in [Sessions -> Row] /\ \A k \in Sessions : server'[k].gen = server[k].gen
<1> DEFINE row == [server[s] EXCEPT !.live = FALSE]
<1>1. server[s] \in Row /\ server \in [Sessions -> Row] BY DEF WebType
<1>2. row \in Row /\ row.gen = server[s].gen BY <1>1 DEF Row
<1>3. server' = [server EXCEPT ![s] = row] BY <1>1
<1> HIDE DEF row
<1> QED BY <1>1, <1>2, <1>3

(* The steps that begin a new epoch. *)
LEMMA ReloadKeeps == ASSUME WebInv, Reload PROVE WebInv'
<1>0. /\ WebType /\ TokensAreReal /\ InTab /\ stored' = stored /\ None.s = 0
      /\ MaxSignIns \in Nat /\ begun \in 0 .. MaxSignIns
  BY WebAssumption DEF WebInv, WebType, WebAssumption, Reload, None
<1>1. /\ call' \in [Calls -> Call] /\ \E some \in SUBSET flight : flight' = Past(some)
      /\ tab' \in Tab /\ tab'.access = 0 /\ tab'.refresh = None
      /\ restore' \in [st : {"no", "sent"}, current : BOOLEAN, token : Reference]
      /\ OfSession(restore'.token) /\ overrun' \in BOOLEAN
      /\ overrun' \/ stored.s \in {0, here'}
  BY <1>0, LoadedIs DEF Reload
<1>2. OfSession(restore.token)' /\ OfSession(stored)' /\ OfSession(tab.refresh)'
  BY <1>0, <1>1 DEF OfSession, TokensAreReal, Reload
<1>3. Epoch BY <1>0, <1>1, <1>2 DEF Epoch, Reload, WebType
<1> QED BY <1>3, EpochKeeps

LEMMA SignInKeeps == ASSUME WebInv, SignIn PROVE WebInv'
<1>0. /\ WebType /\ TokensAreReal /\ InTab /\ stored' = stored /\ None.s = 0
      /\ MaxSignIns \in Nat /\ begun \in 0 .. MaxSignIns /\ begun < MaxSignIns
  BY WebAssumption DEF WebInv, WebType, WebAssumption, SignIn, None
<1>1. begun' = begun + 1 /\ begun' \in 1 .. MaxSignIns /\ signing' = begun' BY <1>0 DEF SignIn
<1>2. server' \in [Sessions -> Row] /\ \A s \in Sessions : server'[s].gen = server[s].gen
  <2> DEFINE s == begun'
             row == [server[s] EXCEPT !.live = TRUE]
  <2>1. s \in Sessions BY <1>1 DEF Sessions
  <2>2. server[s] \in Row /\ server \in [Sessions -> Row] BY <1>0, <2>1 DEF WebType
  <2>3. row \in Row /\ row.gen = server[s].gen BY <2>2 DEF Row
  <2>4. server' = [server EXCEPT ![s] = row] BY <2>1, <2>2 DEF SignIn
  <2> HIDE DEF s, row
  <2> QED BY <2>1, <2>2, <2>3, <2>4
<1>3. CASE mode = "oidc"
  <2>1. /\ call' \in [Calls -> Call] /\ \E some \in SUBSET flight : flight' = Past(some)
        /\ tab' \in Tab /\ tab'.access = 0 /\ tab'.refresh = None
        /\ restore' \in [st : {"no", "sent"}, current : BOOLEAN, token : Reference]
        /\ OfSession(restore'.token) /\ overrun' \in BOOLEAN
        /\ overrun' \/ stored.s \in {0, here'}
    BY <1>0, <1>3, LoadedIs DEF SignIn
  <2>2. 1 .. begun \subseteq 1 .. begun' BY <1>0, <1>1
  <2>3. OfSession(restore'.token) /\ OfSession(stored) BY <1>0, <2>1 DEF TokensAreReal
  <2>4. OfSession(restore.token)' /\ OfSession(stored)' /\ OfSession(tab.refresh)'
    BY <1>0, <2>1, <2>2, <2>3 DEF OfSession
  <2>5. signing' \in 0 .. begun' /\ begun' \in 0 .. MaxSignIns /\ begun <= begun' BY <1>0, <1>1
  <2>6. UNCHANGED <<mode, lost, twice>> /\ stored' \in Reference BY <1>0 DEF SignIn, WebType
  <2>7. overrun' \/ {tab'.access, tab'.refresh.s, stored'.s} \subseteq {0, here'} BY <1>0, <2>1
  <2>8. Epoch BY <1>1, <1>2, <2>1, <2>4, <2>5, <2>6, <2>7 DEF Epoch
  <2> QED BY <2>8, EpochKeeps
<1>4. CASE mode # "oidc"
  <2>1. UNCHANGED <<tab, call, flight, restore, here, overrun, mode, stored, lost, twice>> BY <1>4 DEF SignIn
  <2>2. 1 .. begun \subseteq 1 .. begun' BY <1>0, <1>1
  <2>3. OfSession(restore.token)' BY <1>0, <2>1, <2>2 DEF OfSession, TokensAreReal
  <2>4. Quiet BY <1>0, <1>1, <1>2, <1>4, <2>1, <2>3 DEF Quiet, WebType
  <2> QED BY <2>4, QuietKeeps
<1> QED BY <1>3, <1>4

(* A sign-in has its tokens: of the session it has begun. *)
LEMMA SetTokensIs ==
  ASSUME WebType, NEW given \in Reference, NEW persist \in BOOLEAN, NEW shown \in BOOLEAN,
         NEW calls \in [Calls -> Call], SetTokens(given, persist, shown, calls)
  PROVE  /\ call' \in [Calls -> Call] /\ \E some \in SUBSET flight : flight' = Past(some)
         /\ tab' \in Tab /\ tab'.access = given.s /\ tab'.refresh = given
         /\ stored' \in Reference /\ stored' \in {None, given}
<1>1. call' \in [Calls -> Call] /\ \E some \in SUBSET flight : flight' = Past(some)
  BY NewEpochIs DEF SetTokens
<1>2. None \in Reference BY WebAssumption DEF None, Reference, WebAssumption
<1>3. tab' = [access |-> given.s, refresh |-> given, shown |-> shown] BY DEF SetTokens
<1>4. given.s \in 0 .. MaxSignIns BY DEF Reference
<1>5. tab' \in Tab /\ tab'.access = given.s /\ tab'.refresh = given BY <1>3, <1>4 DEF Tab
<1>6. stored' \in {None, given} BY Zenon DEF SetTokens
<1> QED BY <1>1, <1>2, <1>5, <1>6

LEMMA SignInDoneKeeps == ASSUME WebInv, SignInDone PROVE WebInv'
<1>0. /\ WebType /\ TokensAreReal /\ MaxSignIns \in Nat /\ begun \in 0 .. MaxSignIns
      /\ signing \in 1 .. begun /\ tab.shown \in BOOLEAN /\ None.s = 0
  BY WebAssumption DEF WebInv, WebType, WebAssumption, SignInDone, Tab, None
<1> DEFINE given == [s |-> signing, gen |-> 0]
<1>1. given \in Reference /\ given.s = signing /\ given.s \in 1 .. begun /\ given.gen = 0 BY <1>0 DEF Reference
<1>2. /\ call' \in [Calls -> Call] /\ \E some \in SUBSET flight : flight' = Past(some)
      /\ tab' \in Tab /\ tab'.access = given.s /\ tab'.refresh = given
      /\ stored' \in Reference /\ stored' \in {None, given}
  <2>1. CASE mode = "password"
    <3>1. PICK remember \in BOOLEAN : SetTokens(given, remember, TRUE, call) BY <2>1 DEF SignInDone
    <3>2. call \in [Calls -> Call] BY <1>0 DEF WebType
    <3> HIDE DEF given
    <3> QED BY <1>0, <1>1, <3>1, <3>2, SetTokensIs
  <2>2. CASE mode # "password"
    <3> DEFINE sent == [st |-> "sent", s |-> signing, me |-> "callback"]
    <3>1. PICK c \in Calls : SetTokens(given, TRUE, tab.shown, [call EXCEPT ![c] = sent]) BY <2>2 DEF SignInDone
    <3>2. sent \in Call BY <1>0 DEF Call
    <3> DEFINE calls == [call EXCEPT ![c] = sent]
    <3>3. calls \in [Calls -> Call] BY <1>0, <3>2 DEF WebType
    <3>4. SetTokens(given, TRUE, tab.shown, calls) BY <3>1
    <3> HIDE DEF given, sent, calls
    <3> QED BY <1>0, <1>1, <3>3, <3>4, SetTokensIs
  <2> QED BY <2>1, <2>2
<1>3. /\ here' = signing /\ overrun' = FALSE /\ signing' = 0 /\ restore' = Outlived(restore)
      /\ UNCHANGED <<mode, begun, server, lost, twice>>
  BY DEF SignInDone
<1>4. OfSession(tab.refresh)' /\ OfSession(stored)' /\ OfSession(restore.token)'
  BY <1>0, <1>1, <1>2, <1>3, OutlivedIs DEF OfSession
<1>5. restore' \in [st : {"no", "sent"}, current : BOOLEAN, token : Reference] BY <1>0, <1>3, OutlivedIs
<1>6. tab'.access = 0 \/ tab'.access \in 1 .. begun' BY <1>1, <1>2, <1>3
<1>7. {tab'.access, tab'.refresh.s, stored'.s} \subseteq {0, here'} BY <1>0, <1>1, <1>2, <1>3
<1>8. server' \in [Sessions -> Row] /\ \A s \in Sessions : server'[s].gen = server[s].gen
  BY <1>0, <1>3 DEF WebType
<1>9. signing # 0 /\ tab'.refresh = [s |-> signing, gen |-> 0] BY <1>0, <1>2
<1>10. begun' \in 0 .. MaxSignIns /\ begun <= begun' /\ signing' \in 0 .. begun' BY <1>0, <1>3
<1>11. Epoch
  <2> HIDE DEF given
  <2> QED BY <1>2, <1>3, <1>4, <1>5, <1>6, <1>7, <1>8, <1>9, <1>10 DEF Epoch
<1> QED BY <1>11, EpochKeeps

LEMMA LogOutKeeps == ASSUME WebInv, LogOut PROVE WebInv'
<1>0. /\ WebType /\ TokensAreReal /\ call \in [Calls -> Call] /\ server \in [Sessions -> Row]
      /\ OfSession(tab.refresh) /\ begun \in 0 .. MaxSignIns /\ MaxSignIns \in Nat
  BY WebAssumption DEF WebInv, WebType, TokensAreReal, WebAssumption
<1>1. Cleared BY <1>0, ClearTokensIs DEF LogOut
<1>2. server' \in [Sessions -> Row] /\ \A s \in Sessions : server'[s].gen = server[s].gen
  <2>1. CASE server' = server BY <1>0, <2>1
  <2>2. CASE tab.refresh # None /\ server' = [server EXCEPT ![tab.refresh.s].live = FALSE]
    <3> DEFINE s == tab.refresh.s
    <3>1. s \in Sessions BY <1>0, <2>2 DEF OfSession, Sessions
    <3>2. server' = [server EXCEPT ![s].live = FALSE] BY <2>2
    <3> HIDE DEF s
    <3> QED BY <1>0, <3>1, <3>2, EndedIs
  <2> QED BY <2>1, <2>2 DEF LogOut
<1>3. Epoch BY <1>0, <1>1, <1>2, OutlivedIs, ClearedIsEpoch DEF LogOut
<1> QED BY <1>3, EpochKeeps

LEMMA LeaveKeeps == ASSUME WebInv, Leave PROVE WebInv'
<1>0. WebType /\ TokensAreReal /\ call \in [Calls -> Call] /\ server \in [Sessions -> Row]
  BY DEF WebInv, WebType
<1>1. Cleared BY <1>0, ClearTokensIs DEF Leave
<1>2. Epoch BY <1>0, <1>1, OutlivedIs, ClearedIsEpoch DEF Leave
<1> QED BY <1>2, EpochKeeps

LEMMA NotRestoredKeeps == ASSUME WebInv, NotRestored PROVE WebInv'
<1>0. /\ WebType /\ TokensAreReal /\ call \in [Calls -> Call] /\ server \in [Sessions -> Row]
      /\ tab.shown \in BOOLEAN /\ None \in Reference /\ OfSession(None)
  BY WebAssumption DEF WebInv, WebType, Tab, None, Reference, WebAssumption, OfSession
<1>1. Cleared BY <1>0, ClearTokensIs DEF NotRestored
<1>2. /\ NoRestore \in [st : {"no", "sent"}, current : BOOLEAN, token : Reference]
      /\ NoRestore.token = None
  BY <1>0 DEF NoRestore
<1>3. Epoch BY <1>0, <1>1, <1>2, ClearedIsEpoch DEF NotRestored
<1> QED BY <1>3, EpochKeeps

LEMMA RestoredKeeps == ASSUME WebInv, NEW c \in Calls, Restored(c) PROVE WebInv'
<1>0. /\ WebType /\ TokensAreReal /\ call \in [Calls -> Call] /\ server \in [Sessions -> Row]
      /\ tab.shown \in BOOLEAN /\ None \in Reference /\ OfSession(None) /\ None.s = 0
      /\ restore \in [st : {"no", "sent"}, current : BOOLEAN, token : Reference]
      /\ restore.token \in Reference /\ OfSession(restore.token) /\ overrun \in BOOLEAN
      /\ begun \in 0 .. MaxSignIns /\ signing \in 0 .. begun /\ MaxSignIns \in Nat
  BY WebAssumption DEF WebInv, WebType, TokensAreReal, Tab, None, Reference, WebAssumption, OfSession
<1> DEFINE given == restore.token
           sent == [st |-> "sent", s |-> given.s, me |-> "restore"]
           calls == [call EXCEPT ![c] = sent]
<1>1. given \in Reference /\ OfSession(given) /\ given.s \in 0 .. MaxSignIns BY <1>0 DEF Reference
<1>2. sent \in Call BY <1>1 DEF Call
<1>3. calls \in [Calls -> Call] BY <1>0, <1>2
<1>4. SetTokens(given, TRUE, tab.shown, calls) BY DEF Restored
<1>5. /\ here' = (IF restore.current THEN given.s ELSE here) /\ overrun' = (overrun \/ ~restore.current)
      /\ restore' = NoRestore /\ mode = "password"
      /\ UNCHANGED <<mode, begun, server, signing, lost, twice>>
  BY DEF Restored
<1>6. /\ call' \in [Calls -> Call] /\ \E some \in SUBSET flight : flight' = Past(some)
      /\ tab' \in Tab /\ tab'.access = given.s /\ tab'.refresh = given
      /\ stored' \in Reference /\ stored' \in {None, given}
  <2> HIDE DEF given, sent, calls
  <2> QED BY <1>0, <1>1, <1>3, <1>4, SetTokensIs
<1>7. /\ restore' \in [st : {"no", "sent"}, current : BOOLEAN, token : Reference] /\ restore'.token = None
  BY <1>0, <1>5 DEF NoRestore
<1> HIDE DEF given, sent, calls
<1>8. given.s = 0 \/ given.s \in 1 .. begun BY <1>0, <1>1 DEF OfSession
<1>9. OfSession(tab.refresh)' /\ OfSession(stored)' /\ OfSession(restore.token)'
  BY <1>0, <1>1, <1>5, <1>6, <1>7 DEF OfSession
<1>10. overrun' \in BOOLEAN /\ (overrun' \/ {tab'.access, tab'.refresh.s, stored'.s} \subseteq {0, here'})
  BY <1>0, <1>5, <1>6
<1>11. /\ begun' \in 0 .. MaxSignIns /\ begun <= begun' /\ signing' \in 0 .. begun' /\ signing' = signing
       /\ server' \in [Sessions -> Row] /\ \A s \in Sessions : server'[s].gen = server[s].gen
       /\ tab'.access = 0 \/ tab'.access \in 1 .. begun'
  BY <1>0, <1>5, <1>6, <1>8
<1>12. Epoch BY <1>5, <1>6, <1>7, <1>9, <1>10, <1>11 DEF Epoch
<1> QED BY <1>12, EpochKeeps

(* The other steps that leave the tokens and the refreshes alone. *)
LEMMA SessionEndsKeeps == ASSUME WebInv, NEW s \in Sessions, SessionEnds(s) PROVE WebInv'
<1>0. /\ WebType /\ TokensAreReal /\ MaxSignIns \in Nat /\ begun \in 0 .. MaxSignIns
  BY WebAssumption DEF WebInv, WebType, WebAssumption
<1>1. server' \in [Sessions -> Row] /\ \A k \in Sessions : server'[k].gen = server[k].gen
  BY <1>0, EndedIs DEF SessionEnds
<1>2. OfSession(restore.token)' BY <1>0 DEF OfSession, TokensAreReal, SessionEnds
<1>3. Quiet BY <1>0, <1>1, <1>2 DEF Quiet, SessionEnds, WebType, webHistory
<1> QED BY <1>3, QuietKeeps

(* What a step is that does not change the server. *)
LEMMA CalmKeeps ==
  ASSUME WebInv, UNCHANGED <<mode, begun, server, stored, flight, webHistory>>, signing' \in {0, signing},
         restore' \in {restore, NoRestore}, call' \in [Calls -> Call],
         tab' = tab \/ \E b \in BOOLEAN : tab' = [tab EXCEPT !.shown = b]
  PROVE  WebInv'
<1>0. /\ WebType /\ TokensAreReal /\ MaxSignIns \in Nat /\ begun \in 0 .. MaxSignIns /\ signing \in 0 .. begun
      /\ None \in Reference /\ OfSession(None) /\ tab \in Tab
  BY WebAssumption DEF WebInv, WebType, WebAssumption, None, Reference, OfSession
<1>1. tab' \in Tab /\ tab'.access = tab.access /\ tab'.refresh = tab.refresh BY <1>0 DEF Tab
<1>2. restore' \in [st : {"no", "sent"}, current : BOOLEAN, token : Reference] /\ OfSession(restore.token)'
  <2>1. CASE restore' = restore BY <1>0, <2>1 DEF WebType, TokensAreReal, OfSession
  <2>2. CASE restore' = NoRestore
    <3>1. NoRestore \in [st : {"no", "sent"}, current : BOOLEAN, token : Reference] /\ NoRestore.token = None
      BY <1>0 DEF NoRestore
    <3> QED BY <2>2, <3>1 DEF OfSession
  <2> QED BY <2>1, <2>2
<1>3. signing' \in 0 .. begun BY <1>0
<1>4. Quiet BY <1>0, <1>1, <1>2, <1>3 DEF Quiet, WebType, webHistory
<1> QED BY <1>4, QuietKeeps

LEMMA RequestKeeps == ASSUME WebInv, NEW c \in Calls, Request(c) PROVE WebInv'
<1> DEFINE sent == [st |-> "sent", s |-> tab.access, me |-> "no"]
<1>1. sent \in Call /\ call \in [Calls -> Call] BY DEF WebInv, WebType, Tab, Call
<1>2. call' = [call EXCEPT ![c] = sent] BY DEF Request
<1>3. call' \in [Calls -> Call] BY <1>1, <1>2
<1> QED BY <1>3, CalmKeeps DEF Request

LEMMA AnsweredKeeps == ASSUME WebInv, NEW c \in Calls, Answered(c) PROVE WebInv'
<1>1. WebType /\ tab.shown \in BOOLEAN BY DEF WebInv, WebType, Tab
<1>2. call' \in [Calls -> Call] BY <1>1, EndsIs DEF Answered
<1> DEFINE b == tab.shown \/ call[c].me # "no"
<1>3. b \in BOOLEAN /\ tab' = [tab EXCEPT !.shown = b] BY <1>1 DEF Answered
<1> HIDE DEF b
<1> QED BY <1>2, <1>3, CalmKeeps DEF Answered

LEMMA FailsKeeps == ASSUME WebInv, NEW c \in Calls, Fails(c) PROVE WebInv'
<1>0. /\ WebType /\ TokensAreReal /\ call \in [Calls -> Call] /\ server \in [Sessions -> Row]
      /\ tab.shown \in BOOLEAN /\ Ends(c) \in [Calls -> Call]
  BY EndsIs DEF WebInv, WebType, Tab
<1>1. CASE ClearTokens(tab.shown, Ends(c), flight) /\ restore' = Outlived(restore)
  <2>1. Cleared BY <1>0, <1>1, ClearTokensIs
  <2>2. Epoch BY <1>0, <1>1, <2>1, OutlivedIs, ClearedIsEpoch DEF Fails
  <2> QED BY <2>2, EpochKeeps
<1>2. CASE call' = Ends(c) /\ KeepsTokens /\ UNCHANGED <<flight, restore>>
  <2>1. UNCHANGED <<mode, begun, server, stored, flight, webHistory>> BY <1>2 DEF KeepsTokens, webHistory, Fails
  <2>2. signing' = signing /\ restore' = restore /\ tab' = tab BY <1>2 DEF KeepsTokens, Fails
  <2> QED BY <1>0, <1>2, <2>1, <2>2, CalmKeeps
<1> QED BY <1>1, <1>2 DEF Fails

LEMMA UnauthorizedKeeps == ASSUME WebInv, NEW c \in Calls, Unauthorized(c) PROVE WebInv'
<1>0. /\ WebType /\ TokensAreReal /\ server \in [Sessions -> Row]
      /\ tab.shown \in BOOLEAN /\ Ends(c) \in [Calls -> Call]
  BY EndsIs DEF WebInv, WebType, Tab
<1>1. Cleared BY <1>0, ClearTokensIs DEF Unauthorized, EndSession
<1>2. Epoch BY <1>0, <1>1, OutlivedIs, ClearedIsEpoch DEF Unauthorized
<1> QED BY <1>2, EpochKeeps

(* A request meets a 401: it begins a refresh, or waits for the one of this epoch. *)
LEMMA NeedsRefreshKeeps == ASSUME WebInv, NEW c \in Calls, NeedsRefresh(c) PROVE WebInv'
<1>0. /\ WebType /\ TokensAreReal /\ OneRefresh /\ InTab /\ InStep /\ SigningIsNew /\ ToComeIsNew /\ NoTokenIsUsedTwice
      /\ MaxSignIns \in Nat /\ begun \in 0 .. MaxSignIns /\ call \in [Calls -> Call] /\ tab \in Tab
  BY WebAssumption DEF WebInv, WebType, WebAssumption
<1>1. call' \in [Calls -> Call]
  <2> DEFINE waits == [call[c] EXCEPT !.st = "waiting"]
  <2>1. waits \in Call BY <1>0 DEF Call
  <2>2. call' = [call EXCEPT ![c] = waits] BY <1>0 DEF NeedsRefresh
  <2> HIDE DEF waits
  <2> QED BY <1>0, <2>1, <2>2
<1>2. CASE Shared
  <2>1. flight' = flight BY <1>2 DEF NeedsRefresh
  <2> QED BY <1>1, <2>1, CalmKeeps DEF NeedsRefresh
<1>3. CASE ~Shared
  <2> DEFINE n == [by |-> c, s |-> tab.refresh.s, gen |-> tab.refresh.gen, answer |-> "none", current |-> TRUE]
  <2>1. flight' = flight \union {n} BY <1>3 DEF NeedsRefresh
  <2>2. tab.refresh # None /\ tab.refresh.s \in 1 .. begun /\ tab.refresh.s \in Sessions /\ tab.refresh.gen \in Nat
    BY <1>0 DEF NeedsRefresh, TokensAreReal, OfSession, Tab, Reference, Sessions
  <2>3. /\ n \in Flight /\ n.s = tab.refresh.s /\ n.gen = tab.refresh.gen /\ n.current /\ n.answer = "none"
    BY <2>2 DEF Flight
  <2>4. UNCHANGED <<mode, begun, server, tab, stored, restore, signing, here, overrun, lost, twice>>
    BY DEF NeedsRefresh, webHistory
  <2> HIDE DEF n
  <2>5. \A f \in flight : ~f.current BY <1>3 DEF Shared
  <2>6. WebType' BY <1>0, <1>1, <2>1, <2>3, <2>4 DEF WebType
  <2>7. TokensAreReal' BY <1>0, <2>1, <2>2, <2>3, <2>4 DEF TokensAreReal, OfSession
  <2>8. OneRefresh' BY <1>0, <2>1, <2>3, <2>4, <2>5 DEF OneRefresh
  <2>9. InTab'
    <3>1. overrun \/ tab.refresh.s = here BY <1>0, <2>2 DEF InTab
    <3> QED BY <1>0, <2>1, <2>3, <2>4, <2>5, <3>1 DEF InTab
  <2>10. InStep'
    <3> SUFFICES ASSUME mode = "oidc", NEW s \in Sessions \ lost
                 PROVE  /\ \A f \in flight' : f.s = s /\ f.answer = "none" =>
                             /\ f.gen = server[s].gen
                             /\ \A h \in flight' : h.s = s /\ h.answer = "none" => h = f
                        /\ tab.refresh.s = s =>
                             /\ \A f \in flight' : f.s = s => f.current /\ (f.answer = "ok" => server[s].gen = f.gen + 1)
                             /\ (\A f \in flight' : f.s # s) => tab.refresh.gen = server[s].gen
      BY <2>4 DEF InStep
    <3>1. /\ \A f \in flight : f.s = s /\ f.answer = "none" =>
                             /\ f.gen = server[s].gen
                             /\ \A h \in flight : h.s = s /\ h.answer = "none" => h = f
          /\ tab.refresh.s = s =>
                             /\ \A f \in flight : f.s = s => f.current /\ (f.answer = "ok" => server[s].gen = f.gen + 1)
                             /\ (\A f \in flight : f.s # s) => tab.refresh.gen = server[s].gen
      BY <1>0 DEF InStep
    <3>2. CASE tab.refresh.s = s
      <4>1. \A f \in flight : f.s # s BY <2>5, <3>1, <3>2
      <4>2. n.gen = server[s].gen BY <2>3, <3>1, <3>2, <4>1
      <4> QED BY <2>1, <2>3, <3>2, <4>1, <4>2
    <3>3. CASE tab.refresh.s # s BY <2>1, <2>3, <3>1, <3>3
    <3> QED BY <3>2, <3>3
  <2>11. SigningIsNew' BY <1>0, <2>1, <2>3, <2>4 DEF SigningIsNew
  <2>12. ToComeIsNew' /\ NoTokenIsUsedTwice' BY <1>0, <2>4 DEF ToComeIsNew, NoTokenIsUsedTwice
  <2> QED BY <2>6, <2>7, <2>8, <2>9, <2>10, <2>11, <2>12 DEF WebInv
<1> QED BY <1>2, <1>3

(* A refresh reaches the server: a token that comes again is of a session whose answer was lost. *)
LEMMA RefreshServedKeeps == ASSUME WebInv, NEW f \in flight, RefreshServed(f) PROVE WebInv'
<1>0. /\ WebType /\ TokensAreReal /\ OneRefresh /\ InTab /\ InStep /\ SigningIsNew /\ ToComeIsNew /\ NoTokenIsUsedTwice
      /\ MaxSignIns \in Nat /\ begun \in 0 .. MaxSignIns /\ signing \in 0 .. begun /\ tab \in Tab
      /\ server \in [Sessions -> Row]
  BY WebAssumption DEF WebInv, WebType, WebAssumption
<1>1. f \in Flight /\ f.s \in 1 .. begun /\ f.s \in Sessions /\ f.gen \in Nat /\ f.answer = "none"
  BY <1>0 DEF WebType, TokensAreReal, Flight, RefreshServed
<1>2. server[f.s] \in Row /\ server[f.s].gen \in Nat /\ server[f.s].live \in BOOLEAN BY <1>0, <1>1 DEF Row
<1> DEFINE again == mode = "oidc" /\ f.gen < server[f.s].gen
           good == server[f.s].live /\ ~again
           word == IF good THEN "ok" ELSE "refused"
           g == [f EXCEPT !.answer = word]
           gen == IF good /\ mode = "oidc" THEN server[f.s].gen + 1 ELSE server[f.s].gen
           row == [live |-> server[f.s].live /\ ~again, gen |-> gen]
<1>3. /\ flight' = (flight \ {f}) \union {g} /\ server' = [server EXCEPT ![f.s] = row]
      /\ twice' = (IF again THEN twice \union {f.s} ELSE twice)
      /\ UNCHANGED <<mode, begun, tab, stored, call, restore, signing, here, overrun, lost>>
  BY DEF RefreshServed
<1>4. word \in {"ok", "refused"} /\ (word = "ok" <=> good) OBVIOUS
<1>5. gen \in Nat /\ (good /\ mode = "oidc" => gen = server[f.s].gen + 1) /\ (~good => gen = server[f.s].gen)
  BY <1>2
<1>6. again \in BOOLEAN /\ good \in BOOLEAN BY <1>2
<1>7. row \in Row /\ row.gen = gen
  <2>1. (server[f.s].live /\ ~again) \in BOOLEAN OBVIOUS
  <2> HIDE DEF gen, again
  <2> QED BY <1>5, <2>1 DEF Row
<1>8. mode = "oidc" /\ f.s \notin lost => f.gen = server[f.s].gen BY <1>0, <1>1 DEF InStep
<1>9. again => f.s \in lost BY <1>1, <1>2, <1>8
<1>10. mode = "oidc" /\ good /\ f.s \notin lost => gen = f.gen + 1 BY <1>5, <1>8
<1> HIDE DEF again, good, gen, row, word
<1>11. g \in Flight /\ g.s = f.s /\ g.gen = f.gen /\ g.answer = word /\ g.current = f.current /\ word # "none"
  BY <1>1, <1>4 DEF Flight
<1> HIDE DEF g
<1>12. server' \in [Sessions -> Row] /\ server'[f.s].gen = gen /\ \A s \in Sessions : s # f.s => server'[s] = server[s]
  BY <1>0, <1>1, <1>3, <1>7
<1>13. WebType' BY <1>0, <1>3, <1>11, <1>12 DEF WebType
<1>14. TokensAreReal' BY <1>0, <1>1, <1>3, <1>11 DEF TokensAreReal, OfSession
<1>15. OneRefresh' BY <1>0, <1>3, <1>11 DEF OneRefresh
<1>16. InTab' BY <1>0, <1>3, <1>11 DEF InTab
<1>17. InStep'
  <2> SUFFICES ASSUME mode = "oidc", NEW s \in Sessions \ lost
               PROVE  /\ \A e \in flight' : e.s = s /\ e.answer = "none" =>
                           /\ e.gen = server'[s].gen
                           /\ \A h \in flight' : h.s = s /\ h.answer = "none" => h = e
                      /\ tab.refresh.s = s =>
                           /\ \A e \in flight' : e.s = s => e.current /\ (e.answer = "ok" => server'[s].gen = e.gen + 1)
                           /\ (\A e \in flight' : e.s # s) => tab.refresh.gen = server'[s].gen
    BY <1>3 DEF InStep
  <2>1. /\ \A e \in flight : e.s = s /\ e.answer = "none" =>
                           /\ e.gen = server[s].gen
                           /\ \A h \in flight : h.s = s /\ h.answer = "none" => h = e
        /\ tab.refresh.s = s =>
                           /\ \A e \in flight : e.s = s => e.current /\ (e.answer = "ok" => server[s].gen = e.gen + 1)
                           /\ (\A e \in flight : e.s # s) => tab.refresh.gen = server[s].gen
    BY <1>0 DEF InStep
  <2>2. CASE s # f.s
    <3>1. server'[s] = server[s] BY <1>12, <2>2
    <3>2. \A e \in flight' : e.s = s => e \in flight BY <1>3, <1>11, <2>2
    <3>3. \A e \in flight : e.s = s => e \in flight' BY <1>3, <2>2
    <3> QED BY <2>1, <3>1, <3>2, <3>3
  <2>3. CASE s = f.s
    <3>1. \A e \in flight' : e.s = s => e.answer # "none" BY <1>1, <1>3, <1>11, <2>1, <2>3
    <3>2. tab.refresh.s = s => \A e \in flight' : e.s = s => e = g
      BY <1>0, <1>1, <1>3, <2>1, <2>3 DEF OneRefresh
    <3>3. tab.refresh.s = s => g.current BY <1>11, <2>1, <2>3
    <3>4. g.answer = "ok" => server'[s].gen = g.gen + 1 BY <1>4, <1>10, <1>11, <1>12, <2>3
    <3>5. g \in flight' /\ g.s = s BY <1>3, <1>11, <2>3
    <3> QED BY <3>1, <3>2, <3>3, <3>4, <3>5
  <2> QED BY <2>2, <2>3
<1>18. SigningIsNew'
  <2> SUFFICES ASSUME mode = "oidc", signing # 0
               PROVE  server'[signing].gen = 0 /\ tab.refresh.s # signing /\ \A e \in flight' : e.s # signing
    BY <1>3 DEF SigningIsNew
  <2>1. signing \in Sessions BY <1>0 DEF Sessions
  <2>2. server[signing].gen = 0 /\ tab.refresh.s # signing /\ \A e \in flight : e.s # signing
    BY <1>0 DEF SigningIsNew
  <2> QED BY <1>3, <1>11, <1>12, <2>1, <2>2
<1>19. ToComeIsNew' BY <1>0, <1>1, <1>3, <1>12 DEF ToComeIsNew, Sessions
<1>20. NoTokenIsUsedTwice' BY <1>0, <1>3, <1>9 DEF NoTokenIsUsedTwice
<1> QED BY <1>13, <1>14, <1>15, <1>16, <1>17, <1>18, <1>19, <1>20 DEF WebInv

(* A result of an old epoch is dropped. *)
LEMMA DroppedKeeps ==
  ASSUME WebInv, NEW f \in flight, ~f.current, flight' = flight \ {f},
         UNCHANGED <<mode, begun, server, tab, stored, call, restore, signing, webHistory>>
  PROVE  WebInv'
<1>0. /\ WebType /\ TokensAreReal /\ OneRefresh /\ InTab /\ InStep /\ SigningIsNew /\ ToComeIsNew /\ NoTokenIsUsedTwice
  BY DEF WebInv
<1>1. WebType' BY <1>0 DEF WebType, webHistory
<1>2. TokensAreReal' BY <1>0 DEF TokensAreReal, OfSession
<1>3. OneRefresh' BY <1>0 DEF OneRefresh
<1>4. InTab' BY <1>0 DEF InTab, webHistory
<1>5. InStep'
  <2> SUFFICES ASSUME mode = "oidc", NEW s \in Sessions \ lost
               PROVE  /\ \A e \in flight' : e.s = s /\ e.answer = "none" =>
                           /\ e.gen = server[s].gen
                           /\ \A h \in flight' : h.s = s /\ h.answer = "none" => h = e
                      /\ tab.refresh.s = s =>
                           /\ \A e \in flight' : e.s = s => e.current /\ (e.answer = "ok" => server[s].gen = e.gen + 1)
                           /\ (\A e \in flight' : e.s # s) => tab.refresh.gen = server[s].gen
    BY DEF InStep, webHistory
  <2>1. /\ \A e \in flight : e.s = s /\ e.answer = "none" =>
                           /\ e.gen = server[s].gen
                           /\ \A h \in flight : h.s = s /\ h.answer = "none" => h = e
        /\ tab.refresh.s = s =>
                           /\ \A e \in flight : e.s = s => e.current /\ (e.answer = "ok" => server[s].gen = e.gen + 1)
                           /\ (\A e \in flight : e.s # s) => tab.refresh.gen = server[s].gen
    BY <1>0 DEF InStep
  <2>2. tab.refresh.s = s => f.s # s BY <2>1
  <2> QED BY <2>1, <2>2
<1>6. SigningIsNew' BY <1>0 DEF SigningIsNew
<1>7. ToComeIsNew' /\ NoTokenIsUsedTwice' BY <1>0 DEF ToComeIsNew, NoTokenIsUsedTwice, webHistory
<1> QED BY <1>1, <1>2, <1>3, <1>4, <1>5, <1>6, <1>7 DEF WebInv

(* The result of the refresh of this epoch is taken. *)
LEMMA RefreshedKeeps == ASSUME WebInv, NEW f \in flight, Refreshed(f) PROVE WebInv'
<1>0. /\ WebType /\ TokensAreReal /\ OneRefresh /\ InTab /\ InStep /\ SigningIsNew /\ ToComeIsNew /\ NoTokenIsUsedTwice
      /\ MaxSignIns \in Nat /\ begun \in 0 .. MaxSignIns /\ call \in [Calls -> Call] /\ tab \in Tab /\ stored \in Reference
  BY WebAssumption DEF WebInv, WebType, WebAssumption
<1>1. CASE ~f.current BY <1>1, DroppedKeeps DEF Refreshed, Takes
<1>2. CASE f.current
  <2>1. f \in Flight /\ f.s \in 1 .. begun /\ f.s \in Sessions /\ f.gen \in Nat /\ f.answer = "ok"
    BY <1>0 DEF WebType, TokensAreReal, Flight, Refreshed
  <2> DEFINE n == IF mode = "oidc" THEN f.gen + 1 ELSE f.gen
             r == [s |-> f.s, gen |-> n]
  <2>2. /\ flight' = flight \ {f} /\ tab' = [tab EXCEPT !.access = f.s, !.refresh = r]
        /\ stored' = (IF stored = None THEN None ELSE r) /\ call' = Resumed(f)
        /\ UNCHANGED <<mode, begun, server, restore, signing, here, overrun, lost, twice>>
    BY <1>2 DEF Refreshed, Takes, Rotated, webHistory
  <2>3. n \in Nat /\ (mode = "oidc" => n = f.gen + 1) BY <2>1
  <2> HIDE DEF n
  <2>4. f.s \in 0 .. MaxSignIns /\ f.s \in 1 .. begun BY <2>1 DEF Sessions
  <2>5. r \in Reference /\ r.s = f.s /\ r.gen = n BY <2>3, <2>4 DEF Reference
  <2> HIDE DEF r
  <2>6. tab' \in Tab /\ tab'.access = f.s /\ tab'.refresh = r BY <1>0, <2>2, <2>4, <2>5 DEF Tab
  <2>7. call' \in [Calls -> Call]
    <3>1. ASSUME NEW c \in Calls PROVE call'[c] \in Call
      <4>1. call[c] \in Call BY <1>0
      <4>2. [call[c] EXCEPT !.st = "again", !.s = f.s] \in Call BY <2>4, <4>1 DEF Call
      <4>3. call'[c] \in {call[c], [call[c] EXCEPT !.st = "again", !.s = f.s]} BY Zenon, <2>2 DEF Resumed
      <4> QED BY <4>1, <4>2, <4>3
    <3>2. call' = [c \in Calls |-> call'[c]] BY Zenon, <2>2 DEF Resumed
    <3> QED BY <3>1, <3>2
  <2>8. stored' \in {stored, r} /\ stored' \in Reference BY <1>0, <2>2, <2>5
  <2>9. WebType' BY <1>0, <2>2, <2>6, <2>7, <2>8 DEF WebType
  <2>10. TokensAreReal' BY <1>0, <2>2, <2>4, <2>5, <2>6, <2>8 DEF TokensAreReal, OfSession
  <2>11. \A h \in flight' : ~h.current BY <1>0, <1>2, <2>2 DEF OneRefresh
  <2>12. OneRefresh' BY <2>11 DEF OneRefresh
  <2>13. InTab'
    <3>1. overrun \/ f.s = here BY <1>0, <1>2 DEF InTab
    <3>2. overrun \/ stored.s \in {0, here} BY <1>0 DEF InTab
    <3> QED BY <2>2, <2>5, <2>6, <2>8, <2>11, <3>1, <3>2 DEF InTab
  <2>14. f.s = tab.refresh.s BY <1>0, <1>2 DEF OneRefresh
  <2>15. InStep'
    <3> SUFFICES ASSUME mode = "oidc", NEW s \in Sessions \ lost
                 PROVE  /\ \A e \in flight' : e.s = s /\ e.answer = "none" =>
                             /\ e.gen = server[s].gen
                             /\ \A h \in flight' : h.s = s /\ h.answer = "none" => h = e
                        /\ r.s = s =>
                             /\ \A e \in flight' : e.s = s => e.current /\ (e.answer = "ok" => server[s].gen = e.gen + 1)
                             /\ (\A e \in flight' : e.s # s) => r.gen = server[s].gen
      BY <2>2, <2>6 DEF InStep
    <3>1. /\ \A e \in flight : e.s = s /\ e.answer = "none" =>
                             /\ e.gen = server[s].gen
                             /\ \A h \in flight : h.s = s /\ h.answer = "none" => h = e
          /\ tab.refresh.s = s =>
                             /\ \A e \in flight : e.s = s => e.current /\ (e.answer = "ok" => server[s].gen = e.gen + 1)
                             /\ (\A e \in flight : e.s # s) => tab.refresh.gen = server[s].gen
      BY <1>0 DEF InStep
    <3>2. r.s = s => \A e \in flight' : e.s # s BY <2>2, <2>5, <2>11, <2>14, <3>1
    <3>3. r.s = s => r.gen = server[s].gen BY <2>1, <2>3, <2>5, <2>14, <3>1
    <3> QED BY <2>2, <3>1, <3>2, <3>3
  <2>16. SigningIsNew' BY <1>0, <2>2, <2>5, <2>6 DEF SigningIsNew
  <2>17. ToComeIsNew' /\ NoTokenIsUsedTwice' BY <1>0, <2>2 DEF ToComeIsNew, NoTokenIsUsedTwice
  <2> QED BY <2>9, <2>10, <2>12, <2>13, <2>15, <2>16, <2>17 DEF WebInv
<1>3. f.current \in BOOLEAN BY <1>0 DEF WebType, Flight
<1> QED BY <1>1, <1>2, <1>3

LEMMA RefusedKeeps == ASSUME WebInv, NEW f \in flight, Refused(f) PROVE WebInv'
<1>0. /\ WebType /\ TokensAreReal /\ call \in [Calls -> Call] /\ server \in [Sessions -> Row]
      /\ tab.shown \in BOOLEAN /\ f \in Flight
  BY DEF WebInv, WebType, Tab
<1>1. CASE f.current
  <2>1. EndSession(call, flight \ {f}) /\ restore' = Outlived(restore) BY <1>1 DEF Refused, Takes
  <2>2. flight \ {f} \in SUBSET flight OBVIOUS
  <2>3. Cleared BY <1>0, <2>1, <2>2, ClearTokensIs DEF EndSession
  <2>4. Epoch BY <1>0, <2>1, <2>3, OutlivedIs, ClearedIsEpoch DEF Refused
  <2> QED BY <2>4, EpochKeeps
<1>2. CASE ~f.current
  <2>1. flight' = flight \ {f} /\ KeepsTokens /\ UNCHANGED <<call, restore, mode, begun, server, signing, lost, twice>>
    BY <1>2 DEF Refused, Takes
  <2>2. UNCHANGED <<mode, begun, server, tab, stored, call, restore, signing, webHistory>>
    BY <2>1 DEF KeepsTokens, webHistory
  <2> QED BY <1>2, <2>1, <2>2, DroppedKeeps
<1> QED BY <1>1, <1>2

(* The answer to a refresh is lost. *)
LEMMA RefreshLostKeeps == ASSUME WebInv, NEW f \in flight, RefreshLost(f) PROVE WebInv'
<1>0. /\ WebType /\ TokensAreReal /\ OneRefresh /\ InTab /\ InStep /\ SigningIsNew /\ ToComeIsNew /\ NoTokenIsUsedTwice
      /\ call \in [Calls -> Call] /\ f \in Flight
  BY DEF WebInv, WebType
<1> DEFINE g == [f EXCEPT !.current = FALSE]
<1>1. g \in Flight /\ g.s = f.s /\ ~g.current BY <1>0 DEF Flight
<1>2. flight' = (flight \ {f}) \union (IF f.answer = "none" THEN {g} ELSE {}) /\ lost' = lost \union {f.s}
  BY DEF RefreshLost
<1>3. UNCHANGED <<mode, begun, server, tab, stored, restore, signing, here, overrun, twice>> BY DEF RefreshLost
<1> HIDE DEF g
<1>4. call' \in [Calls -> Call]
  <2>1. NoCall \in Call BY WebAssumption DEF NoCall, Call, WebAssumption
  <2>2. \A c \in Calls : call'[c] \in {call[c], NoCall} BY Zenon DEF RefreshLost
  <2>3. call' = [c \in Calls |-> call'[c]] BY Zenon DEF RefreshLost
  <2> QED BY <1>0, <2>1, <2>2, <2>3
<1>5. \A h \in flight' : h \in flight \/ h = g BY <1>2
<1>6. WebType' BY <1>0, <1>1, <1>3, <1>4, <1>5 DEF WebType
<1>7. TokensAreReal' BY <1>0, <1>1, <1>3, <1>5 DEF TokensAreReal, OfSession
<1>8. OneRefresh' BY <1>0, <1>1, <1>3, <1>5 DEF OneRefresh
<1>9. InTab' BY <1>0, <1>1, <1>3, <1>5 DEF InTab
<1>10. InStep'
  <2> SUFFICES ASSUME mode = "oidc", NEW s \in Sessions \ lost'
               PROVE  /\ \A e \in flight' : e.s = s /\ e.answer = "none" =>
                           /\ e.gen = server[s].gen
                           /\ \A h \in flight' : h.s = s /\ h.answer = "none" => h = e
                      /\ tab.refresh.s = s =>
                           /\ \A e \in flight' : e.s = s => e.current /\ (e.answer = "ok" => server[s].gen = e.gen + 1)
                           /\ (\A e \in flight' : e.s # s) => tab.refresh.gen = server[s].gen
    BY <1>3 DEF InStep
  <2>1. s \in Sessions \ lost /\ s # f.s BY <1>2
  <2>2. \A e \in flight' : e.s = s => e \in flight BY <1>1, <1>5, <2>1
  <2>3. \A e \in flight : e.s = s => e \in flight' BY <1>2, <2>1
  <2>4. /\ \A e \in flight : e.s = s /\ e.answer = "none" =>
                           /\ e.gen = server[s].gen
                           /\ \A h \in flight : h.s = s /\ h.answer = "none" => h = e
        /\ tab.refresh.s = s =>
                           /\ \A e \in flight : e.s = s => e.current /\ (e.answer = "ok" => server[s].gen = e.gen + 1)
                           /\ (\A e \in flight : e.s # s) => tab.refresh.gen = server[s].gen
    BY <1>0, <2>1 DEF InStep
  <2> QED BY <2>2, <2>3, <2>4
<1>11. SigningIsNew' BY <1>0, <1>1, <1>3, <1>5 DEF SigningIsNew
<1>12. ToComeIsNew' /\ NoTokenIsUsedTwice' BY <1>0, <1>2, <1>3 DEF ToComeIsNew, NoTokenIsUsedTwice
<1> QED BY <1>6, <1>7, <1>8, <1>9, <1>10, <1>11, <1>12 DEF WebInv

LEMMA WebInitIs == WebInit => WebInv
<1> SUFFICES ASSUME WebInit PROVE WebInv OBVIOUS
<1>0. MaxSignIns \in Nat /\ 0 \in 0 .. MaxSignIns BY WebAssumption DEF WebAssumption
<1>1. None \in Reference /\ None.s = 0 BY <1>0 DEF None, Reference
<1>2. Blank \in Tab /\ Blank.access = 0 /\ Blank.refresh = None BY <1>0, <1>1 DEF Blank, Tab
<1>3. NoCall \in Call BY <1>0 DEF NoCall, Call
<1>4. NoRestore \in [st : {"no", "sent"}, current : BOOLEAN, token : Reference] /\ NoRestore.token = None
  BY <1>1 DEF NoRestore
<1>5. server \in [Sessions -> Row] /\ \A s \in Sessions : server[s].gen = 0
  <2> DEFINE row == [live |-> FALSE, gen |-> 0]
  <2>1. row \in Row /\ row.gen = 0 BY DEF Row
  <2>2. server = [s \in Sessions |-> row] BY DEF WebInit
  <2> HIDE DEF row
  <2> QED BY <2>1, <2>2
<1>6. WebType
  <2>1. mode \in {"password", "oidc"} /\ begun \in 0 .. MaxSignIns /\ signing \in 0 .. begun BY <1>0 DEF WebInit
  <2>2. tab \in Tab /\ stored \in Reference /\ flight \subseteq Flight /\ overrun \in BOOLEAN BY <1>1, <1>2 DEF WebInit
  <2>3. call \in [Calls -> Call] BY <1>3 DEF WebInit
  <2>4. restore \in [st : {"no", "sent"}, current : BOOLEAN, token : Reference] BY <1>4 DEF WebInit
  <2> QED BY <1>5, <2>1, <2>2, <2>3, <2>4 DEF WebType
<1>7. TokensAreReal BY <1>2, <1>4 DEF WebInit, TokensAreReal, OfSession
<1>8. OneRefresh /\ SigningIsNew /\ NoTokenIsUsedTwice BY DEF WebInit, OneRefresh, SigningIsNew, NoTokenIsUsedTwice
<1>9. InTab BY <1>1, <1>2 DEF WebInit, InTab
<1>10. InStep BY <1>1, <1>2, <1>5 DEF WebInit, InStep, Sessions
<1>11. ToComeIsNew BY <1>5 DEF ToComeIsNew
<1> QED BY <1>6, <1>7, <1>8, <1>9, <1>10, <1>11 DEF WebInv

LEMMA WebStepKeeps == WebInv /\ [WebStep]_web => WebInv'
<1> SUFFICES ASSUME WebInv, [WebStep]_web PROVE WebInv' OBVIOUS
<1>1. CASE UNCHANGED web
  <2>1. UNCHANGED <<mode, begun, server, tab, stored, call, flight, restore, signing, webHistory>>
    BY <1>1 DEF web
  <2>2. call' \in [Calls -> Call] BY <2>1 DEF WebInv, WebType
  <2> QED BY <2>1, <2>2, CalmKeeps
<1>2. CASE \/ Reload \/ SignIn \/ SignInDone \/ LogOut \/ Leave \/ NotRestored
  BY <1>2, ReloadKeeps, SignInKeeps, SignInDoneKeeps, LogOutKeeps, LeaveKeeps, NotRestoredKeeps
<1>3. CASE SignInFails
  <2>1. call' \in [Calls -> Call] BY <1>3 DEF WebInv, WebType, SignInFails
  <2> QED BY <1>3, <2>1, CalmKeeps DEF SignInFails
<1>4. CASE RestoreUnavailable
  <2>1. call' \in [Calls -> Call] BY <1>4 DEF WebInv, WebType, RestoreUnavailable
  <2> QED BY <1>4, <2>1, CalmKeeps DEF RestoreUnavailable
<1>5. CASE \E s \in Sessions : SessionEnds(s) BY <1>5, SessionEndsKeeps
<1>6. ASSUME NEW c \in Calls, Restored(c) \/ Request(c) \/ Answered(c) \/ Fails(c) \/ Unauthorized(c) \/ NeedsRefresh(c)
      PROVE  WebInv'
  BY <1>6, RestoredKeeps, RequestKeeps, AnsweredKeeps, FailsKeeps, UnauthorizedKeeps, NeedsRefreshKeeps
<1>7. ASSUME NEW f \in flight, RefreshServed(f) \/ Refreshed(f) \/ Refused(f) \/ RefreshLost(f) PROVE WebInv'
  BY <1>7, RefreshServedKeeps, RefreshedKeeps, RefusedKeeps, RefreshLostKeeps
<1> QED BY <1>1, <1>2, <1>3, <1>4, <1>5, <1>6, <1>7 DEF WebStep

(* The tab in step with the server: the inductive invariant. *)
THEOREM TabIsInStep == WebSpec => []WebInv
BY WebInitIs, WebStepKeeps, PTL DEF WebSpec

(* The tokens in memory and in sessionStorage are those of the one session the tab is in, whatever was under way when it
   began or ended: the result of a refresh of an earlier epoch is dropped. *)
THEOREM TabHoldsOneSession == WebSpec => []OneSessionInTab
<1>1. WebInv => OneSessionInTab BY DEF WebInv, InTab, OneSessionInTab
<1> QED BY <1>1, TabIsInStep, PTL

(* The page presents a refresh token again only when the answer to its refresh was lost. *)
THEOREM TokensArePresentedOnce == WebSpec => []NoTokenIsUsedTwice
<1>1. WebInv => NoTokenIsUsedTwice BY DEF WebInv
<1> QED BY <1>1, TabIsInStep, PTL
=============================================================================
