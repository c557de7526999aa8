-------------------------- MODULE Accounts_proofs --------------------------
(* Theorems about Accounts, for any sets of accounts, sessions, roles, permissions and requests. *)
EXTENDS Accounts, FiniteSetTheorems, TLAPS

-----------------------------------------------------------------------------
(* Types *)

Status == {"none", "pending", "active", "suspended", "deleted"}
Account == [status : Status, verified : BOOLEAN, role : Roles, pass : Nat, mail : Nat, link : Nat,
            reset : BOOLEAN, code : Nat, tries : Nat]
Session == [of : Accounts \union {NoOne}, live : BOOLEAN, pass : Nat, role : Roles]
Token == [of : Accounts \union {NoOne}, ok : BOOLEAN, sid : Sids \union {0}]
Account2 == [status : {"none", "pending", "active", "suspended"}, role : Roles, perms : SUBSET Perms,
             ended : SUBSET Sids, gone : BOOLEAN]

HistoryType ==
  /\ late \subseteq Sids
  /\ stale \in [Accounts -> SUBSET Columns]
  /\ proven \in [Accounts -> SUBSET Nat]
  /\ spent \in Seq(Nat)

(* What a request that is under way has read. *)
RowRead(r) == r.of \in Accounts /\ r.row.status \in Status /\ r.row.role \in Roles /\ r.row.pass \in Nat /\ r.row.mail \in Nat

RequestType(r) ==
  /\ r.op \in {"idle", "patch", "register", "verify", "resend", "status", "role", "login", "refresh", "logout",
               "reset", "change", "wrong", "clear"}
  /\ r.op = "patch" => r.arg \in 1 .. MaxUses
  /\ r.op \notin {"idle", "patch"} => RowRead(r)
  /\ r.op = "verify" => r.arg \in Nat
  /\ r.op = "status" => r.arg \in {"active", "suspended"}
  /\ r.op = "role" => r.arg \in Roles
  /\ r.op = "refresh" => r.arg \in Tokens
  /\ r.op = "logout" => r.arg.token \in Tokens /\ r.arg.sid \in Sids \union {0}
  /\ r.op \in {"change", "wrong", "clear"} => r.arg \in Nat \ {0}

RequestsType == DOMAIN req = Requests /\ \A q \in Requests : RequestType(req[q])

LEMMA TypeIs ==
  TypeOK <=>
    /\ key \in [status : {"active", "suspended", "revoked"}, max : 1 .. MaxUses, used : 0 .. MaxUses]
    /\ acct \in [Accounts -> Account]
    /\ grants \in [Accounts -> SUBSET Perms]
    /\ sess \in [Sids -> Session]
    /\ token \in [Tokens -> Token]
    /\ told \in [Accounts -> Account2]
    /\ writes \in 0 .. MaxWrites
BY DEF TypeOK, Account, Session, Token, Account2, Status

(* What a request keeps of what it read. *)
Kept(op, a, arg) == [op |-> op, of |-> a, arg |-> arg, row |-> [c \in Columns |-> acct[a][c]]]

LEMMA RowReadIs ==
  ASSUME TypeOK, NEW a \in Accounts, NEW op, NEW arg
  PROVE  LET r == Kept(op, a, arg) IN
         /\ RowRead(r) /\ r.op = op /\ r.arg = arg /\ r.of = a
         /\ r.row.mail = acct[a].mail /\ r.row.role = acct[a].role
         /\ r.row.pass = acct[a].pass /\ r.row.status = acct[a].status
<1>1. acct[a] \in Account BY TypeIs
<1> DEFINE row == [c \in Columns |-> acct[a][c]]
<1>2. row["mail"] = acct[a]["mail"] /\ row["role"] = acct[a]["role"] /\ row["pass"] = acct[a]["pass"]
      /\ row["status"] = acct[a]["status"]
  BY DEF Columns
<1>3. row.mail = acct[a].mail /\ row.role = acct[a].role /\ row.pass = acct[a].pass /\ row.status = acct[a].status
  BY <1>2
<1> QED BY <1>1, <1>3 DEF RowRead, Account, Kept

-----------------------------------------------------------------------------
(* The inductive invariant *)

(* What a request has read is still true enough: of the link that it wants to use, of the owner of its token and of
   its session. *)
RequestKnows(r) ==
  /\ r.op = "verify" => r.arg = r.row.mail \/ r.row.mail \in proven[r.of] \/ "mail" \in stale[r.of]
  /\ r.op = "refresh" => token[r.arg].of = r.of
  /\ r.op = "logout" /\ r.arg.sid # 0 => sess[r.arg.sid].of = r.of

RequestsOK == RequestsType /\ \A q \in Requests : RequestKnows(req[q])

(* A token and its session have one owner, and who has a session of a name has the token of that name or none. *)
OwnersAgree ==
  /\ \A t \in Tokens : token[t].sid # 0 => token[t].of # NoOne /\ sess[token[t].sid].of = token[t].of
  /\ \A s \in Sids : sess[s].of = NoOne => token[s].of = NoOne /\ ~sess[s].live

(* A code that stands was never used, and is of one account. *)
CodesStand ==
  /\ \A a \in Accounts : acct[a].code # 0 => acct[a].code \in 1 .. Len(spent) /\ spent[acct[a].code] = 0
  /\ \A a, b \in Accounts : acct[a].code # 0 /\ acct[a].code = acct[b].code => a = b

NewAccounts ==
  /\ \A a \in Accounts : acct[a].status = "none" => a \notin Members /\ ~acct[a].verified /\ acct[a].mail = 1
  /\ IsFiniteSet({a \in Accounts \ Members : acct[a].status # "none"})

(* A link that stands proves the address the account has. *)
LinksProve ==
  \A a \in Accounts : acct[a].link # 0 =>
    acct[a].link = acct[a].mail \/ acct[a].mail \in proven[a] \/ "mail" \in stale[a]

Typed == TypeOK /\ HistoryType /\ RequestsOK /\ OwnersAgree

-----------------------------------------------------------------------------
(* What the steps do to the rows of requests, tokens and sessions *)

LEMMA ReadIs ==
  ASSUME Typed, LinksProve, NEW q \in Requests, Read(q)
  PROVE  /\ UNCHANGED <<key, acct, grants, sess, token, told, writes, history>>
         /\ RequestsOK'
<1> USE DEF RequestType
<1>0. ASSUME NEW op, NEW a \in Accounts, NEW arg, Reads(q, op, a, arg),
             RequestType(Kept(op, a, arg)) /\ RequestKnows(Kept(op, a, arg))
      PROVE  /\ UNCHANGED <<key, acct, grants, sess, token, told, writes, history>>
             /\ RequestsOK'
  <2> DEFINE r == Kept(op, a, arg)
  <2>1. req' = [req EXCEPT ![q] = r] BY <1>0 DEF Reads, Kept
  <2>2. UNCHANGED <<key, acct, grants, sess, token, told, writes, history>> BY <1>0 DEF Reads
  <2>3. RequestType(r) /\ RequestKnows(r) BY <1>0
  <2> HIDE DEF r
  <2>4. DOMAIN req' = Requests /\ \A p \in Requests : req'[p] = IF p = q THEN r ELSE req[p]
    BY <2>1 DEF Typed, RequestsOK, RequestsType
  <2>5. RequestsType' BY <2>3, <2>4 DEF Typed, RequestsOK, RequestsType
  <2>6. ASSUME NEW p \in Requests PROVE RequestKnows(req[p])'
    <3>1. RequestKnows(req'[p]) BY <2>3, <2>4 DEF Typed, RequestsOK
    <3> QED BY <2>2, <3>1 DEF RequestKnows, history
  <2> QED BY <2>2, <2>5, <2>6 DEF RequestsOK
<1>1. ASSUME NEW a \in Accounts,
             \/ ReadForRegister(q, a) \/ ReadForResend(q, a) \/ Authenticate(q, a) \/ ReadReset(q, a)
             \/ CheckCode(q, a) \/ ReadLink(q, a)
             \/ \E st \in {"active", "suspended"} : ReadForStatus(q, a, st)
             \/ \E r \in Roles : ReadForRole(q, a, r)
      PROVE  \E op, arg : /\ Reads(q, op, a, arg)
                          /\ RequestType(Kept(op, a, arg)) /\ RequestKnows(Kept(op, a, arg))
  <2>0. acct[a] \in Account /\ key.used \in Nat BY TypeIs DEF Typed
  <2>1. CASE ReadForRegister(q, a)
    BY <2>0, <2>1, RowReadIs DEF ReadForRegister, RequestKnows, Typed
  <2>2. CASE ReadForResend(q, a)
    BY <2>2, RowReadIs DEF ReadForResend, RequestKnows, Typed
  <2>3. CASE Authenticate(q, a)
    BY <2>3, RowReadIs DEF Authenticate, RequestKnows, Typed
  <2>4. CASE ReadReset(q, a)
    BY <2>4, RowReadIs DEF ReadReset, RequestKnows, Typed
  <2>5. CASE CheckCode(q, a)
    BY <2>0, <2>5, RowReadIs DEF CheckCode, RequestKnows, Typed, Account
  <2>6. CASE ReadLink(q, a)
    BY <2>0, <2>6, RowReadIs DEF ReadLink, RequestKnows, Typed, Account, LinksProve
  <2>7. CASE \E st \in {"active", "suspended"} : ReadForStatus(q, a, st)
    BY <2>7, RowReadIs DEF ReadForStatus, RequestKnows, Typed
  <2>8. CASE \E r \in Roles : ReadForRole(q, a, r)
    BY <2>8, RowReadIs DEF ReadForRole, RequestKnows, Typed
  <2> QED BY <1>1, <2>1, <2>2, <2>3, <2>4, <2>5, <2>6, <2>7, <2>8
<1>2. ASSUME NEW t \in Tokens, (token[t].of # NoOne /\ ReadToken(q, t)) \/ ReadForLogout(q, t)
      PROVE  \E op, arg : \E a \in Accounts :
               /\ Reads(q, op, a, arg)
               /\ RequestType(Kept(op, a, arg)) /\ RequestKnows(Kept(op, a, arg))
  <2>0. token[t] \in Token BY TypeIs DEF Typed
  <2>1. token[t].of \in Accounts BY <1>2, <2>0 DEF Token, ReadForLogout
  <2>2. CASE ReadToken(q, t)
    BY <2>1, <2>2, RowReadIs DEF ReadToken, RequestKnows, Typed
  <2>3. CASE ReadForLogout(q, t)
    <3> DEFINE arg == [token |-> t, sid |-> token[t].sid]
               r == Kept("logout", token[t].of, arg)
    <3>1. /\ arg.token = t /\ arg.sid \in Sids \union {0}
          /\ arg.sid # 0 => sess[arg.sid].of = token[t].of
      BY <2>0 DEF Token, Typed, OwnersAgree
    <3>2. Reads(q, "logout", token[t].of, arg) BY <2>3 DEF ReadForLogout
    <3> HIDE DEF arg
    <3>3. RowRead(r) /\ r.op = "logout" /\ r.arg = arg /\ r.of = token[t].of BY <2>1, RowReadIs DEF Typed
    <3> HIDE DEF r
    <3>4. RequestType(r) /\ RequestKnows(r) BY <3>1, <3>3 DEF RequestKnows
    <3> QED BY Zenon, <2>1, <3>2, <3>4 DEF r
  <2> QED BY <1>2, <2>2, <2>3
<1>3. ASSUME NEW max \in 1 .. MaxUses, ReadKey(q, max)
      PROVE  /\ UNCHANGED <<key, acct, grants, sess, token, told, writes, history>>
             /\ RequestsOK'
  <2> DEFINE r == [op |-> "patch", arg |-> max]
  <2>1. /\ req' = [req EXCEPT ![q] = r]
        /\ UNCHANGED <<key, acct, grants, sess, token, told, writes, history>>
    BY <1>3 DEF ReadKey
  <2>3. RequestType(r) /\ r.op = "patch" OBVIOUS
  <2> HIDE DEF r
  <2>4. DOMAIN req' = Requests /\ \A p \in Requests : req'[p] = IF p = q THEN r ELSE req[p]
    BY <2>1 DEF Typed, RequestsOK, RequestsType
  <2>5. RequestsType' BY <2>3, <2>4 DEF Typed, RequestsOK, RequestsType
  <2>6. ASSUME NEW p \in Requests PROVE RequestKnows(req[p])'
    <3>1. RequestKnows(req'[p])
      <4>1. RequestKnows(r) BY <2>3 DEF RequestKnows
      <4> QED BY <2>4, <4>1 DEF Typed, RequestsOK
    <3> QED BY <2>1, <3>1 DEF RequestKnows, history
  <2> QED BY <2>1, <2>5, <2>6 DEF RequestsOK
<1> QED BY <1>0, <1>1, <1>2, <1>3 DEF Read

(* A request ends, or goes on to clear the code: the others know what they knew. *)
LEMMA RequestsKept ==
  ASSUME Typed,
         \/ req' = req
         \/ \E q \in Requests : req' = [req EXCEPT ![q] = Idle]
         \/ \E q \in Requests : req[q].op = "wrong" /\ req' = [req EXCEPT ![q].op = "clear"],
         \A a \in Accounts : proven[a] \subseteq proven'[a] /\ stale[a] \subseteq stale'[a],
         \A t \in Tokens : token[t].of # NoOne => token'[t].of = token[t].of,
         \A s \in Sids : sess[s].of # NoOne => sess'[s].of = sess[s].of
  PROVE  RequestsOK'
<1>1. ASSUME NEW r, RequestType(r), RequestKnows(r) PROVE RequestKnows(r)'
  <2>1. r.op \notin {"idle", "patch"} => r.of \in Accounts BY <1>1 DEF RequestType, RowRead
  <2>2. NoOne \notin Accounts BY AccountsAssumption DEF AccountsAssumption
  <2>3. r.op = "refresh" => r.arg \in Tokens BY <1>1 DEF RequestType
  <2>4. r.op = "logout" => r.arg.sid \in Sids \union {0} BY <1>1 DEF RequestType
  <2> QED BY <1>1, <2>1, <2>2, <2>3, <2>4 DEF RequestKnows
<1>2. \A q \in Requests : RequestType(req[q]) /\ RequestKnows(req[q]) BY DEF Typed, RequestsOK, RequestsType
<1>3. RequestType(Idle) /\ RequestKnows(Idle)' BY DEF Idle, RequestType, RequestKnows
<1>4. DOMAIN req = Requests BY DEF Typed, RequestsOK, RequestsType
<1>5. CASE req' = req BY <1>1, <1>2, <1>4, <1>5 DEF RequestsOK, RequestsType
<1>6. ASSUME NEW q \in Requests, req' = [req EXCEPT ![q] = Idle] PROVE RequestsOK'
  <2>1. DOMAIN req' = Requests /\ \A p \in Requests : req'[p] = IF p = q THEN Idle ELSE req[p] BY <1>4, <1>6
  <2> QED BY <1>1, <1>2, <1>3, <2>1 DEF RequestsOK, RequestsType
<1>7. ASSUME NEW q \in Requests, req[q].op = "wrong", req' = [req EXCEPT ![q].op = "clear"] PROVE RequestsOK'
  <2>0. PICK r : r = [req[q] EXCEPT !.op = "clear"] OBVIOUS
  <2>1. DOMAIN req' = Requests /\ \A p \in Requests : req'[p] = IF p = q THEN r ELSE req[p] BY <1>4, <1>7, <2>0
  <2>2. RequestType(req[q]) BY <1>2
  <2>3. r.op = "clear" /\ r.of = req[q].of /\ r.arg = req[q].arg /\ r.row = req[q].row
    BY <2>0
  <2>4. RequestType(r) /\ RequestKnows(r)' BY <1>7, <2>2, <2>3 DEF RequestType, RowRead, RequestKnows
  <2> QED BY <1>1, <1>2, <2>1, <2>4 DEF RequestsOK, RequestsType
<1> QED BY <1>5, <1>6, <1>7

LEMMA EndAllIs ==
  ASSUME Typed, NEW a \in Accounts, EndAll(a)
  PROVE  /\ sess' \in [Sids -> Session]
         /\ \A s \in Sids : /\ sess'[s].of = sess[s].of /\ sess'[s].pass = sess[s].pass /\ sess'[s].role = sess[s].role
                            /\ sess'[s].live = (sess[s].live /\ sess[s].of # a)
<1>1. ASSUME NEW s \in Sids
      PROVE  /\ sess'[s] \in Session
             /\ sess'[s].of = sess[s].of /\ sess'[s].pass = sess[s].pass /\ sess'[s].role = sess[s].role
             /\ sess'[s].live = (sess[s].live /\ sess[s].of # a)
  <2>1. sess[s] \in Session BY TypeIs DEF Typed
  <2>2. CASE sess[s].of = a
    <3>1. sess'[s] = [sess[s] EXCEPT !.live = FALSE] BY <2>2 DEF EndAll
    <3> QED BY <2>1, <2>2, <3>1 DEF Session
  <2>3. CASE sess[s].of # a
    <3>1. sess'[s] = sess[s] BY <2>3 DEF EndAll
    <3> QED BY <2>1, <2>3, <3>1 DEF Session
  <2> QED BY <2>2, <2>3
<1> QED BY <1>1 DEF EndAll

LEMMA RevokeAllIs ==
  ASSUME Typed, NEW a \in Accounts, RevokeAll(a)
  PROVE  /\ token' \in [Tokens -> Token]
         /\ \A t \in Tokens : token'[t].of = token[t].of /\ token'[t].sid = token[t].sid
<1>1. ASSUME NEW t \in Tokens PROVE token'[t] \in Token /\ token'[t].of = token[t].of /\ token'[t].sid = token[t].sid
  <2>1. token[t] \in Token BY TypeIs DEF Typed
  <2>2. CASE token[t].of = a
    <3>1. token'[t] = [token[t] EXCEPT !.ok = FALSE] BY <2>2 DEF RevokeAll
    <3> QED BY <2>1, <3>1 DEF Token
  <2>3. CASE token[t].of # a
    <3>1. token'[t] = token[t] BY <2>3 DEF RevokeAll
    <3> QED BY <2>1, <3>1
  <2> QED BY <2>2, <2>3
<1> QED BY <1>1 DEF RevokeAll

(* Sessions and tokens keep their owners in every step but those that open a session. *)
LEMMA OwnersKept ==
  ASSUME Typed,
         sess' = sess \/ \E a \in Accounts : EndAll(a),
         token' = token \/ \E a \in Accounts : RevokeAll(a)
  PROVE  /\ sess' \in [Sids -> Session] /\ token' \in [Tokens -> Token]
         /\ \A s \in Sids : sess'[s].of = sess[s].of /\ sess'[s].pass = sess[s].pass /\ sess'[s].role = sess[s].role
                            /\ (sess'[s].live => sess[s].live)
         /\ \A t \in Tokens : token'[t].of = token[t].of /\ token'[t].sid = token[t].sid
         /\ OwnersAgree'
<1>1. /\ sess' \in [Sids -> Session]
      /\ \A s \in Sids : sess'[s].of = sess[s].of /\ sess'[s].pass = sess[s].pass /\ sess'[s].role = sess[s].role
                         /\ (sess'[s].live => sess[s].live)
  <2>1. CASE sess' = sess BY <2>1, TypeIs DEF Typed
  <2>2. CASE \E a \in Accounts : EndAll(a) BY <2>2, EndAllIs
  <2> QED BY <2>1, <2>2
<1>2. /\ token' \in [Tokens -> Token]
      /\ \A t \in Tokens : token'[t].of = token[t].of /\ token'[t].sid = token[t].sid
  <2>1. CASE token' = token BY <2>1, TypeIs DEF Typed
  <2>2. CASE \E a \in Accounts : RevokeAll(a) BY <2>2, RevokeAllIs
  <2> QED BY <2>1, <2>2
<1>3. \A t \in Tokens : token[t].sid \in Sids \union {0} BY TypeIs DEF Typed, Token
<1>4. Sids \subseteq Tokens BY DEF Tokens
<1>5. OwnersAgree' BY <1>1, <1>2, <1>3, <1>4 DEF OwnersAgree, Typed
<1> QED BY <1>1, <1>2, <1>5

(* A session is opened, for the account of the request, with what the request has read; an old token may get it. *)
LEMMA OpensIs ==
  ASSUME Typed, NEW q \in Requests, Login(q) \/ Refresh(q)
  PROVE  /\ UNCHANGED <<key, acct, grants, told, stale, proven, spent>> /\ writes' \in 0 .. MaxWrites
         /\ req' = [req EXCEPT ![q] = Idle]
         /\ sess' \in [Sids -> Session] /\ token' \in [Tokens -> Token]
         /\ late \subseteq late' /\ late' \subseteq Sids
         /\ \A s \in Sids : sess[s].of # NoOne => sess'[s] = sess[s]
         /\ \A t \in Tokens : token[t].of # NoOne => token'[t].of = token[t].of
         /\ OwnersAgree'
         /\ \E s \in Sids :
              /\ \A r \in Sids \ {s} : sess'[r] = sess[r]
              /\ req[q].of \in Accounts /\ Exists(req[q].of)
              /\ sess'[s] = [of |-> req[q].of, live |-> TRUE, pass |-> req[q].row.pass, role |-> req[q].row.role]
              /\ sess'[s].of = req[q].of /\ sess'[s].live
              /\ sess'[s].pass = req[q].row.pass /\ sess'[s].role = req[q].row.role
              /\ s \in late' \/ (~Changed(q, "pass") /\ ~Changed(q, "role") /\ acct[req[q].of].status # "suspended")
<1> DEFINE a == req[q].of
           row == req[q].row
           new == [of |-> a, live |-> TRUE, pass |-> row.pass, role |-> row.role]
<1>0. PICK s \in Sids :
        /\ OpensSession(q, s) /\ writes < MaxWrites /\ Written(q)
        /\ UNCHANGED <<key, acct, grants, told, stale, proven, spent>>
        /\ \/ req[q].op = "login" /\ token' = [token EXCEPT ![s] = [of |-> req[q].of, ok |-> TRUE, sid |-> s]]
           \/ req[q].op = "refresh" /\ token' = [token EXCEPT ![req[q].arg].sid = s]
  BY DEF Login, Refresh, Commits
<1>1. RequestType(req[q]) /\ RequestKnows(req[q]) BY DEF Typed, RequestsOK, RequestsType
<1>2. a \in Accounts /\ row.pass \in Nat /\ row.role \in Roles
  BY <1>0, <1>1 DEF RequestType, RowRead
<1>3. /\ sess' = [sess EXCEPT ![s] = new] /\ sess[s].of = NoOne /\ Exists(a)
      /\ late' = IF Changed(q, "pass") \/ Changed(q, "role") \/ acct[a].status = "suspended" THEN late \union {s} ELSE late
  BY <1>0 DEF OpensSession, FreeSids
<1>4. new \in Session BY <1>2 DEF Session
<1>5. new.of = a /\ new.live /\ new.pass = row.pass /\ new.role = row.role OBVIOUS
<1> HIDE DEF new
<1>6. /\ sess' \in [Sids -> Session] /\ sess'[s] = new
      /\ \A r \in Sids \ {s} : sess'[r] = sess[r]
  BY <1>3, <1>4, TypeIs DEF Typed
<1>7. writes' \in 0 .. MaxWrites
  BY <1>0, TypeIs, AccountsAssumption DEF Typed, Written, AccountsAssumption
<1>8. \A t \in Tokens : token[t] \in Token BY TypeIs DEF Typed
<1>9. s \in Tokens /\ token[s].of = NoOne /\ NoOne \notin Accounts /\ s # 0
  BY <1>3, AccountsAssumption DEF Tokens, Typed, OwnersAgree, AccountsAssumption
<1>10. PICK t \in Tokens : /\ token[t].of \in {NoOne, a} /\ (t \in Sids => t = s \/ token[t].of = a)
                           /\ token'[t] \in Token /\ token'[t].of = a /\ token'[t].sid = s
                           /\ token' \in [Tokens -> Token]
                           /\ \A u \in Tokens \ {t} : token'[u] = token[u]
  <2>1. CASE req[q].op = "login" /\ token' = [token EXCEPT ![s] = [of |-> req[q].of, ok |-> TRUE, sid |-> s]]
    <3>1. [of |-> req[q].of, ok |-> TRUE, sid |-> s] \in Token BY <1>2 DEF Token
    <3>2. token' \in [Tokens -> Token] BY <2>1, <3>1, TypeIs DEF Typed
    <3> QED BY <1>9, <2>1, <3>1, <3>2, TypeIs DEF Typed, Token
  <2>2. CASE req[q].op = "refresh" /\ token' = [token EXCEPT ![req[q].arg].sid = s]
    <3> DEFINE t == req[q].arg
    <3>1. t \in Tokens /\ token[t].of = a BY <1>1, <2>2 DEF RequestType, RequestKnows
    <3>2. token'[t] = [token[t] EXCEPT !.sid = s] BY <2>2, <3>1, TypeIs DEF Typed
    <3>3. token'[t] \in Token /\ token'[t].of = a /\ token'[t].sid = s BY <1>8, <3>1, <3>2 DEF Token
    <3>4. \A u \in Tokens \ {t} : token'[u] = token[u] BY <2>2, TypeIs DEF Typed
    <3>5. token' \in [Tokens -> Token] BY <1>8, <2>2, <3>3, <3>4, TypeIs DEF Typed
    <3> QED BY <3>1, <3>3, <3>4, <3>5
  <2> QED BY <1>0, <2>1, <2>2
<1>11. \A u \in Tokens : token[u].of # NoOne => token'[u].of = token[u].of
  <2>1. \A u \in Tokens \ {t} : token'[u] = token[u] BY <1>10
  <2>2. token[t].of \in {NoOne, a} /\ token'[t].of = a BY <1>10
  <2> QED BY <2>1, <2>2
<1>12. OwnersAgree'
  <2>1. ASSUME NEW u \in Tokens, token'[u].sid # 0
        PROVE  token'[u].of # NoOne /\ sess'[token'[u].sid].of = token'[u].of
    <3>1. CASE u = t BY <1>2, <1>5, <1>6, <1>9, <1>10, <3>1
    <3>2. CASE u # t
      <4>1. token'[u] = token[u] BY <1>10, <3>2
      <4>2. token[u].sid \in Sids BY <1>8, <2>1, <4>1 DEF Token
      <4>3. token[u].of # NoOne /\ sess[token[u].sid].of = token[u].of BY <2>1, <4>1 DEF Typed, OwnersAgree
      <4>4. token[u].sid # s BY <1>3, <4>3
      <4> QED BY <1>6, <4>1, <4>2, <4>3, <4>4
    <3> QED BY <3>1, <3>2
  <2>2. ASSUME NEW r \in Sids, sess'[r].of = NoOne PROVE token'[r].of = NoOne /\ ~sess'[r].live
    <3>1. r # s BY <1>2, <1>5, <1>6, <1>9, <2>2
    <3>2. sess'[r] = sess[r] BY <1>6, <3>1
    <3>3. token[r].of = NoOne /\ ~sess[r].live BY <2>2, <3>2 DEF Typed, OwnersAgree
    <3>4. r # t BY <1>2, <1>9, <1>10, <3>1, <3>3
    <3> QED BY <1>10, <3>2, <3>3, <3>4 DEF Tokens
  <2> QED BY <2>1, <2>2 DEF OwnersAgree
<1>13. late \subseteq late' /\ late' \subseteq Sids BY <1>3 DEF Typed, HistoryType
<1>14. s \in late' \/ (~Changed(q, "pass") /\ ~Changed(q, "role") /\ acct[a].status # "suspended") BY <1>3
<1>15. req' = [req EXCEPT ![q] = Idle] BY <1>0 DEF Written
<1>16. \A r \in Sids : sess[r].of # NoOne => sess'[r] = sess[r] BY <1>3, <1>6
<1> HIDE DEF a, row
<1>17. /\ sess'[s] = [of |-> a, live |-> TRUE, pass |-> row.pass, role |-> row.role]
       /\ sess'[s].of = a /\ sess'[s].live /\ sess'[s].pass = row.pass /\ sess'[s].role = row.role
  BY <1>5, <1>6 DEF new
<1>18. a \in Accounts /\ Exists(a) BY <1>2, <1>3
<1>19. a = req[q].of /\ row = req[q].row BY DEF a, row
<1> QED BY <1>0, <1>6, <1>7, <1>10, <1>11, <1>12, <1>13, <1>14, <1>15, <1>16, <1>17, <1>18, <1>19

LEMMA LogoutIs ==
  ASSUME Typed, NEW q \in Requests, Logout(q)
  PROVE  /\ UNCHANGED <<key, acct, grants, history>> /\ writes' \in 0 .. MaxWrites
         /\ req' = [req EXCEPT ![q] = Idle]
         /\ sess' \in [Sids -> Session] /\ token' \in [Tokens -> Token] /\ told' \in [Accounts -> Account2]
         /\ \A s \in Sids : sess'[s].of = sess[s].of /\ sess'[s].pass = sess[s].pass /\ sess'[s].role = sess[s].role
                            /\ (sess'[s].live => sess[s].live)
                            /\ (sess[s].live /\ ~sess'[s].live => s \in told'[sess[s].of].ended)
         /\ \A a \in Accounts : /\ told'[a].status = told[a].status /\ told'[a].role = told[a].role
                                /\ told'[a].perms = told[a].perms /\ told'[a].gone = told[a].gone
                                /\ told[a].ended \subseteq told'[a].ended
         /\ \A t \in Tokens : token'[t].of = token[t].of /\ token'[t].sid = token[t].sid
         /\ OwnersAgree'
<1> DEFINE a == req[q].of
           t == req[q].arg.token
           s == req[q].arg.sid
<1>0. /\ req[q].op = "logout" /\ writes < MaxWrites /\ Written(q) /\ UNCHANGED <<key, acct, grants, history>>
      /\ token' = [token EXCEPT ![t].ok = FALSE]
      /\ sess' = IF s = 0 THEN sess ELSE [sess EXCEPT ![s].live = FALSE]
      /\ told' = IF s = 0 THEN told ELSE [told EXCEPT ![a].ended = @ \union {s}]
  BY DEF Logout, Commits
<1>1. RequestType(req[q]) /\ RequestKnows(req[q]) BY DEF Typed, RequestsOK, RequestsType
<1>2. a \in Accounts /\ t \in Tokens /\ s \in Sids \union {0} /\ (s # 0 => sess[s].of = a)
  BY <1>0, <1>1 DEF RequestType, RowRead, RequestKnows
<1> HIDE DEF a, t, s
<1>3. writes' \in 0 .. MaxWrites /\ req' = [req EXCEPT ![q] = Idle]
  BY <1>0, TypeIs, AccountsAssumption DEF Typed, Written, AccountsAssumption
<1>4. token' \in [Tokens -> Token] /\ \A u \in Tokens : token'[u].of = token[u].of /\ token'[u].sid = token[u].sid
  <2>1. token[t] \in Token /\ token \in [Tokens -> Token] BY <1>2, TypeIs DEF Typed
  <2>2. token'[t] = [token[t] EXCEPT !.ok = FALSE] BY <1>0, <1>2, <2>1
  <2>3. token'[t] \in Token /\ token'[t].of = token[t].of /\ token'[t].sid = token[t].sid BY <2>1, <2>2 DEF Token
  <2>4. \A u \in Tokens \ {t} : token'[u] = token[u] BY <1>0, <2>1
  <2> QED BY <1>0, <2>1, <2>3, <2>4
<1>5. /\ sess' \in [Sids -> Session] /\ told' \in [Accounts -> Account2]
      /\ \A r \in Sids : sess'[r].of = sess[r].of /\ sess'[r].pass = sess[r].pass /\ sess'[r].role = sess[r].role
                         /\ (sess'[r].live => sess[r].live)
                         /\ (sess[r].live /\ ~sess'[r].live => r \in told'[sess[r].of].ended)
      /\ \A b \in Accounts : /\ told'[b].status = told[b].status /\ told'[b].role = told[b].role
                             /\ told'[b].perms = told[b].perms /\ told'[b].gone = told[b].gone
                             /\ told[b].ended \subseteq told'[b].ended
  <2>0. sess \in [Sids -> Session] /\ told \in [Accounts -> Account2] BY TypeIs DEF Typed
  <2>1. CASE s = 0 BY <1>0, <2>0, <2>1
  <2>2. CASE s # 0
    <3>1. s \in Sids /\ sess[s].of = a /\ sess[s] \in Session BY <1>2, <2>0, <2>2
    <3>2. sess'[s] = [sess[s] EXCEPT !.live = FALSE] BY <1>0, <2>0, <2>2, <3>1
    <3>3. /\ sess'[s] \in Session /\ sess'[s].of = sess[s].of /\ sess'[s].pass = sess[s].pass
          /\ sess'[s].role = sess[s].role /\ ~sess'[s].live
      BY <3>1, <3>2 DEF Session
    <3>4. \A r \in Sids \ {s} : sess'[r] = sess[r] BY <1>0, <2>0, <2>2
    <3>5. told[a] \in Account2 BY <1>2, <2>0
    <3>6. told'[a] = [told[a] EXCEPT !.ended = told[a].ended \union {s}] BY <1>0, <1>2, <2>0, <2>2
    <3>7. /\ told'[a] \in Account2 /\ told'[a].status = told[a].status /\ told'[a].role = told[a].role
          /\ told'[a].perms = told[a].perms /\ told'[a].gone = told[a].gone
          /\ told'[a].ended = told[a].ended \union {s}
      BY <3>1, <3>5, <3>6 DEF Account2
    <3>8. \A b \in Accounts \ {a} : told'[b] = told[b] BY <1>0, <2>0, <2>2
    <3>9. sess' \in [Sids -> Session] BY <1>0, <2>0, <2>2, <3>3, <3>4
    <3>10. told' \in [Accounts -> Account2] BY <1>0, <2>0, <2>2, <3>7, <3>8
    <3> QED BY <3>1, <3>3, <3>4, <3>7, <3>8, <3>9, <3>10
  <2> QED BY <2>1, <2>2
<1>6. OwnersAgree'
  <2>1. \A u \in Tokens : token[u].sid \in Sids \union {0} BY TypeIs DEF Typed, Token
  <2> QED BY <1>4, <1>5, <2>1 DEF OwnersAgree, Typed, Tokens
<1> QED BY <1>0, <1>3, <1>4, <1>5, <1>6

-----------------------------------------------------------------------------
(* What the steps do to the rows of accounts, and what the outbox says of it *)

LEMMA CommitIs ==
  ASSUME Typed, writes < MaxWrites, writes' = writes + 1
  PROVE  writes' \in 0 .. MaxWrites
BY TypeIs, AccountsAssumption DEF Typed, AccountsAssumption

LEMMA RowIs ==
  ASSUME Typed, NEW a \in Accounts, NEW r \in Account, acct' = [acct EXCEPT ![a] = r]
  PROVE  acct' \in [Accounts -> Account] /\ acct'[a] = r /\ \A b \in Accounts \ {a} : acct'[b] = acct[b]
BY TypeIs DEF Typed

LEMMA ToldIs ==
  ASSUME Typed, NEW a \in Accounts, NEW r \in Account2, told' = [told EXCEPT ![a] = r]
  PROVE  told' \in [Accounts -> Account2] /\ told'[a] = r /\ \A b \in Accounts \ {a} : told'[b] = told[b]
BY TypeIs DEF Typed

(* Who has read something wants something of an account that may be there. *)
LEMMA RequestOf ==
  ASSUME Typed, NEW q \in Requests, req[q].op \notin {"idle", "patch"}
  PROVE  req[q].of \in Accounts /\ RowRead(req[q]) /\ RequestType(req[q]) /\ RequestKnows(req[q])
BY DEF Typed, RequestsOK, RequestsType, RequestType, RowRead

Registers(q, a) ==
  /\ KeyUsable /\ key' = Consumed /\ key' \in [status : {"active", "suspended", "revoked"}, max : 1 .. MaxUses, used : 0 .. MaxUses]
  /\ key'.used = key.used + 1 /\ key'.max = key.max
  /\ acct[a].status = "none" /\ acct' \in [Accounts -> Account]
  /\ acct'[a].status = "pending" /\ acct'[a].role = KeyRole /\ acct'[a].link = 1
  /\ acct'[a].mail = acct[a].mail /\ acct'[a].verified = acct[a].verified /\ acct'[a].code = acct[a].code
  /\ acct'[a].pass = acct[a].pass
  /\ \A b \in Accounts \ {a} : acct'[b] = acct[b] /\ told'[b] = told[b] /\ grants'[b] = grants[b]
  /\ grants' \in [Accounts -> SUBSET Perms] /\ grants'[a] = KeyPerms
  /\ told' \in [Accounts -> Account2]
  /\ told'[a].status = "pending" /\ told'[a].role = KeyRole /\ told'[a].perms = KeyPerms
  /\ told'[a].gone = told[a].gone /\ told'[a].ended = told[a].ended
  /\ UNCHANGED <<sess, token, history>> /\ req' = [req EXCEPT ![q] = Idle] /\ writes' \in 0 .. MaxWrites

LEMMA RegisterIs ==
  ASSUME Typed, NEW q \in Requests, Register(q)
  PROVE  \E a \in Accounts : Registers(q, a)
<1> DEFINE a == req[q].of
           row == [acct[a] EXCEPT !.status = "pending", !.role = KeyRole, !.link = 1]
           said == [told[a] EXCEPT !.status = "pending", !.role = KeyRole, !.perms = KeyPerms]
<1>1. a \in Accounts BY RequestOf DEF Register, Commits
<1> HIDE DEF a
<1>2. /\ KeyUsable /\ key' = Consumed /\ acct[a].status = "none" /\ acct' = [acct EXCEPT ![a] = row]
      /\ grants' = [grants EXCEPT ![a] = KeyPerms] /\ told' = [told EXCEPT ![a] = said]
      /\ req' = [req EXCEPT ![q] = Idle] /\ writes < MaxWrites /\ writes' = writes + 1 /\ UNCHANGED <<sess, token, history>>
  BY TypeIs DEF Register, Commits, Written, Registered, Typed, a
<1>3. acct[a] \in Account /\ told[a] \in Account2 /\ KeyRole \in Roles /\ KeyPerms \in SUBSET Perms
  BY <1>1, TypeIs, AccountsAssumption DEF Typed, AccountsAssumption
<1>4. /\ row \in Account /\ row.status = "pending" /\ row.role = KeyRole /\ row.link = 1 /\ row.mail = acct[a].mail
      /\ row.verified = acct[a].verified /\ row.code = acct[a].code /\ row.pass = acct[a].pass
  BY <1>3 DEF Account, Status
<1>5. /\ said \in Account2 /\ said.status = "pending" /\ said.role = KeyRole /\ said.perms = KeyPerms
      /\ said.gone = told[a].gone /\ said.ended = told[a].ended
  BY <1>3 DEF Account2
<1> HIDE DEF row, said
<1>6. acct' \in [Accounts -> Account] /\ acct'[a] = row /\ \A b \in Accounts \ {a} : acct'[b] = acct[b]
  BY <1>1, <1>2, <1>4, RowIs
<1>7. told' \in [Accounts -> Account2] /\ told'[a] = said /\ \A b \in Accounts \ {a} : told'[b] = told[b]
  <2>1. told' = [told EXCEPT ![a] = said] BY <1>2
  <2> QED BY <1>1, <1>5, <2>1, ToldIs
<1>8. grants' \in [Accounts -> SUBSET Perms] /\ grants'[a] = KeyPerms /\ \A b \in Accounts \ {a} : grants'[b] = grants[b]
  BY <1>1, <1>2, <1>3, TypeIs DEF Typed
<1>9. /\ key' \in [status : {"active", "suspended", "revoked"}, max : 1 .. MaxUses, used : 0 .. MaxUses]
      /\ key'.used = key.used + 1 /\ key'.max = key.max
  BY <1>2, TypeIs, AccountsAssumption DEF Typed, Consumed, KeyUsable, AccountsAssumption
<1>10. writes' \in 0 .. MaxWrites BY <1>2, CommitIs
<1>11. Registers(q, a) BY <1>1, <1>2, <1>4, <1>5, <1>6, <1>7, <1>8, <1>9, <1>10 DEF Registers
<1> QED BY <1>1, <1>11

Proves(q, a) ==
  /\ a = req[q].of /\ req[q].op = "verify"
  /\ acct' \in [Accounts -> Account] /\ told' \in [Accounts -> Account2]
  /\ \A b \in Accounts \ {a} : /\ acct'[b] = acct[b] /\ told'[b] = told[b]
                               /\ proven'[b] = proven[b] /\ stale'[b] = stale[b]
  /\ acct'[a].status = IF acct[a].status = "pending" THEN "active" ELSE acct[a].status
  /\ acct'[a].mail = acct[a].mail /\ acct'[a].role = acct[a].role /\ acct'[a].code = acct[a].code
  /\ acct'[a].pass = acct[a].pass
  /\ IF Exists(a) THEN acct'[a].link = 0 ELSE acct'[a] = acct[a]
  /\ told'[a].status = IF req[q].row.status = "pending" THEN "active" ELSE told[a].status
  /\ told'[a].role = told[a].role /\ told'[a].perms = told[a].perms
  /\ told'[a].gone = told[a].gone /\ told'[a].ended = told[a].ended
  /\ proven' \in [Accounts -> SUBSET Nat] /\ proven'[a] = proven[a] \union {req[q].arg}
  /\ stale' \in [Accounts -> SUBSET Columns] /\ stale[a] \subseteq stale'[a]
  /\ Changed(q, "status") => "status" \in stale'[a]
  /\ Changed(q, "mail") => "mail" \in stale'[a]
  /\ UNCHANGED <<key, grants, sess, token, late, spent>>
  /\ req' = [req EXCEPT ![q] = Idle] /\ writes' \in 0 .. MaxWrites

LEMMA VerifyIs ==
  ASSUME Typed, NEW q \in Requests, Verify(q)
  PROVE  \E a \in Accounts : Proves(q, a)
<1> DEFINE a == req[q].of
           row == [acct[a] EXCEPT !.verified = TRUE, !.link = 0,
                                  !.status = IF acct[a].status = "pending" THEN "active" ELSE acct[a].status]
           new == {c \in {"status", "mail"} : Changed(q, c)}
<1>0. a \in Accounts /\ req[q].op = "verify" /\ req[q].arg \in Nat
  BY RequestOf DEF Verify, Commits, RequestType
<1> HIDE DEF a
<1>1. /\ acct' = IF Exists(a) THEN [acct EXCEPT ![a] = row] ELSE acct
      /\ told' = [told EXCEPT ![a] = SaidOnProof(q)]
      /\ proven' = [proven EXCEPT ![a] = proven[a] \union {req[q].arg}]
      /\ stale' = [stale EXCEPT ![a] = stale[a] \union new]
      /\ req' = [req EXCEPT ![q] = Idle] /\ writes < MaxWrites /\ writes' = writes + 1
      /\ UNCHANGED <<key, grants, sess, token, late, spent>>
  BY <1>0, TypeIs DEF Verify, Commits, Written, Typed, HistoryType, a
<1>2. acct[a] \in Account /\ told[a] \in Account2 /\ acct \in [Accounts -> Account] BY <1>0, TypeIs DEF Typed
<1>3. /\ row \in Account /\ row.status = (IF acct[a].status = "pending" THEN "active" ELSE acct[a].status)
      /\ row.mail = acct[a].mail /\ row.role = acct[a].role /\ row.code = acct[a].code /\ row.pass = acct[a].pass
      /\ row.link = 0
  BY <1>2 DEF Account, Status
<1>4. /\ SaidOnProof(q) \in Account2
      /\ SaidOnProof(q).status = IF req[q].row.status = "pending" THEN "active" ELSE told[a].status
      /\ SaidOnProof(q).role = told[a].role /\ SaidOnProof(q).perms = told[a].perms
      /\ SaidOnProof(q).gone = told[a].gone /\ SaidOnProof(q).ended = told[a].ended
  BY <1>2 DEF SaidOnProof, Account2, a
<1> HIDE DEF row
<1>5. /\ acct' \in [Accounts -> Account] /\ \A b \in Accounts \ {a} : acct'[b] = acct[b]
      /\ acct'[a].status = IF acct[a].status = "pending" THEN "active" ELSE acct[a].status
      /\ acct'[a].mail = acct[a].mail /\ acct'[a].role = acct[a].role /\ acct'[a].code = acct[a].code
      /\ acct'[a].pass = acct[a].pass
      /\ IF Exists(a) THEN acct'[a].link = 0 ELSE acct'[a] = acct[a]
  <2>1. CASE Exists(a) BY <1>0, <1>1, <1>3, <2>1, RowIs
  <2>2. CASE ~Exists(a) BY <1>1, <1>2, <2>2 DEF Exists
  <2> QED BY <2>1, <2>2
<1>6. /\ told' \in [Accounts -> Account2] /\ told'[a] = SaidOnProof(q)
      /\ \A b \in Accounts \ {a} : told'[b] = told[b]
  BY <1>0, <1>1, <1>4, ToldIs
<1>7. new \subseteq Columns /\ (Changed(q, "status") => "status" \in new) /\ (Changed(q, "mail") => "mail" \in new)
  BY DEF Columns
<1> HIDE DEF new
<1>8. /\ proven' \in [Accounts -> SUBSET Nat] /\ proven'[a] = proven[a] \union {req[q].arg}
      /\ stale' \in [Accounts -> SUBSET Columns] /\ stale'[a] = stale[a] \union new
      /\ \A b \in Accounts \ {a} : proven'[b] = proven[b] /\ stale'[b] = stale[b]
  BY <1>0, <1>1, <1>7 DEF Typed, HistoryType
<1>9. writes' \in 0 .. MaxWrites BY <1>1, CommitIs
<1>10. a = req[q].of BY DEF a
<1>11. /\ told'[a].status = IF req[q].row.status = "pending" THEN "active" ELSE told[a].status
       /\ told'[a].role = told[a].role /\ told'[a].perms = told[a].perms
       /\ told'[a].gone = told[a].gone /\ told'[a].ended = told[a].ended
  BY <1>4, <1>6
<1>12. \A b \in Accounts \ {a} : acct'[b] = acct[b] /\ told'[b] = told[b] /\ proven'[b] = proven[b] /\ stale'[b] = stale[b]
  BY <1>5, <1>6, <1>8
<1>13. stale[a] \subseteq stale'[a] BY <1>8
<1>14. Changed(q, "status") => "status" \in stale'[a] BY <1>7, <1>8
<1>15. Changed(q, "mail") => "mail" \in stale'[a] BY <1>7, <1>8
<1>16. UNCHANGED <<key, grants, sess, token, late, spent>> /\ req' = [req EXCEPT ![q] = Idle] BY <1>1
<1>17. Proves(q, a) BY <1>0, <1>5, <1>6, <1>8, <1>9, <1>10, <1>11, <1>12, <1>13, <1>14, <1>15, <1>16 DEF Proves
<1> QED BY <1>0, <1>17

(* The steps that change the address, the link or the code of one account, and nothing of its standing. *)
RowStep ==
  \/ \E q \in Requests : Resend(q) \/ CountWrong(q) \/ ClearCode(q)
  \/ \E a \in Accounts : UpdateProfile(a) \/ UpdateMail(a) \/ ForgotPassword(a) \/ SendChangeCode(a)

SameCode(a) == acct'[a].code = acct[a].code /\ spent' = spent
SameMail(a) == /\ acct'[a].mail = acct[a].mail /\ acct'[a].link = acct[a].link /\ acct'[a].verified = acct[a].verified
               /\ proven' = proven

Rewrites(a) ==
  /\ UNCHANGED <<key, grants, sess, token, told, late>> /\ writes' \in 0 .. MaxWrites
  /\ \/ req' = req
     \/ \E q \in Requests : req' = [req EXCEPT ![q] = Idle]
     \/ \E q \in Requests : req[q].op = "wrong" /\ req' = [req EXCEPT ![q].op = "clear"]
  /\ acct' \in [Accounts -> Account]
  /\ \A b \in Accounts \ {a} : acct'[b] = acct[b] /\ proven'[b] = proven[b] /\ stale'[b] = stale[b]
  /\ acct'[a].status = acct[a].status /\ acct'[a].role = acct[a].role /\ acct'[a].pass = acct[a].pass
  /\ proven' \in [Accounts -> SUBSET Nat] /\ proven[a] \subseteq proven'[a]
  /\ stale' \in [Accounts -> SUBSET Columns] /\ stale[a] \subseteq stale'[a]
  /\ acct[a].status = "none" => SameMail(a)
  /\ \/ SameCode(a)
     \/ acct'[a].code = 0 /\ spent' = spent
     \/ acct'[a].code = Len(spent) + 1 /\ spent' = Append(spent, 0)
  /\ \/ SameMail(a)
     \/ /\ acct'[a].mail = acct[a].mail /\ acct'[a].verified = acct[a].verified /\ proven' = proven
        /\ acct'[a].link = acct'[a].mail \/ "mail" \in stale'[a]
     \/ acct'[a].mail = acct[a].mail + 1 /\ acct'[a].link = acct'[a].mail /\ ~acct'[a].verified
     \/ acct'[a].mail = acct[a].mail + 1 /\ acct'[a].mail \in proven'[a]

LEMMA RowStepIs ==
  ASSUME Typed, RowStep
  PROVE  \E a \in Accounts : Rewrites(a)
<1>0. /\ proven \in [Accounts -> SUBSET Nat] /\ stale \in [Accounts -> SUBSET Columns] /\ spent \in Seq(Nat)
      /\ \A b \in Accounts : acct[b] \in Account
      /\ acct \in [Accounts -> Account]
  BY TypeIs DEF Typed, HistoryType
(* It is enough to say what becomes of the row, and of what is kept for the properties. *)
<1>1. ASSUME NEW q \in Requests, Resend(q)
      PROVE  \E a \in Accounts :
               /\ acct[a].status = "none" => acct' = acct
               /\ \/ acct' = acct
                  \/ acct' = [acct EXCEPT ![a] = [acct[a] EXCEPT !.link = req[q].row.mail]]
               /\ req[q].row.mail \in Nat
               /\ stale' = [stale EXCEPT ![a] = stale[a] \union {c \in {"mail"} : Changed(q, c)}]
               /\ Changed(q, "mail") \/ acct[a].mail = req[q].row.mail
               /\ req' = [req EXCEPT ![q] = Idle] /\ writes < MaxWrites /\ writes' = writes + 1
               /\ UNCHANGED <<key, grants, sess, token, told, late, proven, spent>>
  <2>1. req[q].of \in Accounts /\ RowRead(req[q]) BY <1>1, RequestOf DEF Resend, Commits
  <2> QED BY <1>0, <1>1, <2>1 DEF Resend, Commits, Written, RowRead, Changed, Exists
<1>2. ASSUME NEW q \in Requests, CountWrong(q) \/ ClearCode(q)
      PROVE  \E a \in Accounts :
               /\ acct[a].status # "none"
               /\ \/ acct' = [acct EXCEPT ![a] = [acct[a] EXCEPT !.tries = acct[a].tries + 1]]
                  \/ acct' = [acct EXCEPT ![a] = [acct[a] EXCEPT !.code = 0, !.tries = 0]]
               /\ writes < MaxWrites /\ writes' = writes + 1
               /\ \/ req' = [req EXCEPT ![q] = Idle]
                  \/ req[q].op = "wrong" /\ req' = [req EXCEPT ![q].op = "clear"]
               /\ UNCHANGED <<key, grants, sess, token, told, history>>
  <2>1. req[q].of \in Accounts BY <1>2, RequestOf DEF CountWrong, ClearCode, Commits
  <2>2. CASE CountWrong(q) BY <1>0, <2>1, <2>2 DEF CountWrong, Commits, Exists
  <2>3. CASE ClearCode(q) BY <1>0, <2>1, <2>3 DEF ClearCode, Commits, Written, Exists
  <2> QED BY <1>2, <2>2, <2>3
<1>3. ASSUME NEW a \in Accounts, UpdateProfile(a) \/ UpdateMail(a) \/ ForgotPassword(a) \/ SendChangeCode(a)
      PROVE  /\ acct[a].status # "none"
             /\ writes < MaxWrites /\ writes' = writes + 1 /\ UNCHANGED <<key, grants, sess, token, req, told, late, stale>>
             /\ \/ /\ acct' = [acct EXCEPT ![a] = [acct[a] EXCEPT !.mail = acct[a].mail + 1, !.link = acct[a].mail + 1,
                                                                  !.verified = FALSE]]
                   /\ UNCHANGED <<proven, spent>>
                \/ /\ acct' = [acct EXCEPT ![a] = [acct[a] EXCEPT !.mail = acct[a].mail + 1]]
                   /\ proven' = [proven EXCEPT ![a] = proven[a] \union {acct[a].mail + 1}] /\ UNCHANGED spent
                \/ acct' = [acct EXCEPT ![a] = [acct[a] EXCEPT !.reset = TRUE]] /\ UNCHANGED <<proven, spent>>
                \/ /\ acct' = [acct EXCEPT ![a] = [acct[a] EXCEPT !.code = Len(spent) + 1, !.tries = 0]]
                   /\ spent' = Append(spent, 0) /\ UNCHANGED proven
  <2>1. CASE UpdateProfile(a) BY <1>0, <2>1 DEF UpdateProfile, NewMail, SignedIn, history
  <2>2. CASE UpdateMail(a) BY <1>0, <2>2 DEF UpdateMail, Exists
  <2>3. CASE ForgotPassword(a) BY <1>0, <2>3 DEF ForgotPassword, history
  <2>4. CASE SendChangeCode(a) BY <1>0, <2>4 DEF SendChangeCode, SignedIn
  <2> QED BY <1>3, <2>1, <2>2, <2>3, <2>4
(* Each of these new rows is one. *)
<1>4. ASSUME NEW a \in Accounts, NEW n \in Nat
      PROVE  LET r == [acct[a] EXCEPT !.link = n] IN
             /\ r \in Account /\ r.status = acct[a].status /\ r.role = acct[a].role /\ r.pass = acct[a].pass
             /\ r.code = acct[a].code /\ r.mail = acct[a].mail /\ r.verified = acct[a].verified /\ r.link = n
  BY <1>0 DEF Account
<1>5. ASSUME NEW a \in Accounts, NEW n \in Nat
      PROVE  LET r == [acct[a] EXCEPT !.tries = n]
                 u == [acct[a] EXCEPT !.reset = TRUE] IN
             /\ r \in Account /\ r.status = acct[a].status /\ r.role = acct[a].role /\ r.pass = acct[a].pass
             /\ r.code = acct[a].code /\ r.mail = acct[a].mail /\ r.verified = acct[a].verified /\ r.link = acct[a].link
             /\ u \in Account /\ u.status = acct[a].status /\ u.role = acct[a].role /\ u.pass = acct[a].pass
             /\ u.code = acct[a].code /\ u.mail = acct[a].mail /\ u.verified = acct[a].verified /\ u.link = acct[a].link
  BY <1>0 DEF Account
<1>6. ASSUME NEW a \in Accounts, NEW n \in Nat
      PROVE  LET r == [acct[a] EXCEPT !.code = n, !.tries = 0] IN
             /\ r \in Account /\ r.status = acct[a].status /\ r.role = acct[a].role /\ r.pass = acct[a].pass
             /\ r.code = n /\ r.mail = acct[a].mail /\ r.verified = acct[a].verified /\ r.link = acct[a].link
  BY <1>0 DEF Account
<1>7. ASSUME NEW a \in Accounts, NEW n \in Nat
      PROVE  LET r == [acct[a] EXCEPT !.mail = n, !.link = n, !.verified = FALSE]
                 u == [acct[a] EXCEPT !.mail = n] IN
             /\ r \in Account /\ r.status = acct[a].status /\ r.role = acct[a].role /\ r.pass = acct[a].pass
             /\ r.code = acct[a].code /\ r.mail = n /\ ~r.verified /\ r.link = n
             /\ u \in Account /\ u.status = acct[a].status /\ u.role = acct[a].role /\ u.pass = acct[a].pass
             /\ u.code = acct[a].code /\ u.mail = n
  BY <1>0 DEF Account
<1>8. CASE \E q \in Requests : Resend(q)
  <2> PICK q \in Requests : Resend(q) BY <1>8
  <2> PICK a \in Accounts :
               /\ acct[a].status = "none" => acct' = acct
               /\ \/ acct' = acct
                  \/ acct' = [acct EXCEPT ![a] = [acct[a] EXCEPT !.link = req[q].row.mail]]
               /\ req[q].row.mail \in Nat
               /\ stale' = [stale EXCEPT ![a] = stale[a] \union {c \in {"mail"} : Changed(q, c)}]
               /\ Changed(q, "mail") \/ acct[a].mail = req[q].row.mail
               /\ req' = [req EXCEPT ![q] = Idle] /\ writes < MaxWrites /\ writes' = writes + 1
               /\ UNCHANGED <<key, grants, sess, token, told, late, proven, spent>>
    BY <1>1
  <2>1. writes' \in 0 .. MaxWrites BY CommitIs
  <2>2. /\ stale' \in [Accounts -> SUBSET Columns] /\ stale[a] \subseteq stale'[a]
        /\ \A b \in Accounts \ {a} : stale'[b] = stale[b]
        /\ Changed(q, "mail") => "mail" \in stale'[a]
    BY <1>0 DEF Columns
  <2>3. CASE acct' = acct BY <1>0, <2>1, <2>2, <2>3 DEF SameMail, SameCode, Rewrites
  <2>4. CASE acct # acct' /\ acct' = [acct EXCEPT ![a] = [acct[a] EXCEPT !.link = req[q].row.mail]]
    <3> DEFINE r == [acct[a] EXCEPT !.link = req[q].row.mail]
    <3>1. /\ r \in Account /\ r.status = acct[a].status /\ r.role = acct[a].role /\ r.pass = acct[a].pass
          /\ r.code = acct[a].code /\ r.mail = acct[a].mail /\ r.verified = acct[a].verified /\ r.link = req[q].row.mail
      BY <1>4
    <3>2. acct' = [acct EXCEPT ![a] = r] BY <2>4
    <3> HIDE DEF r
    <3>3. acct' \in [Accounts -> Account] /\ acct'[a] = r /\ \A b \in Accounts \ {a} : acct'[b] = acct[b]
      BY <3>1, <3>2, RowIs
    <3>4. acct[a].status # "none" BY <2>4
    <3> QED BY <1>0, <2>1, <2>2, <3>1, <3>3, <3>4 DEF SameCode, Rewrites
  <2> QED BY <2>3, <2>4
<1>9. CASE \E q \in Requests : CountWrong(q) \/ ClearCode(q)
  <2> PICK q \in Requests : CountWrong(q) \/ ClearCode(q) BY <1>9
  <2> PICK a \in Accounts :
               /\ acct[a].status # "none"
               /\ \/ acct' = [acct EXCEPT ![a] = [acct[a] EXCEPT !.tries = acct[a].tries + 1]]
                  \/ acct' = [acct EXCEPT ![a] = [acct[a] EXCEPT !.code = 0, !.tries = 0]]
               /\ writes < MaxWrites /\ writes' = writes + 1
               /\ \/ req' = [req EXCEPT ![q] = Idle]
                  \/ req[q].op = "wrong" /\ req' = [req EXCEPT ![q].op = "clear"]
               /\ UNCHANGED <<key, grants, sess, token, told, history>>
    BY <1>2
  <2>1. PICK r \in Account :
          /\ acct' = [acct EXCEPT ![a] = r]
          /\ r.status = acct[a].status /\ r.role = acct[a].role /\ r.pass = acct[a].pass
          /\ r.mail = acct[a].mail /\ r.verified = acct[a].verified /\ r.link = acct[a].link
          /\ r.code \in {0, acct[a].code}
    <3>1. CASE acct' = [acct EXCEPT ![a] = [acct[a] EXCEPT !.tries = acct[a].tries + 1]]
      <4>1. acct[a].tries + 1 \in Nat BY <1>0 DEF Account
      <4> QED BY <1>5, <3>1, <4>1
    <3>2. CASE acct' = [acct EXCEPT ![a] = [acct[a] EXCEPT !.code = 0, !.tries = 0]]
      <4> DEFINE r == [acct[a] EXCEPT !.code = 0, !.tries = 0]
      <4>1. /\ r \in Account /\ r.status = acct[a].status /\ r.role = acct[a].role /\ r.pass = acct[a].pass
            /\ r.code = 0 /\ r.mail = acct[a].mail /\ r.verified = acct[a].verified /\ r.link = acct[a].link
        BY <1>6
      <4>2. acct' = [acct EXCEPT ![a] = r] BY <3>2
      <4> HIDE DEF r
      <4> QED BY <4>1, <4>2
    <3> QED BY <3>1, <3>2
  <2>2. acct' \in [Accounts -> Account] /\ acct'[a] = r /\ \A b \in Accounts \ {a} : acct'[b] = acct[b]
    BY <2>1, RowIs
  <2>3. writes' \in 0 .. MaxWrites BY CommitIs
  <2>4. Rewrites(a) BY <1>0, <2>1, <2>2, <2>3 DEF SameMail, SameCode, history, Rewrites
  <2> QED BY <2>4
<1>10. CASE \E a \in Accounts : UpdateProfile(a) \/ UpdateMail(a) \/ ForgotPassword(a) \/ SendChangeCode(a)
  <2> PICK a \in Accounts : UpdateProfile(a) \/ UpdateMail(a) \/ ForgotPassword(a) \/ SendChangeCode(a) BY <1>10, Zenon
  <2>1. /\ acct[a].status # "none" /\ writes' \in 0 .. MaxWrites
        /\ UNCHANGED <<key, grants, sess, token, req, told, late, stale>>
    <3>1. /\ acct[a].status # "none" /\ writes < MaxWrites /\ writes' = writes + 1
          /\ UNCHANGED <<key, grants, sess, token, req, told, late, stale>>
      BY <1>3, Zenon
    <3> QED BY <3>1, CommitIs
  <2>8. acct[a].mail + 1 \in Nat
    <3>1. acct[a] \in Account BY <1>0
    <3>2. acct[a].mail \in Nat BY <3>1 DEF Account
    <3> QED BY <3>2
  <2>2. PICK r \in Account :
          /\ acct' = [acct EXCEPT ![a] = r]
          /\ r.status = acct[a].status /\ r.role = acct[a].role /\ r.pass = acct[a].pass
          /\ \/ r.code = acct[a].code /\ spent' = spent
             \/ r.code = Len(spent) + 1 /\ spent' = Append(spent, 0)
          /\ \/ r.mail = acct[a].mail /\ r.verified = acct[a].verified /\ r.link = acct[a].link /\ proven' = proven
             \/ r.mail = acct[a].mail + 1 /\ ~r.verified /\ r.link = r.mail /\ proven' = proven
             \/ r.mail = acct[a].mail + 1 /\ proven' = [proven EXCEPT ![a] = proven[a] \union {acct[a].mail + 1}]
    <3>1. CASE /\ acct' = [acct EXCEPT ![a] = [acct[a] EXCEPT !.mail = acct[a].mail + 1, !.link = acct[a].mail + 1,
                                                              !.verified = FALSE]]
               /\ UNCHANGED <<proven, spent>>
      <4> DEFINE n == acct[a].mail + 1
                 r == [acct[a] EXCEPT !.mail = n, !.link = n, !.verified = FALSE]
      <4> HIDE DEF n
      <4>1. /\ r \in Account /\ r.status = acct[a].status /\ r.role = acct[a].role /\ r.pass = acct[a].pass
            /\ r.code = acct[a].code /\ r.mail = n /\ ~r.verified /\ r.link = n
        BY <1>7, <2>8 DEF n
      <4>2. acct' = [acct EXCEPT ![a] = r] BY <3>1 DEF n
      <4> HIDE DEF r
      <4> QED BY <3>1, <4>1, <4>2 DEF n
    <3>2. CASE /\ acct' = [acct EXCEPT ![a] = [acct[a] EXCEPT !.mail = acct[a].mail + 1]]
               /\ proven' = [proven EXCEPT ![a] = proven[a] \union {acct[a].mail + 1}] /\ UNCHANGED spent
      BY <1>7, <2>8, <3>2
    <3>3. CASE acct' = [acct EXCEPT ![a] = [acct[a] EXCEPT !.reset = TRUE]] /\ UNCHANGED <<proven, spent>>
      BY <1>5, <3>3, 0 \in Nat
    <3>4. CASE /\ acct' = [acct EXCEPT ![a] = [acct[a] EXCEPT !.code = Len(spent) + 1, !.tries = 0]]
               /\ spent' = Append(spent, 0) /\ UNCHANGED proven
      <4> DEFINE n == Len(spent) + 1
                 r == [acct[a] EXCEPT !.code = n, !.tries = 0]
      <4>1. n \in Nat BY <1>0
      <4> HIDE DEF n
      <4>2. /\ r \in Account /\ r.status = acct[a].status /\ r.role = acct[a].role /\ r.pass = acct[a].pass
            /\ r.code = n /\ r.mail = acct[a].mail /\ r.verified = acct[a].verified /\ r.link = acct[a].link
        BY <1>6, <4>1, Zenon
      <4>3. acct' = [acct EXCEPT ![a] = r] BY <3>4 DEF n
      <4> HIDE DEF r
      <4> QED BY <3>4, <4>2, <4>3 DEF n
    <3>5. \/ /\ acct' = [acct EXCEPT ![a] = [acct[a] EXCEPT !.mail = acct[a].mail + 1, !.link = acct[a].mail + 1,
                                                            !.verified = FALSE]]
             /\ UNCHANGED <<proven, spent>>
          \/ /\ acct' = [acct EXCEPT ![a] = [acct[a] EXCEPT !.mail = acct[a].mail + 1]]
             /\ proven' = [proven EXCEPT ![a] = proven[a] \union {acct[a].mail + 1}] /\ UNCHANGED spent
          \/ acct' = [acct EXCEPT ![a] = [acct[a] EXCEPT !.reset = TRUE]] /\ UNCHANGED <<proven, spent>>
          \/ /\ acct' = [acct EXCEPT ![a] = [acct[a] EXCEPT !.code = Len(spent) + 1, !.tries = 0]]
             /\ spent' = Append(spent, 0) /\ UNCHANGED proven
      BY <1>3, Zenon
    <3> QED BY <3>1, <3>2, <3>3, <3>4, <3>5, Zenon
  <2>3. acct' \in [Accounts -> Account] /\ acct'[a] = r /\ \A b \in Accounts \ {a} : acct'[b] = acct[b]
    BY <2>2, RowIs
  <2>5. /\ proven' \in [Accounts -> SUBSET Nat] /\ proven[a] \subseteq proven'[a]
        /\ \A b \in Accounts \ {a} : proven'[b] = proven[b]
    BY <1>0, <2>2, <2>8
  <2>6. SameCode(a) \/ (acct'[a].code = Len(spent) + 1 /\ spent' = Append(spent, 0)) BY <2>2, <2>3 DEF SameCode
  <2>7. \/ SameMail(a)
        \/ acct'[a].mail = acct[a].mail + 1 /\ acct'[a].link = acct'[a].mail /\ ~acct'[a].verified
        \/ acct'[a].mail = acct[a].mail + 1 /\ acct'[a].mail \in proven'[a]
    BY <1>0, <2>2, <2>3 DEF SameMail
  <2>9. /\ \A b \in Accounts \ {a} : acct'[b] = acct[b] /\ proven'[b] = proven[b] /\ stale'[b] = stale[b]
        /\ acct'[a].status = acct[a].status /\ acct'[a].role = acct[a].role /\ acct'[a].pass = acct[a].pass
        /\ stale' \in [Accounts -> SUBSET Columns] /\ stale[a] \subseteq stale'[a]
    BY <1>0, <2>1, <2>2, <2>3, <2>5
  <2>10. Rewrites(a) BY <2>1, <2>3, <2>5, <2>6, <2>7, <2>9 DEF Rewrites
  <2> QED BY <2>10
<1> QED BY <1>8, <1>9, <1>10 DEF RowStep

(* The steps that end everything of an account: a new password, a suspension, a deletion; and a role that is not
   the one the administrator has read ends the sessions. *)
LEMMA TellEndIs ==
  ASSUME Typed, NEW a \in Accounts, NEW r \in Account2
  PROVE  /\ Told(a, r) \in Account2
         /\ Told(a, r).status = r.status /\ Told(a, r).role = r.role /\ Told(a, r).perms = r.perms
         /\ Told(a, r).gone = r.gone
         /\ \A s : s \in Told(a, r).ended <=> s \in r.ended \/ (s \in Sids /\ sess[s].of = a)
<1> DEFINE ends == SidsOf(a)
<1>1. Told(a, r) = [r EXCEPT !.ended = r.ended \union ends] BY DEF Told
<1>2. ends \subseteq Sids /\ \A s : s \in ends <=> s \in Sids /\ sess[s].of = a BY DEF SidsOf
<1> HIDE DEF ends
<1> QED BY <1>1, <1>2 DEF Account2

SetsPassword(q, a) ==
  /\ UNCHANGED <<key, grants, late, stale, proven>> /\ writes' \in 0 .. MaxWrites
  /\ req' = [req EXCEPT ![q] = Idle]
  /\ acct' \in [Accounts -> Account] /\ \A b \in Accounts \ {a} : acct'[b] = acct[b] /\ told'[b] = told[b]
  /\ acct'[a].status = acct[a].status /\ acct'[a].role = acct[a].role /\ acct'[a].verified = acct[a].verified
  /\ acct'[a].mail = acct[a].mail /\ acct'[a].link = acct[a].link
  /\ \/ acct'[a].code = acct[a].code /\ spent' = spent
     \/ /\ acct[a].code \in Nat \ {0} /\ acct'[a].code = 0
        /\ spent' = [spent EXCEPT ![acct[a].code] = spent[acct[a].code] + 1]
  /\ EndAll(a) /\ RevokeAll(a)
  /\ told' \in [Accounts -> Account2]
  /\ told'[a].status = told[a].status /\ told'[a].role = told[a].role /\ told'[a].perms = told[a].perms
  /\ told'[a].gone = told[a].gone
  /\ \A s \in Sids : s \in told[a].ended \/ sess[s].of = a => s \in told'[a].ended

LEMMA PasswordIs ==
  ASSUME Typed, NEW q \in Requests, ResetPassword(q) \/ ChangePassword(q)
  PROVE  \E a \in Accounts : SetsPassword(q, a)
<1> DEFINE a == req[q].of
           c == req[q].arg
<1>0. a \in Accounts /\ (req[q].op = "change" => c \in Nat \ {0})
  BY RequestOf DEF ResetPassword, ChangePassword, Commits, RequestType
<1> HIDE DEF a, c
<1>1. acct[a] \in Account /\ told[a] \in Account2 /\ acct \in [Accounts -> Account] /\ spent \in Seq(Nat)
  BY <1>0, TypeIs DEF Typed, HistoryType
<1>2. /\ EndAll(a) /\ RevokeAll(a) /\ told' = [told EXCEPT ![a] = Told(a, told[a])]
      /\ UNCHANGED <<key, grants, late, stale, proven>>
      /\ req' = [req EXCEPT ![q] = Idle] /\ writes < MaxWrites /\ writes' = writes + 1
  <2>1. CASE ResetPassword(q)
    BY <1>0, <1>1, <2>1, TypeIs DEF ResetPassword, Commits, Written, EndsEverything, Typed, history, a
  <2>2. CASE ChangePassword(q)
    BY <1>0, <1>1, <2>2, TypeIs DEF ChangePassword, Commits, Written, EndsEverything, Typed, a
  <2> QED BY <2>1, <2>2
<1>3. /\ told' \in [Accounts -> Account2] /\ \A b \in Accounts \ {a} : told'[b] = told[b]
      /\ told'[a].status = told[a].status /\ told'[a].role = told[a].role /\ told'[a].perms = told[a].perms
      /\ told'[a].gone = told[a].gone
      /\ \A s \in Sids : s \in told[a].ended \/ sess[s].of = a => s \in told'[a].ended
  <2>1. /\ Told(a, told[a]) \in Account2
        /\ Told(a, told[a]).status = told[a].status /\ Told(a, told[a]).role = told[a].role
        /\ Told(a, told[a]).perms = told[a].perms /\ Told(a, told[a]).gone = told[a].gone
        /\ \A s : s \in Told(a, told[a]).ended <=> s \in told[a].ended \/ (s \in Sids /\ sess[s].of = a)
    BY <1>0, <1>1, TellEndIs
  <2> DEFINE r == Told(a, told[a])
  <2>2. told' = [told EXCEPT ![a] = r] BY <1>2
  <2> HIDE DEF r
  <2>3. told' \in [Accounts -> Account2] /\ told'[a] = r /\ \A b \in Accounts \ {a} : told'[b] = told[b]
    BY <1>0, <2>1, <2>2, ToldIs DEF r
  <2> QED BY <2>1, <2>3 DEF r
<1>4. PICK r \in Account :
        /\ acct' = [acct EXCEPT ![a] = r]
        /\ r.status = acct[a].status /\ r.role = acct[a].role /\ r.verified = acct[a].verified
        /\ r.mail = acct[a].mail /\ r.link = acct[a].link
        /\ \/ r.code = acct[a].code /\ spent' = spent
           \/ /\ acct[a].code \in Nat \ {0} /\ r.code = 0
              /\ spent' = [spent EXCEPT ![acct[a].code] = spent[acct[a].code] + 1]
  <2> DEFINE n == acct[a].pass + 1
  <2>0. n \in Nat BY <1>1 DEF Account
  <2>1. CASE ResetPassword(q)
    <3> DEFINE r == [acct[a] EXCEPT !.pass = n, !.reset = FALSE]
    <3>1. spent' = spent /\ (acct' = [acct EXCEPT ![a] = r] \/ acct' = acct)
      BY <1>0, <1>1, <2>1 DEF ResetPassword, history, a
    <3> HIDE DEF n
    <3>2. /\ r \in Account /\ r.status = acct[a].status /\ r.role = acct[a].role /\ r.verified = acct[a].verified
          /\ r.mail = acct[a].mail /\ r.link = acct[a].link /\ r.code = acct[a].code
      BY <1>1, <2>0 DEF Account
    <3> HIDE DEF r
    <3>3. acct = [acct EXCEPT ![a] = acct[a]] BY <1>0, <1>1
    <3> QED BY <1>1, <3>1, <3>2, <3>3
  <2>2. CASE ChangePassword(q)
    <3> DEFINE r == [acct[a] EXCEPT !.code = 0, !.tries = 0, !.pass = n]
    <3>1. acct[a].code = c /\ acct' = [acct EXCEPT ![a] = r] /\ spent' = [spent EXCEPT ![c] = spent[c] + 1]
      BY <1>0, <1>1, <2>2 DEF ChangePassword, CodeStands, a, c
    <3> HIDE DEF n
    <3>2. /\ r \in Account /\ r.status = acct[a].status /\ r.role = acct[a].role /\ r.verified = acct[a].verified
          /\ r.mail = acct[a].mail /\ r.link = acct[a].link /\ r.code = 0
      BY <1>1, <2>0 DEF Account
    <3> HIDE DEF r
    <3>3. c \in Nat \ {0} BY <1>0, <2>2 DEF ChangePassword, Commits
    <3> QED BY <3>1, <3>2, <3>3
  <2> QED BY <2>1, <2>2
<1>5. acct' \in [Accounts -> Account] /\ acct'[a] = r /\ \A b \in Accounts \ {a} : acct'[b] = acct[b]
  BY <1>0, <1>4, RowIs
<1>6. writes' \in 0 .. MaxWrites BY <1>2, CommitIs
<1>7. SetsPassword(q, a) BY <1>2, <1>3, <1>4, <1>5, <1>6 DEF SetsPassword
<1> QED BY <1>0, <1>7

SetsStatus(q, a, st) ==
  /\ a = req[q].of /\ st = req[q].arg /\ Exists(a)
  /\ UNCHANGED <<key, grants, late, proven, spent>> /\ writes' \in 0 .. MaxWrites
  /\ req' = [req EXCEPT ![q] = Idle]
  /\ acct' \in [Accounts -> Account]
  /\ \A b \in Accounts \ {a} : acct'[b] = acct[b] /\ told'[b] = told[b] /\ stale'[b] = stale[b]
  /\ acct'[a].status = st /\ acct'[a].role = acct[a].role /\ acct'[a].verified = acct[a].verified
  /\ acct'[a].mail = acct[a].mail /\ acct'[a].link = acct[a].link /\ acct'[a].pass = acct[a].pass
  /\ acct'[a].code = acct[a].code
  /\ stale' \in [Accounts -> SUBSET Columns] /\ stale[a] \subseteq stale'[a]
  /\ Changed(q, "status") => "status" \in stale'[a]
  /\ IF st = "suspended" THEN EndAll(a) /\ RevokeAll(a) ELSE sess' = sess /\ token' = token
  /\ told' \in [Accounts -> Account2]
  /\ told'[a].status = IF req[q].row.status # st THEN st ELSE told[a].status
  /\ told'[a].role = told[a].role /\ told'[a].perms = told[a].perms /\ told'[a].gone = told[a].gone
  /\ \A s \in Sids : s \in told[a].ended \/ (st = "suspended" /\ sess[s].of = a) => s \in told'[a].ended

LEMMA SetStatusIs ==
  ASSUME Typed, NEW q \in Requests, SetStatus(q)
  PROVE  \E a \in Accounts, st \in {"active", "suspended"} : SetsStatus(q, a, st)
<1> DEFINE a == req[q].of
           st == req[q].arg
           said == IF req[q].row.status # st THEN [told[a] EXCEPT !.status = st] ELSE told[a]
           row == [acct[a] EXCEPT !.status = st]
           new == {c \in {"status"} : Changed(q, c)}
<1>0. a \in Accounts /\ st \in {"active", "suspended"}
  BY RequestOf DEF SetStatus, Commits, RequestType
<1> HIDE DEF a, st
<1>1. /\ Exists(a) /\ acct' = [acct EXCEPT ![a] = row]
      /\ IF st = "suspended" THEN EndAll(a) /\ RevokeAll(a) ELSE sess' = sess /\ token' = token
      /\ told' = [told EXCEPT ![a] = IF st = "suspended" THEN Told(a, said) ELSE said]
      /\ stale' = [stale EXCEPT ![a] = stale[a] \union new]
      /\ UNCHANGED <<key, grants, late, proven, spent>>
      /\ req' = [req EXCEPT ![q] = Idle] /\ writes < MaxWrites /\ writes' = writes + 1
  BY <1>0, TypeIs DEF SetStatus, Commits, Written, Typed, HistoryType, a, st
<1>2. acct[a] \in Account /\ told[a] \in Account2 BY <1>0, TypeIs DEF Typed
<1>3. /\ row \in Account /\ row.status = st /\ row.role = acct[a].role /\ row.verified = acct[a].verified
      /\ row.mail = acct[a].mail /\ row.link = acct[a].link /\ row.pass = acct[a].pass /\ row.code = acct[a].code
  BY <1>0, <1>2 DEF Account, Status
<1>4. /\ said \in Account2 /\ said.status = (IF req[q].row.status # st THEN st ELSE told[a].status)
      /\ said.role = told[a].role /\ said.perms = told[a].perms /\ said.gone = told[a].gone /\ said.ended = told[a].ended
  BY <1>0, <1>2 DEF Account2
<1>5. new \subseteq Columns /\ (Changed(q, "status") => "status" \in new) BY DEF Columns
<1> HIDE DEF said, row, new
<1>6. acct' \in [Accounts -> Account] /\ acct'[a] = row /\ \A b \in Accounts \ {a} : acct'[b] = acct[b]
  BY <1>0, <1>1, <1>3, RowIs
<1> DEFINE r == IF st = "suspended" THEN Told(a, said) ELSE said
<1>7. /\ r \in Account2 /\ r.status = said.status /\ r.role = said.role /\ r.perms = said.perms /\ r.gone = said.gone
      /\ \A s \in Sids : s \in said.ended \/ (st = "suspended" /\ sess[s].of = a) => s \in r.ended
  BY <1>0, <1>4, TellEndIs
<1>8. told' = [told EXCEPT ![a] = r] BY <1>1
<1> HIDE DEF r
<1>9. told' \in [Accounts -> Account2] /\ told'[a] = r /\ \A b \in Accounts \ {a} : told'[b] = told[b]
  BY <1>0, <1>7, <1>8, ToldIs
<1>10. /\ stale' \in [Accounts -> SUBSET Columns] /\ stale'[a] = stale[a] \union new
       /\ \A b \in Accounts \ {a} : stale'[b] = stale[b]
  BY <1>0, <1>1, <1>5 DEF Typed, HistoryType
<1>11. writes' \in 0 .. MaxWrites BY <1>1, CommitIs
<1>12. a = req[q].of /\ st = req[q].arg BY DEF a, st
<1>13. /\ acct'[a].status = st /\ acct'[a].role = acct[a].role /\ acct'[a].verified = acct[a].verified
       /\ acct'[a].mail = acct[a].mail /\ acct'[a].link = acct[a].link /\ acct'[a].pass = acct[a].pass
       /\ acct'[a].code = acct[a].code
  BY <1>3, <1>6
<1>14. /\ told'[a].status = (IF req[q].row.status # st THEN st ELSE told[a].status)
       /\ told'[a].role = told[a].role /\ told'[a].perms = told[a].perms /\ told'[a].gone = told[a].gone
       /\ \A s \in Sids : s \in told[a].ended \/ (st = "suspended" /\ sess[s].of = a) => s \in told'[a].ended
  BY <1>4, <1>7, <1>9
<1>15. \A b \in Accounts \ {a} : acct'[b] = acct[b] /\ told'[b] = told[b] /\ stale'[b] = stale[b]
  BY <1>6, <1>9, <1>10
<1>16. stale[a] \subseteq stale'[a] BY <1>10
<1>18. Changed(q, "status") => "status" \in stale'[a] BY <1>5, <1>10, Zenon
<1>17. SetsStatus(q, a, st) BY <1>1, <1>6, <1>9, <1>10, <1>11, <1>12, <1>13, <1>14, <1>15, <1>16, <1>18 DEF SetsStatus
<1> QED BY <1>0, <1>17

SetsRole(q, a, r) ==
  /\ a = req[q].of /\ r = req[q].arg /\ Exists(a)
  /\ UNCHANGED <<key, grants, token, late, proven, spent>> /\ writes' \in 0 .. MaxWrites
  /\ req' = [req EXCEPT ![q] = Idle]
  /\ acct' \in [Accounts -> Account]
  /\ \A b \in Accounts \ {a} : acct'[b] = acct[b] /\ told'[b] = told[b] /\ stale'[b] = stale[b]
  /\ acct'[a].status = acct[a].status /\ acct'[a].role = r /\ acct'[a].verified = acct[a].verified
  /\ acct'[a].mail = acct[a].mail /\ acct'[a].link = acct[a].link /\ acct'[a].pass = acct[a].pass
  /\ acct'[a].code = acct[a].code
  /\ stale' \in [Accounts -> SUBSET Columns] /\ stale[a] \subseteq stale'[a]
  /\ Changed(q, "role") => "role" \in stale'[a]
  /\ IF req[q].row.role # r THEN EndAll(a) ELSE sess' = sess
  /\ told' \in [Accounts -> Account2]
  /\ told'[a].role = IF req[q].row.role # r THEN r ELSE told[a].role
  /\ told'[a].status = told[a].status /\ told'[a].perms = told[a].perms /\ told'[a].gone = told[a].gone
  /\ \A s \in Sids : s \in told[a].ended \/ (req[q].row.role # r /\ sess[s].of = a) => s \in told'[a].ended

LEMMA SetRoleIs ==
  ASSUME Typed, NEW q \in Requests, SetRole(q)
  PROVE  \E a \in Accounts, r \in Roles : SetsRole(q, a, r)
<1> DEFINE a == req[q].of
           r == req[q].arg
           changes == req[q].row.role # r
           said == [told[a] EXCEPT !.role = r]
           row == [acct[a] EXCEPT !.role = r]
           new == {c \in {"role"} : Changed(q, c)}
<1>0. a \in Accounts /\ r \in Roles
  BY RequestOf DEF SetRole, Commits, RequestType
<1> HIDE DEF a, r
<1>1. /\ Exists(a) /\ acct' = [acct EXCEPT ![a] = row]
      /\ IF changes THEN EndAll(a) ELSE sess' = sess
      /\ told' = IF changes THEN [told EXCEPT ![a] = Told(a, said)] ELSE told
      /\ stale' = [stale EXCEPT ![a] = stale[a] \union new]
      /\ UNCHANGED <<key, grants, token, late, proven, spent>>
      /\ req' = [req EXCEPT ![q] = Idle] /\ writes < MaxWrites /\ writes' = writes + 1
  BY <1>0, TypeIs DEF SetRole, Commits, Written, RoleSaid, Typed, HistoryType, a, r
<1>2. acct[a] \in Account /\ told[a] \in Account2 BY <1>0, TypeIs DEF Typed
<1>3. /\ row \in Account /\ row.role = r /\ row.status = acct[a].status /\ row.verified = acct[a].verified
      /\ row.mail = acct[a].mail /\ row.link = acct[a].link /\ row.pass = acct[a].pass /\ row.code = acct[a].code
  BY <1>0, <1>2 DEF Account
<1>4. /\ said \in Account2 /\ said.role = r
      /\ said.status = told[a].status /\ said.perms = told[a].perms /\ said.gone = told[a].gone
      /\ said.ended = told[a].ended
  BY <1>0, <1>2 DEF Account2
<1>5. new \subseteq Columns /\ (Changed(q, "role") => "role" \in new) BY DEF Columns
<1>12. changes = (req[q].row.role # r) OBVIOUS
<1> HIDE DEF said, row, new, changes
<1>6. acct' \in [Accounts -> Account] /\ acct'[a] = row /\ \A b \in Accounts \ {a} : acct'[b] = acct[b]
  BY <1>0, <1>1, <1>3, RowIs
<1>7. /\ told' \in [Accounts -> Account2] /\ \A b \in Accounts \ {a} : told'[b] = told[b]
      /\ told'[a].role = IF changes THEN r ELSE told[a].role
      /\ told'[a].status = told[a].status /\ told'[a].perms = told[a].perms /\ told'[a].gone = told[a].gone
      /\ \A s \in Sids : s \in told[a].ended \/ (changes /\ sess[s].of = a) => s \in told'[a].ended
  <2>1. CASE changes
    <3>1. /\ Told(a, said) \in Account2
          /\ Told(a, said).status = said.status /\ Told(a, said).role = said.role /\ Told(a, said).perms = said.perms
          /\ Told(a, said).gone = said.gone
          /\ \A s : s \in Told(a, said).ended <=> s \in said.ended \/ (s \in Sids /\ sess[s].of = a)
      BY <1>0, <1>4, TellEndIs
    <3>2. /\ told' \in [Accounts -> Account2] /\ told'[a] = Told(a, said)
          /\ \A b \in Accounts \ {a} : told'[b] = told[b]
      BY <1>0, <1>1, <2>1, <3>1, ToldIs
    <3> QED BY <1>4, <2>1, <3>1, <3>2
  <2>2. CASE ~changes BY <1>0, <1>1, <2>2, TypeIs DEF Typed
  <2> QED BY <2>1, <2>2
<1>10. /\ stale' \in [Accounts -> SUBSET Columns] /\ stale'[a] = stale[a] \union new
       /\ \A b \in Accounts \ {a} : stale'[b] = stale[b]
  BY <1>0, <1>1, <1>5 DEF Typed, HistoryType
<1>11. writes' \in 0 .. MaxWrites BY <1>1, CommitIs
<1>13. a = req[q].of /\ r = req[q].arg BY DEF a, r
<1>14. /\ IF req[q].row.role # r THEN EndAll(a) ELSE sess' = sess
       /\ told'[a].role = IF req[q].row.role # r THEN r ELSE told[a].role
       /\ \A s \in Sids : s \in told[a].ended \/ (req[q].row.role # r /\ sess[s].of = a) => s \in told'[a].ended
  BY <1>1, <1>7, <1>12
<1>15. stale[a] \subseteq stale'[a] /\ (Changed(q, "role") => "role" \in stale'[a]) BY <1>5, <1>10
<1>16. /\ acct'[a].status = acct[a].status /\ acct'[a].role = r /\ acct'[a].verified = acct[a].verified
       /\ acct'[a].mail = acct[a].mail /\ acct'[a].link = acct[a].link /\ acct'[a].pass = acct[a].pass
       /\ acct'[a].code = acct[a].code
  BY <1>3, <1>6
<1>17. \A b \in Accounts \ {a} : acct'[b] = acct[b] /\ told'[b] = told[b] /\ stale'[b] = stale[b]
  BY <1>6, <1>7, <1>10
<1>18. SetsRole(q, a, r) BY <1>1, <1>6, <1>7, <1>10, <1>11, <1>13, <1>14, <1>15, <1>16, <1>17 DEF SetsRole
<1> QED BY <1>0, <1>18

LEMMA DeleteIs ==
  ASSUME Typed, NEW a \in Accounts, Delete(a)
  PROVE  /\ Exists(a) /\ UNCHANGED <<key, req, history>> /\ writes' \in 0 .. MaxWrites
         /\ acct' \in [Accounts -> Account] /\ acct'[a].status = "deleted" /\ acct'[a].code = acct[a].code
         /\ acct'[a].mail = acct[a].mail /\ acct'[a].link = acct[a].link /\ acct'[a].verified = acct[a].verified
         /\ \A b \in Accounts \ {a} : acct'[b] = acct[b] /\ told'[b] = told[b] /\ grants'[b] = grants[b]
         /\ grants' \in [Accounts -> SUBSET Perms]
         /\ EndAll(a) /\ RevokeAll(a)
         /\ told' \in [Accounts -> Account2] /\ told'[a].gone
         /\ \A s \in Sids : s \in told[a].ended \/ sess[s].of = a => s \in told'[a].ended
<1> DEFINE row == [acct[a] EXCEPT !.status = "deleted"]
           said == [told[a] EXCEPT !.gone = TRUE]
<1>1. /\ Exists(a) /\ acct' = [acct EXCEPT ![a] = row] /\ grants' = [grants EXCEPT ![a] = {}]
      /\ EndAll(a) /\ RevokeAll(a) /\ told' = [told EXCEPT ![a] = Told(a, said)]
      /\ UNCHANGED <<key, req, history>> /\ writes < MaxWrites /\ writes' = writes + 1
  BY TypeIs DEF Delete, Typed
<1>2. acct[a] \in Account /\ told[a] \in Account2 BY TypeIs DEF Typed
<1>3. /\ row \in Account /\ row.status = "deleted" /\ row.code = acct[a].code
      /\ row.mail = acct[a].mail /\ row.link = acct[a].link /\ row.verified = acct[a].verified
  BY <1>2 DEF Account, Status
<1>4. said \in Account2 /\ said.gone /\ said.ended = told[a].ended BY <1>2 DEF Account2
<1> HIDE DEF row, said
<1>5. acct' \in [Accounts -> Account] /\ acct'[a] = row /\ \A b \in Accounts \ {a} : acct'[b] = acct[b]
  BY <1>1, <1>3, RowIs
<1>6. /\ Told(a, said) \in Account2 /\ Told(a, said).gone = said.gone
      /\ \A s : s \in Told(a, said).ended <=> s \in said.ended \/ (s \in Sids /\ sess[s].of = a)
  BY <1>4, TellEndIs
<1>7. told' \in [Accounts -> Account2] /\ told'[a] = Told(a, said) /\ \A b \in Accounts \ {a} : told'[b] = told[b]
  BY <1>1, <1>6, ToldIs
<1>8. grants' \in [Accounts -> SUBSET Perms] /\ \A b \in Accounts \ {a} : grants'[b] = grants[b]
  BY <1>1, TypeIs DEF Typed
<1>9. writes' \in 0 .. MaxWrites BY <1>1, CommitIs
<1> QED BY <1>1, <1>3, <1>4, <1>5, <1>6, <1>7, <1>8, <1>9

LEMMA ChangePermissionIs ==
  ASSUME Typed, NEW a \in Accounts, NEW p \in Perms, ChangePermission(a, p)
  PROVE  /\ Exists(a) /\ UNCHANGED <<key, acct, sess, token, req, history>> /\ writes' \in 0 .. MaxWrites
         /\ grants' \in [Accounts -> SUBSET Perms] /\ told' \in [Accounts -> Account2]
         /\ \A b \in Accounts \ {a} : told'[b] = told[b] /\ grants'[b] = grants[b]
         /\ told[a].perms = grants[a] => told'[a].perms = grants'[a]
         /\ told'[a].status = told[a].status /\ told'[a].role = told[a].role /\ told'[a].gone = told[a].gone
         /\ told'[a].ended = told[a].ended
<1>1. PICK granted \in BOOLEAN :
        /\ grants' = [grants EXCEPT ![a] = IF granted THEN grants[a] \union {p} ELSE grants[a] \ {p}]
        /\ told' = [told EXCEPT ![a].perms = IF granted THEN told[a].perms \union {p} ELSE told[a].perms \ {p}]
  BY TypeIs DEF ChangePermission, Typed
<1> DEFINE ps == IF granted THEN told[a].perms \union {p} ELSE told[a].perms \ {p}
           said == [told[a] EXCEPT !.perms = ps]
<1>2. told[a] \in Account2 /\ told \in [Accounts -> Account2] BY TypeIs DEF Typed
<1>3. ps \in SUBSET Perms /\ (told[a].perms = grants[a] => ps = IF granted THEN grants[a] \union {p} ELSE grants[a] \ {p})
  BY <1>2 DEF Account2
<1>4. told' = [told EXCEPT ![a] = said] BY <1>1
<1> HIDE DEF ps
<1>5. /\ said \in Account2 /\ said.perms = ps /\ said.status = told[a].status /\ said.role = told[a].role
      /\ said.gone = told[a].gone /\ said.ended = told[a].ended
  BY <1>2, <1>3 DEF Account2
<1> HIDE DEF said
<1>6. told' \in [Accounts -> Account2] /\ told'[a] = said /\ \A b \in Accounts \ {a} : told'[b] = told[b]
  BY <1>4, <1>5, ToldIs
<1>7. /\ grants' \in [Accounts -> SUBSET Perms] /\ \A b \in Accounts \ {a} : grants'[b] = grants[b]
      /\ grants'[a] = IF granted THEN grants[a] \union {p} ELSE grants[a] \ {p}
  BY <1>1, TypeIs DEF Typed
<1>8. Exists(a) /\ UNCHANGED <<key, acct, sess, token, req, history>> /\ writes < MaxWrites /\ writes' = writes + 1
  BY DEF ChangePermission
<1>9. writes' \in 0 .. MaxWrites BY <1>8, CommitIs
<1> QED BY <1>3, <1>5, <1>6, <1>7, <1>8, <1>9

LEMMA KeyStepIs ==
  ASSUME Typed, key.used <= key.max,
         (\E q \in Requests : PatchKey(q)) \/ (\E to \in {"active", "suspended", "revoked"} : SetKeyStatus(to))
  PROVE  /\ UNCHANGED <<acct, grants, sess, token, told, history>> /\ writes' \in 0 .. MaxWrites
         /\ req' = req \/ \E q \in Requests : req' = [req EXCEPT ![q] = Idle]
         /\ key' \in [status : {"active", "suspended", "revoked"}, max : 1 .. MaxUses, used : 0 .. MaxUses]
         /\ key'.used = key.used /\ key'.used <= key'.max
<1>0. key \in [status : {"active", "suspended", "revoked"}, max : 1 .. MaxUses, used : 0 .. MaxUses]
  BY TypeIs DEF Typed
<1>1. ASSUME NEW q \in Requests, PatchKey(q)
      PROVE  /\ UNCHANGED <<acct, grants, sess, token, told, history>> /\ writes < MaxWrites /\ writes' = writes + 1
             /\ req' = [req EXCEPT ![q] = Idle]
             /\ key' \in [status : {"active", "suspended", "revoked"}, max : 1 .. MaxUses, used : 0 .. MaxUses]
             /\ key'.used = key.used /\ key'.used <= key'.max
  <2>1. req[q].arg \in 1 .. MaxUses BY <1>1 DEF PatchKey, Commits, Typed, RequestsOK, RequestsType, RequestType
  <2> QED BY <1>0, <1>1, <2>1 DEF PatchKey, Commits, Written
<1>2. ASSUME NEW to \in {"active", "suspended", "revoked"}, SetKeyStatus(to)
      PROVE  /\ UNCHANGED <<acct, grants, sess, token, req, told, history>> /\ writes < MaxWrites /\ writes' = writes + 1
             /\ key' \in [status : {"active", "suspended", "revoked"}, max : 1 .. MaxUses, used : 0 .. MaxUses]
             /\ key'.used = key.used /\ key'.used <= key'.max
  BY <1>0, <1>2 DEF SetKeyStatus
<1> QED BY <1>1, <1>2, CommitIs

-----------------------------------------------------------------------------
(* The steps, and what each of them keeps *)

LEMMA StepIs ==
  ASSUME [Next]_vars
  PROVE  \/ \E q \in Requests : Read(q)
         \/ \E q \in Requests : Register(q)
         \/ \E q \in Requests : Verify(q)
         \/ RowStep
         \/ \E q \in Requests : Login(q) \/ Refresh(q)
         \/ \E q \in Requests : Logout(q)
         \/ \E q \in Requests : ResetPassword(q) \/ ChangePassword(q)
         \/ \E q \in Requests : SetStatus(q)
         \/ \E q \in Requests : SetRole(q)
         \/ \E a \in Accounts : Delete(a)
         \/ \E a \in Accounts, p \in Perms : ChangePermission(a, p)
         \/ (\E q \in Requests : PatchKey(q)) \/ (\E to \in {"active", "suspended", "revoked"} : SetKeyStatus(to))
         \/ /\ req' = req \/ \E q \in Requests : req' = [req EXCEPT ![q] = Idle]
            /\ UNCHANGED <<key, acct, grants, sess, token, told, writes, history>>
<1>1. CASE UNCHANGED vars BY <1>1 DEF vars
<1>2. ASSUME NEW q \in Requests, Rollback(q)
      PROVE  /\ \E p \in Requests : req' = [req EXCEPT ![p] = Idle]
             /\ UNCHANGED <<key, acct, grants, sess, token, told, writes, history>>
  BY <1>2 DEF Rollback
<1> QED BY <1>1, <1>2 DEF Next, Write, RowStep

(* A code that is sent is a new one. *)
LEMMA NewCodeIs ==
  ASSUME NEW uses \in Seq(Nat)
  PROVE  /\ Append(uses, 0) \in Seq(Nat) /\ Len(uses) \in Nat /\ Len(Append(uses, 0)) = Len(uses) + 1
         /\ \A c \in 1 .. Len(uses) : Append(uses, 0)[c] = uses[c]
         /\ Append(uses, 0)[Len(uses) + 1] = 0
OBVIOUS

LEMMA TypedStep ==
  ASSUME Typed, LinksProve, key.used <= key.max, [Next]_vars
  PROVE  Typed'
<1>0. /\ key \in [status : {"active", "suspended", "revoked"}, max : 1 .. MaxUses, used : 0 .. MaxUses]
      /\ acct \in [Accounts -> Account] /\ grants \in [Accounts -> SUBSET Perms]
      /\ sess \in [Sids -> Session] /\ token \in [Tokens -> Token] /\ told \in [Accounts -> Account2]
      /\ writes \in 0 .. MaxWrites
      /\ late \subseteq Sids /\ stale \in [Accounts -> SUBSET Columns] /\ proven \in [Accounts -> SUBSET Nat]
      /\ spent \in Seq(Nat)
  BY TypeIs DEF Typed, HistoryType
<1>1. /\ TypeOK' <=>
          /\ key' \in [status : {"active", "suspended", "revoked"}, max : 1 .. MaxUses, used : 0 .. MaxUses]
          /\ acct' \in [Accounts -> Account] /\ grants' \in [Accounts -> SUBSET Perms]
          /\ sess' \in [Sids -> Session] /\ token' \in [Tokens -> Token] /\ told' \in [Accounts -> Account2]
          /\ writes' \in 0 .. MaxWrites
      /\ HistoryType' <=> /\ late' \subseteq Sids /\ stale' \in [Accounts -> SUBSET Columns]
                          /\ proven' \in [Accounts -> SUBSET Nat] /\ spent' \in Seq(Nat)
  BY DEF TypeOK, Account, Session, Token, Account2, Status, HistoryType
<1>2. sess' = sess /\ token' = token => OwnersAgree' BY DEF Typed, OwnersAgree
<1>3. CASE \E q \in Requests : Read(q)
  <2>1. UNCHANGED <<key, acct, grants, sess, token, told, writes, history>> /\ RequestsOK' BY <1>3, ReadIs
  <2> QED BY <1>0, <1>1, <1>2, <2>1 DEF history, Typed
<1>4. CASE \E q \in Requests : Register(q)
  <2>1. /\ TypeOK' /\ UNCHANGED <<sess, token, history>> /\ \E q \in Requests : req' = [req EXCEPT ![q] = Idle]
    BY <1>0, <1>1, <1>4, RegisterIs DEF Registers
  <2>2. RequestsOK' BY <2>1, RequestsKept DEF history
  <2> QED BY <1>0, <1>1, <1>2, <2>1, <2>2 DEF history, Typed
<1>5. CASE \E q \in Requests : Verify(q)
  <2>1. PICK q \in Requests : Verify(q) BY <1>5
  <2>0. PICK a \in Accounts : Proves(q, a) BY <2>1, VerifyIs
  <2>2. /\ acct' \in [Accounts -> Account] /\ told' \in [Accounts -> Account2]
        /\ \A b \in Accounts \ {a} : proven'[b] = proven[b] /\ stale'[b] = stale[b]
        /\ proven' \in [Accounts -> SUBSET Nat] /\ proven[a] \subseteq proven'[a]
        /\ stale' \in [Accounts -> SUBSET Columns] /\ stale[a] \subseteq stale'[a]
        /\ UNCHANGED <<key, grants, sess, token, late, spent>>
        /\ req' = [req EXCEPT ![q] = Idle] /\ writes' \in 0 .. MaxWrites
    BY <2>0 DEF Proves
  <2>3. RequestsOK' BY <2>2, RequestsKept
  <2> QED BY <1>0, <1>1, <1>2, <2>2, <2>3 DEF Typed
<1>6. CASE RowStep
  <2>0. PICK a \in Accounts : Rewrites(a) BY <1>6, RowStepIs
  <2>1. /\ UNCHANGED <<key, grants, sess, token, told, late>> /\ writes' \in 0 .. MaxWrites
        /\ \/ req' = req
           \/ \E q \in Requests : req' = [req EXCEPT ![q] = Idle]
           \/ \E q \in Requests : req[q].op = "wrong" /\ req' = [req EXCEPT ![q].op = "clear"]
        /\ acct' \in [Accounts -> Account]
        /\ \A b \in Accounts \ {a} : proven'[b] = proven[b] /\ stale'[b] = stale[b]
        /\ proven' \in [Accounts -> SUBSET Nat] /\ proven[a] \subseteq proven'[a]
        /\ stale' \in [Accounts -> SUBSET Columns] /\ stale[a] \subseteq stale'[a]
        /\ spent' = spent \/ spent' = Append(spent, 0)
    BY <2>0 DEF Rewrites, SameCode
  <2>2. RequestsOK' BY <2>1, RequestsKept
  <2>3. Append(spent, 0) \in Seq(Nat) BY <1>0, NewCodeIs
  <2> QED BY <1>0, <1>1, <1>2, <2>1, <2>2, <2>3 DEF Typed
<1>7. CASE \E q \in Requests : Login(q) \/ Refresh(q)
  <2>1. PICK q \in Requests : Login(q) \/ Refresh(q) BY <1>7
  <2>2. /\ UNCHANGED <<key, acct, grants, told, stale, proven, spent>> /\ writes' \in 0 .. MaxWrites
        /\ req' = [req EXCEPT ![q] = Idle]
        /\ sess' \in [Sids -> Session] /\ token' \in [Tokens -> Token] /\ late' \subseteq Sids
        /\ \A s \in Sids : sess[s].of # NoOne => sess'[s] = sess[s]
        /\ \A t \in Tokens : token[t].of # NoOne => token'[t].of = token[t].of
        /\ OwnersAgree'
    BY <2>1, OpensIs
  <2>3. RequestsOK' BY <2>2, RequestsKept
  <2> QED BY <1>0, <1>1, <2>2, <2>3 DEF Typed
<1>8. CASE \E q \in Requests : Logout(q)
  <2>1. PICK q \in Requests : Logout(q) BY <1>8
  <2>2. /\ UNCHANGED <<key, acct, grants, history>> /\ writes' \in 0 .. MaxWrites
        /\ req' = [req EXCEPT ![q] = Idle]
        /\ sess' \in [Sids -> Session] /\ token' \in [Tokens -> Token] /\ told' \in [Accounts -> Account2]
        /\ \A s \in Sids : sess'[s].of = sess[s].of
        /\ \A t \in Tokens : token'[t].of = token[t].of
        /\ OwnersAgree'
    BY <2>1, LogoutIs
  <2>3. RequestsOK' BY <2>2, RequestsKept DEF history
  <2> QED BY <1>0, <1>1, <2>2, <2>3 DEF Typed, history
<1>9. CASE \E q \in Requests : ResetPassword(q) \/ ChangePassword(q)
  <2>1. PICK q \in Requests : ResetPassword(q) \/ ChangePassword(q) BY <1>9
  <2>0. PICK a \in Accounts : SetsPassword(q, a) BY <2>1, PasswordIs
  <2>2. /\ UNCHANGED <<key, grants, late, stale, proven>> /\ writes' \in 0 .. MaxWrites
        /\ req' = [req EXCEPT ![q] = Idle]
        /\ acct' \in [Accounts -> Account]
        /\ spent' = spent \/ spent' = [spent EXCEPT ![acct[a].code] = spent[acct[a].code] + 1]
        /\ EndAll(a) /\ RevokeAll(a) /\ told' \in [Accounts -> Account2]
    BY <2>0 DEF SetsPassword
  <2>3. /\ sess' \in [Sids -> Session] /\ token' \in [Tokens -> Token]
        /\ \A s \in Sids : sess'[s].of = sess[s].of
        /\ \A t \in Tokens : token'[t].of = token[t].of
        /\ OwnersAgree'
    BY <2>2, OwnersKept
  <2>4. RequestsOK' BY <2>2, <2>3, RequestsKept
  <2>5. spent' \in Seq(Nat)
    <3> DEFINE c == acct[a].code
    <3> HIDE DEF c
    <3>1. CASE c \in DOMAIN spent /\ spent' = [spent EXCEPT ![c] = spent[c] + 1]
      <4>1. spent[c] + 1 \in Nat BY <1>0, <3>1
      <4> QED BY <1>0, <3>1, <4>1
    <3>2. CASE c \notin DOMAIN spent /\ spent' = [spent EXCEPT ![c] = spent[c] + 1]
      <4>1. spent' = spent BY <1>0, <3>2
      <4> QED BY <1>0, <4>1
    <3> QED BY <1>0, <2>2, <3>1, <3>2 DEF c
  <2> QED BY <1>0, <1>1, <2>2, <2>3, <2>4, <2>5 DEF Typed
<1>10. CASE \E q \in Requests : SetStatus(q)
  <2>1. PICK q \in Requests : SetStatus(q) BY <1>10
  <2>0. PICK a \in Accounts, st \in {"active", "suspended"} : SetsStatus(q, a, st) BY <2>1, SetStatusIs
  <2>2. /\ UNCHANGED <<key, grants, late, proven, spent>> /\ writes' \in 0 .. MaxWrites
        /\ req' = [req EXCEPT ![q] = Idle]
        /\ acct' \in [Accounts -> Account]
        /\ \A b \in Accounts \ {a} : stale'[b] = stale[b]
        /\ stale' \in [Accounts -> SUBSET Columns] /\ stale[a] \subseteq stale'[a]
        /\ (sess' = sess /\ token' = token) \/ (EndAll(a) /\ RevokeAll(a))
        /\ told' \in [Accounts -> Account2]
    BY <2>0 DEF SetsStatus
  <2>3. /\ sess' \in [Sids -> Session] /\ token' \in [Tokens -> Token]
        /\ \A s \in Sids : sess'[s].of = sess[s].of
        /\ \A t \in Tokens : token'[t].of = token[t].of
        /\ OwnersAgree'
    BY <2>2, OwnersKept
  <2>4. RequestsOK' BY <2>2, <2>3, RequestsKept
  <2> QED BY <1>0, <1>1, <2>2, <2>3, <2>4 DEF Typed
<1>11. CASE \E q \in Requests : SetRole(q)
  <2>1. PICK q \in Requests : SetRole(q) BY <1>11
  <2>0. PICK a \in Accounts, r \in Roles : SetsRole(q, a, r) BY <2>1, SetRoleIs
  <2>2. /\ UNCHANGED <<key, grants, token, late, proven, spent>> /\ writes' \in 0 .. MaxWrites
        /\ req' = [req EXCEPT ![q] = Idle]
        /\ acct' \in [Accounts -> Account]
        /\ \A b \in Accounts \ {a} : stale'[b] = stale[b]
        /\ stale' \in [Accounts -> SUBSET Columns] /\ stale[a] \subseteq stale'[a]
        /\ sess' = sess \/ EndAll(a)
        /\ told' \in [Accounts -> Account2]
    BY <2>0 DEF SetsRole
  <2>3. /\ sess' \in [Sids -> Session] /\ token' \in [Tokens -> Token]
        /\ \A s \in Sids : sess'[s].of = sess[s].of
        /\ \A t \in Tokens : token'[t].of = token[t].of
        /\ OwnersAgree'
    BY <2>2, OwnersKept
  <2>4. RequestsOK' BY <2>2, <2>3, RequestsKept
  <2> QED BY <1>0, <1>1, <2>2, <2>3, <2>4 DEF Typed
<1>12. CASE \E a \in Accounts : Delete(a)
  <2>1. PICK a \in Accounts : Delete(a) BY <1>12
  <2>2. /\ UNCHANGED <<key, req, history>> /\ writes' \in 0 .. MaxWrites
        /\ acct' \in [Accounts -> Account] /\ grants' \in [Accounts -> SUBSET Perms]
        /\ EndAll(a) /\ RevokeAll(a) /\ told' \in [Accounts -> Account2]
    BY <2>1, DeleteIs
  <2>3. /\ sess' \in [Sids -> Session] /\ token' \in [Tokens -> Token]
        /\ \A s \in Sids : sess'[s].of = sess[s].of
        /\ \A t \in Tokens : token'[t].of = token[t].of
        /\ OwnersAgree'
    BY <2>2, OwnersKept
  <2>4. RequestsOK' BY <2>2, <2>3, RequestsKept DEF history
  <2> QED BY <1>0, <1>1, <2>2, <2>3, <2>4 DEF Typed, history
<1>13. CASE \E a \in Accounts, p \in Perms : ChangePermission(a, p)
  <2>1. /\ UNCHANGED <<key, acct, sess, token, req, history>> /\ writes' \in 0 .. MaxWrites
        /\ grants' \in [Accounts -> SUBSET Perms] /\ told' \in [Accounts -> Account2]
    BY <1>13, ChangePermissionIs
  <2>2. RequestsOK' BY <2>1, RequestsKept DEF history
  <2> QED BY <1>0, <1>1, <1>2, <2>1, <2>2 DEF Typed, history
<1>14. CASE (\E q \in Requests : PatchKey(q)) \/ (\E to \in {"active", "suspended", "revoked"} : SetKeyStatus(to))
  <2>1. /\ UNCHANGED <<acct, grants, sess, token, told, history>> /\ writes' \in 0 .. MaxWrites
        /\ req' = req \/ \E q \in Requests : req' = [req EXCEPT ![q] = Idle]
        /\ key' \in [status : {"active", "suspended", "revoked"}, max : 1 .. MaxUses, used : 0 .. MaxUses]
    BY <1>14, KeyStepIs
  <2>2. RequestsOK' BY <2>1, RequestsKept DEF history
  <2> QED BY <1>0, <1>1, <1>2, <2>1, <2>2 DEF Typed, history
<1>15. CASE /\ req' = req \/ \E q \in Requests : req' = [req EXCEPT ![q] = Idle]
            /\ UNCHANGED <<key, acct, grants, sess, token, told, writes, history>>
  <2>1. RequestsOK' BY <1>15, RequestsKept DEF history
  <2> QED BY <1>0, <1>1, <1>2, <1>15, <2>1 DEF Typed, history
<1> QED BY <1>3, <1>4, <1>5, <1>6, <1>7, <1>8, <1>9, <1>10, <1>11, <1>12, <1>13, <1>14, <1>15, StepIs

(* No step but a registration makes an account, and none makes an account unmade. *)
NoneIsNone == \A a \in Accounts : acct'[a].status = "none" <=> acct[a].status = "none"

LEMMA NoneStep ==
  ASSUME Typed, [Next]_vars, key.used <= key.max, LinksProve
  PROVE  \/ \E q \in Requests : Register(q)
         \/ NoneIsNone /\ key'.used = key.used /\ key'.used <= key'.max
<1>1. CASE UNCHANGED <<key, acct>> BY <1>1 DEF NoneIsNone
<1>2. CASE \E q \in Requests : Read(q)
  <2>1. UNCHANGED <<key, acct>> BY <1>2, ReadIs
  <2> QED BY <1>1, <2>1
<1>3. CASE \E q \in Requests : Verify(q)
  <2>1. PICK q \in Requests : Verify(q) BY <1>3
  <2>2. PICK a \in Accounts : Proves(q, a) BY <2>1, VerifyIs
  <2> QED BY <2>2 DEF Proves, NoneIsNone
<1>4. CASE RowStep
  <2>1. PICK a \in Accounts : Rewrites(a) BY <1>4, RowStepIs
  <2> QED BY <2>1 DEF Rewrites, NoneIsNone
<1>5. CASE \E q \in Requests : Login(q) \/ Refresh(q)
  <2>1. UNCHANGED <<key, acct>> BY <1>5, OpensIs
  <2> QED BY <1>1, <2>1
<1>6. CASE \E q \in Requests : Logout(q)
  <2>1. UNCHANGED <<key, acct>> BY <1>6, LogoutIs
  <2> QED BY <1>1, <2>1
<1>7. CASE \E q \in Requests : ResetPassword(q) \/ ChangePassword(q)
  <2>1. PICK q \in Requests : ResetPassword(q) \/ ChangePassword(q) BY <1>7
  <2>2. PICK a \in Accounts : SetsPassword(q, a) BY <2>1, PasswordIs
  <2> QED BY <2>2 DEF SetsPassword, NoneIsNone
<1>8. CASE \E q \in Requests : SetStatus(q)
  <2>1. PICK q \in Requests : SetStatus(q) BY <1>8
  <2>2. PICK a \in Accounts, st \in {"active", "suspended"} : SetsStatus(q, a, st) BY <2>1, SetStatusIs
  <2> QED BY <2>2 DEF SetsStatus, NoneIsNone, Exists
<1>9. CASE \E q \in Requests : SetRole(q)
  <2>1. PICK q \in Requests : SetRole(q) BY <1>9
  <2>2. PICK a \in Accounts, r \in Roles : SetsRole(q, a, r) BY <2>1, SetRoleIs
  <2> QED BY <2>2 DEF SetsRole, NoneIsNone
<1>10. CASE \E a \in Accounts : Delete(a)
  <2>1. PICK a \in Accounts : Delete(a) BY <1>10
  <2>2. /\ Exists(a) /\ acct'[a].status = "deleted" /\ key' = key
        /\ \A b \in Accounts \ {a} : acct'[b] = acct[b]
    BY <2>1, DeleteIs
  <2> QED BY <2>2 DEF NoneIsNone, Exists
<1>11. CASE \E a \in Accounts, p \in Perms : ChangePermission(a, p)
  <2>1. UNCHANGED <<key, acct>> BY <1>11, ChangePermissionIs
  <2> QED BY <1>1, <2>1
<1>12. CASE (\E q \in Requests : PatchKey(q)) \/ (\E to \in {"active", "suspended", "revoked"} : SetKeyStatus(to))
  <2>1. acct' = acct /\ key'.used = key.used /\ key'.used <= key'.max BY <1>12, KeyStepIs
  <2> QED BY <2>1 DEF NoneIsNone
<1> QED BY <1>1, <1>2, <1>3, <1>4, <1>5, <1>6, <1>7, <1>8, <1>9, <1>10, <1>11, <1>12, StepIs

Made == {a \in Accounts \ Members : acct[a].status # "none"}

(* The key is counted with every account that is made with it. *)
LEMMA UsesStep ==
  ASSUME Typed, [Next]_vars, LinksProve, NewAccounts, key.used <= key.max, key.used = Cardinality(Made)
  PROVE  key'.used <= key'.max /\ key'.used = Cardinality(Made') /\ IsFiniteSet(Made')
<1>1. IsFiniteSet(Made) BY DEF NewAccounts, Made
<1>2. CASE NoneIsNone /\ key'.used = key.used /\ key'.used <= key'.max
  <2>1. Made' = Made BY <1>2 DEF Made, NoneIsNone
  <2> QED BY <1>1, <1>2, <2>1
<1>3. CASE \E q \in Requests : Register(q)
  <2>1. PICK q \in Requests : Register(q) BY <1>3
  <2>2. PICK a \in Accounts : Registers(q, a) BY <2>1, RegisterIs
  <2>3. a \notin Members /\ a \notin Made BY <2>2 DEF NewAccounts, Registers, Made
  <2>4. Made' = Made \union {a} BY <2>2, <2>3 DEF Made, Registers
  <2>5. Cardinality(Made \union {a}) = Cardinality(Made) + 1 /\ IsFiniteSet(Made \union {a})
    BY <1>1, <2>3, FS_AddElement
  <2>6. key'.used <= key'.max
    BY <2>2, TypeIs DEF Registers, KeyUsable, Typed
  <2> QED BY <2>2, <2>4, <2>5, <2>6 DEF Registers
<1> QED BY <1>2, <1>3, NoneStep

(* What no step changes but the ones named for it: the address, its link, and whether it counts as verified. *)
MailsKept(a) ==
  /\ acct'[a].mail = acct[a].mail /\ acct'[a].link = acct[a].link /\ acct'[a].verified = acct[a].verified
  /\ acct'[a].status = "none" <=> acct[a].status = "none"
  /\ Exists(a)' => Exists(a)

LEMMA MailStep ==
  ASSUME Typed, LinksProve, key.used <= key.max, [Next]_vars, NEW a \in Accounts
  PROVE  /\ proven[a] \subseteq proven'[a] /\ stale[a] \subseteq stale'[a]
         /\ \/ MailsKept(a)
            \/ \E q \in Requests : Registers(q, a)
            \/ \E q \in Requests : Proves(q, a)
            \/ Rewrites(a)
<1>1. CASE UNCHANGED <<acct, proven, stale>> BY <1>1 DEF MailsKept, Exists
<1>2. CASE \E q \in Requests : Read(q)
  <2>1. UNCHANGED <<acct, history>> BY <1>2, ReadIs
  <2> QED BY <1>1, <2>1 DEF history
<1>3. CASE \E q \in Requests : Register(q)
  <2>1. PICK q \in Requests : Register(q) BY <1>3
  <2>2. PICK b \in Accounts : Registers(q, b) BY <2>1, RegisterIs
  <2>3. CASE a = b BY <2>1, <2>2, <2>3, Zenon DEF Registers, history
  <2>4. CASE a # b BY <2>2, <2>4 DEF Registers, MailsKept, Exists, history
  <2> QED BY <2>3, <2>4
<1>4. CASE \E q \in Requests : Verify(q)
  <2>1. PICK q \in Requests : Verify(q) BY <1>4
  <2>2. PICK b \in Accounts : Proves(q, b) BY <2>1, VerifyIs
  <2>3. CASE a = b
    <3>1. Proves(q, a) BY <2>2, <2>3
    <3>2. proven[a] \subseteq proven'[a] /\ stale[a] \subseteq stale'[a] BY <3>1 DEF Proves
    <3> QED BY <3>1, <3>2
  <2>4. CASE a # b BY <2>2, <2>4 DEF Proves, MailsKept, Exists
  <2> QED BY <2>3, <2>4
<1>5. CASE RowStep
  <2>1. PICK b \in Accounts : Rewrites(b) BY <1>5, RowStepIs
  <2>2. CASE a = b BY <2>1, <2>2 DEF Rewrites
  <2>3. CASE a # b BY <2>1, <2>3 DEF Rewrites, MailsKept, Exists
  <2> QED BY <2>2, <2>3
<1>6. CASE \E q \in Requests : Login(q) \/ Refresh(q)
  <2>1. UNCHANGED <<acct, proven, stale>> BY <1>6, OpensIs
  <2> QED BY <1>1, <2>1
<1>7. CASE \E q \in Requests : Logout(q)
  <2>1. UNCHANGED <<acct, history>> BY <1>7, LogoutIs
  <2> QED BY <1>1, <2>1 DEF history
<1>8. CASE \E q \in Requests : ResetPassword(q) \/ ChangePassword(q)
  <2>1. PICK q \in Requests : ResetPassword(q) \/ ChangePassword(q) BY <1>8
  <2>2. PICK b \in Accounts : SetsPassword(q, b) BY <2>1, PasswordIs
  <2> QED BY <2>2 DEF SetsPassword, MailsKept, Exists
<1>9. CASE \E q \in Requests : SetStatus(q)
  <2>1. PICK q \in Requests : SetStatus(q) BY <1>9
  <2>2. PICK b \in Accounts, st \in {"active", "suspended"} : SetsStatus(q, b, st) BY <2>1, SetStatusIs
  <2> QED BY <2>2 DEF SetsStatus, MailsKept, Exists
<1>10. CASE \E q \in Requests : SetRole(q)
  <2>1. PICK q \in Requests : SetRole(q) BY <1>10
  <2>2. PICK b \in Accounts, r \in Roles : SetsRole(q, b, r) BY <2>1, SetRoleIs
  <2> QED BY <2>2 DEF SetsRole, MailsKept, Exists
<1>11. CASE \E b \in Accounts : Delete(b)
  <2>1. PICK b \in Accounts : Delete(b) BY <1>11
  <2>2. /\ Exists(b) /\ acct'[b].status = "deleted" /\ UNCHANGED history
        /\ acct'[b].mail = acct[b].mail /\ acct'[b].link = acct[b].link /\ acct'[b].verified = acct[b].verified
        /\ \A c \in Accounts \ {b} : acct'[c] = acct[c]
    BY <2>1, DeleteIs
  <2> QED BY <2>2 DEF MailsKept, Exists, history
<1>12. CASE \E b \in Accounts, p \in Perms : ChangePermission(b, p)
  <2>1. UNCHANGED <<acct, history>> BY <1>12, ChangePermissionIs
  <2> QED BY <1>1, <2>1 DEF history
<1>13. CASE (\E q \in Requests : PatchKey(q)) \/ (\E to \in {"active", "suspended", "revoked"} : SetKeyStatus(to))
  <2>1. UNCHANGED <<acct, history>> BY <1>13, KeyStepIs
  <2> QED BY <1>1, <2>1 DEF history
<1>14. CASE UNCHANGED <<acct, history>> BY <1>1, <1>14 DEF history
<1> QED BY <1>2, <1>3, <1>4, <1>5, <1>6, <1>7, <1>8, <1>9, <1>10, <1>11, <1>12, <1>13, <1>14, StepIs

LEMMA NewAccountsStep ==
  ASSUME Typed, LinksProve, NewAccounts, key.used <= key.max, key.used = Cardinality(Made), [Next]_vars
  PROVE  NewAccounts'
<1>1. IsFiniteSet(Made)' BY UsesStep
<1>2. ASSUME NEW a \in Accounts, acct'[a].status = "none"
      PROVE  a \notin Members /\ ~acct'[a].verified /\ acct'[a].mail = 1
  <2>1. CASE MailsKept(a)
    BY <1>2, <2>1 DEF NewAccounts, MailsKept
  <2>2. CASE \E q \in Requests : Registers(q, a) BY <1>2, <2>2 DEF Registers
  <2>3. CASE \E q \in Requests : Proves(q, a)
    <3>1. acct[a].status = "none" /\ acct'[a] = acct[a] BY <1>2, <2>3 DEF Proves, Exists
    <3> QED BY <3>1 DEF NewAccounts
  <2>4. CASE Rewrites(a) BY <1>2, <2>4 DEF Rewrites, NewAccounts, SameMail
  <2> QED BY <2>1, <2>2, <2>3, <2>4, MailStep
<1> QED BY <1>1, <1>2 DEF NewAccounts, Made

LEMMA LinksStep ==
  ASSUME Typed, LinksProve, NewAccounts, key.used <= key.max, [Next]_vars
  PROVE  LinksProve'
<1>1. ASSUME NEW a \in Accounts, acct'[a].link # 0
      PROVE  acct'[a].link = acct'[a].mail \/ acct'[a].mail \in proven'[a] \/ "mail" \in stale'[a]
  <2>0. proven[a] \subseteq proven'[a] /\ stale[a] \subseteq stale'[a] BY MailStep
  <2>1. CASE MailsKept(a) BY <1>1, <2>0, <2>1 DEF LinksProve, MailsKept
  <2>2. CASE \E q \in Requests : Registers(q, a) BY <2>2 DEF Registers, NewAccounts
  <2>3. CASE \E q \in Requests : Proves(q, a)
    <3>1. acct'[a] = acct[a] BY <1>1, <2>3 DEF Proves
    <3> QED BY <1>1, <2>0, <3>1 DEF LinksProve
  <2>4. CASE Rewrites(a) BY <1>1, <2>0, <2>4 DEF Rewrites, LinksProve, SameMail
  <2> QED BY <2>1, <2>2, <2>3, <2>4, MailStep
<1> QED BY <1>1 DEF LinksProve

LEMMA VerifiedStep ==
  ASSUME Typed, LinksProve, NewAccounts, key.used <= key.max, VerifiedIsProven, [Next]_vars
  PROVE  VerifiedIsProven'
<1>1. ASSUME NEW a \in Accounts, Exists(a)', acct'[a].verified
      PROVE  acct'[a].mail \in proven'[a] \/ "mail" \in stale'[a]
  <2>0. proven[a] \subseteq proven'[a] /\ stale[a] \subseteq stale'[a] BY MailStep
  <2>1. CASE MailsKept(a) BY <1>1, <2>0, <2>1 DEF VerifiedIsProven, MailsKept
  <2>2. CASE \E q \in Requests : Registers(q, a) BY <1>1, <2>2 DEF Registers, NewAccounts
  <2>3. CASE \E q \in Requests : Proves(q, a)
    <3>1. PICK q \in Requests : Proves(q, a) BY <2>3
    <3>2. req[q].op = "verify" /\ a = req[q].of BY <3>1 DEF Proves
    <3>3. \/ req[q].arg = req[q].row.mail \/ req[q].row.mail \in proven[a] \/ "mail" \in stale[a]
      BY <3>2, RequestOf DEF RequestKnows
    <3>4. Changed(q, "mail") \/ req[q].row.mail = acct[a].mail BY <3>2 DEF Changed
    <3> QED BY <2>0, <3>1, <3>3, <3>4 DEF Proves
  <2>4. CASE Rewrites(a)
    <3>1. CASE Exists(a)
      BY <1>1, <2>0, <2>4, <3>1 DEF Rewrites, VerifiedIsProven, SameMail
    <3>2. CASE ~Exists(a) BY <1>1, <2>4, <3>2 DEF Rewrites, Exists
    <3> QED BY <3>1, <3>2
  <2> QED BY <2>1, <2>2, <2>3, <2>4, MailStep
<1> QED BY <1>1 DEF VerifiedIsProven

(* What a step does with the codes: some are cleared, a new one is sent, or one is used. *)
CodesClear == spent' = spent /\ \A b \in Accounts : acct'[b].code \in {0, acct[b].code}
CodeSent(a) ==
  /\ acct'[a].code = Len(spent) + 1 /\ spent' = Append(spent, 0)
  /\ \A b \in Accounts \ {a} : acct'[b].code = acct[b].code
CodeUsed(a) ==
  /\ acct[a].code \in Nat \ {0} /\ acct'[a].code = 0
  /\ spent' = [spent EXCEPT ![acct[a].code] = spent[acct[a].code] + 1]
  /\ \A b \in Accounts \ {a} : acct'[b].code = acct[b].code

LEMMA CodeStep ==
  ASSUME Typed, LinksProve, key.used <= key.max, [Next]_vars
  PROVE  CodesClear \/ \E a \in Accounts : CodeSent(a) \/ CodeUsed(a)
<1>1. CASE UNCHANGED <<acct, spent>> BY <1>1 DEF CodesClear
<1>2. CASE \E q \in Requests : Read(q)
  <2>1. UNCHANGED <<acct, history>> BY <1>2, ReadIs
  <2> QED BY <1>1, <2>1 DEF history
<1>3. CASE \E q \in Requests : Register(q)
  <2>1. PICK q \in Requests : Register(q) BY <1>3
  <2>2. PICK b \in Accounts : Registers(q, b) BY <2>1, RegisterIs
  <2> QED BY <2>2 DEF Registers, CodesClear, history
<1>4. CASE \E q \in Requests : Verify(q)
  <2>1. PICK q \in Requests : Verify(q) BY <1>4
  <2>2. PICK b \in Accounts : Proves(q, b) BY <2>1, VerifyIs
  <2> QED BY <2>2 DEF Proves, CodesClear
<1>5. CASE RowStep
  <2>1. PICK b \in Accounts : Rewrites(b) BY <1>5, RowStepIs
  <2> QED BY <2>1 DEF Rewrites, CodesClear, CodeSent, SameCode
<1>6. CASE \E q \in Requests : Login(q) \/ Refresh(q)
  <2>1. UNCHANGED <<acct, spent>> BY <1>6, OpensIs
  <2> QED BY <1>1, <2>1
<1>7. CASE \E q \in Requests : Logout(q)
  <2>1. UNCHANGED <<acct, history>> BY <1>7, LogoutIs
  <2> QED BY <1>1, <2>1 DEF history
<1>8. CASE \E q \in Requests : ResetPassword(q) \/ ChangePassword(q)
  <2>1. PICK q \in Requests : ResetPassword(q) \/ ChangePassword(q) BY <1>8
  <2>2. PICK b \in Accounts : SetsPassword(q, b) BY <2>1, PasswordIs
  <2> QED BY <2>2 DEF SetsPassword, CodesClear, CodeUsed
<1>9. CASE \E q \in Requests : SetStatus(q)
  <2>1. PICK q \in Requests : SetStatus(q) BY <1>9
  <2>2. PICK b \in Accounts, st \in {"active", "suspended"} : SetsStatus(q, b, st) BY <2>1, SetStatusIs
  <2> QED BY <2>2 DEF SetsStatus, CodesClear
<1>10. CASE \E q \in Requests : SetRole(q)
  <2>1. PICK q \in Requests : SetRole(q) BY <1>10
  <2>2. PICK b \in Accounts, r \in Roles : SetsRole(q, b, r) BY <2>1, SetRoleIs
  <2> QED BY <2>2 DEF SetsRole, CodesClear
<1>11. CASE \E b \in Accounts : Delete(b)
  <2>1. PICK b \in Accounts : Delete(b) BY <1>11
  <2>2. UNCHANGED history /\ acct'[b].code = acct[b].code /\ \A c \in Accounts \ {b} : acct'[c] = acct[c]
    BY <2>1, DeleteIs
  <2> QED BY <2>2 DEF CodesClear, history
<1>12. CASE \E b \in Accounts, p \in Perms : ChangePermission(b, p)
  <2>1. UNCHANGED <<acct, history>> BY <1>12, ChangePermissionIs
  <2> QED BY <1>1, <2>1 DEF history
<1>13. CASE (\E q \in Requests : PatchKey(q)) \/ (\E to \in {"active", "suspended", "revoked"} : SetKeyStatus(to))
  <2>1. UNCHANGED <<acct, history>> BY <1>13, KeyStepIs
  <2> QED BY <1>1, <2>1 DEF history
<1>14. CASE UNCHANGED <<acct, history>> BY <1>1, <1>14 DEF history
<1> QED BY <1>2, <1>3, <1>4, <1>5, <1>6, <1>7, <1>8, <1>9, <1>10, <1>11, <1>12, <1>13, <1>14, StepIs

UsedOnce == \A c \in DOMAIN spent : spent[c] <= 1

(* A code is used once: it stands no more when it has been used, and nobody else has it. *)
LEMMA CodesStep ==
  ASSUME Typed, LinksProve, key.used <= key.max, CodesStand, UsedOnce, [Next]_vars
  PROVE  CodesStand' /\ UsedOnce'
<1>0. /\ spent \in Seq(Nat) /\ DOMAIN spent = 1 .. Len(spent) /\ Len(spent) \in Nat
      /\ \A a \in Accounts : acct[a].code \in Nat
  BY TypeIs DEF Typed, HistoryType, Account
<1>1. CASE CodesClear BY <1>1 DEF CodesClear, CodesStand, UsedOnce
<1>2. ASSUME NEW a \in Accounts, CodeSent(a) PROVE CodesStand' /\ UsedOnce'
  <2> DEFINE n == Len(spent)
  <2>1. /\ Append(spent, 0) \in Seq(Nat) /\ Len(Append(spent, 0)) = n + 1
        /\ \A c \in 1 .. n : Append(spent, 0)[c] = spent[c]
        /\ Append(spent, 0)[n + 1] = 0
    BY <1>0, NewCodeIs
  <2>2. /\ spent' \in Seq(Nat) /\ Len(spent') = n + 1 /\ DOMAIN spent' = 1 .. (n + 1)
        /\ \A c \in 1 .. n : spent'[c] = spent[c]
        /\ spent'[n + 1] = 0 /\ acct'[a].code = n + 1
        /\ \A b \in Accounts \ {a} : acct'[b].code = acct[b].code
    BY <1>2, <2>1 DEF CodeSent
  <2>3. n \in Nat /\ DOMAIN spent = 1 .. n BY <1>0
  <2> HIDE DEF n
  <2>4. \A b \in Accounts : acct[b].code # 0 => acct[b].code \in 1 .. n /\ spent[acct[b].code] = 0
    BY <2>3 DEF CodesStand, n
  <2>5. \A b \in Accounts : acct'[b].code # 0 => acct'[b].code \in 1 .. (n + 1) /\ spent'[acct'[b].code] = 0
    BY <2>2, <2>3, <2>4
  <2>6. \A b, c \in Accounts : acct'[b].code # 0 /\ acct'[b].code = acct'[c].code => b = c
    BY <2>2, <2>3, <2>4 DEF CodesStand
  <2>7. \A c \in 1 .. (n + 1) : spent'[c] <= 1 BY <2>2, <2>3 DEF UsedOnce
  <2> QED BY <2>2, <2>5, <2>6, <2>7 DEF CodesStand, UsedOnce
<1>3. ASSUME NEW a \in Accounts, CodeUsed(a) PROVE CodesStand' /\ UsedOnce'
  <2> DEFINE k == acct[a].code
  <2>1. k \in 1 .. Len(spent) /\ spent[k] = 0 BY <1>3 DEF CodeUsed, CodesStand
  <2>2. /\ spent' = [spent EXCEPT ![k] = spent[k] + 1] /\ acct'[a].code = 0
        /\ \A b \in Accounts \ {a} : acct'[b].code = acct[b].code
    BY <1>3 DEF CodeUsed
  <2>3. \A b \in Accounts \ {a} : acct'[b].code # k \/ acct'[b].code = 0 BY <2>2 DEF CodesStand
  <2> HIDE DEF k
  <2>4. /\ DOMAIN spent' = DOMAIN spent /\ spent'[k] = 1 /\ Len(spent') = Len(spent)
        /\ \A c \in DOMAIN spent \ {k} : spent'[c] = spent[c]
    BY <1>0, <2>1, <2>2
  <2>5. \A b \in Accounts : acct'[b].code # 0 => acct'[b].code \in 1 .. Len(spent') /\ spent'[acct'[b].code] = 0
    BY <1>0, <2>2, <2>3, <2>4 DEF CodesStand
  <2>6. \A b, c \in Accounts : acct'[b].code # 0 /\ acct'[b].code = acct'[c].code => b = c
    BY <2>2 DEF CodesStand
  <2>7. UsedOnce' BY <2>4 DEF UsedOnce
  <2> QED BY <2>5, <2>6, <2>7 DEF CodesStand
<1> QED BY <1>1, <1>2, <1>3, CodeStep

(* What the outbox says of the row of an account, and of its sessions. *)
RowTold(a) ==
  /\ told[a].gone <=> acct[a].status = "deleted"
  /\ Exists(a) => /\ told[a].status = acct[a].status \/ "status" \in stale[a]
                  /\ told[a].role = acct[a].role \/ "role" \in stale[a]
                  /\ told[a].perms = grants[a]
EndsTold == \A s \in Sids : sess[s].of # NoOne /\ ~sess[s].live => s \in told[sess[s].of].ended

LEMMA OutboxIs == ASSUME Typed PROVE OutboxTellsAll <=> (\A a \in Accounts : RowTold(a)) /\ EndsTold
<1>1. \A s \in Sids : sess[s].of \in Accounts \union {NoOne} BY TypeIs DEF Typed, Session
<1>2. NoOne \notin Accounts BY AccountsAssumption DEF AccountsAssumption
<1> QED BY <1>1, <1>2 DEF OutboxTellsAll, RowTold, EndsTold, SidsOf

LEMMA RowToldStep ==
  ASSUME Typed, LinksProve, key.used <= key.max, \A a \in Accounts : RowTold(a), [Next]_vars, NEW a \in Accounts
  PROVE  RowTold(a)'
<1>0. RowTold(a) OBVIOUS
<1>1. CASE acct'[a] = acct[a] /\ told'[a] = told[a] /\ grants'[a] = grants[a] /\ stale[a] \subseteq stale'[a]
  BY <1>0, <1>1 DEF RowTold, Exists
<1>2. CASE \E q \in Requests : Read(q)
  <2>1. UNCHANGED <<acct, told, grants, history>> BY <1>2, ReadIs
  <2> QED BY <1>1, <2>1 DEF history
<1>3. CASE \E q \in Requests : Register(q)
  <2>1. PICK q \in Requests : Register(q) BY <1>3
  <2>2. PICK b \in Accounts : Registers(q, b) BY <2>1, RegisterIs
  <2>3. CASE a = b BY <1>0, <2>2, <2>3 DEF Registers, RowTold, Exists
  <2>4. CASE a # b BY <1>1, <2>2, <2>4 DEF Registers, history
  <2> QED BY <2>3, <2>4
<1>4. CASE \E q \in Requests : Verify(q)
  <2>1. PICK q \in Requests : Verify(q) BY <1>4
  <2>2. PICK b \in Accounts : Proves(q, b) BY <2>1, VerifyIs
  <2>3. CASE a = b
    <3>1. Changed(q, "status") \/ req[q].row.status = acct[a].status BY <2>2, <2>3 DEF Changed, Proves
    <3>2. CASE Changed(q, "status") BY <1>0, <2>2, <2>3, <3>2 DEF Proves, RowTold, Exists
    <3>3. CASE req[q].row.status = acct[a].status BY <1>0, <2>2, <2>3, <3>3 DEF Proves, RowTold, Exists
    <3> QED BY <3>1, <3>2, <3>3
  <2>4. CASE a # b BY <1>1, <2>2, <2>4 DEF Proves
  <2> QED BY <2>3, <2>4
<1>5. CASE RowStep
  <2>1. PICK b \in Accounts : Rewrites(b) BY <1>5, RowStepIs
  <2> QED BY <1>0, <2>1 DEF Rewrites, RowTold, Exists
<1>6. CASE \E q \in Requests : Login(q) \/ Refresh(q)
  <2>1. UNCHANGED <<acct, told, grants, stale>> BY <1>6, OpensIs
  <2> QED BY <1>1, <2>1
<1>7. CASE \E q \in Requests : Logout(q)
  <2>1. /\ UNCHANGED <<acct, grants, history>>
        /\ told'[a].status = told[a].status /\ told'[a].role = told[a].role
        /\ told'[a].perms = told[a].perms /\ told'[a].gone = told[a].gone
    BY <1>7, LogoutIs
  <2> QED BY <1>0, <2>1 DEF RowTold, Exists, history
<1>8. CASE \E q \in Requests : ResetPassword(q) \/ ChangePassword(q)
  <2>1. PICK q \in Requests : ResetPassword(q) \/ ChangePassword(q) BY <1>8
  <2>2. PICK b \in Accounts : SetsPassword(q, b) BY <2>1, PasswordIs
  <2> QED BY <1>0, <2>2 DEF SetsPassword, RowTold, Exists
<1>9. CASE \E q \in Requests : SetStatus(q)
  <2>1. PICK q \in Requests : SetStatus(q) BY <1>9
  <2>2. PICK b \in Accounts, st \in {"active", "suspended"} : SetsStatus(q, b, st) BY <2>1, SetStatusIs
  <2>3. CASE a = b
    <3>1. Changed(q, "status") \/ req[q].row.status = acct[a].status BY <2>2, <2>3 DEF Changed, SetsStatus
    <3>2. CASE Changed(q, "status") BY <1>0, <2>2, <2>3, <3>2 DEF SetsStatus, RowTold, Exists
    <3>3. CASE req[q].row.status = acct[a].status BY <1>0, <2>2, <2>3, <3>3 DEF SetsStatus, RowTold, Exists
    <3> QED BY <3>1, <3>2, <3>3
  <2>4. CASE a # b BY <1>1, <2>2, <2>4 DEF SetsStatus
  <2> QED BY <2>3, <2>4
<1>10. CASE \E q \in Requests : SetRole(q)
  <2>1. PICK q \in Requests : SetRole(q) BY <1>10
  <2>2. PICK b \in Accounts, r \in Roles : SetsRole(q, b, r) BY <2>1, SetRoleIs
  <2>3. CASE a = b
    <3>1. Changed(q, "role") \/ req[q].row.role = acct[a].role BY <2>2, <2>3 DEF Changed, SetsRole
    <3>2. CASE Changed(q, "role") BY <1>0, <2>2, <2>3, <3>2 DEF SetsRole, RowTold, Exists
    <3>3. CASE req[q].row.role = acct[a].role BY <1>0, <2>2, <2>3, <3>3 DEF SetsRole, RowTold, Exists
    <3> QED BY <3>1, <3>2, <3>3
  <2>4. CASE a # b BY <1>1, <2>2, <2>4 DEF SetsRole
  <2> QED BY <2>3, <2>4
<1>11. CASE \E b \in Accounts : Delete(b)
  <2>1. PICK b \in Accounts : Delete(b) BY <1>11
  <2>2. /\ UNCHANGED history /\ acct'[b].status = "deleted" /\ told'[b].gone
        /\ \A c \in Accounts \ {b} : acct'[c] = acct[c] /\ told'[c] = told[c] /\ grants'[c] = grants[c]
    BY <2>1, DeleteIs
  <2>3. CASE a = b BY <2>2, <2>3 DEF RowTold, Exists
  <2>4. CASE a # b BY <1>1, <2>2, <2>4 DEF history
  <2> QED BY <2>3, <2>4
<1>12. CASE \E b \in Accounts, p \in Perms : ChangePermission(b, p)
  <2>1. PICK b \in Accounts, p \in Perms : ChangePermission(b, p) BY <1>12
  <2>2. /\ Exists(b) /\ UNCHANGED <<acct, history>>
        /\ \A c \in Accounts \ {b} : told'[c] = told[c] /\ grants'[c] = grants[c]
        /\ told[b].perms = grants[b] => told'[b].perms = grants'[b]
        /\ told'[b].status = told[b].status /\ told'[b].role = told[b].role /\ told'[b].gone = told[b].gone
    BY <2>1, ChangePermissionIs
  <2>3. CASE a = b BY <1>0, <2>2, <2>3 DEF RowTold, Exists, history
  <2>4. CASE a # b BY <1>1, <2>2, <2>4 DEF history
  <2> QED BY <2>3, <2>4
<1>13. CASE (\E q \in Requests : PatchKey(q)) \/ (\E to \in {"active", "suspended", "revoked"} : SetKeyStatus(to))
  <2>1. UNCHANGED <<acct, grants, told, history>> BY <1>13, KeyStepIs
  <2> QED BY <1>1, <2>1 DEF history
<1>14. CASE UNCHANGED <<acct, grants, told, history>> BY <1>1, <1>14 DEF history
<1> QED BY <1>2, <1>3, <1>4, <1>5, <1>6, <1>7, <1>8, <1>9, <1>10, <1>11, <1>12, <1>13, <1>14, StepIs

(* What the steps do to sessions, and what the outbox says of that. *)
LEMMA EndsToldStep ==
  ASSUME Typed, LinksProve, key.used <= key.max, EndsTold, [Next]_vars
  PROVE  EndsTold'
<1>0. \A s \in Sids : sess[s].of \in Accounts \union {NoOne} BY TypeIs DEF Typed, Session
<1>1. CASE UNCHANGED <<sess, told>> BY <1>1 DEF EndsTold
<1>20. ASSUME NEW a \in Accounts, sess' = sess \/ EndAll(a),
              \A b \in Accounts \ {a} : told'[b] = told[b],
              \A s \in Sids : s \in told[a].ended \/ (sess' # sess /\ sess[s].of = a) => s \in told'[a].ended
       PROVE  EndsTold'
  <2>1. ASSUME NEW s \in Sids, sess'[s].of # NoOne, ~sess'[s].live PROVE s \in told'[sess'[s].of].ended
    <3>1. sess'[s].of = sess[s].of /\ (sess[s].live => sess' # sess /\ sess[s].of = a) BY <1>20, <2>1, EndAllIs
    <3>2. CASE sess[s].of = a BY <1>20, <2>1, <3>1, <3>2 DEF EndsTold
    <3>3. CASE sess[s].of # a BY <1>0, <1>20, <2>1, <3>1, <3>3 DEF EndsTold
    <3> QED BY <3>2, <3>3
  <2> QED BY <2>1 DEF EndsTold
<1>2. CASE \E q \in Requests : Read(q)
  <2>1. UNCHANGED <<sess, told>> BY <1>2, ReadIs
  <2> QED BY <1>1, <2>1
<1>3. CASE \E q \in Requests : Register(q)
  <2>1. PICK q \in Requests : Register(q) BY <1>3
  <2>2. PICK b \in Accounts : Registers(q, b) BY <2>1, RegisterIs
  <2> QED BY <1>20, <2>2 DEF Registers
<1>4. CASE \E q \in Requests : Verify(q)
  <2>1. PICK q \in Requests : Verify(q) BY <1>4
  <2>2. PICK b \in Accounts : Proves(q, b) BY <2>1, VerifyIs
  <2> QED BY <1>20, <2>2 DEF Proves
<1>5. CASE RowStep
  <2>1. PICK b \in Accounts : Rewrites(b) BY <1>5, RowStepIs
  <2> QED BY <1>1, <2>1 DEF Rewrites
<1>6. CASE \E q \in Requests : Login(q) \/ Refresh(q)
  <2>1. PICK q \in Requests : Login(q) \/ Refresh(q) BY <1>6
  <2>2. told' = told /\ \E s \in Sids : (\A r \in Sids \ {s} : sess'[r] = sess[r]) /\ sess'[s].live BY <2>1, OpensIs
  <2> QED BY <2>2 DEF EndsTold
<1>7. CASE \E q \in Requests : Logout(q)
  <2>1. PICK q \in Requests : Logout(q) BY <1>7
  <2>2. /\ \A s \in Sids : sess'[s].of = sess[s].of
                           /\ (sess[s].live /\ ~sess'[s].live => s \in told'[sess[s].of].ended)
        /\ \A a \in Accounts : told[a].ended \subseteq told'[a].ended
    BY <2>1, LogoutIs
  <2>3. ASSUME NEW s \in Sids, sess'[s].of # NoOne, ~sess'[s].live PROVE s \in told'[sess'[s].of].ended
    BY <1>0, <2>2, <2>3 DEF EndsTold
  <2> QED BY <2>3 DEF EndsTold
<1>8. CASE \E q \in Requests : ResetPassword(q) \/ ChangePassword(q)
  <2>1. PICK q \in Requests : ResetPassword(q) \/ ChangePassword(q) BY <1>8
  <2>2. PICK b \in Accounts : SetsPassword(q, b) BY <2>1, PasswordIs
  <2> QED BY <1>20, <2>2 DEF SetsPassword
<1>9. CASE \E q \in Requests : SetStatus(q)
  <2>1. PICK q \in Requests : SetStatus(q) BY <1>9
  <2>2. PICK b \in Accounts, st \in {"active", "suspended"} : SetsStatus(q, b, st) BY <2>1, SetStatusIs
  <2> QED BY <1>20, <2>2 DEF SetsStatus
<1>10. CASE \E q \in Requests : SetRole(q)
  <2>1. PICK q \in Requests : SetRole(q) BY <1>10
  <2>2. PICK b \in Accounts, r \in Roles : SetsRole(q, b, r) BY <2>1, SetRoleIs
  <2> QED BY <1>20, <2>2 DEF SetsRole
<1>11. CASE \E b \in Accounts : Delete(b)
  <2>1. PICK b \in Accounts : Delete(b) BY <1>11
  <2>2. /\ EndAll(b) /\ \A c \in Accounts \ {b} : told'[c] = told[c]
        /\ \A s \in Sids : s \in told[b].ended \/ sess[s].of = b => s \in told'[b].ended
    BY <2>1, DeleteIs
  <2> QED BY <1>20, <2>2
<1>12. CASE \E b \in Accounts, p \in Perms : ChangePermission(b, p)
  <2>1. PICK b \in Accounts, p \in Perms : ChangePermission(b, p) BY <1>12
  <2>2. /\ sess' = sess /\ told'[b].ended = told[b].ended /\ \A c \in Accounts \ {b} : told'[c] = told[c]
    BY <2>1, ChangePermissionIs
  <2> QED BY <1>20, <2>2
<1>13. CASE (\E q \in Requests : PatchKey(q)) \/ (\E to \in {"active", "suspended", "revoked"} : SetKeyStatus(to))
  <2>1. UNCHANGED <<sess, told>> BY <1>13, KeyStepIs
  <2> QED BY <1>1, <2>1
<1> QED BY <1>1, <1>2, <1>3, <1>4, <1>5, <1>6, <1>7, <1>8, <1>9, <1>10, <1>11, <1>12, <1>13, StepIs

(* A session whose account is as it says. *)
Current(s) ==
  /\ sess[s].of \in Accounts /\ Exists(sess[s].of) /\ acct[sess[s].of].status # "suspended"
  /\ sess[s].pass = acct[sess[s].of].pass
  /\ sess[s].role = acct[sess[s].of].role \/ "role" \in stale[sess[s].of]

LEMMA CurrentStep ==
  ASSUME Typed, LinksProve, key.used <= key.max, SessionsAreCurrent, [Next]_vars, NEW s \in Sids,
         sess'[s].live, s \notin late'
  PROVE  Current(s)'
<1>0. ASSUME sess[s].live, s \notin late PROVE sess[s].of \in Accounts /\ Current(s)
  <2>1. sess[s].of \in Accounts BY <1>0, TypeIs DEF Typed, OwnersAgree, Session
  <2> QED BY <1>0, <2>1 DEF SessionsAreCurrent, Current
(* It was live, and its account has not changed. *)
<1>1. CASE /\ sess[s].live /\ s \notin late /\ sess'[s].of = sess[s].of
           /\ sess'[s].pass = sess[s].pass /\ sess'[s].role = sess[s].role
           /\ acct'[sess[s].of] = acct[sess[s].of] /\ stale[sess[s].of] \subseteq stale'[sess[s].of]
  BY <1>0, <1>1 DEF Current, Exists
<1>2. CASE UNCHANGED <<sess, acct, late, stale>> BY <1>1, <1>2
<1>3. CASE \E q \in Requests : Read(q)
  <2>1. UNCHANGED <<sess, acct, history>> BY <1>3, ReadIs
  <2> QED BY <1>2, <2>1 DEF history
<1>4. CASE \E q \in Requests : Register(q)
  <2>1. PICK q \in Requests : Register(q) BY <1>4
  <2>2. PICK b \in Accounts : Registers(q, b) BY <2>1, RegisterIs
  <2>3. sess' = sess /\ late' = late /\ stale' = stale BY <2>2 DEF Registers, history
  <2>4. sess[s].of # b BY <1>0, <2>2, <2>3 DEF Registers, Current, Exists
  <2> QED BY <1>0, <1>1, <2>2, <2>3, <2>4 DEF Registers
<1>5. CASE \E q \in Requests : Verify(q)
  <2>1. PICK q \in Requests : Verify(q) BY <1>5
  <2>2. PICK b \in Accounts : Proves(q, b) BY <2>1, VerifyIs
  <2>3. sess' = sess /\ late' = late BY <2>2 DEF Proves
  <2>4. CASE sess[s].of = b BY <1>0, <2>2, <2>3, <2>4 DEF Proves, Current, Exists
  <2>5. CASE sess[s].of # b BY <1>0, <1>1, <2>2, <2>3, <2>5 DEF Proves
  <2> QED BY <2>4, <2>5
<1>6. CASE RowStep
  <2>1. PICK b \in Accounts : Rewrites(b) BY <1>6, RowStepIs
  <2>2. sess' = sess /\ late' = late BY <2>1 DEF Rewrites
  <2>3. CASE sess[s].of = b BY <1>0, <2>1, <2>2, <2>3 DEF Rewrites, Current, Exists
  <2>4. CASE sess[s].of # b BY <1>0, <1>1, <2>1, <2>2, <2>4 DEF Rewrites
  <2> QED BY <2>3, <2>4
<1>7. CASE \E q \in Requests : Login(q) \/ Refresh(q)
  <2>1. PICK q \in Requests : Login(q) \/ Refresh(q) BY <1>7
  <2>2. UNCHANGED <<acct, stale>> /\ late \subseteq late' BY <2>1, OpensIs
  <2>3. PICK r \in Sids :
              /\ \A o \in Sids \ {r} : sess'[o] = sess[o]
              /\ req[q].of \in Accounts /\ Exists(req[q].of)
              /\ sess'[r].of = req[q].of
              /\ sess'[r].pass = req[q].row.pass /\ sess'[r].role = req[q].row.role
              /\ r \in late' \/ (~Changed(q, "pass") /\ ~Changed(q, "role") /\ acct[req[q].of].status # "suspended")
    BY <2>1, OpensIs
  <2>4. CASE s = r BY <2>2, <2>3, <2>4 DEF Changed, Current, Exists
  <2>5. CASE s # r BY <1>1, <2>2, <2>3, <2>5
  <2> QED BY <2>4, <2>5
<1>8. CASE \E q \in Requests : Logout(q)
  <2>1. PICK q \in Requests : Logout(q) BY <1>8
  <2>2. /\ UNCHANGED <<acct, history>>
        /\ sess'[s].of = sess[s].of /\ sess'[s].pass = sess[s].pass /\ sess'[s].role = sess[s].role
        /\ sess[s].live
    BY <2>1, LogoutIs
  <2> QED BY <1>1, <2>2 DEF history
(* Everything of one account ends. *)
<1>9. ASSUME NEW b \in Accounts, EndAll(b), late' = late,
             \A c \in Accounts \ {b} : acct'[c] = acct[c] /\ stale[c] \subseteq stale'[c]
      PROVE  Current(s)'
  <2>1. /\ sess'[s].of = sess[s].of /\ sess'[s].pass = sess[s].pass /\ sess'[s].role = sess[s].role
        /\ sess[s].live /\ sess[s].of # b
    BY <1>9, EndAllIs
  <2> QED BY <1>0, <1>1, <1>9, <2>1
<1>10. CASE \E q \in Requests : ResetPassword(q) \/ ChangePassword(q)
  <2>1. PICK q \in Requests : ResetPassword(q) \/ ChangePassword(q) BY <1>10
  <2>2. PICK b \in Accounts : SetsPassword(q, b) BY <2>1, PasswordIs
  <2> QED BY <1>9, <2>2 DEF SetsPassword
<1>11. CASE \E q \in Requests : SetStatus(q)
  <2>1. PICK q \in Requests : SetStatus(q) BY <1>11
  <2>2. PICK b \in Accounts, st \in {"active", "suspended"} : SetsStatus(q, b, st) BY <2>1, SetStatusIs
  <2>3. CASE st = "suspended" BY <1>9, <2>2, <2>3 DEF SetsStatus
  <2>4. CASE st # "suspended"
    <3>1. sess' = sess /\ late' = late BY <2>2, <2>4 DEF SetsStatus
    <3>2. CASE sess[s].of = b BY <1>0, <2>2, <2>4, <3>1, <3>2 DEF SetsStatus, Current, Exists
    <3>3. CASE sess[s].of # b BY <1>0, <1>1, <2>2, <3>1, <3>3 DEF SetsStatus
    <3> QED BY <3>2, <3>3
  <2> QED BY <2>3, <2>4
<1>12. CASE \E q \in Requests : SetRole(q)
  <2>1. PICK q \in Requests : SetRole(q) BY <1>12
  <2>2. PICK b \in Accounts, r \in Roles : SetsRole(q, b, r) BY <2>1, SetRoleIs
  <2>3. CASE req[q].row.role # r BY <1>9, <2>2, <2>3 DEF SetsRole
  <2>4. CASE req[q].row.role = r
    <3>1. sess' = sess /\ late' = late BY <2>2, <2>4 DEF SetsRole
    <3>2. CASE sess[s].of = b
      <4>1. "role" \in stale'[b] \/ acct[b].role = r BY <2>2, <2>4 DEF SetsRole, Changed
      <4> QED BY <1>0, <2>2, <3>1, <3>2, <4>1 DEF SetsRole, Current, Exists
    <3>3. CASE sess[s].of # b BY <1>0, <1>1, <2>2, <3>1, <3>3 DEF SetsRole
    <3> QED BY <3>2, <3>3
  <2> QED BY <2>3, <2>4
<1>13. CASE \E b \in Accounts : Delete(b)
  <2>1. PICK b \in Accounts : Delete(b) BY <1>13
  <2>2. EndAll(b) /\ UNCHANGED history /\ \A c \in Accounts \ {b} : acct'[c] = acct[c] BY <2>1, DeleteIs
  <2> QED BY <1>9, <2>2 DEF history
<1>14. CASE \E b \in Accounts, p \in Perms : ChangePermission(b, p)
  <2>1. UNCHANGED <<sess, acct, history>> BY <1>14, ChangePermissionIs
  <2> QED BY <1>2, <2>1 DEF history
<1>15. CASE (\E q \in Requests : PatchKey(q)) \/ (\E to \in {"active", "suspended", "revoked"} : SetKeyStatus(to))
  <2>1. UNCHANGED <<sess, acct, history>> BY <1>15, KeyStepIs
  <2> QED BY <1>2, <2>1 DEF history
<1>16. CASE UNCHANGED <<sess, acct, history>> BY <1>2, <1>16 DEF history
<1> QED BY <1>3, <1>4, <1>5, <1>6, <1>7, <1>8, <1>10, <1>11, <1>12, <1>13, <1>14, <1>15, <1>16, StepIs

-----------------------------------------------------------------------------
(* The theorems *)

Inductive ==
  /\ Typed /\ LinksProve /\ NewAccounts /\ CodesStand
  /\ UsesAreCounted /\ OutboxTellsAll /\ SessionsAreCurrent /\ VerifiedIsProven

LEMMA InitIs == Init => Inductive
<1> SUFFICES ASSUME Init PROVE Inductive OBVIOUS
<1> USE AccountsAssumption DEF AccountsAssumption
<1>1. /\ key = [status |-> "active", max |-> 1, used |-> 0] /\ writes = 0 /\ late = {} /\ spent = <<>>
      /\ grants = [a \in Accounts |-> {}] /\ stale = [a \in Accounts |-> {}]
      /\ proven = [a \in Accounts |-> IF a \in Members THEN {1} ELSE {}]
      /\ req = [q \in Requests |-> Idle]
  BY DEF Init
<1>2. /\ acct \in [Accounts -> Account]
      /\ \A a \in Accounts : /\ acct[a].status = IF a \in Members THEN "active" ELSE "none"
                             /\ acct[a].verified = (a \in Members) /\ acct[a].role = KeyRole
                             /\ acct[a].pass = 0 /\ acct[a].mail = 1 /\ acct[a].link = 0 /\ acct[a].code = 0
  BY DEF Init, Account, Status
<1>3. /\ sess \in [Sids -> Session] /\ \A s \in Sids : sess[s].of = NoOne /\ ~sess[s].live
  BY DEF Init, Session
<1>4. /\ token \in [Tokens -> Token]
      /\ \A t \in Tokens : token[t].sid = 0 /\ (t \in Sids => token[t].of = NoOne)
  BY DEF Init, Token, Tokens
<1>5. /\ told \in [Accounts -> Account2]
      /\ \A a \in Accounts : /\ told[a].status = acct[a].status /\ told[a].role = KeyRole /\ told[a].perms = {}
                             /\ ~told[a].gone
  BY <1>2 DEF Init, Account2
<1>6. TypeOK BY <1>1, <1>2, <1>3, <1>4, <1>5, TypeIs
<1>7. HistoryType BY <1>1 DEF HistoryType, Columns
<1>8. RequestsOK BY <1>1 DEF RequestsOK, RequestsType, RequestType, RequestKnows, Idle
<1>9. OwnersAgree BY <1>3, <1>4 DEF OwnersAgree, Tokens
<1>10. Typed BY <1>6, <1>7, <1>8, <1>9 DEF Typed
<1>11. LinksProve /\ CodesStand /\ VerifiedIsProven BY <1>1, <1>2 DEF LinksProve, CodesStand, VerifiedIsProven, Exists
<1>12. Made = {} BY <1>2 DEF Made
<1>13. IsFiniteSet(Made) /\ Cardinality(Made) = 0
  <2>1. IsFiniteSet({}) /\ Cardinality({}) = 0 BY FS_EmptySet
  <2> QED BY <1>12, <2>1
<1>16. NewAccounts BY <1>2, <1>13 DEF NewAccounts, Made
<1>17. key.used = Cardinality(Made) /\ key.used <= key.max BY <1>1, <1>13
<1>18. \A c \in DOMAIN spent : spent[c] <= 1 BY <1>1
<1>19. UsesAreCounted BY <1>17, <1>18 DEF UsesAreCounted, Made
<1>14. OutboxTellsAll BY <1>1, <1>2, <1>3, <1>5, <1>10, OutboxIs DEF RowTold, EndsTold, Exists
<1>15. SessionsAreCurrent BY <1>3 DEF SessionsAreCurrent
<1> QED BY <1>10, <1>11, <1>14, <1>15, <1>16, <1>19 DEF Inductive

LEMMA Step == Inductive /\ [Next]_vars => Inductive'
<1> SUFFICES ASSUME Inductive, [Next]_vars PROVE Inductive' OBVIOUS
<1>0. /\ Typed /\ LinksProve /\ NewAccounts /\ CodesStand
      /\ key.used <= key.max /\ key.used = Cardinality(Made) /\ UsedOnce
      /\ OutboxTellsAll /\ SessionsAreCurrent /\ VerifiedIsProven
  BY DEF Inductive, UsesAreCounted, Made, UsedOnce
<1>1. Typed' BY <1>0, TypedStep
<1>2. LinksProve' BY <1>0, LinksStep
<1>3. NewAccounts' BY <1>0, NewAccountsStep
<1>4. CodesStand' /\ UsedOnce' BY <1>0, CodesStep
<1>5. UsesAreCounted' BY <1>0, <1>4, UsesStep DEF UsesAreCounted, Made, UsedOnce
<1>6. OutboxTellsAll'
  <2>1. (\A a \in Accounts : RowTold(a)) /\ EndsTold BY <1>0, OutboxIs
  <2>2. \A a \in Accounts : RowTold(a)' BY <1>0, <2>1, RowToldStep
  <2>3. EndsTold' BY <1>0, <2>1, EndsToldStep
  <2>4. OutboxTellsAll' <=> (\A a \in Accounts : RowTold(a))' /\ EndsTold'
    <3>1. Typed' => (OutboxTellsAll <=> (\A a \in Accounts : RowTold(a)) /\ EndsTold)' BY OutboxIs, PTL
    <3> QED BY <1>1, <3>1
  <2> QED BY <2>2, <2>3, <2>4
<1>7. SessionsAreCurrent' BY <1>0, CurrentStep DEF SessionsAreCurrent, Current
<1>8. VerifiedIsProven' BY <1>0, VerifiedStep
<1> QED BY <1>1, <1>2, <1>3, <1>4, <1>5, <1>6, <1>7, <1>8 DEF Inductive

LEMMA Always == Spec => []Inductive
BY InitIs, Step, PTL DEF Spec

(* Every variable keeps its type, whatever requests are under way. *)
THEOREM TypeCorrect == Spec => []TypeOK
<1>1. Inductive => TypeOK BY DEF Inductive, Typed
<1> QED BY <1>1, Always, PTL

(* A key is used once for every account it made and never more often than it allows, and a code changes the password
   once (registration_keys.consume, the constraint invite_keys_used_le_max, consume_change_code). *)
THEOREM KeysAndCodesAreCounted == Spec => []UsesAreCounted
<1>1. Inductive => UsesAreCounted BY DEF Inductive
<1> QED BY <1>1, Always, PTL

(* The outbox of identity-service tells its reader of every account its row, its permissions, its end and the end of
   its sessions, but for what was written on a row that had changed since it was read. *)
THEOREM OutboxIsComplete == Spec => []OutboxTellsAll
<1>1. Inductive => OutboxTellsAll BY DEF Inductive
<1> QED BY <1>1, Always, PTL

(* What ends an account, its password or its role ends the sessions opened before it: revoke_all_for_account and
   end_sessions, in the transaction of the change. *)
THEOREM SessionsEndInTime == Spec => []SessionsAreCurrent
<1>1. Inductive => SessionsAreCurrent BY DEF Inductive
<1> QED BY <1>1, Always, PTL

(* No link proves an address it was not sent to, unless the address changed while the request was under way. *)
THEOREM LinksProveAddresses == Spec => []VerifiedIsProven
<1>1. Inductive => VerifiedIsProven BY DEF Inductive
<1> QED BY <1>1, Always, PTL
=============================================================================
