------------------------------ MODULE Accounts ------------------------------
(***************************************************************************)
(* The accounts of identity-service: registration with an invite key, the  *)
(* proof of the e-mail address, sign-in, refresh and sign-out, passwords,  *)
(* permissions, and what administrators change.                            *)
(*                                                                         *)
(* A request is a transaction under READ COMMITTED: it reads rows without  *)
(* a lock (Read...), and what it writes, with the events it appends to the *)
(* outbox, takes effect at its commit.  Others may commit in between; what *)
(* an UPDATE checks in its WHERE it checks again then.  The outbox lock    *)
(* makes the order of the events that of the commits, so that `told` can   *)
(* stand for the log: what a reader of the whole of it has been told.      *)
(***************************************************************************)
EXTENDS Integers, FiniteSets, Sequences

CONSTANTS Accounts,     \* accounts, existing or not
          Members,      \* those that are active at the start
          Sids,         \* 1 .. n: names of sessions, and of the refresh tokens made with them
          Legacy,       \* Legacy[t]: the member whose old refresh token t is, which has no session
          Roles, Perms,
          KeyRole,      \* what the invite key gives
          KeyPerms,
          Requests,     \* requests that can be under way
          MaxUses,      \* the highest limit of the key; the first one is 1
          MaxTries,     \* MAX_CHANGE_CODE_ATTEMPTS
          MaxWrites,    \* bound on the transactions that commit
          NoOne

ASSUME AccountsAssumption ==
  /\ Members \subseteq Accounts /\ NoOne \notin Accounts
  /\ KeyRole \in Roles /\ KeyPerms \subseteq Perms
  /\ MaxUses \in Nat \ {0} /\ MaxTries \in Nat \ {0} /\ MaxWrites \in Nat
  /\ Sids \subseteq Nat \ {0}
  /\ DOMAIN Legacy \intersect Sids = {} /\ \A t \in DOMAIN Legacy : Legacy[t] \in Members

VARIABLES key,      \* the row of the invite key
          acct,     \* acct[a]: the row of account a
          grants,   \* grants[a]: account_permissions
          sess,     \* sess[s]: the row of session s
          token,    \* token[t]: the row of refresh token t
          req,      \* req[q]: what request q has read, and what it is asked to do
          told,     \* told[a]: what the outbox says of a
          writes,
          late,     \* history: sessions opened on a row of the account that had changed since
          stale,    \* history: stale[a]: columns of a that were written by a request that had read another value
          proven,   \* history: proven[a]: the addresses of a whose link was used, or that an administrator set
          spent     \* history: spent[c]: how often change code c changed a password

Tokens == Sids \union DOMAIN Legacy

history == <<late, stale, proven, spent>>
vars == <<key, acct, grants, sess, token, req, told, writes, history>>

Idle == [op |-> "idle"]
Columns == {"status", "role", "pass", "mail"}   \* what a request keeps of the row it has read
Exists(a) == acct[a].status \in {"pending", "active", "suspended"}
(* Its owner can be signed in; what the owner does does not depend on a suspension that comes in between. *)
SignedIn(a) == acct[a].status = "active"
SidsOf(a) == {s \in Sids : sess[s].of = a}
Changed(q, column) == req[q].row[column] # acct[req[q].of][column]

Init ==
  /\ key = [status |-> "active", max |-> 1, used |-> 0]
  /\ acct = [a \in Accounts |->
        [status |-> IF a \in Members THEN "active" ELSE "none", verified |-> a \in Members, role |-> KeyRole,
         pass |-> 0, mail |-> 1, link |-> 0, reset |-> FALSE, code |-> 0, tries |-> 0]]
  /\ grants = [a \in Accounts |-> {}]
  /\ sess = [s \in Sids |-> [of |-> NoOne, live |-> FALSE, pass |-> 0, role |-> KeyRole]]
  /\ token = [t \in Tokens |-> [of |-> IF t \in DOMAIN Legacy THEN Legacy[t] ELSE NoOne,
                              ok |-> t \in DOMAIN Legacy, sid |-> 0]]
  /\ req = [q \in Requests |-> Idle]
  /\ told = [a \in Accounts |-> [status |-> acct[a].status, role |-> KeyRole, perms |-> {}, ended |-> {}, gone |-> FALSE]]
  /\ writes = 0
  /\ late = {} /\ stale = [a \in Accounts |-> {}]
  /\ proven = [a \in Accounts |-> IF a \in Members THEN {1} ELSE {}]
  /\ spent = <<>>

-----------------------------------------------------------------------------
(* What requests read *)

Reads(q, op, a, arg) ==
  /\ req[q] = Idle
  /\ req' = [req EXCEPT ![q] = [op |-> op, of |-> a, arg |-> arg,
                                row |-> [c \in Columns |-> acct[a][c]]]]
  /\ UNCHANGED <<key, acct, grants, sess, token, told, writes, history>>

KeyUsable == key.status = "active" /\ key.used < key.max

ReadForRegister(q, a) == acct[a].status = "none" /\ KeyUsable /\ Reads(q, "register", a, key.used)
ReadLink(q, a)        == Exists(a) /\ acct[a].link # 0 /\ Reads(q, "verify", a, acct[a].link)
ReadForResend(q, a)   == Exists(a) /\ ~acct[a].verified /\ acct[a].status # "suspended" /\ Reads(q, "resend", a, 0)
ReadForStatus(q, a, st) == Exists(a) /\ Reads(q, "status", a, st)
ReadForRole(q, a, r)  == Exists(a) /\ Reads(q, "role", a, r)
(* The right name and password; the status is the one that was read. *)
Authenticate(q, a) ==
  /\ Exists(a) /\ acct[a].status # "suspended"
  /\ ~(acct[a].status = "pending" /\ ~acct[a].verified)
  /\ Reads(q, "login", a, 0)
(* Only an old token, which has no session, makes a refresh write anything. *)
ReadToken(q, t) ==
  /\ token[t].ok /\ token[t].sid = 0 /\ acct[token[t].of].status = "active"
  /\ Reads(q, "refresh", token[t].of, t)
ReadForLogout(q, t)   == token[t].of # NoOne /\ Reads(q, "logout", token[t].of, [token |-> t, sid |-> token[t].sid])
ReadReset(q, a)       == Exists(a) /\ acct[a].reset /\ Reads(q, "reset", a, 0)
(* The code that was sent, a wrong one, or one whose time is over. *)
CheckCode(q, a) ==
  /\ SignedIn(a) /\ acct[a].code # 0
  /\ \E op \in {"change", "wrong", "clear"} : Reads(q, op, a, acct[a].code)
(* A new limit for the key, not below the uses that were read. *)
ReadKey(q, max) ==
  /\ req[q] = Idle /\ key.status # "revoked" /\ max >= key.used
  /\ req' = [req EXCEPT ![q] = [op |-> "patch", arg |-> max]]
  /\ UNCHANGED <<key, acct, grants, sess, token, told, writes, history>>

-----------------------------------------------------------------------------
(* What they write *)

Commits(q, op) == req[q].op = op /\ writes < MaxWrites
Written(q) == req' = [req EXCEPT ![q] = Idle] /\ writes' = writes + 1

(* The transaction is rolled back, by an error or because the process dies. *)
Rollback(q) ==
  /\ req[q] # Idle
  /\ req' = [req EXCEPT ![q] = Idle]
  /\ UNCHANGED <<key, acct, grants, sess, token, told, writes, history>>

(* One use of the key, counted in the UPDATE that checks it. *)
Consumed == [key EXCEPT !.used = @ + 1]

(* account.registered, and account.permission_changed for every permission. *)
Registered(a) == [told[a] EXCEPT !.status = "pending", !.role = KeyRole, !.perms = KeyPerms]

Register(q) ==
  LET a == req[q].of IN
  /\ Commits(q, "register")
  /\ KeyUsable /\ acct[a].status = "none"
  /\ key' = Consumed
  /\ acct' = [acct EXCEPT ![a].status = "pending", ![a].role = KeyRole, ![a].link = 1]
  /\ grants' = [grants EXCEPT ![a] = KeyPerms]
  /\ told' = [told EXCEPT ![a] = Registered(a)]
  /\ Written(q)
  /\ UNCHANGED <<sess, token, history>>

\* Mutant: the change from pending to active has no event.
SaidOnProofNothing(q) == told[req[q].of]

(* account.verified, and account.status_changed if the status that was read is pending. *)
SaidOnProof(q) == IF req[q].row.status = "pending" THEN [told[req[q].of] EXCEPT !.status = "active"] ELSE told[req[q].of]

(* The link is used: the row is found by it, and written by its id. *)
Verify(q) ==
  LET a == req[q].of IN
  /\ Commits(q, "verify")
  /\ acct' = IF Exists(a) THEN [acct EXCEPT ![a].verified = TRUE, ![a].link = 0,
                                         ![a].status = IF @ = "pending" THEN "active" ELSE @]
             ELSE acct
  /\ told' = [told EXCEPT ![a] = SaidOnProof(q)]
  /\ proven' = [proven EXCEPT ![a] = @ \union {req[q].arg}]
  /\ stale' = [stale EXCEPT ![a] = @ \union {c \in {"status", "mail"} : Changed(q, c)}]
  /\ Written(q)
  /\ UNCHANGED <<key, grants, sess, token, late, spent>>

(* A new link goes to the address that was read. *)
Resend(q) ==
  LET a == req[q].of IN
  /\ Commits(q, "resend")
  /\ acct' = IF Exists(a) THEN [acct EXCEPT ![a].link = req[q].row.mail] ELSE acct
  /\ stale' = [stale EXCEPT ![a] = @ \union {c \in {"mail"} : Changed(q, c)}]
  /\ Written(q)
  /\ UNCHANGED <<key, grants, sess, token, told, late, proven, spent>>

\* Mutant: the new address counts as proven.
NewMailTrusted(row) == [row EXCEPT !.mail = @ + 1, !.link = row.mail + 1]
(* The address is changed by its owner: it is to be proven again. *)
NewMail(row) == [row EXCEPT !.mail = @ + 1, !.link = row.mail + 1, !.verified = FALSE]

UpdateProfile(a) ==
  /\ SignedIn(a) /\ writes < MaxWrites
  /\ acct' = [acct EXCEPT ![a] = NewMail(@)]
  /\ writes' = writes + 1
  /\ UNCHANGED <<key, grants, sess, token, req, told, history>>

(* The address is changed by an administrator, whose word is taken for it. *)
UpdateMail(a) ==
  /\ Exists(a) /\ writes < MaxWrites
  /\ acct' = [acct EXCEPT ![a].mail = @ + 1]
  /\ proven' = [proven EXCEPT ![a] = @ \union {acct[a].mail + 1}]
  /\ writes' = writes + 1
  /\ UNCHANGED <<key, grants, sess, token, req, told, late, stale, spent>>

-----------------------------------------------------------------------------
(* Sessions *)

EndAll(a) == sess' = [s \in Sids |-> IF sess[s].of = a THEN [sess[s] EXCEPT !.live = FALSE] ELSE sess[s]]
RevokeAll(a) == token' = [t \in Tokens |-> IF token[t].of = a THEN [token[t] EXCEPT !.ok = FALSE] ELSE token[t]]
Told(a, record) == [record EXCEPT !.ended = @ \union SidsOf(a)]

FreeSids == {s \in Sids : sess[s].of = NoOne}

(* A session for what was read; late, if that has changed. *)
OpensSession(q, s) ==
  LET a == req[q].of  row == req[q].row IN
  /\ Exists(a)
  /\ s \in FreeSids /\ \A r \in FreeSids : s <= r
  /\ sess' = [sess EXCEPT ![s] = [of |-> a, live |-> TRUE, pass |-> row.pass, role |-> row.role]]
  /\ late' = IF Changed(q, "pass") \/ Changed(q, "role") \/ acct[a].status = "suspended" THEN late \union {s} ELSE late

Login(q) ==
  \E s \in Sids :
    /\ Commits(q, "login")
    /\ OpensSession(q, s)
    /\ token' = [token EXCEPT ![s] = [of |-> req[q].of, ok |-> TRUE, sid |-> s]]
    /\ Written(q)
    /\ UNCHANGED <<key, acct, grants, told, stale, proven, spent>>

(* The first refresh with an old token opens a session for it. *)
Refresh(q) ==
  \E s \in Sids :
    /\ Commits(q, "refresh")
    /\ OpensSession(q, s)
    /\ token' = [token EXCEPT ![req[q].arg].sid = s]
    /\ Written(q)
    /\ UNCHANGED <<key, acct, grants, told, stale, proven, spent>>

(* Sign-out: the token, and the session that was read with it. *)
Logout(q) ==
  LET a == req[q].of  t == req[q].arg.token  s == req[q].arg.sid IN
  /\ Commits(q, "logout")
  /\ token' = [token EXCEPT ![t].ok = FALSE]
  /\ sess' = IF s = 0 THEN sess ELSE [sess EXCEPT ![s].live = FALSE]
  /\ told' = IF s = 0 THEN told ELSE [told EXCEPT ![a].ended = @ \union {s}]
  /\ Written(q)
  /\ UNCHANGED <<key, acct, grants, history>>

-----------------------------------------------------------------------------
(* Passwords *)

\* Mutant: the sessions stay.
EndsEverythingButSessions(a) == RevokeAll(a) /\ told' = [told EXCEPT ![a] = Told(a, @)] /\ UNCHANGED sess

(* Every token and every session of the account, and session.revoked. *)
EndsEverything(a) == RevokeAll(a) /\ EndAll(a) /\ told' = [told EXCEPT ![a] = Told(a, @)]

ForgotPassword(a) ==
  /\ acct[a].status = "active" /\ writes < MaxWrites
  /\ acct' = [acct EXCEPT ![a].reset = TRUE]
  /\ writes' = writes + 1
  /\ UNCHANGED <<key, grants, sess, token, req, told, history>>

ResetPassword(q) ==
  LET a == req[q].of IN
  /\ Commits(q, "reset")
  /\ acct' = IF Exists(a) THEN [acct EXCEPT ![a].pass = @ + 1, ![a].reset = FALSE] ELSE acct
  /\ EndsEverything(a)
  /\ Written(q)
  /\ UNCHANGED <<key, grants, history>>

SendChangeCode(a) ==
  /\ SignedIn(a) /\ writes < MaxWrites
  /\ acct' = [acct EXCEPT ![a].code = Len(spent) + 1, ![a].tries = 0]
  /\ spent' = Append(spent, 0)
  /\ writes' = writes + 1
  /\ UNCHANGED <<key, grants, sess, token, req, told, late, stale, proven>>

\* Mutant: the code that was checked is not checked again.
CodeStandsAsRead(q) == req[q].arg # 0
(* The code is consumed by an UPDATE that finds it. *)
CodeStands(q) == Exists(req[q].of) /\ acct[req[q].of].code = req[q].arg

ChangePassword(q) ==
  LET a == req[q].of IN
  /\ Commits(q, "change")
  /\ CodeStands(q)
  /\ acct' = [acct EXCEPT ![a].code = 0, ![a].tries = 0, ![a].pass = @ + 1]
  /\ spent' = [spent EXCEPT ![req[q].arg] = @ + 1]
  /\ EndsEverything(a)
  /\ Written(q)
  /\ UNCHANGED <<key, grants, late, stale, proven>>

(* A wrong code counts; with the last one the code is to be cleared. *)
CountWrong(q) ==
  LET a == req[q].of IN
  /\ Commits(q, "wrong") /\ Exists(a)
  /\ acct' = [acct EXCEPT ![a].tries = @ + 1]
  /\ req' = [req EXCEPT ![q] = IF acct[a].tries + 1 >= MaxTries THEN [@ EXCEPT !.op = "clear"] ELSE Idle]
  /\ writes' = writes + 1
  /\ UNCHANGED <<key, grants, sess, token, told, history>>

(* Whatever code is there by then. *)
ClearCode(q) ==
  LET a == req[q].of IN
  /\ Commits(q, "clear") /\ Exists(a)
  /\ acct' = [acct EXCEPT ![a].code = 0, ![a].tries = 0]
  /\ Written(q)
  /\ UNCHANGED <<key, grants, sess, token, told, history>>

-----------------------------------------------------------------------------
(* Administrators *)

SetStatus(q) ==
  LET a == req[q].of  st == req[q].arg
      said == IF req[q].row.status # st THEN [told[a] EXCEPT !.status = st] ELSE told[a] IN
  /\ Commits(q, "status") /\ Exists(a)
  /\ acct' = [acct EXCEPT ![a].status = st]
  /\ IF st = "suspended" THEN RevokeAll(a) /\ EndAll(a) ELSE UNCHANGED <<sess, token>>
  /\ told' = [told EXCEPT ![a] = IF st = "suspended" THEN Told(a, said) ELSE said]
  /\ stale' = [stale EXCEPT ![a] = @ \union {c \in {"status"} : Changed(q, c)}]
  /\ Written(q)
  /\ UNCHANGED <<key, grants, late, proven, spent>>

(* account.role_changed and session.revoked. *)
RoleSaid(a, r) == Told(a, [told[a] EXCEPT !.role = r])

(* A role that differs from the one read ends the sessions; the refresh tokens stay, and find no session. *)
SetRole(q) ==
  LET a == req[q].of  r == req[q].arg  changes == req[q].row.role # r IN
  /\ Commits(q, "role") /\ Exists(a)
  /\ acct' = [acct EXCEPT ![a].role = r]
  /\ IF changes THEN EndAll(a) ELSE UNCHANGED sess
  /\ told' = IF changes THEN [told EXCEPT ![a] = RoleSaid(a, r)] ELSE told
  /\ stale' = [stale EXCEPT ![a] = @ \union {c \in {"role"} : Changed(q, c)}]
  /\ Written(q)
  /\ UNCHANGED <<key, grants, token, late, proven, spent>>

(* What refers to the account goes with it. *)
Delete(a) ==
  /\ Exists(a) /\ writes < MaxWrites
  /\ acct' = [acct EXCEPT ![a].status = "deleted"]
  /\ grants' = [grants EXCEPT ![a] = {}]
  /\ RevokeAll(a) /\ EndAll(a)
  /\ told' = [told EXCEPT ![a] = Told(a, [@ EXCEPT !.gone = TRUE])]
  /\ writes' = writes + 1
  /\ UNCHANGED <<key, req, history>>

(* A grant or its withdrawal; an event only if the row was there, or was not. *)
ChangePermission(a, p) ==
  /\ Exists(a) /\ writes < MaxWrites
  /\ \E granted \in BOOLEAN :
       LET now == IF granted THEN grants[a] \union {p} ELSE grants[a] \ {p} IN
       /\ now # grants[a]
       /\ grants' = [grants EXCEPT ![a] = now]
       /\ told' = [told EXCEPT ![a].perms = IF granted THEN @ \union {p} ELSE @ \ {p}]
  /\ writes' = writes + 1
  /\ UNCHANGED <<key, acct, sess, token, req, history>>

(* The new limit must not be below the uses: checked on the row that was read, and by the table. *)
PatchKey(q) ==
  /\ Commits(q, "patch")
  /\ key.used <= req[q].arg
  /\ key' = [key EXCEPT !.max = req[q].arg]
  /\ Written(q)
  /\ UNCHANGED <<acct, grants, sess, token, told, history>>

SetKeyStatus(to) ==
  /\ writes < MaxWrites
  /\ key.status # to
  /\ \/ to = "revoked"
     \/ to = "suspended" /\ key.status = "active"
     \/ to = "active" /\ key.status = "suspended"
  /\ key' = [key EXCEPT !.status = to]
  /\ writes' = writes + 1
  /\ UNCHANGED <<acct, grants, sess, token, req, told, history>>

-----------------------------------------------------------------------------
Read(q) ==
  \/ \E a \in Accounts :
       \/ ReadForRegister(q, a) \/ ReadLink(q, a) \/ ReadForResend(q, a) \/ Authenticate(q, a)
       \/ ReadReset(q, a) \/ CheckCode(q, a)
       \/ \E st \in {"active", "suspended"} : ReadForStatus(q, a, st)
       \/ \E r \in Roles : ReadForRole(q, a, r)
  \/ \E t \in Tokens : (token[t].of # NoOne /\ ReadToken(q, t)) \/ ReadForLogout(q, t)
  \/ \E max \in 1 .. MaxUses : ReadKey(q, max)

Write(q) ==
  \/ Register(q) \/ Verify(q) \/ Resend(q) \/ Login(q) \/ Refresh(q) \/ Logout(q)
  \/ ResetPassword(q) \/ ChangePassword(q) \/ CountWrong(q) \/ ClearCode(q)
  \/ SetStatus(q) \/ SetRole(q) \/ PatchKey(q)

Next ==
  \/ \E q \in Requests : Read(q) \/ Write(q) \/ Rollback(q)
  \/ \E a \in Accounts :
       \/ UpdateProfile(a) \/ UpdateMail(a) \/ ForgotPassword(a) \/ SendChangeCode(a) \/ Delete(a)
       \/ \E p \in Perms : ChangePermission(a, p)
  \/ \E to \in {"active", "suspended", "revoked"} : SetKeyStatus(to)

Spec == Init /\ [][Next]_vars
-----------------------------------------------------------------------------
(* Properties *)

\* Every variable keeps its type; the uses of the key stay within the highest limit.
TypeOK ==
  /\ key \in [status : {"active", "suspended", "revoked"}, max : 1 .. MaxUses, used : 0 .. MaxUses]
  /\ acct \in [Accounts -> [status : {"none", "pending", "active", "suspended", "deleted"}, verified : BOOLEAN,
                            role : Roles, pass : Nat, mail : Nat, link : Nat, reset : BOOLEAN, code : Nat, tries : Nat]]
  /\ grants \in [Accounts -> SUBSET Perms]
  /\ sess \in [Sids -> [of : Accounts \union {NoOne}, live : BOOLEAN, pass : Nat, role : Roles]]
  /\ token \in [Tokens -> [of : Accounts \union {NoOne}, ok : BOOLEAN, sid : Sids \union {0}]]
  /\ told \in [Accounts -> [status : {"none", "pending", "active", "suspended"}, role : Roles, perms : SUBSET Perms,
                            ended : SUBSET Sids, gone : BOOLEAN]]
  /\ writes \in 0 .. MaxWrites

\* A key is used as often as accounts were registered with it, and not more often than it allows, and a code changes
\* the password once, however many requests present them at the same time and whatever is done to the key meanwhile
\* (registration_keys.consume, the constraint invite_keys_used_le_max, consume_change_code).
UsesAreCounted ==
  /\ key.used = Cardinality({a \in Accounts \ Members : acct[a].status # "none"})
  /\ key.used <= key.max
  /\ \A c \in DOMAIN spent : spent[c] <= 1

\* Who reads the outbox knows of every account its status and role, unless a request wrote them on a value that had
\* changed since it was read, and its permissions, that it is gone, and which of its sessions open nothing any more.
OutboxTellsAll ==
  \A a \in Accounts :
    /\ told[a].gone <=> acct[a].status = "deleted"
    /\ Exists(a) => /\ told[a].status = acct[a].status \/ "status" \in stale[a]
                    /\ told[a].role = acct[a].role \/ "role" \in stale[a]
                    /\ told[a].perms = grants[a]
    /\ \A s \in SidsOf(a) : ~sess[s].live => s \in told[a].ended

\* A live session belongs to an account that is there and not suspended, was opened with its present password, and
\* carries its present role; but for the sign-ins that were under way when those changed.
SessionsAreCurrent ==
  \A s \in Sids : sess[s].live /\ s \notin late =>
    LET a == sess[s].of IN
    /\ Exists(a) /\ acct[a].status # "suspended"
    /\ sess[s].pass = acct[a].pass
    /\ sess[s].role = acct[a].role \/ "role" \in stale[a]

\* An address that counts as verified was proven by its own link or set by an administrator, but for the
\* requests that were under way while the address changed.
VerifiedIsProven ==
  \A a \in Accounts : Exists(a) /\ acct[a].verified => acct[a].mail \in proven[a] \/ "mail" \in stale[a]
=============================================================================
