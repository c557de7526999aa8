---------------------------- MODULE OidcSessions ----------------------------
(***************************************************************************)
(* The OpenID Connect provider of identity-service, for the sessions of    *)
(* one account: codes and the grants that are made from them, refresh      *)
(* tokens that rotate, sign-out of a single sign-on session with all that  *)
(* was built on it, and the back-channel that tells the clients which      *)
(* sessions have ended.                                                    *)
(*                                                                         *)
(* A token request locks the row of the code or of the token it presents,  *)
(* reads the account and the session without a lock, and writes at its     *)
(* commit.  The back-channel reads the outbox with a cursor into a table   *)
(* of deliveries, which the workers of several instances lease.            *)
(***************************************************************************)
EXTENDS Integers, FiniteSets, Sequences, Bags

CONSTANTS Grants,       \* codes, with the session and the family of tokens each is given in advance
          Told,         \* the grants of clients that have a backchannel_logout_uri
          MaxRequests,  \* bound on the token requests under way at a time
          MaxInstances, \* instances of the service, each with a back-channel worker
          MaxSso,       \* bound on the single sign-on sessions opened
          MaxTokens,    \* bound on the refresh tokens of a grant
          MaxTries,     \* backchannel_max_attempts
          MaxEnds       \* bound on the times everything of the account is ended

ASSUME OidcAssumption ==
  /\ MaxTokens \in Nat \ {0} /\ MaxTries \in Nat \ {0} /\ MaxEnds \in Nat
  /\ MaxRequests \in Nat \ {0} /\ MaxInstances \in Nat \ {0}
  /\ MaxSso \in Nat \ {0} /\ Told \subseteq Grants /\ "all" \notin Grants

VARIABLES sso,        \* the single sign-on sessions, in the order they were opened
          code,       \* code[g]: the row of the code, and the sign-on session it was issued for
          sess,       \* sess[g]: the session of the grant, with its row of oidc_session_clients
          tokens,     \* tokens[g]: the refresh tokens of the grant, oldest first
          held,       \* the rows that token requests have locked: <<g, 0>> the code of g, <<g, n>> its n-th token
          ends,       \* number of times that everything of the account was ended
          unread,     \* session.revoked after the cursor of the back-channel: a grant's session, or "all" of the
                      \* account; they are read all at once
          delivery,   \* delivery[g]: the row of the delivery for g
          leased,     \* leased[g]: what workers hold of that row: its attempts when it was leased
          reused      \* history: grants of which a code or a token was presented again

grantVars == <<code, sess, tokens, held, reused>>
channelVars == <<delivery, leased>>
vars == <<sso, ends, unread, grantVars, channelVars>>

NoRow == [status |-> "none", tries |-> 0]
Usable(t) == ~t.used /\ ~t.revoked

Init ==
  /\ sso = <<>>
  /\ code = [g \in Grants |-> [state |-> "none", sso |-> 0]]
  /\ sess = [g \in Grants |-> "none"]
  /\ tokens = [g \in Grants |-> <<>>]
  /\ held = EmptyBag
  /\ ends = 0 /\ unread = {}
  /\ delivery = [g \in Grants |-> NoRow]
  /\ leased = [g \in Grants |-> EmptyBag]
  /\ reused = {}

-----------------------------------------------------------------------------
(* Ending sessions *)

(* Only a session that was live until now is announced. *)
NewlyDead(gs) == {g \in gs : sess[g] = "live"}

(* An UPDATE of tokens waits for the requests that hold one of them. *)
Unlocked(gs) == \A row \in BagToSet(held) : row[1] \in gs => row[2] = 0

Announces(events) == unread' = unread \union events

(* The tokens of the grants are revoked, their sessions end, and each is announced. *)
EndSessions(gs) ==
  /\ Unlocked(gs)
  /\ tokens' = [g \in Grants |-> IF g \in gs THEN [n \in DOMAIN tokens[g] |-> [tokens[g][n] EXCEPT !.revoked = TRUE]]
                                 ELSE tokens[g]]
  /\ sess' = [g \in Grants |-> IF g \in gs /\ sess[g] = "live" THEN "dead" ELSE sess[g]]
  /\ Announces(NewlyDead(gs))
  /\ UNCHANGED ends

\* Mutant: sign-out ends the sign-on session alone.
NoTree(o) == {g \in Grants : FALSE /\ code[g].sso = o}
(* The sessions built on a sign-on session. *)
Tree(o) == {g \in Grants : code[g].sso = o /\ sess[g] # "none"}

(* Sign-out, by the client with an id token or by the user: the sign-on session and all built on it, even if *)
(* it was over before.                                                                                      *)
SignOut(o) ==
  /\ o \in DOMAIN sso
  /\ EndSessions(Tree(o))
  /\ sso' = [sso EXCEPT ![o] = "dead"]
  /\ UNCHANGED <<code, held, reused, channelVars>>

(* Signing in opens a new sign-on session, and ends the one of the same browser. *)
SsoLogin ==
  /\ Len(sso) < MaxSso
  /\ \/ /\ sso' = Append(sso, "live")
        /\ UNCHANGED <<sess, tokens, ends, unread>>
     \/ \E old \in DOMAIN sso : /\ EndSessions(Tree(old))
                                /\ sso' = Append([sso EXCEPT ![old] = "dead"], "live")
  /\ UNCHANGED <<code, held, reused, channelVars>>

(* Suspension, deletion, a change of password or of role: every session of the account ends, with one event. *)
EndAccount ==
  /\ ends < MaxEnds /\ ends' = ends + 1
  /\ sess' = [g \in Grants |-> IF sess[g] = "live" THEN "dead" ELSE sess[g]]
  /\ sso' = [o \in DOMAIN sso |-> "dead"]
  /\ Announces({"all"})
  /\ UNCHANGED <<code, tokens, held, reused, channelVars>>

-----------------------------------------------------------------------------
(* Codes *)

(* For a sign-on session that was live when it was looked up; it may be over by now. *)
IssueCode(g, o) ==
  /\ o \in DOMAIN sso /\ code[g].state = "none"
  /\ code' = [code EXCEPT ![g] = [state |-> "issued", sso |-> o]]
  /\ UNCHANGED <<sso, ends, unread, sess, tokens, held, reused, channelVars>>

(* A request takes the lock of a row, and lets go of it at its commit. *)
Locks(row) == BagCardinality(held) < MaxRequests /\ held' = held (+) SetToBag({row})
Unlocks(row) == BagIn(row, held) /\ held' = held (-) SetToBag({row})

CodeFree(g) == ~BagIn(<<g, 0>>, held)

(* A code that was not used: its row is locked, client, address, time and verifier hold, the account is active. *)
PresentCode(g) ==
  /\ CodeFree(g)
  /\ code[g].state = "issued"
  /\ Locks(<<g, 0>>)
  /\ UNCHANGED <<sso, ends, unread, code, sess, tokens, reused, channelVars>>

FreshToken == [used |-> FALSE, revoked |-> FALSE]

(* One of them does not hold: the code is used up all the same. *)
SpoilCode(g) ==
  /\ CodeFree(g) /\ code[g].state = "issued"
  /\ code' = [code EXCEPT ![g].state = "used"]
  /\ UNCHANGED <<sso, ends, unread, sess, tokens, held, reused, channelVars>>

(* The session is the one that was given to the code in advance. *)
Exchange(g) ==
  /\ Unlocks(<<g, 0>>)
  /\ code' = [code EXCEPT ![g].state = "used"]
  /\ sess' = [sess EXCEPT ![g] = "live"]
  /\ \E offline \in BOOLEAN : tokens' = IF offline THEN [tokens EXCEPT ![g] = <<FreshToken>>] ELSE tokens
  /\ UNCHANGED <<sso, ends, unread, reused, channelVars>>

(* A code that was used already ends what came of it. *)
ReuseCode(g) ==
  /\ CodeFree(g) /\ code[g].state = "used"
  /\ EndSessions({g})
  /\ reused' = reused \union {g}
  /\ UNCHANGED <<sso, code, held, channelVars>>

-----------------------------------------------------------------------------
(* Refresh tokens *)

\* Mutant: the row of the token is read without a lock.
TokenUnguarded(g, n) == n \in DOMAIN tokens[g]
(* No request holds the lock of the row. *)
TokenFree(g, n) == n \in DOMAIN tokens[g] /\ ~BagIn(<<g, n>>, held)

(* A token of a live grant is presented; its time may be over or its scope too wide, and then nothing happens. *)
PresentToken(g, n) ==
  /\ TokenFree(g, n)
  /\ Usable(tokens[g][n])
  /\ sess[g] = "live"
  /\ Len(tokens[g]) < MaxTokens
  /\ Locks(<<g, n>>)
  /\ UNCHANGED <<sso, ends, unread, code, sess, tokens, reused, channelVars>>

(* It is used up, and its successor belongs to the same family and session. *)
Rotate(g, n) ==
  /\ Unlocks(<<g, n>>)
  /\ tokens' = [tokens EXCEPT ![g] = Append([tokens[g] EXCEPT ![n].used = TRUE], FreshToken)]
  /\ UNCHANGED <<sso, ends, unread, code, sess, reused, channelVars>>

(* The whole grant ends. *)
RevokeGrant(g) == EndSessions({g})

(* A token that was rotated or revoked. *)
ReuseToken(g, n) ==
  /\ TokenFree(g, n) /\ ~Usable(tokens[g][n])
  /\ RevokeGrant(g)
  /\ reused' = reused \union {g}
  /\ UNCHANGED <<sso, code, held, channelVars>>

(* A token of another client, or of a session or an account that is over; or the client revokes the grant. *)
RefuseToken(g) ==
  /\ tokens[g] # <<>> \/ sess[g] # "none"
  /\ EndSessions({g})
  /\ UNCHANGED <<sso, code, held, reused, channelVars>>

(* The transaction of a token request is rolled back. *)
Rollback(g, n) ==
  /\ Unlocks(<<g, n>>)
  /\ UNCHANGED <<sso, ends, unread, code, sess, tokens, reused, channelVars>>

-----------------------------------------------------------------------------
(* The back-channel *)

\* Mutant: an event about one session tells of every session.
TargetsAlways(event) == {g \in Told : sess[g] # "none" /\ event \in Grants \union {"all"}}
\* Mutant: only sessions that are still live are looked for.
TargetsLive(event) == {g \in Told : sess[g] = "live" /\ event \in {g, "all"}}
(* The sessions an event is about, as they are by now. *)
Targets(event) == {g \in Told : sess[g] # "none" /\ event \in {g, "all"}}

(* ON CONFLICT (client_id, sid) DO NOTHING. *)
Enqueued(row) == IF row.status = "none" THEN [status |-> "pending", tries |-> 0] ELSE row

(* All new events at once, in one transaction with the cursor. *)
FanOut ==
  /\ unread # {} /\ unread' = {}
  /\ delivery' = [g \in Grants |-> IF \E event \in unread : g \in Targets(event) THEN Enqueued(delivery[g]) ELSE delivery[g]]
  /\ UNCHANGED <<sso, ends, grantVars, leased>>

(* A row is taken: its next attempt is due, or the lease of another instance has ended.  Time is left out, so *)
(* that an instance that dies, or cannot write its result, leaves the row as if it had not taken it.          *)
Lease(g) ==
  /\ delivery[g].status = "pending"
  /\ BagCardinality(leased[g]) < MaxInstances
  /\ leased' = [leased EXCEPT ![g] = @ (+) SetToBag({delivery[g].tries})]
  /\ UNCHANGED <<sso, ends, unread, grantVars, delivery>>

(* The last try, by the attempts the row had when it was leased. *)
LastTry(tries) == tries + 1 >= MaxTries

(* An attempt that found the row with n tries comes to its end. *)
Ended(g, n) == leased' = [leased EXCEPT ![g] = @ (-) SetToBag({n})]

(* The client was told: written whatever the row says by then. *)
Delivered(g, n) ==
  /\ Ended(g, n)
  /\ delivery' = [delivery EXCEPT ![g] = [status |-> "delivered", tries |-> @.tries + 1]]
  /\ UNCHANGED <<sso, ends, unread, grantVars>>

(* It was not, or its address is not allowed: dead at once, after the last try, or later again. *)
Failed(g, n) ==
  /\ Ended(g, n)
  /\ \E unsafe \in BOOLEAN :
       delivery' = [delivery EXCEPT ![g] = [status |-> IF unsafe \/ LastTry(n) THEN "dead" ELSE "pending",
                                            tries |-> @.tries + 1]]
  /\ UNCHANGED <<sso, ends, unread, grantVars>>

-----------------------------------------------------------------------------
Provider ==
  \/ EndAccount
  \/ SsoLogin
  \/ \E o \in 1 .. MaxSso : SignOut(o)
  \/ \E g \in Grants :
       \/ PresentCode(g) \/ SpoilCode(g) \/ Exchange(g) \/ ReuseCode(g) \/ RefuseToken(g)
       \/ \E o \in 1 .. MaxSso : IssueCode(g, o)
       \/ \E n \in 1 .. MaxTokens : PresentToken(g, n) \/ Rotate(g, n) \/ ReuseToken(g, n)
       \/ \E n \in 0 .. MaxTokens : Rollback(g, n)

Channel ==
  \/ FanOut
  \/ \E g \in Told : Lease(g) \/ \E n \in BagToSet(leased[g]) : Delivered(g, n) \/ Failed(g, n)

Next == Provider \/ Channel

Spec == Init /\ [][Next]_vars

(* run_forever comes round again after any error, and of the calls that are under way one ends. *)
Fairness ==
  /\ WF_vars(FanOut)
  /\ \A g \in Told :
       /\ WF_vars(Lease(g))
       /\ WF_vars(\E n \in BagToSet(leased[g]) : Delivered(g, n) \/ Failed(g, n))

FairSpec == Spec /\ Fairness

-----------------------------------------------------------------------------
(* Properties *)

\* RFC 6749, as _grant_code and _grant_refresh have it: a grant of which a code or a token was presented again opens
\* nothing any more, and a live session has at most one refresh token that can still be used, whoever presents
\* which of them and whatever requests are under way at that time.
ReuseEndsGrant ==
  \A g \in Grants : sess[g] = "live" =>
    /\ g \notin reused
    /\ Cardinality({n \in DOMAIN tokens[g] : Usable(tokens[g][n])}) <= 1

\* _revoke_sso_tree: with a sign-on session ends every session built on it.
TreeEnds ==
  [][\A o \in DOMAIN sso : sso[o] = "live" /\ sso'[o] = "dead" =>
       \A g \in Grants : code[g].sso = o => sess'[g] # "live"]_vars

\* The back-channel tells a client to end a session only if it has ended, but for a session opened while an
\* event about the whole account was still unread.
OnlyTheDeadAreTold ==
  [][\A g \in Grants : delivery[g].status = "none" /\ delivery'[g].status # "none" =>
       sess[g] = "dead" \/ "all" \in unread]_vars

\* In the end a client has been told of every session that has ended, or the delivery is put aside as dead, and the
\* matter is not reopened for ever.
EndIsTold == \A g \in Told : <>[](sess[g] = "dead" => delivery[g].status \in {"delivered", "dead"})
=============================================================================
