------------------------- MODULE OidcSessions_proofs -------------------------
(***************************************************************************)
(* What holds of OidcSessions for any number of grants, tokens, instances  *)
(* and requests: a grant that was presented twice opens nothing any more,  *)
(* with a sign-on session ends every session built on it, and a client is  *)
(* told only of sessions that have ended.                                  *)
(*                                                                         *)
(* The invariant that carries these says what a lock is worth: the row of  *)
(* a code that is locked is unused, that of a token is usable, and there   *)
(* is never more than one usable token to lock.                            *)
(***************************************************************************)
EXTENDS OidcSessions, FiniteSetTheorems, SequenceTheorems, TLAPS

Token == [used : BOOLEAN, revoked : BOOLEAN]
Rows == Grants \X (0 .. MaxTokens)
Leases == UNION {[S -> Nat \ {0}] : S \in SUBSET Nat}

OidcType ==
  /\ sso \in Seq({"live", "dead"})
  /\ code \in [Grants -> [state : {"none", "issued", "used"}, sso : Nat]]
  /\ sess \in [Grants -> {"none", "live", "dead"}]
  /\ tokens \in [Grants -> Seq(Token)]
  /\ ends \in Nat
  /\ unread \subseteq Grants \union {"all"}
  /\ delivery \in [Grants -> [status : {"none", "pending", "delivered", "dead"}, tries : Nat]]
  /\ leased \in [Grants -> Leases]
  /\ reused \subseteq Grants

(* A row is locked by one request, and then it is what that request has found. *)
LocksHold ==
  /\ held \in [DOMAIN held -> {1}] /\ DOMAIN held \subseteq Rows
  /\ \A g \in Grants : <<g, 0>> \in DOMAIN held => code[g].state = "issued"
  /\ \A g \in Grants, n \in 1 .. MaxTokens : <<g, n>> \in DOMAIN held => n \in DOMAIN tokens[g] /\ Usable(tokens[g][n])

(* Until its code is used a grant has neither a session nor tokens. *)
CodesComeFirst == \A g \in Grants : code[g].state # "used" => sess[g] = "none" /\ DOMAIN tokens[g] = {}

OneUsable == \A g \in Grants : \A n, m \in DOMAIN tokens[g] : Usable(tokens[g][n]) /\ Usable(tokens[g][m]) => n = m

ReusedIsOver == \A g \in reused : code[g].state = "used" /\ sess[g] # "live"

(* The session a single event is about has ended, and a row that is leased is there. *)
EventsAreTrue == \A g \in Grants : g \in unread => sess[g] = "dead"
LeasedIsThere == \A g \in Grants : DOMAIN leased[g] # {} => delivery[g].status # "none"

OidcInv ==
  OidcType /\ LocksHold /\ CodesComeFirst /\ OneUsable /\ ReusedIsOver /\ EventsAreTrue /\ LeasedIsThere

-----------------------------------------------------------------------------
(* The operators *)

LEMMA LocksIs ==
  ASSUME NEW row, held \in [DOMAIN held -> {1}], row \notin DOMAIN held, Locks(row)
  PROVE  DOMAIN held' = DOMAIN held \union {row} /\ held' \in [DOMAIN held' -> {1}]
<1> DEFINE one == SetToBag({row})
<1>1. DOMAIN one = {row} /\ one[row] = 1 BY DEF SetToBag
<1>2. held' = held (+) one BY DEF Locks
<1> HIDE DEF one
<1>3. held' = [e \in DOMAIN held \union {row} |->
                 (IF e \in DOMAIN held THEN held[e] ELSE 0) + (IF e \in DOMAIN one THEN one[e] ELSE 0)]
  BY <1>1, <1>2 DEF (+)
<1>4. DOMAIN held' = DOMAIN held \union {row} BY <1>3
<1>5. ASSUME NEW e \in DOMAIN held' PROVE held'[e] = 1
  <2>1. CASE e \in DOMAIN held
    <3>1. held[e] = 1 /\ e \notin DOMAIN one BY <1>1, <2>1
    <3> QED BY <1>3, <2>1, <3>1
  <2>2. CASE e \notin DOMAIN held
    <3>1. e = row BY <1>4, <2>2
    <3> QED BY <1>1, <1>3, <2>2, <3>1
  <2> QED BY <2>1, <2>2
<1>6. held' = [e \in DOMAIN held' |-> held'[e]] BY <1>3, <1>4
<1> QED BY <1>4, <1>5, <1>6

LEMMA UnlocksIs ==
  ASSUME NEW row, held \in [DOMAIN held -> {1}], Unlocks(row)
  PROVE  row \in DOMAIN held /\ DOMAIN held' = DOMAIN held \ {row} /\ held' \in [DOMAIN held' -> {1}]
<1> DEFINE one == SetToBag({row})
           left == [e \in DOMAIN held |-> IF e \in DOMAIN one THEN held[e] - one[e] ELSE held[e]]
<1>1. DOMAIN one = {row} /\ one[row] = 1 BY DEF SetToBag
<1>2. row \in DOMAIN held /\ held' = held (-) one BY DEF Unlocks, BagIn, BagToSet
<1> HIDE DEF one
<1>3. held' = [e \in {d \in DOMAIN left : left[d] > 0} |-> left[e]] BY <1>2 DEF (-)
<1>4. DOMAIN left = DOMAIN held OBVIOUS
<1>5. left[row] = 0 BY <1>1, <1>2
<1>6. ASSUME NEW e \in DOMAIN held, e # row PROVE left[e] = 1
  <2>1. e \notin DOMAIN one /\ held[e] = 1 BY <1>1, <1>6
  <2> QED BY <2>1
<1> HIDE DEF left
<1>7. {d \in DOMAIN left : left[d] > 0} = DOMAIN held \ {row} BY <1>4, <1>5, <1>6
<1>8. held' = [e \in DOMAIN held \ {row} |-> left[e]] BY <1>3, <1>7
<1> QED BY <1>2, <1>6, <1>8

(* The bag of what workers hold of a row. *)
LEMMA LeaseIs ==
  ASSUME NEW b \in Leases, NEW n \in Nat
  PROVE  b (+) SetToBag({n}) \in Leases /\ b (-) SetToBag({n}) \in Leases /\ DOMAIN (b (-) SetToBag({n})) \subseteq DOMAIN b
<1> DEFINE one == SetToBag({n})
           more == b (+) one
           left == [e \in DOMAIN b |-> IF e \in DOMAIN one THEN b[e] - one[e] ELSE b[e]]
           less == b (-) one
<1>1. DOMAIN one = {n} /\ one[n] = 1 BY DEF SetToBag
<1> HIDE DEF one
<1>2. b \in [DOMAIN b -> Nat \ {0}] /\ DOMAIN b \subseteq Nat BY DEF Leases
<1>3. more = [e \in DOMAIN b \union {n} |-> (IF e \in DOMAIN b THEN b[e] ELSE 0) + (IF e \in DOMAIN one THEN one[e] ELSE 0)]
  BY <1>1 DEF (+)
<1>4. ASSUME NEW e \in DOMAIN b \union {n} PROVE more[e] \in Nat \ {0}
  <2>1. CASE e \in DOMAIN b /\ e = n BY <1>1, <1>2, <1>3, <2>1
  <2>2. CASE e \in DOMAIN b /\ e # n
    <3>1. e \notin DOMAIN one BY <1>1, <2>2
    <3> QED BY <1>2, <1>3, <2>2, <3>1
  <2>3. CASE e \notin DOMAIN b BY <1>1, <1>3, <2>3
  <2> QED BY <2>1, <2>2, <2>3
<1>5. less = [e \in {d \in DOMAIN left : left[d] > 0} |-> left[e]] BY DEF (-)
<1>6. DOMAIN left = DOMAIN b OBVIOUS
<1>7. ASSUME NEW e \in DOMAIN b PROVE left[e] \in Int
  <2>1. CASE e = n
    <3>1. left[e] = b[e] - 1 /\ b[e] \in Nat BY <1>1, <1>2, <2>1
    <3> QED BY <3>1
  <2>2. CASE e # n
    <3>1. left[e] = b[e] /\ b[e] \in Nat BY <1>1, <1>2, <2>2
    <3> QED BY <3>1
  <2> QED BY <2>1, <2>2
<1> DEFINE rest == {d \in DOMAIN left : left[d] > 0}
<1> HIDE DEF left
<1>8. rest \subseteq DOMAIN b /\ \A e \in rest : left[e] \in Nat \ {0} BY <1>6, <1>7
<1>9. less = [e \in rest |-> left[e]] BY <1>5
<1> HIDE DEF rest, more, less
<1>10. less \in [rest -> Nat \ {0}] /\ DOMAIN less = rest BY <1>8, <1>9
<1>11. more = [e \in DOMAIN b \union {n} |-> more[e]] BY <1>3
<1>12. more \in [DOMAIN b \union {n} -> Nat \ {0}] BY <1>4, <1>11
<1>13. DOMAIN b \union {n} \in SUBSET Nat /\ rest \in SUBSET Nat BY <1>2, <1>8
<1>14. more \in Leases BY <1>12, <1>13 DEF Leases
<1>15. less \in Leases BY <1>10, <1>13 DEF Leases
<1> QED BY <1>8, <1>10, <1>14, <1>15 DEF more, less, one

(* Sessions end: what is revoked can be used no more, and only what was live is announced. *)
Ends(gs) ==
  /\ tokens' \in [Grants -> Seq(Token)] /\ \A g \in Grants : DOMAIN tokens'[g] = DOMAIN tokens[g]
  /\ \A g \in Grants \ gs : tokens'[g] = tokens[g] /\ sess'[g] = sess[g]
  /\ \A g \in gs : sess'[g] # "live" /\ \A n \in DOMAIN tokens'[g] : ~Usable(tokens'[g][n])
  /\ sess' \in [Grants -> {"none", "live", "dead"}]
  /\ \A g \in Grants : (sess[g] = "none" => sess'[g] = "none") /\ (sess[g] = "dead" => sess'[g] = "dead")
  /\ unread' \subseteq unread \union Grants
  /\ \A g \in unread' : g \in unread \/ (g \in Grants /\ sess'[g] = "dead")
  /\ \A g \in gs, n \in 1 .. MaxTokens : <<g, n>> \notin DOMAIN held
  /\ ends' = ends

LEMMA EndSessionsIs == ASSUME OidcInv, NEW gs \in SUBSET Grants, EndSessions(gs) PROVE Ends(gs)
<1>0. /\ tokens \in [Grants -> Seq(Token)] /\ sess \in [Grants -> {"none", "live", "dead"}]
  BY DEF OidcInv, OidcType
<1>1. /\ tokens' = [g \in Grants |-> IF g \in gs THEN [n \in DOMAIN tokens[g] |-> [tokens[g][n] EXCEPT !.revoked = TRUE]]
                                     ELSE tokens[g]]
      /\ sess' = [g \in Grants |-> IF g \in gs /\ sess[g] = "live" THEN "dead" ELSE sess[g]]
      /\ unread' = unread \union NewlyDead(gs) /\ ends' = ends
  BY DEF EndSessions, Announces
<1>2. ASSUME NEW g \in gs
      PROVE  /\ tokens'[g] \in Seq(Token) /\ DOMAIN tokens'[g] = DOMAIN tokens[g]
             /\ \A n \in DOMAIN tokens'[g] : ~Usable(tokens'[g][n])
  <2> DEFINE s == tokens[g]
             r == [n \in DOMAIN s |-> [s[n] EXCEPT !.revoked = TRUE]]
  <2>1. tokens'[g] = r BY <1>1
  <2>2. s \in Seq(Token) BY <1>0
  <2>3. DOMAIN s = 1 .. Len(s) /\ Len(s) \in Nat /\ \A n \in DOMAIN s : s[n] \in Token BY <2>2
  <2> HIDE DEF s
  <2>4. ASSUME NEW n \in DOMAIN s PROVE r[n] \in Token /\ r[n].revoked
    <3>1. s[n] \in Token BY <2>3
    <3>2. r[n] = [s[n] EXCEPT !.revoked = TRUE] OBVIOUS
    <3> QED BY <3>1, <3>2 DEF Token
  <2>5. DOMAIN r = DOMAIN s OBVIOUS
  <2> HIDE DEF r
  <2>6. r = [n \in 1 .. Len(s) |-> r[n]] BY <2>3, <2>5 DEF r
  <2>7. r \in [1 .. Len(s) -> Token] BY <2>3, <2>4, <2>6
  <2>8. r \in Seq(Token) BY <2>3, <2>7, SeqDef
  <2> QED BY <2>1, <2>4, <2>5, <2>8 DEF s, Usable
<1>3. ASSUME NEW g \in Grants, g \notin gs PROVE tokens'[g] = tokens[g] /\ sess'[g] = sess[g]
  BY <1>1, <1>3
<1>4. \A g \in Grants : tokens'[g] \in Seq(Token) /\ DOMAIN tokens'[g] = DOMAIN tokens[g] BY <1>0, <1>2, <1>3
<1>5. tokens' = [g \in Grants |-> tokens'[g]] BY Zenon, <1>1
<1>6. tokens' \in [Grants -> Seq(Token)] BY <1>4, <1>5
<1>7. \A g \in Grants : sess'[g] = IF g \in gs /\ sess[g] = "live" THEN "dead" ELSE sess[g] BY Zenon, <1>1
<1>8. \A g \in gs : sess'[g] # "live" BY <1>7
<1>9. \A g \in Grants : (sess[g] = "none" => sess'[g] = "none") /\ (sess[g] = "dead" => sess'[g] = "dead") BY <1>7
<1>10. sess' = [g \in Grants |-> sess'[g]] BY Zenon, <1>1
<1>11. \A g \in Grants : sess'[g] \in {"none", "live", "dead"} BY <1>0, <1>7
<1>12. sess' \in [Grants -> {"none", "live", "dead"}] BY <1>10, <1>11
<1>13. ASSUME NEW g \in NewlyDead(gs) PROVE g \in Grants /\ sess'[g] = "dead" BY <1>7 DEF NewlyDead
<1>14. ASSUME NEW g \in gs, NEW n \in 1 .. MaxTokens PROVE <<g, n>> \notin DOMAIN held
  <2>1. n # 0 OBVIOUS
  <2>2. \A row \in DOMAIN held : row[1] \in gs => row[2] = 0 BY DEF EndSessions, Unlocked, BagToSet
  <2>3. <<g, n>>[1] = g /\ <<g, n>>[2] = n OBVIOUS
  <2> QED BY <2>1, <2>2, <2>3
<1>15. unread' \subseteq unread \union Grants /\ \A g \in unread' : g \in unread \/ (g \in Grants /\ sess'[g] = "dead")
  BY <1>1, <1>13
<1> QED BY <1>1, <1>2, <1>3, <1>4, <1>6, <1>8, <1>9, <1>12, <1>14, <1>15 DEF Ends

-----------------------------------------------------------------------------
(* The invariant is kept *)

LEMMA EndingKeeps ==
  ASSUME OidcInv, NEW gs \in SUBSET Grants, EndSessions(gs), UNCHANGED <<code, held, channelVars>>,
         sso' \in Seq({"live", "dead"}),
         reused' \subseteq Grants, \A g \in reused' : g \in reused \/ (g \in gs /\ code[g].state = "used")
  PROVE  OidcInv'
<1>0. /\ OidcType /\ LocksHold /\ CodesComeFirst /\ OneUsable /\ ReusedIsOver /\ EventsAreTrue /\ LeasedIsThere
      /\ Ends(gs) /\ UNCHANGED <<code, held, delivery, leased>>
  BY EndSessionsIs DEF OidcInv, channelVars
<1>1. OidcType' BY <1>0 DEF OidcType, Ends
<1>2. LocksHold'
  <2>1. ASSUME NEW g \in Grants, NEW n \in 1 .. MaxTokens, <<g, n>> \in DOMAIN held
        PROVE  n \in DOMAIN tokens'[g] /\ Usable(tokens'[g][n])
    <3>1. g \notin gs BY <1>0, <2>1 DEF Ends
    <3>2. tokens'[g] = tokens[g] BY <1>0, <3>1 DEF Ends
    <3> QED BY <1>0, <2>1, <3>2 DEF LocksHold
  <2>2. \A g \in Grants, n \in 1 .. MaxTokens : <<g, n>> \in DOMAIN held' => n \in DOMAIN tokens'[g] /\ Usable(tokens'[g][n])
    BY <1>0, <2>1
  <2>3. /\ held' \in [DOMAIN held' -> {1}] /\ DOMAIN held' \subseteq Rows
        /\ \A g \in Grants : <<g, 0>> \in DOMAIN held' => code'[g].state = "issued"
    BY <1>0 DEF LocksHold
  <2> QED BY <2>2, <2>3 DEF LocksHold, Usable
<1>3. CodesComeFirst' BY <1>0 DEF CodesComeFirst, Ends
<1>4. OneUsable'
  <2>1. ASSUME NEW g \in Grants, NEW n \in DOMAIN tokens'[g], NEW m \in DOMAIN tokens'[g],
               Usable(tokens'[g][n]), Usable(tokens'[g][m])
        PROVE  n = m
    <3>1. g \notin gs BY <1>0, <2>1 DEF Ends
    <3>2. tokens'[g] = tokens[g] BY <1>0, <3>1 DEF Ends
    <3> QED BY <1>0, <2>1, <3>2 DEF OneUsable
  <2> QED BY <2>1 DEF OneUsable, Usable
<1>5. ReusedIsOver'
  <2>1. ASSUME NEW g \in reused' PROVE code[g].state = "used" /\ sess'[g] # "live"
    <3>1. CASE g \in gs
      <4>1. code[g].state = "used" BY <1>0, <2>1, <3>1 DEF ReusedIsOver
      <4> QED BY <1>0, <3>1, <4>1 DEF Ends
    <3>2. CASE g \notin gs
      <4>1. g \in reused /\ g \in Grants BY <2>1, <3>2
      <4>2. sess'[g] = sess[g] BY <1>0, <3>2, <4>1 DEF Ends
      <4> QED BY <1>0, <4>1, <4>2 DEF ReusedIsOver
    <3> QED BY <3>1, <3>2
  <2> QED BY <1>0, <2>1 DEF ReusedIsOver
<1>6. EventsAreTrue' BY <1>0 DEF EventsAreTrue, Ends
<1>7. LeasedIsThere' BY <1>0 DEF LeasedIsThere
<1> QED BY <1>1, <1>2, <1>3, <1>4, <1>5, <1>6, <1>7 DEF OidcInv

(* A step that only locks or unlocks rows. *)
LEMMA LockingKeeps ==
  ASSUME OidcInv, UNCHANGED <<sso, ends, unread, code, sess, tokens, reused, channelVars>>,
         held' \in [DOMAIN held' -> {1}], DOMAIN held' \subseteq Rows,
         \A g \in Grants : <<g, 0>> \in DOMAIN held' => code[g].state = "issued",
         \A g \in Grants, n \in 1 .. MaxTokens :
            <<g, n>> \in DOMAIN held' => n \in DOMAIN tokens[g] /\ Usable(tokens[g][n])
  PROVE  OidcInv'
<1>0. /\ OidcType /\ CodesComeFirst /\ OneUsable /\ ReusedIsOver /\ EventsAreTrue /\ LeasedIsThere
      /\ UNCHANGED <<sso, ends, unread, code, sess, tokens, reused, delivery, leased>>
  BY DEF OidcInv, channelVars
<1>1. OidcType' BY <1>0 DEF OidcType
<1>2. LocksHold' BY <1>0 DEF LocksHold, Usable
<1>3. CodesComeFirst' BY <1>0 DEF CodesComeFirst
<1>4. OneUsable' BY <1>0 DEF OneUsable, Usable
<1>5. ReusedIsOver' BY <1>0 DEF ReusedIsOver
<1>6. EventsAreTrue' /\ LeasedIsThere' BY <1>0 DEF EventsAreTrue, LeasedIsThere
<1> QED BY <1>1, <1>2, <1>3, <1>4, <1>5, <1>6 DEF OidcInv

LEMMA PresentCodeKeeps == ASSUME OidcInv, NEW g \in Grants, PresentCode(g) PROVE OidcInv'
<1>0. LocksHold /\ code[g].state = "issued" /\ <<g, 0>> \notin DOMAIN held
  BY DEF OidcInv, PresentCode, CodeFree, BagIn, BagToSet
<1>1. DOMAIN held' = DOMAIN held \union {<<g, 0>>} /\ held' \in [DOMAIN held' -> {1}]
  BY <1>0, LocksIs DEF PresentCode, LocksHold
<1>2. <<g, 0>> \in Rows BY OidcAssumption DEF Rows, OidcAssumption
<1>3. DOMAIN held' \subseteq Rows BY <1>0, <1>1, <1>2 DEF LocksHold
<1>4. \A h \in Grants : <<h, 0>> \in DOMAIN held' => code[h].state = "issued" BY <1>0, <1>1 DEF LocksHold
<1>5. \A h \in Grants, n \in 1 .. MaxTokens : <<h, n>> \in DOMAIN held' => <<h, n>> \in DOMAIN held
  <2> SUFFICES ASSUME NEW h \in Grants, NEW n \in 1 .. MaxTokens, <<h, n>> = <<g, 0>> PROVE FALSE BY <1>1
  <2>1. n = 0 OBVIOUS
  <2> QED BY <2>1
<1>6. \A h \in Grants, n \in 1 .. MaxTokens : <<h, n>> \in DOMAIN held' => n \in DOMAIN tokens[h] /\ Usable(tokens[h][n])
  BY <1>0, <1>5 DEF LocksHold
<1> QED BY <1>1, <1>3, <1>4, <1>6, LockingKeeps DEF PresentCode

LEMMA PresentTokenKeeps ==
  ASSUME OidcInv, NEW g \in Grants, NEW n \in 1 .. MaxTokens, PresentToken(g, n)
  PROVE  OidcInv'
<1>0. /\ LocksHold /\ n \in DOMAIN tokens[g] /\ Usable(tokens[g][n]) /\ <<g, n>> \notin DOMAIN held
  BY DEF OidcInv, PresentToken, TokenFree, BagIn, BagToSet
<1>1. DOMAIN held' = DOMAIN held \union {<<g, n>>} /\ held' \in [DOMAIN held' -> {1}]
  BY <1>0, LocksIs DEF PresentToken, LocksHold
<1>2. <<g, n>> \in Rows BY OidcAssumption DEF Rows, OidcAssumption
<1>3. DOMAIN held' \subseteq Rows BY <1>0, <1>1, <1>2 DEF LocksHold
<1>4. \A h \in Grants : <<h, 0>> \in DOMAIN held' => <<h, 0>> \in DOMAIN held
  <2> SUFFICES ASSUME NEW h \in Grants, <<h, 0>> = <<g, n>> PROVE FALSE BY <1>1
  <2>1. n = 0 OBVIOUS
  <2> QED BY <2>1
<1>5. \A h \in Grants : <<h, 0>> \in DOMAIN held' => code[h].state = "issued" BY <1>0, <1>4 DEF LocksHold
<1>6. ASSUME NEW h \in Grants, NEW m \in 1 .. MaxTokens, <<h, m>> \in DOMAIN held'
      PROVE  m \in DOMAIN tokens[h] /\ Usable(tokens[h][m])
  <2>1. CASE <<h, m>> \in DOMAIN held BY <1>0, <2>1 DEF LocksHold
  <2>2. CASE <<h, m>> = <<g, n>>
    <3>1. h = g /\ m = n BY <2>2
    <3> QED BY <1>0, <3>1
  <2> QED BY <1>1, <1>6, <2>1, <2>2
<1> QED BY <1>1, <1>3, <1>5, <1>6, LockingKeeps DEF PresentToken

LEMMA RollbackKeeps ==
  ASSUME OidcInv, NEW g \in Grants, NEW n \in 0 .. MaxTokens, Rollback(g, n)
  PROVE  OidcInv'
<1>0. LocksHold BY DEF OidcInv
<1>1. DOMAIN held' \subseteq DOMAIN held /\ held' \in [DOMAIN held' -> {1}]
  BY <1>0, UnlocksIs DEF Rollback, LocksHold
<1>2. /\ DOMAIN held' \subseteq Rows
      /\ \A h \in Grants : <<h, 0>> \in DOMAIN held' => code[h].state = "issued"
      /\ \A h \in Grants, m \in 1 .. MaxTokens : <<h, m>> \in DOMAIN held' => m \in DOMAIN tokens[h] /\ Usable(tokens[h][m])
  BY <1>0, <1>1 DEF LocksHold
<1> QED BY <1>1, <1>2, LockingKeeps DEF Rollback

(* A code: issued, used up, exchanged. *)
LEMMA IssueCodeKeeps == ASSUME OidcInv, NEW g \in Grants, NEW o \in 1 .. MaxSso, IssueCode(g, o) PROVE OidcInv'
<1>0. /\ OidcType /\ LocksHold /\ CodesComeFirst /\ OneUsable /\ ReusedIsOver /\ EventsAreTrue /\ LeasedIsThere
      /\ UNCHANGED <<sso, ends, unread, sess, tokens, held, reused, delivery, leased>>
      /\ code \in [Grants -> [state : {"none", "issued", "used"}, sso : Nat]] /\ code[g].state = "none"
  BY DEF OidcInv, OidcType, channelVars, IssueCode
<1> DEFINE row == [state |-> "issued", sso |-> o]
<1>1. row \in [state : {"none", "issued", "used"}, sso : Nat] /\ row.state = "issued" BY OidcAssumption DEF OidcAssumption
<1>2. code' = [code EXCEPT ![g] = row] BY DEF IssueCode
<1> HIDE DEF row
<1>3. /\ code' \in [Grants -> [state : {"none", "issued", "used"}, sso : Nat]]
      /\ code'[g].state = "issued" /\ \A h \in Grants \ {g} : code'[h] = code[h]
  BY <1>0, <1>1, <1>2
<1>4. OidcType' BY <1>0, <1>3 DEF OidcType
<1>5. LocksHold' BY <1>0, <1>3 DEF LocksHold, Usable
<1>6. CodesComeFirst' BY <1>0, <1>3 DEF CodesComeFirst
<1>7. OneUsable' BY <1>0 DEF OneUsable, Usable
<1>8. ReusedIsOver'
  <2>1. g \notin reused BY <1>0 DEF ReusedIsOver
  <2> QED BY <1>0, <1>3, <2>1 DEF ReusedIsOver, OidcType
<1>9. EventsAreTrue' /\ LeasedIsThere' BY <1>0 DEF EventsAreTrue, LeasedIsThere
<1> QED BY <1>4, <1>5, <1>6, <1>7, <1>8, <1>9 DEF OidcInv

LEMMA CodeIsUsed ==
  ASSUME OidcType, NEW g \in Grants, code' = [code EXCEPT ![g].state = "used"]
  PROVE  /\ code' \in [Grants -> [state : {"none", "issued", "used"}, sso : Nat]]
         /\ code'[g].state = "used" /\ \A h \in Grants \ {g} : code'[h] = code[h]
<1> DEFINE row == [code[g] EXCEPT !.state = "used"]
<1>1. code \in [Grants -> [state : {"none", "issued", "used"}, sso : Nat]] BY DEF OidcType
<1>2. row \in [state : {"none", "issued", "used"}, sso : Nat] /\ row.state = "used" BY <1>1
<1>3. code' = [code EXCEPT ![g] = row] BY <1>1
<1> HIDE DEF row
<1> QED BY <1>1, <1>2, <1>3

LEMMA SpoilCodeKeeps == ASSUME OidcInv, NEW g \in Grants, SpoilCode(g) PROVE OidcInv'
<1>0. /\ OidcType /\ LocksHold /\ CodesComeFirst /\ OneUsable /\ ReusedIsOver /\ EventsAreTrue /\ LeasedIsThere
      /\ UNCHANGED <<sso, ends, unread, sess, tokens, held, reused, delivery, leased>>
      /\ <<g, 0>> \notin DOMAIN held
  BY DEF OidcInv, channelVars, SpoilCode, CodeFree, BagIn, BagToSet
<1>1. /\ code' \in [Grants -> [state : {"none", "issued", "used"}, sso : Nat]]
      /\ code'[g].state = "used" /\ \A h \in Grants \ {g} : code'[h] = code[h]
  BY <1>0, CodeIsUsed DEF SpoilCode
<1>2. OidcType' BY <1>0, <1>1 DEF OidcType
<1>3. LocksHold' BY <1>0, <1>1 DEF LocksHold, Usable
<1>4. CodesComeFirst' BY <1>0, <1>1 DEF CodesComeFirst
<1>5. OneUsable' BY <1>0 DEF OneUsable, Usable
<1>6. ReusedIsOver' BY <1>0, <1>1 DEF ReusedIsOver, OidcType
<1>7. EventsAreTrue' /\ LeasedIsThere' BY <1>0 DEF EventsAreTrue, LeasedIsThere
<1> QED BY <1>2, <1>3, <1>4, <1>5, <1>6, <1>7 DEF OidcInv

LEMMA ExchangeKeeps == ASSUME OidcInv, NEW g \in Grants, Exchange(g) PROVE OidcInv'
<1>0. /\ OidcType /\ LocksHold /\ CodesComeFirst /\ OneUsable /\ ReusedIsOver /\ EventsAreTrue /\ LeasedIsThere
      /\ UNCHANGED <<sso, ends, unread, reused, delivery, leased>>
      /\ tokens \in [Grants -> Seq(Token)] /\ sess \in [Grants -> {"none", "live", "dead"}] /\ sess' = [sess EXCEPT ![g] = "live"]
  BY DEF OidcInv, OidcType, channelVars, Exchange
<1>1. <<g, 0>> \in DOMAIN held /\ DOMAIN held' = DOMAIN held \ {<<g, 0>>} /\ held' \in [DOMAIN held' -> {1}]
  BY <1>0, UnlocksIs DEF Exchange, LocksHold
<1>2. /\ code' \in [Grants -> [state : {"none", "issued", "used"}, sso : Nat]]
      /\ code'[g].state = "used" /\ \A h \in Grants \ {g} : code'[h] = code[h]
  BY <1>0, CodeIsUsed DEF Exchange
<1>3. code[g].state = "issued" /\ sess[g] = "none" /\ DOMAIN tokens[g] = {} /\ g \notin reused /\ g \notin unread
  BY <1>0, <1>1 DEF LocksHold, CodesComeFirst, ReusedIsOver, EventsAreTrue
<1>4. /\ tokens' \in [Grants -> Seq(Token)] /\ \A h \in Grants \ {g} : tokens'[h] = tokens[h]
      /\ tokens'[g] \in {tokens[g], <<FreshToken>>}
  <2> DEFINE s == <<FreshToken>>
  <2>1. FreshToken \in Token BY DEF FreshToken, Token
  <2>2. s \in Seq(Token) BY <2>1
  <2>3. tokens' = tokens \/ tokens' = [tokens EXCEPT ![g] = s] BY DEF Exchange
  <2> HIDE DEF s
  <2>4. CASE tokens' = tokens BY <1>0, <2>4
  <2>5. CASE tokens' = [tokens EXCEPT ![g] = s]
    <3>1. tokens'[g] = s /\ tokens' \in [Grants -> Seq(Token)] /\ \A h \in Grants \ {g} : tokens'[h] = tokens[h]
      BY <1>0, <2>2, <2>5
    <3> QED BY <3>1 DEF s
  <2> QED BY <2>3, <2>4, <2>5
<1>5. \A n, m \in DOMAIN tokens'[g] : n = m
  <2>1. CASE tokens'[g] = tokens[g] BY <1>3, <2>1
  <2>2. CASE tokens'[g] = <<FreshToken>>
    <3>1. DOMAIN tokens'[g] = 1 .. 1 BY <2>2
    <3> QED BY <3>1
  <2> QED BY <1>4, <2>1, <2>2
<1>6. OidcType' BY <1>0, <1>2, <1>4 DEF OidcType
<1>7. LocksHold'
  <2>1. \A h \in Grants : <<h, 0>> \in DOMAIN held' => code'[h].state = "issued"
    BY <1>0, <1>1, <1>2 DEF LocksHold
  <2>2. ASSUME NEW h \in Grants, NEW n \in 1 .. MaxTokens, <<h, n>> \in DOMAIN held'
        PROVE  n \in DOMAIN tokens'[h] /\ Usable(tokens'[h][n])
    <3>1. <<h, n>> \in DOMAIN held BY <1>1, <2>2
    <3>2. n \in DOMAIN tokens[h] /\ Usable(tokens[h][n]) BY <1>0, <3>1 DEF LocksHold
    <3>3. h # g BY <1>3, <3>2
    <3> QED BY <1>4, <3>2, <3>3
  <2>3. DOMAIN held' \subseteq Rows BY <1>0, <1>1 DEF LocksHold
  <2> QED BY <1>1, <2>1, <2>2, <2>3 DEF LocksHold, Usable
<1>8. sess' \in [Grants -> {"none", "live", "dead"}] /\ sess'[g] = "live" /\ \A h \in Grants \ {g} : sess'[h] = sess[h] BY <1>0
<1>9. CodesComeFirst' BY <1>0, <1>2, <1>4, <1>8 DEF CodesComeFirst
<1>10. OneUsable'
  <2>1. ASSUME NEW h \in Grants, NEW n \in DOMAIN tokens'[h], NEW m \in DOMAIN tokens'[h],
               Usable(tokens'[h][n]), Usable(tokens'[h][m])
        PROVE  n = m
    <3>1. CASE h = g BY <1>5, <2>1, <3>1
    <3>2. CASE h # g
      <4>1. tokens'[h] = tokens[h] BY <1>4, <3>2
      <4> QED BY <1>0, <2>1, <4>1 DEF OneUsable
    <3> QED BY <3>1, <3>2
  <2> QED BY <2>1 DEF OneUsable, Usable
<1>11. ReusedIsOver'
  <2>1. ASSUME NEW h \in reused PROVE code'[h].state = "used" /\ sess'[h] # "live"
    <3>1. h \in Grants \ {g} BY <1>0, <1>3, <2>1 DEF OidcType
    <3> QED BY <1>0, <1>2, <1>8, <2>1, <3>1 DEF ReusedIsOver
  <2> QED BY <1>0, <2>1 DEF ReusedIsOver
<1>12. EventsAreTrue'
  <2>1. \A h \in Grants : h \in unread => h # g BY <1>3
  <2> QED BY <1>0, <1>8, <2>1 DEF EventsAreTrue
<1>13. LeasedIsThere' BY <1>0 DEF LeasedIsThere
<1> QED BY <1>6, <1>7, <1>9, <1>10, <1>11, <1>12, <1>13 DEF OidcInv

(* The one usable token is locked, so that no other request holds a token of the grant, and is usable no more when its
   successor is. *)
LEMMA RotateKeeps ==
  ASSUME OidcInv, NEW g \in Grants, NEW n \in 1 .. MaxTokens, Rotate(g, n)
  PROVE  OidcInv'
<1>0. /\ OidcType /\ LocksHold /\ CodesComeFirst /\ OneUsable /\ ReusedIsOver /\ EventsAreTrue /\ LeasedIsThere
      /\ UNCHANGED <<sso, ends, unread, code, sess, reused, delivery, leased>>
      /\ tokens \in [Grants -> Seq(Token)]
  BY DEF OidcInv, OidcType, channelVars, Rotate
<1>1. <<g, n>> \in DOMAIN held /\ DOMAIN held' = DOMAIN held \ {<<g, n>>} /\ held' \in [DOMAIN held' -> {1}]
  BY <1>0, UnlocksIs DEF Rotate, LocksHold
<1>2. n \in DOMAIN tokens[g] /\ Usable(tokens[g][n]) BY <1>0, <1>1 DEF LocksHold
<1> DEFINE s == tokens[g]
           t == [s[n] EXCEPT !.used = TRUE]
           u == [s EXCEPT ![n] = t]
           r == Append(u, FreshToken)
<1>3. s \in Seq(Token) /\ n \in DOMAIN s BY <1>0, <1>2
<1>4. DOMAIN s = 1 .. Len(s) /\ Len(s) \in Nat /\ \A m \in DOMAIN s : s[m] \in Token BY <1>3
<1>5. tokens' = [tokens EXCEPT ![g] = r]
  <2>1. u = [s EXCEPT ![n].used = TRUE] BY <1>3
  <2> QED BY <2>1 DEF Rotate
<1> HIDE DEF s
<1>6. t \in Token /\ t.used BY <1>3, <1>4 DEF Token
<1> HIDE DEF t
<1>7. u \in Seq(Token) /\ DOMAIN u = DOMAIN s /\ u[n] = t /\ \A m \in DOMAIN s \ {n} : u[m] = s[m]
  BY <1>3, <1>4, <1>6, ExceptSeq
<1>8. Len(u) = Len(s) BY <1>4, <1>7
<1> HIDE DEF u
<1>9. FreshToken \in Token BY DEF FreshToken, Token
<1>10. /\ r \in Seq(Token) /\ DOMAIN r = 1 .. Len(s) + 1
       /\ \A m \in 1 .. Len(s) : r[m] = u[m]
  BY <1>7, <1>8, <1>9, AppendProperties
<1> HIDE DEF r
<1>11. \A m \in DOMAIN s : m # n => ~Usable(s[m])
  BY <1>0, <1>2, <1>3 DEF OneUsable, s
<1>12. \A m \in DOMAIN r : m # Len(s) + 1 => ~Usable(r[m])
  <2> SUFFICES ASSUME NEW m \in DOMAIN r, m # Len(s) + 1 PROVE ~Usable(r[m]) OBVIOUS
  <2>1. m \in DOMAIN s /\ r[m] = u[m] BY <1>4, <1>10
  <2>2. CASE m = n
    <3>1. r[m] = t BY <1>7, <2>1, <2>2
    <3> QED BY <1>6, <3>1 DEF Usable
  <2>3. CASE m # n
    <3>1. r[m] = s[m] BY <1>7, <2>1, <2>3
    <3> QED BY <1>11, <2>1, <2>3, <3>1
  <2> QED BY <2>2, <2>3
<1>13. tokens' \in [Grants -> Seq(Token)] /\ tokens'[g] = r /\ \A h \in Grants \ {g} : tokens'[h] = tokens[h]
  BY <1>0, <1>5, <1>10
<1>14. OidcType' BY <1>0, <1>13 DEF OidcType
<1>15. LocksHold'
  <2>1. DOMAIN held' \subseteq Rows /\ \A h \in Grants : <<h, 0>> \in DOMAIN held' => code'[h].state = "issued"
    BY <1>0, <1>1 DEF LocksHold
  <2>2. ASSUME NEW h \in Grants, NEW m \in 1 .. MaxTokens, <<h, m>> \in DOMAIN held'
        PROVE  m \in DOMAIN tokens'[h] /\ Usable(tokens'[h][m])
    <3>1. <<h, m>> \in DOMAIN held /\ <<h, m>> # <<g, n>> BY <1>1, <2>2
    <3>2. m \in DOMAIN tokens[h] /\ Usable(tokens[h][m]) BY <1>0, <3>1 DEF LocksHold
    <3>3. h # g BY <1>0, <1>2, <3>1, <3>2 DEF OneUsable
    <3> QED BY <1>13, <3>2, <3>3
  <2> QED BY <1>1, <2>1, <2>2 DEF LocksHold, Usable
<1>16. code[g].state = "used" BY <1>0, <1>2 DEF CodesComeFirst
<1>17. CodesComeFirst'
  <2>1. \A h \in Grants : code[h].state # "used" => h \in Grants \ {g} BY <1>16
  <2> QED BY <1>0, <1>13, <2>1 DEF CodesComeFirst
<1>18. OneUsable'
  <2>1. ASSUME NEW h \in Grants, NEW k \in DOMAIN tokens'[h], NEW m \in DOMAIN tokens'[h],
               Usable(tokens'[h][k]), Usable(tokens'[h][m])
        PROVE  k = m
    <3>1. CASE h = g BY <1>12, <1>13, <2>1, <3>1
    <3>2. CASE h # g
      <4>1. tokens'[h] = tokens[h] BY <1>13, <3>2
      <4> QED BY <1>0, <2>1, <4>1 DEF OneUsable
    <3> QED BY <3>1, <3>2
  <2> QED BY <2>1 DEF OneUsable, Usable
<1>19. ReusedIsOver' BY <1>0 DEF ReusedIsOver
<1>20. EventsAreTrue' /\ LeasedIsThere' BY <1>0 DEF EventsAreTrue, LeasedIsThere
<1> QED BY <1>14, <1>15, <1>17, <1>18, <1>19, <1>20 DEF OidcInv

(* What ends sessions. *)
LEMMA SsoEnds ==
  ASSUME OidcType, NEW o \in DOMAIN sso
  PROVE  /\ [sso EXCEPT ![o] = "dead"] \in Seq({"live", "dead"})
         /\ Append([sso EXCEPT ![o] = "dead"], "live") \in Seq({"live", "dead"})
         /\ Append(sso, "live") \in Seq({"live", "dead"})
<1>1. sso \in Seq({"live", "dead"}) /\ o \in 1 .. Len(sso) BY DEF OidcType
<1> DEFINE s == [sso EXCEPT ![o] = "dead"]
<1>2. s \in Seq({"live", "dead"}) BY <1>1, ExceptSeq
<1> HIDE DEF s
<1>3. Append(s, "live") \in Seq({"live", "dead"}) BY <1>2, AppendProperties
<1>4. Append(sso, "live") \in Seq({"live", "dead"}) BY <1>1, AppendProperties
<1> QED BY <1>2, <1>3, <1>4 DEF s

LEMMA SignOutKeeps == ASSUME OidcInv, NEW o \in 1 .. MaxSso, SignOut(o) PROVE OidcInv'
<1>1. Tree(o) \in SUBSET Grants BY DEF Tree
<1>2. sso' \in Seq({"live", "dead"}) BY SsoEnds DEF SignOut, OidcInv
<1>3. reused' = reused /\ reused \subseteq Grants BY DEF SignOut, OidcInv, OidcType
<1>4. EndSessions(Tree(o)) /\ UNCHANGED <<code, held, channelVars>> BY DEF SignOut
<1> QED BY <1>1, <1>2, <1>3, <1>4, EndingKeeps

LEMMA SsoLoginKeeps == ASSUME OidcInv, SsoLogin PROVE OidcInv'
<1>0. reused' = reused /\ reused \subseteq Grants /\ UNCHANGED <<code, held, channelVars>> /\ OidcType
  BY DEF SsoLogin, OidcInv, OidcType
<1>1. CASE sso' = Append(sso, "live") /\ UNCHANGED <<sess, tokens, ends, unread>>
  <2>1. sso' \in Seq({"live", "dead"}) BY <1>0, <1>1, AppendProperties DEF OidcType
  <2>2. /\ LocksHold /\ CodesComeFirst /\ OneUsable /\ ReusedIsOver /\ EventsAreTrue /\ LeasedIsThere
        /\ UNCHANGED <<ends, unread, code, sess, tokens, held, reused, delivery, leased>>
    BY <1>0, <1>1 DEF OidcInv, channelVars
  <2>3. OidcType' BY <1>0, <2>1, <2>2 DEF OidcType
  <2>4. LocksHold' BY <2>2 DEF LocksHold, Usable
  <2>5. CodesComeFirst' /\ ReusedIsOver' BY <2>2 DEF CodesComeFirst, ReusedIsOver
  <2>6. OneUsable' BY <2>2 DEF OneUsable, Usable
  <2>7. EventsAreTrue' /\ LeasedIsThere' BY <2>2 DEF EventsAreTrue, LeasedIsThere
  <2> QED BY <2>3, <2>4, <2>5, <2>6, <2>7 DEF OidcInv
<1>2. CASE \E old \in DOMAIN sso : EndSessions(Tree(old)) /\ sso' = Append([sso EXCEPT ![old] = "dead"], "live")
  <2>1. PICK old \in DOMAIN sso : EndSessions(Tree(old)) /\ sso' = Append([sso EXCEPT ![old] = "dead"], "live")
    BY <1>2
  <2>2. Tree(old) \in SUBSET Grants BY DEF Tree
  <2>3. sso' \in Seq({"live", "dead"}) BY <1>0, <2>1, SsoEnds
  <2> QED BY <1>0, <2>1, <2>2, <2>3, EndingKeeps
<1> QED BY <1>1, <1>2 DEF SsoLogin

LEMMA ReuseCodeKeeps == ASSUME OidcInv, NEW g \in Grants, ReuseCode(g) PROVE OidcInv'
<1>1. sso' = sso /\ sso \in Seq({"live", "dead"}) /\ reused' = reused \union {g} /\ reused \subseteq Grants
  BY DEF ReuseCode, OidcInv, OidcType
<1>2. \A h \in reused' : h \in reused \/ (h \in {g} /\ code[h].state = "used") BY <1>1 DEF ReuseCode
<1>3. EndSessions({g}) /\ UNCHANGED <<code, held, channelVars>> /\ {g} \in SUBSET Grants BY DEF ReuseCode
<1>4. reused' \subseteq Grants BY <1>1
<1> QED BY <1>1, <1>2, <1>3, <1>4, EndingKeeps

LEMMA ReuseTokenKeeps ==
  ASSUME OidcInv, NEW g \in Grants, NEW n \in 1 .. MaxTokens, ReuseToken(g, n)
  PROVE  OidcInv'
<1>1. sso' = sso /\ sso \in Seq({"live", "dead"}) /\ reused' = reused \union {g} /\ reused \subseteq Grants
  BY DEF ReuseToken, OidcInv, OidcType
<1>2. code[g].state = "used" BY DEF ReuseToken, TokenFree, OidcInv, CodesComeFirst
<1>3. \A h \in reused' : h \in reused \/ (h \in {g} /\ code[h].state = "used") BY <1>1, <1>2
<1>4. EndSessions({g}) /\ UNCHANGED <<code, held, channelVars>> /\ {g} \in SUBSET Grants
  BY DEF ReuseToken, RevokeGrant
<1>5. reused' \subseteq Grants BY <1>1
<1> QED BY <1>1, <1>3, <1>4, <1>5, EndingKeeps

LEMMA RefuseTokenKeeps == ASSUME OidcInv, NEW g \in Grants, RefuseToken(g) PROVE OidcInv'
<1>1. sso' = sso /\ sso \in Seq({"live", "dead"}) /\ reused' = reused /\ reused \subseteq Grants
  BY DEF RefuseToken, OidcInv, OidcType
<1>2. EndSessions({g}) /\ UNCHANGED <<code, held, channelVars>> /\ {g} \in SUBSET Grants BY DEF RefuseToken
<1> QED BY <1>1, <1>2, EndingKeeps

LEMMA EndAccountKeeps == ASSUME OidcInv, EndAccount PROVE OidcInv'
<1>0. /\ OidcType /\ LocksHold /\ CodesComeFirst /\ OneUsable /\ ReusedIsOver /\ EventsAreTrue /\ LeasedIsThere
      /\ UNCHANGED <<code, tokens, held, reused, delivery, leased>>
      /\ unread' = unread \union {"all"} /\ "all" \notin Grants /\ ends' = ends + 1
  BY OidcAssumption DEF OidcInv, channelVars, EndAccount, Announces, OidcAssumption
<1>1. sess' = [g \in Grants |-> IF sess[g] = "live" THEN "dead" ELSE sess[g]] BY DEF EndAccount
<1>2. \A g \in Grants : sess'[g] = IF sess[g] = "live" THEN "dead" ELSE sess[g] BY Zenon, <1>1
<1>3. \A g \in Grants : sess'[g] \in {"none", "live", "dead"} BY <1>0, <1>2 DEF OidcType
<1>4. sess' = [g \in Grants |-> sess'[g]] BY Zenon, <1>1
<1>5. sess' \in [Grants -> {"none", "live", "dead"}] BY <1>3, <1>4
<1>6. sso' \in Seq({"live", "dead"})
  <2>1. sso \in Seq({"live", "dead"}) BY <1>0 DEF OidcType
  <2>2. DOMAIN sso = 1 .. Len(sso) /\ Len(sso) \in Nat BY <2>1
  <2>3. sso' = [o \in 1 .. Len(sso) |-> "dead"] BY <2>2 DEF EndAccount
  <2>4. sso' \in [1 .. Len(sso) -> {"live", "dead"}] BY <2>3
  <2> QED BY <2>2, <2>4, SeqDef
<1>7. OidcType' BY <1>0, <1>5, <1>6 DEF OidcType
<1>8. LocksHold' BY <1>0 DEF LocksHold, Usable
<1>9. CodesComeFirst' /\ ReusedIsOver' BY <1>0, <1>2 DEF CodesComeFirst, ReusedIsOver, OidcType
<1>10. OneUsable' BY <1>0 DEF OneUsable, Usable
<1>11. EventsAreTrue' /\ LeasedIsThere' BY <1>0, <1>2 DEF EventsAreTrue, LeasedIsThere
<1> QED BY <1>7, <1>8, <1>9, <1>10, <1>11 DEF OidcInv

(* The back-channel. *)
Delivery == [status : {"none", "pending", "delivered", "dead"}, tries : Nat]

(* A step of the back-channel that opens no session and closes none. *)
LEMMA ChannelKeeps ==
  ASSUME OidcInv, UNCHANGED <<sso, ends, grantVars>>, unread' \in {unread, {}},
         delivery' \in [Grants -> Delivery], leased' \in [Grants -> Leases], LeasedIsThere'
  PROVE  OidcInv'
<1>0. /\ OidcType /\ LocksHold /\ CodesComeFirst /\ OneUsable /\ ReusedIsOver /\ EventsAreTrue
      /\ UNCHANGED <<sso, ends, code, sess, tokens, held, reused>>
  BY DEF OidcInv, grantVars
<1>1. OidcType' BY <1>0 DEF OidcType, Delivery
<1>2. LocksHold' BY <1>0 DEF LocksHold, Usable
<1>3. CodesComeFirst' /\ ReusedIsOver' /\ EventsAreTrue' BY <1>0 DEF CodesComeFirst, ReusedIsOver, EventsAreTrue
<1>4. OneUsable' BY <1>0 DEF OneUsable, Usable
<1> QED BY <1>1, <1>2, <1>3, <1>4 DEF OidcInv

LEMMA FanOutKeeps == ASSUME OidcInv, FanOut PROVE OidcInv'
<1>0. /\ delivery \in [Grants -> Delivery] /\ leased \in [Grants -> Leases] /\ LeasedIsThere
      /\ leased' = leased /\ unread' = {} /\ UNCHANGED <<sso, ends, grantVars>>
  BY DEF OidcInv, OidcType, FanOut, Delivery
<1>1. ASSUME NEW g \in Grants
      PROVE  delivery'[g] \in Delivery /\ (delivery[g].status # "none" => delivery'[g].status # "none")
  <2>1. delivery'[g] = Enqueued(delivery[g]) \/ delivery'[g] = delivery[g] BY Zenon DEF FanOut
  <2> DEFINE d == delivery[g]
  <2>2. d \in Delivery BY <1>0
  <2> HIDE DEF d
  <2>3. Enqueued(d) \in Delivery /\ (d.status # "none" => Enqueued(d) = d) BY <2>2 DEF Enqueued, Delivery
  <2> QED BY <2>1, <2>2, <2>3 DEF d
<1>2. delivery' = [g \in Grants |-> delivery'[g]] BY Zenon DEF FanOut
<1>3. delivery' \in [Grants -> Delivery] BY <1>1, <1>2
<1>4. LeasedIsThere' BY <1>0, <1>1 DEF LeasedIsThere
<1> QED BY <1>0, <1>3, <1>4, ChannelKeeps

LEMMA LeaseKeeps == ASSUME OidcInv, NEW g \in Grants, Lease(g) PROVE OidcInv'
<1>0. /\ delivery \in [Grants -> Delivery] /\ leased \in [Grants -> Leases] /\ LeasedIsThere
      /\ UNCHANGED <<sso, ends, unread, grantVars, delivery>> /\ delivery[g].status = "pending"
  BY DEF OidcInv, OidcType, Lease, Delivery
<1> DEFINE b == leased[g] (+) SetToBag({delivery[g].tries})
<1>1. leased[g] \in Leases /\ delivery[g].tries \in Nat BY <1>0 DEF Delivery
<1>2. b \in Leases BY <1>1, LeaseIs
<1>3. leased' = [leased EXCEPT ![g] = b] BY DEF Lease
<1> HIDE DEF b
<1>4. leased' \in [Grants -> Leases] /\ \A h \in Grants \ {g} : leased'[h] = leased[h] BY <1>0, <1>2, <1>3
<1>5. LeasedIsThere' BY <1>0, <1>4 DEF LeasedIsThere
<1> QED BY <1>0, <1>4, <1>5, ChannelKeeps

LEMMA AttemptKeeps ==
  ASSUME OidcInv, NEW g \in Grants, NEW n \in BagToSet(leased[g]), Delivered(g, n) \/ Failed(g, n)
  PROVE  OidcInv'
<1>0. /\ delivery \in [Grants -> Delivery] /\ leased \in [Grants -> Leases] /\ LeasedIsThere
      /\ UNCHANGED <<sso, ends, unread, grantVars>>
      /\ leased' = [leased EXCEPT ![g] = leased[g] (-) SetToBag({n})]
  BY DEF OidcInv, OidcType, Delivered, Failed, Ended, Delivery
<1> DEFINE b == leased[g] (-) SetToBag({n})
<1>1. leased[g] \in Leases /\ n \in Nat
  <2>1. \A a \in Leases : DOMAIN a \subseteq Nat BY DEF Leases
  <2>2. leased[g] \in Leases BY <1>0
  <2> QED BY <2>1, <2>2 DEF BagToSet
<1>2. b \in Leases /\ DOMAIN b \subseteq DOMAIN leased[g] BY <1>1, LeaseIs
<1>3. leased' = [leased EXCEPT ![g] = b] BY <1>0
<1> HIDE DEF b
<1>4. leased' \in [Grants -> Leases] /\ leased'[g] = b /\ \A h \in Grants \ {g} : leased'[h] = leased[h] BY <1>0, <1>2, <1>3
<1>5. \E status \in {"pending", "delivered", "dead"} :
         delivery' = [delivery EXCEPT ![g] = [status |-> status, tries |-> delivery[g].tries + 1]]
  <2>1. CASE Delivered(g, n) BY <2>1 DEF Delivered
  <2>2. CASE Failed(g, n)
    <3>1. PICK unsafe \in BOOLEAN :
            delivery' = [delivery EXCEPT ![g] = [status |-> IF unsafe \/ LastTry(n) THEN "dead" ELSE "pending",
                                                 tries |-> delivery[g].tries + 1]]
      BY <2>2 DEF Failed
    <3> QED BY <3>1
  <2> QED BY <2>1, <2>2
<1>6. PICK status \in {"pending", "delivered", "dead"} :
         delivery' = [delivery EXCEPT ![g] = [status |-> status, tries |-> delivery[g].tries + 1]]
  BY <1>5
<1> DEFINE d == [status |-> status, tries |-> delivery[g].tries + 1]
<1>7. d \in Delivery /\ d.status # "none"
  <2>1. delivery[g].tries \in Nat BY <1>0 DEF Delivery
  <2> QED BY <2>1 DEF Delivery
<1>8. delivery' = [delivery EXCEPT ![g] = d] BY <1>6
<1> HIDE DEF d
<1>9. delivery' \in [Grants -> Delivery] /\ delivery'[g] = d /\ \A h \in Grants \ {g} : delivery'[h] = delivery[h]
  BY <1>0, <1>7, <1>8
<1>10. LeasedIsThere'
  <2>1. \A h \in Grants : DOMAIN leased'[h] # {} => delivery'[h].status # "none"
    BY <1>0, <1>4, <1>7, <1>9 DEF LeasedIsThere
  <2> QED BY <2>1 DEF LeasedIsThere
<1> QED BY <1>0, <1>4, <1>9, <1>10, ChannelKeeps

LEMMA OidcInitIs == Init => OidcInv
<1> SUFFICES ASSUME Init PROVE OidcInv OBVIOUS
<1>1. DOMAIN EmptyBag = {} BY DEF EmptyBag, SetToBag
<1>2. NoRow \in Delivery BY DEF NoRow, Delivery
<1>3. EmptyBag \in Leases
  <2>1. EmptyBag \in [{} -> Nat \ {0}] BY DEF EmptyBag, SetToBag
  <2> QED BY <2>1 DEF Leases
<1>4. /\ sso \in Seq({"live", "dead"}) /\ ends \in Nat /\ unread = {} /\ reused = {}
      /\ sess \in [Grants -> {"none", "live", "dead"}] /\ \A g \in Grants : sess[g] = "none"
  BY DEF Init
<1>5. code \in [Grants -> [state : {"none", "issued", "used"}, sso : Nat]]
  <2> DEFINE row == [state |-> "none", sso |-> 0]
  <2>1. row \in [state : {"none", "issued", "used"}, sso : Nat] OBVIOUS
  <2>2. code = [g \in Grants |-> row] BY DEF Init
  <2> HIDE DEF row
  <2> QED BY <2>1, <2>2
<1>6. tokens \in [Grants -> Seq(Token)] /\ \A g \in Grants : DOMAIN tokens[g] = {}
  <2>1. <<>> \in Seq(Token) /\ DOMAIN <<>> = {} OBVIOUS
  <2>2. tokens = [g \in Grants |-> <<>>] BY DEF Init
  <2> QED BY <2>1, <2>2
<1>7. delivery \in [Grants -> Delivery] /\ leased \in [Grants -> Leases] /\ \A g \in Grants : DOMAIN leased[g] = {}
  BY <1>1, <1>2, <1>3 DEF Init
<1>8. OidcType BY <1>4, <1>5, <1>6, <1>7 DEF OidcType, Delivery
<1>9. LocksHold
  <2>1. held = EmptyBag /\ DOMAIN held = {} BY <1>1 DEF Init
  <2>2. held \in [DOMAIN held -> {1}] BY <2>1 DEF EmptyBag, SetToBag
  <2> QED BY <2>1, <2>2 DEF LocksHold
<1>10. CodesComeFirst /\ OneUsable BY <1>4, <1>6 DEF CodesComeFirst, OneUsable
<1>11. ReusedIsOver /\ EventsAreTrue /\ LeasedIsThere BY <1>4, <1>7 DEF ReusedIsOver, EventsAreTrue, LeasedIsThere
<1> QED BY <1>8, <1>9, <1>10, <1>11 DEF OidcInv

LEMMA OidcNextKeeps == OidcInv /\ [Next]_vars => OidcInv'
<1> SUFFICES ASSUME OidcInv, [Next]_vars PROVE OidcInv' OBVIOUS
<1>1. CASE UNCHANGED vars
  <2>1. UNCHANGED <<sso, ends, unread, code, sess, tokens, held, reused, delivery, leased>>
    BY <1>1 DEF vars, grantVars, channelVars
  <2>2. delivery' \in [Grants -> Delivery] /\ leased' \in [Grants -> Leases] BY <2>1 DEF OidcInv, OidcType, Delivery
  <2>3. LeasedIsThere' BY <2>1 DEF OidcInv, LeasedIsThere
  <2> QED BY <2>1, <2>2, <2>3, ChannelKeeps DEF grantVars
<1>2. CASE EndAccount \/ SsoLogin BY <1>2, EndAccountKeeps, SsoLoginKeeps
<1>3. ASSUME NEW o \in 1 .. MaxSso, SignOut(o) PROVE OidcInv' BY <1>3, SignOutKeeps
<1>4. ASSUME NEW g \in Grants, PresentCode(g) \/ SpoilCode(g) \/ Exchange(g) \/ ReuseCode(g) \/ RefuseToken(g)
      PROVE  OidcInv'
  BY <1>4, PresentCodeKeeps, SpoilCodeKeeps, ExchangeKeeps, ReuseCodeKeeps, RefuseTokenKeeps
<1>5. ASSUME NEW g \in Grants, NEW o \in 1 .. MaxSso, IssueCode(g, o) PROVE OidcInv' BY <1>5, IssueCodeKeeps
<1>6. ASSUME NEW g \in Grants, NEW n \in 1 .. MaxTokens, PresentToken(g, n) \/ Rotate(g, n) \/ ReuseToken(g, n)
      PROVE  OidcInv'
  BY <1>6, PresentTokenKeeps, RotateKeeps, ReuseTokenKeeps
<1>7. ASSUME NEW g \in Grants, NEW n \in 0 .. MaxTokens, Rollback(g, n) PROVE OidcInv' BY <1>7, RollbackKeeps
<1>8. CASE FanOut BY <1>8, FanOutKeeps
<1>9. Told \subseteq Grants BY OidcAssumption DEF OidcAssumption
<1>10. ASSUME NEW g \in Told, Lease(g) PROVE OidcInv' BY <1>9, <1>10, LeaseKeeps
<1>11. ASSUME NEW g \in Told, NEW n \in BagToSet(leased[g]), Delivered(g, n) \/ Failed(g, n) PROVE OidcInv'
  BY <1>9, <1>11, AttemptKeeps
<1> QED BY <1>1, <1>2, <1>3, <1>4, <1>5, <1>6, <1>7, <1>8, <1>10, <1>11 DEF Next, Provider, Channel

(* The inductive invariant: types, and what a lock and an event say of the grant. *)
THEOREM LocksAndEventsAreTrue == Spec => []OidcInv
BY OidcInitIs, OidcNextKeeps, PTL DEF Spec

(* A grant of which a code or a token was presented again opens nothing any more, and a grant never has two refresh
   tokens that can be used, whoever presents which of them while which requests are under way. *)
THEOREM ReusedGrantsAreOver == Spec => []ReuseEndsGrant
<1>1. OidcInv => ReuseEndsGrant
  <2> SUFFICES ASSUME OidcInv, NEW g \in Grants, sess[g] = "live"
               PROVE  g \notin reused /\ Cardinality({n \in DOMAIN tokens[g] : Usable(tokens[g][n])}) <= 1
    BY DEF ReuseEndsGrant
  <2> DEFINE S == {n \in DOMAIN tokens[g] : Usable(tokens[g][n])}
  <2>1. g \notin reused BY DEF OidcInv, ReusedIsOver
  <2>2. \A n, m \in S : n = m BY DEF OidcInv, OneUsable
  <2> HIDE DEF S
  <2>3. Cardinality(S) <= 1
    <3>1. CASE S = {}
      <4>1. Cardinality(S) = 0 BY <3>1, FS_EmptySet
      <4> QED BY <4>1
    <3>2. CASE S # {}
      <4>1. PICK n \in S : S = {n} BY <2>2, <3>2
      <4>2. Cardinality(S) = 1 BY <4>1, FS_Singleton
      <4> QED BY <4>2
    <3> QED BY <3>1, <3>2
  <2> QED BY <2>1, <2>3 DEF S
<1> QED BY <1>1, LocksAndEventsAreTrue, PTL

(* With a sign-on session ends every session that was built on it. *)
THEOREM SignOutEndsTheTree == Spec => TreeEnds
<1> DEFINE Holds == \A o \in DOMAIN sso : sso[o] = "live" /\ sso'[o] = "dead" =>
                      \A g \in Grants : code[g].sso = o => sess'[g] # "live"
<1>1. OidcInv /\ [Next]_vars => [Holds]_vars
  <2> SUFFICES ASSUME OidcInv, Next, NEW o \in DOMAIN sso, sso[o] = "live", sso'[o] = "dead",
                      NEW g \in Grants, code[g].sso = o
               PROVE  sess'[g] # "live"
    OBVIOUS
  <2>0. sso \in Seq({"live", "dead"}) /\ sess[g] \in {"none", "live", "dead"} BY DEF OidcInv, OidcType
  <2>1. ASSUME NEW e \in DOMAIN sso, EndSessions(Tree(e)), e = o PROVE sess'[g] # "live"
    <3>1. Tree(e) \in SUBSET Grants BY DEF Tree
    <3>2. Ends(Tree(e)) BY <2>1, <3>1, EndSessionsIs
    <3>3. g \in Tree(e) \/ sess[g] = "none" BY <2>1 DEF Tree
    <3> QED BY <3>2, <3>3 DEF Ends
  <2>2. CASE EndAccount
    <3>1. sess'[g] = IF sess[g] = "live" THEN "dead" ELSE sess[g] BY <2>2 DEF EndAccount
    <3> QED BY <3>1
  <2>3. CASE SsoLogin
    <3>1. CASE sso' = Append(sso, "live")
      <4>1. sso'[o] = sso[o] BY <2>0, <3>1
      <4> QED BY <4>1
    <3>2. CASE \E old \in DOMAIN sso : EndSessions(Tree(old)) /\ sso' = Append([sso EXCEPT ![old] = "dead"], "live")
      <4>1. PICK old \in DOMAIN sso : EndSessions(Tree(old)) /\ sso' = Append([sso EXCEPT ![old] = "dead"], "live")
        BY <3>2
      <4> DEFINE s == [sso EXCEPT ![old] = "dead"]
      <4>2. s \in Seq({"live", "dead"}) /\ Len(s) = Len(sso) /\ (old # o => s[o] = sso[o]) BY <2>0, ExceptSeq
      <4>3. sso' = Append(s, "live") BY <4>1
      <4>4. o \in 1 .. Len(sso) BY <2>0
      <4> HIDE DEF s
      <4>5. sso'[o] = s[o] BY <4>2, <4>3, <4>4, AppendProperties
      <4>6. old = o BY <4>2, <4>5
      <4> QED BY <2>1, <4>1, <4>6
    <3> QED BY <2>3, <3>1, <3>2 DEF SsoLogin
  <2>4. ASSUME NEW e \in 1 .. MaxSso, SignOut(e) PROVE sess'[g] # "live"
    <3>1. e = o BY <2>0, <2>4 DEF SignOut
    <3> QED BY <2>1, <2>4, <3>1 DEF SignOut
  <2>5. CASE sso' = sso BY <2>5
  <2> QED BY <2>2, <2>3, <2>4, <2>5
          DEF Next, Provider, Channel, PresentCode, SpoilCode, Exchange, ReuseCode, RefuseToken, IssueCode,
              PresentToken, Rotate, ReuseToken, Rollback, FanOut, Lease, Delivered, Failed
<1>2. Spec => [][Holds]_vars BY <1>1, LocksAndEventsAreTrue, PTL DEF Spec
<1> QED BY <1>2 DEF TreeEnds

(* The back-channel tells a client to end a session only if it has ended, but for one that was opened while an event
   about the whole account was unread. *)
THEOREM TheToldAreDead == Spec => OnlyTheDeadAreTold
<1> DEFINE Holds == \A g \in Grants : delivery[g].status = "none" /\ delivery'[g].status # "none" =>
                      sess[g] = "dead" \/ "all" \in unread
<1>1. OidcInv /\ [Next]_vars => [Holds]_vars
  <2> SUFFICES ASSUME OidcInv, Next, NEW g \in Grants, delivery[g].status = "none", delivery'[g].status # "none"
               PROVE  sess[g] = "dead" \/ "all" \in unread
    OBVIOUS
  <2>1. CASE FanOut
    <3>1. delivery'[g] = IF \E event \in unread : g \in Targets(event) THEN Enqueued(delivery[g]) ELSE delivery[g]
      BY <2>1 DEF FanOut
    <3>2. PICK event \in unread : g \in Targets(event) BY <3>1
    <3>3. event \in {g, "all"} BY <3>2 DEF Targets
    <3> QED BY <3>2, <3>3 DEF OidcInv, EventsAreTrue
  <2>2. ASSUME NEW h \in Told, NEW n \in BagToSet(leased[h]), Delivered(h, n) \/ Failed(h, n) PROVE FALSE
    <3>1. h \in Grants BY OidcAssumption DEF OidcAssumption
    <3>2. h # g BY <2>2, <3>1 DEF OidcInv, LeasedIsThere, BagToSet
    <3>3. delivery'[g] = delivery[g] BY <2>2, <3>2 DEF Delivered, Failed, OidcInv, OidcType
    <3> QED BY <3>3
  <2>3. CASE delivery' = delivery BY <2>3
  <2> QED BY <2>1, <2>2, <2>3
          DEF Next, Provider, Channel, channelVars, EndAccount, SsoLogin, SignOut, PresentCode, SpoilCode, Exchange,
              ReuseCode, RefuseToken, IssueCode, PresentToken, Rotate, ReuseToken, Rollback, Lease
<1>2. Spec => [][Holds]_vars BY <1>1, LocksAndEventsAreTrue, PTL DEF Spec
<1> QED BY <1>2 DEF OnlyTheDeadAreTold
=============================================================================
