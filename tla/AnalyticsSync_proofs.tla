------------------------- MODULE AnalyticsSync_proofs -------------------------
(* Theorems about AnalyticsSync, for any sets of rows, writers, processes and requests. *)
EXTENDS AnalyticsSync, FiniteSetTheorems, TLAPS

-----------------------------------------------------------------------------
(* Types *)

LEMMA ConstantTypes ==
    /\ 1 \in Kinds
    /\ \A d \in Kinds : d \in Nat /\ d <= NumKinds
    /\ \A d \in Kinds : d < NumKinds => d + 1 \in Kinds
    /\ NumKinds \in Nat
    /\ \A k \in Rows : KindOf[k] \in Kinds
    /\ Nothing \in Revisions
BY SyncAssumption DEF SyncAssumption, Kinds, Nothing, Revisions

LEMMA IdleTypes == Idle \in ProcRecord /\ Served \in RequestRecord
BY ConstantTypes DEF Idle, Served, ProcRecord, RequestRecord

\* What a page adds to the pulled rows.
PulledAs(p) ==
    [k \in Rows |-> IF k \in UpToHead(Page(proc[p].kind, proc[p].after), proc[p].head)
                    THEN row[k] ELSE proc[p].pulled[k]]

LEMMA PulledAsType ==
    ASSUME TypeOK, NEW p \in Processes
    PROVE  PulledAs(p) \in Revisions
BY DEF TypeOK, UpstreamType, ProcessType, ProcRecord, Revisions, PulledAs

LEMMA AppliedType ==
    ASSUME TypeOK, NEW p \in Processes, NEW old \in Revisions
    PROVE  Applied(p, old) \in Revisions
BY DEF TypeOK, ProcessType, ProcRecord, Revisions, Applied, Upsert

LEMMA LettersType ==
    ASSUME TypeOK, NEW p \in Processes
    PROVE  Letters(p) \subseteq Letter
BY DEF TypeOK, ProcessType, ProcRecord, Revisions, Letters, LetterOf, Letter

LEMMA UpstreamTypeStep ==
    ASSUME TypeOK, UpstreamStep
    PROVE  TypeOK'
<1> USE ConstantTypes DEF TypeOK, UpstreamType, Revisions, analytics
<1>1. ASSUME NEW w \in Writers, NEW k \in Rows, WriteRow(w, k) PROVE TypeOK'
  BY <1>1 DEF WriteRow, ReadModelType, ProcessType, RequestType
<1>2. ASSUME NEW w \in Writers, Ends(w) PROVE draft' \in [Writers -> Revisions] /\ lock' \in Writers \cup {NoWriter}
  BY <1>2 DEF Ends
<1>3. ASSUME NEW w \in Writers, Commit(w) PROVE TypeOK'
  BY <1>3, <1>2 DEF Commit, ReadModelType, ProcessType, RequestType
<1>4. ASSUME NEW w \in Writers, Rollback(w) PROVE TypeOK'
  BY <1>4, <1>2 DEF Rollback, ReadModelType, ProcessType, RequestType
<1> QED BY <1>1, <1>3, <1>4 DEF UpstreamStep

LEMMA BeginTypes ==
    ASSUME TypeOK, NEW p \in Processes
    PROVE  /\ [Idle EXCEPT !.at = "head", !.cursors = cursor] \in ProcRecord
           /\ [Idle EXCEPT !.at = "head", !.rebuild = TRUE] \in ProcRecord
BY ConstantTypes DEF TypeOK, ReadModelType, Idle, ProcRecord

LEMMA PullTypes ==
    ASSUME TypeOK, NEW p \in Processes, NEW h \in Nat
    PROVE  /\ [proc[p] EXCEPT !.at = "pull", !.head = h, !.after = proc[p].cursors[1]] \in ProcRecord
           /\ [proc[p] EXCEPT !.pulled = PulledAs(p), !.after = h] \in ProcRecord
           /\ proc[p].kind < NumKinds =>
                 [proc[p] EXCEPT !.pulled = PulledAs(p), !.kind = proc[p].kind + 1,
                                 !.after = proc[p].cursors[proc[p].kind + 1]] \in ProcRecord
           /\ [proc[p] EXCEPT !.pulled = PulledAs(p), !.at = "apply"] \in ProcRecord
<1> DEFINE r == proc[p]
           q == PulledAs(p)
<1>1. r \in ProcRecord BY DEF TypeOK, ProcessType
<1>2. q \in Revisions BY PulledAsType
<1> HIDE DEF r, q
<1>3. r.cursors[1] \in Nat BY <1>1, ConstantTypes DEF ProcRecord
<1>4. r.kind < NumKinds => r.kind + 1 \in Kinds /\ r.cursors[r.kind + 1] \in Nat
  BY <1>1, ConstantTypes DEF ProcRecord
<1>5. [r EXCEPT !.at = "pull", !.head = h, !.after = r.cursors[1]] \in ProcRecord
  BY <1>1, <1>3 DEF ProcRecord
<1>6. [r EXCEPT !.pulled = q, !.after = h] \in ProcRecord
  BY <1>1, <1>2 DEF ProcRecord
<1>7. r.kind < NumKinds =>
        [r EXCEPT !.pulled = q, !.kind = r.kind + 1, !.after = r.cursors[r.kind + 1]] \in ProcRecord
  BY <1>1, <1>2, <1>4 DEF ProcRecord
<1>8. [r EXCEPT !.pulled = q, !.at = "apply"] \in ProcRecord
  BY <1>1, <1>2 DEF ProcRecord
<1> QED BY <1>5, <1>6, <1>7, <1>8 DEF r, q

\* The record that a process has after a page: of the same head, cursors and flag, with the rows pulled.
LEMMA PullPageIs ==
    ASSUME TypeOK, NEW p \in Processes, PullPage(p)
    PROVE  \E next \in 0 .. lastRev :
              LET d == proc[p].kind
                  page == Page(d, proc[p].after)
              IN /\ IF page = {} THEN next = proc[p].after
                    ELSE (\E k \in page : row[k] = next) /\ \A k \in page : row[k] <= next
                 /\ \/ /\ page # Newer(d, proc[p].after) /\ next < proc[p].head
                       /\ BecomesAs(p, [proc[p] EXCEPT !.pulled = PulledAs(p), !.after = next])
                    \/ /\ page = Newer(d, proc[p].after) \/ ~(next < proc[p].head)
                       /\ \/ /\ d < NumKinds
                             /\ BecomesAs(p, [proc[p] EXCEPT !.pulled = PulledAs(p), !.kind = d + 1,
                                                             !.after = proc[p].cursors[d + 1]])
                          \/ /\ ~(d < NumKinds)
                             /\ BecomesAs(p, [proc[p] EXCEPT !.pulled = PulledAs(p), !.at = "apply"])
BY DEF PullPage, PulledAs

LEMMA BecomesType ==
    ASSUME TypeOK, NEW p \in Processes, NEW r \in ProcRecord, BecomesAs(p, r)
    PROVE  proc' \in [Processes -> ProcRecord]
BY DEF TypeOK, ProcessType, BecomesAs

LEMMA SyncTypeStep ==
    ASSUME TypeOK, SyncStep
    PROVE  TypeOK'
<1> USE ConstantTypes DEF integration, analytics
<1> PICK p \in Processes : BeginCycle(p) \/ BeginRebuild(p) \/ Pull(p) \/ Fail(p)
  BY Zenon DEF SyncStep
<1>r. lastRev \in Nat BY Zenon DEF TypeOK, UpstreamType
<1>0. SUFFICES proc' \in [Processes -> ProcRecord] /\ faults' \in Nat /\ ReadModelType'
  BY DEF TypeOK, UpstreamType, ProcessType, RequestType, BeginCycle, BeginRebuild, Pull, ReadHead, PullPage,
         ApplyCycle, ApplyRebuild, Fail
<1>1. CASE BeginCycle(p)
  BY <1>1, BeginTypes, BecomesType DEF BeginCycle, TypeOK, ReadModelType, ProcessType
<1>2. CASE BeginRebuild(p)
  BY <1>2, BeginTypes, BecomesType DEF BeginRebuild, TypeOK, ReadModelType, ProcessType
<1>3. CASE ReadHead(p)
  <2>1. PICK h \in 0 .. lastRev :
           \/ BecomesAs(p, [proc[p] EXCEPT !.at = "pull", !.head = h, !.after = proc[p].cursors[1]])
           \/ BecomesAs(p, Idle)
    BY <1>3 DEF ReadHead
  <2>2. h \in Nat BY <1>r
  <2>3. proc' \in [Processes -> ProcRecord] BY <2>1, <2>2, PullTypes, IdleTypes, BecomesType
  <2> QED BY <1>3, <2>3 DEF ReadHead, TypeOK, ReadModelType, ProcessType
<1>4. CASE PullPage(p)
  <2>1. PICK next \in 0 .. lastRev :
           \/ BecomesAs(p, [proc[p] EXCEPT !.pulled = PulledAs(p), !.after = next])
           \/ /\ proc[p].kind < NumKinds
              /\ BecomesAs(p, [proc[p] EXCEPT !.pulled = PulledAs(p), !.kind = proc[p].kind + 1,
                                              !.after = proc[p].cursors[proc[p].kind + 1]])
           \/ BecomesAs(p, [proc[p] EXCEPT !.pulled = PulledAs(p), !.at = "apply"])
    BY <1>4, PullPageIs, Zenon
  <2>2. next \in Nat BY <1>r
  <2>3. proc' \in [Processes -> ProcRecord] BY <2>1, <2>2, PullTypes, BecomesType
  <2> QED BY <1>4, <2>3 DEF PullPage, TypeOK, ReadModelType, ProcessType
<1>5. CASE ApplyCycle(p)
  <2>1. read' \in Revisions BY <1>5, AppliedType DEF ApplyCycle, TypeOK, ReadModelType
  <2>2. cursor' \in [Kinds -> Nat] BY <1>5 DEF ApplyCycle, TypeOK, ProcessType, ProcRecord
  <2>3. open' \subseteq Letter /\ resolved' \subseteq Letter
    BY <1>5, LettersType DEF ApplyCycle, PutLetters, TypeOK, ReadModelType
  <2>4. proc' \in [Processes -> ProcRecord] BY <1>5, IdleTypes, BecomesType DEF ApplyCycle
  <2> QED BY <1>5, <2>1, <2>2, <2>3, <2>4 DEF ApplyCycle, TypeOK, ReadModelType, ProcessType
<1>6. CASE ApplyRebuild(p)
  <2>1. read' \in Revisions BY <1>6, AppliedType DEF ApplyRebuild
  <2>2. cursor' \in [Kinds -> Nat] BY <1>6 DEF ApplyRebuild, TypeOK, ProcessType, ProcRecord
  <2>3. open' \subseteq Letter /\ resolved' \subseteq Letter
    BY <1>6, LettersType DEF ApplyRebuild, PutLetters, TypeOK, ReadModelType
  <2>4. proc' \in [Processes -> ProcRecord] BY <1>6, IdleTypes, BecomesType DEF ApplyRebuild
  <2> QED BY <1>6, <2>1, <2>2, <2>3, <2>4 DEF ApplyRebuild, TypeOK, ReadModelType, ProcessType
<1>7. CASE Fail(p)
  BY <1>7, IdleTypes, BecomesType DEF Fail, TypeOK, ReadModelType, ProcessType
<1> QED BY <1>1, <1>2, <1>3, <1>4, <1>5, <1>6, <1>7 DEF Pull

LEMMA ReplayTypeStep ==
    ASSUME TypeOK, ReplayStep
    PROVE  TypeOK'
<1> PICK l \in open \cup resolved : Replay(l) BY DEF ReplayStep
<1>1. l \in Letter BY DEF TypeOK, ReadModelType
<1>2. read' \in Revisions BY <1>1 DEF Replay, Upsert, TypeOK, ReadModelType, Revisions, Letter
<1> QED BY <1>1, <1>2 DEF Replay, TypeOK, UpstreamType, ReadModelType, ProcessType, RequestType, integration

LEMMA TakeSealTypeStep ==
    ASSUME TypeOK, TakeSeal
    PROVE  TypeOK'
BY DEF TakeSeal, TypeOK, UpstreamType, ReadModelType, ProcessType, RequestType, integration

LEMMA UpgradeTypeStep ==
    ASSUME TypeOK, Upgrade
    PROVE  TypeOK'
BY IdleTypes DEF Upgrade, TypeOK, UpstreamType, ReadModelType, ProcessType, RequestType, integration, analytics

LEMMA RequestTypeStep ==
    ASSUME TypeOK, RequestStep
    PROVE  TypeOK'
<1> USE ConstantTypes, IdleTypes DEF integration, analytics
<1> PICK q \in Requests : ReadSeal(q) \/ Hit(q) \/ Miss(q) \/ LoadKind(q) \/ Store(q) BY DEF RequestStep
<1> DEFINE r == request[q]
<1>r. r \in RequestRecord BY DEF TypeOK, RequestType
<1> HIDE DEF r
<1>0. SUFFICES request' \in [Requests -> RequestRecord] /\ cache' \subseteq [seal : Nat, data : Revisions]
  BY DEF TypeOK, UpstreamType, ReadModelType, ProcessType, RequestType, ReadSeal, Hit, Miss, LoadKind, Store
<1>a. ASSUME NEW s \in RequestRecord, RequestAs(q, s) PROVE request' \in [Requests -> RequestRecord]
  BY <1>a DEF RequestAs, TypeOK, RequestType
<1>1. CASE ReadSeal(q)
  <2>1. [Served EXCEPT !.at = "lookup", !.seal = seal] \in RequestRecord
    BY DEF Served, RequestRecord, TypeOK, ReadModelType
  <2> QED BY <1>1, <2>1, <1>a DEF ReadSeal, TypeOK, RequestType
<1>2. CASE Hit(q) BY <1>2, <1>a DEF Hit, TypeOK, RequestType
<1>3. CASE Miss(q)
  <2>1. [r EXCEPT !.at = "load"] \in RequestRecord BY <1>r DEF RequestRecord
  <2> QED BY <1>3, <2>1, <1>a DEF Miss, TypeOK, RequestType, r
<1>4. CASE LoadKind(q)
  <2> DEFINE got == [k \in Rows |-> IF KindOf[k] = r.kind THEN read[k] ELSE r.got[k]]
             next == IF LoadsMore(r.kind) THEN r.kind + 1 ELSE r.kind
             at == IF LoadsMore(r.kind) THEN "load" ELSE "store"
  <2>1. got \in Revisions BY <1>r DEF RequestRecord, Revisions, TypeOK, ReadModelType
  <2>2. next \in Kinds BY <1>r DEF RequestRecord, LoadsMore
  <2>3. at \in {"idle", "lookup", "load", "store"} OBVIOUS
  <2>4. RequestAs(q, [r EXCEPT !.got = got, !.kind = next, !.at = at]) BY <1>4 DEF LoadKind, r
  <2> HIDE DEF got, next, at
  <2>5. [r EXCEPT !.got = got, !.kind = next, !.at = at] \in RequestRecord
    BY <1>r, <2>1, <2>2, <2>3 DEF RequestRecord
  <2> QED BY <1>4, <2>4, <2>5, <1>a DEF LoadKind, TypeOK, RequestType
<1>5. CASE Store(q)
  <2>1. [seal |-> KeySeal(q), data |-> request[q].got] \in [seal : Nat, data : Revisions]
    BY <1>r DEF RequestRecord, KeySeal, r
  <2> QED BY <1>5, <2>1, <1>a DEF Store, TypeOK, RequestType
<1> QED BY <1>1, <1>2, <1>3, <1>4, <1>5

LEMMA TypeInit == Init => TypeOK
BY ConstantTypes, IdleTypes
DEF Init, TypeOK, UpstreamType, ReadModelType, ProcessType, RequestType, Revisions, Nothing

LEMMA TypeStep == TypeOK /\ [Next]_vars => TypeOK'
<1> SUFFICES ASSUME TypeOK, [Next]_vars PROVE TypeOK' OBVIOUS
<1>1. CASE UNCHANGED vars
  BY <1>1 DEF vars, integration, analytics, TypeOK, UpstreamType, ReadModelType, ProcessType, RequestType
<1> QED BY <1>1, UpstreamTypeStep, SyncTypeStep, ReplayTypeStep, TakeSealTypeStep, UpgradeTypeStep, RequestTypeStep
        DEF Next

\* Every variable keeps its type.
THEOREM TypeCorrect == Spec => []TypeOK
<1> QED BY TypeInit, TypeStep, PTL DEF Spec

-----------------------------------------------------------------------------
(* The cache *)

LEMMA CacheInit == Init => CacheInv
BY DEF Init, CacheInv, CacheIsCurrent, Served

\* The read model and the seal change by these steps only.
LEMMA QuietSteps ==
    ASSUME [Next]_vars
    PROVE  \/ UNCHANGED <<read, seal>> \/ TakeSeal
           \/ \E l \in open \cup resolved : Replay(l)
           \/ \E p \in Processes : ApplyCycle(p) \/ ApplyRebuild(p)
BY DEF Next, UpstreamStep, WriteRow, Commit, Rollback, SyncStep, BeginCycle, BeginRebuild, Pull, ReadHead, PullPage, Fail,
       ReplayStep, TakeSeal, Upgrade, RequestStep, ReadSeal, Hit, Miss, LoadKind, Store, analytics, vars

\* A step that changes the read model takes a new seal.
LEMMA SealCovers ==
    ASSUME TypeOK, [Next]_vars
    PROVE  /\ seal' \in Nat /\ seal <= seal'
           /\ seal' = seal => read' = read
<1> USE DEF integration, analytics, vars
<1>1. CASE UNCHANGED <<read, seal>> \/ TakeSeal BY <1>1 DEF TakeSeal, TypeOK, ReadModelType
<1>2. CASE \E l \in open \cup resolved : Replay(l) BY <1>2 DEF Replay, TypeOK, ReadModelType
<1>3. ASSUME NEW p \in Processes, ApplyRebuild(p) PROVE seal' = seal + 1 BY <1>3 DEF ApplyRebuild
<1>4. ASSUME NEW p \in Processes, ApplyCycle(p) PROVE seal' = seal + 1 \/ (seal' = seal /\ read' = read)
  <2>1. CASE Accepted(p) = {}
    <3>1. read' = [k \in Rows |-> read[k]] BY <1>4, <2>1 DEF ApplyCycle, Applied
    <3> QED BY <1>4, <2>1, <3>1 DEF ApplyCycle, TypeOK, ReadModelType, Revisions
  <2> QED BY <1>4, <2>1 DEF ApplyCycle
<1>5. \/ UNCHANGED <<read, seal>> \/ TakeSeal
      \/ \E l \in open \cup resolved : Replay(l)
      \/ \E p \in Processes : ApplyCycle(p) \/ ApplyRebuild(p)
  BY QuietSteps
<1> QED BY <1>1, <1>2, <1>3, <1>4, <1>5 DEF TypeOK, ReadModelType

LEMMA CacheStep == TypeOK /\ CacheInv /\ [Next]_vars => CacheInv'
<1> SUFFICES ASSUME TypeOK, CacheInv, [Next]_vars PROVE CacheInv' OBVIOUS
<1> USE ConstantTypes DEF integration, analytics
<1>0. TypeOK' BY TypeStep
<1>s. seal \in Nat /\ seal' \in Nat /\ seal <= seal' /\ (seal' = seal => read' = read)
  BY SealCovers DEF TypeOK, ReadModelType
<1>t. /\ \A e \in cache : e.seal \in Nat
      /\ \A q \in Requests : request[q] \in RequestRecord /\ request[q].seal \in Nat
  BY DEF TypeOK, RequestType, RequestRecord
<1>1. CASE UNCHANGED <<cache, request>>
  BY <1>1, <1>s, <1>t DEF CacheInv, CacheIsCurrent
<1>2. CASE Upgrade
  BY <1>2, <1>s, <1>t DEF Upgrade, CacheInv, CacheIsCurrent, Served
<1>3. ASSUME NEW q \in Requests, ReadSeal(q) \/ Hit(q) \/ Miss(q) \/ LoadKind(q) \/ Store(q) PROVE CacheInv'
  <2>u. UNCHANGED <<read, seal>> BY <1>3 DEF ReadSeal, Hit, Miss, LoadKind, Store
  <2>o. \A o \in Requests : o # q => request'[o] = request[o]
    BY <1>3 DEF ReadSeal, Hit, Miss, LoadKind, Store, RequestAs, TypeOK, RequestType
  <2>1. CASE ReadSeal(q)
    <3>1. request'[q] = [Served EXCEPT !.at = "lookup", !.seal = seal]
      BY <2>1 DEF ReadSeal, RequestAs, TypeOK, RequestType
    <3>2. request'[q].seal = seal /\ request'[q].at = "lookup" /\ request'[q].kind = 1 BY <3>1 DEF Served
    <3> QED BY <2>1, <2>u, <2>o, <3>2, <1>s DEF ReadSeal, CacheInv, CacheIsCurrent
  <2>2. CASE Hit(q)
    <3>1. request'[q] = Served BY <2>2 DEF Hit, RequestAs, TypeOK, RequestType
    <3>2. request'[q].seal = 0 /\ request'[q].at = "idle" BY <3>1 DEF Served
    <3> QED BY <2>2, <2>u, <2>o, <3>2, <1>s DEF Hit, CacheInv, CacheIsCurrent
  <2>3. CASE Miss(q)
    <3>1. request'[q] = [request[q] EXCEPT !.at = "load"]
      BY <2>3 DEF Miss, RequestAs, TypeOK, RequestType
    <3>2. request'[q].seal = request[q].seal /\ request'[q].at = "load" /\ request'[q].kind = 1
      BY <2>3, <3>1, <1>t DEF Miss, CacheInv, RequestRecord
    <3>3. \A k \in Rows : ~(KindOf[k] < 1) BY DEF Kinds
    <3> QED BY <2>3, <2>u, <2>o, <3>2, <3>3, <1>s, <1>t DEF Miss, CacheInv, CacheIsCurrent
  <2>4. CASE LoadKind(q)
    <3> DEFINE r == request[q]
               got == [k \in Rows |-> IF KindOf[k] = r.kind THEN read[k] ELSE r.got[k]]
    <3>1. request'[q] = [r EXCEPT !.got = got,
                                  !.kind = IF LoadsMore(r.kind) THEN r.kind + 1 ELSE r.kind,
                                  !.at = IF LoadsMore(r.kind) THEN "load" ELSE "store"]
      BY <2>4 DEF LoadKind, RequestAs, TypeOK, RequestType
    <3>2. r \in RequestRecord /\ r.at = "load" /\ r.kind \in Kinds BY <2>4, <1>t DEF LoadKind, RequestRecord
    <3>3. /\ request'[q].seal = r.seal
          /\ \A k \in Rows : request'[q].got[k] = got[k]
          /\ \/ LoadsMore(r.kind) /\ request'[q].at = "load" /\ request'[q].kind = r.kind + 1
             \/ ~LoadsMore(r.kind) /\ request'[q].at = "store"
      BY <3>1, <3>2 DEF RequestRecord
    <3>4. ASSUME NEW k \in Rows, r.seal = seal,
                 request'[q].at = "store" \/ (request'[q].at = "load" /\ KindOf[k] < request'[q].kind)
          PROVE  request'[q].got[k] = read[k]
      <4>1. KindOf[k] = r.kind \/ KindOf[k] < r.kind BY <3>2, <3>3, <3>4 DEF LoadsMore
      <4> QED BY <4>1, <3>2, <3>3, <3>4 DEF CacheInv
    <3> QED BY <2>4, <2>u, <2>o, <3>3, <3>4, <1>s, <1>t DEF LoadKind, CacheInv, CacheIsCurrent
  <2>5. CASE Store(q)
    <3>1. request'[q] = Served BY <2>5 DEF Store, RequestAs, TypeOK, RequestType
    <3>2. request'[q].seal = 0 /\ request'[q].at = "idle" BY <3>1 DEF Served
    <3>3. request[q].seal = seal => request[q].got = read
      <4>1. \A k \in Rows : request[q].seal = seal => request[q].got[k] = read[k]
        BY <2>5 DEF Store, CacheInv
      <4> QED BY <4>1, <1>t DEF TypeOK, ReadModelType, RequestRecord, Revisions
    <3>4. \A e \in cache' : e \in cache \/ e = [seal |-> request[q].seal, data |-> request[q].got]
      BY <2>5 DEF Store, KeySeal
    <3> QED BY <2>5, <2>u, <2>o, <3>2, <3>3, <3>4, <1>s, <1>t DEF CacheInv, CacheIsCurrent
  <2> QED BY <1>3, <2>1, <2>2, <2>3, <2>4, <2>5
<1> QED
  BY <1>1, <1>2, <1>3
  DEF Next, UpstreamStep, WriteRow, Commit, Rollback, SyncStep, BeginCycle, BeginRebuild, Pull, ReadHead, PullPage,
      ApplyCycle, ApplyRebuild, Fail, ReplayStep, Replay, TakeSeal, RequestStep, vars

\* What the cache holds under the present seal is the present read model: a request stores its result under
\* the seal it read before it loaded, and whatever changes the read model takes a new seal.
THEOREM CacheStaysCurrent == Spec => []CacheIsCurrent
<1>1. Init => TypeOK /\ CacheInv BY TypeInit, CacheInit
<1>2. TypeOK /\ CacheInv /\ [Next]_vars => (TypeOK /\ CacheInv)' BY TypeStep, CacheStep
<1>3. CacheInv => CacheIsCurrent BY DEF CacheInv
<1> QED BY <1>1, <1>2, <1>3, PTL DEF Spec

-----------------------------------------------------------------------------
(* The read model does not go back *)

LEMMA NoStepBack ==
    ASSUME TypeOK, [Next]_vars
    PROVE  (\E k \in Rows : read'[k] < read[k]) => \E p \in Processes : Rebuilding(p) /\ ~Rebuilding(p)'
<1> USE DEF integration, analytics, vars
<1>0. \A k \in Rows : read[k] \in Nat BY DEF TypeOK, ReadModelType, Revisions
<1>1. CASE UNCHANGED read BY <1>0, <1>1
<1>2. ASSUME NEW l \in open \cup resolved, Replay(l), NEW k \in Rows PROVE ~(read'[k] < read[k])
  BY <1>0, <1>2 DEF Replay, Upsert, TypeOK, ReadModelType, Revisions, Letter
<1>3. ASSUME NEW p \in Processes, ApplyCycle(p), NEW k \in Rows PROVE ~(read'[k] < read[k])
  BY <1>0, <1>3 DEF ApplyCycle, Applied, Upsert, TypeOK, ProcessType, ProcRecord, Revisions
<1>4. ASSUME NEW p \in Processes, ApplyRebuild(p) PROVE Rebuilding(p) /\ ~Rebuilding(p)'
  BY <1>4 DEF ApplyRebuild, Rebuilding, BecomesAs, Idle, TypeOK, ProcessType
<1> QED BY <1>1, <1>2, <1>3, <1>4, QuietSteps DEF TakeSeal

\* A row of the read model goes back to an earlier revision by a rebuild only.
THEOREM ReadNeverGoesBack == Spec => NeverGoesBack
<1>1. TypeOK /\ [Next]_vars
        => [(\E k \in Rows : read'[k] < read[k]) => \E p \in Processes : Rebuilding(p) /\ ~Rebuilding(p)']_vars
  BY NoStepBack
<1> QED BY <1>1, TypeCorrect, PTL DEF Spec, NeverGoesBack

-----------------------------------------------------------------------------
(* The upstream: revisions are committed in the order in which they are drawn *)

LEMMA UpstreamTypes ==
    ASSUME TypeOK
    PROVE  /\ lastRev \in Nat
           /\ \A k \in Rows : row[k] \in Nat
           /\ \A w \in Writers, k \in Rows : draft[w][k] \in Nat
BY Zenon DEF TypeOK, UpstreamType, Revisions

\* The three ways in which the upstream moves, or does not.
LEMMA UpstreamMoves ==
    ASSUME TypeOK, [Next]_vars
    PROVE  \/ UNCHANGED <<row, lastRev, lock, draft>>
           \/ \E w \in Writers : Commit(w) \/ Rollback(w) \/ \E k \in Rows : WriteRow(w, k)
BY DEF Next, UpstreamStep, SyncStep, BeginCycle, BeginRebuild, Pull, ReadHead, PullPage, ApplyCycle, ApplyRebuild, Fail,
       ReplayStep, Replay, TakeSeal, Upgrade, RequestStep, ReadSeal, Hit, Miss, LoadKind, Store, integration, vars

LEMMA SequenceGrows ==
    ASSUME TypeOK, [Next]_vars
    PROVE  lastRev <= lastRev'
BY UpstreamMoves, UpstreamTypes DEF Commit, Rollback, WriteRow

\* A draft is kept or dropped, or it is new and beyond everything drawn before.
LEMMA DraftMoves ==
    ASSUME TypeOK, [Next]_vars, NEW w \in Writers, NEW k \in Rows
    PROVE  draft'[w][k] = draft[w][k] \/ draft'[w][k] = 0 \/ draft'[w][k] = lastRev + 1
<1> USE UpstreamTypes DEF TypeOK, UpstreamType, Revisions
<1>1. CASE UNCHANGED <<row, lastRev, lock, draft>> BY <1>1
<1>2. ASSUME NEW x \in Writers, Commit(x) \/ Rollback(x)
      PROVE  draft'[w][k] = draft[w][k] \/ draft'[w][k] = 0
  BY <1>2 DEF Commit, Rollback, Ends, Nothing
<1>3. ASSUME NEW x \in Writers, NEW j \in Rows, WriteRow(x, j)
      PROVE  draft'[w][k] = draft[w][k] \/ draft'[w][k] = lastRev + 1
  BY <1>3 DEF WriteRow
<1> QED BY <1>1, <1>2, <1>3, UpstreamMoves

\* What is settled stays so.
LEMMA SettledStays ==
    ASSUME TypeOK, [Next]_vars, NEW x \in Nat, Settled(x)
    PROVE  Settled(x)'
<1>1. TypeOK' BY TypeStep
<1>2. lastRev' \in Nat BY <1>1 DEF TypeOK, UpstreamType
<1>3. lastRev \in Nat /\ \A w \in Writers, k \in Rows : draft[w][k] \in Nat BY UpstreamTypes
<1>4. x <= lastRev' BY <1>2, <1>3, SequenceGrows DEF Settled
<1>5. ASSUME NEW w \in Writers, NEW k \in Rows, draft'[w][k] # 0 PROVE x < draft'[w][k]
  BY <1>3, <1>5, DraftMoves DEF Settled
<1> QED BY <1>4, <1>5 DEF Settled

\* A row stays, or moves past everything that is settled.
LEMMA RowMoves ==
    ASSUME TypeOK, UpstreamInv, [Next]_vars, NEW k \in Rows
    PROVE  /\ row[k] <= row'[k]
           /\ \/ row'[k] = row[k]
              \/ \A x \in Nat : Settled(x) => x < row'[k]
<1> USE UpstreamTypes
<1>1. row'[k] = row[k] \/ \E w \in Writers : Commit(w) /\ draft[w][k] # 0 /\ row'[k] = draft[w][k]
  <2>1. CASE UNCHANGED <<row, lastRev, lock, draft>> BY <2>1
  <2>2. ASSUME NEW w \in Writers, Commit(w)
        PROVE row'[k] = row[k] \/ (draft[w][k] # 0 /\ row'[k] = draft[w][k])
    BY <2>2 DEF Commit
  <2>3. ASSUME NEW w \in Writers, Rollback(w) \/ \E j \in Rows : WriteRow(w, j) PROVE row'[k] = row[k]
    BY <2>3 DEF Rollback, WriteRow
  <2> QED BY <2>1, <2>2, <2>3, UpstreamMoves
<1>2. CASE row'[k] = row[k] BY <1>2
<1>3. ASSUME NEW w \in Writers, draft[w][k] # 0, row'[k] = draft[w][k]
      PROVE  row[k] <= row'[k] /\ \A x \in Nat : Settled(x) => x < row'[k]
  <2>1. \A x \in Nat : Settled(x) => x < row'[k] BY <1>3 DEF Settled
  <2>2. row'[k] \in Nat BY <1>3
  <2> QED BY <2>1, <2>2 DEF UpstreamInv
<1> QED BY <1>1, <1>2, <1>3

LEMMA UpstreamInvStep ==
    ASSUME TypeOK, UpstreamInv, [Next]_vars
    PROVE  UpstreamInv'
<1> USE UpstreamTypes
<1>1. CASE UNCHANGED <<row, lastRev, lock, draft>> BY <1>1 DEF UpstreamInv, Settled
<1>2. ASSUME NEW w \in Writers, Ends(w), lastRev' = lastRev
      PROVE  \A x \in Writers, k \in Rows : draft'[x][k] = 0
  <2>1. \A k \in Rows : draft'[w][k] = 0 BY <1>2 DEF Ends, Nothing, TypeOK, UpstreamType
  <2>2. lock = w
    <3>1. PICK k \in Rows : draft[w][k] # 0
      BY <1>2 DEF Ends, Nothing, TypeOK, UpstreamType, Revisions
    <3> QED BY <3>1 DEF UpstreamInv
  <2>3. \A x \in Writers, k \in Rows : x # w => draft'[x][k] = draft[x][k] /\ draft[x][k] = 0
    BY <1>2, <2>2 DEF Ends, UpstreamInv, TypeOK, UpstreamType
  <2> QED BY <2>1, <2>3
<1>3. ASSUME NEW w \in Writers, Commit(w) PROVE UpstreamInv'
  <2>1. \A x \in Writers, k \in Rows : draft'[x][k] = 0 BY <1>2, <1>3 DEF Commit
  <2>2. \A k \in Rows : row'[k] <= lastRev
    BY <1>3 DEF Commit, UpstreamInv, Settled
  <2> QED BY <1>3, <2>1, <2>2 DEF Commit, UpstreamInv, Settled
<1>4. ASSUME NEW w \in Writers, Rollback(w) PROVE UpstreamInv'
  <2>1. \A x \in Writers, k \in Rows : draft'[x][k] = 0 BY <1>2, <1>4 DEF Rollback
  <2> QED BY <1>4, <2>1 DEF Rollback, UpstreamInv, Settled
<1>5. ASSUME NEW w \in Writers, NEW k \in Rows, WriteRow(w, k) PROVE UpstreamInv'
  <2>1. \A x \in Writers, j \in Rows :
           \/ x = w /\ j = k /\ draft'[x][j] = lastRev + 1
           \/ draft'[x][j] = draft[x][j]
    BY <1>5 DEF WriteRow, TypeOK, UpstreamType, Revisions
  <2>2. \A x \in Writers, j \in Rows : draft[x][j] # 0 => x = w
    BY <1>5, SyncAssumption DEF WriteRow, LockFree, UpstreamInv, SyncAssumption
  <2>3. lock' = w /\ lastRev' = lastRev + 1 /\ row' = row BY <1>5 DEF WriteRow
  <2> QED BY <2>1, <2>2, <2>3 DEF UpstreamInv, Settled
<1> QED BY <1>1, <1>3, <1>4, <1>5, UpstreamMoves

-----------------------------------------------------------------------------
(* What a process may do *)

LEMMA ProcTypes ==
    ASSUME TypeOK, NEW p \in Processes
    PROVE  /\ proc[p] \in ProcRecord
           /\ proc[p].head \in Nat /\ proc[p].after \in Nat /\ proc[p].kind \in Kinds
           /\ \A d \in Kinds : proc[p].cursors[d] \in Nat
           /\ \A k \in Rows : proc[p].pulled[k] \in Nat
BY DEF TypeOK, ProcessType, ProcRecord, Revisions

LEMMA ProcMoves ==
    ASSUME TypeOK, [Next]_vars, NEW p \in Processes
    PROVE  \/ proc'[p] = proc[p]
           \/ proc'[p] = Idle
           \/ BeginCycle(p) \/ BeginRebuild(p) \/ ReadHead(p) \/ PullPage(p)
<1>1. CASE UNCHANGED proc BY <1>1
<1>2. CASE Upgrade BY <1>2, Zenon DEF Upgrade
<1>3. ASSUME NEW o \in Processes, BeginCycle(o) \/ BeginRebuild(o) \/ ReadHead(o) \/ PullPage(o)
      PROVE  o = p \/ proc'[p] = proc[p]
  BY <1>3 DEF BeginCycle, BeginRebuild, ReadHead, PullPage, BecomesAs, TypeOK, ProcessType
<1>4. ASSUME NEW o \in Processes, ApplyCycle(o) \/ ApplyRebuild(o) \/ Fail(o)
      PROVE  proc'[p] = proc[p] \/ proc'[p] = Idle
  BY <1>4 DEF ApplyCycle, ApplyRebuild, Fail, BecomesAs, TypeOK, ProcessType
<1>5. \/ UNCHANGED proc \/ Upgrade
      \/ \E o \in Processes : \/ BeginCycle(o) \/ BeginRebuild(o) \/ ReadHead(o) \/ PullPage(o)
                              \/ ApplyCycle(o) \/ ApplyRebuild(o) \/ Fail(o)
  BY DEF Next, UpstreamStep, WriteRow, Commit, Rollback, SyncStep, Pull, ReplayStep, Replay, TakeSeal, RequestStep,
         ReadSeal, Hit, Miss, LoadKind, Store, vars
<1> QED BY <1>1, <1>2, <1>3, <1>4, <1>5

LEMMA BeginIs ==
    ASSUME TypeOK, NEW p \in Processes
    PROVE  /\ BeginCycle(p) => /\ proc'[p].at = "head" /\ proc'[p].rebuild = FALSE /\ proc'[p].kind = 1
                               /\ proc'[p].cursors = cursor /\ proc'[p].head = 0 /\ proc'[p].pulled = Nothing
           /\ BeginRebuild(p) => /\ proc'[p].at = "head" /\ proc'[p].rebuild = TRUE /\ proc'[p].kind = 1
                                 /\ proc'[p].cursors = [d \in Kinds |-> 0]
                                 /\ proc'[p].head = 0 /\ proc'[p].pulled = Nothing
           /\ proc'[p] = Idle => /\ proc'[p].at = "idle" /\ proc'[p].cursors = [d \in Kinds |-> 0]
                                 /\ proc'[p].head = 0 /\ proc'[p].pulled = Nothing
<1> DEFINE zero == [d \in Kinds |-> 0]
<1>0. Idle = [at |-> "idle", rebuild |-> FALSE, cursors |-> zero, head |-> 0, kind |-> 1, after |-> 0,
              pulled |-> Nothing]
  BY DEF Idle
<1>1. BeginCycle(p) => proc'[p] = [Idle EXCEPT !.at = "head", !.cursors = cursor]
  BY DEF BeginCycle, BecomesAs, TypeOK, ProcessType
<1>2. BeginRebuild(p) => proc'[p] = [Idle EXCEPT !.at = "head", !.rebuild = TRUE]
  BY DEF BeginRebuild, BecomesAs, TypeOK, ProcessType
<1> HIDE DEF zero
<1>3. ASSUME BeginCycle(p)
      PROVE  /\ proc'[p].at = "head" /\ proc'[p].rebuild = FALSE /\ proc'[p].kind = 1
             /\ proc'[p].cursors = cursor /\ proc'[p].head = 0 /\ proc'[p].pulled = Nothing
  BY <1>0, <1>1, <1>3
<1>4. ASSUME BeginRebuild(p)
      PROVE  /\ proc'[p].at = "head" /\ proc'[p].rebuild = TRUE /\ proc'[p].kind = 1
             /\ proc'[p].cursors = zero /\ proc'[p].head = 0 /\ proc'[p].pulled = Nothing
  BY <1>0, <1>2, <1>4
<1>5. ASSUME proc'[p] = Idle
      PROVE  /\ proc'[p].at = "idle" /\ proc'[p].cursors = zero /\ proc'[p].head = 0 /\ proc'[p].pulled = Nothing
  BY <1>0, <1>5
<1> QED BY <1>3, <1>4, <1>5 DEF zero

LEMMA ReadHeadIs ==
    ASSUME TypeOK, NEW p \in Processes, ReadHead(p), proc'[p] # Idle
    PROVE  /\ proc[p].at = "head" /\ proc'[p].at = "pull" /\ proc'[p].rebuild = proc[p].rebuild
           /\ proc'[p].cursors = proc[p].cursors /\ proc'[p].pulled = proc[p].pulled
           /\ proc'[p].kind = proc[p].kind /\ proc'[p].after = proc[p].cursors[1]
           /\ proc'[p].head \in 0 .. lastRev /\ IsHead(proc'[p].head)
<1>1. PICK h \in 0 .. lastRev :
         /\ IsHead(h)
         /\ \/ BecomesAs(p, [proc[p] EXCEPT !.at = "pull", !.head = h, !.after = proc[p].cursors[1]])
            \/ BecomesAs(p, Idle)
  BY DEF ReadHead
<1>2. proc'[p] = [proc[p] EXCEPT !.at = "pull", !.head = h, !.after = proc[p].cursors[1]]
  BY <1>1 DEF BecomesAs, TypeOK, ProcessType
<1> QED BY <1>1, <1>2, ProcTypes DEF ReadHead, ProcRecord

\* After a page: the present kind goes on from the page's last row, or it is over.
LEMMA PullPageGives ==
    ASSUME TypeOK, NEW p \in Processes, PullPage(p)
    PROVE  /\ proc[p].at = "pull" /\ proc'[p].at \in {"pull", "apply"}
           /\ proc'[p].rebuild = proc[p].rebuild /\ proc'[p].cursors = proc[p].cursors
           /\ proc'[p].head = proc[p].head /\ proc'[p].pulled = PulledAs(p)
           /\ \E next \in 0 .. lastRev :
                 LET d == proc[p].kind
                     page == Page(d, proc[p].after)
                 IN /\ IF page = {} THEN next = proc[p].after
                       ELSE (\E k \in page : row[k] = next) /\ \A k \in page : row[k] <= next
                    /\ \/ proc'[p].at = "pull" /\ proc'[p].kind = d /\ proc'[p].after = next
                       \/ /\ page = Newer(d, proc[p].after) \/ ~(next < proc[p].head)
                          /\ \/ /\ d < NumKinds /\ proc'[p].at = "pull" /\ proc'[p].kind = d + 1
                                /\ proc'[p].after = proc[p].cursors[d + 1]
                             \/ ~(d < NumKinds) /\ proc'[p].at = "apply"
<1> DEFINE r == proc[p]
           q == PulledAs(p)
           page == Page(r.kind, r.after)
<1>0. r \in ProcRecord /\ r.at = "pull" BY ProcTypes DEF PullPage
<1>1. PICK next \in 0 .. lastRev :
         /\ IF page = {} THEN next = r.after
            ELSE (\E k \in page : row[k] = next) /\ \A k \in page : row[k] <= next
         /\ \/ proc'[p] = [r EXCEPT !.pulled = q, !.after = next]
            \/ /\ page = Newer(r.kind, r.after) \/ ~(next < r.head)
               /\ \/ /\ r.kind < NumKinds
                     /\ proc'[p] = [r EXCEPT !.pulled = q, !.kind = r.kind + 1, !.after = r.cursors[r.kind + 1]]
                  \/ ~(r.kind < NumKinds) /\ proc'[p] = [r EXCEPT !.pulled = q, !.at = "apply"]
  BY PullPageIs DEF BecomesAs, TypeOK, ProcessType
<1> HIDE DEF r, q, page
<1>2. /\ proc'[p].at \in {"pull", "apply"} /\ proc'[p].rebuild = r.rebuild /\ proc'[p].cursors = r.cursors
      /\ proc'[p].head = r.head /\ proc'[p].pulled = q
      /\ \/ proc'[p].at = "pull" /\ proc'[p].kind = r.kind /\ proc'[p].after = next
         \/ /\ page = Newer(r.kind, r.after) \/ ~(next < r.head)
            /\ \/ /\ r.kind < NumKinds /\ proc'[p].at = "pull" /\ proc'[p].kind = r.kind + 1
                  /\ proc'[p].after = r.cursors[r.kind + 1]
               \/ ~(r.kind < NumKinds) /\ proc'[p].at = "apply"
  BY <1>0, <1>1 DEF ProcRecord
<1> QED BY <1>0, <1>1, <1>2 DEF r, q, page

-----------------------------------------------------------------------------
(* The parts of the invariant, one by one *)

LEMMA SettledInvStep ==
    ASSUME TypeOK, UpstreamInv, SettledInv, [Next]_vars
    PROVE  SettledInv'
<1> USE UpstreamTypes, ProcTypes
<1>0. Settled(0) BY DEF Settled
<1>h. \A h \in 0 .. lastRev : IsHead(h) => Settled(h) BY <1>0 DEF IsHead, UpstreamInv
<1>c. \A d \in Kinds : cursor[d] \in Nat BY DEF TypeOK, ReadModelType
<1>s. \A x \in Nat : Settled(x) => Settled(x)' BY SettledStays
<1>1. ASSUME NEW d \in Kinds PROVE \E x \in Nat : Settled(x) /\ cursor'[d] = x
  <2>1. CASE UNCHANGED cursor BY <2>1, <1>c DEF SettledInv
  <2>2. ASSUME NEW p \in Processes, ApplyCycle(p) \/ ApplyRebuild(p)
        PROVE  cursor'[d] = proc[p].head \/ cursor'[d] = proc[p].cursors[d]
    BY <2>2, Zenon DEF ApplyCycle, ApplyRebuild
  <2>3. UNCHANGED cursor \/ \E p \in Processes : ApplyCycle(p) \/ ApplyRebuild(p)
    BY DEF Next, UpstreamStep, WriteRow, Commit, Rollback, SyncStep, BeginCycle, BeginRebuild, Pull, ReadHead, PullPage,
           Fail, ReplayStep, Replay, TakeSeal, Upgrade, RequestStep, ReadSeal, Hit, Miss, LoadKind, Store, analytics, vars
  <2> QED BY <2>1, <2>2, <2>3 DEF SettledInv
<1>2. ASSUME NEW p \in Processes, NEW d \in Kinds
      PROVE  /\ \E x \in Nat : Settled(x) /\ proc'[p].cursors[d] = x
             /\ \E x \in Nat : Settled(x) /\ proc'[p].head = x
  <2>1. CASE proc'[p] = proc[p] BY <2>1 DEF SettledInv
  <2>2. CASE proc'[p] = Idle \/ BeginCycle(p) \/ BeginRebuild(p)
    BY <2>2, BeginIs, <1>0, <1>c DEF SettledInv
  <2>3. CASE ReadHead(p) /\ proc'[p] # Idle BY <2>3, ReadHeadIs, <1>h DEF SettledInv
  <2>4. CASE PullPage(p) BY <2>4, PullPageGives DEF SettledInv
  <2> QED BY <2>1, <2>2, <2>3, <2>4, ProcMoves
<1> QED BY <1>1, <1>2, <1>s DEF SettledInv

LEMMA AloneStep ==
    ASSUME TypeOK, RebuildAlone, Alone, [Next]_vars
    PROVE  Alone'
<1> SUFFICES ASSUME NEW p \in Processes, NEW o \in Processes, Rebuilding(p)', o # p
             PROVE  proc'[o].at = "idle"
  BY DEF Alone
<1>1. CASE BeginRebuild(p)
  <2>1. proc[o].at = "idle" /\ proc'[o] = proc[o]
    BY <1>1 DEF BeginRebuild, BecomesAs, TypeOK, ProcessType
  <2> QED BY <2>1
<1>2. CASE ~BeginRebuild(p)
  <2>1. Rebuilding(p)
    <3>1. CASE proc'[p] = proc[p] BY <3>1 DEF Rebuilding
    <3>2. CASE proc'[p] = Idle \/ BeginCycle(p) BY <3>2, BeginIs DEF Rebuilding
    <3>3. CASE ReadHead(p) /\ proc'[p] # Idle BY <3>3, ReadHeadIs DEF Rebuilding
    <3>4. CASE PullPage(p) BY <3>4, PullPageGives DEF Rebuilding
    <3> QED BY <1>2, <3>1, <3>2, <3>3, <3>4, ProcMoves
  <2>2. proc[o].at = "idle" BY <2>1 DEF Alone
  <2>3. ~BeginCycle(o) /\ ~BeginRebuild(o) BY <2>1 DEF BeginCycle, BeginRebuild, Rebuilding
  <2>4. ~ReadHead(o) /\ ~PullPage(o) BY <2>2 DEF ReadHead, PullPage
  <2> QED BY <2>2, <2>3, <2>4, ProcMoves DEF Idle
<1> QED BY <1>1, <1>2

\* The read model, its cursors and its letters change by these steps only.
LEMMA ReadModelMoves ==
    ASSUME [Next]_vars
    PROVE  \/ UNCHANGED <<read, cursor, open, resolved>>
           \/ \E l \in open \cup resolved : Replay(l)
           \/ \E p \in Processes : ApplyCycle(p) \/ ApplyRebuild(p)
BY DEF Next, UpstreamStep, WriteRow, Commit, Rollback, SyncStep, BeginCycle, BeginRebuild, Pull, ReadHead, PullPage, Fail,
       ReplayStep, TakeSeal, Upgrade, RequestStep, ReadSeal, Hit, Miss, LoadKind, Store, analytics, vars

LEMMA ReadModelTypes ==
    ASSUME TypeOK
    PROVE  /\ \A k \in Rows : read[k] \in Nat
           /\ \A d \in Kinds : cursor[d] \in Nat
           /\ \A l \in open \cup resolved : l \in Letter /\ l.row \in Rows /\ l.rev \in Nat
BY DEF TypeOK, ReadModelType, Revisions, Letter

LEMMA NotAheadStep ==
    ASSUME TypeOK, UpstreamInv, NotAhead, [Next]_vars
    PROVE  NotAhead'
<1> USE UpstreamTypes, ReadModelTypes
<1>p. \A p \in Processes, k \in Rows : proc[p].pulled[k] \in Nat BY ProcTypes
<1>t. TypeOK' BY TypeStep
<1>r. \A k \in Rows : row[k] <= row'[k] /\ row'[k] \in Nat
  <2>1. \A k \in Rows : row'[k] \in Nat BY <1>t DEF TypeOK, UpstreamType, Revisions
  <2> QED BY <2>1, RowMoves
<1>1. ASSUME NEW k \in Rows PROVE read'[k] \in Nat /\ read'[k] <= row[k]
  <2>1. CASE UNCHANGED read BY <2>1 DEF NotAhead
  <2>2. ASSUME NEW l \in open \cup resolved, Replay(l) PROVE read'[k] \in Nat /\ read'[k] <= row[k]
    BY <2>2 DEF Replay, Upsert, NotAhead, TypeOK, ReadModelType, Revisions
  <2>3. ASSUME NEW p \in Processes, ApplyCycle(p) PROVE read'[k] \in Nat /\ read'[k] <= row[k]
    BY <2>3, <1>p DEF ApplyCycle, Applied, Upsert, NotAhead
  <2>4. ASSUME NEW p \in Processes, ApplyRebuild(p) PROVE read'[k] \in Nat /\ read'[k] <= row[k]
    BY <2>4, <1>p DEF ApplyRebuild, Applied, Upsert, NotAhead, Nothing
  <2> QED BY <2>1, <2>2, <2>3, <2>4, ReadModelMoves
<1>2. ASSUME NEW l \in open' \cup resolved' PROVE l.row \in Rows /\ l.rev \in Nat /\ l.rev <= row[l.row]
  <2>1. ASSUME NEW p \in Processes, l \in Letters(p) PROVE l.row \in Rows /\ l.rev \in Nat /\ l.rev <= row[l.row]
    BY <2>1, <1>p DEF Letters, LetterOf, NotAhead
  <2>2. l \in open \cup resolved \/ \E p \in Processes : l \in Letters(p)
    BY ReadModelMoves DEF Replay, ApplyCycle, ApplyRebuild, PutLetters
  <2> QED BY <2>1, <2>2 DEF NotAhead
<1>3. ASSUME NEW p \in Processes, NEW k \in Rows PROVE proc'[p].pulled[k] \in Nat /\ proc'[p].pulled[k] <= row[k]
  <2>1. CASE proc'[p].pulled = proc[p].pulled BY <2>1, <1>p DEF NotAhead
  <2>2. CASE proc'[p].pulled = Nothing BY <2>2 DEF Nothing
  <2>3. CASE PullPage(p)
    <3>1. proc'[p].pulled = PulledAs(p) BY <2>3, PullPageGives
    <3>2. PulledAs(p)[k] = row[k] \/ PulledAs(p)[k] = proc[p].pulled[k] BY DEF PulledAs
    <3> QED BY <3>1, <3>2, <1>p DEF NotAhead
  <2> QED BY <2>1, <2>2, <2>3, ProcMoves, BeginIs, ReadHeadIs
<1>4. \A k \in Rows : read'[k] <= row'[k] BY <1>1, <1>r
<1>5. \A l \in open' \cup resolved' : l.rev <= row'[l.row] BY <1>2, <1>r
<1>6. \A p \in Processes, k \in Rows : proc'[p].pulled[k] <= row'[k] BY <1>3, <1>r
<1> QED BY <1>4, <1>5, <1>6 DEF NotAhead

\* What the read model holds it keeps until the row moves, but for a rebuild.
LEMMA HeldStays ==
    ASSUME TypeOK, NotAhead, [Next]_vars, \A p \in Processes : ~ApplyRebuild(p),
           NEW k \in Rows, row'[k] = row[k], Held(k)
    PROVE  Held(k)'
<1> USE UpstreamTypes, ReadModelTypes
<1>p. \A p \in Processes : proc[p].pulled[k] \in Nat BY ProcTypes
<1>1. CASE UNCHANGED <<read, cursor, open, resolved>> BY <1>1 DEF Held, LetterOf
<1>2. ASSUME NEW p \in Processes, ApplyCycle(p) PROVE Held(k)'
  <2>1. read[k] = row[k] => read'[k] = row[k]
    BY <1>2, <1>p DEF ApplyCycle, Applied, Upsert, NotAhead
  <2>2. open \subseteq open' BY <1>2 DEF ApplyCycle, PutLetters
  <2> QED BY <2>1, <2>2 DEF Held, LetterOf
<1>3. ASSUME NEW l \in open \cup resolved, Replay(l) PROVE Held(k)'
  <2>1. read'[k] = IF k = l.row THEN Upsert(read[k], l.rev) ELSE read[k]
    BY <1>3 DEF Replay, TypeOK, ReadModelType, Revisions
  <2>2. l.rev <= row[l.row] /\ read[k] <= row[k] BY DEF NotAhead
  <2>3. read[k] = row[k] => read'[k] = row[k] BY <2>1, <2>2 DEF Upsert
  <2>4. CASE l = LetterOf(k, row[k])
    <3>1. l.row = k /\ l.rev = row[k] BY <2>4 DEF LetterOf
    <3>2. read'[k] = row[k] BY <2>1, <2>2, <3>1 DEF Upsert
    <3> QED BY <3>2 DEF Held
  <2>5. CASE l # LetterOf(k, row[k])
    <3>1. LetterOf(k, row[k]) \in open => LetterOf(k, row[k]) \in open' BY <1>3, <2>5 DEF Replay
    <3> QED BY <2>3, <3>1 DEF Held, LetterOf
  <2> QED BY <2>4, <2>5
<1> QED BY <1>1, <1>2, <1>3, ReadModelMoves

\* A process starts from cursors below which everything is held, and it stays held while it pulls.
LEMMA StartInvStep ==
    ASSUME TypeOK, UpstreamInv, SettledInv, NotAhead, Alone, Complete, [Next]_vars, NEW p \in Processes, StartInv(p)
    PROVE  StartInv(p)'
<1> USE UpstreamTypes, ConstantTypes
<1>1. CASE proc'[p] = Idle BY <1>1, BeginIs DEF StartInv
<1>2. CASE BeginRebuild(p) BY <1>2, BeginIs DEF StartInv
<1>3. CASE BeginCycle(p)
  <2>1. row' = row /\ read' = read /\ open' = open /\ proc'[p].cursors = cursor /\ ~proc'[p].rebuild
    BY <1>3, BeginIs DEF BeginCycle, integration, analytics
  <2>2. \A k \in Rows : 0 < row'[k] /\ row'[k] <= proc'[p].cursors[KindOf[k]] => Held(k)'
    BY <2>1 DEF Complete, Held, LetterOf
  <2> QED BY <2>1, <2>2 DEF StartInv
<1>4. CASE /\ proc'[p].rebuild = proc[p].rebuild /\ proc'[p].cursors = proc[p].cursors
           /\ proc'[p].at = "idle" \/ proc[p].at # "idle"
  <2>1. CASE proc'[p].at = "idle" \/ proc[p].rebuild BY <1>4, <2>1 DEF StartInv
  <2>2. CASE proc[p].at # "idle" /\ ~proc[p].rebuild
    <3>1. \A o \in Processes : ~ApplyRebuild(o) BY <2>2 DEF Alone, Rebuilding, ApplyRebuild
    <3>2. ASSUME NEW k \in Rows, 0 < row'[k], row'[k] <= proc[p].cursors[KindOf[k]] PROVE Held(k)'
      <4>1. proc[p].cursors[KindOf[k]] \in Nat /\ Settled(proc[p].cursors[KindOf[k]])
        BY ProcTypes DEF SettledInv
      <4>2. row'[k] = row[k]
        <5>1. row'[k] \in Nat BY TypeStep DEF TypeOK, UpstreamType, Revisions
        <5> QED BY <4>1, <5>1, <3>2, RowMoves
      <4>3. Held(k) BY <2>2, <3>2, <4>2 DEF StartInv
      <4> QED BY <3>1, <4>2, <4>3, HeldStays
    <3> QED BY <1>4, <2>2, <3>2 DEF StartInv
  <2> QED BY <1>4, <2>1, <2>2
<1>5. CASE proc'[p] = proc[p] BY <1>5, <1>4
<1>6. CASE ReadHead(p) /\ proc'[p] # Idle BY <1>6, <1>4, ReadHeadIs
<1>7. CASE PullPage(p) BY <1>7, <1>4, PullPageGives
<1> QED BY <1>1, <1>2, <1>3, <1>5, <1>6, <1>7, ProcMoves

\* A page has every row up to any of its rows.
LEMMA PageIsDown ==
    ASSUME TypeOK, NEW d \in Kinds, NEW after \in Nat, NEW j \in Page(d, after), NEW k \in Newer(d, after),
           row[k] <= row[j]
    PROVE  k \in Page(d, after)
<1> DEFINE Below(x) == {o \in Newer(d, after) : row[o] < row[x]}
<1>1. j \in Rows /\ k \in Rows BY DEF Page, Newer
<1>2. Below(k) \subseteq Below(j) BY <1>1, UpstreamTypes DEF Newer
<1>3. IsFiniteSet(Below(j))
  <2>1. Below(j) \subseteq Rows BY DEF Newer
  <2> QED BY <2>1, FS_Subset, SyncAssumption DEF SyncAssumption
<1>4. Cardinality(Below(k)) <= Cardinality(Below(j)) /\ IsFiniteSet(Below(k)) BY <1>2, <1>3, FS_Subset
<1>5. Cardinality(Below(k)) \in Nat /\ Cardinality(Below(j)) \in Nat BY <1>3, <1>4, FS_CardinalityType
<1>6. Cardinality(Below(j)) < PageSize BY DEF Page
<1>7. Cardinality(Below(k)) < PageSize BY <1>4, <1>5, <1>6, SyncAssumption DEF SyncAssumption
<1> QED BY <1>7 DEF Page

\* A page adds the rows that it makes the process go past.
LEMMA PageCovers ==
    ASSUME TypeOK, NEW p \in Processes, PullInv(p), PullPage(p),
           NEW k \in Rows, proc[p].cursors[KindOf[k]] < row[k], row[k] <= proc[p].head,
           \/ proc'[p].at = "apply"
           \/ KindOf[k] < proc'[p].kind
           \/ KindOf[k] = proc'[p].kind /\ row[k] <= proc'[p].after
    PROVE  PulledAs(p)[k] = row[k]
<1> DEFINE d == proc[p].kind
           after == proc[p].after
           page == Page(d, after)
<1> USE UpstreamTypes, ConstantTypes
<1>t. d \in Kinds /\ d \in Nat /\ after \in Nat /\ proc[p].head \in Nat /\ KindOf[k] \in Kinds /\ KindOf[k] \in Nat
      /\ proc[p].cursors[KindOf[k]] \in Nat
  BY ProcTypes
<1>1. CASE Covered(p, k) BY <1>1, PullPageGives DEF PullInv, PulledAs
<1>2. CASE ~Covered(p, k)
  <2>1. PICK next \in 0 .. lastRev :
           /\ IF page = {} THEN next = after ELSE (\E j \in page : row[j] = next) /\ \A j \in page : row[j] <= next
           /\ \/ proc'[p].at = "pull" /\ proc'[p].kind = d /\ proc'[p].after = next
              \/ /\ page = Newer(d, after) \/ ~(next < proc[p].head)
                 /\ \/ /\ d < NumKinds /\ proc'[p].at = "pull" /\ proc'[p].kind = d + 1
                       /\ proc'[p].after = proc[p].cursors[d + 1]
                    \/ ~(d < NumKinds) /\ proc'[p].at = "apply"
    BY PullPageGives
  <2>n. next \in Nat OBVIOUS
  <2>2. ~(KindOf[k] < d) /\ (KindOf[k] = d => ~(row[k] <= after)) BY <1>2 DEF Covered
  <2>3. KindOf[k] = d /\ (page = Newer(d, after) \/ row[k] <= next)
    <3>1. CASE proc'[p].at = "pull" /\ proc'[p].kind = d /\ proc'[p].after = next
      BY <2>2, <3>1
    <3>2. CASE /\ page = Newer(d, after) \/ ~(next < proc[p].head)
               /\ d < NumKinds /\ proc'[p].at = "pull" /\ proc'[p].kind = d + 1
               /\ proc'[p].after = proc[p].cursors[d + 1]
      <4>1. KindOf[k] # d + 1 BY <1>t, <3>2
      <4>2. KindOf[k] = d BY <1>t, <2>2, <3>2, <4>1
      <4> QED BY <1>t, <2>n, <3>2, <4>2
    <3>3. CASE (page = Newer(d, after) \/ ~(next < proc[p].head)) /\ ~(d < NumKinds)
      BY <1>t, <2>n, <2>2, <3>3
    <3> QED BY <2>1, <3>1, <3>2, <3>3
  <2>4. k \in Newer(d, after) BY <1>t, <2>2, <2>3 DEF Newer
  <2>5. k \in page
    <3>1. CASE page = Newer(d, after) BY <2>4, <3>1
    <3>2. CASE row[k] <= next
      <4>1. page # {} BY <1>t, <2>1, <2>2, <2>3, <3>2
      <4>2. PICK j \in page : row[j] = next BY <2>1, <4>1
      <4> QED BY <1>t, <2>4, <3>2, <4>2, PageIsDown
    <3> QED BY <2>3, <3>1, <3>2
  <2> QED BY <2>5 DEF PulledAs, UpToHead
<1> QED BY <1>1, <1>2

LEMMA PullInvStep ==
    ASSUME TypeOK, UpstreamInv, SettledInv, [Next]_vars, NEW p \in Processes, PullInv(p)
    PROVE  PullInv(p)'
<1> USE UpstreamTypes, ConstantTypes, ProcTypes
<1>1. CASE proc'[p] = Idle \/ BeginCycle(p) \/ BeginRebuild(p)
  BY <1>1, BeginIs DEF PullInv
<1>2. CASE proc'[p] = proc[p]
  <2>1. ASSUME NEW k \in Rows, row'[k] <= proc[p].head PROVE row'[k] = row[k]
    <3>1. row'[k] \in Nat BY TypeStep DEF TypeOK, UpstreamType, Revisions
    <3>2. Settled(proc[p].head) BY DEF SettledInv
    <3> QED BY <2>1, <3>1, <3>2, RowMoves
  <2> QED BY <1>2, <2>1 DEF PullInv, Covered
<1>3. CASE ReadHead(p) /\ proc'[p] # Idle
  <2>1. row' = row BY <1>3 DEF ReadHead, integration
  <2>2. proc[p].kind = 1 BY <1>3, ReadHeadIs DEF PullInv
  <2>3. ASSUME NEW k \in Rows, proc[p].cursors[KindOf[k]] < row[k] PROVE ~Covered(p, k)'
    <3>1. KindOf[k] \in Nat /\ ~(KindOf[k] < 1) BY DEF Kinds
    <3> QED BY <1>3, <2>1, <2>2, <2>3, <3>1, ReadHeadIs DEF Covered
  <2> QED BY <1>3, <2>1, <2>3, ReadHeadIs DEF PullInv
<1>4. CASE PullPage(p)
  <2>1. row' = row BY <1>4 DEF PullPage, integration
  <2>2. /\ proc'[p].cursors = proc[p].cursors /\ proc'[p].head = proc[p].head /\ proc'[p].pulled = PulledAs(p)
        /\ proc'[p].at # "head"
    BY <1>4, PullPageGives
  <2>3. ASSUME NEW k \in Rows, proc[p].cursors[KindOf[k]] < row[k], row[k] <= proc[p].head, Covered(p, k)'
        PROVE  PulledAs(p)[k] = row[k]
    BY <1>4, <2>1, <2>3, PageCovers DEF Covered
  <2> QED BY <2>1, <2>2, <2>3 DEF PullInv
<1> QED BY <1>1, <1>2, <1>3, <1>4, ProcMoves

\* What is applied is held afterwards: in the read model, or as a letter.
LEMMA AppliedIsHeld ==
    ASSUME TypeOK, NotAhead, NEW p \in Processes, NEW k \in Rows, 0 < row[k], proc[p].pulled[k] = row[k],
           row' = row, open' = open \cup Letters(p),
           NEW old \in Revisions, old[k] <= row[k], read' = Applied(p, old)
    PROVE  Held(k)'
<1>0. row[k] \in Nat /\ old[k] \in Nat BY UpstreamTypes DEF Revisions
<1>1. CASE k \in Accepted(p)
  <2>1. read'[k] = row[k] BY <1>0, <1>1 DEF Applied, Upsert
  <2> QED BY <2>1 DEF Held
<1>2. CASE k \notin Accepted(p)
  <2>1. LetterOf(k, row[k]) \in Letters(p) BY <1>0, <1>2 DEF Letters
  <2>2. LetterOf(k, row'[k]) \in open' BY <2>1
  <2> QED BY <2>2 DEF Held, LetterOf
<1> QED BY <1>1, <1>2

LEMMA CompleteStep ==
    ASSUME TypeOK, UpstreamInv, SettledInv, NotAhead, Complete, [Next]_vars,
           \A p \in Processes : PullInv(p) /\ StartInv(p)
    PROVE  Complete'
<1> SUFFICES ASSUME NEW k \in Rows, 0 < row'[k], row'[k] <= cursor'[KindOf[k]] PROVE Held(k)'
  BY DEF Complete, Held
<1> USE UpstreamTypes, ConstantTypes, ReadModelTypes
<1> DEFINE d == KindOf[k]
<1>t. row'[k] \in Nat BY TypeStep DEF TypeOK, UpstreamType, Revisions
<1>1. CASE UNCHANGED <<read, cursor, open, resolved>>
  <2>1. row'[k] = row[k] BY <1>1, <1>t, RowMoves DEF SettledInv
  <2> QED BY <1>1, <2>1 DEF Complete, Held, LetterOf
<1>2. ASSUME NEW l \in open \cup resolved, Replay(l) PROVE Held(k)'
  <2>1. row' = row /\ cursor' = cursor BY <1>2 DEF Replay, integration
  <2>2. Held(k) BY <2>1 DEF Complete, Held
  <2>3. \A p \in Processes : ~ApplyRebuild(p) BY <1>2 DEF Replay, ApplyRebuild, BecomesAs, TypeOK, ProcessType, Idle
  <2> QED BY <2>1, <2>2, <2>3, HeldStays
<1>3. ASSUME NEW p \in Processes, ApplyCycle(p) PROVE Held(k)'
  <2>t. proc[p].cursors[d] \in Nat /\ proc[p].head \in Nat BY ProcTypes
  <2>1. row' = row /\ proc[p].at = "apply" /\ ~proc[p].rebuild /\ open' = open \cup Letters(p)
        /\ read' = Applied(p, read)
    BY <1>3 DEF ApplyCycle, PutLetters, integration
  <2>2. cursor'[d] = IF proc[p].head > proc[p].cursors[d] THEN proc[p].head ELSE proc[p].cursors[d]
    BY <1>3 DEF ApplyCycle
  <2>3. CASE row[k] <= proc[p].cursors[d]
    <3>1. Held(k) BY <2>1, <2>3 DEF StartInv
    <3>2. \A o \in Processes : ~ApplyRebuild(o)
      <4>1. \A o \in Processes : o # p => proc'[o] = proc[o]
        BY <1>3 DEF ApplyCycle, BecomesAs, TypeOK, ProcessType
      <4>2. \A o \in Processes : ApplyRebuild(o) => proc'[o].at = "idle" /\ proc[o].at = "apply" /\ proc[o].rebuild
        BY BeginIs DEF ApplyRebuild, BecomesAs, TypeOK, ProcessType
      <4> QED BY <2>1, <4>1, <4>2
    <3> QED BY <2>1, <3>1, <3>2, HeldStays
  <2>4. CASE ~(row[k] <= proc[p].cursors[d])
    <3>1. proc[p].cursors[d] < row[k] /\ row[k] <= proc[p].head BY <2>t, <2>1, <2>2, <2>4
    <3>2. proc[p].pulled[k] = row[k] BY <2>1, <3>1 DEF PullInv, Covered
    <3>3. read \in Revisions /\ read[k] <= row[k] BY DEF TypeOK, ReadModelType, NotAhead
    <3> QED BY <2>1, <3>2, <3>3, AppliedIsHeld
  <2> QED BY <2>3, <2>4
<1>4. ASSUME NEW p \in Processes, ApplyRebuild(p) PROVE Held(k)'
  <2>1. row' = row /\ proc[p].at = "apply" /\ proc[p].rebuild /\ open' = open \cup Letters(p)
        /\ read' = Applied(p, Nothing) /\ cursor'[d] = proc[p].head
    BY <1>4 DEF ApplyRebuild, PutLetters, integration
  <2>2. proc[p].cursors[d] = 0 BY <2>1 DEF StartInv
  <2>3. proc[p].pulled[k] = row[k] BY <2>1, <2>2 DEF PullInv, Covered
  <2>4. Nothing[k] <= row[k] BY DEF Nothing
  <2> QED BY <2>1, <2>3, <2>4, AppliedIsHeld
<1> QED BY <1>1, <1>2, <1>3, <1>4, ReadModelMoves

LEMMA SyncInit == Init => SyncInv
<1> SUFFICES ASSUME Init PROVE SyncInv OBVIOUS
<1>1. TypeOK BY TypeInit
<1>2. UpstreamInv /\ SettledInv BY DEF Init, UpstreamInv, SettledInv, Settled, Nothing, Idle
<1>3. NotAhead /\ Complete BY ConstantTypes DEF Init, NotAhead, Complete, Nothing, Idle
<1>4. Alone /\ \A p \in Processes : PullInv(p) /\ StartInv(p)
  BY DEF Init, Alone, Rebuilding, PullInv, StartInv, Idle
<1> QED BY <1>1, <1>2, <1>3, <1>4 DEF SyncInv

LEMMA SyncInvStep == RebuildAlone /\ SyncInv /\ [Next]_vars => SyncInv'
<1> SUFFICES ASSUME RebuildAlone, SyncInv, [Next]_vars PROVE SyncInv' OBVIOUS
<1> USE DEF SyncInv
<1>1. TypeOK' BY TypeStep
<1>2. UpstreamInv' /\ SettledInv' BY UpstreamInvStep, SettledInvStep
<1>3. NotAhead' /\ Alone' BY NotAheadStep, AloneStep
<1>4. Complete' BY CompleteStep
<1>5. \A p \in Processes : PullInv(p)' /\ StartInv(p)' BY PullInvStep, StartInvStep
<1> QED BY <1>1, <1>2, <1>3, <1>4, <1>5

\* The cursors tell the truth, when nobody rebuilds while another process syncs: run_once, rebuild and
\* replay_dead_letters lose no row in any order with the transactions of integration-service.
THEOREM NothingIsLost ==
    ASSUME RebuildAlone
    PROVE  Spec => []Complete
<1>1. Init => SyncInv BY SyncInit
<1>2. SyncInv /\ [Next]_vars => SyncInv' BY SyncInvStep
<1>3. SyncInv => Complete BY DEF SyncInv
<1> QED BY <1>1, <1>2, <1>3, PTL DEF Spec
===============================================================================
