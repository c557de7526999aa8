---------------------------- MODULE AnalyticsSync ----------------------------
(****************************************************************************)
(* The canonical data of integration-service on its way to the read model   *)
(* of analytics-service and to the cache of its results.                    *)
(*                                                                          *)
(* Upstream, a transaction draws a revision for every row it writes, under  *)
(* a lock it keeps until it ends.  A consumer reads the highest committed   *)
(* revision (the head), pulls every kind of rows page by page up to it, and *)
(* applies what it has in one transaction, with the cursors and the seal.   *)
(* The upstream goes on meanwhile, and so do other processes, an operator   *)
(* who rebuilds or replays, and the requests that read.                     *)
(*                                                                          *)
(* The contents of a row are its revision: Malformed tells which of them    *)
(* the consumer refuses.                                                    *)
(****************************************************************************)
EXTENDS Integers, FiniteSets

CONSTANTS
    Rows,          \* natural keys of projects, resources, content, metrics, events
    NumKinds,      \* the kinds, numbered in the order in which they are pulled and loaded
    KindOf,        \* the kind of a row
    Writers,       \* concurrent transactions of integration-service
    NoWriter,
    Processes,     \* processes of analytics-service
    Requests,      \* concurrent requests for results
    PageSize,      \* canonical_page_size
    Malformed,     \* revisions that to_row refuses before the upgrade
    RebuildAlone,  \* does an operator rebuild only while no other process syncs?
    MaxRevision, MaxSeal, MaxFaults  \* bounds: revisions drawn; seals up to which operators act; faults

Kinds == 1 .. NumKinds

ASSUME SyncAssumption ==
    /\ IsFiniteSet(Rows)
    /\ NumKinds \in Nat \ {0}
    /\ KindOf \in [Rows -> Kinds]
    /\ NoWriter \notin Writers
    /\ PageSize \in Nat \ {0}
    /\ Malformed \subseteq Nat
    /\ RebuildAlone \in BOOLEAN
    /\ MaxRevision \in Nat /\ MaxSeal \in Nat /\ MaxFaults \in Nat

VARIABLES
    row,       \* integration: the committed revision of every row, 0 when there is none
    lastRev,   \* the sequence canonical_revision_seq
    lock,      \* the holder of the advisory lock OUTBOX_LOCK
    draft,     \* what the open transactions have written
    read,      \* analytics: the revision of every row of the read model
    cursor,    \* feed_cursor, canonical.<kind>
    seal,      \* sync_state, the number in every key of the cache
    open,      \* dead letters of canonical items, not replayed
    resolved,  \*   and replayed
    strict,    \* does the running version refuse what is Malformed?
    proc,      \* the synchronisation under way in each process
    cache,     \* results by seal
    request,   \* requests under way
    faults     \* counts the faults

integration == <<row, lastRev, lock, draft>>
analytics == <<read, cursor, seal, open, resolved>>
vars == <<integration, analytics, strict, proc, cache, request, faults>>

Revisions == [Rows -> Nat]
Nothing == [k \in Rows |-> 0]
Letter == [row : Rows, rev : Nat]

\* A process without work, and a request without one.
Idle == [at |-> "idle", rebuild |-> FALSE, cursors |-> [d \in Kinds |-> 0], head |-> 0,
         kind |-> 1, after |-> 0, pulled |-> Nothing]
Served == [at |-> "idle", seal |-> 0, kind |-> 1, got |-> Nothing]

Init ==
    /\ row = Nothing
    /\ lastRev = 0
    /\ lock = NoWriter
    /\ draft = [w \in Writers |-> Nothing]
    /\ read = Nothing
    /\ cursor = [d \in Kinds |-> 0]
    /\ seal = 0
    /\ open = {} /\ resolved = {}
    /\ strict = TRUE
    /\ proc = [p \in Processes |-> Idle]
    /\ cache = {}
    /\ request = [q \in Requests |-> Served]
    /\ faults = 0

-----------------------------------------------------------------------------
(* integration-service: a transaction that writes canonical rows *)

\* A bug: revisions are drawn without the lock.
LockIgnored(w) == TRUE
LockFree(w) == lock \in {NoWriter, w}

\* next_revisions: the lock first, then the next value of the sequence.
WriteRow(w, k) ==
    /\ LockFree(w)
    /\ draft[w][k] = 0
    /\ lastRev < MaxRevision
    /\ lock' = w
    /\ lastRev' = lastRev + 1
    /\ draft' = [draft EXCEPT ![w][k] = lastRev + 1]
    /\ UNCHANGED <<row, analytics, strict, proc, cache, request, faults>>

Ends(w) ==
    /\ draft[w] # Nothing
    /\ draft' = [draft EXCEPT ![w] = Nothing]
    /\ lock' = IF lock = w THEN NoWriter ELSE lock

Commit(w) ==
    /\ Ends(w)
    /\ row' = [k \in Rows |-> IF draft[w][k] # 0 THEN draft[w][k] ELSE row[k]]
    /\ UNCHANGED <<lastRev, analytics, strict, proc, cache, request, faults>>

\* The sequence does not go back: the revisions are lost.
Rollback(w) ==
    /\ Ends(w)
    /\ UNCHANGED <<row, lastRev, analytics, strict, proc, cache, request, faults>>

-----------------------------------------------------------------------------
(* analytics-service: the cycle and the rebuild *)

BecomesAs(p, r) == proc' = [proc EXCEPT ![p] = r]

Rebuilding(p) == proc[p].at # "idle" /\ proc[p].rebuild

BeginCycle(p) ==
    /\ proc[p].at = "idle"
    /\ RebuildAlone => \A o \in Processes : ~Rebuilding(o)
    /\ BecomesAs(p, [Idle EXCEPT !.at = "head", !.cursors = cursor])
    /\ UNCHANGED <<integration, analytics, strict, cache, request, faults>>

BeginRebuild(p) ==
    /\ proc[p].at = "idle"
    /\ seal < MaxSeal
    /\ RebuildAlone => \A o \in Processes : proc[o].at = "idle"
    /\ BecomesAs(p, [Idle EXCEPT !.at = "head", !.rebuild = TRUE])
    /\ UNCHANGED <<integration, analytics, strict, cache, request, faults>>

\* canonical.head_revision: the highest revision that is committed.
IsHead(h) == /\ h = 0 \/ \E k \in Rows : row[k] = h
             /\ \A k \in Rows : row[k] <= h

\* The answer of summary. A cycle that is behind in no kind has nothing to pull.
ReadHead(p) ==
    /\ proc[p].at = "head"
    /\ \E h \in 0 .. lastRev :
          /\ IsHead(h)
          /\ IF proc[p].rebuild \/ \E d \in Kinds : proc[p].cursors[d] < h
             THEN BecomesAs(p, [proc[p] EXCEPT !.at = "pull", !.head = h, !.after = proc[p].cursors[1]])
             ELSE BecomesAs(p, Idle)
    /\ UNCHANGED <<integration, analytics, strict, cache, request, faults>>

\* canonical.export: the rows of a kind after a revision, in the order of revisions, up to the page size.
Newer(d, after) == {k \in Rows : KindOf[k] = d /\ row[k] > after}
Page(d, after) == {k \in Newer(d, after) : Cardinality({o \in Newer(d, after) : row[o] < row[k]}) < PageSize}

\* A bug: off by one, the row at the head is left as well.
BelowHead(page, head) == {k \in page : row[k] < head}
\* What has moved past the head is left for the next cycle.
UpToHead(page, head) == {k \in page : row[k] <= head}

\* The next page of the kind, or the first one of the next kind.
PullPage(p) ==
    LET d == proc[p].kind
        page == Page(d, proc[p].after)
        pulled == [k \in Rows |-> IF k \in UpToHead(page, proc[p].head) THEN row[k] ELSE proc[p].pulled[k]]
    IN  /\ proc[p].at = "pull"
        /\ \E next \in 0 .. lastRev :
              /\ IF page = {} THEN next = proc[p].after
                 ELSE (\E k \in page : row[k] = next) /\ \A k \in page : row[k] <= next
              /\ BecomesAs(p,
                    IF page # Newer(d, proc[p].after) /\ next < proc[p].head
                    THEN [proc[p] EXCEPT !.pulled = pulled, !.after = next]
                    ELSE IF d < NumKinds
                    THEN [proc[p] EXCEPT !.pulled = pulled, !.kind = d + 1, !.after = proc[p].cursors[d + 1]]
                    ELSE [proc[p] EXCEPT !.pulled = pulled, !.at = "apply"])
        /\ UNCHANGED <<integration, analytics, strict, cache, request, faults>>

\* to_row raises BadItem.
Refused(rev) == strict /\ rev \in Malformed

\* A bug: the upsert overwrites a newer row.
UpsertAlways(old, new) == new
\* The upsert leaves a row that is newer alone.
Upsert(old, new) == IF new > old THEN new ELSE old

Accepted(p) == {k \in Rows : proc[p].pulled[k] # 0 /\ ~Refused(proc[p].pulled[k])}
LetterOf(k, rev) == [row |-> k, rev |-> rev]
Letters(p) == {LetterOf(k, proc[p].pulled[k]) : k \in {o \in Rows : proc[p].pulled[o] # 0} \ Accepted(p)}

\* What becomes of the read model when the pulled rows come over the given ones.
Applied(p, old) == [k \in Rows |-> IF k \in Accepted(p) THEN Upsert(old[k], proc[p].pulled[k]) ELSE old[k]]
PutLetters(letters) == open' = open \cup letters /\ resolved' = resolved \ letters

ApplyCycle(p) ==
    /\ proc[p].at = "apply" /\ ~proc[p].rebuild
    /\ read' = Applied(p, read)
    /\ cursor' = [d \in Kinds |-> IF proc[p].head > proc[p].cursors[d] THEN proc[p].head ELSE proc[p].cursors[d]]
    /\ PutLetters(Letters(p))
    /\ seal' = IF Accepted(p) = {} THEN seal ELSE seal + 1
    /\ BecomesAs(p, Idle)
    /\ UNCHANGED <<integration, strict, cache, request, faults>>

ApplyRebuild(p) ==
    /\ proc[p].at = "apply" /\ proc[p].rebuild
    /\ read' = Applied(p, Nothing)
    /\ cursor' = [d \in Kinds |-> proc[p].head]
    /\ PutLetters(Letters(p))
    /\ seal' = seal + 1
    /\ BecomesAs(p, Idle)
    /\ UNCHANGED <<integration, strict, cache, request, faults>>

\* The upstream or the database fails, or the process dies.
Fail(p) ==
    /\ proc[p].at # "idle"
    /\ faults < MaxFaults
    /\ faults' = faults + 1
    /\ BecomesAs(p, Idle)
    /\ UNCHANGED <<integration, analytics, strict, cache, request>>

\* A letter an operator replays: the list was read before, so it may have been replayed already.
Replay(l) ==
    /\ l \in open \cup resolved
    /\ ~Refused(l.rev)
    /\ seal <= MaxSeal
    /\ read' = [read EXCEPT ![l.row] = Upsert(@, l.rev)]
    /\ open' = open \ {l}
    /\ resolved' = resolved \cup {l}
    /\ seal' = seal + 1
    /\ UNCHANGED <<integration, cursor, strict, proc, cache, request, faults>>

\* Groups, country names and accounts are changed, or an administrator drops the cache: a new seal.
TakeSeal ==
    /\ seal < MaxSeal
    /\ seal' = seal + 1
    /\ UNCHANGED <<integration, read, cursor, open, resolved, strict, proc, cache, request, faults>>

\* A release that accepts what was refused: every process is started again.
Upgrade ==
    /\ strict
    /\ strict' = FALSE
    /\ proc' = [p \in Processes |-> Idle]
    /\ request' = [q \in Requests |-> Served]
    /\ UNCHANGED <<integration, analytics, cache, faults>>

-----------------------------------------------------------------------------
(* QueryService.run *)

RequestAs(q, r) == request' = [request EXCEPT ![q] = r]

\* The seal is read before the cache is asked.
ReadSeal(q) ==
    /\ request[q].at = "idle"
    /\ RequestAs(q, [Served EXCEPT !.at = "lookup", !.seal = seal])
    /\ UNCHANGED <<integration, analytics, strict, proc, cache, faults>>

\* An entry is served, or it is not there (or is out of date, or Redis does not answer).
Hit(q) ==
    /\ request[q].at = "lookup"
    /\ \E e \in cache : e.seal = request[q].seal
    /\ RequestAs(q, Served)
    /\ UNCHANGED <<integration, analytics, strict, proc, cache, faults>>

Miss(q) ==
    /\ request[q].at = "lookup"
    /\ RequestAs(q, [request[q] EXCEPT !.at = "load"])
    /\ UNCHANGED <<integration, analytics, strict, proc, cache, faults>>

LoadsMore(k) == k < NumKinds

\* load_dataset: a statement per kind, each with a snapshot of its own.
LoadKind(q) ==
    LET d == request[q].kind IN
    /\ request[q].at = "load"
    /\ RequestAs(q, [request[q] EXCEPT
           !.got = [k \in Rows |-> IF KindOf[k] = d THEN read[k] ELSE @[k]],
           !.kind = IF LoadsMore(d) THEN d + 1 ELSE d,
           !.at = IF LoadsMore(d) THEN "load" ELSE "store"])
    /\ UNCHANGED <<integration, analytics, strict, proc, cache, faults>>

\* A bug: the seal is read again for the key.
KeySealNow(q) == seal
\* The key of the entry: the seal that was read first.
KeySeal(q) == request[q].seal

Store(q) ==
    /\ request[q].at = "store"
    /\ \/ cache' = {e \in cache : e.seal # KeySeal(q)} \cup {[seal |-> KeySeal(q), data |-> request[q].got]}
       \/ UNCHANGED cache
    /\ RequestAs(q, Served)
    /\ UNCHANGED <<integration, analytics, strict, proc, faults>>

-----------------------------------------------------------------------------
UpstreamStep == \E w \in Writers : Commit(w) \/ Rollback(w) \/ \E k \in Rows : WriteRow(w, k)

Pull(p) == ReadHead(p) \/ PullPage(p) \/ ApplyCycle(p) \/ ApplyRebuild(p)
SyncStep == \E p \in Processes : BeginCycle(p) \/ BeginRebuild(p) \/ Pull(p) \/ Fail(p)

ReplayStep == \E l \in open \cup resolved : Replay(l)

RequestStep == \E q \in Requests : ReadSeal(q) \/ Hit(q) \/ Miss(q) \/ LoadKind(q) \/ Store(q)

Next == UpstreamStep \/ SyncStep \/ ReplayStep \/ TakeSeal \/ Upgrade \/ RequestStep

Spec == Init /\ [][Next]_vars

\* The loop of every process goes on after a fault and starts a cycle again, and what it has begun goes on.
Fairness == \A p \in Processes : WF_vars(Pull(p)) /\ WF_vars(BeginCycle(p))

FairSpec == Spec /\ Fairness

-----------------------------------------------------------------------------
(* Properties *)

ProcRecord == [at : {"idle", "head", "pull", "apply"}, rebuild : BOOLEAN, cursors : [Kinds -> Nat],
               head : Nat, kind : Kinds, after : Nat, pulled : Revisions]
RequestRecord == [at : {"idle", "lookup", "load", "store"}, seal : Nat, kind : Kinds, got : Revisions]

UpstreamType ==
    /\ row \in Revisions
    /\ lastRev \in Nat
    /\ lock \in Writers \cup {NoWriter}
    /\ draft \in [Writers -> Revisions]
ReadModelType ==
    /\ read \in Revisions
    /\ cursor \in [Kinds -> Nat]
    /\ seal \in Nat
    /\ open \subseteq Letter
    /\ resolved \subseteq Letter
    /\ strict \in BOOLEAN
ProcessType ==
    /\ proc \in [Processes -> ProcRecord]
    /\ faults \in Nat
RequestType ==
    /\ cache \subseteq [seal : Nat, data : Revisions]
    /\ request \in [Requests -> RequestRecord]

\* Every variable keeps its type.
TypeOK == UpstreamType /\ ReadModelType /\ ProcessType /\ RequestType

\* The cursors tell the truth: a row that is not past the cursor of its kind is in the read model as it is
\* upstream, or its letter is open. No order of writers, pages, processes, rebuilds and replays loses one.
Complete ==
    \A k \in Rows : 0 < row[k] /\ row[k] <= cursor[KindOf[k]]
                        => read[k] = row[k] \/ LetterOf(k, row[k]) \in open

\* A row of the read model does not go back to an earlier revision, but by a rebuild: neither a slow process
\* nor the replay of an old letter overwrites what is newer.
NeverGoesBack ==
    [][(\E k \in Rows : read'[k] < read[k]) => \E p \in Processes : Rebuilding(p) /\ ~Rebuilding(p)']_vars

\* What the cache holds under the present seal is the present read model, however slow the request was that
\* stored it and whatever changed while it loaded.
CacheIsCurrent == \A e \in cache : e.seal = seal => e.data = read

\* Once nobody writes and nothing fails any more, the read model comes to be what the upstream has.
InStep == \A k \in Rows : read[k] = row[k] \/ LetterOf(k, row[k]) \in open
Converges == <>[]InStep


-----------------------------------------------------------------------------
(* The inductive invariants behind Complete and CacheIsCurrent *)

\* No transaction that is open, or will be, commits a revision up to x: the lock is taken before the
\* revision is drawn.
Settled(x) ==
    /\ x <= lastRev
    /\ \A w \in Writers, k \in Rows : draft[w][k] # 0 => x < draft[w][k]

UpstreamInv ==
    /\ \A k \in Rows : Settled(row[k])
    /\ \A w \in Writers, k \in Rows : draft[w][k] # 0 => lock = w /\ draft[w][k] <= lastRev

SettledInv ==
    \A d \in Kinds : /\ Settled(cursor[d])
                     /\ \A p \in Processes : Settled(proc[p].cursors[d]) /\ Settled(proc[p].head)

\* Nothing is newer than the upstream.
NotAhead ==
    /\ \A k \in Rows : read[k] <= row[k]
    /\ \A l \in open \cup resolved : l.rev <= row[l.row]
    /\ \A p \in Processes, k \in Rows : proc[p].pulled[k] <= row[k]

Held(k) == read[k] = row[k] \/ LetterOf(k, row[k]) \in open

\* The rows a process has been past: those of the kinds before, and of the present one up to its page.
Covered(p, k) ==
    \/ proc[p].at = "apply"
    \/ KindOf[k] < proc[p].kind
    \/ KindOf[k] = proc[p].kind /\ row[k] <= proc[p].after

PullInv(p) ==
    /\ proc[p].at = "head" => proc[p].kind = 1
    /\ proc[p].at \in {"pull", "apply"} =>
           \A k \in Rows : /\ proc[p].cursors[KindOf[k]] < row[k] /\ row[k] <= proc[p].head
                           /\ Covered(p, k)
                           => proc[p].pulled[k] = row[k]

\* What a process starts from: nothing, or cursors below which the read model holds everything.
StartInv(p) ==
    proc[p].at # "idle" =>
        IF proc[p].rebuild
        THEN \A d \in Kinds : proc[p].cursors[d] = 0
        ELSE \A k \in Rows : 0 < row[k] /\ row[k] <= proc[p].cursors[KindOf[k]] => Held(k)

Alone == \A p, o \in Processes : Rebuilding(p) /\ o # p => proc[o].at = "idle"

SyncInv ==
    /\ TypeOK /\ UpstreamInv /\ SettledInv /\ NotAhead /\ Alone /\ Complete
    /\ \A p \in Processes : PullInv(p) /\ StartInv(p)

\* A request that read the present seal has loaded the present rows.
CacheInv ==
    /\ \A e \in cache : e.seal <= seal
    /\ \A q \in Requests :
          /\ request[q].seal <= seal
          /\ request[q].at = "lookup" => request[q].kind = 1
          /\ request[q].seal = seal =>
                \A k \in Rows : \/ request[q].at = "store"
                                \/ request[q].at = "load" /\ KindOf[k] < request[q].kind
                                => request[q].got[k] = read[k]
    /\ CacheIsCurrent
=============================================================================
