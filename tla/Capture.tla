------------------------------ MODULE Capture ------------------------------
(***************************************************************************)
(* The write path of one tenant's memory (src/services/capture.ts) and the *)
(* cursor feed that reads behind it (src/services/feed.ts).                *)
(*                                                                         *)
(* A capture is one Postgres transaction (READ COMMITTED), and so is the   *)
(* replay of one raw capture into another generation.  Every statement of  *)
(* the transaction that takes a lock or reads what another transaction can *)
(* write is a step of its own; statements between which nothing observable *)
(* happens are one step.  What a transaction has written stays in `req',   *)
(* `head' and `seq' until Commit makes it visible in `rows', `docs' and    *)
(* `raw' at once.                                                          *)
(*                                                                         *)
(* A version row carries the identity of the capture that inserted it, and *)
(* a document row that of the capture that created it: each transaction    *)
(* inserts at most one of either.                                          *)
(***************************************************************************)
EXTENDS Naturals, FiniteSets

CONSTANTS Captures,   \* the capture and replay calls that are ever made
          Refs,       \* the (adapter, externalRef) pairs they are made for
          Hashes,     \* the contents, told apart by their content hash
          Times,      \* the times (occurredAt) captures are made for
          Runs,       \* the generations replays write to (transform run ids)
          Live,       \* LIVE_GENERATION
          None,       \* SQL NULL, or the absence of a row
          PageLimit   \* rows of one feed page

ASSUME CaptureAssumption ==
    /\ IsFiniteSet(Captures)
    /\ None \notin Captures \cup Refs \cup Hashes \cup Times \cup Runs
    /\ Live \notin Runs \cup {None}
    /\ PageLimit \in Nat \ {0}

VARIABLES pc,        \* where each transaction is
          req,       \* what it was asked to write
          head,      \* what it read as the current state of its document
          seq,       \* the feed_seq its insert took
          capLock,   \* who holds the advisory lock of each external ref
          feedLock,  \* who holds the tenant's feed lock
          rows,      \* memory.version, committed
          docs,      \* memory.document, committed
          raw,       \* memory.raw_capture, committed
          nextSeq,   \* the bigserial behind feed_seq
          cursor,    \* the cursor a feed consumer stored last
          seen       \* the versions that consumer was given

txVars == <<pc, req, head, seq>>
lockVars == <<capLock, feedLock>>
storeVars == <<rows, docs, raw, nextSeq>>
feedVars == <<cursor, seen>>
vars == <<pc, req, head, seq, capLock, feedLock, rows, docs, raw, nextSeq,
          cursor, seen>>

-----------------------------------------------------------------------------
(* Rows, requests and the phases of a transaction.                         *)

Generations == Runs \cup {Live}
Statuses == {"none", "active", "superseded", "deprecated", "archived",
             "tombstoned"}
RetentionClasses == {"durable", "standard", "ephemeral", "source_only"}

\* A version row; status "none" says that there is no such row.
Row == [ref: Refs \cup {None}, gen: Generations, num: Nat, status: Statuses,
        hash: Hashes \cup {None}, time: Times \cup {None}, seq: Nat,
        prev: Captures \cup {None}, text: {"clear", "redacted"}, class: RetentionClasses]

NoRow == [ref |-> None, gen |-> Live, num |-> 0, status |-> "none",
          hash |-> None, time |-> None, seq |-> 0, prev |-> None, text |-> "clear",
          class |-> "standard"]

\* The source hash covers the adapter, the time and the document with its
\* external ref: a raw capture is told apart by these three.
Payloads == Refs \X Hashes \X Times

Locked == {"locked", "same", "read", "held", "feed", "inserted"}
Open == {"raw"} \cup Locked
Ended == {"captured", "noop", "clash", "failed"}

Present(v) == rows[v].status # "none"
Payload(c) == <<req[c].ref, req[c].hash, req[c].time>>

\* The UPDATE that supersedes v has run in a transaction still open.
RowLocked(v) ==
    \E c \in Captures : head[c].base = v /\ pc[c] \in {"held", "feed", "inserted"}

Actives(r, g) ==
    {v \in Captures : rows[v].status = "active" /\ rows[v].ref = r /\ rows[v].gen = g}

Init ==
    /\ pc = [c \in Captures |-> "idle"]
    /\ req = [c \in Captures |-> [ref |-> None, gen |-> Live, hash |-> None, time |-> None, fresh |-> FALSE]]
    /\ head = [c \in Captures |-> [doc |-> None, base |-> None, num |-> 0]]
    /\ seq = [c \in Captures |-> 0]
    /\ capLock = [r \in Refs |-> None]
    /\ feedLock = None
    /\ rows = [c \in Captures |-> NoRow]
    /\ docs = [r \in Refs |-> None]
    /\ raw = [p \in Payloads |-> "absent"]
    /\ nextSeq = 1
    /\ cursor = 0
    /\ seen = {}

-----------------------------------------------------------------------------
(* The transaction, statement by statement.                                *)

\* An uncommitted raw_capture row of the same source hash blocks the INSERT.
RawInFlight(p) ==
    \E c \in Captures : pc[c] \in Open /\ req[c].fresh /\ Payload(c) = p

\* BEGIN and INSERT ... ON CONFLICT DO NOTHING: a raw capture that is already
\* there is reused as it is, redacted or not.
InsertOrReuseRawCapture(c, r, h, t) ==
    /\ pc[c] = "idle"
    /\ ~RawInFlight(<<r, h, t>>)
    /\ pc' = [pc EXCEPT ![c] = "raw"]
    /\ req' = [req EXCEPT ![c] = [ref |-> r, gen |-> Live, hash |-> h, time |-> t,
                                  fresh |-> raw[<<r, h, t>>] = "absent"]]
    /\ UNCHANGED <<head, seq, lockVars, storeVars, feedVars>>

\* A replay starts from a stored raw capture and inserts none; one whose text
\* was redacted no longer parses and opens no transaction.
DeriveFromRawCapture(c, r, h, t, g) ==
    /\ pc[c] = "idle"
    /\ raw[<<r, h, t>>] = "stored"
    /\ pc' = [pc EXCEPT ![c] = "raw"]
    /\ req' = [req EXCEPT ![c] = [ref |-> r, gen |-> g, hash |-> h, time |-> t,
                                  fresh |-> FALSE]]
    /\ UNCHANGED <<head, seq, lockVars, storeVars, feedVars>>

\* Mutant: the capture lock is not waited for.
CaptureLockIgnored(r) == TRUE

CaptureLockFree(r) == capLock[r] = None

\* pg_advisory_xact_lock on (tenant, adapter, externalRef).
LockRef(c) ==
    /\ pc[c] = "raw"
    /\ CaptureLockFree(req[c].ref)
    /\ capLock' = [capLock EXCEPT ![req[c].ref] = c]
    /\ pc' = [pc EXCEPT ![c] = "locked"]
    /\ UNCHANGED <<req, head, seq, feedLock, storeVars, feedVars>>

\* (activeVersion?.version ?? 0) + 1: with no active version, 1.
NextNumber(b) == IF b = None THEN 1 ELSE rows[b].num + 1

\* Mutant: a content already active is written again.
NeverSameContent(b, h) == FALSE

SameContent(b, h) == b # None /\ rows[b].hash = h

\* The document and its active version of the highest number, in this
\* generation only.
ReadHead(c) ==
    /\ pc[c] = "locked"
    /\ LET A == Actives(req[c].ref, req[c].gen)
       IN \E b \in A \cup {None} :
            /\ b = None <=> A = {}
            /\ \A a \in A : rows[a].num <= rows[b].num
            /\ head' = [head EXCEPT ![c] = [doc |-> docs[req[c].ref], base |-> b,
                                            num |-> NextNumber(b)]]
            /\ pc' = [pc EXCEPT ![c] =
                        IF SameContent(b, req[c].hash) THEN "same" ELSE "read"]
    /\ UNCHANGED <<req, seq, lockVars, storeVars, feedVars>>

\* UPDATE ... SET status = 'superseded' WHERE id = base: the row is locked, and
\* the new status is seen by others at Commit.
Supersede(c) ==
    /\ pc[c] = "read"
    /\ head[c].base # None
    /\ pc' = [pc EXCEPT ![c] = "held"]
    /\ UNCHANGED <<req, head, seq, lockVars, storeVars, feedVars>>

ReadyToInsert(c) ==
    \/ pc[c] = "held"
    \/ pc[c] = "read" /\ head[c].base = None

\* Mutant: the feed lock is not waited for.
FeedLockIgnored == TRUE

FeedLockFree == feedLock = None

\* The per-tenant feed lock, for the live generation only.
LockFeed(c) ==
    /\ ReadyToInsert(c)
    /\ req[c].gen = Live
    /\ FeedLockFree
    /\ feedLock' = c
    /\ pc' = [pc EXCEPT ![c] = "feed"]
    /\ UNCHANGED <<req, head, seq, capLock, storeVars, feedVars>>

\* The version row may go in: a live one under the feed lock, a replayed one
\* without it.
AtInsert(c) ==
    IF req[c].gen = Live THEN pc[c] = "feed" ELSE ReadyToInsert(c)

\* version_document_generation_version_uniq.
NumberTaken(c) ==
    \E v \in Captures :
        /\ Present(v)
        /\ rows[v].ref = req[c].ref
        /\ rows[v].gen = req[c].gen
        /\ rows[v].num = head[c].num

\* Mutant: there are no foreign keys.
KeysUnchecked(c) == TRUE

\* The foreign keys of the row: the document read (or inserted by this very
\* transaction) and the raw capture must still be there.
KeysPresent(c) ==
    /\ head[c].doc = docs[req[c].ref]
    /\ req[c].fresh \/ raw[Payload(c)] # "absent"

\* Insert of the (document and the) version, the chunks and the graph rows.
\* nextval is taken when the INSERT runs.
InsertVersion(c) ==
    /\ AtInsert(c)
    /\ KeysPresent(c)
    /\ ~NumberTaken(c)
    /\ seq' = [seq EXCEPT ![c] = nextSeq]
    /\ nextSeq' = nextSeq + 1
    /\ pc' = [pc EXCEPT ![c] = "inserted"]
    /\ UNCHANGED <<req, head, lockVars, rows, docs, raw, feedVars>>

-----------------------------------------------------------------------------
(* The ends of a transaction.                                              *)

ReleaseLocks(c) ==
    /\ capLock' = [r \in Refs |-> IF capLock[r] = c THEN None ELSE capLock[r]]
    /\ feedLock' = IF feedLock = c THEN None ELSE feedLock

\* The raw capture a transaction inserted becomes visible when it commits.
StoreRaw(c) ==
    raw' = IF req[c].fresh THEN [raw EXCEPT ![Payload(c)] = "stored"] ELSE raw

NewRow(c) ==
    [ref |-> req[c].ref, gen |-> req[c].gen, num |-> head[c].num,
     status |-> "active", hash |-> req[c].hash, time |-> req[c].time, seq |-> seq[c],
     prev |-> head[c].base, text |-> "clear", class |-> "standard"]

\* Mutant: the version that was active stays active.
PublishKeepingBase(c) == [rows EXCEPT ![c] = NewRow(c)]

\* What the transaction wrote to memory.version.
Publish(c) ==
    [v \in Captures |->
        IF v = c THEN NewRow(c)
        ELSE IF v = head[c].base THEN [rows[v] EXCEPT !.status = "superseded"]
        ELSE rows[v]]

Commit(c) ==
    /\ pc[c] = "inserted"
    /\ rows' = Publish(c)
    /\ docs' = [docs EXCEPT ![req[c].ref] = IF head[c].doc = None THEN c ELSE @]
    /\ StoreRaw(c)
    /\ ReleaseLocks(c)
    /\ pc' = [pc EXCEPT ![c] = "captured"]
    /\ UNCHANGED <<req, head, seq, nextSeq, feedVars>>

\* The content is that of the active version: only last_seen_at is written.
CommitNoop(c) ==
    /\ pc[c] = "same"
    /\ StoreRaw(c)
    /\ ReleaseLocks(c)
    /\ pc' = [pc EXCEPT ![c] = "noop"]
    /\ UNCHANGED <<req, head, seq, rows, docs, nextSeq, feedVars>>

RollBack(c, end) ==
    /\ pc' = [pc EXCEPT ![c] = end]
    /\ ReleaseLocks(c)
    /\ UNCHANGED <<req, head, seq, rows, docs, raw, feedVars>>

\* The INSERT fails on the unique index; its nextval is spent all the same.
VersionClash(c) ==
    /\ AtInsert(c)
    /\ KeysPresent(c)
    /\ NumberTaken(c)
    /\ nextSeq' = nextSeq + 1
    /\ RollBack(c, "clash")

\* The INSERT fails on a foreign key.
KeyMissing(c) ==
    /\ AtInsert(c)
    /\ ~KeysPresent(c)
    /\ nextSeq' = nextSeq + 1
    /\ RollBack(c, "failed")

\* The INSERT, as the unique index and the foreign keys let it end.
Insert(c) ==
    /\ AtInsert(c)
    /\ IF ~KeysPresent(c) THEN KeyMissing(c)
       ELSE IF NumberTaken(c) THEN VersionClash(c)
       ELSE InsertVersion(c)

\* A statement fails, the connection is lost or the process dies: Postgres
\* rolls the transaction back and drops its locks.
Abort(c) ==
    /\ pc[c] \in Open
    /\ UNCHANGED nextSeq
    /\ RollBack(c, "failed")

-----------------------------------------------------------------------------
(* The feed.                                                               *)

\* Mutant: a superseded version leaves the feed.
FeedVisibleActive(v) == rows[v].gen = Live /\ rows[v].status = "active"

\* Live generation; active or superseded.
FeedVisible(v) ==
    /\ rows[v].gen = Live
    /\ rows[v].status \in {"active", "superseded"}

FeedAfter(n) == {v \in Captures : FeedVisible(v) /\ rows[v].seq > n}

\* fetchFeed reads one page in feed_seq order; the consumer stores the last
\* feed_seq of the page as its next cursor.
Poll ==
    \E last \in FeedAfter(cursor) :
        LET page == {v \in FeedAfter(cursor) : rows[v].seq <= rows[last].seq}
        IN /\ Cardinality(page) <= PageLimit
           /\ page # FeedAfter(cursor) => Cardinality(page) = PageLimit
           /\ seen' = seen \cup page
           /\ cursor' = rows[last].seq
           /\ UNCHANGED <<txVars, lockVars, storeVars>>

-----------------------------------------------------------------------------

\* What the server does by itself once a call is made.
Advance(c) ==
    \/ LockRef(c)
    \/ ReadHead(c)
    \/ Supersede(c)
    \/ LockFeed(c)
    \/ Insert(c)
    \/ Commit(c)
    \/ CommitNoop(c)

Next ==
    \/ \E c \in Captures :
        \/ \E r \in Refs, h \in Hashes, t \in Times :
             \/ InsertOrReuseRawCapture(c, r, h, t)
             \/ \E g \in Runs : DeriveFromRawCapture(c, r, h, t, g)
        \/ Advance(c)
        \/ Abort(c)
    \/ Poll

Spec == Init /\ [][Next]_vars

\* Postgres runs every transaction it has begun to an end and grants a lock
\* that is free; the consumer polls again and again.
Fairness == WF_vars(Poll) /\ \A c \in Captures : WF_vars(Advance(c))

FairSpec == Spec /\ Fairness

-----------------------------------------------------------------------------
(* Properties.                                                             *)

\* The shape of every variable.
TypeOK ==
    /\ pc \in [Captures -> {"idle"} \cup Open \cup Ended]
    /\ req \in [Captures -> [ref: Refs \cup {None}, gen: Generations,
                             hash: Hashes \cup {None}, time: Times \cup {None},
                             fresh: BOOLEAN]]
    /\ \A c \in Captures :
         pc[c] # "idle" =>
           req[c].ref \in Refs /\ req[c].hash \in Hashes /\ req[c].time \in Times
    /\ head \in [Captures -> [doc: Captures \cup {None},
                              base: Captures \cup {None}, num: Nat]]
    /\ seq \in [Captures -> Nat]
    /\ capLock \in [Refs -> Captures \cup {None}]
    /\ feedLock \in Captures \cup {None}
    /\ rows \in [Captures -> Row]
    /\ docs \in [Refs -> Captures \cup {None}]
    /\ raw \in [Payloads -> {"absent", "stored", "redacted"}]
    /\ nextSeq \in Nat \ {0}
    /\ cursor \in Nat
    /\ seen \in SUBSET Captures

\* A document has at most one active version per generation: search, which
\* joins on the active status, would otherwise answer with two contents for
\* one document.
OneActive ==
    \A v, w \in Captures :
        /\ rows[v].status = "active"
        /\ rows[w].status = "active"
        /\ rows[v].ref = rows[w].ref
        /\ rows[v].gen = rows[w].gen
        => v = w

\* Every variable has its shape, and no document has two active versions.
CaptureInv == TypeOK /\ OneActive

\* Parallel captures of one external ref never collide on a version number
\* (the comment on the capture lock in deriveVersionInTransaction), so that no
\* caller sees a unique violation.
NoVersionClash == \A c \in Captures : pc[c] # "clash"

\* A stored cursor never passes a live version that is, or will become,
\* visible: every visible version at or before it was given to the consumer
\* (docs/FEED.md, "Pull").
CursorSafe ==
    \A v \in Captures :
        FeedVisible(v) /\ rows[v].seq <= cursor => v \in seen

\* The feed as a log: see FeedLog.
Log == INSTANCE FeedLog WITH
    log <- {rows[v].seq : v \in {w \in Captures : FeedVisible(w)}},
    given <- {rows[v].seq : v \in seen}

LogSpec == Log!Spec

\* The contents of each document, in version order: see DocumentHistory.
HistoryOf ==
    [k \in Refs \X Generations |->
        LET line == {v \in Captures : Present(v) /\ <<rows[v].ref, rows[v].gen>> = k}
        IN [i \in 1..Cardinality(line) |->
              rows[CHOOSE v \in line : rows[v].num = i].hash]]

History == INSTANCE DocumentHistory WITH history <- HistoryOf

HistorySpec == History!Spec

\* Every live version that commits is given to the feed's consumer.
EveryVersionDelivered == \A c \in Captures : FeedVisible(c) ~> c \in seen

-----------------------------------------------------------------------------
(* The inductive strengthening of OneActive, NoVersionClash and CursorSafe. *)

PastRead == {"same", "read", "held", "feed", "inserted"}

SameLine(c, v) == rows[v].ref = req[c].ref /\ rows[v].gen = req[c].gen

\* A transaction past a lock holds it, and it knows what it writes.
HoldsLocks ==
    \A c \in Captures :
        /\ pc[c] \in Locked => capLock[req[c].ref] = c
        /\ pc[c] = "feed" => req[c].gen = Live
        /\ pc[c] \in {"feed", "inserted"} /\ req[c].gen = Live => feedLock = c

\* Only what has committed is in the tables.
OnlyCommittedPresent ==
    \A c \in Captures : Present(c) => pc[c] = "captured" /\ rows[c].ref \in Refs

\* What a transaction read as the head of its document is still its head.
HeadIsCurrent ==
    \A c \in Captures : pc[c] \in PastRead =>
        /\ head[c].base # None =>
             rows[head[c].base].status = "active" /\ SameLine(c, head[c].base)
        /\ \A v \in Captures : Present(v) /\ SameLine(c, v) =>
             /\ rows[v].num < head[c].num
             /\ rows[v].status = "active" => v = head[c].base

\* The active version of a document is its highest.
ActiveIsTop ==
    \A v \in Captures : Present(v) =>
        \E w \in Captures :
            /\ rows[w].status = "active"
            /\ rows[w].ref = rows[v].ref
            /\ rows[w].gen = rows[v].gen
            /\ rows[v].num <= rows[w].num

\* A live version about to commit is behind every visible one and behind the
\* cursor.
FeedOrder ==
    /\ cursor < nextSeq
    /\ \A v \in Captures : rows[v].seq < nextSeq /\ seq[v] < nextSeq
    /\ \A c \in Captures : pc[c] = "inserted" /\ req[c].gen = Live =>
         /\ cursor < seq[c]
         /\ \A v \in Captures : FeedVisible(v) => rows[v].seq < seq[c]

IInv ==
    /\ TypeOK
    /\ HoldsLocks
    /\ OnlyCommittedPresent
    /\ HeadIsCurrent
    /\ ActiveIsTop
    /\ FeedOrder
    /\ OneActive
    /\ NoVersionClash
    /\ CursorSafe
=============================================================================
