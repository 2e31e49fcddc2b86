--------------------------- MODULE CaptureProofs ---------------------------
(***************************************************************************)
(* Theorems about Capture, for any number of captures, documents, contents *)
(* and generations and any page size.                                      *)
(***************************************************************************)
EXTENDS Capture, Sequences, FiniteSetTheorems, TLAPS

LEMMA InitType == Init => TypeOK
<1> USE CaptureAssumption
<1> QED
  BY DEF Init, TypeOK, NoRow, Row, Statuses, RetentionClasses, Generations

LEMMA ReleaseType ==
    ASSUME TypeOK, NEW c \in Captures, ReleaseLocks(c)
    PROVE  /\ capLock' \in [Refs -> Captures \cup {None}]
           /\ feedLock' \in Captures \cup {None}
  BY DEF ReleaseLocks, TypeOK

LEMMA RawType ==
    ASSUME TypeOK, NEW c \in Captures, StoreRaw(c)
    PROVE  raw' \in [Payloads -> {"absent", "stored", "redacted"}]
  BY DEF StoreRaw, TypeOK

LEMMA NewRowType ==
    ASSUME TypeOK, NEW c \in Captures
    PROVE  NewRow(c) \in Row
  BY DEF NewRow, TypeOK, Row, Statuses, RetentionClasses, Generations

LEMMA PublishType ==
    ASSUME TypeOK, NEW c \in Captures
    PROVE  Publish(c) \in [Captures -> Row]
<1> SUFFICES ASSUME NEW v \in Captures
             PROVE  Publish(c)[v] \in Row
  BY DEF Publish
<1>1. CASE v = c
  BY <1>1, NewRowType DEF Publish
<1>2. CASE v # c /\ v = head[c].base
  <2>1. rows[v] \in Row
    BY DEF TypeOK
  <2>2. [rows[v] EXCEPT !.status = "superseded"] \in Row
    BY <2>1 DEF Row, Statuses
  <2> QED
    BY <1>2, <2>2 DEF Publish
<1>3. CASE v # c /\ v # head[c].base
  BY <1>3 DEF Publish, TypeOK
<1> QED
  BY <1>1, <1>2, <1>3

LEMMA NextType == TypeOK /\ [Next]_vars => TypeOK'
<1> SUFFICES ASSUME TypeOK, [Next]_vars
             PROVE  TypeOK'
  OBVIOUS
<1> USE CaptureAssumption
<1>1. ASSUME NEW c \in Captures, NEW r \in Refs, NEW h \in Hashes, NEW t \in Times,
             InsertOrReuseRawCapture(c, r, h, t)
      PROVE  TypeOK'
  BY <1>1 DEF InsertOrReuseRawCapture, TypeOK, Open, Ended, Locked, Generations,
              lockVars, storeVars, feedVars
<1>2. ASSUME NEW c \in Captures, NEW r \in Refs, NEW h \in Hashes, NEW t \in Times, NEW g \in Runs,
             DeriveFromRawCapture(c, r, h, t, g)
      PROVE  TypeOK'
  BY <1>2 DEF DeriveFromRawCapture, TypeOK, Open, Ended, Locked, Generations,
              lockVars, storeVars, feedVars
<1>3. ASSUME NEW c \in Captures, LockRef(c)
      PROVE  TypeOK'
  BY <1>3 DEF LockRef, TypeOK, Open, Ended, Locked, storeVars, feedVars
<1>4. ASSUME NEW c \in Captures, ReadHead(c)
      PROVE  TypeOK'
  <2>1. PICK b \in Actives(req[c].ref, req[c].gen) \cup {None} :
          /\ head' = [head EXCEPT ![c] = [doc |-> docs[req[c].ref], base |-> b,
                                          num |-> NextNumber(b)]]
          /\ pc' = [pc EXCEPT ![c] =
                      IF SameContent(b, req[c].hash) THEN "same" ELSE "read"]
    BY <1>4 DEF ReadHead
  <2>2. b \in Captures \cup {None}
    BY DEF Actives
  <2>3. NextNumber(b) \in Nat
    BY <2>2 DEF NextNumber, TypeOK, Row
  <2>4. req[c].ref \in Refs
    BY <1>4 DEF ReadHead, TypeOK
  <2> QED
    BY <1>4, <2>1, <2>2, <2>3, <2>4 DEF ReadHead, TypeOK, Open, Ended, Locked,
       lockVars, storeVars, feedVars
<1>5. ASSUME NEW c \in Captures, Supersede(c)
      PROVE  TypeOK'
  BY <1>5 DEF Supersede, TypeOK, Open, Ended, Locked, lockVars, storeVars, feedVars
<1>6. ASSUME NEW c \in Captures, LockFeed(c)
      PROVE  TypeOK'
  BY <1>6 DEF LockFeed, ReadyToInsert, TypeOK, Open, Ended, Locked, storeVars, feedVars
<1>7. ASSUME NEW c \in Captures, InsertVersion(c)
      PROVE  TypeOK'
  BY <1>7 DEF InsertVersion, AtInsert, ReadyToInsert, TypeOK, Open, Ended, Locked, lockVars, feedVars
<1>8. ASSUME NEW c \in Captures, Commit(c)
      PROVE  TypeOK'
  BY <1>8, ReleaseType, RawType, PublishType
     DEF Commit, TypeOK, Open, Ended, Locked, feedVars
<1>9. ASSUME NEW c \in Captures, CommitNoop(c)
      PROVE  TypeOK'
  BY <1>9, ReleaseType, RawType DEF CommitNoop, TypeOK, Ended, feedVars
<1>10. ASSUME NEW c \in Captures, VersionClash(c)
       PROVE  TypeOK'
  BY <1>10, ReleaseType DEF VersionClash, AtInsert, ReadyToInsert, RollBack,
     TypeOK, Ended, feedVars
<1>11. ASSUME NEW c \in Captures, KeyMissing(c)
       PROVE  TypeOK'
  BY <1>11, ReleaseType DEF KeyMissing, AtInsert, ReadyToInsert, RollBack,
     TypeOK, Ended, feedVars
<1>12. ASSUME NEW c \in Captures, Abort(c)
       PROVE  TypeOK'
  BY <1>12, ReleaseType DEF Abort, RollBack, TypeOK, Open, Locked, Ended, feedVars
<1>13. ASSUME Poll
       PROVE  TypeOK'
  BY <1>13 DEF Poll, FeedAfter, TypeOK, Row, txVars, lockVars, storeVars
<1>14. CASE UNCHANGED vars
  BY <1>14 DEF vars, TypeOK
<1> QED
  BY <1>1, <1>2, <1>3, <1>4, <1>5, <1>6, <1>7, <1>8, <1>9, <1>10, <1>11, <1>12,
     <1>13, <1>14 DEF Next, Advance, Insert

\* Type correctness: every variable keeps its shape, whatever the captures.
THEOREM TypeCorrect == Spec => []TypeOK
  BY InitType, NextType, PTL DEF Spec

-----------------------------------------------------------------------------
(* The inductive invariant.                                                *)

LEMMA InitIInv == Init => IInv
<1> SUFFICES ASSUME Init PROVE IInv
  OBVIOUS
<1> USE CaptureAssumption
<1>1. TypeOK
  BY InitType
<1>2. \A c \in Captures : pc[c] = "idle" /\ ~Present(c) /\ rows[c].seq = 0 /\ seq[c] = 0
  BY DEF Init, Present, NoRow
<1>3. HoldsLocks
  BY <1>2 DEF HoldsLocks, Locked
<1>4. OnlyCommittedPresent /\ ActiveIsTop /\ NoVersionClash
  BY <1>2 DEF OnlyCommittedPresent, ActiveIsTop, NoVersionClash
<1>5. HeadIsCurrent
  BY <1>2 DEF HeadIsCurrent, PastRead
<1>6. FeedOrder
  BY <1>2 DEF FeedOrder, Init
<1>7. OneActive /\ CursorSafe
  BY <1>2 DEF OneActive, CursorSafe, FeedVisible, Present
<1> QED
  BY <1>1, <1>3, <1>4, <1>5, <1>6, <1>7 DEF IInv

\* What a step that leaves the version table alone cannot disturb.
LEMMA RowsKept ==
    ASSUME IInv, UNCHANGED <<rows, cursor, seen>>
    PROVE  ActiveIsTop' /\ OneActive' /\ CursorSafe'
  BY DEF IInv, ActiveIsTop, OneActive, CursorSafe, Present, FeedVisible

\* A transaction that ends without writing a version disturbs nobody.
LEMMA RollBackKeeps ==
    ASSUME IInv, NEW c \in Captures, NEW end, end \in Ended \ {"clash"},
           pc[c] \in Open, pc' = [pc EXCEPT ![c] = end], ReleaseLocks(c),
           UNCHANGED <<req, head, seq, rows, cursor, seen>>,
           nextSeq' \in {nextSeq, nextSeq + 1}
    PROVE  /\ HoldsLocks'
           /\ OnlyCommittedPresent'
           /\ HeadIsCurrent'
           /\ FeedOrder'
           /\ NoVersionClash'
<1> USE DEF Open, Locked, Ended
<1>1. \A d \in Captures : d # c => pc'[d] = pc[d]
  BY DEF IInv, TypeOK
<1>2. pc'[c] = end
  BY DEF IInv, TypeOK
<1>3. HoldsLocks'
  BY <1>1, <1>2, CaptureAssumption DEF IInv, TypeOK, HoldsLocks, ReleaseLocks
<1>4. OnlyCommittedPresent'
  BY <1>1, <1>2 DEF IInv, OnlyCommittedPresent, Present
<1>5. HeadIsCurrent'
  BY <1>1, <1>2 DEF IInv, HeadIsCurrent, PastRead, Present, SameLine
<1>6. FeedOrder'
  BY <1>1, <1>2 DEF IInv, TypeOK, FeedOrder, FeedVisible, Row
<1>7. NoVersionClash'
  BY <1>1, <1>2 DEF IInv, NoVersionClash
<1> QED
  BY <1>3, <1>4, <1>5, <1>6, <1>7

\* Begun transactions hold no lock and have read nothing.
LEMMA BeginKeeps ==
    ASSUME IInv, NEW c \in Captures, pc[c] = "idle",
           pc' = [pc EXCEPT ![c] = "raw"], NEW q, req' = [req EXCEPT ![c] = q],
           UNCHANGED <<head, seq, lockVars, storeVars, feedVars>>, TypeOK'
    PROVE  IInv'
<1> USE DEF Open, Locked, lockVars, storeVars, feedVars
<1>1. \A d \in Captures : d # c => pc'[d] = pc[d] /\ req'[d] = req[d]
  BY DEF IInv, TypeOK
<1>2. pc'[c] = "raw"
  BY DEF IInv, TypeOK
<1>3. HoldsLocks'
  BY <1>1, <1>2 DEF IInv, HoldsLocks
<1>4. OnlyCommittedPresent'
  BY <1>1, <1>2 DEF IInv, OnlyCommittedPresent, Present
<1>5. HeadIsCurrent'
  BY <1>1, <1>2 DEF IInv, HeadIsCurrent, PastRead, Present, SameLine
<1>6. FeedOrder'
  BY <1>1, <1>2 DEF IInv, FeedOrder, FeedVisible
<1>7. NoVersionClash'
  BY <1>1, <1>2 DEF IInv, NoVersionClash
<1> QED
  BY <1>3, <1>4, <1>5, <1>6, <1>7, RowsKept DEF IInv

\* A step of one transaction, inside its locks, that writes no row yet.
LEMMA LockRefKeeps ==
    ASSUME IInv, TypeOK', NEW c \in Captures, LockRef(c)
    PROVE  IInv'
<1> USE CaptureAssumption DEF Open, Locked, LockRef, CaptureLockFree, storeVars, feedVars
<1>1. \A d \in Captures : d # c => pc'[d] = pc[d]
  BY DEF IInv, TypeOK
<1>2. pc'[c] = "locked"
  BY DEF IInv, TypeOK
<1>3. HoldsLocks'
  BY <1>1, <1>2 DEF IInv, TypeOK, HoldsLocks
<1>4. OnlyCommittedPresent'
  BY <1>1, <1>2 DEF IInv, OnlyCommittedPresent, Present
<1>5. HeadIsCurrent'
  BY <1>1, <1>2 DEF IInv, HeadIsCurrent, PastRead, Present, SameLine
<1>6. FeedOrder'
  BY <1>1, <1>2 DEF IInv, FeedOrder, FeedVisible
<1>7. NoVersionClash'
  BY <1>1, <1>2 DEF IInv, NoVersionClash
<1> QED
  BY <1>3, <1>4, <1>5, <1>6, <1>7, RowsKept DEF IInv

LEMMA ReadHeadKeeps ==
    ASSUME IInv, TypeOK', NEW c \in Captures, ReadHead(c)
    PROVE  IInv'
<1> USE CaptureAssumption DEF Open, Locked, lockVars, storeVars, feedVars
<1> DEFINE A == Actives(req[c].ref, req[c].gen)
<1>1. PICK b \in A \cup {None} :
          /\ b = None <=> A = {}
          /\ \A a \in A : rows[a].num <= rows[b].num
          /\ head' = [head EXCEPT ![c] = [doc |-> docs[req[c].ref], base |-> b,
                                          num |-> NextNumber(b)]]
          /\ pc' = [pc EXCEPT ![c] =
                      IF SameContent(b, req[c].hash) THEN "same" ELSE "read"]
  BY DEF ReadHead
<1>2. /\ pc[c] = "locked"
      /\ UNCHANGED <<req, seq, capLock, feedLock, rows, docs, raw, nextSeq, cursor, seen>>
  BY DEF ReadHead
<1>3. \A d \in Captures : d # c => pc'[d] = pc[d] /\ head'[d] = head[d]
  BY <1>1 DEF IInv, TypeOK
<1>4. pc'[c] \in {"same", "read"}
  BY <1>1 DEF IInv, TypeOK
<1>5. head'[c].base = b /\ head'[c].num = NextNumber(b)
  BY <1>1 DEF IInv, TypeOK
<1>6. HoldsLocks'
  BY <1>2, <1>3, <1>4 DEF IInv, HoldsLocks
<1>7. OnlyCommittedPresent'
  BY <1>2, <1>3, <1>4 DEF IInv, OnlyCommittedPresent, Present
<1>8. HeadIsCurrent'
  <2>1. ASSUME NEW v \in Captures, Present(v), SameLine(c, v)
        PROVE  /\ rows[v].num < NextNumber(b)
               /\ rows[v].status = "active" => v = b
    <3>1. PICK w \in Captures : /\ w \in A
                                /\ rows[v].num <= rows[w].num
      BY <2>1 DEF IInv, ActiveIsTop, Actives, SameLine
    <3>2. b # None /\ b \in A
      BY <1>1, <3>1
    <3>3. b = w
      BY <3>1, <3>2 DEF IInv, OneActive, Actives
    <3>4. rows[v].num \in Nat /\ rows[b].num \in Nat
      BY <3>1, <3>3 DEF IInv, TypeOK, Row
    <3>5. rows[v].status = "active" => v = b
      BY <2>1, <3>2 DEF IInv, OneActive, Actives, SameLine
    <3> QED
      BY <3>1, <3>2, <3>3, <3>4, <3>5 DEF NextNumber
  <2>2. b # None => rows[b].status = "active" /\ SameLine(c, b)
    BY <1>1 DEF Actives, SameLine
  <2>3. ASSUME NEW d \in Captures, d # c, pc'[d] \in PastRead
        PROVE  /\ head'[d].base # None =>
                    rows'[head'[d].base].status = "active" /\ SameLine(d, head[d].base)'
               /\ \A v \in Captures : Present(v)' /\ SameLine(d, v)' =>
                    /\ rows'[v].num < head'[d].num
                    /\ rows'[v].status = "active" => v = head'[d].base
    BY <1>2, <1>3, <2>3 DEF IInv, HeadIsCurrent, Present, SameLine
  <2>4. \A v \in Captures : /\ Present(v)' <=> Present(v)
                            /\ SameLine(c, v)' <=> SameLine(c, v)
    BY <1>2 DEF Present, SameLine
  <2>5. b # None => (SameLine(c, b)' <=> SameLine(c, b))
    BY <1>2 DEF SameLine
  <2> QED
    BY <1>2, <1>5, <2>1, <2>2, <2>3, <2>4, <2>5 DEF HeadIsCurrent, SameLine
<1>9. FeedOrder'
  BY <1>2, <1>3, <1>4 DEF IInv, FeedOrder, FeedVisible
<1>10. NoVersionClash'
  BY <1>3, <1>4 DEF IInv, NoVersionClash
<1> QED
  BY <1>2, <1>6, <1>7, <1>8, <1>9, <1>10, RowsKept DEF IInv

LEMMA SupersedeKeeps ==
    ASSUME IInv, TypeOK', NEW c \in Captures, Supersede(c)
    PROVE  IInv'
<1> USE DEF Open, Locked, Supersede, lockVars, storeVars, feedVars
<1>1. \A d \in Captures : d # c => pc'[d] = pc[d]
  BY DEF IInv, TypeOK
<1>2. pc'[c] = "held"
  BY DEF IInv, TypeOK
<1>3. HoldsLocks'
  BY <1>1, <1>2 DEF IInv, HoldsLocks
<1>4. OnlyCommittedPresent'
  BY <1>1, <1>2 DEF IInv, OnlyCommittedPresent, Present
<1>5. HeadIsCurrent'
  BY <1>1, <1>2 DEF IInv, HeadIsCurrent, PastRead, Present, SameLine
<1>6. FeedOrder'
  BY <1>1, <1>2 DEF IInv, FeedOrder, FeedVisible
<1>7. NoVersionClash'
  BY <1>1, <1>2 DEF IInv, NoVersionClash
<1> QED
  BY <1>3, <1>4, <1>5, <1>6, <1>7, RowsKept DEF IInv

LEMMA LockFeedKeeps ==
    ASSUME IInv, TypeOK', NEW c \in Captures, LockFeed(c)
    PROVE  IInv'
<1> USE CaptureAssumption
    DEF Open, Locked, LockFeed, ReadyToInsert, FeedLockFree, storeVars, feedVars
<1>1. \A d \in Captures : d # c => pc'[d] = pc[d]
  BY DEF IInv, TypeOK
<1>2. pc'[c] = "feed"
  BY DEF IInv, TypeOK
<1>3. HoldsLocks'
  BY <1>1, <1>2 DEF IInv, TypeOK, HoldsLocks
<1>4. OnlyCommittedPresent'
  BY <1>1, <1>2 DEF IInv, OnlyCommittedPresent, Present
<1>5. HeadIsCurrent'
  BY <1>1, <1>2 DEF IInv, HeadIsCurrent, PastRead, Present, SameLine
<1>6. FeedOrder'
  BY <1>1, <1>2 DEF IInv, FeedOrder, FeedVisible
<1>7. NoVersionClash'
  BY <1>1, <1>2 DEF IInv, NoVersionClash
<1> QED
  BY <1>3, <1>4, <1>5, <1>6, <1>7, RowsKept DEF IInv

\* The feed_seq taken under the feed lock is above every visible one.
LEMMA InsertVersionKeeps ==
    ASSUME IInv, TypeOK', NEW c \in Captures, InsertVersion(c)
    PROVE  IInv'
<1> USE CaptureAssumption
    DEF Open, Locked, InsertVersion, AtInsert, ReadyToInsert, lockVars, feedVars
<1>1. \A d \in Captures : d # c => pc'[d] = pc[d] /\ seq'[d] = seq[d]
  BY DEF IInv, TypeOK
<1>2. pc'[c] = "inserted" /\ seq'[c] = nextSeq
  BY DEF IInv, TypeOK
<1>3. HoldsLocks'
  BY <1>1, <1>2 DEF IInv, TypeOK, HoldsLocks
<1>4. OnlyCommittedPresent'
  BY <1>1, <1>2 DEF IInv, OnlyCommittedPresent, Present
<1>5. HeadIsCurrent'
  BY <1>1, <1>2 DEF IInv, HeadIsCurrent, PastRead, Present, SameLine
<1>6. FeedOrder'
  BY <1>1, <1>2 DEF IInv, TypeOK, Row, FeedOrder, FeedVisible
<1>7. NoVersionClash'
  BY <1>1, <1>2 DEF IInv, NoVersionClash
<1> QED
  BY <1>3, <1>4, <1>5, <1>6, <1>7, RowsKept DEF IInv

\* What a commit does to the version table.
LEMMA CommitRows ==
    ASSUME IInv, NEW c \in Captures, Commit(c)
    PROVE  /\ ~Present(c)
           /\ \A v \in Captures : v # c =>
                /\ rows'[v].ref = rows[v].ref
                /\ rows'[v].gen = rows[v].gen
                /\ rows'[v].num = rows[v].num
                /\ rows'[v].seq = rows[v].seq
                /\ Present(v)' <=> Present(v)
                /\ FeedVisible(v)' <=> FeedVisible(v)
                /\ rows'[v].status = "active" <=>
                     rows[v].status = "active" /\ v # head[c].base
           /\ rows'[c].ref = req[c].ref
           /\ rows'[c].gen = req[c].gen
           /\ rows'[c].num = head[c].num
           /\ rows'[c].seq = seq[c]
           /\ rows'[c].status = "active"
<1>1. pc[c] = "inserted" /\ rows' = Publish(c)
  BY DEF Commit
<1>2. rows'[c] = NewRow(c)
  BY <1>1 DEF Publish
<1>3. \A v \in Captures : v # c /\ v # head[c].base => rows'[v] = rows[v]
  BY <1>1 DEF Publish
<1>4. ~Present(c)
  BY <1>1 DEF IInv, OnlyCommittedPresent
<1>5. ASSUME NEW v \in Captures, v # c, v = head[c].base
      PROVE  /\ rows[v].status = "active"
             /\ rows'[v].status = "superseded"
             /\ rows'[v].ref = rows[v].ref
             /\ rows'[v].gen = rows[v].gen
             /\ rows'[v].num = rows[v].num
             /\ rows'[v].seq = rows[v].seq
  <2>1. rows[v].status = "active"
    BY <1>1, <1>5, CaptureAssumption DEF IInv, HeadIsCurrent, PastRead
  <2>2. rows'[v] = [rows[v] EXCEPT !.status = "superseded"]
    BY <1>1, <1>5 DEF Publish
  <2>3. rows[v] \in Row
    BY DEF IInv, TypeOK
  <2> QED
    BY <2>1, <2>2, <2>3 DEF Row
<1>6. \A v \in Captures : v # c =>
        /\ rows'[v].ref = rows[v].ref
        /\ rows'[v].gen = rows[v].gen
        /\ rows'[v].num = rows[v].num
        /\ rows'[v].seq = rows[v].seq
        /\ Present(v)' <=> Present(v)
        /\ FeedVisible(v)' <=> FeedVisible(v)
        /\ rows'[v].status = "active" <=>
             rows[v].status = "active" /\ v # head[c].base
  BY <1>3, <1>5 DEF Present, FeedVisible
<1> QED
  BY <1>2, <1>4, <1>6 DEF NewRow

\* The new version takes the place of the one it supersedes: nobody else's
\* document is touched, and no visible version is behind it.
LEMMA CommitKeeps ==
    ASSUME IInv, TypeOK', NEW c \in Captures, Commit(c)
    PROVE  IInv'
<1> USE CaptureAssumption DEF Open, Locked, feedVars
<1>1. /\ pc[c] = "inserted"
      /\ UNCHANGED <<req, head, seq, nextSeq, cursor, seen>>
      /\ ReleaseLocks(c)
  BY DEF Commit
<1>2. /\ \A d \in Captures : d # c => pc'[d] = pc[d]
      /\ pc'[c] = "captured"
  BY DEF Commit, IInv, TypeOK
<1>3. ~Present(c)
  BY CommitRows
<1>4. \A v \in Captures : v # c =>
        /\ rows'[v].ref = rows[v].ref
        /\ rows'[v].gen = rows[v].gen
        /\ rows'[v].num = rows[v].num
        /\ rows'[v].seq = rows[v].seq
        /\ Present(v)' <=> Present(v)
        /\ FeedVisible(v)' <=> FeedVisible(v)
        /\ rows'[v].status = "active" <=>
             rows[v].status = "active" /\ v # head[c].base
  BY CommitRows
<1>5. /\ rows'[c].ref = req[c].ref
      /\ rows'[c].gen = req[c].gen
      /\ rows'[c].num = head[c].num
      /\ rows'[c].seq = seq[c]
      /\ rows'[c].status = "active"
  BY CommitRows
<1>6. head[c].base # None => SameLine(c, head[c].base)
  BY <1>1 DEF IInv, HeadIsCurrent, PastRead
<1>7. HoldsLocks'
  BY <1>1, <1>2 DEF IInv, TypeOK, HoldsLocks, ReleaseLocks
<1>8. OnlyCommittedPresent'
  BY <1>1, <1>2, <1>4, <1>5 DEF IInv, TypeOK, OnlyCommittedPresent
<1>9. HeadIsCurrent'
  <2> SUFFICES ASSUME NEW d \in Captures, d # c, pc[d] \in PastRead
               PROVE  /\ head[d].base # None =>
                           /\ rows'[head[d].base].status = "active"
                           /\ rows'[head[d].base].ref = req[d].ref
                           /\ rows'[head[d].base].gen = req[d].gen
                      /\ \A v \in Captures :
                           Present(v)' /\ rows'[v].ref = req[d].ref /\ rows'[v].gen = req[d].gen =>
                             /\ rows'[v].num < head[d].num
                             /\ rows'[v].status = "active" => v = head[d].base
    BY <1>1, <1>2 DEF HeadIsCurrent, SameLine, PastRead
  <2>1. req[d].ref # req[c].ref
    BY <1>1 DEF IInv, HoldsLocks, PastRead
  <2>2. head[d].base \in Captures \cup {None}
    BY DEF IInv, TypeOK
  <2>3. ASSUME head[d].base # None
        PROVE  /\ rows'[head[d].base].status = "active"
               /\ rows'[head[d].base].ref = req[d].ref
               /\ rows'[head[d].base].gen = req[d].gen
    <3>1. rows[head[d].base].status = "active" /\ SameLine(d, head[d].base)
      BY <2>3 DEF IInv, HeadIsCurrent
    <3>2. head[d].base # c
      BY <1>3, <3>1 DEF Present
    <3>3. head[d].base # head[c].base
      BY <1>6, <2>1, <2>2, <2>3, <3>1, <3>2 DEF SameLine
    <3> QED
      BY <1>4, <2>2, <2>3, <3>1, <3>2, <3>3 DEF SameLine
  <2>4. ASSUME NEW v \in Captures, Present(v)', rows'[v].ref = req[d].ref,
               rows'[v].gen = req[d].gen
        PROVE  /\ rows'[v].num < head[d].num
               /\ rows'[v].status = "active" => v = head[d].base
    <3>1. v # c
      BY <1>5, <2>1, <2>4
    <3> QED
      BY <1>4, <2>4, <3>1 DEF IInv, HeadIsCurrent, SameLine
  <2> QED
    BY <2>3, <2>4
<1>10. ActiveIsTop'
  <2> SUFFICES ASSUME NEW v \in Captures, Present(v)'
               PROVE  \E w \in Captures : /\ rows'[w].status = "active"
                                          /\ rows'[w].ref = rows'[v].ref
                                          /\ rows'[w].gen = rows'[v].gen
                                          /\ rows'[v].num <= rows'[w].num
    BY DEF ActiveIsTop
  <2>1. head[c].num \in Nat /\ rows[v].num \in Nat
    BY DEF IInv, TypeOK, Row
  <2>2. CASE rows'[v].ref = req[c].ref /\ rows'[v].gen = req[c].gen
    <3>1. v # c => rows[v].num < head[c].num
      BY <1>1, <1>4, <2>2 DEF IInv, HeadIsCurrent, PastRead, SameLine
    <3> QED
      BY <1>4, <1>5, <2>1, <2>2, <3>1
  <2>3. CASE ~(rows'[v].ref = req[c].ref /\ rows'[v].gen = req[c].gen)
    <3>1. v # c /\ Present(v)
      BY <1>4, <1>5, <2>3
    <3>2. PICK w \in Captures : /\ rows[w].status = "active"
                                /\ rows[w].ref = rows[v].ref
                                /\ rows[w].gen = rows[v].gen
                                /\ rows[v].num <= rows[w].num
      BY <3>1 DEF IInv, ActiveIsTop
    <3>3. w # c
      BY <1>3, <3>2 DEF Present
    <3>4. w # head[c].base
      BY <1>6, <1>4, <2>3, <3>1, <3>2, <3>3 DEF SameLine
    <3> QED
      BY <1>4, <3>1, <3>2, <3>3, <3>4
  <2> QED
    BY <2>2, <2>3
<1>11. FeedOrder'
  <2>1. \A v \in Captures : rows'[v].seq < nextSeq
    BY <1>4, <1>5 DEF IInv, FeedOrder
  <2>2. ASSUME NEW d \in Captures, d # c, pc[d] = "inserted", req[d].gen = Live
        PROVE  /\ cursor < seq[d]
               /\ \A v \in Captures : FeedVisible(v)' => rows'[v].seq < seq[d]
    <3>1. req[c].gen # Live
      BY <1>1, <2>2 DEF IInv, HoldsLocks
    <3>2. ~FeedVisible(c)'
      BY <1>5, <3>1 DEF FeedVisible
    <3> QED
      BY <1>4, <2>2, <3>2 DEF IInv, FeedOrder
  <2> QED
    BY <1>1, <1>2, <2>1, <2>2 DEF IInv, FeedOrder
<1>12. OneActive'
  <2> SUFFICES ASSUME NEW v \in Captures, NEW w \in Captures,
                      rows'[v].status = "active", rows'[w].status = "active",
                      rows'[v].ref = rows'[w].ref, rows'[v].gen = rows'[w].gen,
                      v # w
               PROVE  FALSE
    BY DEF OneActive
  <2>1. CASE v # c /\ w # c
    BY <1>4, <2>1 DEF IInv, OneActive
  <2>2. ASSUME NEW u \in Captures, u # c, rows'[u].status = "active",
               rows'[u].ref = req[c].ref, rows'[u].gen = req[c].gen
        PROVE  FALSE
    <3>1. rows[u].status = "active" /\ u # head[c].base /\ SameLine(c, u)
      BY <1>4, <2>2 DEF SameLine
    <3> QED
      BY <1>1, <3>1 DEF IInv, HeadIsCurrent, PastRead, Present
  <2> QED
    BY <1>5, <2>1, <2>2
<1>13. NoVersionClash'
  BY <1>2 DEF IInv, NoVersionClash
<1>14. CursorSafe'
  <2>1. FeedVisible(c)' => cursor < seq[c]
    BY <1>1, <1>5 DEF IInv, FeedOrder, FeedVisible
  <2>2. cursor \in Nat /\ seq[c] \in Nat
    BY DEF IInv, TypeOK
  <2> QED
    BY <1>1, <1>4, <1>5, <2>1, <2>2 DEF IInv, CursorSafe
<1> QED
  BY <1>7, <1>8, <1>9, <1>10, <1>11, <1>12, <1>13, <1>14 DEF IInv

\* The unique index is never hit: the number is above every present one.
LEMMA NeverTaken ==
    ASSUME IInv, NEW c \in Captures, AtInsert(c)
    PROVE  ~NumberTaken(c)
<1> SUFFICES ASSUME NEW v \in Captures, Present(v), rows[v].ref = req[c].ref,
                    rows[v].gen = req[c].gen, rows[v].num = head[c].num
             PROVE  FALSE
  BY DEF NumberTaken
<1>1. pc[c] \in PastRead
  BY DEF AtInsert, ReadyToInsert, PastRead
<1>2. rows[v].num < head[c].num
  BY <1>1 DEF IInv, HeadIsCurrent, SameLine
<1>3. head[c].num \in Nat
  BY DEF IInv, TypeOK
<1> QED
  BY <1>2, <1>3

LEMMA PollKeeps ==
    ASSUME IInv, TypeOK', Poll
    PROVE  IInv'
<1> USE DEF Poll, txVars, lockVars, storeVars
<1>1. PICK last \in FeedAfter(cursor) :
        /\ cursor' = rows[last].seq
        /\ seen' = seen \cup {v \in FeedAfter(cursor) : rows[v].seq <= rows[last].seq}
  OBVIOUS
<1>2. last \in Captures /\ FeedVisible(last) /\ cursor < rows[last].seq
  BY DEF FeedAfter
<1>3. UNCHANGED <<pc, req, head, seq, capLock, feedLock, rows, docs, raw, nextSeq>>
  OBVIOUS
<1>4. HoldsLocks'
  BY <1>3 DEF IInv, HoldsLocks
<1>5. OnlyCommittedPresent' /\ HeadIsCurrent' /\ ActiveIsTop' /\ OneActive' /\ NoVersionClash'
  BY <1>3 DEF IInv, OnlyCommittedPresent, HeadIsCurrent, ActiveIsTop, OneActive,
              NoVersionClash, Present, SameLine
<1>6. FeedOrder'
  BY <1>1, <1>2, <1>3 DEF IInv, FeedOrder, FeedVisible
<1>7. CursorSafe'
  <2> SUFFICES ASSUME NEW v \in Captures, FeedVisible(v), rows[v].seq <= rows[last].seq
               PROVE  v \in seen'
    BY <1>1, <1>3 DEF CursorSafe, FeedVisible
  <2>1. rows[v].seq \in Nat /\ cursor \in Nat
    BY DEF IInv, TypeOK, Row
  <2>2. CASE rows[v].seq <= cursor
    BY <1>1, <2>2 DEF IInv, CursorSafe
  <2>3. CASE rows[v].seq > cursor
    BY <1>1, <2>3 DEF FeedAfter
  <2> QED
    BY <2>1, <2>2, <2>3
<1> QED
  BY <1>4, <1>5, <1>6, <1>7 DEF IInv

LEMMA NextIInv == IInv /\ [Next]_vars => IInv'
<1> SUFFICES ASSUME IInv, [Next]_vars
             PROVE  IInv'
  OBVIOUS
<1>0. TypeOK'
  BY NextType DEF IInv
<1>1. ASSUME NEW c \in Captures, NEW r \in Refs, NEW h \in Hashes, NEW t \in Times,
             InsertOrReuseRawCapture(c, r, h, t)
      PROVE  IInv'
  BY <1>0, <1>1, BeginKeeps DEF InsertOrReuseRawCapture
<1>2. ASSUME NEW c \in Captures, NEW r \in Refs, NEW h \in Hashes, NEW t \in Times, NEW g \in Runs,
             DeriveFromRawCapture(c, r, h, t, g)
      PROVE  IInv'
  BY <1>0, <1>2, BeginKeeps DEF DeriveFromRawCapture
<1>3. ASSUME NEW c \in Captures, CommitNoop(c)
      PROVE  IInv'
  BY <1>0, <1>3, RollBackKeeps, RowsKept
     DEF CommitNoop, IInv, Open, Locked, Ended, feedVars
<1>4. ASSUME NEW c \in Captures, VersionClash(c)
      PROVE  IInv'
  BY <1>4, NeverTaken DEF VersionClash
<1>5. ASSUME NEW c \in Captures, KeyMissing(c)
      PROVE  IInv'
  <2>1. pc[c] \in Open
    BY <1>5 DEF KeyMissing, AtInsert, ReadyToInsert, Open, Locked
  <2> QED
    BY <1>0, <1>5, <2>1, RollBackKeeps, RowsKept
       DEF KeyMissing, RollBack, IInv, Ended, feedVars
<1>6. ASSUME NEW c \in Captures, Abort(c)
      PROVE  IInv'
  BY <1>0, <1>6, RollBackKeeps, RowsKept DEF Abort, RollBack, IInv, Ended, feedVars
<1>7. CASE UNCHANGED vars
  BY <1>7 DEF vars, IInv, TypeOK, HoldsLocks, OnlyCommittedPresent, HeadIsCurrent,
              ActiveIsTop, FeedOrder, OneActive, NoVersionClash, CursorSafe,
              Present, SameLine, FeedVisible
<1> QED
  BY <1>0, <1>1, <1>2, <1>3, <1>4, <1>5, <1>6, <1>7, LockRefKeeps, ReadHeadKeeps,
     SupersedeKeeps, LockFeedKeeps, InsertVersionKeeps, CommitKeeps, PollKeeps
     DEF Next, Advance, Insert

LEMMA Invariance == Spec => []IInv
  BY InitIInv, NextIInv, PTL DEF Spec

\* No document ever has two active versions in one generation, however its
\* captures and replays interleave, fail or crash.
THEOREM OneActiveAlways == Spec => []CaptureInv
<1>1. IInv => CaptureInv
  BY DEF IInv, CaptureInv
<1> QED
  BY <1>1, Invariance, PTL

\* The capture lock is enough: no capture or replay ever fails on the unique
\* index over version numbers.
THEOREM NoVersionClashEver == Spec => []NoVersionClash
<1>1. IInv => NoVersionClash
  BY DEF IInv
<1> QED
  BY <1>1, Invariance, PTL

\* The feed lock is enough: a stored cursor never passes a live version its
\* consumer was not given, not even one still in flight when it was stored.
THEOREM CursorAlwaysSafe == Spec => []CursorSafe
<1>1. IInv => CursorSafe
  BY DEF IInv
<1> QED
  BY <1>1, Invariance, PTL

-----------------------------------------------------------------------------
(* The feed implements the abstract log.                                   *)

LogOf == {rows[v].seq : v \in {w \in Captures : FeedVisible(w)}}
GivenOf == {rows[v].seq : v \in seen}

\* What was given to the consumer is in the log still.
SeenVisible == \A v \in seen : FeedVisible(v)

\* Only a commit writes the version table, and only a poll the consumer's state.
LEMMA OtherSteps ==
    ASSUME [Next]_vars, \A c \in Captures : ~Commit(c), ~Poll
    PROVE  UNCHANGED <<rows, cursor, seen>>
<1>1. ASSUME NEW c \in Captures, NEW r \in Refs, NEW h \in Hashes, NEW t \in Times,
             \/ InsertOrReuseRawCapture(c, r, h, t)
             \/ \E g \in Runs : DeriveFromRawCapture(c, r, h, t, g)
      PROVE  UNCHANGED <<rows, cursor, seen>>
  BY <1>1 DEF InsertOrReuseRawCapture, DeriveFromRawCapture, storeVars, feedVars
<1>2. ASSUME NEW c \in Captures, Advance(c) \/ Abort(c)
      PROVE  UNCHANGED <<rows, cursor, seen>>
  BY <1>2 DEF Advance, LockRef, ReadHead, Supersede, LockFeed, Insert, InsertVersion,
     CommitNoop, VersionClash, KeyMissing, Abort, RollBack, storeVars, feedVars
<1> QED
  BY <1>1, <1>2 DEF Next, vars

LEMMA NextSeen == IInv /\ SeenVisible /\ [Next]_vars => SeenVisible'
<1> SUFFICES ASSUME IInv, SeenVisible, [Next]_vars
             PROVE  SeenVisible'
  OBVIOUS
<1>1. CASE UNCHANGED <<rows, seen>>
  BY <1>1 DEF SeenVisible, FeedVisible
<1>2. ASSUME NEW c \in Captures, Commit(c)
      PROVE  SeenVisible'
  <2>1. c \notin seen /\ seen' = seen /\ seen \in SUBSET Captures
    BY <1>2, CommitRows DEF SeenVisible, FeedVisible, Present, Commit, feedVars, IInv, TypeOK
  <2> QED
    BY <1>2, <2>1, CommitRows DEF SeenVisible
<1>3. CASE Poll
  BY <1>3 DEF Poll, SeenVisible, FeedAfter, FeedVisible, storeVars
<1> QED
  BY <1>1, <1>2, <1>3, OtherSteps

\* A live commit publishes one entry at the end of the log; any other is a
\* stutter.
LEMMA CommitPublishes ==
    ASSUME IInv, SeenVisible, NEW c \in Captures, Commit(c)
    PROVE  Log!Publish \/ UNCHANGED <<LogOf, cursor, GivenOf>>
<1>1. pc[c] = "inserted" /\ UNCHANGED <<req, seq, cursor, seen>>
  BY DEF Commit, feedVars
<1>2. c \notin seen /\ seen \in SUBSET Captures
  BY CommitRows DEF SeenVisible, FeedVisible, Present, IInv, TypeOK
<1>3. GivenOf' = GivenOf
  BY <1>1, <1>2, CommitRows DEF GivenOf
<1>4. CASE req[c].gen # Live
  <2>1. ~FeedVisible(c) /\ ~FeedVisible(c)'
    BY <1>4, CommitRows DEF FeedVisible, Present
  <2>2. LogOf' = LogOf
    BY <2>1, CommitRows DEF LogOf
  <2> QED
    BY <1>1, <1>3, <2>2
<1>5. CASE req[c].gen = Live
  <2>1. ~FeedVisible(c) /\ FeedVisible(c)' /\ rows'[c].seq = seq[c]
    BY <1>5, CommitRows DEF FeedVisible, Present
  <2>2. LogOf' = LogOf \cup {seq[c]}
    BY <2>1, CommitRows DEF LogOf
  <2>3. seq[c] \in Nat /\ cursor < seq[c] /\ \A t \in LogOf : t < seq[c]
    BY <1>1, <1>5 DEF IInv, TypeOK, FeedOrder, LogOf
  <2> QED
    BY <1>1, <1>3, <2>2, <2>3 DEF Log!Publish, LogOf, GivenOf
<1> QED
  BY <1>4, <1>5

\* A page is consumed from the front of the log.
LEMMA PollConsumes ==
    ASSUME IInv, Poll
    PROVE  Log!Consume
<1>1. PICK last \in FeedAfter(cursor) :
        /\ cursor' = rows[last].seq
        /\ seen' = seen \cup {v \in FeedAfter(cursor) : rows[v].seq <= rows[last].seq}
  BY DEF Poll
<1>2. rows' = rows
  BY DEF Poll, storeVars
<1>3. rows[last].seq \in LogOf /\ cursor < rows[last].seq
  BY DEF FeedAfter, LogOf
<1>4. LogOf' = LogOf
  BY <1>2 DEF LogOf, FeedVisible
<1>5. GivenOf' = GivenOf \cup {t \in LogOf : cursor < t /\ t <= rows[last].seq}
  <2>1. GivenOf' = {rows[v].seq : v \in seen'}
    BY <1>2 DEF GivenOf
  <2>2. {rows[v].seq : v \in {w \in FeedAfter(cursor) : rows[w].seq <= rows[last].seq}}
          = {t \in LogOf : cursor < t /\ t <= rows[last].seq}
    BY DEF LogOf, FeedAfter
  <2> QED
    BY <1>1, <2>1, <2>2 DEF GivenOf
<1> QED
  BY <1>1, <1>3, <1>4, <1>5 DEF Log!Consume, LogOf, GivenOf

\* The feed is the log its consumers are promised: entries enter at the end
\* and pages are read front to back (docs/FEED.md, "Pull").
THEOREM FeedImplementsLog == Spec => LogSpec
<1>1. Init => Log!Init /\ SeenVisible
  BY DEF Init, Log!Init, SeenVisible, FeedVisible, NoRow
<1>2. IInv /\ SeenVisible /\ [Next]_vars => [Log!Next]_(Log!logVars)
  <2> SUFFICES ASSUME IInv, SeenVisible, [Next]_vars
               PROVE  Log!Next \/ UNCHANGED <<LogOf, cursor, GivenOf>>
    BY DEF Log!logVars, LogOf, GivenOf
  <2>1. CASE UNCHANGED <<rows, cursor, seen>>
    BY <2>1 DEF LogOf, GivenOf, FeedVisible
  <2>2. ASSUME NEW c \in Captures, Commit(c)
        PROVE  Log!Next \/ UNCHANGED <<LogOf, cursor, GivenOf>>
    BY <2>2, CommitPublishes DEF Log!Next
  <2>3. CASE Poll
    BY <2>3, PollConsumes DEF Log!Next
  <2> QED
    BY <2>1, <2>2, <2>3, OtherSteps
<1>3. Spec => []SeenVisible
  BY <1>1, Invariance, NextSeen, PTL DEF Spec
<1> QED
  BY <1>1, <1>2, <1>3, Invariance, PTL DEF Spec, LogSpec, Log!Spec

-----------------------------------------------------------------------------
(* Capture implements DocumentHistory.                                     *)

LineOf(k) == {v \in Captures : Present(v) /\ <<rows[v].ref, rows[v].gen>> = k}
Height(k) == Cardinality(LineOf(k))
Key(c) == <<req[c].ref, req[c].gen>>

\* The versions of a document are numbered from 1 on, each number once.
Numbered ==
    \A k \in Refs \X Generations :
        /\ \A v \in LineOf(k) : rows[v].num \in 1..Height(k)
        /\ \A i \in 1..Height(k) : \E v \in LineOf(k) : rows[v].num = i
        /\ \A u, v \in LineOf(k) : rows[u].num = rows[v].num => u = v

\* What a transaction read as the head of its document is the last of these; its own
\* number is the next, and its content another, unless it ends here.
Appends ==
    \A c \in Captures : pc[c] \in PastRead =>
        /\ head[c].num = Height(Key(c)) + 1
        /\ head[c].base # None => /\ rows[head[c].base].num = Height(Key(c))
                                  /\ pc[c] # "same" =>
                                        rows[head[c].base].hash # req[c].hash

LEMMA HeightIs ==
    ASSUME NEW k
    PROVE  IsFiniteSet(LineOf(k)) /\ Height(k) \in Nat /\ (Height(k) = 0 <=> LineOf(k) = {})
<1>1. IsFiniteSet(LineOf(k))
  BY CaptureAssumption, FS_Subset DEF LineOf
<1> QED
  BY <1>1, FS_CardinalityType, FS_EmptySet DEF Height

LEMMA KeyIs ==
    ASSUME TypeOK, NEW c \in Captures, pc[c] # "idle"
    PROVE  Key(c) \in Refs \X Generations /\ req[c].hash \in Hashes
BY DEF TypeOK, Key

\* A transaction past its read is one that has just read, or was past it before.
LEMMA PastReadBefore ==
    ASSUME [Next]_vars, NEW c \in Captures, pc'[c] \in PastRead, ~ReadHead(c),
           TypeOK
    PROVE  /\ pc[c] \in PastRead /\ req'[c] = req[c] /\ head'[c] = head[c]
           /\ pc'[c] # "same" => pc[c] # "same"
<1> USE DEF PastRead
<1>1. ASSUME NEW d \in Captures, NEW r \in Refs, NEW h \in Hashes, NEW t \in Times,
             \/ InsertOrReuseRawCapture(d, r, h, t)
             \/ \E g \in Runs : DeriveFromRawCapture(d, r, h, t, g)
      PROVE  pc[c] \in PastRead /\ req'[c] = req[c] /\ head'[c] = head[c] /\ pc'[c] = pc[c]
  BY <1>1 DEF InsertOrReuseRawCapture, DeriveFromRawCapture, TypeOK
<1>2. ASSUME NEW d \in Captures, LockRef(d)
      PROVE  pc[c] \in PastRead /\ req'[c] = req[c] /\ head'[c] = head[c] /\ pc'[c] = pc[c]
  BY <1>2 DEF LockRef, TypeOK
<1>3. ASSUME NEW d \in Captures, ReadHead(d), d # c
      PROVE  pc[c] \in PastRead /\ req'[c] = req[c] /\ head'[c] = head[c] /\ pc'[c] = pc[c]
  BY <1>3 DEF ReadHead, TypeOK
<1>4. ASSUME NEW d \in Captures, Supersede(d) \/ LockFeed(d) \/ InsertVersion(d)
      PROVE  /\ pc[c] \in PastRead /\ req'[c] = req[c] /\ head'[c] = head[c]
             /\ pc'[c] # "same" => pc[c] # "same"
  BY <1>4 DEF Supersede, LockFeed, InsertVersion, AtInsert, ReadyToInsert, TypeOK
<1>5. ASSUME NEW d \in Captures,
             Commit(d) \/ CommitNoop(d) \/ VersionClash(d) \/ KeyMissing(d) \/ Abort(d)
      PROVE  pc[c] \in PastRead /\ req'[c] = req[c] /\ head'[c] = head[c] /\ pc'[c] = pc[c]
  <2>1. /\ req' = req /\ head' = head
        /\ \E end \in Ended : pc' = [pc EXCEPT ![d] = end]
    BY <1>5 DEF Commit, CommitNoop, VersionClash, KeyMissing, Abort, RollBack, Ended
  <2> QED
    BY <2>1 DEF Ended, TypeOK
<1>6. CASE Poll \/ UNCHANGED vars
  BY <1>6 DEF Poll, vars, txVars
<1> QED
  BY <1>1, <1>2, <1>3, <1>4, <1>5, <1>6 DEF Next, Advance, Insert

\* What a read of the head finds: the last version, or none.
LEMMA ReadHeadFinds ==
    ASSUME IInv, Numbered, NEW c \in Captures, ReadHead(c)
    PROVE  LET h == head'[c]
           IN /\ h.num = Height(Key(c)) + 1
              /\ h.base # None => /\ rows[h.base].num = Height(Key(c))
                                  /\ pc'[c] # "same" => rows[h.base].hash # req[c].hash
<1> DEFINE k == Key(c)
           A == Actives(req[c].ref, req[c].gen)
<1>1. pc[c] = "locked" /\ TypeOK /\ None \notin Captures
  BY CaptureAssumption DEF ReadHead, IInv
<1>2. k \in Refs \X Generations
  BY <1>1, KeyIs
<1>3. PICK b \in A \cup {None} :
        /\ b = None <=> A = {}
        /\ \A a \in A : rows[a].num <= rows[b].num
        /\ head' = [head EXCEPT ![c] = [doc |-> docs[req[c].ref], base |-> b,
                                        num |-> NextNumber(b)]]
        /\ pc' = [pc EXCEPT ![c] = IF SameContent(b, req[c].hash) THEN "same" ELSE "read"]
  BY DEF ReadHead
<1>4. /\ head'[c].num = NextNumber(b) /\ head'[c].base = b
      /\ pc'[c] = IF SameContent(b, req[c].hash) THEN "same" ELSE "read"
  BY <1>1, <1>3 DEF TypeOK
<1>5. \A a : a \in A <=> a \in LineOf(k) /\ rows[a].status = "active"
  BY DEF Actives, LineOf, Key, Present
<1>6. CASE b = None
  <2>1. LineOf(k) = {}
    <3> SUFFICES ASSUME NEW v \in LineOf(k) PROVE FALSE
      OBVIOUS
    <3>1. PICK w \in Captures : /\ rows[w].status = "active"
                                /\ rows[w].ref = rows[v].ref /\ rows[w].gen = rows[v].gen
      BY DEF LineOf, IInv, ActiveIsTop
    <3>2. w \in A
      BY <1>5, <3>1 DEF LineOf, Present
    <3> QED
      BY <1>3, <1>6, <3>2
  <2>2. Height(k) = 0
    BY <2>1, HeightIs
  <2> QED
    BY <1>4, <1>6, <2>2 DEF NextNumber
<1>7. CASE b # None
  <2>1. b \in LineOf(k) /\ rows[b].status = "active"
    BY <1>3, <1>5, <1>7
  <2>2. \A v \in LineOf(k) : rows[v].num <= rows[b].num
    <3> SUFFICES ASSUME NEW v \in LineOf(k) PROVE rows[v].num <= rows[b].num
      OBVIOUS
    <3>1. PICK w \in Captures : /\ rows[w].status = "active"
                                /\ rows[w].ref = rows[v].ref /\ rows[w].gen = rows[v].gen
                                /\ rows[v].num <= rows[w].num
      BY DEF LineOf, IInv, ActiveIsTop
    <3>2. w \in LineOf(k)
      BY <3>1 DEF LineOf, Present
    <3>3. w = b
      BY <2>1, <3>1, <3>2 DEF LineOf, IInv, OneActive
    <3> QED
      BY <3>1, <3>3
  <2>3. rows[b].num \in 1..Height(k) /\ Height(k) \in Nat
    BY <1>2, <2>1, HeightIs DEF Numbered
  <2>4. PICK v \in LineOf(k) : rows[v].num = Height(k)
    <3>1. Height(k) \in 1..Height(k)
      BY <2>3
    <3> QED
      BY <1>2, <3>1 DEF Numbered
  <2>5. rows[b].num = Height(k)
    BY <2>2, <2>3, <2>4
  <2> QED
    BY <1>4, <1>7, <2>5 DEF NextNumber, SameContent
<1> QED
  BY <1>6, <1>7

\* What a commit does to the lines.
LEMMA CommitLines ==
    ASSUME IInv, Numbered, Appends, NEW c \in Captures, Commit(c)
    PROVE  /\ LineOf(Key(c))' = LineOf(Key(c)) \cup {c} /\ c \notin LineOf(Key(c))
           /\ Height(Key(c))' = Height(Key(c)) + 1
           /\ \A k \in Refs \X Generations : k # Key(c) => LineOf(k)' = LineOf(k)
           /\ \A v \in Captures : v # c =>
                 rows'[v].num = rows[v].num /\ rows'[v].hash = rows[v].hash
           /\ rows'[c].num = Height(Key(c)) + 1 /\ rows'[c].hash = req[c].hash
<1> DEFINE k == Key(c)
<1>1. pc[c] = "inserted" /\ rows' = Publish(c) /\ req' = req /\ TypeOK
  BY DEF Commit, IInv
<1>2. k \in Refs \X Generations /\ k' = k
  BY <1>1, KeyIs DEF Key
<1>3. head[c].num = Height(k) + 1
  BY <1>1 DEF Appends, PastRead
<1>4. \A v \in Captures : v # c => rows'[v].hash = rows[v].hash
  <2> SUFFICES ASSUME NEW v \in Captures, v # c PROVE rows'[v].hash = rows[v].hash
    OBVIOUS
  <2>1. rows[v] \in Row
    BY <1>1 DEF TypeOK
  <2>2. rows'[v] = rows[v] \/ rows'[v] = [rows[v] EXCEPT !.status = "superseded"]
    BY <1>1 DEF Publish
  <2> QED
    BY <2>1, <2>2 DEF Row
<1>5. rows'[c].hash = req[c].hash
  BY <1>1 DEF Publish, NewRow
<1>6. ~Present(c) /\ Present(c)' /\ <<rows'[c].ref, rows'[c].gen>> = k
  BY CommitRows DEF Present, Key
<1>7. \A v \in Captures : v # c => /\ <<rows'[v].ref, rows'[v].gen>> = <<rows[v].ref, rows[v].gen>>
                                   /\ Present(v)' <=> Present(v)
  BY CommitRows
<1>8. ASSUME NEW j
      PROVE  LineOf(j)' = LineOf(j) \cup (IF j = k THEN {c} ELSE {})
  BY <1>6, <1>7 DEF LineOf
<1>9. LineOf(k)' = LineOf(k) \cup {c} /\ c \notin LineOf(k)
  <2>1. LineOf(k)' = {v \in Captures : Present(v)' /\ <<rows'[v].ref, rows'[v].gen>> = k}
    BY <1>2 DEF LineOf
  <2> QED
    BY <1>6, <1>7, <2>1 DEF LineOf
<1>10. Height(k)' = Height(k) + 1
  BY <1>9, HeightIs, FS_AddElement DEF Height
<1>11. \A j \in Refs \X Generations : j # k => LineOf(j)' = LineOf(j)
  BY <1>8
<1>12. rows'[c].num = Height(k) + 1 /\ \A v \in Captures : v # c => rows'[v].num = rows[v].num
  BY <1>3, CommitRows
<1> QED
  BY <1>4, <1>5, <1>9, <1>10, <1>11, <1>12

LEMMA CommitKeepsLines ==
    ASSUME IInv, Numbered, Appends, NEW c \in Captures, Commit(c), [Next]_vars
    PROVE  Numbered' /\ Appends'
<1> DEFINE k == Key(c)
<1>1. /\ LineOf(k)' = LineOf(k) \cup {c} /\ c \notin LineOf(k)
      /\ Height(k)' = Height(k) + 1
      /\ \A j \in Refs \X Generations : j # k => LineOf(j)' = LineOf(j)
      /\ \A v \in Captures : v # c => rows'[v].num = rows[v].num /\ rows'[v].hash = rows[v].hash
      /\ rows'[c].num = Height(k) + 1
  BY CommitLines
<1>2. /\ pc[c] = "inserted" /\ req' = req /\ head' = head /\ TypeOK
      /\ pc' = [pc EXCEPT ![c] = "captured"] /\ k' = k /\ k \in Refs \X Generations
      /\ None \notin Captures
  BY KeyIs, CaptureAssumption DEF Commit, IInv, Key
<1>3. \A j : LineOf(j) \subseteq Captures /\ Height(j) \in Nat
  BY HeightIs DEF LineOf
<1>4. ASSUME NEW j \in Refs \X Generations
      PROVE  /\ \A v \in LineOf(j)' : rows'[v].num \in 1..Height(j)'
             /\ \A i \in 1..Height(j)' : \E v \in LineOf(j)' : rows'[v].num = i
             /\ \A u, v \in LineOf(j)' : rows'[u].num = rows'[v].num => u = v
  <2>1. /\ \A v \in LineOf(j) : rows[v].num \in 1..Height(j)
        /\ \A i \in 1..Height(j) : \E v \in LineOf(j) : rows[v].num = i
        /\ \A u, v \in LineOf(j) : rows[u].num = rows[v].num => u = v
    BY DEF Numbered
  <2>2. CASE j # k
    <3>1. LineOf(j)' = LineOf(j) /\ Height(j)' = Height(j)
      BY <1>1, <2>2 DEF Height
    <3>2. c \notin LineOf(j)
      <4>1. ~Present(c)
        BY CommitRows
      <4> QED
        BY <4>1 DEF LineOf
    <3>3. \A v \in LineOf(j) : rows'[v].num = rows[v].num
      BY <1>1, <1>3, <3>2
    <3> QED
      BY <2>1, <3>1, <3>3
  <2>3. CASE j = k
    <3>1. \A v \in LineOf(k) : rows'[v].num = rows[v].num /\ v # c
      BY <1>1, <1>3
    <3>2. PICK n \in Nat : n = Height(k)
      BY <1>3
    <3>3. LineOf(j)' = LineOf(k) \cup {c} /\ Height(j)' = n + 1 /\ rows'[c].num = n + 1
      BY <1>1, <1>2, <2>3, <3>2
    <3>4. \A v \in LineOf(k) : rows'[v].num \in 1..n
      BY <2>1, <2>3, <3>1, <3>2
    <3>5. \A v \in LineOf(j)' : rows'[v].num \in 1..(n + 1)
      BY <3>3, <3>4
    <3>6. \A i \in 1..(n + 1) : \E v \in LineOf(j)' : rows'[v].num = i
      <4> SUFFICES ASSUME NEW i \in 1..(n + 1) PROVE \E v \in LineOf(j)' : rows'[v].num = i
        OBVIOUS
      <4>1. CASE i = n + 1
        BY <3>3, <4>1
      <4>2. CASE i # n + 1
        <5>1. i \in 1..n
          BY <4>2
        <5> QED
          BY <2>1, <2>3, <3>1, <3>2, <3>3, <5>1
      <4> QED
        BY <4>1, <4>2
    <3>7. \A u, v \in LineOf(j)' : rows'[u].num = rows'[v].num => u = v
      <4>1. \A v \in LineOf(k) : rows'[v].num # rows'[c].num
        BY <3>3, <3>4
      <4> QED
        BY <2>1, <2>3, <3>1, <3>3, <4>1
    <3> QED
      BY <3>3, <3>5, <3>6, <3>7
  <2> QED
    BY <2>2, <2>3
<1>5. Numbered'
  BY <1>4 DEF Numbered
<1>6. ASSUME NEW d \in Captures, pc'[d] \in PastRead
      PROVE  /\ head'[d].num = Height(Key(d))' + 1
             /\ head'[d].base # None =>
                  /\ rows'[head'[d].base].num = Height(Key(d))'
                  /\ pc'[d] # "same" => rows'[head'[d].base].hash # req'[d].hash
  <2>1. d # c /\ pc'[d] = pc[d] /\ pc[d] \in PastRead
    BY <1>2, <1>6 DEF PastRead, TypeOK
  <2>2. req[d].ref # req[c].ref
    BY <1>2, <2>1 DEF IInv, HoldsLocks, PastRead, Locked
  <2>3. Key(d) # k /\ Key(d) \in Refs \X Generations /\ Key(d)' = Key(d)
    <3>1. pc[d] # "idle"
      BY <2>1 DEF PastRead
    <3> QED
      BY <1>2, <2>2, <3>1, KeyIs DEF Key
  <2>4. Height(Key(d))' = Height(Key(d))
    <3>1. LineOf(Key(d))' = {v \in Captures : Present(v)' /\ <<rows'[v].ref, rows'[v].gen>> = Key(d)}
      BY <2>3 DEF LineOf
    <3>2. LineOf(Key(d))' = LineOf(Key(d))
      <4>1. \A v \in Captures : v # c => /\ <<rows'[v].ref, rows'[v].gen>> = <<rows[v].ref, rows[v].gen>>
                                         /\ Present(v)' <=> Present(v)
        BY CommitRows
      <4>2. ~Present(c) /\ <<rows'[c].ref, rows'[c].gen>> = k
        BY CommitRows DEF Key
      <4> QED
        BY <2>3, <3>1, <4>1, <4>2 DEF LineOf
    <3> QED
      BY <3>2 DEF Height
  <2>5. /\ head[d].num = Height(Key(d)) + 1
        /\ head[d].base # None => /\ rows[head[d].base].num = Height(Key(d))
                                  /\ pc[d] # "same" => rows[head[d].base].hash # req[d].hash
    BY <2>1 DEF Appends
  <2>6. head[d].base # None => head[d].base \in Captures /\ head[d].base # c
    <3> SUFFICES ASSUME head[d].base # None
                 PROVE  head[d].base \in Captures /\ head[d].base # c
      OBVIOUS
    <3>1. head[d].base \in Captures
      BY <1>2 DEF TypeOK
    <3>2. rows[head[d].base].status = "active"
      BY <2>1 DEF IInv, HeadIsCurrent
    <3>3. Present(head[d].base) /\ ~Present(c)
      BY <3>2, CommitRows DEF Present
    <3> QED
      BY <3>1, <3>3
  <2> QED
    BY <1>1, <1>2, <2>1, <2>4, <2>5, <2>6
<1>7. Appends'
  BY <1>6 DEF Appends
<1> QED
  BY <1>5, <1>7

LEMMA NextLines == IInv /\ Numbered /\ Appends /\ [Next]_vars => Numbered' /\ Appends'
<1> SUFFICES ASSUME IInv, Numbered, Appends, [Next]_vars PROVE Numbered' /\ Appends'
  OBVIOUS
<1>1. ASSUME NEW c \in Captures, Commit(c) PROVE Numbered' /\ Appends'
  BY <1>1, CommitKeepsLines
<1>2. CASE \A c \in Captures : ~Commit(c)
  <2>1. rows' = rows
    <3>1. CASE Poll
      BY <3>1 DEF Poll, storeVars
    <3> QED
      BY <1>2, <3>1, OtherSteps
  <2>2. Numbered'
    BY <2>1 DEF Numbered, Height, LineOf, Present
  <2>3. ASSUME NEW c \in Captures, pc'[c] \in PastRead
        PROVE  /\ head'[c].num = Height(Key(c))' + 1
               /\ head'[c].base # None =>
                    /\ rows'[head'[c].base].num = Height(Key(c))'
                    /\ pc'[c] # "same" => rows'[head'[c].base].hash # req'[c].hash
    <3>1. req'[c] = req[c] => Height(Key(c))' = Height(Key(c))
      BY <2>1 DEF Height, LineOf, Present, Key
    <3>2. CASE ReadHead(c)
      <4>1. req' = req
        BY <3>2 DEF ReadHead
      <4> QED
        BY <2>1, <3>1, <3>2, <4>1, ReadHeadFinds
    <3>3. CASE ~ReadHead(c)
      <4>1. /\ pc[c] \in PastRead /\ req'[c] = req[c] /\ head'[c] = head[c]
            /\ pc'[c] # "same" => pc[c] # "same"
        BY <2>3, <3>3, PastReadBefore DEF IInv
      <4> QED
        BY <2>1, <3>1, <4>1 DEF Appends
    <3> QED
      BY <3>2, <3>3
  <2>4. Appends'
    BY <2>3 DEF Appends
  <2> QED
    BY <2>2, <2>4
<1> QED
  BY <1>1, <1>2

\* A document's history, by its numbers.
HashAt(k, i) == rows[CHOOSE v \in LineOf(k) : rows[v].num = i].hash

LEMMA HistoryIs ==
    HistoryOf = [k \in Refs \X Generations |-> [i \in 1..Height(k) |-> HashAt(k, i)]]
BY DEF HistoryOf, HashAt, Height, LineOf

\* The i-th entry of a document's history is the content of its version i.
Recorded ==
    \A k \in Refs \X Generations :
        /\ \A v \in LineOf(k), i \in 1..Height(k) :
              rows[v].num = i => HashAt(k, i) = rows[v].hash
        /\ HistoryOf[k] \in Seq(Hashes \cup {None}) /\ Len(HistoryOf[k]) = Height(k)
        /\ \A i \in 1..Height(k) : HistoryOf[k][i] = HashAt(k, i)

LEMMA NumberedRecorded == TypeOK /\ Numbered => Recorded
<1> SUFFICES ASSUME TypeOK, Numbered, NEW k \in Refs \X Generations
             PROVE  /\ \A v \in LineOf(k), i \in 1..Height(k) :
                          rows[v].num = i => HashAt(k, i) = rows[v].hash
                    /\ HistoryOf[k] \in Seq(Hashes \cup {None}) /\ Len(HistoryOf[k]) = Height(k)
                    /\ \A i \in 1..Height(k) : HistoryOf[k][i] = HashAt(k, i)
  BY DEF Recorded
<1>1. ASSUME NEW v \in LineOf(k), NEW i \in 1..Height(k), rows[v].num = i
      PROVE  HashAt(k, i) = rows[v].hash
  <2>1. (CHOOSE u \in LineOf(k) : rows[u].num = i) = v
    BY <1>1 DEF Numbered
  <2> QED
    BY <2>1 DEF HashAt
<1>2. ASSUME NEW i \in 1..Height(k)
      PROVE  HashAt(k, i) \in Hashes \cup {None}
  <2>1. PICK v \in LineOf(k) : rows[v].num = i
    BY DEF Numbered
  <2>2. rows[v] \in Row
    BY DEF LineOf, TypeOK
  <2> QED
    BY <1>1, <2>1, <2>2 DEF Row
<1>3. HistoryOf[k] = [i \in 1..Height(k) |-> HashAt(k, i)]
  BY HistoryIs
<1>4. Height(k) \in Nat
  BY HeightIs
<1> QED
  BY <1>1, <1>2, <1>3, <1>4

\* How a sequence that is one element longer is told.
LEMMA AppendIs ==
    ASSUME NEW S, NEW s \in Seq(S), NEW x \in S, NEW t \in Seq(S),
           Len(t) = Len(s) + 1, t[Len(s) + 1] = x, \A i \in 1..Len(s) : t[i] = s[i]
    PROVE  t = Append(s, x)
<1> DEFINE u == Append(s, x)
<1>1. u \in Seq(S) /\ Len(u) = Len(t) /\ u[Len(s) + 1] = x /\ \A i \in 1..Len(s) : u[i] = s[i]
  OBVIOUS
<1> HIDE DEF u
<1>2. \A i \in 1..Len(t) : t[i] = u[i]
  BY <1>1
<1>3. t = u
  BY <1>1, <1>2
<1> QED
  BY <1>3 DEF u

\* A commit appends the content of its capture to the history of its document.
LEMMA CommitAppends ==
    ASSUME IInv, IInv', Numbered, Numbered', Appends, NEW c \in Captures, Commit(c)
    PROVE  History!Append1(Key(c), req[c].hash) /\ req[c].hash \in Hashes
           /\ Key(c) \in Refs \X Generations
<1>0. PICK k \in Refs \X Generations : k = Key(c)
  <2>1. pc[c] # "idle" /\ TypeOK
    BY DEF Commit, IInv
  <2> QED
    BY <2>1, KeyIs
<1>3. PICK n \in Nat : n = Height(k)
  BY HeightIs
<1> DEFINE h == req[c].hash
<1>2. pc[c] = "inserted" /\ req' = req /\ TypeOK /\ h \in Hashes
  BY KeyIs DEF Commit, IInv
<1>1. /\ LineOf(k)' = LineOf(k) \cup {c} /\ c \notin LineOf(k)
      /\ Height(k)' = n + 1
      /\ \A j \in Refs \X Generations : j # k => LineOf(j)' = LineOf(j)
      /\ \A v \in Captures : v # c => rows'[v].num = rows[v].num /\ rows'[v].hash = rows[v].hash
      /\ rows'[c].num = n + 1 /\ rows'[c].hash = h
  <2>1. Key(c)' = k
    BY <1>0, <1>2 DEF Key
  <2>2. LineOf(Key(c))' = LineOf(k)'
    BY <2>1 DEF LineOf
  <2> QED
    BY <1>0, <1>3, <2>2, CommitLines DEF Height
<1>4. Recorded
  BY <1>2, NumberedRecorded
<1>5. Recorded'
  <2>1. TypeOK' /\ Numbered'
    BY DEF IInv
  <2> QED
    BY <2>1, NumberedRecorded, PTL
<1>6. Numbered
  OBVIOUS
<1>7. ASSUME NEW j \in Refs \X Generations, NEW v \in LineOf(j)
      PROVE  v # c /\ v \in Captures /\ v \in LineOf(j)' /\ (j # k => Height(j)' = Height(j))
  <2>1. v # c /\ v \in Captures
    <3>1. ~Present(c)
      BY CommitRows
    <3> QED
      BY <3>1 DEF LineOf
  <2>2. CASE j = k
    BY <1>1, <2>1, <2>2
  <2>3. CASE j # k
    BY <1>1, <2>1, <2>3 DEF Height
  <2> QED
    BY <2>2, <2>3
<1>8. \A j \in Refs \X Generations : Height(j)' = IF j = k THEN n + 1 ELSE Height(j)
  <2>1. \A j \in Refs \X Generations : j # k => Height(j)' = Height(j)
    BY <1>1 DEF Height
  <2> QED
    BY <1>1, <2>1
<1>9. ASSUME NEW j \in Refs \X Generations, NEW i \in 1..Height(j)
      PROVE  i \in 1..Height(j)' /\ HashAt(j, i)' = HashAt(j, i)
  <2>1. PICK v \in LineOf(j) : rows[v].num = i
    BY <1>6 DEF Numbered
  <2>2. i \in 1..Height(j)'
    BY <1>3, <1>8, HeightIs
  <2>3. v \in LineOf(j)' /\ rows'[v].num = i /\ rows'[v].hash = rows[v].hash
    BY <1>1, <1>7, <2>1
  <2>4. HashAt(j, i) = rows[v].hash
    BY <1>4, <2>1 DEF Recorded
  <2>5. HashAt(j, i)' = rows'[v].hash
    BY <1>5, <2>2, <2>3 DEF Recorded
  <2> QED
    BY <2>2, <2>3, <2>4, <2>5
<1>10. HashAt(k, n + 1)' = h /\ n + 1 \in 1..Height(k)'
  <2>1. n + 1 \in 1..Height(k)'
    BY <1>1, <1>3
  <2>2. c \in LineOf(k)' /\ rows'[c].num = n + 1
    BY <1>1
  <2>3. HashAt(k, n + 1)' = rows'[c].hash
    BY <1>5, <2>1, <2>2 DEF Recorded
  <2> QED
    BY <1>1, <2>1, <2>3
<1>11. HistoryOf' = [HistoryOf EXCEPT ![k] = Append(@, h)]
  <2>1. HistoryOf' = [j \in Refs \X Generations |-> [i \in 1..Height(j)' |-> HashAt(j, i)']]
    BY DEF HistoryOf, HashAt, Height, LineOf
  <2>2. HistoryOf = [j \in Refs \X Generations |-> [i \in 1..Height(j) |-> HashAt(j, i)]]
    BY HistoryIs
  <2>3. ASSUME NEW j \in Refs \X Generations, j # k
        PROVE  [i \in 1..Height(j)' |-> HashAt(j, i)'] = HistoryOf[j]
    BY <1>8, <1>9, <2>2, <2>3
  <2>4. [i \in 1..(n + 1) |-> HashAt(k, i)'] = Append(HistoryOf[k], h)
    <3> DEFINE old == HistoryOf[k]
               new == [i \in 1..(n + 1) |-> HashAt(k, i)']
    <3>1. old \in Seq(Hashes \cup {None}) /\ Len(old) = n
      BY <1>3, <1>4 DEF Recorded
    <3>2. new[n + 1] = h
      BY <1>3, <1>10
    <3>3. \A i \in 1..n : new[i] = old[i]
      <4> SUFFICES ASSUME NEW i \in 1..n PROVE new[i] = old[i]
        OBVIOUS
      <4>1. i \in 1..(n + 1) /\ HashAt(k, i)' = HashAt(k, i)
        BY <1>3, <1>9
      <4>2. old[i] = HashAt(k, i)
        BY <1>3, <1>4 DEF Recorded
      <4> QED
        BY <4>1, <4>2
    <3>4. DOMAIN new = 1..(n + 1) /\ new = [i \in 1..(n + 1) |-> new[i]]
      OBVIOUS
    <3>5. h \in Hashes \cup {None}
      BY <1>2
    <3> HIDE DEF old, h
    <3>6. new \in Seq(Hashes \cup {None}) /\ Len(new) = n + 1
      <4>1. \A i \in 1..(n + 1) : i = n + 1 \/ i \in 1..n
        BY <1>3
      <4>2. \A i \in 1..n : old[i] \in Hashes \cup {None}
        BY <3>1
      <4>3. \A i \in 1..(n + 1) : new[i] \in Hashes \cup {None}
        BY <3>2, <3>3, <3>5, <4>1, <4>2
      <4> HIDE DEF new
      <4>4. new \in [1..(n + 1) -> Hashes \cup {None}]
        BY <3>4, <4>3
      <4>5. n + 1 \in Nat
        BY <1>3
      <4> QED
        BY <4>4, <4>5
    <3>7. new = Append(old, h)
      BY <3>1, <3>2, <3>3, <3>5, <3>6, AppendIs
    <3> QED
      BY <3>7 DEF old, new
  <2>5. ASSUME NEW j \in Refs \X Generations
        PROVE  [i \in 1..Height(j)' |-> HashAt(j, i)']
                 = IF j = k THEN Append(HistoryOf[k], h) ELSE HistoryOf[j]
    <3>1. CASE j = k
      <4>1. Height(k)' = n + 1
        BY <1>1, <1>3
      <4> QED
        BY <2>4, <3>1, <4>1
    <3>2. CASE j # k
      BY <2>3, <3>2
    <3> QED
      BY <3>1, <3>2
  <2>6. HistoryOf' = [j \in Refs \X Generations |-> IF j = k THEN Append(HistoryOf[k], h)
                                                  ELSE HistoryOf[j]]
    BY <2>1, <2>5
  <2>7. DOMAIN HistoryOf = Refs \X Generations
    BY <2>2
  <2> QED
    BY <2>6, <2>7
<1>12. ASSUME HistoryOf[k] # <<>>
       PROVE  History!Current(k) # h
  <2>1. HistoryOf[k] \in Seq(Hashes \cup {None}) /\ Len(HistoryOf[k]) = n
    BY <1>3, <1>4 DEF Recorded
  <2>2. n # 0 /\ n \in 1..n
    BY <1>3, <1>12, <2>1
  <2>3. head[c].base # None
    <3>1. PICK v \in LineOf(k) : rows[v].num = n
      BY <1>3, <1>6, <2>2 DEF Numbered
    <3>2. PICK w \in Captures : /\ rows[w].status = "active"
                                /\ rows[w].ref = rows[v].ref /\ rows[w].gen = rows[v].gen
      BY DEF LineOf, IInv, ActiveIsTop
    <3>3. SameLine(c, w) /\ Present(w)
      BY <1>0, <3>2 DEF LineOf, SameLine, Key, Present
    <3>4. w = head[c].base
      BY <1>2, <3>2, <3>3 DEF IInv, HeadIsCurrent, PastRead
    <3> QED
      BY <3>4, CaptureAssumption
  <2>4. /\ rows[head[c].base].num = n /\ rows[head[c].base].hash # h
        /\ head[c].base \in LineOf(k)
    <3>1. head[c].base \in Captures /\ rows[head[c].base].status = "active"
          /\ SameLine(c, head[c].base)
      BY <1>2, <2>3 DEF IInv, HeadIsCurrent, PastRead, TypeOK
    <3> QED
      BY <1>0, <1>2, <1>3, <2>3, <3>1 DEF Appends, PastRead, LineOf, SameLine, Key, Present
  <2>5. HistoryOf[k][n] = HashAt(k, n) /\ HashAt(k, n) = rows[head[c].base].hash
    BY <1>3, <1>4, <2>2, <2>4 DEF Recorded
  <2> QED
    BY <2>1, <2>4, <2>5 DEF History!Current
<1> QED
  BY <1>0, <1>2, <1>11, <1>12 DEF History!Append1

\* Whatever captures and replays do to each other, a document's versions are the contents
\* captured of it, one after another, none twice in a row (captureAdapted,
\* deriveVersionInTransaction).
THEOREM CaptureImplementsHistory == Spec => HistorySpec
<1>1. Init => History!Init /\ Numbered /\ Appends
  <2> SUFFICES ASSUME Init PROVE History!Init /\ Numbered /\ Appends
    OBVIOUS
  <2>1. \A k : LineOf(k) = {}
    BY DEF Init, LineOf, Present, NoRow
  <2>2. \A k : Height(k) = 0
    BY <2>1, HeightIs
  <2>3. Numbered /\ Appends
    BY <2>1, <2>2 DEF Numbered, Appends, Init, PastRead
  <2>4. History!Init
    BY <2>2, HistoryIs DEF History!Init
  <2> QED
    BY <2>3, <2>4
<1>2. IInv /\ IInv' /\ Numbered /\ Numbered' /\ Appends /\ [Next]_vars => [History!Next]_HistoryOf
  <2> SUFFICES ASSUME IInv, IInv', Numbered, Numbered', Appends, [Next]_vars
               PROVE  History!Next \/ UNCHANGED HistoryOf
    OBVIOUS
  <2>1. ASSUME NEW c \in Captures, Commit(c)
        PROVE  History!Next
    BY <2>1, CommitAppends DEF History!Next
  <2>2. CASE \A c \in Captures : ~Commit(c)
    <3>1. rows' = rows
      <4>1. CASE Poll
        BY <4>1 DEF Poll, storeVars
      <4> QED
        BY <2>2, <4>1, OtherSteps
    <3> QED
      BY <3>1 DEF HistoryOf, Present
  <2> QED
    BY <2>1, <2>2
<1>3. Spec => [](Numbered /\ Appends)
  BY <1>1, Invariance, NextLines, PTL DEF Spec
<1> QED
  BY <1>1, <1>2, <1>3, Invariance, PTL DEF Spec, HistorySpec, History!Spec
=============================================================================
