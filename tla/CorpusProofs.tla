---------------------------- MODULE CorpusProofs ----------------------------
(***************************************************************************)
(* Theorems about what else writes the corpus beside captures: the         *)
(* retention verbs, and the replay pipeline with promote and demote.  For  *)
(* any number of captures, documents, contents and generations, forgets,   *)
(* purges, runs and switches.                                              *)
(*                                                                         *)
(* The retention verbs.  The invariants of Capture do not survive them:    *)
(* the head a transaction has read may be deprecated, forgotten or purged  *)
(* before it writes.  What survives is said here of each transaction       *)
(* (Transaction): its document is the one it read or has been purged, and  *)
(* as long as it is there so is the version it supersedes; a purge waits   *)
(* for a transaction that has inserted.  A forget keeps hold of the        *)
(* versions it marked (Forgetting): they are captured for good, so a row   *)
(* of theirs is in the document it found or is nowhere.                    *)
(*                                                                         *)
(* The replays.  A promote has found its run completed, and a completed    *)
(* run has accounted for every transaction begun for it (RunBook): one     *)
(* that did not end well was counted, or is the row the loop is at, or the *)
(* run was abandoned.  So no transaction writes into a generation while it *)
(* moves, and the version a replayed row supersedes is still in the        *)
(* generation it was read in (Writes).                                     *)
(*                                                                         *)
(* The archives.  A tag is on versions and in records only once the        *)
(* promote that made it is over (Tags), and a demote in its second UPDATE  *)
(* has every version of its archive before it or behind it (WholeArchive): *)
(* its commit clears an archive that is empty.                             *)
(***************************************************************************)
EXTENDS Retention, Transform, CaptureProofs

-----------------------------------------------------------------------------
(* The retention verbs.                                                    *)

\* A row in the table is whole, and its capture is over.
PresentIsWhole ==
    \A v \in Captures : Present(v) =>
        /\ pc[v] = "captured"
        /\ rows[v].ref \in Refs /\ rows[v].hash \in Hashes /\ rows[v].time \in Times

\* Numbers start at 1 and no verb takes one out of the line but a purge, which
\* takes all.
LineHasFirst ==
    \A v \in Captures : Present(v) =>
        \E u \in Captures : /\ Present(u) /\ rows[u].num = 1
                            /\ rows[u].ref = rows[v].ref /\ rows[u].gen = rows[v].gen

Tables ==
    /\ PresentIsWhole
    /\ NothingOutlivesItsDocument
    /\ LineHasFirst
    /\ ActiveIsHighest
    /\ OneActive

\* A raw capture being inserted is in no table, and is inserted by one only.
FreshIsAbsent ==
    \A c \in Captures : pc[c] \in Open /\ req[c].fresh =>
        /\ raw[Payload(c)] = "absent"
        /\ \A d \in Captures :
             pc[d] \in Open /\ req[d].fresh /\ Payload(d) = Payload(c) => d = c

\* What a transaction past the read of its head can still count on.
HeadKnown(c) ==
    /\ docs[req[c].ref] \in {head[c].doc, None}
    /\ head[c].base = None => head[c].num = 1
    /\ head[c].base # None =>
         /\ head[c].doc # None
         /\ docs[req[c].ref] = head[c].doc =>
              Present(head[c].base) /\ SameLine(c, head[c].base)
    /\ \A v \in Captures : Present(v) /\ SameLine(c, v) =>
         /\ rows[v].status = "active" => v = head[c].base
         /\ head[c].base # None \/ pc[c] = "inserted" => rows[v].num < head[c].num

Transaction(c) ==
    /\ pc[c] \in Locked => capLock[req[c].ref] = c
    /\ pc[c] \in PastRead => HeadKnown(c)
    /\ pc[c] = "inserted" =>
         /\ docs[req[c].ref] = head[c].doc
         /\ req[c].fresh \/ raw[Payload(c)] # "absent"

\* The versions a forget marked are in the document it found, or purged.
Marked(f) ==
    /\ forget[f].of \in Refs /\ forget[f].doc # None
    /\ \A v \in forget[f].marks :
         /\ pc[v] = "captured"
         /\ Present(v) => rows[v].ref = forget[f].of /\ docs[forget[f].of] = forget[f].doc

Forgetting(f) ==
    /\ forget[f].at \in {"begun", "marked", "chunks", "done"} => Marked(f)
    /\ forget[f].at \in {"chunks", "done"} =>
         \A v \in forget[f].marks : Present(v) => rows[v].text = "redacted"
    /\ forget[f].at = "done" =>
         \A v \in forget[f].marks : Present(v) => raw[RawOf(v)] # "stored"

\* What a purge will delete is of the document it is for.
Purging(p) ==
    purge[p].at # "idle" =>
        /\ purge[p].of \in Refs /\ purge[p].doc # None
        /\ \A q \in purge[p].raws : q[1] = purge[p].of

RInv ==
    /\ RTypeOK
    /\ Tables
    /\ FreshIsAbsent
    /\ \A c \in Captures : Transaction(c)
    /\ \A f \in Forgets : Forgetting(f)
    /\ \A p \in Purges : Purging(p)

-----------------------------------------------------------------------------
(* What kinds of step leave alone.                                         *)

\* A captured version stays what it is, or goes: its text and its raw capture
\* are never written back, and its document stays while it does.
CapturedKept ==
    \A v \in Captures : pc[v] = "captured" =>
        /\ pc'[v] = "captured"
        /\ Present(v)' =>
             /\ Present(v)
             /\ rows'[v].ref = rows[v].ref /\ rows'[v].hash = rows[v].hash
             /\ rows'[v].time = rows[v].time
             /\ rows[v].text = "redacted" => rows'[v].text = "redacted"
             /\ docs'[rows[v].ref] = docs[rows[v].ref]
             /\ raw[RawOf(v)] # "stored" => raw'[RawOf(v)] # "stored"

LEMMA ForgettingKept ==
    ASSUME NEW f \in Forgets, Forgetting(f), forget'[f] = forget[f], CapturedKept,
           RTypeOK, PresentIsWhole
    PROVE  Forgetting(f)'
<1> DEFINE M == forget[f].marks
<1>1. M \subseteq Captures
  BY DEF RTypeOK
<1>2. ASSUME forget[f].at \in {"begun", "marked", "chunks", "done"}
      PROVE  Marked(f)'
  <2>1. Marked(f)
    BY <1>2 DEF Forgetting
  <2>2. ASSUME NEW v \in M
        PROVE  /\ pc'[v] = "captured"
               /\ Present(v)' => rows'[v].ref = forget[f].of
                                 /\ docs'[forget[f].of] = forget[f].doc
    BY <1>1, <2>1 DEF CapturedKept, Marked
  <2> QED
    BY <2>1, <2>2 DEF Marked
<1>3. ASSUME forget[f].at \in {"chunks", "done"}, NEW v \in M, Present(v)'
      PROVE  rows'[v].text = "redacted"
  BY <1>1, <1>3 DEF Forgetting, Marked, CapturedKept
<1>4. ASSUME forget[f].at = "done", NEW v \in M, Present(v)'
      PROVE  raw'[RawOf(v)'] # "stored"
  <2>1. pc[v] = "captured" /\ v \in Captures
    BY <1>1, <1>4 DEF Forgetting, Marked
  <2>2. Present(v) /\ RawOf(v)' = RawOf(v)
    BY <2>1, <1>4 DEF CapturedKept, RawOf
  <2>3. raw[RawOf(v)] # "stored"
    BY <2>2, <1>4 DEF Forgetting
  <2> QED
    BY <2>1, <2>2, <2>3, <1>4 DEF CapturedKept
<1> QED
  BY <1>2, <1>3, <1>4 DEF Forgetting

\* A step that changes the status, the text or the class of rows, or redacts raw
\* captures, and makes nothing active.
Retouch ==
    /\ UNCHANGED <<pc, req, head, capLock, docs>>
    /\ \A v \in Captures :
         /\ Present(v)' <=> Present(v)
         /\ rows'[v].ref = rows[v].ref /\ rows'[v].gen = rows[v].gen
         /\ rows'[v].num = rows[v].num
         /\ rows'[v].hash = rows[v].hash /\ rows'[v].time = rows[v].time
         /\ rows'[v].status = "active" => rows[v].status = "active"
         /\ rows[v].text = "redacted" => rows'[v].text = "redacted"
    /\ \A p \in Payloads :
         /\ raw'[p] = "absent" <=> raw[p] = "absent"
         /\ raw[p] # "stored" => raw'[p] # "stored"

LEMMA RawIsPayload ==
    ASSUME NEW v \in Captures, Present(v), PresentIsWhole
    PROVE  RawOf(v) \in Payloads
  BY DEF PresentIsWhole, RawOf, Payloads

LEMMA OpenPayload ==
    ASSUME TypeOK, NEW c \in Captures, pc[c] \in Open
    PROVE  Payload(c) \in Payloads /\ req[c].ref \in Refs
  BY DEF TypeOK, Payload, Payloads, Open, Locked

LEMMA RetouchTables ==
    ASSUME RInv, Retouch
    PROVE  Tables' /\ CapturedKept
<1> USE DEF Retouch
<1>1. PresentIsWhole'
  BY DEF RInv, Tables, PresentIsWhole
<1>2. NothingOutlivesItsDocument'
  <2> SUFFICES ASSUME NEW v \in Captures, Present(v)'
               PROVE  docs'[rows'[v].ref] # None /\ raw'[RawOf(v)'] # "absent"
    BY DEF NothingOutlivesItsDocument
  <2>1. Present(v) /\ RawOf(v)' = RawOf(v) /\ RawOf(v) \in Payloads
    BY RawIsPayload DEF RInv, Tables, RawOf
  <2> QED
    BY <2>1 DEF RInv, Tables, NothingOutlivesItsDocument
<1>3. LineHasFirst'
  BY DEF RInv, Tables, LineHasFirst
<1>4. ActiveIsHighest'
  BY DEF RInv, Tables, ActiveIsHighest
<1>5. OneActive'
  BY DEF RInv, Tables, OneActive
<1>6. CapturedKept
  <2>1. ASSUME NEW v \in Captures, Present(v)', raw[RawOf(v)] # "stored"
        PROVE  raw'[RawOf(v)] # "stored"
    BY <2>1, RawIsPayload DEF RInv, Tables
  <2> QED
    BY <2>1 DEF CapturedKept
<1> QED
  BY <1>1, <1>2, <1>3, <1>4, <1>5, <1>6 DEF Tables

LEMMA RetouchTransactions ==
    ASSUME RInv, Retouch
    PROVE  FreshIsAbsent' /\ \A c \in Captures : Transaction(c)'
<1> USE DEF Retouch
<1>1. FreshIsAbsent'
  <2> SUFFICES ASSUME NEW c \in Captures, pc[c] \in Open, req[c].fresh
               PROVE  raw'[Payload(c)] = "absent"
    BY DEF RInv, FreshIsAbsent, Payload
  <2> QED
    BY OpenPayload DEF RInv, RTypeOK, FreshIsAbsent
<1>2. ASSUME NEW c \in Captures
      PROVE  Transaction(c)'
  <2>1. Transaction(c) /\ head[c].base \in Captures \cup {None}
    BY DEF RInv, RTypeOK, TypeOK
  <2>2. \A v \in Captures : SameLine(c, v)' <=> SameLine(c, v)
    BY DEF SameLine
  <2>3. pc[c] \in PastRead => HeadKnown(c)'
    BY <2>1, <2>2 DEF Transaction, HeadKnown
  <2>4. pc[c] = "inserted" => Payload(c) \in Payloads
    BY OpenPayload DEF RInv, RTypeOK, Open, Locked
  <2> QED
    BY <2>1, <2>3, <2>4 DEF Transaction, Payload
<1> QED
  BY <1>1, <1>2

-----------------------------------------------------------------------------
(* The steps of a capture that write no row.                               *)

\* A step of c before its commit, or one that ends it without a version.
Quiet(c) ==
    /\ \A d \in Captures : d # c => pc'[d] = pc[d] /\ req'[d] = req[d] /\ head'[d] = head[d]
    /\ UNCHANGED <<rows, docs>>
    /\ pc[c] # "captured"
    /\ \A r \in Refs : capLock[r] \notin {c, None} => capLock'[r] = capLock[r]
    /\ \A p \in Payloads : raw[p] # "absent" => raw'[p] = raw[p]

LEMMA QuietTables ==
    ASSUME RInv, NEW c \in Captures, Quiet(c)
    PROVE  Tables' /\ CapturedKept
<1> USE DEF Quiet
<1>1. \A v \in Captures : Present(v)' <=> Present(v)
  BY DEF Present
<1>2. \A v \in Captures : Present(v) => v # c
  BY DEF RInv, Tables, PresentIsWhole
<1>3. ASSUME NEW v \in Captures, Present(v)
      PROVE  raw'[RawOf(v)] = raw[RawOf(v)] /\ raw[RawOf(v)] # "absent"
  BY <1>3, RawIsPayload DEF RInv, Tables, NothingOutlivesItsDocument
<1>4. PresentIsWhole'
  BY <1>1, <1>2 DEF RInv, Tables, PresentIsWhole
<1>5. NothingOutlivesItsDocument'
  BY <1>1, <1>3 DEF RInv, Tables, NothingOutlivesItsDocument, RawOf
<1>6. LineHasFirst' /\ ActiveIsHighest' /\ OneActive'
  BY <1>1 DEF RInv, Tables, LineHasFirst, ActiveIsHighest, OneActive
<1>7. CapturedKept
  BY <1>1, <1>2, <1>3 DEF CapturedKept
<1> QED
  BY <1>4, <1>5, <1>6, <1>7 DEF Tables

LEMMA QuietOthers ==
    ASSUME RInv, NEW c \in Captures, Quiet(c), NEW d \in Captures, d # c
    PROVE  Transaction(d)'
<1> USE CaptureAssumption DEF Quiet
<1>1. Transaction(d) /\ (pc[d] \in Locked => req[d].ref \in Refs)
  BY DEF RInv, RTypeOK, TypeOK, Locked
<1>2. \A v \in Captures : (Present(v)' <=> Present(v)) /\ (SameLine(d, v)' <=> SameLine(d, v))
  BY DEF Present, SameLine
<1>3. head[d].base # None => head[d].base \in Captures
  BY DEF RInv, RTypeOK, TypeOK
<1>4. pc[d] \in PastRead => HeadKnown(d)'
  BY <1>1, <1>2, <1>3 DEF Transaction, HeadKnown
<1>5. pc[d] = "inserted" => Payload(d) \in Payloads
  BY OpenPayload DEF RInv, RTypeOK, Open, Locked
<1>6. pc[d] \in Locked => capLock'[req[d].ref] = d
  BY <1>1 DEF Transaction
<1> QED
  BY <1>1, <1>4, <1>5, <1>6 DEF Transaction, Payload

\* No step but a begin opens a transaction.
LEMMA FreshUnmoved ==
    ASSUME RInv, UNCHANGED <<req, raw>>,
           \A d \in Captures : pc'[d] \in Open => pc[d] \in Open
    PROVE  FreshIsAbsent'
<1>1. \A d \in Captures : req'[d] = req[d] /\ Payload(d)' = Payload(d)
  BY DEF Payload
<1> QED
  BY <1>1 DEF RInv, FreshIsAbsent

\* A raw capture is stored by the one transaction that inserts it, at its end.
LEMMA StoreRawStores ==
    ASSUME RInv, NEW c \in Captures, pc[c] \in Open, StoreRaw(c)
    PROVE  /\ Payload(c) \in Payloads
           /\ \A p \in Payloads : raw[p] # "absent" => raw'[p] = raw[p]
           /\ \A p \in Payloads : p # Payload(c) => raw'[p] = raw[p]
           /\ req[c].fresh => raw'[Payload(c)] = "stored"
<1>1. Payload(c) \in Payloads
  BY OpenPayload DEF RInv, RTypeOK
<1>2. req[c].fresh => raw[Payload(c)] = "absent"
  BY DEF RInv, FreshIsAbsent
<1> QED
  BY <1>1, <1>2 DEF StoreRaw, RInv, RTypeOK, TypeOK

LEMMA StoreRawFresh ==
    ASSUME RInv, NEW c \in Captures, pc[c] \in Open, StoreRaw(c), UNCHANGED req,
           \A d \in Captures : pc'[d] \in Open => pc[d] \in Open /\ d # c
    PROVE  FreshIsAbsent'
<1>1. \A d \in Captures : req'[d] = req[d] /\ Payload(d)' = Payload(d)
  BY DEF Payload
<1>2. ASSUME NEW d \in Captures, pc'[d] \in Open, req[d].fresh
      PROVE  raw'[Payload(d)] = "absent"
  <2>1. raw[Payload(d)] = "absent" /\ Payload(d) \in Payloads
    BY <1>2, OpenPayload DEF RInv, RTypeOK, FreshIsAbsent
  <2>2. CASE Payload(d) = Payload(c)
    BY <1>2, <2>2 DEF RInv, FreshIsAbsent, StoreRaw
  <2>3. CASE Payload(d) # Payload(c)
    BY <2>1, <2>3, StoreRawStores
  <2> QED
    BY <2>2, <2>3
<1> QED
  BY <1>1, <1>2 DEF RInv, FreshIsAbsent

\* What is left to show of a step of c that writes no row.
LEMMA QuietKeeps ==
    ASSUME RInv, RTypeOK', UNCHANGED rtVars, NEW c \in Captures, Quiet(c),
           FreshIsAbsent', Transaction(c)'
    PROVE  RInv'
<1>1. \A d \in Captures : Transaction(d)'
  BY QuietOthers
<1>2. Tables' /\ CapturedKept
  BY QuietTables
<1>3. \A f \in Forgets : Forgetting(f)'
  BY <1>2, ForgettingKept DEF RInv, Tables, rtVars
<1>4. \A p \in Purges : Purging(p)'
  BY DEF RInv, Purging, rtVars
<1> QED
  BY <1>1, <1>2, <1>3, <1>4 DEF RInv

\* A raw capture in flight blocks the insert of the same one.
LEMMA BeginFresh ==
    ASSUME RInv, RTypeOK', NEW c \in Captures, pc[c] = "idle", pc' = [pc EXCEPT ![c] = "raw"],
           NEW q, req' = [req EXCEPT ![c] = q], UNCHANGED raw,
           q.fresh => /\ raw[Payload(c)'] = "absent"
                      /\ ~RawInFlight(Payload(c)')
    PROVE  FreshIsAbsent'
<1>1. \A d \in Captures : d # c => pc'[d] = pc[d] /\ req'[d] = req[d] /\ Payload(d)' = Payload(d)
  BY DEF RInv, RTypeOK, TypeOK, Payload
<1>2. req'[c] = q
  BY DEF RInv, RTypeOK, TypeOK
<1>3. ASSUME NEW d \in Captures, pc'[d] \in Open, req'[d].fresh
      PROVE  raw'[Payload(d)'] = "absent"
  BY <1>1, <1>2, <1>3 DEF RInv, FreshIsAbsent
<1>4. ASSUME NEW d \in Captures, pc'[d] \in Open, req'[d].fresh,
             NEW e \in Captures, pc'[e] \in Open, req'[e].fresh, Payload(e)' = Payload(d)'
      PROVE  e = d
  <2>1. CASE d = c \/ e = c
    BY <1>1, <1>2, <1>4, <2>1 DEF RawInFlight
  <2>2. CASE d # c /\ e # c
    BY <1>1, <1>4, <2>2 DEF RInv, FreshIsAbsent
  <2> QED
    BY <2>1, <2>2
<1> QED
  BY <1>3, <1>4 DEF FreshIsAbsent

LEMMA BeginKeepsTables ==
    ASSUME RInv, RTypeOK', UNCHANGED rtVars, NEW c \in Captures,
           \/ \E r \in Refs, h \in Hashes, t \in Times : InsertOrReuseRawCapture(c, r, h, t)
           \/ \E r \in Refs, h \in Hashes, t \in Times, g \in Runs :
                DeriveFromRawCapture(c, r, h, t, g)
    PROVE  RInv'
<1> USE DEF lockVars, storeVars, feedVars
<1>1. PICK q : /\ req' = [req EXCEPT ![c] = q]
               /\ q.fresh => /\ raw[<<q.ref, q.hash, q.time>>] = "absent"
                             /\ ~RawInFlight(<<q.ref, q.hash, q.time>>)
  <2>1. ASSUME NEW r \in Refs, NEW h \in Hashes, NEW t \in Times,
               InsertOrReuseRawCapture(c, r, h, t)
        PROVE  \E q : /\ req' = [req EXCEPT ![c] = q]
                      /\ q.fresh => /\ raw[<<q.ref, q.hash, q.time>>] = "absent"
                                    /\ ~RawInFlight(<<q.ref, q.hash, q.time>>)
    <3> WITNESS [ref |-> r, gen |-> Live, hash |-> h, time |-> t,
                 fresh |-> raw[<<r, h, t>>] = "absent"]
    <3> QED
      BY <2>1 DEF InsertOrReuseRawCapture
  <2>2. ASSUME NEW r \in Refs, NEW h \in Hashes, NEW t \in Times, NEW g \in Runs,
               DeriveFromRawCapture(c, r, h, t, g)
        PROVE  \E q : /\ req' = [req EXCEPT ![c] = q]
                      /\ q.fresh => /\ raw[<<q.ref, q.hash, q.time>>] = "absent"
                                    /\ ~RawInFlight(<<q.ref, q.hash, q.time>>)
    <3> WITNESS [ref |-> r, gen |-> g, hash |-> h, time |-> t, fresh |-> FALSE]
    <3> QED
      BY <2>2 DEF DeriveFromRawCapture
  <2> QED
    BY <2>1, <2>2
<1>2. /\ pc[c] = "idle" /\ pc' = [pc EXCEPT ![c] = "raw"]
      /\ UNCHANGED <<head, capLock, rows, docs, raw>>
  BY DEF InsertOrReuseRawCapture, DeriveFromRawCapture
<1>3. pc'[c] = "raw" /\ req'[c] = q
  BY <1>1, <1>2 DEF RInv, RTypeOK, TypeOK
<1>4. Quiet(c)
  BY <1>1, <1>2 DEF Quiet, RInv, RTypeOK, TypeOK
<1>5. FreshIsAbsent'
  BY <1>1, <1>2, <1>3, BeginFresh DEF Payload
<1>6. Transaction(c)'
  BY <1>3 DEF Transaction, Locked, PastRead
<1> QED
  BY <1>4, <1>5, <1>6, QuietKeeps

LEMMA LockRefKeepsTables ==
    ASSUME RInv, RTypeOK', UNCHANGED rtVars, NEW c \in Captures, LockRef(c)
    PROVE  RInv'
<1> USE DEF LockRef, CaptureLockFree, storeVars, feedVars
<1>1. pc'[c] = "locked" /\ req[c].ref \in Refs
  BY DEF RInv, RTypeOK, TypeOK
<1>2. Quiet(c)
  BY DEF Quiet, RInv, RTypeOK, TypeOK
<1>3. FreshIsAbsent'
  <2>1. \A d \in Captures : pc'[d] \in Open => pc[d] \in Open
    BY <1>1 DEF Open, RInv, RTypeOK, TypeOK
  <2> QED
    BY <2>1, FreshUnmoved
<1>4. Transaction(c)'
  BY <1>1 DEF Transaction, PastRead, RInv, RTypeOK, TypeOK
<1> QED
  BY <1>2, <1>3, <1>4, QuietKeeps

\* What is read as the head of a document is its highest version.
LEMMA ReadHeadKeepsTables ==
    ASSUME RInv, RTypeOK', UNCHANGED rtVars, NEW c \in Captures, ReadHead(c)
    PROVE  RInv'
<1> USE DEF lockVars, storeVars, feedVars
<1> DEFINE A == Actives(req[c].ref, req[c].gen)
<1>1. PICK b \in A \cup {None} :
          /\ b = None <=> A = {}
          /\ head' = [head EXCEPT ![c] = [doc |-> docs[req[c].ref], base |-> b,
                                          num |-> NextNumber(b)]]
          /\ pc' = [pc EXCEPT ![c] =
                      IF SameContent(b, req[c].hash) THEN "same" ELSE "read"]
  BY DEF ReadHead
<1>2. /\ pc[c] = "locked"
      /\ UNCHANGED <<req, seq, capLock, feedLock, rows, docs, raw, nextSeq>>
  BY DEF ReadHead
<1>3. pc'[c] \in {"same", "read"}
  BY <1>1 DEF RInv, RTypeOK, TypeOK
<1>4. head'[c].doc = docs[req[c].ref] /\ head'[c].base = b /\ head'[c].num = NextNumber(b)
  BY <1>1 DEF RInv, RTypeOK, TypeOK
<1>5. Quiet(c)
  BY <1>1, <1>2 DEF Quiet, RInv, RTypeOK, TypeOK
<1>6. FreshIsAbsent'
  <2>1. \A d \in Captures : pc'[d] \in Open => pc[d] \in Open
    BY <1>2, <1>5 DEF Quiet, Open, Locked
  <2> QED
    BY <1>2, <2>1, FreshUnmoved
<1>7. b \in Captures => Present(b) /\ rows[b].status = "active" /\ SameLine(c, b)
  BY <1>1, CaptureAssumption DEF Actives, Present, SameLine
<1>8. b = None \/ b \in Captures
  BY DEF Actives
<1>9. ASSUME NEW v \in Captures, Present(v), SameLine(c, v)
      PROVE  /\ rows[v].status = "active" => v = b
             /\ b # None => rows[v].num < NextNumber(b)
  <2>1. rows[v].status = "active" => v = b
    <3> SUFFICES ASSUME rows[v].status = "active" PROVE v = b
      OBVIOUS
    <3>1. v \in A
      BY <1>9 DEF Actives, SameLine
    <3>2. b \in Captures /\ rows[b].status = "active" /\ SameLine(c, b)
      BY <1>1, <1>7, <1>8, <3>1
    <3> QED
      BY <1>9, <3>2 DEF RInv, Tables, OneActive, SameLine
  <2>2. b # None => rows[v].num <= rows[b].num
    BY <1>7, <1>8, <1>9 DEF RInv, Tables, ActiveIsHighest, SameLine
  <2>3. b # None => rows[v].num \in Nat /\ rows[b].num \in Nat
    BY <1>8 DEF RInv, RTypeOK, TypeOK, Row
  <2> QED
    BY <2>1, <2>2, <2>3 DEF NextNumber
<1>10. b # None => docs[req[c].ref] # None
  BY <1>7, <1>8 DEF RInv, Tables, NothingOutlivesItsDocument, SameLine
<1>11. HeadKnown(c)'
  <2>1. \A v \in Captures : (Present(v)' <=> Present(v)) /\ (SameLine(c, v)' <=> SameLine(c, v))
    BY <1>2 DEF Present, SameLine
  <2>2. b # None => Present(b)' /\ SameLine(c, b)'
    BY <1>7, <1>8, <2>1
  <2>3. b = None => NextNumber(b) = 1
    BY DEF NextNumber
  <2>4. ASSUME NEW v \in Captures, Present(v)', SameLine(c, v)'
        PROVE  /\ rows'[v].status = "active" => v = head'[c].base
               /\ head'[c].base # None \/ pc'[c] = "inserted" => rows'[v].num < head'[c].num
    BY <1>2, <1>3, <1>4, <1>9, <2>1, <2>4
  <2>5. head'[c].base # None =>
           Present(head[c].base)' /\ SameLine(c, head[c].base)'
    BY <1>4, <2>2 DEF Present, SameLine
  <2>6. docs'[req'[c].ref] = head'[c].doc
    BY <1>2, <1>4
  <2> QED
    BY <1>2, <1>4, <1>10, <2>3, <2>4, <2>5, <2>6 DEF HeadKnown
<1>12. capLock'[req'[c].ref] = c
  BY <1>2 DEF RInv, Transaction, Locked
<1> QED
  BY <1>3, <1>5, <1>6, <1>11, <1>12, QuietKeeps DEF Transaction

\* Nothing has changed that it read.
LEMMA HeadStays ==
    ASSUME RInv, NEW c \in Captures, pc[c] \in PastRead, pc'[c] # "inserted",
           UNCHANGED <<rows, docs, req, head, capLock>>
    PROVE  Transaction(c)'
<1> USE DEF PastRead, Locked
<1>1. HeadKnown(c) /\ capLock[req[c].ref] = c
  BY DEF RInv, Transaction
<1>2. \A v : (Present(v)' <=> Present(v)) /\ (SameLine(c, v)' <=> SameLine(c, v))
  BY DEF Present, SameLine
<1>3. HeadKnown(c)'
  BY <1>1, <1>2 DEF HeadKnown
<1> QED
  BY <1>1, <1>3 DEF Transaction

LEMMA SupersedeKeepsTables ==
    ASSUME RInv, RTypeOK', UNCHANGED rtVars, NEW c \in Captures, Supersede(c)
    PROVE  RInv'
<1> USE DEF Supersede, lockVars, storeVars, feedVars
<1>1. pc'[c] = "held" /\ \A d \in Captures : d # c => pc'[d] = pc[d]
  BY DEF RInv, RTypeOK, TypeOK
<1>2. Quiet(c)
  BY <1>1 DEF Quiet
<1>3. FreshIsAbsent'
  BY <1>1, FreshUnmoved DEF Open, Locked
<1>4. Transaction(c)'
  BY <1>1, HeadStays DEF PastRead, Locked
<1> QED
  BY <1>2, <1>3, <1>4, QuietKeeps

LEMMA LockFeedKeepsTables ==
    ASSUME RInv, RTypeOK', UNCHANGED rtVars, NEW c \in Captures, LockFeed(c)
    PROVE  RInv'
<1> USE DEF LockFeed, ReadyToInsert, storeVars, feedVars
<1>1. pc'[c] = "feed" /\ \A d \in Captures : d # c => pc'[d] = pc[d]
  BY DEF RInv, RTypeOK, TypeOK
<1>2. Quiet(c)
  BY <1>1 DEF Quiet
<1>3. FreshIsAbsent'
  BY <1>1, FreshUnmoved DEF Open, Locked
<1>4. Transaction(c)'
  BY <1>1, HeadStays DEF PastRead, Locked
<1> QED
  BY <1>2, <1>3, <1>4, QuietKeeps

\* With no active version the number is 1, and a line with any version has a
\* first: the unique index lets the insert through only when there is none.
LEMMA InsertVersionKeepsTables ==
    ASSUME RInv, RTypeOK', UNCHANGED rtVars, NEW c \in Captures, InsertVersion(c)
    PROVE  RInv'
<1> USE DEF InsertVersion, AtInsert, ReadyToInsert, lockVars, feedVars
<1>1. pc'[c] = "inserted" /\ \A d \in Captures : d # c => pc'[d] = pc[d]
  BY DEF RInv, RTypeOK, TypeOK
<1>2. Quiet(c)
  BY <1>1 DEF Quiet
<1>3. FreshIsAbsent'
  BY <1>1, FreshUnmoved DEF Open, Locked
<1>4. HeadKnown(c) /\ capLock[req[c].ref] = c
  BY DEF RInv, Transaction, PastRead, Locked
<1>5. ASSUME NEW v \in Captures, Present(v), SameLine(c, v)
      PROVE  rows[v].num < head[c].num
  <2>1. CASE head[c].base # None
    BY <1>4, <1>5, <2>1 DEF HeadKnown
  <2>2. CASE head[c].base = None
    <3>1. PICK u \in Captures : /\ Present(u) /\ rows[u].num = 1
                                /\ rows[u].ref = rows[v].ref /\ rows[u].gen = rows[v].gen
      BY <1>5 DEF RInv, Tables, LineHasFirst
    <3>2. NumberTaken(c)
      BY <1>4, <1>5, <2>2, <3>1 DEF NumberTaken, HeadKnown, SameLine
    <3> QED
      BY <3>2
  <2> QED
    BY <2>1, <2>2
<1>6. \A v : (Present(v)' <=> Present(v)) /\ (SameLine(c, v)' <=> SameLine(c, v))
  BY DEF Present, SameLine
<1>7. HeadKnown(c)'
  BY <1>4, <1>5, <1>6 DEF HeadKnown
<1>8. Transaction(c)'
  BY <1>1, <1>4, <1>7 DEF Transaction, KeysPresent, Payload
<1> QED
  BY <1>2, <1>3, <1>8, QuietKeeps

\* A transaction that ends without a version leaves the tables as they are.
LEMMA EndKeepsTables ==
    ASSUME RInv, RTypeOK', UNCHANGED rtVars, NEW c \in Captures, pc[c] \in Open,
           NEW end, end \notin Open, pc' = [pc EXCEPT ![c] = end], ReleaseLocks(c),
           UNCHANGED <<req, head, rows, docs>>, UNCHANGED raw \/ StoreRaw(c)
    PROVE  RInv'
<1>1. pc'[c] = end /\ \A d \in Captures : d # c => pc'[d] = pc[d]
  BY DEF RInv, RTypeOK, TypeOK
<1>2. \A p \in Payloads : raw[p] # "absent" => raw'[p] = raw[p]
  BY StoreRawStores
<1>3. \A r \in Refs : capLock[r] \notin {c, None} => capLock'[r] = capLock[r]
  BY DEF ReleaseLocks
<1>4. Quiet(c)
  BY <1>1, <1>2, <1>3 DEF Quiet, Open, Locked
<1>5. FreshIsAbsent'
  <2>1. \A d \in Captures : pc'[d] \in Open => pc[d] \in Open /\ d # c
    BY <1>1
  <2> QED
    BY <2>1, FreshUnmoved, StoreRawFresh
<1>6. Transaction(c)'
  BY <1>1 DEF Transaction, Open, Locked, PastRead
<1> QED
  BY <1>4, <1>5, <1>6, QuietKeeps

LEMMA PollKeepsTables ==
    ASSUME RInv, RTypeOK', UNCHANGED <<txVars, lockVars, storeVars, rtVars>>
    PROVE  RInv'
<1> USE DEF txVars, lockVars, storeVars
<1>1. Retouch
  BY DEF Retouch, Present
<1>2. Tables' /\ CapturedKept /\ FreshIsAbsent' /\ \A c \in Captures : Transaction(c)'
  BY <1>1, RetouchTables, RetouchTransactions
<1>3. \A f \in Forgets : Forgetting(f)'
  BY <1>2, ForgettingKept DEF RInv, Tables, rtVars
<1>4. \A p \in Purges : Purging(p)'
  BY DEF RInv, Purging, rtVars
<1> QED
  BY <1>2, <1>3, <1>4 DEF RInv

-----------------------------------------------------------------------------
(* The commit.                                                             *)

\* What a commit does to the version table.
LEMMA CommittedRows ==
    ASSUME RInv, NEW c \in Captures, Commit(c)
    PROVE  /\ ~Present(c)
           /\ \A v \in Captures : v # c =>
                /\ Present(v)' <=> Present(v)
                /\ rows'[v].ref = rows[v].ref /\ rows'[v].gen = rows[v].gen
                /\ rows'[v].num = rows[v].num
                /\ rows'[v].hash = rows[v].hash /\ rows'[v].time = rows[v].time
                /\ rows'[v].text = rows[v].text
                /\ rows'[v].status = "active" <=>
                     rows[v].status = "active" /\ v # head[c].base
           /\ rows'[c] = NewRow(c)
           /\ Present(c)' /\ rows'[c].status = "active"
           /\ rows'[c].ref = req[c].ref /\ rows'[c].gen = req[c].gen
           /\ rows'[c].num = head[c].num
           /\ rows'[c].hash = req[c].hash /\ rows'[c].time = req[c].time
<1>1. pc[c] = "inserted" /\ rows' = Publish(c)
  BY DEF Commit
<1>2. rows'[c] = NewRow(c)
  BY <1>1 DEF Publish
<1>3. \A v \in Captures : v # c /\ v # head[c].base => rows'[v] = rows[v]
  BY <1>1 DEF Publish
<1>4. ~Present(c)
  BY <1>1 DEF RInv, Tables, PresentIsWhole
<1>5. ASSUME NEW v \in Captures, v # c, v = head[c].base
      PROVE  /\ Present(v)
             /\ rows'[v].status = "superseded"
             /\ rows'[v].ref = rows[v].ref /\ rows'[v].gen = rows[v].gen
             /\ rows'[v].num = rows[v].num
             /\ rows'[v].hash = rows[v].hash /\ rows'[v].time = rows[v].time
             /\ rows'[v].text = rows[v].text
  <2>1. HeadKnown(c) /\ docs[req[c].ref] = head[c].doc /\ head[c].base # None
    BY <1>1, <1>5, CaptureAssumption DEF RInv, Transaction, PastRead
  <2>2. Present(v)
    BY <1>5, <2>1 DEF HeadKnown
  <2>3. rows'[v] = [rows[v] EXCEPT !.status = "superseded"]
    BY <1>1, <1>5 DEF Publish
  <2>4. rows[v] \in Row
    BY DEF RInv, RTypeOK, TypeOK
  <2> QED
    BY <2>2, <2>3, <2>4 DEF Row
<1>6. \A v \in Captures : v # c => (Present(v)' <=> Present(v))
  BY <1>3, <1>5 DEF Present
<1>7. /\ Present(c)' /\ rows'[c].status = "active"
      /\ rows'[c].ref = req[c].ref /\ rows'[c].gen = req[c].gen
      /\ rows'[c].num = head[c].num
      /\ rows'[c].hash = req[c].hash /\ rows'[c].time = req[c].time
  BY <1>2 DEF NewRow, Present
<1>8. ASSUME NEW v \in Captures, v # c
      PROVE  /\ rows'[v].ref = rows[v].ref /\ rows'[v].gen = rows[v].gen
             /\ rows'[v].num = rows[v].num
             /\ rows'[v].hash = rows[v].hash /\ rows'[v].time = rows[v].time
             /\ rows'[v].text = rows[v].text
             /\ rows'[v].status = "active" <=>
                  rows[v].status = "active" /\ v # head[c].base
  BY <1>3, <1>5, <1>8
<1> QED
  BY <1>2, <1>4, <1>6, <1>7, <1>8

\* The transaction kept its lock and its row lock: what it read still holds.
LEMMA CommitSees ==
    ASSUME RInv, NEW c \in Captures, Commit(c)
    PROVE  /\ req[c].ref \in Refs /\ capLock[req[c].ref] = c
           /\ docs[req[c].ref] = head[c].doc
           /\ head[c].base = None => head[c].num = 1
           /\ head[c].base # None => head[c].base \in Captures
                                     /\ Present(head[c].base) /\ SameLine(c, head[c].base)
           /\ \A v \in Captures : Present(v) /\ SameLine(c, v) =>
                /\ rows[v].status = "active" => v = head[c].base
                /\ rows[v].num < head[c].num
<1>1. pc[c] = "inserted"
  BY DEF Commit
<1>2. Transaction(c) /\ HeadKnown(c)
  BY <1>1 DEF RInv, Transaction, PastRead
<1>3. head[c].base \in Captures \cup {None} /\ req[c].ref \in Refs
  BY <1>1 DEF RInv, RTypeOK, TypeOK
<1> QED
  BY <1>1, <1>2, <1>3 DEF Transaction, HeadKnown, Locked

LEMMA CommitTables ==
    ASSUME RInv, RTypeOK', NEW c \in Captures, Commit(c)
    PROVE  Tables' /\ CapturedKept
<1> DEFINE r == req[c].ref
<1>1. pc[c] = "inserted" /\ pc[c] \in Open
  BY DEF Commit, Open, Locked
<1>2. pc'[c] = "captured" /\ \A v \in Captures : v # c => pc'[v] = pc[v]
  BY DEF Commit, RInv, RTypeOK, TypeOK
<1>3. r \in Refs /\ req[c].hash \in Hashes /\ req[c].time \in Times
  BY <1>1 DEF RInv, RTypeOK, TypeOK
<1>4. /\ docs'[r] # None
      /\ \A q \in Refs : docs[q] # None => docs'[q] = docs[q]
  <2>1. c # None /\ docs[r] = head[c].doc
    BY CommitSees, CaptureAssumption
  <2>2. docs' = [docs EXCEPT ![r] = IF head[c].doc = None THEN c ELSE @]
    BY DEF Commit
  <2>3. docs \in [Refs -> Captures \cup {None}]
    BY DEF RInv, RTypeOK, TypeOK
  <2> QED
    BY <1>3, <2>1, <2>2, <2>3
<1>5. /\ raw'[Payload(c)] # "absent"
      /\ \A p \in Payloads : raw[p] # "absent" => raw'[p] = raw[p]
  <2>1. Transaction(c) /\ StoreRaw(c)
    BY DEF RInv, Commit
  <2> QED
    BY <1>1, <2>1, StoreRawStores DEF Transaction
<1>6. PresentIsWhole'
  <2> SUFFICES ASSUME NEW v \in Captures, Present(v)'
               PROVE  /\ pc'[v] = "captured"
                      /\ rows'[v].ref \in Refs /\ rows'[v].hash \in Hashes
                      /\ rows'[v].time \in Times
    BY DEF PresentIsWhole
  <2>1. CASE v = c
    BY <1>2, <1>3, <2>1, CommittedRows
  <2>2. CASE v # c
    BY <1>2, <2>2, CommittedRows DEF RInv, Tables, PresentIsWhole
  <2> QED
    BY <2>1, <2>2
<1>7. NothingOutlivesItsDocument'
  <2> SUFFICES ASSUME NEW v \in Captures, Present(v)'
               PROVE  docs'[rows'[v].ref] # None /\ raw'[RawOf(v)'] # "absent"
    BY DEF NothingOutlivesItsDocument
  <2>1. CASE v = c
    BY <1>4, <1>5, <2>1, CommittedRows DEF RawOf, Payload
  <2>2. CASE v # c
    <3>1. Present(v) /\ RawOf(v)' = RawOf(v) /\ rows'[v].ref = rows[v].ref
      BY <2>2, CommittedRows DEF RawOf
    <3>2. RawOf(v) \in Payloads /\ rows[v].ref \in Refs
      BY <3>1, RawIsPayload DEF RInv, Tables, PresentIsWhole
    <3> QED
      BY <1>4, <1>5, <3>1, <3>2 DEF RInv, Tables, NothingOutlivesItsDocument
  <2> QED
    BY <2>1, <2>2
<1>8. LineHasFirst'
  <2> SUFFICES ASSUME NEW v \in Captures, Present(v)'
               PROVE  \E u \in Captures : /\ Present(u)' /\ rows'[u].num = 1
                                          /\ rows'[u].ref = rows'[v].ref
                                          /\ rows'[u].gen = rows'[v].gen
    BY DEF LineHasFirst
  <2>1. CASE v = c /\ head[c].base = None
    BY <2>1, CommittedRows, CommitSees
  <2>2. ASSUME NEW w \in Captures, Present(w), rows[w].ref = rows'[v].ref,
               rows[w].gen = rows'[v].gen
        PROVE  \E u \in Captures : /\ Present(u)' /\ rows'[u].num = 1
                                   /\ rows'[u].ref = rows'[v].ref
                                   /\ rows'[u].gen = rows'[v].gen
    <3>1. PICK u \in Captures : /\ Present(u) /\ rows[u].num = 1
                                /\ rows[u].ref = rows[w].ref /\ rows[u].gen = rows[w].gen
      BY <2>2 DEF RInv, Tables, LineHasFirst
    <3>2. u # c
      BY <3>1, CommittedRows
    <3> QED
      BY <2>2, <3>1, <3>2, CommittedRows
  <2>3. CASE v = c /\ head[c].base # None
    BY <2>2, <2>3, CommittedRows, CommitSees DEF SameLine
  <2>4. CASE v # c
    BY <2>2, <2>4, CommittedRows
  <2> QED
    BY <2>1, <2>3, <2>4
<1>9. \A v \in Captures : v # c /\ rows'[v].status = "active" =>
         ~(rows'[v].ref = req[c].ref /\ rows'[v].gen = req[c].gen)
  BY CommittedRows, CommitSees DEF SameLine, Present
<1>10. ActiveIsHighest'
  <2> SUFFICES ASSUME NEW v \in Captures, NEW w \in Captures,
                      rows'[v].status = "active", Present(w)',
                      rows'[w].ref = rows'[v].ref, rows'[w].gen = rows'[v].gen
               PROVE  rows'[w].num <= rows'[v].num
    BY DEF ActiveIsHighest
  <2>1. rows'[w].num \in Nat /\ rows'[v].num \in Nat
    BY DEF RTypeOK, TypeOK, Row
  <2>2. CASE v = c /\ w # c
    <3>1. Present(w) /\ SameLine(c, w)
      BY <2>2, CommittedRows DEF SameLine
    <3> QED
      BY <2>1, <2>2, <3>1, CommittedRows, CommitSees
  <2>3. CASE v # c
    <3>1. w # c
      BY <1>9, <2>3, CommittedRows
    <3> QED
      BY <2>3, <3>1, CommittedRows DEF RInv, Tables, ActiveIsHighest
  <2> QED
    BY <2>1, <2>2, <2>3
<1>11. OneActive'
  <2> SUFFICES ASSUME NEW v \in Captures, NEW w \in Captures,
                      rows'[v].status = "active", rows'[w].status = "active",
                      rows'[w].ref = rows'[v].ref, rows'[w].gen = rows'[v].gen
               PROVE  v = w
    BY DEF OneActive
  <2>1. CASE v = c \/ w = c
    BY <1>9, <2>1, CommittedRows
  <2>2. CASE v # c /\ w # c
    BY <2>2, CommittedRows DEF RInv, Tables, OneActive
  <2> QED
    BY <2>1, <2>2
<1>12. CapturedKept
  <2> SUFFICES ASSUME NEW v \in Captures, pc[v] = "captured"
               PROVE  /\ pc'[v] = "captured"
                      /\ Present(v)' =>
                           /\ Present(v)
                           /\ rows'[v].ref = rows[v].ref /\ rows'[v].hash = rows[v].hash
                           /\ rows'[v].time = rows[v].time
                           /\ rows[v].text = "redacted" => rows'[v].text = "redacted"
                           /\ docs'[rows[v].ref] = docs[rows[v].ref]
                           /\ raw[RawOf(v)] # "stored" => raw'[RawOf(v)] # "stored"
    BY DEF CapturedKept
  <2>1. v # c
    BY <1>1
  <2>2. ASSUME Present(v)
        PROVE  docs'[rows[v].ref] = docs[rows[v].ref] /\ raw'[RawOf(v)] = raw[RawOf(v)]
    <3>1. RawOf(v) \in Payloads /\ rows[v].ref \in Refs
      BY <2>2, RawIsPayload DEF RInv, Tables, PresentIsWhole
    <3>2. docs[rows[v].ref] # None /\ raw[RawOf(v)] # "absent"
      BY <2>2 DEF RInv, Tables, NothingOutlivesItsDocument
    <3> QED
      BY <1>4, <1>5, <3>1, <3>2
  <2> QED
    BY <1>2, <2>1, <2>2, CommittedRows
<1> QED
  BY <1>6, <1>7, <1>8, <1>10, <1>11, <1>12 DEF Tables

LEMMA CommitKeepsTables ==
    ASSUME RInv, RTypeOK', UNCHANGED rtVars, NEW c \in Captures, Commit(c)
    PROVE  RInv'
<1>1. Tables' /\ CapturedKept
  BY CommitTables
<1>2. pc'[c] = "captured" /\ \A v \in Captures : v # c => pc'[v] = pc[v]
  BY DEF Commit, RInv, RTypeOK, TypeOK
<1>3. pc[c] \in Open /\ StoreRaw(c) /\ UNCHANGED <<req, head>>
  BY DEF Commit, Open, Locked
<1>4. FreshIsAbsent'
  <2>1. \A d \in Captures : pc'[d] \in Open => pc[d] \in Open /\ d # c
    BY <1>2 DEF Open, Locked
  <2> QED
    BY <1>3, <2>1, StoreRawFresh
<1>5. ASSUME NEW d \in Captures, d # c
      PROVE  Transaction(d)'
  <2> USE CaptureAssumption
  <2>1. Transaction(d) /\ pc'[d] = pc[d]
    BY <1>2, <1>5 DEF RInv
  <2>2. ASSUME pc[d] \in Locked
        PROVE  /\ req[d].ref \in Refs /\ req[d].ref # req[c].ref
               /\ capLock'[req[d].ref] = d
    <3>1. req[d].ref \in Refs /\ capLock[req[d].ref] = d
      BY <2>1, <2>2 DEF Transaction, RInv, RTypeOK, TypeOK, Locked
    <3> QED
      BY <1>5, <3>1, CommitSees DEF Commit, ReleaseLocks
  <2>3. pc[d] \in Locked => docs'[req[d].ref] = docs[req[d].ref]
    BY <2>2 DEF Commit, RInv, RTypeOK, TypeOK
  <2>4. ASSUME pc[d] \in PastRead
        PROVE  HeadKnown(d)'
    <3>1. pc[d] \in Locked /\ HeadKnown(d)
      BY <2>1, <2>4 DEF PastRead, Locked, Transaction
    <3>2. ASSUME NEW v \in Captures, v # c
          PROVE  (Present(v)' <=> Present(v)) /\ (SameLine(d, v)' <=> SameLine(d, v))
      BY <1>3, <3>2, CommittedRows DEF SameLine
    <3>3. ~SameLine(d, c)'
      BY <1>3, <2>2, <3>1, CommittedRows DEF SameLine
    <3>4. head[d].base # None => head[d].base \in Captures
      BY DEF RInv, RTypeOK, TypeOK
    <3>5. ASSUME head[d].base # None, docs[req[d].ref] = head[d].doc
          PROVE  Present(head[d].base)' /\ SameLine(d, head[d].base)'
      <4>1. Present(head[d].base) /\ head[d].base # c
        BY <3>1, <3>5, CommittedRows DEF HeadKnown
      <4>2. SameLine(d, head[d].base)
        BY <3>1, <3>5 DEF HeadKnown
      <4> QED
        BY <1>3, <3>4, <3>5, <4>1, <4>2, CommittedRows DEF SameLine, Present
    <3>6. ASSUME NEW v \in Captures, Present(v)', SameLine(d, v)'
          PROVE  /\ rows'[v].status = "active" => v = head[d].base
                 /\ head[d].base # None \/ pc[d] = "inserted" => rows'[v].num < head[d].num
      <4>1. v # c
        BY <3>3, <3>6
      <4> QED
        BY <3>1, <3>2, <3>6, <4>1, CommittedRows DEF HeadKnown
    <3> QED
      BY <1>3, <2>1, <2>3, <3>1, <3>5, <3>6 DEF HeadKnown
  <2>5. pc[d] = "inserted" => Payload(d) \in Payloads /\ Payload(d)' = Payload(d)
    BY <1>3, OpenPayload DEF RInv, RTypeOK, Open, Locked, Payload
  <2>6. \A p \in Payloads : raw[p] # "absent" => raw'[p] = raw[p]
    BY <1>3, StoreRawStores
  <2> QED
    BY <1>3, <2>1, <2>2, <2>3, <2>4, <2>5, <2>6 DEF Transaction, Locked
<1>6. Transaction(c)'
  BY <1>2 DEF Transaction, Locked, PastRead
<1>7. \A f \in Forgets : Forgetting(f)'
  BY <1>1, ForgettingKept DEF RInv, Tables, rtVars
<1>8. \A p \in Purges : Purging(p)'
  BY DEF RInv, Purging, rtVars
<1> QED
  BY <1>1, <1>4, <1>5, <1>6, <1>7, <1>8 DEF RInv

-----------------------------------------------------------------------------
(* The retention verbs.                                                    *)

\* A verb that only retouches rows and raw captures, and forgets but f.
LEMMA RetouchKeeps ==
    ASSUME RInv, RTypeOK', Retouch, UNCHANGED purge,
           \A f \in Forgets : forget'[f] = forget[f] \/ (CapturedKept => Forgetting(f)')
    PROVE  RInv'
<1>1. Tables' /\ CapturedKept /\ FreshIsAbsent' /\ \A c \in Captures : Transaction(c)'
  BY RetouchTables, RetouchTransactions
<1>2. \A f \in Forgets : Forgetting(f)'
  BY <1>1, ForgettingKept DEF RInv, Tables
<1>3. \A p \in Purges : Purging(p)'
  BY DEF RInv, Purging
<1> QED
  BY <1>1, <1>2, <1>3 DEF RInv

\* Some versions take a status that is not active.
LEMMA StatusChanged ==
    ASSUME RInv, NEW S \in SUBSET Captures, \A v \in S : Present(v),
           NEW k, k \in Statuses \ {"none", "active"},
           rows' = [v \in Captures |->
                      IF v \in S THEN [rows[v] EXCEPT !.status = k] ELSE rows[v]],
           UNCHANGED <<pc, req, head, capLock, docs, raw>>
    PROVE  Retouch /\ rows' \in [Captures -> Row]
<1>1. ASSUME NEW v \in Captures
      PROVE  /\ rows'[v] \in Row
             /\ rows'[v].ref = rows[v].ref /\ rows'[v].gen = rows[v].gen
             /\ rows'[v].num = rows[v].num
             /\ rows'[v].hash = rows[v].hash /\ rows'[v].time = rows[v].time
             /\ rows'[v].text = rows[v].text
             /\ rows'[v].status = IF v \in S THEN k ELSE rows[v].status
  <2>1. rows[v] \in Row
    BY DEF RInv, RTypeOK, TypeOK
  <2>2. [rows[v] EXCEPT !.status = k] \in Row
    BY <2>1 DEF Row
  <2> QED
    BY <2>1, <2>2 DEF Row
<1>2. \A v \in Captures : Present(v)' <=> Present(v)
  BY <1>1 DEF Present, Statuses
<1>3. \A v \in Captures : rows'[v].status = "active" => rows[v].status = "active"
  BY <1>1
<1> QED
  BY <1>1, <1>2, <1>3 DEF Retouch

LEMMA DeprecateKeeps ==
    ASSUME RInv, NEW v \in Captures, DeprecateVersion(v)
    PROVE  RInv'
<1> DEFINE S == {v}
<1>1. rows' = [w \in Captures |->
                 IF w \in S THEN [rows[w] EXCEPT !.status = "deprecated"] ELSE rows[w]]
  BY DEF DeprecateVersion, RInv, RTypeOK, TypeOK
<1>2. /\ UNCHANGED <<pc, req, head, seq, capLock, feedLock, docs, raw, nextSeq, cursor, seen,
                     forget, purge>>
      /\ Present(v)
  BY DEF DeprecateVersion, RowsOnly, txVars, lockVars, feedVars, rtVars, Present
<1> HIDE DEF S
<1>3. S \subseteq Captures /\ \A w \in S : Present(w)
  BY <1>2 DEF S
<1>4. "deprecated" \in Statuses \ {"none", "active"}
  BY DEF Statuses
<1>5. Retouch /\ rows' \in [Captures -> Row]
  BY <1>1, <1>2, <1>3, <1>4, StatusChanged
<1>6. RTypeOK'
  BY <1>2, <1>5 DEF RInv, RTypeOK, TypeOK
<1> QED
  BY <1>2, <1>5, <1>6, RetouchKeeps

LEMMA SweepKeeps ==
    ASSUME RInv, SweepEphemeral
    PROVE  RInv'
<1>1. PICK S \in SUBSET {v \in Captures : rows[v].status = "active"
                                          /\ rows[v].class = "ephemeral"} :
         rows' = [v \in Captures |->
                    IF v \in S THEN [rows[v] EXCEPT !.status = "deprecated"] ELSE rows[v]]
  BY DEF SweepEphemeral
<1>2. UNCHANGED <<pc, req, head, seq, capLock, feedLock, docs, raw, nextSeq, cursor, seen,
                  forget, purge>>
  BY DEF SweepEphemeral, RowsOnly, txVars, lockVars, feedVars, rtVars
<1>3. S \subseteq Captures /\ \A v \in S : Present(v)
  BY DEF Present
<1>4. "deprecated" \in Statuses \ {"none", "active"}
  BY DEF Statuses
<1>5. Retouch /\ rows' \in [Captures -> Row]
  BY <1>1, <1>2, <1>3, <1>4, StatusChanged
<1>6. RTypeOK'
  BY <1>2, <1>5 DEF RInv, RTypeOK, TypeOK
<1> QED
  BY <1>2, <1>5, <1>6, RetouchKeeps

LEMMA SetClassKeeps ==
    ASSUME RInv, NEW v \in Captures, NEW k \in {"durable", "ephemeral"},
           SetRetentionClass(v, k)
    PROVE  RInv'
<1>1. rows' = [rows EXCEPT ![v].class = k]
  BY DEF SetRetentionClass
<1>2. UNCHANGED <<pc, req, head, seq, capLock, feedLock, docs, raw, nextSeq, cursor, seen,
                  forget, purge>>
  BY DEF SetRetentionClass, RowsOnly, txVars, lockVars, feedVars, rtVars
<1>3. ASSUME NEW w \in Captures
      PROVE  /\ rows'[w] \in Row
             /\ rows'[w].ref = rows[w].ref /\ rows'[w].gen = rows[w].gen
             /\ rows'[w].num = rows[w].num
             /\ rows'[w].hash = rows[w].hash /\ rows'[w].time = rows[w].time
             /\ rows'[w].text = rows[w].text /\ rows'[w].status = rows[w].status
  <2>1. rows[w] \in Row /\ rows \in [Captures -> Row]
    BY DEF RInv, RTypeOK, TypeOK
  <2>2. rows'[w] = IF w = v THEN [rows[w] EXCEPT !.class = k] ELSE rows[w]
    BY <1>1, <2>1
  <2>3. [rows[w] EXCEPT !.class = k] \in Row
    BY <2>1 DEF Row, RetentionClasses
  <2> QED
    BY <2>1, <2>2, <2>3 DEF Row
<1>4. Retouch
  BY <1>2, <1>3 DEF Retouch, Present
<1>5. RTypeOK'
  <2>1. rows' \in [Captures -> Row]
    BY <1>1, <1>3 DEF RInv, RTypeOK, TypeOK
  <2> QED
    BY <1>2, <2>1 DEF RInv, RTypeOK, TypeOK
<1> QED
  BY <1>2, <1>4, <1>5, RetouchKeeps

ForgetCall == [at: {"idle", "begun", "marked", "chunks", "done", "crashed"},
               of: Refs \cup {None}, doc: Captures \cup {None}, marks: SUBSET Captures]

\* A forget goes on to its next statement, with the versions it found.
LEMMA ForgetType ==
    ASSUME RTypeOK, NEW f \in Forgets, NEW m \in SUBSET Captures,
           NEW a \in {"begun", "marked", "chunks", "done", "crashed"},
           \/ forget' = [forget EXCEPT ![f].marks = m, ![f].at = a]
           \/ forget' = [forget EXCEPT ![f].at = a]
    PROVE  forget' \in [Forgets -> ForgetCall]
<1>1. forget \in [Forgets -> ForgetCall]
  BY DEF RTypeOK, ForgetCall
<1>2. ASSUME NEW q \in ForgetCall
      PROVE  [q EXCEPT !.at = a] \in ForgetCall /\ [q EXCEPT !.marks = m] \in ForgetCall
  BY DEF ForgetCall
<1>3. [forget[f] EXCEPT !.at = a] \in ForgetCall
  BY <1>1, <1>2
<1>4. [[forget[f] EXCEPT !.marks = m] EXCEPT !.at = a] \in ForgetCall
  BY <1>1, <1>2
<1>5. CASE forget' = [forget EXCEPT ![f].at = a]
  BY <1>1, <1>3, <1>5
<1>6. CASE forget' = [forget EXCEPT ![f].marks = m, ![f].at = a]
  BY <1>1, <1>4, <1>6
<1> QED
  BY <1>5, <1>6

LEMMA ForgetBeginKeeps ==
    ASSUME RInv, NEW f \in Forgets, NEW r \in Refs, ForgetBegin(f, r)
    PROVE  RInv'
<1>1. UNCHANGED <<pc, req, head, seq, capLock, feedLock, rows, docs, raw, nextSeq, cursor,
                  seen, purge>>
  BY DEF ForgetBegin, vars
<1>2. \A g \in Forgets : g # f => forget'[g] = forget[g]
  BY DEF ForgetBegin, RInv, RTypeOK
<1>3. /\ forget'[f].at = "begun" /\ forget'[f].of = r /\ forget'[f].doc = docs[r]
      /\ \A v \in forget'[f].marks : v \in VersionsOf(r, docs[r])
      /\ docs[r] # None
  BY DEF ForgetBegin, RInv, RTypeOK
<1>4. RTypeOK'
  <2>1. docs[r] \in Captures \cup {None}
    BY DEF RInv, RTypeOK, TypeOK
  <2>2. TypeOK'
    BY <1>1 DEF RInv, RTypeOK, TypeOK
  <2> QED
    BY <1>1, <2>1, <2>2 DEF ForgetBegin, VersionsOf, RInv, RTypeOK
<1>5. Retouch
  BY <1>1 DEF Retouch, Present
<1>6. Forgetting(f)'
  BY <1>1, <1>3 DEF Forgetting, Marked, VersionsOf, RInv, Tables, PresentIsWhole
<1> QED
  BY <1>1, <1>2, <1>4, <1>5, <1>6, RetouchKeeps

\* It keeps only the versions it finds that it can still forget, and with none of
\* them it is done.
LEMMA ForgetMarkKeeps ==
    ASSUME RInv, NEW f \in Forgets, ForgetMark(f)
    PROVE  RInv'
<1> DEFINE marked == {v \in forget[f].marks : rows[v].status \in Forgettable}
<1>1. rows' = [v \in Captures |->
                 IF v \in marked THEN [rows[v] EXCEPT !.status = "tombstoned"] ELSE rows[v]]
  BY DEF ForgetMark
<1>2. UNCHANGED <<pc, req, head, seq, capLock, feedLock, docs, raw, nextSeq, cursor, seen, purge>>
  BY DEF ForgetMark, txVars, lockVars, feedVars
<1>3. /\ forget[f].at = "begun"
      /\ forget' = [forget EXCEPT ![f].marks = marked,
                                  ![f].at = IF marked = {} THEN "done" ELSE "marked"]
  BY DEF ForgetMark
<1>4. marked \subseteq Captures /\ \A v \in marked : Present(v)
  BY DEF Forgettable, Present, RInv, RTypeOK
<1>5. Retouch /\ rows' \in [Captures -> Row]
  <2> HIDE DEF marked
  <2>1. "tombstoned" \in Statuses \ {"none", "active"}
    BY DEF Statuses
  <2> QED
    BY <1>1, <1>2, <1>4, <2>1, StatusChanged
<1>6. /\ forget'[f].marks = marked /\ forget'[f].of = forget[f].of /\ forget'[f].doc = forget[f].doc
      /\ forget'[f].at = IF marked = {} THEN "done" ELSE "marked"
      /\ \A g \in Forgets : g # f => forget'[g] = forget[g]
  BY <1>3 DEF RInv, RTypeOK
<1>7. RTypeOK'
  <2>1. TypeOK'
    BY <1>2, <1>5 DEF RInv, RTypeOK, TypeOK
  <2>2. forget' \in [Forgets -> ForgetCall]
    BY <1>3, <1>4, ForgetType DEF RInv
  <2> QED
    BY <1>2, <1>3, <1>4, <2>1, <2>2 DEF RInv, RTypeOK, ForgetCall
<1>8. ASSUME CapturedKept
      PROVE  Forgetting(f)'
  <2>1. Marked(f)
    BY <1>3 DEF RInv, Forgetting
  <2>2. ASSUME NEW v \in marked
        PROVE  /\ pc'[v] = "captured"
               /\ Present(v)' => rows'[v].ref = forget[f].of
                                 /\ docs'[forget[f].of] = forget[f].doc
    BY <1>4, <1>8, <2>1 DEF CapturedKept, Marked
  <2>3. Marked(f)'
    BY <1>6, <2>1, <2>2 DEF Marked
  <2> QED
    BY <1>6, <2>3 DEF Forgetting
<1> QED
  BY <1>2, <1>5, <1>6, <1>7, <1>8, RetouchKeeps

LEMMA ForgetChunksKeeps ==
    ASSUME RInv, NEW f \in Forgets, ForgetRedactChunks(f)
    PROVE  RInv'
<1>1. rows' = [v \in Captures |->
                 IF v \in TextToRedact(f) THEN [rows[v] EXCEPT !.text = "redacted"] ELSE rows[v]]
  BY DEF ForgetRedactChunks
<1>2. UNCHANGED <<pc, req, head, seq, capLock, feedLock, docs, raw, nextSeq, cursor, seen, purge>>
  BY DEF ForgetRedactChunks, txVars, lockVars, feedVars
<1>3. /\ forget[f].at = "marked" /\ forget' = [forget EXCEPT ![f].at = "chunks"]
  BY DEF ForgetRedactChunks
<1>4. ASSUME NEW v \in Captures
      PROVE  /\ rows'[v] \in Row
             /\ rows'[v].ref = rows[v].ref /\ rows'[v].gen = rows[v].gen
             /\ rows'[v].num = rows[v].num
             /\ rows'[v].hash = rows[v].hash /\ rows'[v].time = rows[v].time
             /\ rows'[v].status = rows[v].status
             /\ rows'[v].text = IF v \in TextToRedact(f) THEN "redacted" ELSE rows[v].text
  <2>1. rows[v] \in Row
    BY DEF RInv, RTypeOK, TypeOK
  <2>2. [rows[v] EXCEPT !.text = "redacted"] \in Row
    BY <2>1 DEF Row
  <2> QED
    BY <1>1, <2>1, <2>2 DEF Row
<1>5. Retouch
  BY <1>2, <1>4 DEF Retouch, Present
<1>6. /\ forget'[f].marks = forget[f].marks /\ forget'[f].of = forget[f].of
      /\ forget'[f].doc = forget[f].doc /\ forget'[f].at = "chunks"
      /\ \A g \in Forgets : g # f => forget'[g] = forget[g]
  BY <1>3 DEF RInv, RTypeOK
<1>7. RTypeOK'
  <2>1. TypeOK'
    BY <1>1, <1>2, <1>4 DEF RInv, RTypeOK, TypeOK
  <2>2. forget' \in [Forgets -> ForgetCall]
    BY <1>3, ForgetType DEF RInv
  <2> QED
    BY <1>2, <2>1, <2>2 DEF RInv, RTypeOK, ForgetCall
<1>8. ASSUME CapturedKept
      PROVE  Forgetting(f)'
  <2>1. Marked(f) /\ forget[f].marks \subseteq Captures
    BY <1>3 DEF RInv, RTypeOK, Forgetting
  <2>2. ASSUME NEW v \in forget[f].marks
        PROVE  /\ pc'[v] = "captured"
               /\ Present(v)' => /\ rows'[v].ref = forget[f].of
                                 /\ docs'[forget[f].of] = forget[f].doc
                                 /\ rows'[v].text = "redacted"
    <3>1. pc'[v] = "captured" /\ (Present(v)' <=> Present(v))
      BY <1>5, <2>1 DEF Retouch, Marked
    <3>2. Present(v) => v \in TextToRedact(f)
      BY <2>1 DEF Marked, TextToRedact, VersionsOf
    <3> QED
      BY <1>2, <1>4, <2>1, <3>1, <3>2 DEF Marked
  <2> QED
    BY <1>6, <2>1, <2>2 DEF Forgetting, Marked
<1> QED
  BY <1>2, <1>5, <1>6, <1>7, <1>8, RetouchKeeps

LEMMA ForgetRawKeeps ==
    ASSUME RInv, NEW f \in Forgets, ForgetRedactRaw(f)
    PROVE  RInv'
<1> DEFINE vs == VersionsOf(forget[f].of, forget[f].doc)
<1>1. raw' = [p \in Payloads |-> IF \E v \in vs : RawOf(v) = p THEN "redacted" ELSE raw[p]]
  BY DEF ForgetRedactRaw
<1>2. UNCHANGED <<pc, req, head, seq, capLock, feedLock, rows, docs, nextSeq, cursor, seen, purge>>
  BY DEF ForgetRedactRaw, txVars, lockVars, feedVars
<1>3. /\ forget[f].at = "chunks" /\ forget' = [forget EXCEPT ![f].at = "done"]
  BY DEF ForgetRedactRaw
<1>4. ASSUME NEW p \in Payloads
      PROVE  /\ raw'[p] = "absent" <=> raw[p] = "absent"
             /\ raw[p] # "stored" => raw'[p] # "stored"
  <2>1. CASE \E v \in vs : RawOf(v) = p
    <3>1. raw[p] # "absent"
      BY <2>1 DEF VersionsOf, RInv, Tables, NothingOutlivesItsDocument
    <3> QED
      BY <1>1, <2>1, <3>1
  <2>2. CASE ~\E v \in vs : RawOf(v) = p
    BY <1>1, <2>2
  <2> QED
    BY <2>1, <2>2
<1>5. Retouch
  BY <1>2, <1>4 DEF Retouch, Present
<1>6. /\ forget'[f].marks = forget[f].marks /\ forget'[f].of = forget[f].of
      /\ forget'[f].doc = forget[f].doc /\ forget'[f].at = "done"
      /\ \A g \in Forgets : g # f => forget'[g] = forget[g]
  BY <1>3 DEF RInv, RTypeOK
<1>7. RTypeOK'
  <2>1. raw' \in [Payloads -> {"absent", "stored", "redacted"}]
    BY <1>1 DEF RInv, RTypeOK, TypeOK
  <2>2. TypeOK'
    BY <1>2, <2>1 DEF RInv, RTypeOK, TypeOK
  <2>3. forget' \in [Forgets -> ForgetCall]
    BY <1>3, ForgetType DEF RInv
  <2> QED
    BY <1>2, <2>2, <2>3 DEF RInv, RTypeOK, ForgetCall
<1>8. ASSUME CapturedKept
      PROVE  Forgetting(f)'
  <2>1. Forgetting(f) /\ Marked(f) /\ forget[f].marks \subseteq Captures
    BY <1>3 DEF RInv, RTypeOK, Forgetting
  <2>2. ASSUME NEW v \in forget[f].marks
        PROVE  /\ pc'[v] = "captured"
               /\ Present(v)' => /\ rows'[v].ref = forget[f].of
                                 /\ docs'[forget[f].of] = forget[f].doc
                                 /\ rows'[v].text = "redacted"
                                 /\ raw'[RawOf(v)'] # "stored"
    <3>1. pc'[v] = "captured" /\ (Present(v)' <=> Present(v)) /\ RawOf(v)' = RawOf(v)
      BY <1>2, <1>5, <2>1 DEF Retouch, Marked, RawOf
    <3>2. Present(v) => v \in vs /\ RawOf(v) \in Payloads
      BY <2>1, RawIsPayload DEF Marked, VersionsOf, RInv, Tables
    <3>3. Present(v) => raw'[RawOf(v)] # "stored"
      BY <1>1, <3>2
    <3> QED
      BY <1>2, <1>3, <2>1, <3>1, <3>3 DEF Marked, Forgetting
  <2> QED
    BY <1>6, <2>1, <2>2 DEF Forgetting, Marked
<1> QED
  BY <1>2, <1>5, <1>6, <1>7, <1>8, RetouchKeeps

LEMMA ForgetCrashKeeps ==
    ASSUME RInv, NEW f \in Forgets, ForgetCrash(f)
    PROVE  RInv'
<1>1. UNCHANGED <<pc, req, head, seq, capLock, feedLock, rows, docs, raw, nextSeq, cursor,
                  seen, purge>>
  BY DEF ForgetCrash, vars
<1>2. forget'[f].at = "crashed" /\ \A g \in Forgets : g # f => forget'[g] = forget[g]
  BY DEF ForgetCrash, RInv, RTypeOK
<1>3. RTypeOK'
  <2>1. forget' = [forget EXCEPT ![f].at = "crashed"]
    BY DEF ForgetCrash
  <2>2. forget' \in [Forgets -> ForgetCall]
    BY <2>1, ForgetType DEF RInv
  <2>3. TypeOK'
    BY <1>1 DEF RInv, RTypeOK, TypeOK
  <2> QED
    BY <1>1, <2>2, <2>3 DEF RInv, RTypeOK, ForgetCall
<1>4. Retouch
  BY <1>1 DEF Retouch, Present
<1>5. Forgetting(f)'
  BY <1>2 DEF Forgetting
<1> QED
  BY <1>1, <1>2, <1>3, <1>4, <1>5, RetouchKeeps

PurgeCall == [at: {"idle", "refused", "checked", "collected", "done", "crashed"},
              of: Refs \cup {None}, doc: Captures \cup {None}, raws: SUBSET Payloads]

\* A purge that has not come to its deletion leaves the tables alone.
LEMMA PurgeOnly ==
    ASSUME RInv, UNCHANGED <<vars, forget>>, purge' \in [Purges -> PurgeCall],
           \A p \in Purges : Purging(p)'
    PROVE  RInv'
<1> USE DEF vars
<1>1. Retouch
  BY DEF Retouch, Present
<1>2. RTypeOK'
  BY DEF RInv, RTypeOK, TypeOK, PurgeCall
<1>3. Tables' /\ CapturedKept /\ FreshIsAbsent' /\ \A c \in Captures : Transaction(c)'
  BY <1>1, RetouchTables, RetouchTransactions
<1>4. \A f \in Forgets : Forgetting(f)'
  BY <1>3, ForgettingKept DEF RInv, Tables
<1> QED
  BY <1>2, <1>3, <1>4 DEF RInv

LEMMA PurgeCheckKeeps ==
    ASSUME RInv, NEW p \in Purges, NEW r \in Refs, PurgeCheck(p, r)
    PROVE  RInv'
<1>1. PICK a \in {"refused", "checked"} :
        purge' = [purge EXCEPT ![p] = [at |-> a, of |-> r, doc |-> docs[r], raws |-> {}]]
  BY DEF PurgeCheck
<1>2. docs[r] # None /\ docs[r] \in Captures \cup {None} /\ UNCHANGED <<vars, forget>>
  BY DEF PurgeCheck, RInv, RTypeOK, TypeOK
<1>3. purge \in [Purges -> PurgeCall]
  BY DEF RInv, RTypeOK, PurgeCall
<1>4. [at |-> a, of |-> r, doc |-> docs[r], raws |-> {}] \in PurgeCall
  BY <1>2 DEF PurgeCall
<1>5. purge' \in [Purges -> PurgeCall]
  BY <1>1, <1>3, <1>4
<1>6. \A q \in Purges : Purging(q)'
  BY <1>1, <1>2, <1>3 DEF RInv, Purging
<1> QED
  BY <1>2, <1>5, <1>6, PurgeOnly

LEMMA PurgeCollectKeeps ==
    ASSUME RInv, NEW p \in Purges, PurgeCollect(p)
    PROVE  RInv'
<1> DEFINE rs == {RawOf(v) : v \in VersionsOf(purge[p].of, purge[p].doc)}
<1>1. /\ purge[p].at = "checked" /\ UNCHANGED <<vars, forget>>
      /\ purge' = [purge EXCEPT ![p].raws = rs, ![p].at = "collected"]
  BY DEF PurgeCollect
<1>2. \A q \in rs : q \in Payloads /\ q[1] = purge[p].of
  BY RawIsPayload DEF RInv, Tables, VersionsOf, RawOf
<1>3. purge \in [Purges -> PurgeCall]
  BY DEF RInv, RTypeOK, PurgeCall
<1> HIDE DEF rs
<1>4. ASSUME NEW q \in PurgeCall
      PROVE  [q EXCEPT !.at = "collected"] \in PurgeCall /\ [q EXCEPT !.raws = rs] \in PurgeCall
  BY <1>2 DEF PurgeCall
<1>5. [[purge[p] EXCEPT !.raws = rs] EXCEPT !.at = "collected"] \in PurgeCall
  BY <1>3, <1>4
<1>6. purge' \in [Purges -> PurgeCall]
  BY <1>1, <1>3, <1>5
<1>7. \A q \in Purges : Purging(q)'
  <2>1. \A q \in Purges : q # p => purge'[q] = purge[q]
    BY <1>1, <1>3
  <2>2. purge'[p].raws = rs /\ purge'[p].of = purge[p].of /\ purge'[p].doc = purge[p].doc
    BY <1>1, <1>3 DEF PurgeCall
  <2>3. Purging(p)'
    BY <1>1, <1>2, <2>2 DEF RInv, Purging
  <2>4. \A q \in Purges : q # p => Purging(q)'
    BY <2>1 DEF RInv, Purging
  <2> QED
    BY <2>3, <2>4
<1> QED
  BY <1>1, <1>6, <1>7, PurgeOnly

LEMMA PurgeCrashKeeps ==
    ASSUME RInv, NEW p \in Purges, PurgeCrash(p)
    PROVE  RInv'
<1>1. /\ purge[p].at \in {"checked", "collected"} /\ UNCHANGED <<vars, forget>>
      /\ purge' = [purge EXCEPT ![p].at = "crashed"]
  BY DEF PurgeCrash
<1>2. purge \in [Purges -> PurgeCall]
  BY DEF RInv, RTypeOK, PurgeCall
<1>3. [purge[p] EXCEPT !.at = "crashed"] \in PurgeCall
  BY <1>2 DEF PurgeCall
<1>4. purge' \in [Purges -> PurgeCall]
  BY <1>1, <1>2, <1>3
<1>5. \A q \in Purges : Purging(q)'
  BY <1>1, <1>2 DEF RInv, Purging, PurgeCall
<1> QED
  BY <1>1, <1>4, <1>5, PurgeOnly

\* What a deletion takes: all the versions of the document, if it is still the
\* one that was checked, and else none.
LEMMA Deleted ==
    ASSUME RInv, NEW p \in Purges, PurgeDelete(p)
    PROVE  /\ purge[p].of \in Refs /\ purge[p].doc # None
           /\ \A q \in Refs : docs'[q] = IF q = purge[p].of /\ docs[q] = purge[p].doc
                                          THEN None ELSE docs[q]
           /\ \A v \in Captures :
                /\ Present(v)' <=> /\ Present(v)
                                   /\ ~(/\ rows[v].ref = purge[p].of
                                        /\ docs[purge[p].of] = purge[p].doc)
                /\ Present(v)' => rows'[v] = rows[v]
                /\ rows'[v] \in Row
                /\ rows'[v].status = "active" => Present(v)'
           /\ \A q \in Payloads :
                \/ raw'[q] = raw[q]
                \/ /\ raw'[q] = "absent" /\ q[1] = purge[p].of
                   /\ \A v \in Captures : Present(v)' => RawOf(v) # q
<1> DEFINE r == purge[p].of
           gone == VersionsOf(r, purge[p].doc)
<1>1. /\ rows' = [v \in Captures |-> IF v \in gone THEN NoRow ELSE rows[v]]
      /\ docs' = [docs EXCEPT ![r] = IF @ = purge[p].doc THEN None ELSE @]
      /\ raw' = [q \in Payloads |->
                   IF q \in purge[p].raws /\ \A v \in Captures \ gone : Present(v) => RawOf(v) # q
                   THEN "absent" ELSE raw[q]]
  BY DEF PurgeDelete
<1>2. r \in Refs /\ purge[p].doc # None /\ \A q \in purge[p].raws : q[1] = r
  BY DEF PurgeDelete, RInv, Purging
<1>3. \A q \in Refs : docs'[q] = IF q = r /\ docs[q] = purge[p].doc THEN None ELSE docs[q]
  BY <1>1, <1>2 DEF RInv, RTypeOK, TypeOK
<1>4. \A v \in Captures : v \in gone <=> /\ Present(v)
                                        /\ rows[v].ref = r /\ docs[r] = purge[p].doc
  BY <1>2 DEF VersionsOf
<1>5. \A v \in Captures : Present(v)' <=> Present(v) /\ v \notin gone
  BY <1>1 DEF Present, NoRow
<1>6. \A v \in Captures : Present(v)' => rows'[v] = rows[v]
  BY <1>1, <1>5
<1>7. NoRow \in Row
  BY DEF NoRow, Row, Statuses, RetentionClasses, Generations
<1>8. \A v \in Captures : rows'[v] \in Row
  BY <1>1, <1>7 DEF RInv, RTypeOK, TypeOK
<1>9. \A v \in Captures : rows'[v].status = "active" => Present(v)'
  BY DEF Present
<1>10. \A q \in Payloads :
         \/ raw'[q] = raw[q]
         \/ /\ raw'[q] = "absent" /\ q[1] = r
            /\ \A v \in Captures : Present(v)' => RawOf(v) # q
  BY <1>1, <1>2, <1>5
<1> QED
  BY <1>2, <1>3, <1>4, <1>5, <1>6, <1>8, <1>9, <1>10

LEMMA DeleteTables ==
    ASSUME RInv, NEW p \in Purges, PurgeDelete(p)
    PROVE  Tables' /\ CapturedKept
<1> USE Deleted
<1>1. pc' = pc
  BY DEF PurgeDelete, txVars
<1>2. ASSUME NEW v \in Captures, Present(v)'
      PROVE  /\ Present(v) /\ rows'[v] = rows[v] /\ RawOf(v)' = RawOf(v)
             /\ rows[v].ref \in Refs /\ docs'[rows[v].ref] = docs[rows[v].ref]
             /\ RawOf(v) \in Payloads /\ raw'[RawOf(v)] = raw[RawOf(v)]
  <2>1. Present(v) /\ rows'[v] = rows[v] /\ RawOf(v)' = RawOf(v)
    BY <1>2 DEF RawOf
  <2>2. rows[v].ref \in Refs /\ RawOf(v) \in Payloads
    BY <2>1, RawIsPayload DEF RInv, Tables, PresentIsWhole
  <2>3. docs'[rows[v].ref] = docs[rows[v].ref]
    BY <1>2, <2>1, <2>2
  <2>4. raw'[RawOf(v)] = raw[RawOf(v)]
    BY <1>2, <2>2
  <2> QED
    BY <2>1, <2>2, <2>3, <2>4
<1>3. PresentIsWhole'
  BY <1>1, <1>2 DEF RInv, Tables, PresentIsWhole
<1>4. NothingOutlivesItsDocument'
  BY <1>2 DEF RInv, Tables, NothingOutlivesItsDocument
<1>5. LineHasFirst'
  <2> SUFFICES ASSUME NEW v \in Captures, Present(v)'
               PROVE  \E u \in Captures : /\ Present(u)' /\ rows'[u].num = 1
                                          /\ rows'[u].ref = rows'[v].ref
                                          /\ rows'[u].gen = rows'[v].gen
    BY DEF LineHasFirst
  <2>1. PICK u \in Captures : /\ Present(u) /\ rows[u].num = 1
                              /\ rows[u].ref = rows[v].ref /\ rows[u].gen = rows[v].gen
    BY <1>2 DEF RInv, Tables, LineHasFirst
  <2>2. Present(u)'
    BY <2>1
  <2> QED
    BY <1>2, <2>1, <2>2
<1>6. ActiveIsHighest' /\ OneActive'
  <2>1. \A v \in Captures : rows'[v].status = "active" => Present(v)' /\ rows'[v] = rows[v]
    OBVIOUS
  <2>2. ActiveIsHighest'
    BY <1>2, <2>1 DEF RInv, Tables, ActiveIsHighest
  <2>3. OneActive'
    BY <2>1 DEF RInv, Tables, OneActive
  <2> QED
    BY <2>2, <2>3
<1>7. CapturedKept
  BY <1>1, <1>2 DEF CapturedKept
<1> QED
  BY <1>3, <1>4, <1>5, <1>6, <1>7 DEF Tables

LEMMA DeleteTransactions ==
    ASSUME RInv, NEW p \in Purges, PurgeDelete(p)
    PROVE  FreshIsAbsent' /\ \A c \in Captures : Transaction(c)'
<1>1. UNCHANGED <<pc, req, head, capLock>>
  BY DEF PurgeDelete, txVars, lockVars
<1>2. FreshIsAbsent'
  <2> SUFFICES ASSUME NEW c \in Captures, pc[c] \in Open, req[c].fresh
               PROVE  raw'[Payload(c)] = "absent"
    BY <1>1 DEF RInv, FreshIsAbsent, Payload
  <2>1. Payload(c) \in Payloads /\ raw[Payload(c)] = "absent"
    BY OpenPayload DEF RInv, RTypeOK, FreshIsAbsent
  <2> QED
    BY <2>1, Deleted
<1>3. ASSUME NEW c \in Captures
      PROVE  Transaction(c)'
  <2>1. Transaction(c) /\ (head[c].base # None => head[c].base \in Captures)
    BY DEF RInv, RTypeOK, TypeOK
  <2>2. ASSUME pc[c] \in PastRead
        PROVE  HeadKnown(c)'
    <3>1. HeadKnown(c) /\ req[c].ref \in Refs
      BY <2>1, <2>2 DEF Transaction, PastRead, RInv, RTypeOK, TypeOK
    <3>2. docs'[req[c].ref] \in {head[c].doc, None}
      BY <3>1, Deleted DEF HeadKnown
    <3>3. ASSUME head[c].base # None, docs'[req[c].ref] = head[c].doc
          PROVE  Present(head[c].base)' /\ SameLine(c, head[c].base)'
      <4>1. /\ head[c].doc # None /\ docs[req[c].ref] = head[c].doc
            /\ ~(req[c].ref = purge[p].of /\ docs[req[c].ref] = purge[p].doc)
        BY <3>1, <3>3, Deleted DEF HeadKnown
      <4>2. Present(head[c].base) /\ SameLine(c, head[c].base) /\ head[c].base \in Captures
        BY <2>1, <3>1, <3>3, <4>1 DEF HeadKnown
      <4>3. Present(head[c].base)' /\ rows'[head[c].base] = rows[head[c].base]
        BY <1>1, <4>1, <4>2, Deleted DEF SameLine, Present
      <4> QED
        BY <1>1, <4>2, <4>3 DEF SameLine
    <3>4. ASSUME NEW v \in Captures, Present(v)', SameLine(c, v)'
          PROVE  Present(v) /\ SameLine(c, v) /\ rows'[v] = rows[v]
      BY <1>1, <3>4, Deleted DEF SameLine
    <3> QED
      BY <1>1, <3>1, <3>2, <3>3, <3>4 DEF HeadKnown
  <2>3. ASSUME pc[c] = "inserted"
        PROVE  /\ docs'[req[c].ref] = docs[req[c].ref]
               /\ raw[Payload(c)] # "absent" => raw'[Payload(c)] # "absent"
    <3>1. req[c].ref # purge[p].of
      BY <2>3 DEF PurgeDelete, DocumentLocked
    <3>2. Payload(c) \in Payloads /\ req[c].ref \in Refs /\ Payload(c)[1] = req[c].ref
      BY <2>3, OpenPayload DEF RInv, RTypeOK, Open, Locked, Payload
    <3> QED
      BY <3>1, <3>2, Deleted
  <2> QED
    BY <1>1, <2>1, <2>2, <2>3 DEF Transaction, Payload
<1> QED
  BY <1>2, <1>3

LEMMA PurgeDeleteKeeps ==
    ASSUME RInv, NEW p \in Purges, PurgeDelete(p)
    PROVE  RInv'
<1>1. Tables' /\ CapturedKept /\ FreshIsAbsent' /\ \A c \in Captures : Transaction(c)'
  BY DeleteTables, DeleteTransactions
<1>2. /\ UNCHANGED <<pc, req, head, seq, capLock, feedLock, nextSeq, cursor, seen, forget>>
      /\ purge' = [purge EXCEPT ![p].at = "done"] /\ purge[p].at = "collected"
  BY DEF PurgeDelete, txVars, lockVars, feedVars
<1>3. \A f \in Forgets : Forgetting(f)'
  BY <1>1, <1>2, ForgettingKept DEF RInv, Tables
<1>4. purge \in [Purges -> PurgeCall]
  BY DEF RInv, RTypeOK, PurgeCall
<1>5. \A q \in Purges : Purging(q)'
  BY <1>2, <1>4 DEF RInv, Purging, PurgeCall
<1>6. RTypeOK'
  <2>1. rows' \in [Captures -> Row]
    BY Deleted DEF PurgeDelete
  <2>2. docs' \in [Refs -> Captures \cup {None}]
    BY DEF PurgeDelete, RInv, RTypeOK, TypeOK
  <2>3. raw' \in [Payloads -> {"absent", "stored", "redacted"}]
    BY DEF PurgeDelete, RInv, RTypeOK, TypeOK
  <2>4. TypeOK'
    BY <1>2, <2>1, <2>2, <2>3 DEF RInv, RTypeOK, TypeOK
  <2>5. [purge[p] EXCEPT !.at = "done"] \in PurgeCall
    BY <1>4 DEF PurgeCall
  <2>6. purge' \in [Purges -> PurgeCall]
    BY <1>2, <1>4, <2>5
  <2> QED
    BY <1>2, <2>4, <2>6 DEF RInv, RTypeOK, PurgeCall
<1> QED
  BY <1>1, <1>3, <1>5, <1>6 DEF RInv

-----------------------------------------------------------------------------
(* The theorems.                                                           *)

LEMMA InitRInv == RInit => RInv
<1> SUFFICES ASSUME RInit PROVE RInv
  OBVIOUS
<1>1. TypeOK
  BY InitType DEF RInit
<1>2. RTypeOK
  BY <1>1 DEF RInit, RTypeOK
<1>3. \A c \in Captures : pc[c] = "idle" /\ ~Present(c) /\ rows[c].status = "none"
  BY DEF RInit, Init, Present, NoRow
<1>4. Tables
  BY <1>3 DEF Tables, PresentIsWhole, NothingOutlivesItsDocument, LineHasFirst,
              ActiveIsHighest, OneActive
<1>5. FreshIsAbsent /\ \A c \in Captures : Transaction(c)
  BY <1>3 DEF FreshIsAbsent, Transaction, Open, Locked, PastRead
<1>6. (\A f \in Forgets : Forgetting(f)) /\ (\A p \in Purges : Purging(p))
  BY DEF RInit, Forgetting, Purging
<1> QED
  BY <1>2, <1>4, <1>5, <1>6 DEF RInv

\* A step of a capture or of the feed.
LEMMA CaptureKeepsTables ==
    ASSUME RInv, Next, UNCHANGED rtVars
    PROVE  RInv'
<1>1. RTypeOK'
  <2>1. TypeOK'
    BY NextType DEF RInv, RTypeOK
  <2> QED
    BY <2>1 DEF RInv, RTypeOK, rtVars
<1>2. ASSUME NEW c \in Captures,
             \E r \in Refs, h \in Hashes, t \in Times :
               \/ InsertOrReuseRawCapture(c, r, h, t)
               \/ \E g \in Runs : DeriveFromRawCapture(c, r, h, t, g)
      PROVE  RInv'
  BY <1>1, <1>2, BeginKeepsTables
<1>3. ASSUME NEW c \in Captures, Insert(c)
      PROVE  RInv'
  <2>1. CASE InsertVersion(c)
    BY <1>1, <2>1, InsertVersionKeepsTables
  <2>2. CASE VersionClash(c) \/ KeyMissing(c)
    <3>1. PICK end \in {"clash", "failed"} : RollBack(c, end)
      BY <2>2 DEF VersionClash, KeyMissing
    <3>2. pc[c] \in Open /\ end \notin Open
      BY <2>2 DEF VersionClash, KeyMissing, AtInsert, ReadyToInsert, Open, Locked
    <3> QED
      BY <1>1, <3>1, <3>2, EndKeepsTables DEF RollBack
  <2> QED
    BY <1>3, <2>1, <2>2 DEF Insert
<1>4. ASSUME NEW c \in Captures, CommitNoop(c)
      PROVE  RInv'
  <2>1. pc[c] \in Open /\ "noop" \notin Open
    BY <1>4 DEF CommitNoop, Open, Locked
  <2> QED
    BY <1>1, <1>4, <2>1, EndKeepsTables DEF CommitNoop
<1>5. ASSUME NEW c \in Captures, Abort(c)
      PROVE  RInv'
  <2>1. pc[c] \in Open /\ "failed" \notin Open
    BY <1>5 DEF Abort, Open, Locked
  <2> QED
    BY <1>1, <1>5, <2>1, EndKeepsTables DEF Abort, RollBack
<1>6. ASSUME NEW c \in Captures, Advance(c)
      PROVE  RInv'
  BY <1>1, <1>3, <1>4, <1>6, LockRefKeepsTables, ReadHeadKeepsTables, SupersedeKeepsTables,
     LockFeedKeepsTables, CommitKeepsTables DEF Advance
<1>7. ASSUME Poll
      PROVE  RInv'
  BY <1>1, <1>7, PollKeepsTables DEF Poll
<1> QED
  BY <1>2, <1>5, <1>6, <1>7 DEF Next

LEMMA NextRInv == RInv /\ [RNext]_rvars => RInv'
<1> SUFFICES ASSUME RInv, [RNext]_rvars
             PROVE  RInv'
  OBVIOUS
<1>1. CASE Next /\ UNCHANGED rtVars
  BY <1>1, CaptureKeepsTables
<1>2. CASE RetentionStep
  BY <1>2, DeprecateKeeps, SetClassKeeps, SweepKeeps, ForgetBeginKeeps, ForgetMarkKeeps,
     ForgetChunksKeeps, ForgetRawKeeps, ForgetCrashKeeps, PurgeCheckKeeps, PurgeCollectKeeps,
     PurgeDeleteKeeps, PurgeCrashKeeps DEF RetentionStep, ForgetStep, PurgeStep
<1>3. CASE UNCHANGED rvars
  <2>1. UNCHANGED <<vars, forget, purge>>
    BY <1>3 DEF rvars
  <2>2. purge \in [Purges -> PurgeCall]
    BY DEF RInv, RTypeOK, PurgeCall
  <2>3. \A p \in Purges : Purging(p)'
    BY <2>1 DEF RInv, Purging
  <2> QED
    BY <2>1, <2>2, <2>3, PurgeOnly
<1> QED
  BY <1>1, <1>2, <1>3 DEF RNext

LEMMA RInvHolds == RSpec => []RInv
  BY InitRInv, NextRInv, PTL DEF RSpec

\* Whatever deprecates, sweeps, forgets, purges and captures run side by side,
\* every variable keeps its shape, no version is left without its document row or
\* its raw capture, and the active version of a document is its highest.
THEOREM TablesAgree == RSpec => []RetentionInv
<1>1. RInv => RetentionInv
  BY DEF RInv, Tables, RetentionInv
<1> QED
  BY <1>1, RInvHolds, PTL

\* A document has at most one active version per generation, also when the
\* version a capture was about to supersede is retired under it.
THEOREM OneActiveWithRetention == RSpec => []OneActive
<1>1. RInv => OneActive
  BY DEF RInv, Tables
<1> QED
  BY <1>1, RInvHolds, PTL

\* A forget that marked versions and came to its end has left none of their text,
\* in chunks or raw captures, whatever runs in between and after.
THEOREM ForgottenStaysRedacted == RSpec => []ForgottenIsRedacted
<1>1. RInv => ForgottenIsRedacted
  BY DEF RInv, Forgetting, ForgottenIsRedacted
<1> QED
  BY <1>1, RInvHolds, PTL

-----------------------------------------------------------------------------
(* The replay pipeline.                                                    *)

Busy(s) == switch[s].at \in {"checked", "ready", "out", "in"}

Derived(c, g) == pc[c] # "idle" /\ req[c].gen = g

\* What the record of run g says of the transactions begun for it.
RunBook(g) ==
    /\ run[g].status = "none" =>
          /\ run[g].at = None /\ ~run[g].bad /\ ~Promoted(g)
          /\ \A c \in Captures : ~Derived(c, g)
    /\ run[g].status \in {"completed", "failed"} => run[g].todo = {} /\ run[g].at = None
    /\ run[g].status = "completed" => ~run[g].bad
    /\ Promoted(g) => run[g].status = "completed"
    /\ \A c \in Captures : Derived(c, g) =>
          \/ pc[c] \in {"captured", "noop"}
          \/ run[g].at = c \/ run[g].bad \/ run[g].status = "abandoned"

\* What a promote or demote under way has found.
SwitchBook(s) ==
    /\ Busy(s) =>
        /\ switch[s].of \in Replays
        /\ switch[s].kind = "promote" =>
              switch[s].archive = s /\ run[switch[s].of].status = "completed"
    /\ \A v \in switch[s].todo \cup switch[s].out \cup switch[s].into : Present(v)

\* What a transaction writes: live or staged, never archived; and a replayed row
\* supersedes a version of its own generation.
Writes(c) ==
    /\ req[c].gen \in Replays \cup {Live}
    /\ pc[c] \in PastRead /\ head[c].base # None =>
          /\ Present(head[c].base)
          /\ req[c].gen \in Replays => rows[head[c].base].gen = req[c].gen

Written(v) ==
    /\ Present(v) => pc[v] = "captured"
    /\ ~Present(v) => rows[v].gen = Live

Books ==
    /\ \A g \in Replays : RunBook(g)
    /\ \A s \in Switches : SwitchBook(s)
    /\ \A c \in Captures : Writes(c) /\ Written(c)

TInv == TTypeOK /\ Books

\* A promote or demote up to its commit.
BeforeCommit(s) ==
    \/ \E g \in Replays : PromoteCheck(s, g) \/ DemoteCheck(s, g)
    \/ PromoteReadPrior(s) \/ SwitchOpen(s)
    \/ \E v \in Captures : TakeRow(s, v) \/ EnterRow(s, v)
    \/ SecondUpdate(s) \/ SwitchRefused(s) \/ SwitchCrash(s)

-----------------------------------------------------------------------------
(* What a step of a capture or of a replayed row does.                     *)

\* A transaction begins as a live capture or, of a run, as what the run begins;
\* what it was asked for and how it ended stay, and what it supersedes is read
\* in its own generation.  Only a commit writes versions.
TxStep(gens) ==
    /\ \A c \in Captures :
        /\ pc[c] # "idle" => pc'[c] # "idle" /\ req'[c] = req[c]
        /\ pc[c] \in Ended => pc'[c] = pc[c]
        /\ pc[c] = "idle" => (req'[c] = req[c] /\ pc'[c] = "idle") \/ req'[c].gen \in gens
        /\ pc'[c] \in PastRead =>
              \/ pc[c] \in PastRead /\ head'[c] = head[c]
              \/ rows' = rows /\ head'[c].base \in {None} \cup Actives(req'[c].ref, req'[c].gen)
    /\ \/ rows' = rows
       \/ \E d \in Captures : /\ pc[d] = "inserted" /\ pc'[d] = "captured"
                              /\ rows' = Publish(d)

LEMMA CaptureTxStep == TypeOK /\ [CaptureStep]_vars => TxStep({Live}) /\ TypeOK'
<1> SUFFICES ASSUME TypeOK, [CaptureStep]_vars PROVE TxStep({Live}) /\ TypeOK'
  OBVIOUS
<1>1. [Next]_vars
  BY DEF CaptureStep, CaptureVictim, AdvanceUnheld, SupersedeUnheld, Next, Advance
<1>2. TypeOK'
  BY <1>1, NextType
<1>3. pc = [c \in Captures |-> pc[c]] /\ req = [c \in Captures |-> req[c]]
      /\ head = [c \in Captures |-> head[c]]
  BY DEF TypeOK
<1> USE DEF PastRead, Ended, Open, Locked
<1>4. ASSUME NEW c \in Captures, NEW r \in Refs, NEW h \in Hashes, NEW t \in Times,
             InsertOrReuseRawCapture(c, r, h, t)
      PROVE  TxStep({Live})
  BY <1>3, <1>4 DEF InsertOrReuseRawCapture, TxStep, storeVars
<1>5. ASSUME NEW c \in Captures, LockRef(c)
      PROVE  TxStep({Live})
  BY <1>3, <1>5 DEF LockRef, TxStep, storeVars
<1>6. ASSUME NEW c \in Captures, ReadHead(c)
      PROVE  TxStep({Live})
  BY <1>3, <1>6 DEF ReadHead, TxStep, storeVars
<1>7. ASSUME NEW c \in Captures, Supersede(c)
      PROVE  TxStep({Live})
  BY <1>3, <1>7 DEF Supersede, TxStep, storeVars
<1>8. ASSUME NEW c \in Captures, LockFeed(c)
      PROVE  TxStep({Live})
  BY <1>3, <1>8 DEF LockFeed, ReadyToInsert, TxStep, storeVars
<1>9. ASSUME NEW c \in Captures, InsertVersion(c)
      PROVE  TxStep({Live})
  BY <1>3, <1>9 DEF InsertVersion, AtInsert, ReadyToInsert, TxStep
<1>10. ASSUME NEW c \in Captures, Commit(c)
       PROVE  TxStep({Live})
  BY <1>3, <1>10 DEF Commit, TxStep
<1>11. ASSUME NEW c \in Captures, CommitNoop(c)
       PROVE  TxStep({Live})
  BY <1>3, <1>11 DEF CommitNoop, TxStep
<1>12. ASSUME NEW c \in Captures, NEW end \in {"clash", "failed"}, pc[c] \in Open, RollBack(c, end)
       PROVE  TxStep({Live})
  BY <1>3, <1>12 DEF RollBack, TxStep
<1>13. ASSUME NEW c \in Captures, VersionClash(c) \/ KeyMissing(c) \/ Abort(c)
       PROVE  TxStep({Live})
  <2>1. pc[c] \in Open
    BY <1>13 DEF VersionClash, KeyMissing, Abort, AtInsert, ReadyToInsert
  <2> QED
    BY <1>12, <1>13, <2>1 DEF VersionClash, KeyMissing, Abort
<1>14. ASSUME Poll
       PROVE  TxStep({Live})
  BY <1>3, <1>14 DEF Poll, TxStep, txVars, storeVars
<1>15. ASSUME UNCHANGED vars
       PROVE  TxStep({Live})
  BY <1>3, <1>15 DEF vars, TxStep
<1>16. CaptureStep => TxStep({Live})
  BY <1>4, <1>5, <1>6, <1>7, <1>8, <1>9, <1>10, <1>11, <1>13, <1>14
     DEF CaptureStep, CaptureVictim, AdvanceUnheld, SupersedeUnheld, Insert
<1> QED
  BY <1>2, <1>15, <1>16

LEMMA ReplayTxStep ==
    ASSUME TypeOK, NEW g \in Replays, NEW c \in Captures, NEW p \in Payloads,
           DeriveFromRawCapture(c, p[1], p[2], p[3], g)
    PROVE  TxStep({g}) /\ TypeOK'
<1>1. p[1] \in Refs /\ p[2] \in Hashes /\ p[3] \in Times /\ g \in Runs
  BY TransformAssumption DEF Payloads
<1>2. Next
  BY <1>1 DEF Next
<1>3. TypeOK'
  BY <1>2, NextType
<1>4. pc = [d \in Captures |-> pc[d]] /\ req = [d \in Captures |-> req[d]]
  BY DEF TypeOK
<1>5. TxStep({g})
  BY <1>4 DEF DeriveFromRawCapture, TxStep, PastRead, Ended, storeVars
<1> QED
  BY <1>3, <1>5

\* The transactions of every run but those in gens stay what they were.
LEMMA DerivedStep ==
    ASSUME NEW gens, TxStep(gens), NEW g, g \notin gens, NEW c \in Captures, Derived(c, g)'
    PROVE  /\ Derived(c, g)
           /\ pc[c] \in {"captured", "noop"} => pc'[c] = pc[c]
BY DEF TxStep, Derived, Ended

\* A version stays, in the generation it is in.
LEMMA PresentStays ==
    ASSUME NEW gens, TxStep(gens), TypeOK, NEW v \in Captures, Present(v), Written(v)
    PROVE  Present(v)' /\ rows'[v].gen = rows[v].gen /\ pc'[v] = "captured"
<1>1. pc[v] = "captured" /\ pc'[v] = "captured"
  BY DEF Written, TxStep, Ended
<1>2. rows[v] \in Row
  BY DEF TypeOK
<1>3. ASSUME NEW d \in Captures, pc[d] = "inserted", rows' = Publish(d)
      PROVE  Present(v)' /\ rows'[v].gen = rows[v].gen
  <2>1. v # d
    BY <1>1, <1>3
  <2>2. rows'[v] \in {rows[v], [rows[v] EXCEPT !.status = "superseded"]}
    BY <1>3, <2>1 DEF Publish
  <2> QED
    BY <1>2, <2>2 DEF Present, Row
<1>4. CASE rows' = rows
  BY <1>1, <1>4 DEF Present
<1> QED
  BY <1>1, <1>3, <1>4 DEF TxStep

LEMMA WritesStep ==
    ASSUME NEW gens \in SUBSET (Replays \cup {Live}), TxStep(gens), TypeOK,
           \A c \in Captures : Writes(c) /\ Written(c)
    PROVE  \A c \in Captures : Writes(c)' /\ Written(c)'
<1> USE CaptureAssumption
<1>1. \A c \in Captures : req'[c].gen \in Replays \cup {Live}
  BY DEF TxStep, Writes
<1>2. ASSUME NEW v \in Captures, Present(v)
      PROVE  Present(v)' /\ rows'[v].gen = rows[v].gen /\ pc'[v] = "captured"
  BY <1>2, PresentStays
<1>3. ASSUME NEW c \in Captures
      PROVE  Writes(c)'
  <2> DEFINE b == head'[c].base
  <2>1. ASSUME pc'[c] \in PastRead, b # None
        PROVE  rows'[b].status # "none" /\ (req'[c].gen \in Replays => rows'[b].gen = req'[c].gen)
    <3>1. CASE pc[c] \in PastRead /\ head'[c] = head[c]
      <4>1. b \in Captures /\ Present(b) /\ (req[c].gen \in Replays => rows[b].gen = req[c].gen)
        BY <2>1, <3>1 DEF Writes, TypeOK
      <4>2. req'[c] = req[c]
        BY <3>1 DEF TxStep, PastRead
      <4>3. rows'[head[c].base].status # "none" /\ rows'[head[c].base].gen = rows[head[c].base].gen
        BY <1>2, <3>1, <4>1 DEF Present
      <4> QED
        BY <3>1, <4>1, <4>2, <4>3
    <3>2. CASE rows' = rows /\ b \in {None} \cup Actives(req'[c].ref, req'[c].gen)
      BY <2>1, <3>2 DEF Actives, Present
    <3> QED
      BY <2>1, <3>1, <3>2 DEF TxStep
  <2> QED
    BY <1>1, <2>1 DEF Writes, Present
<1>4. ASSUME NEW v \in Captures, ~Present(v)
      PROVE  Written(v)'
  <2>1. rows[v].gen = Live
    BY <1>4 DEF Written
  <2>2. CASE rows' = rows
    BY <1>4, <2>1, <2>2 DEF Written, Present
  <2>3. ASSUME NEW d \in Captures, pc[d] = "inserted", pc'[d] = "captured", rows' = Publish(d)
        PROVE  Written(v)'
    <3>1. CASE v = d
      <4>1. rows'[v].status = "active"
        BY <2>3, <3>1 DEF Publish, NewRow
      <4> QED
        BY <2>3, <3>1, <4>1 DEF Written, Present
    <3>2. CASE v # d
      <4>1. v # head[d].base
        BY <1>4, <2>3, CaptureAssumption DEF Writes, PastRead
      <4>2. rows'[v] = rows[v]
        BY <2>3, <3>2, <4>1 DEF Publish
      <4> QED
        BY <1>4, <2>1, <4>2 DEF Written, Present
    <3> QED
      BY <3>1, <3>2
  <2> QED
    BY <2>2, <2>3 DEF TxStep
<1>5. \A v \in Captures : Present(v) => Written(v)'
  BY <1>2 DEF Written
<1> QED
  BY <1>3, <1>4, <1>5

-----------------------------------------------------------------------------
(* The shapes.                                                             *)

RunRecord ==
    [status: {"none", "running", "abandoned", "completed", "failed"},
     todo: SUBSET Payloads, at: Captures \cup {None}, bad: BOOLEAN,
     archive: Switches \cup {None}, prior: Replays \cup {Engine, None}]

SwitchRecord ==
    [at: {"idle", "refused", "checked", "ready", "out", "in", "done", "failed"},
     kind: {"promote", "demote"}, of: Replays \cup {None},
     archive: Switches \cup {None}, prior: Replays \cup {Engine, None},
     todo: SUBSET Captures, out: SUBSET Captures, into: SUBSET Captures]

Shapes ==
    /\ run \in [Replays -> RunRecord]
    /\ switch \in [Switches -> SwitchRecord]
    /\ active \in Replays \cup {Engine, None}
    /\ search \in [at: {"idle", "resolved"}, model: Replays \cup {Engine, None}]

LEMMA TypeIsShapes == TTypeOK <=> TypeOK /\ Shapes
BY DEF TTypeOK, Shapes, RunRecord, SwitchRecord

LEMMA RunShape ==
    ASSUME Shapes, NEW g \in Replays
    PROVE  /\ \A c \in Captures : ReplayRow(g, c) => run' \in [Replays -> RunRecord]
           /\ RunTransform(g) \/ ReplayStep(g) \/ RunDies(g) => run' \in [Replays -> RunRecord]
<1>1. run[g] \in RunRecord
  BY DEF Shapes
<1>2. ASSUME NEW r \in RunRecord, run' = [run EXCEPT ![g] = r]
      PROVE  run' \in [Replays -> RunRecord]
  BY <1>2 DEF Shapes
<1>3. ASSUME NEW c \in Captures, ReplayRow(g, c)
      PROVE  run' \in [Replays -> RunRecord]
  <2>1. PICK p \in run[g].todo : run' = [run EXCEPT ![g].at = c, ![g].todo = @ \ {p}]
    BY <1>3 DEF ReplayRow
  <2> DEFINE r == [run[g] EXCEPT !.at = c, !.todo = @ \ {p}]
  <2>2. r \in RunRecord
    BY <1>1 DEF RunRecord
  <2>3. run' = [run EXCEPT ![g] = r]
    BY <1>1, <2>1 DEF Shapes, RunRecord
  <2> HIDE DEF r
  <2> QED
    BY <1>2, <2>2, <2>3
<1>4. ASSUME RunTransform(g)
      PROVE  run' \in [Replays -> RunRecord]
  <2> DEFINE r == [run[g] EXCEPT !.status = "running", !.todo = {p \in Payloads : raw[p] = "stored"}]
  <2>1. r \in RunRecord
    BY <1>1 DEF RunRecord
  <2>2. run' = [run EXCEPT ![g] = r]
    BY <1>1, <1>4 DEF RunTransform, Shapes, RunRecord
  <2> HIDE DEF r
  <2> QED
    BY <1>2, <2>1, <2>2
<1>5. ASSUME RowDone(g)
      PROVE  run' \in [Replays -> RunRecord]
  <2> DEFINE r == [run[g] EXCEPT !.at = None, !.bad = @ \/ RowFailed(run[g].at)]
  <2>1. (run[g].bad \/ RowFailed(run[g].at)) \in BOOLEAN
    BY <1>1, Zenon DEF RunRecord, RowFailed
  <2>2. r \in RunRecord
    BY <1>1, <2>1 DEF RunRecord
  <2>3. run' = [run EXCEPT ![g] = r]
    BY <1>1, <1>5 DEF RowDone, Shapes, RunRecord
  <2> HIDE DEF r
  <2> QED
    BY <1>2, <2>2, <2>3
<1>6. ASSUME NEW st \in {"abandoned", "completed", "failed"}, run' = [run EXCEPT ![g].status = st]
      PROVE  run' \in [Replays -> RunRecord]
  BY <1>1, <1>6 DEF Shapes, RunRecord
<1>7. RunEnd(g) \/ RunDies(g) => run' \in [Replays -> RunRecord]
  BY <1>6 DEF RunEnd, RunDies
<1> QED
  BY <1>3, <1>4, <1>5, <1>7 DEF ReplayStep

\* What a promote or demote does to its own record.
LEMMA SwitchShape ==
    ASSUME Shapes, NEW s \in Switches, BeforeCommit(s) \/ SwitchCommit(s)
    PROVE  /\ switch' \in [Switches -> SwitchRecord]
           /\ \A t \in Switches \ {s} : switch'[t] = switch[t]
<1>1. switch \in [Switches -> SwitchRecord] /\ switch[s] \in SwitchRecord
  BY DEF Shapes
<1>2. ASSUME NEW x \in SwitchRecord, switch' = [switch EXCEPT ![s] = x]
      PROVE  /\ switch' \in [Switches -> SwitchRecord]
             /\ \A t \in Switches \ {s} : switch'[t] = switch[t]
  BY <1>1, <1>2
<1> SUFFICES \E x \in SwitchRecord : switch' = [switch EXCEPT ![s] = x]
  BY <1>2
<1>3. ASSUME NEW g \in Replays, PromoteCheck(s, g)
      PROVE  \E x \in SwitchRecord : switch' = [switch EXCEPT ![s] = x]
  <2> DEFINE at == IF ~Promoted(g) /\ IsPromotableRunStatus(g) THEN "checked" ELSE "refused"
             x == [switch[s] EXCEPT !.kind = "promote", !.of = g, !.archive = s, !.at = at]
  <2>1. x \in SwitchRecord
    BY <1>1 DEF SwitchRecord
  <2>2. switch' = [switch EXCEPT ![s] = x]
    BY <1>1, <1>3 DEF PromoteCheck, SwitchRecord
  <2> HIDE DEF x
  <2> QED
    BY <2>1, <2>2
<1>4. ASSUME NEW g \in Replays, DemoteCheck(s, g)
      PROVE  \E x \in SwitchRecord : switch' = [switch EXCEPT ![s] = x]
  <2> DEFINE at == IF Promoted(g) THEN "ready" ELSE "refused"
             x == [switch[s] EXCEPT !.kind = "demote", !.of = g, !.archive = run[g].archive,
                                    !.prior = run[g].prior, !.at = at]
  <2>1. run[g].archive \in Switches \cup {None} /\ run[g].prior \in Replays \cup {Engine, None}
    BY DEF Shapes, RunRecord
  <2>2. x \in SwitchRecord
    <3>1. at \in {"ready", "refused"} /\ s \in Switches
      OBVIOUS
    <3> HIDE DEF at
    <3> QED
      BY <1>1, <2>1, <3>1 DEF SwitchRecord
  <2>3. switch' = [switch EXCEPT ![s] = x]
    BY <1>1, <1>4 DEF DemoteCheck, SwitchRecord
  <2> HIDE DEF x
  <2> QED
    BY <2>2, <2>3
<1>5. ASSUME PromoteReadPrior(s)
      PROVE  \E x \in SwitchRecord : switch' = [switch EXCEPT ![s] = x]
  <2> DEFINE x == [switch[s] EXCEPT !.prior = active, !.at = "ready"]
  <2>1. x \in SwitchRecord
    BY <1>1 DEF SwitchRecord, Shapes
  <2>2. switch' = [switch EXCEPT ![s] = x]
    BY <1>1, <1>5 DEF PromoteReadPrior, SwitchRecord
  <2> HIDE DEF x
  <2> QED
    BY <2>1, <2>2
<1>6. ASSUME NEW at \in {"out", "in"}, NEW V \in SUBSET Captures,
             switch' = [switch EXCEPT ![s].at = at, ![s].todo = V]
      PROVE  \E x \in SwitchRecord : switch' = [switch EXCEPT ![s] = x]
  <2> DEFINE x == [switch[s] EXCEPT !.at = at, !.todo = V]
  <2>1. x \in SwitchRecord
    BY <1>1 DEF SwitchRecord
  <2>2. switch' = [switch EXCEPT ![s] = x]
    BY <1>1, <1>6 DEF SwitchRecord
  <2> HIDE DEF x
  <2> QED
    BY <2>1, <2>2
<1>7. SwitchOpen(s) \/ SecondUpdate(s) => \E x \in SwitchRecord : switch' = [switch EXCEPT ![s] = x]
  BY <1>6 DEF SwitchOpen, SecondUpdate
<1>8. ASSUME NEW v \in Captures, TakeRow(s, v)
      PROVE  \E x \in SwitchRecord : switch' = [switch EXCEPT ![s] = x]
  <2> DEFINE o == IF switch[s].at = "out" THEN switch[s].out \cup {v} ELSE switch[s].out
             i == IF switch[s].at = "in" THEN switch[s].into \cup {v} ELSE switch[s].into
             d == IF EntryFree(s, v) THEN switch[s].todo \ {v} ELSE switch[s].todo
             x == [switch[s] EXCEPT !.out = o, !.into = i, !.todo = d]
  <2>1. o \in SUBSET Captures /\ i \in SUBSET Captures /\ d \in SUBSET Captures
    BY <1>1 DEF SwitchRecord
  <2>2. switch' = [switch EXCEPT ![s] = x]
    BY <1>1, <1>8 DEF TakeRow, SwitchRecord
  <2> HIDE DEF o, i, d
  <2>3. x \in SwitchRecord
    BY <1>1, <2>1 DEF SwitchRecord
  <2> HIDE DEF x
  <2> QED
    BY <2>2, <2>3
<1>9. ASSUME NEW v \in Captures, EnterRow(s, v)
      PROVE  \E x \in SwitchRecord : switch' = [switch EXCEPT ![s] = x]
  <2> DEFINE x == [switch[s] EXCEPT !.todo = @ \ {v}]
  <2>1. x \in SwitchRecord
    BY <1>1 DEF SwitchRecord
  <2>2. switch' = [switch EXCEPT ![s] = x]
    BY <1>1, <1>9 DEF EnterRow, SwitchRecord
  <2> HIDE DEF x
  <2> QED
    BY <2>1, <2>2
<1>10. ASSUME NEW end \in {"done", "failed"}, SwitchEnds(s, end)
       PROVE  \E x \in SwitchRecord : switch' = [switch EXCEPT ![s] = x]
  <2> DEFINE x == [switch[s] EXCEPT !.at = end, !.todo = {}, !.out = {}, !.into = {}]
  <2>1. x \in SwitchRecord
    BY <1>1 DEF SwitchRecord
  <2>2. switch' = [switch EXCEPT ![s] = x]
    BY <1>1, <1>10 DEF SwitchEnds, SwitchRecord
  <2> HIDE DEF x
  <2> QED
    BY <2>1, <2>2
<1>11. SwitchCommit(s) \/ SwitchRefused(s) \/ SwitchCrash(s) => \E end \in {"done", "failed"} : SwitchEnds(s, end)
  BY DEF SwitchCommit, SwitchRefused, SwitchCrash
<1> QED
  BY <1>3, <1>4, <1>5, <1>7, <1>8, <1>9, <1>10, <1>11 DEF BeforeCommit

\* Between its check and its end it is about the same run and the same archive, and
\* the rows it has to do with are those it had and those it found.
LEMMA SwitchGoesOn ==
    ASSUME Shapes, NEW s \in Switches,
           \/ PromoteReadPrior(s) \/ SwitchOpen(s)
           \/ \E v \in Captures : TakeRow(s, v) \/ EnterRow(s, v)
           \/ SecondUpdate(s)
    PROVE  /\ Busy(s)
           /\ switch'[s].of = switch[s].of /\ switch'[s].kind = switch[s].kind
           /\ switch'[s].archive = switch[s].archive
           /\ \A v \in switch'[s].todo \cup switch'[s].out \cup switch'[s].into :
                 v \in switch[s].todo \cup switch[s].out \cup switch[s].into \/ Present(v)
           /\ switch'[s].at = "in" /\ ~SecondUpdate(s) =>
                 /\ switch[s].at = "in"
                 /\ switch[s].todo \cup switch[s].into \subseteq switch'[s].todo \cup switch'[s].into
<1>1. switch \in [Switches -> SwitchRecord] /\ switch[s] \in SwitchRecord
  BY DEF Shapes
<1>2. CASE PromoteReadPrior(s)
  BY <1>1, <1>2 DEF PromoteReadPrior, SwitchRecord, Busy
<1>3. CASE SwitchOpen(s)
  BY <1>1, <1>3 DEF SwitchOpen, SwitchRecord, Busy
<1>4. CASE SecondUpdate(s)
  BY <1>1, <1>4 DEF SecondUpdate, SwitchRecord, Busy
<1>5. ASSUME NEW v \in Captures, TakeRow(s, v)
      PROVE  /\ Busy(s) /\ v \in switch[s].todo
             /\ switch'[s].of = switch[s].of /\ switch'[s].kind = switch[s].kind
             /\ switch'[s].archive = switch[s].archive /\ switch'[s].at = switch[s].at
             /\ switch'[s].todo \in {switch[s].todo, switch[s].todo \ {v}}
             /\ switch'[s].out \in {switch[s].out, switch[s].out \cup {v}}
             /\ switch'[s].into = IF switch[s].at = "in" THEN switch[s].into \cup {v} ELSE switch[s].into
  BY <1>1, <1>5 DEF TakeRow, InTransaction, SwitchRecord, Busy
<1>6. ASSUME NEW v \in Captures, EnterRow(s, v)
      PROVE  /\ Busy(s) /\ v \in AtHand(s)
             /\ switch'[s].of = switch[s].of /\ switch'[s].kind = switch[s].kind
             /\ switch'[s].archive = switch[s].archive /\ switch'[s].at = switch[s].at
             /\ switch'[s].todo = switch[s].todo \ {v}
             /\ switch'[s].out = switch[s].out
             /\ switch'[s].into = switch[s].into
  <2>1. v \in AtHand(s) /\ switch' = [switch EXCEPT ![s].todo = @ \ {v}]
    BY <1>6 DEF EnterRow
  <2>2. switch[s].at \in {"out", "in"}
    BY <2>1 DEF AtHand
  <2> QED
    BY <1>1, <2>1, <2>2 DEF SwitchRecord, Busy
<1> QED
  BY <1>2, <1>3, <1>4, <1>5, <1>6 DEF AtHand

\* What a promote or demote commits has its shape.
LEMMA CommitShape ==
    ASSUME TypeOK, Shapes, NEW s \in Switches, SwitchBook(s), SwitchCommit(s)
    PROVE  /\ rows' \in [Captures -> Row]
           /\ run' \in [Replays -> RunRecord]
           /\ active' \in Replays \cup {Engine, None}
<1>1. /\ switch[s] \in SwitchRecord /\ switch[s].of \in Replays
      /\ switch[s].kind = "promote" => switch[s].archive = s
      /\ run[switch[s].of] \in RunRecord
  BY DEF SwitchBook, Busy, SwitchCommit, Shapes
<1>2. OutOf(s) \in Generations
  BY <1>1, TransformAssumption DEF OutOf, SwitchRecord, Generations
<1>3. ASSUME NEW v \in Captures
      PROVE  Swapped(s)[v] \in Row
  <2>1. rows[v] \in Row
    BY DEF TypeOK
  <2>2. GenFor(s, v) \in Generations
    BY <1>2, <2>1 DEF GenFor, Row, Generations
  <2>3. [rows[v] EXCEPT !.gen = GenFor(s, v)] \in Row
    BY <2>1, <2>2 DEF Row
  <2> QED
    BY <2>3 DEF Swapped
<1>4. rows' \in [Captures -> Row]
  BY <1>3 DEF SwitchCommit, Swapped
<1>5. run' \in [Replays -> RunRecord]
  <2> DEFINE o == switch[s].of
             a == IF switch[s].kind = "promote" THEN switch[s].archive ELSE None
             p == IF switch[s].kind = "promote" THEN switch[s].prior ELSE None
             r == [run[o] EXCEPT !.archive = a, !.prior = p]
  <2>1. a \in Switches \cup {None} /\ p \in Replays \cup {Engine, None}
    BY <1>1 DEF SwitchRecord
  <2> HIDE DEF a, p
  <2>2. r \in RunRecord
    BY <1>1, <2>1 DEF RunRecord
  <2>3. run' = [run EXCEPT ![o].archive = a, ![o].prior = p]
    BY DEF SwitchCommit, Bookkeeping, a, p
  <2>4. run' = [run EXCEPT ![o] = r]
    BY <1>1, <2>3 DEF Shapes, RunRecord
  <2> HIDE DEF r
  <2> QED
    BY <1>1, <2>2, <2>4 DEF Shapes
<1>6. active' \in Replays \cup {Engine, None}
  BY <1>1 DEF SwitchCommit, SwitchRecord
<1> QED
  BY <1>4, <1>5, <1>6

-----------------------------------------------------------------------------
(* The books.                                                              *)

\* A live capture, or nothing, beside the runs and the switches.
LEMMA CaptureKeeps ==
    ASSUME TTypeOK, Books, [CaptureStep]_vars, run' = run, switch' = switch
    PROVE  Books' /\ TypeOK'
<1>1. TxStep({Live}) /\ TypeOK' /\ TypeOK
  BY CaptureTxStep, TypeIsShapes
<1>2. Live \notin Replays
  BY TransformAssumption, CaptureAssumption
<1>3. ASSUME NEW g \in Replays PROVE RunBook(g)'
  <2>1. g \notin {Live} /\ RunBook(g)
    BY <1>2 DEF Books
  <2>2. ASSUME NEW c \in Captures, Derived(c, g)'
        PROVE  /\ Derived(c, g)
               /\ pc[c] \in {"captured", "noop"} => pc'[c] = pc[c]
    BY <1>1, <2>1, <2>2, DerivedStep
  <2> QED
    BY <2>1, <2>2 DEF RunBook, Promoted
<1>4. \A s \in Switches : SwitchBook(s)'
  <2>1. \A v \in Captures : Present(v) => Present(v)'
    BY <1>1, PresentStays DEF Books
  <2>2. \A s \in Switches :
          switch[s].todo \cup switch[s].out \cup switch[s].into \in SUBSET Captures
    BY TypeIsShapes DEF Shapes, SwitchRecord
  <2> QED
    BY <2>1, <2>2 DEF Books, SwitchBook, Busy
<1>5. \A c \in Captures : Writes(c)' /\ Written(c)'
  <2>1. {Live} \in SUBSET (Replays \cup {Live})
    OBVIOUS
  <2> QED
    BY <1>1, <2>1, WritesStep DEF Books
<1> QED
  BY <1>1, <1>3, <1>4, <1>5 DEF Books

LEMMA ReplayRowKeeps ==
    ASSUME TTypeOK, Books, NEW g \in Replays, NEW c \in Captures, ReplayRow(g, c)
    PROVE  Books' /\ TypeOK'
<1>1. PICK p \in run[g].todo : /\ DeriveFromRawCapture(c, p[1], p[2], p[3], g)
                               /\ run' = [run EXCEPT ![g].at = c, ![g].todo = @ \ {p}]
  BY DEF ReplayRow
<1>2. TypeOK /\ run \in [Replays -> RunRecord] /\ switch' = switch
  BY TypeIsShapes DEF Shapes, ReplayRow
<1>3. p \in Payloads
  BY <1>1, <1>2 DEF RunRecord
<1>4. TxStep({g}) /\ TypeOK'
  BY <1>1, <1>2, <1>3, ReplayTxStep
<1>5. /\ run'[g].status = run[g].status /\ run'[g].bad = run[g].bad /\ run'[g].archive = run[g].archive
      /\ run'[g].at = c /\ run[g].status = "running" /\ run[g].at = None
      /\ \A h \in Replays \ {g} : run'[h] = run[h]
  BY <1>1, <1>2 DEF RunRecord, ReplayRow
<1>6. ASSUME NEW h \in Replays \ {g} PROVE RunBook(h)'
  <2>1. h \notin {g} /\ RunBook(h) /\ run'[h] = run[h]
    BY <1>5 DEF Books
  <2>2. ASSUME NEW d \in Captures, Derived(d, h)'
        PROVE  /\ Derived(d, h)
               /\ pc[d] \in {"captured", "noop"} => pc'[d] = pc[d]
    BY <1>4, <2>1, <2>2, DerivedStep
  <2> QED
    BY <2>1, <2>2 DEF RunBook, Promoted
<1>7. RunBook(g)'
  <2>1. RunBook(g)
    BY DEF Books
  <2>2. ASSUME NEW d \in Captures, d # c, Derived(d, g)'
        PROVE  pc'[d] \in {"captured", "noop"} \/ run[g].bad
    <3>1. pc'[d] = pc[d] /\ req'[d] = req[d]
      BY <1>1, <1>2, <2>2 DEF DeriveFromRawCapture, TypeOK
    <3>2. Derived(d, g)
      BY <2>2, <3>1 DEF Derived
    <3> QED
      BY <1>5, <2>1, <3>1, <3>2, CaptureAssumption DEF RunBook
  <2> QED
    BY <1>5, <2>1, <2>2, CaptureAssumption DEF RunBook, Promoted
<1>8. \A s \in Switches : SwitchBook(s)'
  <2>1. rows' = rows
    BY <1>1 DEF DeriveFromRawCapture, storeVars
  <2> QED
    BY <1>2, <1>5, <2>1 DEF Books, SwitchBook, Busy, Present
<1>9. \A d \in Captures : Writes(d)' /\ Written(d)'
  <2>1. {g} \in SUBSET (Replays \cup {Live})
    OBVIOUS
  <2> QED
    BY <1>2, <1>4, <2>1, WritesStep DEF Books
<1> QED
  BY <1>4, <1>6, <1>7, <1>8, <1>9 DEF Books

\* What neither a transaction nor a switch takes part in.
LEMMA RunKeeps ==
    ASSUME TTypeOK, Books, NEW g \in Replays, RunTransform(g) \/ ReplayStep(g) \/ RunDies(g)
    PROVE  Books' /\ TypeOK'
<1>1. UNCHANGED <<vars, switch>> /\ TypeOK
  BY TypeIsShapes DEF RunTransform, ReplayStep, RowDone, RunEnd, RunDies
<1>2. TypeOK'
  BY <1>1 DEF vars, TypeOK
<1>3. run \in [Replays -> RunRecord] /\ run[g] \in RunRecord
  BY TypeIsShapes DEF Shapes
<1>4. \A h \in Replays \ {g} : run'[h] = run[h]
  BY <1>3 DEF RunTransform, ReplayStep, RowDone, RunEnd, RunDies, RunRecord
<1>5. \A h \in Replays \ {g} : RunBook(h)'
  BY <1>1, <1>4 DEF Books, RunBook, Promoted, Derived, vars
<1>6. run[g].status # "completed" /\ run'[g].archive = run[g].archive
  BY <1>3 DEF RunTransform, ReplayStep, RowDone, RunEnd, RunDies, RunRecord
<1>7. RunBook(g)'
  <2>1. RunBook(g) /\ ~Promoted(g) /\ ~Promoted(g)'
    BY <1>6 DEF Books, RunBook, Promoted
  <2>2. \A c \in Captures : (Derived(c, g)' <=> Derived(c, g)) /\ pc'[c] = pc[c]
    BY <1>1 DEF Derived, vars
  <2>3. CASE RunTransform(g)
    <3>1. /\ run[g].status = "none" /\ run'[g].status = "running"
      BY <1>3, <2>3 DEF RunTransform, RunRecord
    <3> QED
      BY <2>1, <2>2, <3>1 DEF RunBook
  <2>4. CASE RowDone(g)
    <3>1. /\ run[g].status = "running" /\ run'[g].status = "running"
          /\ run[g].at # None /\ pc[run[g].at] \in Ended
          /\ run'[g].bad = (run[g].bad \/ RowFailed(run[g].at))
      BY <1>3, <2>4 DEF RowDone, RunRecord
    <3>2. pc[run[g].at] \in {"captured", "noop"} \/ run'[g].bad
      BY <3>1 DEF RowFailed, Ended
    <3>3. run[g].bad => run'[g].bad
      BY <3>1
    <3> QED
      BY <2>1, <2>2, <3>1, <3>2, <3>3 DEF RunBook
  <2>5. CASE RunEnd(g)
    <3>1. /\ run[g].at = None /\ run[g].todo = {} /\ run'[g].at = None /\ run'[g].todo = {}
          /\ run'[g].bad = run[g].bad /\ run[g].status = "running"
          /\ run'[g].status = IF run[g].bad THEN "failed" ELSE "completed"
      BY <1>3, <2>5 DEF RunEnd, RunRecord
    <3> QED
      BY <2>1, <2>2, <3>1 DEF RunBook
  <2>6. CASE RunDies(g)
    <3>1. run'[g].status = "abandoned"
      BY <1>3, <2>6 DEF RunDies, RunRecord
    <3> QED
      BY <2>1, <2>2, <3>1 DEF RunBook
  <2> QED
    BY <2>3, <2>4, <2>5, <2>6 DEF ReplayStep
<1>8. \A s \in Switches : SwitchBook(s)'
  BY <1>1, <1>4, <1>6 DEF Books, SwitchBook, Busy, Present, vars
<1>9. \A c \in Captures : Writes(c)' /\ Written(c)'
  BY <1>1 DEF Books, Writes, Written, Present, vars
<1> QED
  BY <1>2, <1>5, <1>7, <1>8, <1>9 DEF Books

LEMMA SwitchKeeps ==
    ASSUME TTypeOK, Books, NEW s \in Switches, BeforeCommit(s)
    PROVE  Books' /\ TypeOK' /\ UNCHANGED <<vars, run, active, search>>
<1> DEFINE Sets(t) == switch[t].todo \cup switch[t].out \cup switch[t].into
<1>1. UNCHANGED <<vars, run, active, search>> /\ TypeOK /\ Shapes
  BY TypeIsShapes DEF BeforeCommit, PromoteCheck, DemoteCheck, PromoteReadPrior, SwitchOpen,
     TakeRow, EnterRow, SecondUpdate, SwitchRefused, SwitchCrash
<1>2. TypeOK'
  BY <1>1 DEF vars, TypeOK
<1>3. \A g \in Replays : RunBook(g)'
  BY <1>1 DEF Books, RunBook, Promoted, Derived, vars
<1>4. \A c \in Captures : Writes(c)' /\ Written(c)'
  BY <1>1 DEF Books, Writes, Written, Present, vars
<1>5. switch \in [Switches -> SwitchRecord] /\ switch[s] \in SwitchRecord /\ SwitchBook(s)
  BY <1>1 DEF Shapes, Books
<1>6. \A t \in Switches \ {s} : switch'[t] = switch[t]
  BY <1>1, SwitchShape
<1>7. \A t \in Switches \ {s} : SwitchBook(t)'
  BY <1>1, <1>6 DEF Books, SwitchBook, Busy, Present, vars
<1>8. SwitchBook(s)'
  <2>1. ASSUME NEW g \in Replays, PromoteCheck(s, g) PROVE SwitchBook(s)'
    <3>1. /\ switch'[s].of = g /\ switch'[s].archive = s /\ Sets(s)' = Sets(s)
          /\ switch'[s].at = IF ~Promoted(g) /\ IsPromotableRunStatus(g) THEN "checked" ELSE "refused"
      BY <1>5, <2>1 DEF PromoteCheck, SwitchRecord
    <3>2. \A v \in Sets(s)' : Present(v)'
      BY <1>1, <1>5, <3>1 DEF SwitchBook, Present, vars
    <3> QED
      BY <1>1, <3>1, <3>2 DEF SwitchBook, Busy, IsPromotableRunStatus
  <2>2. ASSUME NEW g \in Replays, DemoteCheck(s, g) PROVE SwitchBook(s)'
    <3>1. /\ switch'[s].of = g /\ switch'[s].kind = "demote" /\ Sets(s)' = Sets(s)
      BY <1>5, <2>2 DEF DemoteCheck, SwitchRecord
    <3>2. \A v \in Sets(s)' : Present(v)'
      BY <1>1, <1>5, <3>1 DEF SwitchBook, Present, vars
    <3> QED
      BY <3>1, <3>2 DEF SwitchBook
  <2>3. ASSUME \/ PromoteReadPrior(s) \/ SwitchOpen(s)
               \/ \E v \in Captures : TakeRow(s, v) \/ EnterRow(s, v)
               \/ SecondUpdate(s)
        PROVE  SwitchBook(s)'
    <3>1. /\ Busy(s)
          /\ switch'[s].of = switch[s].of /\ switch'[s].kind = switch[s].kind
          /\ switch'[s].archive = switch[s].archive
          /\ \A v \in Sets(s)' : v \in Sets(s) \/ Present(v)
      BY <1>1, <2>3, SwitchGoesOn
    <3>2. \A v \in Sets(s)' : Present(v)'
      BY <1>1, <1>5, <3>1 DEF SwitchBook, Present, vars
    <3> QED
      BY <1>1, <1>5, <3>1, <3>2 DEF SwitchBook
  <2>4. ASSUME SwitchRefused(s) \/ SwitchCrash(s) PROVE SwitchBook(s)'
    <3>1. switch'[s].at = "failed" /\ Sets(s)' = {}
      BY <1>5, <2>4 DEF SwitchRefused, SwitchCrash, SwitchEnds, SwitchRecord
    <3> QED
      BY <3>1 DEF SwitchBook, Busy
  <2> QED
    BY <2>1, <2>2, <2>3, <2>4 DEF BeforeCommit
<1> QED
  BY <1>1, <1>2, <1>3, <1>4, <1>7, <1>8 DEF Books

\* A commit moves live versions out, and brings versions in from the generation
\* of a completed run or from an archive: no replay is writing to either.
LEMMA SwitchMoves ==
    ASSUME TTypeOK, Books, NEW s \in Switches, SwitchCommit(s)
    PROVE  /\ \A v \in Captures : rows'[v].status = rows[v].status
           /\ \A v \in Captures : ~Present(v) => rows'[v] = rows[v]
           /\ \A c \in Captures, v \in Captures :
                /\ pc[c] \in PastRead /\ req[c].gen \in Replays /\ rows[v].gen = req[c].gen
                => rows'[v].gen = rows[v].gen
<1>1. rows \in [Captures -> Row] /\ rows' = Swapped(s) /\ switch[s] \in SwitchRecord
  BY TypeIsShapes DEF TypeOK, SwitchCommit, Shapes
<1>2. /\ switch[s].of \in Replays
      /\ switch[s].kind = "promote" => run[switch[s].of].status = "completed"
      /\ \A v \in switch[s].out \cup switch[s].into : Present(v)
  BY DEF SwitchCommit, Books, SwitchBook, Busy
<1>3. ASSUME NEW v \in Captures
      PROVE  /\ rows'[v].status = rows[v].status
             /\ ~Present(v) => rows'[v] = rows[v]
  <2>1. rows[v] \in Row /\ rows'[v] = [rows[v] EXCEPT !.gen = GenFor(s, v)]
    BY <1>1 DEF Swapped
  <2>2. ~Present(v) => GenFor(s, v) = rows[v].gen
    BY <1>2 DEF GenFor
  <2> QED
    BY <2>1, <2>2 DEF Row
<1>4. ASSUME NEW c \in Captures, NEW v \in Captures,
             pc[c] \in PastRead, req[c].gen \in Replays, rows[v].gen = req[c].gen
      PROVE  rows'[v].gen = rows[v].gen
  <2>1. rows[v].gen # Live
    BY <1>4, TransformAssumption, CaptureAssumption
  <2>2. Into(s) # req[c].gen
    <3>1. CASE switch[s].kind = "promote"
      <4>1. SUFFICES ASSUME switch[s].of = req[c].gen PROVE FALSE
        BY <3>1 DEF Into
      <4>2. RunBook(req[c].gen) /\ run[req[c].gen].status = "completed" /\ Derived(c, req[c].gen)
        BY <1>2, <1>4, <3>1, <4>1 DEF Books, Derived, PastRead
      <4>3. pc[c] \in {"captured", "noop"}
        BY <4>2, CaptureAssumption DEF RunBook
      <4> QED
        BY <1>4, <4>3 DEF PastRead
    <3>2. CASE switch[s].kind # "promote"
      <4>1. switch[s].archive \in Switches \cup {None}
        BY <1>1 DEF SwitchRecord
      <4> QED
        BY <1>4, <3>2, <4>1, TransformAssumption, CaptureAssumption DEF Into
    <3> QED
      BY <3>1, <3>2
  <2>3. GenFor(s, v) = rows[v].gen
    BY <1>4, <2>1, <2>2 DEF GenFor
  <2> QED
    BY <1>1, <2>3 DEF Swapped, Row
<1> QED
  BY <1>3, <1>4

LEMMA SwitchCommitKeeps ==
    ASSUME TTypeOK, Books, NEW s \in Switches, SwitchCommit(s)
    PROVE  Books' /\ TypeOK'
<1>1. /\ TypeOK /\ Shapes
      /\ SwitchBook(s)
  BY TypeIsShapes DEF Books
<1>2. TypeOK'
  BY <1>1, CommitShape DEF TypeOK, SwitchCommit, txVars, lockVars, feedVars
<1>3. UNCHANGED <<pc, req, head>>
  BY DEF SwitchCommit, txVars
<1>4. /\ \A v \in Captures : Present(v)' <=> Present(v)
      /\ \A v \in Captures : ~Present(v) => rows'[v] = rows[v]
      /\ \A c \in Captures, v \in Captures :
            /\ pc[c] \in PastRead /\ req[c].gen \in Replays /\ rows[v].gen = req[c].gen
            => rows'[v].gen = rows[v].gen
  BY SwitchMoves DEF Present
<1>5. ASSUME NEW c \in Captures PROVE Writes(c)' /\ Written(c)'
  <2>1. Writes(c) /\ Written(c) /\ head[c].base \in Captures \cup {None}
    BY <1>1 DEF Books, TypeOK
  <2>2. Writes(c)'
    <3>1. req'[c].gen \in Replays \cup {Live}
      BY <1>3, <2>1 DEF Writes
    <3>2. ASSUME pc[c] \in PastRead, head[c].base # None
          PROVE  /\ rows'[head[c].base].status # "none"
                 /\ req[c].gen \in Replays => rows'[head[c].base].gen = req[c].gen
      BY <1>4, <2>1, <3>2 DEF Writes, Present
    <3> QED
      BY <1>3, <3>1, <3>2 DEF Writes, Present
  <2>3. Written(c)'
    BY <1>3, <1>4, <2>1 DEF Written
  <2> QED
    BY <2>2, <2>3
<1>6. switch \in [Switches -> SwitchRecord] /\ run \in [Replays -> RunRecord]
  BY <1>1 DEF Shapes
<1>7. /\ switch'[s].at = "done" /\ switch'[s].todo \cup switch'[s].out \cup switch'[s].into = {}
      /\ \A t \in Switches \ {s} : switch'[t] = switch[t]
  BY <1>6 DEF SwitchCommit, SwitchEnds, SwitchRecord
<1>8. \A g \in Replays : /\ run'[g].status = run[g].status /\ run'[g].todo = run[g].todo
                         /\ run'[g].at = run[g].at /\ run'[g].bad = run[g].bad
  BY <1>6 DEF SwitchCommit, Bookkeeping, RunRecord
<1>9. \A t \in Switches : SwitchBook(t)'
  <2>1. SwitchBook(s)'
    BY <1>7 DEF SwitchBook, Busy
  <2>2. ASSUME NEW t \in Switches \ {s} PROVE SwitchBook(t)'
    <3>1. /\ SwitchBook(t) /\ switch'[t] = switch[t]
          /\ switch[t].todo \cup switch[t].out \cup switch[t].into \in SUBSET Captures
      BY <1>6, <1>7 DEF Books, SwitchRecord
    <3> QED
      BY <1>4, <1>8, <3>1 DEF SwitchBook, Busy
  <2> QED
    BY <2>1, <2>2
<1>10. ASSUME NEW g \in Replays PROVE RunBook(g)'
  <2>1. RunBook(g) /\ \A c \in Captures : Derived(c, g)' <=> Derived(c, g)
    BY <1>3 DEF Books, Derived
  <2>2. Promoted(g)' => Promoted(g) \/ run[g].status = "completed"
    <3>1. CASE g # switch[s].of
      <4>1. run'[g] = run[g]
        BY <1>6, <3>1 DEF SwitchCommit, Bookkeeping
      <4> QED
        BY <4>1 DEF Promoted
    <3>2. CASE g = switch[s].of
      <4>1. run'[g].archive = IF switch[s].kind = "promote" THEN switch[s].archive ELSE None
        BY <1>6, <3>2 DEF SwitchCommit, Bookkeeping, RunRecord
      <4>2. switch[s].kind = "promote" => run[g].status = "completed"
        BY <1>1, <3>2 DEF SwitchBook, Busy, SwitchCommit
      <4> QED
        BY <4>1, <4>2 DEF Promoted
    <3> QED
      BY <3>1, <3>2
  <2> QED
    BY <1>3, <1>8, <2>1, <2>2 DEF RunBook
<1> QED
  BY <1>2, <1>5, <1>9, <1>10 DEF Books

LEMMA InitTInv == TInit => TInv
<1> SUFFICES ASSUME TInit PROVE TInv
  OBVIOUS
<1>1. TypeOK /\ \A c \in Captures : pc[c] = "idle" /\ ~Present(c) /\ rows[c].gen = Live
                                    /\ req[c].gen = Live
  BY InitType DEF TInit, Init, Present, NoRow
<1>2. Shapes
  BY DEF TInit, NoSearch, Shapes, RunRecord, SwitchRecord
<1>3. \A g \in Replays : RunBook(g)
  BY <1>1 DEF TInit, RunBook, Derived, Promoted
<1>4. \A s \in Switches : SwitchBook(s)
  BY DEF TInit, SwitchBook, Busy
<1>5. \A c \in Captures : Writes(c) /\ Written(c)
  BY <1>1 DEF Writes, Written, PastRead
<1> QED
  BY <1>1, <1>2, <1>3, <1>4, <1>5, TypeIsShapes DEF TInv, Books

\* The ways a step of the pipeline is made.
LEMMA StepKinds ==
    ASSUME [TNext]_tvars
    PROVE  \/ [CaptureStep]_vars /\ UNCHANGED trVars
           \/ /\ UNCHANGED <<vars, run, switch>>
              /\ CaptureEmbeds \/ SearchModel \/ SearchRows
           \/ \E g \in Replays, c \in Captures : ReplayRow(g, c)
           \/ \E g \in Replays : RunTransform(g) \/ ReplayStep(g) \/ RunDies(g)
           \/ \E s \in Switches : BeforeCommit(s)
           \/ \E s \in Switches : SwitchCommit(s)
<1>1. ASSUME UNCHANGED tvars PROVE [CaptureStep]_vars /\ UNCHANGED trVars
  BY <1>1 DEF tvars, trVars, vars
<1>2. CaptureEmbeds \/ SearchModel \/ SearchRows => UNCHANGED <<vars, run, switch>>
  BY DEF CaptureEmbeds, SearchModel, SearchRows
<1> QED
  BY <1>1, <1>2 DEF TNext, SwitchStep, SwitchVictim, BeforeCommit

LEMMA NextTInv == TInv /\ [TNext]_tvars => TInv'
<1> SUFFICES ASSUME TInv, [TNext]_tvars PROVE TInv'
  OBVIOUS
<1>1. TTypeOK /\ Books /\ TypeOK /\ Shapes
  BY TypeIsShapes DEF TInv
<1>2. CASE [CaptureStep]_vars /\ UNCHANGED trVars
  <2>1. Books' /\ TypeOK'
    BY <1>1, <1>2, CaptureKeeps DEF trVars
  <2>2. Shapes'
    BY <1>1, <1>2 DEF trVars, Shapes
  <2> QED
    BY <2>1, <2>2, TypeIsShapes DEF TInv, TTypeOK, Shapes, RunRecord, SwitchRecord
<1>3. CASE UNCHANGED <<vars, run, switch>> /\ (CaptureEmbeds \/ SearchModel \/ SearchRows)
  <2>1. [CaptureStep]_vars
    BY <1>3
  <2>2. Books' /\ TypeOK'
    BY <1>1, <1>3, <2>1, CaptureKeeps
  <2>3. Shapes'
    BY <1>1, <1>3 DEF Shapes, CaptureEmbeds, SearchModel, SearchRows, NoSearch
  <2> QED
    BY <2>2, <2>3 DEF TInv, TTypeOK, Shapes, RunRecord, SwitchRecord
<1>4. ASSUME NEW g \in Replays,
             \/ \E c \in Captures : ReplayRow(g, c)
             \/ RunTransform(g) \/ ReplayStep(g) \/ RunDies(g)
      PROVE  TInv'
  <2>1. Books' /\ TypeOK'
    BY <1>1, <1>4, ReplayRowKeeps, RunKeeps
  <2>2. run' \in [Replays -> RunRecord]
    BY <1>1, <1>4, RunShape
  <2>3. UNCHANGED <<switch, active, search>>
    BY <1>4 DEF ReplayRow, RunTransform, ReplayStep, RowDone, RunEnd, RunDies
  <2>4. Shapes'
    BY <1>1, <2>2, <2>3 DEF Shapes, RunRecord, SwitchRecord
  <2> QED
    BY <2>1, <2>4 DEF TInv, TTypeOK, Shapes, RunRecord, SwitchRecord
<1>5. ASSUME NEW s \in Switches, BeforeCommit(s)
      PROVE  TInv'
  <2>1. Books' /\ TypeOK' /\ UNCHANGED <<run, active, search>>
    BY <1>1, <1>5, SwitchKeeps
  <2>2. switch' \in [Switches -> SwitchRecord]
    BY <1>1, <1>5, SwitchShape
  <2>3. Shapes'
    BY <1>1, <2>1, <2>2 DEF Shapes, RunRecord, SwitchRecord
  <2> QED
    BY <2>1, <2>3 DEF TInv, TTypeOK, Shapes, RunRecord, SwitchRecord
<1>6. ASSUME NEW s \in Switches, SwitchCommit(s)
      PROVE  TInv'
  <2>1. Books' /\ TypeOK'
    BY <1>1, <1>6, SwitchCommitKeeps
  <2>2. switch' \in [Switches -> SwitchRecord]
    BY <1>1, <1>6, SwitchShape
  <2>3. run' \in [Replays -> RunRecord] /\ active' \in Replays \cup {Engine, None}
    BY <1>1, <1>6, CommitShape DEF Books
  <2>4. search' = search
    BY <1>6 DEF SwitchCommit
  <2>5. Shapes'
    BY <1>1, <2>2, <2>3, <2>4 DEF Shapes, RunRecord, SwitchRecord
  <2> QED
    BY <2>1, <2>5 DEF TInv, TTypeOK, Shapes, RunRecord, SwitchRecord
<1> QED
  BY <1>2, <1>3, <1>4, <1>5, <1>6, StepKinds

LEMMA TInvHolds == TSpec => []TInv
  BY InitTInv, NextTInv, PTL DEF TSpec

LEMMA PromotedComplete == Books => PromotedIsComplete
<1> SUFFICES ASSUME Books, NEW g \in Replays, Promoted(g)
             PROVE  /\ run[g].todo = {} /\ run[g].at = None
                    /\ \A c \in Captures : pc[c] # "idle" /\ req[c].gen = g
                                              => pc[c] \in {"captured", "noop"}
  BY DEF PromotedIsComplete
<1>1. RunBook(g)
  BY DEF Books
<1>2. run[g].status = "completed" /\ run[g].todo = {} /\ run[g].at = None /\ ~run[g].bad
  BY <1>1 DEF RunBook
<1> QED
  BY <1>1, <1>2, CaptureAssumption DEF RunBook, Derived

\* A promoted run is one whose every row was re-derived, and nothing is being
\* written into a generation that has become live.
THEOREM PromotedRunsAreComplete == TSpec => []TransformInv
<1>1. TInv => TransformInv
  BY PromotedComplete DEF TInv, TransformInv
<1> QED
  BY <1>1, TInvHolds, PTL

\* A replay writes its own generation, while it is staged, and leaves every
\* version of another as it is.
THEOREM ReplaysStayInTheirs == TSpec => ReplayLeavesLiveAlone
<1> DEFINE Alone == \A c \in Captures : Commit(c) /\ req[c].gen \in Replays =>
                      /\ ~Promoted(req[c].gen)
                      /\ \A v \in Captures \ {c} : rows[v].gen # req[c].gen => rows'[v] = rows[v]
<1>1. TInv => Alone
  <2> SUFFICES ASSUME TInv, NEW c \in Captures, Commit(c), req[c].gen \in Replays
               PROVE  /\ ~Promoted(req[c].gen)
                      /\ \A v \in Captures \ {c} : rows[v].gen # req[c].gen => rows'[v] = rows[v]
    OBVIOUS
  <2>1. pc[c] = "inserted" /\ rows' = Publish(c)
    BY DEF Commit
  <2>2. ~Promoted(req[c].gen)
    BY <2>1, PromotedComplete DEF TInv, PromotedIsComplete
  <2>3. ASSUME NEW v \in Captures \ {c}, rows[v].gen # req[c].gen
        PROVE  v # head[c].base
    <3>1. Writes(c) /\ pc[c] \in PastRead
      BY <2>1 DEF TInv, Books, PastRead
    <3> QED
      BY <2>3, <3>1, CaptureAssumption DEF Writes
  <2> QED
    BY <2>1, <2>2, <2>3 DEF Publish
<1>2. TInv /\ [TNext]_tvars => [Alone]_tvars
  BY <1>1
<1> QED
  BY <1>2, TInvHolds, PTL DEF TSpec, ReplayLeavesLiveAlone

-----------------------------------------------------------------------------
(* The archives and the tags they are under.                               *)

\* Tag a is that of the archive of run g: the promote of g that made it is over.
TagOf(a, g) ==
    /\ a \in Switches
    /\ switch[a].kind = "promote" /\ switch[a].of = g /\ switch[a].at = "done"

RunTag(g) == Promoted(g) => TagOf(run[g].archive, g)

DemoteTag(s) == Busy(s) /\ switch[s].kind = "demote" => TagOf(switch[s].archive, switch[s].of)

Tags ==
    /\ \A g \in Replays : RunTag(g)
    /\ \A s \in Switches : DemoteTag(s)
    /\ \A v \in Captures : rows[v].gen \in Switches => switch[rows[v].gen].at = "done"

\* In its second UPDATE, a demote has every version of the archive before it or
\* behind it: the archive grows no more.
WholeArchive(s) ==
    switch[s].at = "in" /\ switch[s].kind = "demote" =>
        \A v \in Captures : Present(v) /\ rows[v].gen = switch[s].archive =>
            v \in switch[s].todo \cup switch[s].into

ArchiveInv == TInv /\ Tags /\ \A s \in Switches : WholeArchive(s)

\* A call that is over stays as it is.
LEMMA DoneStays ==
    ASSUME Shapes, NEW s \in Switches, BeforeCommit(s) \/ SwitchCommit(s),
           NEW a \in Switches, switch[a].at = "done"
    PROVE  switch'[a] = switch[a] /\ a # s
<1>1. switch[s].at # "done"
  BY DEF BeforeCommit, PromoteCheck, DemoteCheck, PromoteReadPrior, SwitchOpen, TakeRow, EnterRow,
     AtHand, InTransaction, SecondUpdate, SwitchRefused, SwitchCrash, SwitchCommit
<1> QED
  BY <1>1, SwitchShape

\* Where no switch commits, versions stay where they are, the archives too, and what
\* is new is in no archive.
LEMMA NoCommitStep ==
    ASSUME TInv, NEW gens \in SUBSET (Replays \cup {Live}), TxStep(gens)
    PROVE  \A v \in Captures : rows'[v].gen \in Switches =>
              rows'[v].gen = rows[v].gen /\ (Present(v)' => Present(v))
<1> SUFFICES ASSUME NEW v \in Captures, rows'[v].gen \in Switches
             PROVE  rows'[v].gen = rows[v].gen /\ (Present(v)' => Present(v))
  OBVIOUS
<1>1. TTypeOK /\ Books /\ TypeOK
  BY TypeIsShapes DEF TInv
<1>2. CASE Present(v)
  BY <1>1, <1>2, PresentStays DEF Books
<1>3. ASSUME NEW d \in Captures, pc[d] = "inserted", rows' = Publish(d), ~Present(v)
      PROVE  rows'[v] = rows[v]
  <2>1. v # d
    BY <1>1, <1>3, TransformAssumption, CaptureAssumption
       DEF Books, Writes, Publish, NewRow
  <2>2. v # head[d].base
    BY <1>1, <1>3, CaptureAssumption DEF Books, Writes, PastRead
  <2> QED
    BY <1>3, <2>1, <2>2 DEF Publish
<1> QED
  BY <1>2, <1>3 DEF TxStep, Present

\* A commit archives under its own tag only, and what a demote found in the archive
\* of its run has left it.
LEMMA CommitTags ==
    ASSUME ArchiveInv, NEW s \in Switches, SwitchCommit(s), NEW v \in Captures,
           rows'[v].gen \in Switches
    PROVE  /\ Present(v)' => Present(v)
           /\ rows'[v].gen = rows[v].gen \/ (rows'[v].gen = s /\ switch[s].kind = "promote")
           /\ switch[s].kind = "demote" => rows'[v].gen # switch[s].archive
<1>1. TTypeOK /\ Books /\ TypeOK /\ Shapes /\ WholeArchive(s)
  BY TypeIsShapes DEF ArchiveInv, TInv
<1>2. /\ switch[s] \in SwitchRecord /\ switch[s].of \in Replays
      /\ switch[s].kind = "promote" => switch[s].archive = s
      /\ switch[s].kind = "demote" => switch[s].archive \in Switches
      /\ switch[s].at = "in" /\ switch[s].todo = {}
  BY <1>1 DEF ArchiveInv, Tags, DemoteTag, TagOf, Books, SwitchBook, Busy, SwitchCommit, Shapes
<1>3. Live \notin Switches /\ Replays \cap Switches = {}
  BY TransformAssumption, CaptureAssumption
<1>4. rows[v] \in Row /\ rows'[v] = [rows[v] EXCEPT !.gen = GenFor(s, v)]
  BY <1>1 DEF SwitchCommit, Swapped, TypeOK
<1>5. rows'[v].gen = GenFor(s, v) /\ rows'[v].status = rows[v].status
  BY <1>4 DEF Row
<1>6. rows'[v].gen = rows[v].gen \/ (rows'[v].gen = s /\ switch[s].kind = "promote")
  <2>1. GenFor(s, v) \in {OutOf(s), Live, rows[v].gen}
    BY DEF GenFor
  <2>2. switch[s].kind \in {"promote", "demote"}
    BY <1>2 DEF SwitchRecord
  <2> QED
    BY <1>2, <1>3, <1>5, <2>1, <2>2 DEF OutOf
<1>7. ASSUME switch[s].kind = "demote", rows'[v].gen = switch[s].archive PROVE FALSE
  <2>1. rows[v].gen = switch[s].archive /\ rows[v].gen # Live
    BY <1>2, <1>3, <1>6, <1>7
  <2>2. Present(v)
    BY <1>1, <2>1 DEF Books, Written
  <2>3. v \in switch[s].into
    BY <1>1, <1>2, <1>7, <2>1, <2>2 DEF WholeArchive
  <2>4. GenFor(s, v) = Live
    BY <1>7, <2>1, <2>3 DEF GenFor, Into
  <2> QED
    BY <1>5, <1>7, <2>1, <2>4
<1> QED
  BY <1>5, <1>6, <1>7 DEF Present

LEMMA ArchiveInvStep ==
    ASSUME ArchiveInv, [TNext]_tvars
    PROVE  Tags' /\ \A s \in Switches : WholeArchive(s)'
<1>1. TInv /\ TTypeOK /\ Books /\ TypeOK /\ Shapes /\ Tags /\ \A s \in Switches : WholeArchive(s)
  BY TypeIsShapes DEF ArchiveInv, TInv
<1>2. switch \in [Switches -> SwitchRecord] /\ run \in [Replays -> RunRecord]
  BY <1>1 DEF Shapes
<1>3. ASSUME switch' = switch, \A g \in Replays : run'[g].archive = run[g].archive,
             \A v \in Captures : rows'[v].gen \in Switches =>
                 rows'[v].gen = rows[v].gen /\ (Present(v)' => Present(v))
      PROVE  Tags' /\ \A s \in Switches : WholeArchive(s)'
  <2>1. Tags'
    BY <1>1, <1>3 DEF Tags, RunTag, DemoteTag, TagOf, Busy, Promoted
  <2>2. ASSUME NEW s \in Switches PROVE WholeArchive(s)'
    <3>1. switch[s].at = "in" /\ switch[s].kind = "demote" => switch[s].archive \in Switches
      BY <1>1 DEF Tags, DemoteTag, TagOf, Busy
    <3> QED
      BY <1>1, <1>3, <3>1 DEF WholeArchive
  <2> QED
    BY <2>1, <2>2
<1>4. CASE [CaptureStep]_vars /\ UNCHANGED trVars
  <2>1. TxStep({Live}) /\ {Live} \in SUBSET (Replays \cup {Live})
    BY <1>1, <1>4, CaptureTxStep
  <2>2. switch' = switch /\ run' = run
    BY <1>4 DEF trVars
  <2>3. \A v \in Captures : rows'[v].gen \in Switches =>
           rows'[v].gen = rows[v].gen /\ (Present(v)' => Present(v))
    BY <1>1, <2>1, NoCommitStep
  <2> QED
    BY <1>3, <2>2, <2>3
<1>5. CASE UNCHANGED <<vars, run, switch>>
  BY <1>3, <1>5 DEF vars, Present
<1>6. ASSUME NEW g \in Replays, NEW c \in Captures, ReplayRow(g, c)
      PROVE  Tags' /\ \A s \in Switches : WholeArchive(s)'
  <2>1. PICK p \in run[g].todo : /\ DeriveFromRawCapture(c, p[1], p[2], p[3], g)
                                 /\ run' = [run EXCEPT ![g].at = c, ![g].todo = @ \ {p}]
    BY <1>6 DEF ReplayRow
  <2>2. rows' = rows /\ switch' = switch
    BY <1>6, <2>1 DEF ReplayRow, DeriveFromRawCapture, storeVars
  <2>3. \A h \in Replays : run'[h].archive = run[h].archive
    BY <1>2, <2>1 DEF RunRecord
  <2> QED
    BY <1>3, <2>2, <2>3 DEF Present
<1>7. ASSUME NEW g \in Replays, RunTransform(g) \/ ReplayStep(g) \/ RunDies(g)
      PROVE  Tags' /\ \A s \in Switches : WholeArchive(s)'
  <2>1. rows' = rows /\ switch' = switch
    BY <1>7 DEF RunTransform, ReplayStep, RowDone, RunEnd, RunDies, vars
  <2>2. \A h \in Replays : run'[h].archive = run[h].archive
    BY <1>2, <1>7 DEF RunRecord, RunTransform, ReplayStep, RowDone, RunEnd, RunDies
  <2> QED
    BY <1>3, <2>1, <2>2 DEF Present
<1>8. ASSUME NEW s \in Switches, BeforeCommit(s)
      PROVE  Tags' /\ \A t \in Switches : WholeArchive(t)'
  <2>1. rows' = rows /\ run' = run
    BY <1>1, <1>8, SwitchKeeps DEF vars
  <2>2. /\ \A t \in Switches \ {s} : switch'[t] = switch[t]
        /\ \A a \in Switches : switch[a].at = "done" => switch'[a] = switch[a]
    BY <1>1, <1>8, SwitchShape, DoneStays
  <2>3. ASSUME NEW g \in Replays, PromoteCheck(s, g)
        PROVE  DemoteTag(s)' /\ WholeArchive(s)'
    <3>1. switch'[s].kind = "promote"
      BY <1>2, <2>3 DEF PromoteCheck, SwitchRecord
    <3> QED
      BY <3>1 DEF DemoteTag, WholeArchive
  <2>4. ASSUME NEW g \in Replays, DemoteCheck(s, g)
        PROVE  DemoteTag(s)' /\ WholeArchive(s)'
    <3>1. /\ switch'[s].of = g /\ switch'[s].archive = run[g].archive
          /\ switch'[s].at = IF Promoted(g) THEN "ready" ELSE "refused"
      BY <1>2, <2>4 DEF DemoteCheck, SwitchRecord
    <3>2. Promoted(g) => /\ run[g].archive \in Switches
                         /\ switch'[run[g].archive].kind = "promote"
                         /\ switch'[run[g].archive].of = g
                         /\ switch'[run[g].archive].at = "done"
      BY <1>1, <2>2 DEF Tags, RunTag, TagOf
    <3> QED
      BY <3>1, <3>2 DEF DemoteTag, TagOf, Busy, WholeArchive
  <2>5. ASSUME SwitchRefused(s) \/ SwitchCrash(s)
        PROVE  DemoteTag(s)' /\ WholeArchive(s)'
    <3>1. switch'[s].at = "failed"
      BY <1>2, <2>5 DEF SwitchRefused, SwitchCrash, SwitchEnds, SwitchRecord
    <3> QED
      BY <3>1 DEF DemoteTag, Busy, WholeArchive
  <2>6. ASSUME \/ PromoteReadPrior(s) \/ SwitchOpen(s)
               \/ \E v \in Captures : TakeRow(s, v) \/ EnterRow(s, v)
               \/ SecondUpdate(s)
        PROVE  DemoteTag(s)' /\ WholeArchive(s)'
    <3>1. /\ Busy(s)
          /\ switch'[s].of = switch[s].of /\ switch'[s].kind = switch[s].kind
          /\ switch'[s].archive = switch[s].archive
          /\ switch'[s].at = "in" /\ ~SecondUpdate(s) =>
                /\ switch[s].at = "in"
                /\ switch[s].todo \cup switch[s].into \subseteq switch'[s].todo \cup switch'[s].into
      BY <1>1, <2>6, SwitchGoesOn
    <3>2. switch[s].kind = "demote" => TagOf(switch[s].archive, switch[s].of)
      BY <1>1, <3>1 DEF Tags, DemoteTag
    <3>3. DemoteTag(s)'
      BY <2>2, <3>1, <3>2 DEF DemoteTag, TagOf
    <3>4. CASE SecondUpdate(s)
      <4>1. switch'[s].todo = {v \in Captures : Present(v) /\ rows[v].gen = Into(s)}
        BY <1>2, <3>4 DEF SecondUpdate, SwitchRecord
      <4>2. switch[s].kind = "demote" => Into(s) = switch[s].archive
        BY DEF Into
      <4>3. WholeArchive(s)'
        BY <2>1, <3>1, <4>1, <4>2 DEF WholeArchive, Present
      <4> QED
        BY <3>3, <4>3
    <3>5. CASE ~SecondUpdate(s)
      <4>1. WholeArchive(s)'
        BY <1>1, <2>1, <3>1, <3>5 DEF WholeArchive, Present
      <4> QED
        BY <3>3, <4>1
    <3> QED
      BY <3>4, <3>5
  <2>7. DemoteTag(s)' /\ WholeArchive(s)'
    BY <1>8, <2>3, <2>4, <2>5, <2>6 DEF BeforeCommit
  <2>8. ASSUME NEW g \in Replays PROVE RunTag(g)'
    <3>1. RunTag(g)
      BY <1>1 DEF Tags
    <3> QED
      BY <2>1, <2>2, <3>1 DEF RunTag, TagOf, Promoted
  <2>9. ASSUME NEW t \in Switches \ {s} PROVE DemoteTag(t)'
    <3>1. DemoteTag(t) /\ switch'[t] = switch[t]
      BY <1>1, <2>2 DEF Tags
    <3> QED
      BY <2>2, <3>1 DEF DemoteTag, TagOf, Busy
  <2>10. \A v \in Captures : rows'[v].gen \in Switches => switch'[rows'[v].gen].at = "done"
    BY <1>1, <2>1, <2>2 DEF Tags
  <2>11. Tags'
    BY <2>7, <2>8, <2>9, <2>10 DEF Tags
  <2>12. \A t \in Switches \ {s} : WholeArchive(t)'
    BY <1>1, <2>1, <2>2 DEF WholeArchive, Present
  <2> QED
    BY <2>7, <2>11, <2>12
<1>9. ASSUME NEW s \in Switches, SwitchCommit(s)
      PROVE  Tags' /\ \A t \in Switches : WholeArchive(t)'
  <2>1. /\ \A t \in Switches \ {s} : switch'[t] = switch[t]
        /\ \A a \in Switches : switch[a].at = "done" => switch'[a] = switch[a]
    BY <1>1, <1>9, SwitchShape, DoneStays
  <2>3. /\ switch'[s].at = "done" /\ switch'[s].kind = switch[s].kind /\ switch'[s].of = switch[s].of
        /\ switch[s].at = "in" /\ switch[s].of \in Replays
        /\ switch[s].kind = "promote" => switch[s].archive = s
    BY <1>1, <1>2, <1>9 DEF SwitchCommit, SwitchEnds, SwitchRecord, Books, SwitchBook, Busy
  <2>4. /\ \A g \in Replays \ {switch[s].of} : run'[g] = run[g]
        /\ run'[switch[s].of].archive = IF switch[s].kind = "promote" THEN s ELSE None
    BY <1>2, <1>9, <2>3 DEF SwitchCommit, Bookkeeping, RunRecord
  <2>5. ASSUME NEW g \in Replays PROVE RunTag(g)'
    <3>1. CASE g = switch[s].of
      BY <2>3, <2>4, <3>1 DEF RunTag, Promoted, TagOf
    <3>2. CASE g # switch[s].of
      <4>1. RunTag(g) /\ run'[g] = run[g]
        BY <1>1, <2>4, <3>2 DEF Tags
      <4> QED
        BY <2>1, <4>1 DEF RunTag, TagOf, Promoted
    <3> QED
      BY <3>1, <3>2
  <2>6. ASSUME NEW t \in Switches PROVE DemoteTag(t)'
    <3>1. CASE t = s
      BY <2>3, <3>1 DEF DemoteTag, Busy
    <3>2. CASE t # s
      <4>1. DemoteTag(t) /\ switch'[t] = switch[t]
        BY <1>1, <2>1, <3>2 DEF Tags
      <4> QED
        BY <2>1, <4>1 DEF DemoteTag, TagOf, Busy
    <3> QED
      BY <3>1, <3>2
  <2>7. ASSUME NEW v \in Captures, rows'[v].gen \in Switches
        PROVE  switch'[rows'[v].gen].at = "done"
    <3>1. rows'[v].gen = rows[v].gen \/ rows'[v].gen = s
      BY <1>9, <2>7, CommitTags
    <3> QED
      BY <1>1, <2>1, <2>3, <2>7, <3>1 DEF Tags
  <2>8. ASSUME NEW t \in Switches PROVE WholeArchive(t)'
    <3>1. CASE t = s
      BY <2>3, <3>1 DEF WholeArchive
    <3>2. ASSUME t # s, switch[t].at = "in", switch[t].kind = "demote", NEW v \in Captures,
                 Present(v)', rows'[v].gen = switch[t].archive
          PROVE  v \in switch[t].todo \cup switch[t].into
      <4>1. switch[t].archive \in Switches /\ switch[switch[t].archive].at = "done"
        BY <1>1, <3>2 DEF Tags, DemoteTag, TagOf, Busy
      <4>2. Present(v) /\ rows[v].gen = switch[t].archive
        BY <1>9, <2>3, <3>2, <4>1, CommitTags
      <4> QED
        BY <1>1, <3>2, <4>2 DEF WholeArchive
    <3> QED
      BY <2>1, <3>1, <3>2 DEF WholeArchive
  <2> QED
    BY <2>5, <2>6, <2>7, <2>8 DEF Tags
<1> QED
  BY <1>4, <1>5, <1>6, <1>7, <1>8, <1>9, StepKinds

\* A version is cut off from every demote only by the commit of a switch whose run
\* was promoted or demoted after the switch had read it, however captures, replays
\* and switches of any runs overlap: a test of the run inside the transaction would
\* keep every archive.
THEOREM ArchivesLostToStaleSwitchesOnly == TSpec => OnlyStaleSwitchesStrand
<1> DEFINE Kept == \/ Stranded' \subseteq Stranded
                   \/ \E s \in Switches : SwitchCommit(s) /\ ~RunAsRead(s)
<1>1. TInit => Tags /\ \A s \in Switches : WholeArchive(s)
  BY TransformAssumption, CaptureAssumption
     DEF TInit, Init, NoRow, Tags, RunTag, DemoteTag, Promoted, Busy, WholeArchive
<1>2. ArchiveInv /\ [TNext]_tvars => Tags' /\ \A s \in Switches : WholeArchive(s)'
  BY ArchiveInvStep
<1>3. ArchiveInv /\ [TNext]_tvars => Kept
  <2> SUFFICES ASSUME ArchiveInv, [TNext]_tvars PROVE Kept
    OBVIOUS
  <2>1. TInv /\ TTypeOK /\ Books /\ TypeOK /\ Shapes /\ Tags
    BY TypeIsShapes DEF ArchiveInv, TInv
  <2>2. run \in [Replays -> RunRecord]
    BY <2>1 DEF Shapes
  <2>3. ASSUME \A g \in Replays : run'[g].archive = run[g].archive,
               \A v \in Captures : rows'[v].gen \in Switches => rows'[v].gen = rows[v].gen
        PROVE  Kept
    BY <2>3 DEF Stranded
  <2>4. CASE [CaptureStep]_vars /\ UNCHANGED trVars
    <3>1. TxStep({Live}) /\ {Live} \in SUBSET (Replays \cup {Live})
      BY <2>1, <2>4, CaptureTxStep
    <3>2. \A v \in Captures : rows'[v].gen \in Switches => rows'[v].gen = rows[v].gen
      BY <2>1, <3>1, NoCommitStep
    <3> QED
      BY <2>3, <2>4, <3>2 DEF trVars
  <2>5. CASE UNCHANGED <<vars, run, switch>>
    BY <2>3, <2>5 DEF vars
  <2>6. ASSUME NEW g \in Replays, NEW c \in Captures, ReplayRow(g, c) PROVE Kept
    <3>1. PICK p \in run[g].todo : /\ DeriveFromRawCapture(c, p[1], p[2], p[3], g)
                                   /\ run' = [run EXCEPT ![g].at = c, ![g].todo = @ \ {p}]
      BY <2>6 DEF ReplayRow
    <3>2. rows' = rows
      BY <3>1 DEF DeriveFromRawCapture, storeVars
    <3>3. \A h \in Replays : run'[h].archive = run[h].archive
      BY <2>2, <3>1 DEF RunRecord
    <3> QED
      BY <2>3, <3>2, <3>3
  <2>7. ASSUME NEW g \in Replays, RunTransform(g) \/ ReplayStep(g) \/ RunDies(g) PROVE Kept
    <3>1. rows' = rows
      BY <2>7 DEF RunTransform, ReplayStep, RowDone, RunEnd, RunDies, vars
    <3>2. \A h \in Replays : run'[h].archive = run[h].archive
      BY <2>2, <2>7 DEF RunRecord, RunTransform, ReplayStep, RowDone, RunEnd, RunDies
    <3> QED
      BY <2>3, <3>1, <3>2
  <2>8. ASSUME NEW s \in Switches, BeforeCommit(s) PROVE Kept
    <3>1. rows' = rows /\ run' = run
      BY <2>1, <2>8, SwitchKeeps DEF vars
    <3> QED
      BY <2>3, <3>1
  <2>9. ASSUME NEW s \in Switches, SwitchCommit(s) PROVE Kept
    <3> DEFINE o == switch[s].of
    <3>1. /\ o \in Replays /\ switch[s].kind \in {"promote", "demote"}
          /\ switch[s].kind = "promote" => switch[s].archive = s
      BY <2>1, <2>9 DEF SwitchCommit, Books, SwitchBook, Busy, Shapes, SwitchRecord
    <3>2. /\ \A g \in Replays \ {o} : run'[g] = run[g]
          /\ run'[o].archive = IF switch[s].kind = "promote" THEN switch[s].archive ELSE None
      BY <2>2, <2>9, <3>1 DEF SwitchCommit, Bookkeeping, RunRecord
    <3>3. ASSUME RunAsRead(s), NEW v \in Captures, rows'[v].gen \in Switches,
                 \A g \in Replays : run'[g].archive # rows'[v].gen
          PROVE  rows[v].gen \in Switches /\ \A g \in Replays : run[g].archive # rows[v].gen
      <4>1. /\ rows'[v].gen = rows[v].gen \/ (rows'[v].gen = s /\ switch[s].kind = "promote")
            /\ switch[s].kind = "demote" => rows'[v].gen # switch[s].archive
        BY <2>9, <3>3, CommitTags
      <4>2. rows'[v].gen = rows[v].gen
        BY <3>1, <3>2, <3>3, <4>1
      <4>3. run[o].archive # rows[v].gen
        <5>1. CASE switch[s].kind = "promote"
          BY <3>3, <4>2, <5>1, CaptureAssumption, TransformAssumption DEF RunAsRead
        <5>2. CASE switch[s].kind = "demote"
          BY <3>3, <4>1, <4>2, <5>2 DEF RunAsRead
        <5> QED
          BY <3>1, <5>1, <5>2
      <4>4. \A g \in Replays \ {o} : run[g].archive # rows[v].gen
        BY <3>2, <3>3, <4>2
      <4> QED
        BY <3>3, <4>2, <4>3, <4>4
    <3>4. RunAsRead(s) => Stranded' \subseteq Stranded
      BY <3>3 DEF Stranded
    <3> QED
      BY <2>9, <3>4
  <2> QED
    BY <2>4, <2>5, <2>6, <2>7, <2>8, <2>9, StepKinds
<1>4. ArchiveInv /\ [TNext]_tvars => [Kept]_tvars
  BY <1>3
<1> DEFINE Rest == Tags /\ \A s \in Switches : WholeArchive(s)
<1>5. ArchiveInv <=> TInv /\ Rest
  BY DEF ArchiveInv
<1>6. (TInit => Rest) /\ (TInv /\ Rest /\ [TNext]_tvars => Rest')
  BY <1>1, <1>2, <1>5
<1>7. TSpec => []ArchiveInv
  <2> HIDE DEF Rest
  <2> QED
    BY <1>5, <1>6, TInvHolds, PTL DEF TSpec
<1> HIDE DEF Kept
<1>8. TSpec => [][Kept]_tvars
  BY <1>4, <1>7, PTL DEF TSpec
<1> USE DEF Kept
<1> QED
  BY <1>8, PTL DEF OnlyStaleSwitchesStrand
=============================================================================
