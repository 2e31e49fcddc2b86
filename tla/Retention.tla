----------------------------- MODULE Retention -----------------------------
(***************************************************************************)
(* The retention verbs (src/services/retention.ts) against the captures of *)
(* the same documents: deprecate, sweep, set class, forget (tombstone) and *)
(* purge (hard delete).                                                    *)
(*                                                                         *)
(* Forget is three statements, each committed by itself, and purge is a    *)
(* read committed by itself and then a transaction, so both are calls with *)
(* steps.  An UPDATE that meets a row a capture has locked waits, then     *)
(* tests the row again, and never sees the rows committed since it began   *)
(* (READ COMMITTED); the first statement of forget therefore takes its     *)
(* snapshot in one step and writes in another.                             *)
(***************************************************************************)
EXTENDS Capture

CONSTANTS Forgets,   \* the forget calls
          Purges     \* the purge calls

ASSUME RetentionAssumption == None \notin Forgets \cup Purges

VARIABLES forget,    \* [at, doc, of, marks]: each forget call
          purge      \* [at, doc, of, raws]: each purge call

rtVars == <<forget, purge>>
rvars == <<vars, forget, purge>>

\* The versions of a document row: they go when it goes.
VersionsOf(r, d) == {v \in Captures : d # None /\ docs[r] = d /\ Present(v) /\ rows[v].ref = r}

Forgettable == {"active", "deprecated", "superseded"}

RInit ==
    /\ Init
    /\ forget = [f \in Forgets |-> [at |-> "idle", of |-> None, doc |-> None, marks |-> {}]]
    /\ purge = [p \in Purges |-> [at |-> "idle", of |-> None, doc |-> None, raws |-> {}]]

-----------------------------------------------------------------------------
(* Single statements.                                                      *)

\* Every variable of Capture but the version table.
RowsOnly == UNCHANGED <<txVars, lockVars, docs, raw, nextSeq, feedVars, rtVars>>

\* Mutant: the version it replaced becomes the active one again.
DeprecateAndRestore(v) ==
    /\ rows[v].status \in {"active", "superseded"}
    /\ ~RowLocked(v)
    /\ rows' = [w \in Captures |->
                  CASE w = v -> [rows[w] EXCEPT !.status = "deprecated"]
                    [] w # v /\ w = rows[v].prev -> [rows[w] EXCEPT !.status = "active"]
                    [] OTHER -> rows[w]]
    /\ RowsOnly

\* UPDATE ... SET status = 'deprecated' on one version.
DeprecateVersion(v) ==
    /\ rows[v].status \in {"active", "superseded"}
    /\ ~RowLocked(v)
    /\ rows' = [rows EXCEPT ![v].status = "deprecated"]
    /\ RowsOnly

\* One UPDATE over the ephemeral versions whose time is up, whichever they are.
SweepEphemeral ==
    \E S \in (SUBSET {v \in Captures : rows[v].status = "active"
                                         /\ rows[v].class = "ephemeral"}) \ {{}} :
        /\ \A v \in S : ~RowLocked(v)
        /\ rows' = [v \in Captures |->
                      IF v \in S THEN [rows[v] EXCEPT !.status = "deprecated"] ELSE rows[v]]
        /\ RowsOnly

\* Any status: a tombstoned version can still change class.
SetRetentionClass(v, k) ==
    /\ Present(v)
    /\ rows[v].class # k
    /\ ~RowLocked(v)
    /\ rows' = [rows EXCEPT ![v].class = k]
    /\ RowsOnly

-----------------------------------------------------------------------------
(* Forget: tombstoneDocument.                                              *)

\* The first statement begins: its snapshot is taken.
ForgetBegin(f, r) ==
    /\ forget[f].at = "idle"
    /\ docs[r] # None
    /\ forget' = [forget EXCEPT ![f] =
          [at |-> "begun", of |-> r, doc |-> docs[r],
           marks |-> {v \in VersionsOf(r, docs[r]) : rows[v].status \in Forgettable}]]
    /\ UNCHANGED <<vars, purge>>

\* It ends when no row it wants is locked: the rows still in a status that can
\* be forgotten become tombstones.  With none, forget returns: nothing to do.
ForgetMark(f) ==
    /\ forget[f].at = "begun"
    /\ \A v \in forget[f].marks : ~RowLocked(v)
    /\ LET marked == {v \in forget[f].marks : rows[v].status \in Forgettable}
       IN /\ rows' = [v \in Captures |->
                        IF v \in marked THEN [rows[v] EXCEPT !.status = "tombstoned"]
                        ELSE rows[v]]
          /\ forget' = [forget EXCEPT ![f].marks = marked,
                                      ![f].at = IF marked = {} THEN "done" ELSE "marked"]
    /\ UNCHANGED <<txVars, lockVars, docs, raw, nextSeq, feedVars, purge>>

\* Mutant: only the chunks of the versions still active are redacted.
TextToRedactActive(f) ==
    {v \in VersionsOf(forget[f].of, forget[f].doc) : rows[v].status = "active"}

TextToRedact(f) == VersionsOf(forget[f].of, forget[f].doc)

\* The second statement: the chunk text of every version of the document.
ForgetRedactChunks(f) ==
    /\ forget[f].at = "marked"
    /\ rows' = [v \in Captures |->
                  IF v \in TextToRedact(f) THEN [rows[v] EXCEPT !.text = "redacted"]
                  ELSE rows[v]]
    /\ forget' = [forget EXCEPT ![f].at = "chunks"]
    /\ UNCHANGED <<txVars, lockVars, docs, raw, nextSeq, feedVars, purge>>

RawOf(v) == <<rows[v].ref, rows[v].hash, rows[v].time>>

\* The third statement: the raw captures those versions reference.
ForgetRedactRaw(f) ==
    /\ forget[f].at = "chunks"
    /\ raw' = [p \in Payloads |->
                 IF \E v \in VersionsOf(forget[f].of, forget[f].doc) : RawOf(v) = p
                 THEN "redacted" ELSE raw[p]]
    /\ forget' = [forget EXCEPT ![f].at = "done"]
    /\ UNCHANGED <<txVars, lockVars, rows, docs, nextSeq, feedVars, purge>>

\* A statement fails or the process dies: what was committed stays.
ForgetCrash(f) ==
    /\ forget[f].at \in {"begun", "marked", "chunks"}
    /\ forget' = [forget EXCEPT ![f].at = "crashed"]
    /\ UNCHANGED <<vars, purge>>

-----------------------------------------------------------------------------
(* Purge: hardDeleteDocument.                                              *)

\* A version that stands in the way of a purge.
HeldDurable(v) == rows[v].class = "durable" /\ rows[v].status # "tombstoned"

\* The check, by itself.
PurgeCheck(p, r) ==
    /\ purge[p].at = "idle"
    /\ docs[r] # None
    /\ purge' = [purge EXCEPT ![p] =
          [at |-> IF \E v \in VersionsOf(r, docs[r]) : HeldDurable(v) THEN "refused" ELSE "checked",
           of |-> r, doc |-> docs[r], raws |-> {}]]
    /\ UNCHANGED <<vars, forget>>

\* The transaction: first the raw captures its versions reference are read.
PurgeCollect(p) ==
    /\ purge[p].at = "checked"
    /\ purge' = [purge EXCEPT ![p].raws =
                    {RawOf(v) : v \in VersionsOf(purge[p].of, purge[p].doc)},
                              ![p].at = "collected"]
    /\ UNCHANGED <<vars, forget>>

\* A capture that has inserted into the document holds a key share on its row,
\* and one that supersedes holds the version row: the DELETE waits for both.
DocumentLocked(r) ==
    \E c \in Captures :
        /\ req[c].ref = r
        /\ \/ pc[c] = "inserted"
           \/ pc[c] \in {"held", "feed"} /\ head[c].base # None /\ Present(head[c].base)

\* Then the document goes with its versions and chunks, and of the raw
\* captures read before those no version references any more.
PurgeDelete(p) ==
    /\ purge[p].at = "collected"
    /\ ~DocumentLocked(purge[p].of)
    /\ LET gone == VersionsOf(purge[p].of, purge[p].doc)
       IN /\ rows' = [v \in Captures |-> IF v \in gone THEN NoRow ELSE rows[v]]
          /\ docs' = [docs EXCEPT ![purge[p].of] = IF @ = purge[p].doc THEN None ELSE @]
          /\ raw' = [q \in Payloads |->
                       IF /\ q \in purge[p].raws
                          /\ \A v \in Captures \ gone : Present(v) => RawOf(v) # q
                       THEN "absent" ELSE raw[q]]
    /\ purge' = [purge EXCEPT ![p].at = "done"]
    /\ UNCHANGED <<txVars, lockVars, nextSeq, feedVars, forget>>

PurgeCrash(p) ==
    /\ purge[p].at \in {"checked", "collected"}
    /\ purge' = [purge EXCEPT ![p].at = "crashed"]
    /\ UNCHANGED <<vars, forget>>

-----------------------------------------------------------------------------

ForgetStep(f) ==
    \/ ForgetMark(f)
    \/ ForgetRedactChunks(f)
    \/ ForgetRedactRaw(f)

PurgeStep(p) ==
    \/ PurgeCollect(p)
    \/ PurgeDelete(p)

RetentionStep ==
    \/ \E v \in Captures : DeprecateVersion(v)
    \/ \E v \in Captures, k \in {"durable", "ephemeral"} : SetRetentionClass(v, k)
    \/ SweepEphemeral
    \/ \E f \in Forgets :
        \/ \E r \in Refs : ForgetBegin(f, r)
        \/ ForgetStep(f)
        \/ ForgetCrash(f)
    \/ \E p \in Purges :
        \/ \E r \in Refs : PurgeCheck(p, r)
        \/ PurgeStep(p)
        \/ PurgeCrash(p)

RNext == (Next /\ UNCHANGED rtVars) \/ RetentionStep

RSpec == RInit /\ [][RNext]_rvars

-----------------------------------------------------------------------------
(* Properties.                                                             *)

\* The shape of every variable.
RTypeOK ==
    /\ TypeOK
    /\ forget \in [Forgets -> [at: {"idle", "begun", "marked", "chunks", "done", "crashed"},
                               of: Refs \cup {None}, doc: Captures \cup {None},
                               marks: SUBSET Captures]]
    /\ purge \in [Purges -> [at: {"idle", "refused", "checked", "collected", "done", "crashed"},
                             of: Refs \cup {None}, doc: Captures \cup {None},
                             raws: SUBSET Payloads]]

\* A forget that tombstoned versions and came to its end has left none of their
\* text, in chunks or raw captures, whatever ran in between.
ForgottenIsRedacted ==
    \A f \in Forgets : forget[f].at = "done" =>
        \A v \in forget[f].marks : Present(v) =>
            rows[v].text = "redacted" /\ raw[RawOf(v)] # "stored"

\* No version outlives its document row or the raw capture it was derived from,
\* though captures read both before a purge may take them.
NothingOutlivesItsDocument ==
    \A v \in Captures : Present(v) =>
        docs[rows[v].ref] # None /\ raw[RawOf(v)] # "absent"

\* The active version of a document is the highest numbered one it has, also
\* after versions in between were retired.
ActiveIsHighest ==
    \A v, w \in Captures :
        /\ rows[v].status = "active"
        /\ Present(w)
        /\ rows[w].ref = rows[v].ref
        /\ rows[w].gen = rows[v].gen
        => rows[w].num <= rows[v].num

\* The tables agree: every variable has its shape, no version is left without its
\* document or its raw capture, and the active version is the highest.
RetentionInv == RTypeOK /\ NothingOutlivesItsDocument /\ ActiveIsHighest

(* What the documentation says and the code does not keep.                 *)

\* "The document stops appearing in search/feed" (docs/RETENTION.md): a version
\* that a forget tombstoned is never again in the feed.
ForgottenLeavesFeed ==
    \A f \in Forgets : forget[f].at = "done" =>
        \A v \in forget[f].marks : ~FeedVisible(v)

\* "The original content does not survive" (docs/RETENTION.md): when a forget
\* has answered and none is running, no tombstoned version of the document
\* keeps its text.
ForgetLeavesNoText ==
    (\A g \in Forgets : forget[g].at \in {"idle", "done", "crashed"}) =>
      \A f \in Forgets : forget[f].at = "done" =>
        \A v \in VersionsOf(forget[f].of, forget[f].doc) :
            rows[v].status = "tombstoned" => rows[v].text = "redacted"

\* The same of the raw captures: when a forget comes to its end, none that was
\* made for the document keeps its text.
ForgetLeavesNoRaw ==
    [][\A f \in Forgets : ForgetRedactRaw(f) =>
        \A p \in Payloads : p[1] = forget[f].of => raw'[p] # "stored"]_rvars

\* Purge "is refused outright while a durable-class version on the document is
\* untombstoned" (docs/RETENTION.md).
PurgeSparesDurable ==
    [][\A p \in Purges : PurgeDelete(p) =>
        \A v \in VersionsOf(purge[p].of, purge[p].doc) : ~HeldDurable(v)]_rvars

\* Purge removes the document "along with the raw captures only its versions
\* referenced" (docs/RETENTION.md).
PurgeTakesRaw ==
    [][\A p \in Purges : PurgeDelete(p) =>
        \A v \in VersionsOf(purge[p].of, purge[p].doc) : raw'[RawOf(v)] = "absent"]_rvars
=============================================================================
