----------------------------- MODULE Transform -----------------------------
(***************************************************************************)
(* The replay pipeline (src/services/transform.ts) on top of the write     *)
(* path: a run re-derives the stored raw captures, one transaction each,   *)
(* into a generation of its own; promote swaps that generation with the    *)
(* live one and the tenant's active embedding model, and demote swaps them *)
(* back.  Captures go on all the while.                                    *)
(*                                                                         *)
(* Promote and demote read their run in statements of their own and then   *)
(* run one transaction of two UPDATEs on memory.version.  An UPDATE works  *)
(* on the rows its snapshot shows, one after the other: it locks a row,    *)
(* moves it if it is still where the snapshot saw it, and enters it in the *)
(* unique index under its new generation.  It keeps what it has while it   *)
(* waits for a row or an index entry of another transaction.  Captures     *)
(* hold rows, entries and advisory locks in turn, and Postgres fails one   *)
(* of those that wait for each other in a circle.                          *)
(*                                                                         *)
(* Each promote call makes an archive tag of its own, so the tag is the    *)
(* call.  The vectors of a version are those of the model its capture or   *)
(* its run embeds with: a run's model is named by the run.                 *)
(***************************************************************************)
EXTENDS Capture

CONSTANTS Replays,     \* the transform runs, each with its generation
          Switches,    \* the promote and demote calls, each with its archive tag
          Searching,   \* dense searches run beside the rest
          Engine,      \* the embedding model captures use
          Registered   \* embed_model has the unique index and the status its SQL names

ASSUME TransformAssumption ==
    /\ Replays \cup Switches \subseteq Runs
    /\ Replays \cap Switches = {}
    /\ Captures \cap Switches = {}
    /\ Engine \notin Replays \cup {None}
    /\ Registered \in BOOLEAN
    /\ Searching \in BOOLEAN

VARIABLES run,      \* memory.transform_run, and the row its loop is at
          switch,   \* each promote or demote call
          active,   \* the tenant's active embedding model
          search    \* a live dense search: the model it resolved

trVars == <<run, switch, active, search>>
tvars == <<vars, run, switch, active, search>>

NoSearch == [at |-> "idle", model |-> None]

TInit ==
    /\ Init
    /\ run = [g \in Replays |-> [status |-> "none", todo |-> {}, at |-> None, bad |-> FALSE,
                                 archive |-> None, prior |-> None]]
    /\ switch = [s \in Switches |-> [at |-> "idle", kind |-> "promote", of |-> None,
                                     archive |-> None, prior |-> None,
                                     todo |-> {}, out |-> {}, into |-> {}]]
    /\ active = None
    /\ search = NoSearch

-----------------------------------------------------------------------------
(* What a promote or demote has locked and not committed.                  *)

\* In its first UPDATE, which takes live versions out, or in its second one,
\* which brings versions in.
InTransaction(s) == switch[s].at \in {"out", "in"}

\* Where live goes, and what becomes live.
OutOf(s) == IF switch[s].kind = "promote" THEN switch[s].archive ELSE switch[s].of
Into(s) == IF switch[s].kind = "promote" THEN switch[s].of ELSE switch[s].archive

\* The rows it has locked.
Holds(s) == IF InTransaction(s) THEN switch[s].out \cup switch[s].into ELSE {}

HeldBySwitch(v) == \E s \in Switches : v \in Holds(s)

\* The generation a row has for s itself.  A row that had left the generation of
\* the snapshot when it was locked stays where it is.
GenFor(s, v) ==
    IF v \in switch[s].out /\ rows[v].gen = Live THEN OutOf(s)
    ELSE IF v \in switch[s].into /\ rows[v].gen = Into(s) THEN Live
    ELSE rows[v].gen

Swapped(s) == [v \in Captures |-> [rows[v] EXCEPT !.gen = GenFor(s, v)]]

Moves(s) == {v \in Holds(s) : GenFor(s, v) # rows[v].gen}

\* The row its UPDATE has moved and not yet entered in the index.
AtHand(s) ==
    CASE switch[s].at = "out" -> switch[s].todo \cap switch[s].out
      [] switch[s].at = "in" -> switch[s].todo \cap switch[s].into
      [] OTHER -> {}

\* Entries of version_document_generation_version_uniq: those of the rows it
\* moves are neither there nor gone before it ends.
Entry(v, g) == <<rows[v].ref, g, rows[v].num>>
EntriesOf(s) ==
    {Entry(v, rows[v].gen) : v \in Moves(s)}
        \cup {Entry(v, GenFor(s, v)) : v \in Moves(s) \ switch[s].todo}

\* The UPDATE of the base waits for the switch that holds the row; then it finds
\* the row by its id, in whatever generation it is now.
SupersedeUnheld(c) == ~HeldBySwitch(head[c].base) /\ Supersede(c)

\* The INSERT meets an entry that a switch takes away or brings: it waits for the
\* outcome.
NewEntry(c) == <<req[c].ref, req[c].gen, head[c].num>>
NumberMoving(c) == \E s \in Switches : NewEntry(c) \in EntriesOf(s)

\* A live capture or a replayed row, one step further.
AdvanceUnheld(c) ==
    \/ LockRef(c)
    \/ ReadHead(c)
    \/ SupersedeUnheld(c)
    \/ LockFeed(c)
    \/ ~NumberMoving(c) /\ Insert(c)
    \/ Commit(c)
    \/ CommitNoop(c)

\* The embed pass after a live capture makes the engine's model the active one.
CaptureEmbeds ==
    /\ Registered
    /\ \E c \in Captures : pc[c] = "captured" /\ req[c].gen = Live
    /\ \A s \in Switches : ~InTransaction(s)
    /\ active' = Engine
    /\ UNCHANGED <<vars, run, switch, search>>

-----------------------------------------------------------------------------
(* runTransform.                                                           *)

\* The run row, then the raw captures in scope, whose order is left open.
RunTransform(g) ==
    /\ run[g].status = "none"
    /\ run' = [run EXCEPT ![g].status = "running",
                          ![g].todo = {p \in Payloads : raw[p] = "stored"}]
    /\ UNCHANGED <<vars, switch, active, search>>

\* The next raw capture is re-derived in a transaction of its own.
ReplayRow(g, c) ==
    /\ run[g].status = "running"
    /\ run[g].at = None
    /\ \E p \in run[g].todo :
        /\ DeriveFromRawCapture(c, p[1], p[2], p[3], g)
        /\ run' = [run EXCEPT ![g].at = c, ![g].todo = @ \ {p}]
    /\ UNCHANGED <<switch, active, search>>

\* Mutant: a row that fails is logged and not counted.
RowFailedUncounted(c) == FALSE

RowFailed(c) == pc[c] \in {"clash", "failed"}

\* It ended: a failure is counted and the loop goes on.
RowDone(g) ==
    /\ run[g].status = "running"
    /\ run[g].at # None
    /\ pc[run[g].at] \in Ended
    /\ run' = [run EXCEPT ![g].at = None, ![g].bad = @ \/ RowFailed(run[g].at)]
    /\ UNCHANGED <<vars, switch, active, search>>

RunEnd(g) ==
    /\ run[g].status = "running"
    /\ run[g].at = None
    /\ run[g].todo = {}
    /\ run' = [run EXCEPT ![g].status = IF run[g].bad THEN "failed" ELSE "completed"]
    /\ UNCHANGED <<vars, switch, active, search>>

\* The process dies: the row says 'running' for ever.
RunDies(g) ==
    /\ run[g].status = "running"
    /\ run' = [run EXCEPT ![g].status = "abandoned"]
    /\ UNCHANGED <<vars, switch, active, search>>

-----------------------------------------------------------------------------
(* promoteGeneration and demoteGeneration.                                 *)

Promoted(g) == run[g].archive # None

\* Mutant: a run that is still running, or died, will do.
AnyRunStatus(g) == run[g].status # "failed"

IsPromotableRunStatus(g) == run[g].status = "completed"

\* The run is read and tested.
PromoteCheck(s, g) ==
    /\ switch[s].at = "idle"
    /\ run[g].status # "none"
    /\ switch' = [switch EXCEPT ![s].kind = "promote", ![s].of = g, ![s].archive = s,
                    ![s].at = IF ~Promoted(g) /\ IsPromotableRunStatus(g)
                              THEN "checked" ELSE "refused"]
    /\ UNCHANGED <<vars, run, active, search>>

\* The active model is read, to be restored by demote.
PromoteReadPrior(s) ==
    /\ switch[s].at = "checked"
    /\ switch' = [switch EXCEPT ![s].prior = active, ![s].at = "ready"]
    /\ UNCHANGED <<vars, run, active, search>>

\* The run is read and tested, with what promote recorded.
DemoteCheck(s, g) ==
    /\ switch[s].at = "idle"
    /\ run[g].status # "none"
    /\ switch' = [switch EXCEPT ![s].kind = "demote", ![s].of = g,
                    ![s].archive = run[g].archive, ![s].prior = run[g].prior,
                    ![s].at = IF Promoted(g) THEN "ready" ELSE "refused"]
    /\ UNCHANGED <<vars, run, active, search>>

\* The rows of embed_model two switches both write: that of the run's model,
\* and that of the active model if there is one.
ModelRowsFree(s) ==
    \A t \in Switches \ {s} :
        InTransaction(t) => active = None /\ switch[t].of # switch[s].of

\* BEGIN, the model is activated, and the first UPDATE takes its snapshot.
SwitchOpen(s) ==
    /\ switch[s].at = "ready"
    /\ Registered
    /\ ModelRowsFree(s)
    /\ switch' = [switch EXCEPT ![s].at = "out",
                    ![s].todo = {v \in Captures : Present(v) /\ rows[v].gen = Live}]
    /\ UNCHANGED <<vars, run, active, search>>

\* Mutant: the second UPDATE runs on a connection of its own and waits for the
\* transaction of the first.
OwnConnections(s) == Switches

\* Both UPDATEs are of one transaction and never wait for each other.
Others(s) == Switches \ {s}

RowFree(s, v) == ~RowLocked(v) /\ \A t \in Others(s) : v \notin Holds(t)

\* The row a capture or replay has locked to supersede it.
Superseding(c) == IF pc[c] \in {"held", "feed", "inserted"} THEN {head[c].base} \cap Captures ELSE {}

\* Who has yet to commit an entry, the removal of one, or a row that has one.
EntryOwners(s, e) ==
    {t \in Others(s) : e \in EntriesOf(t)}
        \cup {c \in Captures : pc[c] = "inserted" /\ NewEntry(c) = e}
        \cup {c \in Captures : \E v \in Superseding(c) : Entry(v, rows[v].gen) = e}

\* Where the UPDATE puts a row that it comes to.
Target(s, v) ==
    IF switch[s].at = "out" /\ rows[v].gen = Live THEN OutOf(s)
    ELSE IF switch[s].at = "in" /\ rows[v].gen = Into(s) THEN Live
    ELSE rows[v].gen

NeededEntry(s, v) == Entry(v, Target(s, v))

\* Another row, committed there and not taken away by s, has the entry already.
EntryTaken(s, v) ==
    \E w \in Captures \ {v} : Present(w) /\ Entry(w, GenFor(s, w)) = NeededEntry(s, v)

\* Nothing hinders the entry, or the row stays where it is and needs none.
EntryFree(s, v) ==
    \/ Target(s, v) = rows[v].gen
    \/ EntryOwners(s, NeededEntry(s, v)) = {} /\ ~EntryTaken(s, v)

\* The UPDATE comes to a row of its snapshot, in whatever order it finds them, and
\* locks and moves it; the row stays at hand while its entry is not free.
TakeRow(s, v) ==
    /\ InTransaction(s)
    /\ AtHand(s) = {}
    /\ v \in switch[s].todo
    /\ RowFree(s, v)
    /\ switch' = [switch EXCEPT
            ![s].out = IF switch[s].at = "out" THEN @ \cup {v} ELSE @,
            ![s].into = IF switch[s].at = "in" THEN @ \cup {v} ELSE @,
            ![s].todo = IF EntryFree(s, v) THEN @ \ {v} ELSE @]
    /\ UNCHANGED <<vars, run, active, search>>

\* The entry that the row at hand has waited for is free.
EnterRow(s, v) ==
    /\ v \in AtHand(s)
    /\ EntryFree(s, v)
    /\ switch' = [switch EXCEPT ![s].todo = @ \ {v}]
    /\ UNCHANGED <<vars, run, active, search>>

\* The first UPDATE is through, and the second takes its snapshot.
SecondUpdate(s) ==
    /\ switch[s].at = "out"
    /\ switch[s].todo = {}
    /\ switch' = [switch EXCEPT ![s].at = "in",
                    ![s].todo = {v \in Captures : Present(v) /\ rows[v].gen = Into(s)}]
    /\ UNCHANGED <<vars, run, active, search>>

SwitchEnds(s, end) ==
    switch' = [switch EXCEPT ![s].at = end, ![s].todo = {}, ![s].out = {}, ![s].into = {}]

\* Mutant: promote does not write down where it put the live corpus.
BookkeepingLost(s) ==
    [run EXCEPT ![switch[s].of].archive = None, ![switch[s].of].prior = None]

\* promoted_at, archived_live_generation and archived_live_model_key.
Bookkeeping(s) ==
    [run EXCEPT ![switch[s].of].archive =
                    IF switch[s].kind = "promote" THEN switch[s].archive ELSE None,
                ![switch[s].of].prior =
                    IF switch[s].kind = "promote" THEN switch[s].prior ELSE None]

\* The second UPDATE is through: the bookkeeping and COMMIT.
SwitchCommit(s) ==
    /\ switch[s].at = "in"
    /\ switch[s].todo = {}
    /\ rows' = Swapped(s)
    /\ run' = Bookkeeping(s)
    /\ active' = IF switch[s].kind = "promote" THEN switch[s].of ELSE switch[s].prior
    /\ SwitchEnds(s, "done")
    /\ UNCHANGED <<txVars, lockVars, docs, raw, nextSeq, feedVars, search>>

\* An UPDATE meets an entry of the unique index, or the registry's SQL is refused.
SwitchRefused(s) ==
    /\ \/ \E v \in AtHand(s) :
             EntryOwners(s, NeededEntry(s, v)) = {} /\ EntryTaken(s, v)
       \/ switch[s].at = "ready" /\ ~Registered
    /\ SwitchEnds(s, "failed")
    /\ UNCHANGED <<vars, run, active, search>>

\* A statement fails or the process dies.
SwitchCrash(s) ==
    /\ switch[s].at \in {"checked", "ready"} \/ InTransaction(s)
    /\ SwitchEnds(s, "failed")
    /\ UNCHANGED <<vars, run, active, search>>

-----------------------------------------------------------------------------
(* Who waits for whom.                                                     *)

\* A capture or replay, for an advisory lock, a row or an index entry.
CaptureAwaits(c) ==
    CASE pc[c] = "raw" -> {capLock[req[c].ref]}
      [] pc[c] = "read" /\ head[c].base # None ->
            {s \in Switches : head[c].base \in Holds(s)}
      [] ReadyToInsert(c) /\ req[c].gen = Live -> {feedLock}
      [] AtInsert(c) -> {s \in Switches : NewEntry(c) \in EntriesOf(s)}
      [] OTHER -> {}

RowOwners(s, v) ==
    {t \in Others(s) : v \in Holds(t)} \cup {c \in Captures : v \in Superseding(c)}

\* A switch, for an index entry, or for rows none of which is free.
SwitchAwaits(s) ==
    IF AtHand(s) # {} THEN UNION {EntryOwners(s, NeededEntry(s, v)) : v \in AtHand(s)}
    ELSE IF \E v \in switch[s].todo : RowFree(s, v) THEN {}
    ELSE UNION {RowOwners(s, v) : v \in switch[s].todo}

Awaits(x) == (IF x \in Captures THEN CaptureAwaits(x) ELSE SwitchAwaits(x)) \ {x, None}

\* Those x waits for, those they wait for, and so on: x is one of them.
InCircle(x) ==
    LET behind[n \in Nat] ==
            IF n = 0 THEN Awaits(x)
            ELSE LET nearer == behind[n - 1] IN nearer \cup UNION {Awaits(y) : y \in nearer}
    IN x \in behind[Cardinality(Captures \cup Switches)]

\* Postgres ends one of those that wait for each other in a circle.
CaptureVictim(c) == pc[c] \in Open /\ InCircle(c) /\ Abort(c)
SwitchVictim(s) == InTransaction(s) /\ InCircle(s) /\ SwitchCrash(s)

-----------------------------------------------------------------------------
(* A live dense search: two statements, each with a snapshot of its own.   *)

SearchModel ==
    /\ Searching
    /\ search.at = "idle"
    /\ active # None
    /\ search' = [at |-> "resolved", model |-> active]
    /\ UNCHANGED <<vars, run, switch, active>>

\* The live active versions that have a vector of the model it resolved.
SearchRows ==
    /\ search.at = "resolved"
    /\ search' = NoSearch
    /\ UNCHANGED <<vars, run, switch, active>>

-----------------------------------------------------------------------------

ReplayStep(g) == RowDone(g) \/ RunEnd(g)

SwitchStep(s) ==
    \/ PromoteReadPrior(s)
    \/ SwitchOpen(s)
    \/ \E v \in Captures : TakeRow(s, v) \/ EnterRow(s, v)
    \/ SecondUpdate(s)
    \/ SwitchCommit(s)
    \/ SwitchRefused(s)

CaptureStep ==
    \/ \E c \in Captures :
        \/ \E r \in Refs, h \in Hashes, t \in Times : InsertOrReuseRawCapture(c, r, h, t)
        \/ AdvanceUnheld(c)
        \/ Abort(c)
        \/ CaptureVictim(c)
    \/ Poll

TNext ==
    \/ CaptureStep /\ UNCHANGED trVars
    \/ CaptureEmbeds
    \/ \E g \in Replays :
        \/ RunTransform(g)
        \/ \E c \in Captures : ReplayRow(g, c)
        \/ ReplayStep(g)
        \/ RunDies(g)
    \/ \E s \in Switches :
        \/ \E g \in Replays : PromoteCheck(s, g) \/ DemoteCheck(s, g)
        \/ SwitchStep(s)
        \/ SwitchCrash(s)
        \/ SwitchVictim(s)
    \/ SearchModel
    \/ SearchRows

TSpec == TInit /\ [][TNext]_tvars

\* What was begun is run to its end, and what waits in a circle is found.
TFairness ==
    /\ \A c \in Captures : WF_vars(AdvanceUnheld(c) \/ CaptureVictim(c))
    /\ \A s \in Switches : WF_tvars(SwitchStep(s) \/ SwitchVictim(s))

-----------------------------------------------------------------------------
(* Properties.                                                             *)

\* The shape of every variable.
TTypeOK ==
    /\ TypeOK
    /\ run \in [Replays ->
          [status: {"none", "running", "abandoned", "completed", "failed"},
           todo: SUBSET Payloads, at: Captures \cup {None}, bad: BOOLEAN,
           archive: Switches \cup {None}, prior: Replays \cup {Engine, None}]]
    /\ switch \in [Switches ->
          [at: {"idle", "refused", "checked", "ready", "out", "in", "done", "failed"},
           kind: {"promote", "demote"}, of: Replays \cup {None},
           archive: Switches \cup {None}, prior: Replays \cup {Engine, None},
           todo: SUBSET Captures, out: SUBSET Captures, into: SUBSET Captures]]
    /\ active \in Replays \cup {Engine, None}
    /\ search \in [at: {"idle", "resolved"}, model: Replays \cup {Engine, None}]

\* The archived versions no run records: no demote brings them back.
Stranded ==
    {v \in Captures : rows[v].gen \in Switches
                        /\ ~\E g \in Replays : run[g].archive = rows[v].gen}

\* The record of its run is still as the call read it, in a statement before its
\* transaction: not promoted, or promoted with this archive.
RunAsRead(s) ==
    run[switch[s].of].archive = IF switch[s].kind = "promote" THEN None ELSE switch[s].archive

\* Only a stale call loses an archive: whatever captures, replays, crashes and
\* switches of this and other runs overlap, row by row, a version is cut off from
\* every demote only by the commit of a call whose run was promoted or demoted
\* between its check and that commit (migrations/0005: "so demote can swap back
\* without data loss").
OnlyStaleSwitchesStrand ==
    [][Stranded' \subseteq Stranded \/ \E s \in Switches : SwitchCommit(s) /\ ~RunAsRead(s)]_tvars

\* A promoted run is one whose every row was re-derived, and no replay is still
\* writing into a generation that became live.
PromotedIsComplete ==
    \A g \in Replays : Promoted(g) =>
        /\ run[g].todo = {} /\ run[g].at = None
        /\ \A c \in Captures : pc[c] # "idle" /\ req[c].gen = g => pc[c] \in {"captured", "noop"}

\* Every variable has its shape, and no replay is still writing into a
\* generation that became live.
TransformInv == TTypeOK /\ PromotedIsComplete

\* A replay writes its own generation, and that only while it is staged, and
\* never a version of another one (the comment on deriveVersionInTransaction).
ReplayLeavesLiveAlone ==
    [][\A c \in Captures : Commit(c) /\ req[c].gen \in Replays =>
        /\ ~Promoted(req[c].gen)
        /\ \A v \in Captures \ {c} : rows[v].gen # req[c].gen => rows'[v] = rows[v]]_tvars

\* Every promote or demote in its transaction ends, and so does every capture: no
\* circle of rows, index entries and advisory locks holds them up for good, no
\* switch waits for itself, and what waits for an ended transaction goes on.  Each
\* call is made once, so in the end nothing is left open.
TransactionsEnd ==
    <>[](/\ \A s \in Switches : ~InTransaction(s)
         /\ \A c \in Captures : pc[c] \notin Open)

(* What the documentation says and the code does not keep.                 *)

\* Promote records the archive "so demote can swap back without data loss"
\* (migrations/0005): every archived version is under the tag some run records.
NothingStranded == Stranded = {}

\* A demote brings the archived corpus back "without data loss"
\* (migrations/0005): a document with a version in the archive that was active
\* when promote archived it has an active live version again.
DemoteBringsBack ==
    [][\A s \in Switches : SwitchCommit(s) /\ switch[s].kind = "demote" =>
        \A v \in Captures : Present(v) /\ rows[v].gen = switch[s].archive =>
            \E w \in Captures : /\ rows'[w].ref = rows[v].ref
                                /\ rows'[w].gen = Live
                                /\ rows'[w].status = "active"]_tvars

\* Demote moves "the demoted live corpus back onto the run's generation tag"
\* (transform.ts): a generation only ever holds what its own run derived and
\* what was captured while it was live, never another run's versions.
GenerationIsItsRun ==
    \A v \in Captures : rows[v].gen \in Replays => req[v].gen \in {Live, rows[v].gen}

\* "Any concurrent reader sees only the fully-pre-promote or fully-post-promote
\* state" (transform.ts): the model a search resolved is still the active one
\* when it reads the live rows.
SearchSeesOneSide == [][SearchRows => search.model = active]_tvars

\* "Idempotent: ... registry upsert" (embed-model-registry.ts): the database
\* never refuses the statement that registers the model a promote activates.
ActivationAccepted == [][\A s \in Switches : SwitchRefused(s) => InTransaction(s)]_tvars
=============================================================================
