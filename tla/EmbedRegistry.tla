---------------------------- MODULE EmbedRegistry ----------------------------
(***************************************************************************)
(* The embed model registry of one tenant (src/core/embed-model-registry   *)
(* .ts) as several processes use it at once: captures and sweeps activate  *)
(* the model their engine is configured with, replays only ensure theirs,  *)
(* and promote and demote (src/services/transform.ts) switch models inside *)
(* a transaction of their own.                                             *)
(*                                                                         *)
(* Postgres is at READ COMMITTED: a statement picks its rows in a snapshot *)
(* and takes them one by one, in no promised order, waiting for each that  *)
(* an open transaction has written and then testing it again.  What a      *)
(* process has written and not committed is kept apart from the tables,    *)
(* and is what the others wait for.  The table has the unique index and    *)
(* admits the statuses that the module's SQL names (see ActivationAccepted *)
(* in Transform).                                                          *)
(***************************************************************************)
EXTENDS Naturals, FiniteSets, Functions, Relation

CONSTANTS Procs,     \* connections; each makes one call after another
          Models,    \* model keys
          Wide,      \* the models whose vectors need the halfvec index
          MaxCalls,  \* bound: calls from there on
          None

Row == [status : {"none", "ready", "active"}, at : Nat]

ASSUME RegistryAssumption ==
    /\ Wide \subseteq Models
    /\ MaxCalls \in Nat
    /\ IsFiniteSet(Models)
    /\ None \notin Models \cup Row

VARIABLES row,       \* embed_model, by model_key
          table,     \* the embedding table of a model: its index, or why there is none
          recorded,  \* the prior models committed promotes have recorded
          call,      \* the call each process is in
          mine,      \* the rows it has written and not committed
          clock      \* now() of the latest statement or transaction

tables == <<row, table, recorded>>
rvars == <<tables, call, mine, clock>>

Indexes == {"hnsw", "ivfflat", "halfvec"}

\* The calls that change which model is active; those made in a transaction.
Switching == {"activate", "promote", "restore", "clear"}
Transactional == {"promote", "restore", "clear"}

\* built: the table as an open transaction has made it.  alone: no other
\* statement that switches has run beside this one's.
NewCall(kind, m, at, start, prior) ==
    [kind |-> kind, model |-> m, at |-> at, todo |-> {}, start |-> start,
     alone |-> FALSE, prior |-> prior, built |-> "untouched"]

Idle == NewCall("none", None, "idle", 0, None)

Untouched == [m \in Models |-> None]

\* A new tenant, or one whose calls so far have left some models active: one,
\* or several after activations that overlapped.
RInit ==
    \E left \in SUBSET Models : \E at \in [left -> 1..Cardinality(left)] :
        /\ IsInjective(at)
        /\ row = [m \in Models |-> IF m \in left THEN [status |-> "active", at |-> at[m]]
                                   ELSE [status |-> "none", at |-> 0]]
        /\ table = [m \in Models |-> IF m \notin left THEN "missing"
                                     ELSE IF m \in Wide THEN "halfvec" ELSE "hnsw"]
        /\ recorded = {}
        /\ call = [p \in Procs |-> Idle]
        /\ mine = [p \in Procs |-> Untouched]
        /\ clock = Cardinality(Models)

-----------------------------------------------------------------------------
(* What a process sees, and what it waits for.                             *)

Seen(p, m) == IF mine[p][m] = None THEN row[m] ELSE mine[p][m]

\* A row, or the key of one, that another has written and not committed.
Holders(p, m) == {q \in Procs \ {p} : mine[q][m] # None}
Free(p, m) == Holders(p, m) = {}

\* A table that another has created or indexed and not committed.
Builders(p, m) ==
    {q \in Procs \ {p} : call[q].model = m /\ call[q].built # "untouched"}

TableSeen(p) ==
    IF call[p].built # "untouched" THEN call[p].built ELSE table[call[p].model]

InTransaction(p) == call[p].kind \in Transactional
Busy(p) == call[p].at # "idle"

Active == {m \in Models : row[m].status = "active"}

\* resolveActiveEmbedTable: of the active models, one updated last.
Newest == {m \in Active : \A n \in Active : row[n].at <= row[m].at}
Resolved == IF Newest = {} THEN None ELSE CHOOSE m \in Newest : TRUE

Goto(p, at) == call' = [call EXCEPT ![p].at = at]

-----------------------------------------------------------------------------
(* ensureEmbedModel, after its probe of the endpoint.                      *)

\* A promote reads the model to restore before its transaction; a demote
\* restores one that a promote recorded, or clears where it recorded none.
Begin(p, kind, m) ==
    /\ call[p].at = "idle"
    /\ clock < Cardinality(Models) + MaxCalls
    /\ kind = "restore" => m \in recorded
    /\ kind = "clear" => None \in recorded /\ m = None
    /\ kind # "clear" => m # None
    /\ clock' = clock + 1
    /\ call' = [call EXCEPT ![p] =
          NewCall(kind, m, IF kind \in {"restore", "clear"} THEN "switch" ELSE "upsert",
                  clock + 1, IF kind = "promote" THEN Resolved ELSE None)]
    /\ UNCHANGED <<tables, mine>>

\* Mutant: the conflict clause writes status and time as well.
UpsertRewrites(p) == [status |-> "ready", at |-> call[p].start]

\* The row is inserted ready; one that is there keeps its status and its time.
Upserted(p) ==
    IF Seen(p, call[p].model).status = "none" THEN [status |-> "ready", at |-> call[p].start]
    ELSE Seen(p, call[p].model)

Upsert(p) ==
    /\ call[p].at = "upsert"
    /\ Free(p, call[p].model)
    /\ IF InTransaction(p)
       THEN mine' = [mine EXCEPT ![p][call[p].model] = Upserted(p)] /\ UNCHANGED row
       ELSE row' = [row EXCEPT ![call[p].model] = Upserted(p)] /\ UNCHANGED mine
    /\ Goto(p, "look")
    /\ UNCHANGED <<table, recorded, clock>>

\* CREATE TABLE IF NOT EXISTS looks for the table and then creates it.
LookForTable(p) ==
    /\ call[p].at = "look"
    /\ Goto(p, IF TableSeen(p) = "missing" THEN "create" ELSE "index")
    /\ UNCHANGED <<tables, mine, clock>>

\* What a statement of p does to the table: at once, or in its transaction.
Build(p, t, at) ==
    IF InTransaction(p)
    THEN call' = [call EXCEPT ![p] = [@ EXCEPT !.built = t, !.at = at]] /\ UNCHANGED table
    ELSE table' = [table EXCEPT ![call[p].model] = t] /\ Goto(p, at)

\* Two that found it missing: the second waits for the first, and is refused.
CreateTable(p) ==
    /\ call[p].at = "create"
    /\ Builders(p, call[p].model) = {}
    /\ TableSeen(p) = "missing"
    /\ Build(p, "bare", "index")
    /\ UNCHANGED <<row, recorded, mine, clock>>

\* What comes after the index.
AfterIndex(p) == IF call[p].kind \in Switching THEN "switch" ELSE "done"

\* Mutant: activation does not wait for the index.
ActivateUnindexed(p) == TRUE

IndexThere(p) == TableSeen(p) \in Indexes

\* CREATE INDEX IF NOT EXISTS, when it is there.
KeepIndex(p) ==
    /\ call[p].at = "index"
    /\ IndexThere(p)
    /\ Goto(p, AfterIndex(p))
    /\ UNCHANGED <<tables, mine, clock>>

BuildIndex(p) ==
    /\ call[p].at = "index"
    /\ ~IndexThere(p)
    /\ Builders(p, call[p].model) = {}
    /\ Build(p, IF call[p].model \in Wide THEN "halfvec" ELSE "hnsw", AfterIndex(p))
    /\ UNCHANGED <<row, recorded, mine, clock>>

\* The hnsw index is refused and ivfflat tried, which a transaction that has
\* had an error no longer can.
FallBack(p) ==
    /\ call[p].at = "index"
    /\ ~IndexThere(p)
    /\ Builders(p, call[p].model) = {}
    /\ call[p].model \notin Wide
    /\ ~InTransaction(p)
    /\ Build(p, "ivfflat", AfterIndex(p))
    /\ UNCHANGED <<row, recorded, mine, clock>>

EnsureDone(p) ==
    /\ call[p].at = "done"
    /\ call' = [call EXCEPT ![p] = Idle]
    /\ UNCHANGED <<tables, mine, clock>>

-----------------------------------------------------------------------------
(* setActiveEmbedModelExclusive and clearActiveEmbedModels: one statement. *)

\* Mutant: only the model that resolves is demoted.
OnlyResolved(p) == {Resolved} \ {call[p].model, None}

\* The active rows the statement demotes.
Demoted(p) == {m \in Models \ {call[p].model} : Seen(p, m).status = "active"}

\* The row it activates.
Target(p) == IF call[p].kind = "clear" THEN {} ELSE {call[p].model}

Switchers == {q \in Procs : call[q].at \in {"update", "commit"}}

\* The snapshot.  The time of a statement outside a transaction is its own.
StartSwitch(p) ==
    /\ call[p].at = "switch"
    /\ call' = [q \in Procs |->
          IF q = p THEN [call[p] EXCEPT !.at = "update", !.todo = Demoted(p) \cup Target(p),
                                        !.alone = Switchers = {}]
          ELSE IF q \in Switchers THEN [call[q] EXCEPT !.alone = FALSE]
          ELSE call[q]]
    /\ UNCHANGED <<tables, mine, clock>>

\* Mutant: the demotion does not spare the model that is activated.
DemotesTarget(p, m) ==
    IF Seen(p, m).status = "active" THEN [status |-> "ready", at |-> call[p].start]
    ELSE IF m \in Target(p) THEN [status |-> "active", at |-> call[p].start]
    ELSE Seen(p, m)

\* What becomes of one row: the target is activated; another is demoted if it
\* still is active, and only kept locked if not.
Switched(p, m) ==
    IF m \in Target(p) THEN [status |-> "active", at |-> call[p].start]
    ELSE IF Seen(p, m).status = "active" THEN [status |-> "ready", at |-> call[p].start]
    ELSE Seen(p, m)

UpdateRow(p, m) ==
    /\ call[p].at = "update"
    /\ m \in call[p].todo
    /\ Free(p, m)
    /\ mine' = [mine EXCEPT ![p][m] = Switched(p, m)]
    /\ call' = [call EXCEPT ![p].todo = @ \ {m}]
    /\ UNCHANGED <<tables, clock>>

StatementDone(p) ==
    /\ call[p].at = "update"
    /\ call[p].todo = {}
    /\ Goto(p, "commit")
    /\ UNCHANGED <<tables, mine, clock>>

\* The statement by itself, or the transaction that promotes or demotes after
\* the rows of its generations.
Commit(p) ==
    /\ call[p].at = "commit"
    /\ row' = [m \in Models |-> Seen(p, m)]
    /\ table' = IF call[p].built = "untouched" THEN table
                ELSE [table EXCEPT ![call[p].model] = call[p].built]
    /\ recorded' = recorded \cup (IF call[p].kind = "promote" THEN {call[p].prior} ELSE {})
    /\ mine' = [mine EXCEPT ![p] = Untouched]
    /\ call' = [call EXCEPT ![p] = Idle]
    /\ UNCHANGED clock

-----------------------------------------------------------------------------
(* Failures.                                                               *)

\* Mutant: a transaction that fails is left open.
LeftOpen(p) == mine

RolledBack(p) == [mine EXCEPT ![p] = Untouched]

Fail(p) ==
    /\ mine' = RolledBack(p)
    /\ call' = [call EXCEPT ![p] = Idle]
    /\ UNCHANGED <<tables, clock>>

\* The probe, a statement or the process fails: what is committed stays.
CallFails(p) == Busy(p) /\ Fail(p)

\* The table another process created first.
CreateRefused(p) ==
    /\ call[p].at = "create"
    /\ TableSeen(p) # "missing"
    /\ Fail(p)

\* What p waits for now: its statement has no row left that it could take.
Awaits(p) ==
    CASE call[p].at = "upsert" -> Holders(p, call[p].model)
      [] call[p].at = "update" ->
            IF \E m \in call[p].todo : Free(p, m) THEN {}
            ELSE UNION {Holders(p, m) : m \in call[p].todo}
      [] call[p].at \in {"create", "index"} -> Builders(p, call[p].model)
      [] OTHER -> {}

InCircle(p) == TransitiveClosure([x, y \in Procs |-> y \in Awaits(x)], Procs)[p, p]

\* Postgres ends one of the processes that wait for each other in a circle.
DeadlockVictim(p) ==
    /\ Awaits(p) # {}
    /\ InCircle(p)
    /\ Fail(p)

-----------------------------------------------------------------------------

\* The steps a call takes by itself.
Step(p) ==
    \/ Upsert(p) \/ LookForTable(p) \/ CreateTable(p) \/ CreateRefused(p)
    \/ KeepIndex(p) \/ BuildIndex(p) \/ FallBack(p) \/ EnsureDone(p)
    \/ StartSwitch(p) \/ StatementDone(p) \/ Commit(p) \/ DeadlockVictim(p)
    \/ \E m \in Models : UpdateRow(p, m)

RNext ==
    \E p \in Procs :
        \/ \E kind \in Switching \cup {"ensure"}, m \in Models \cup {None} : Begin(p, kind, m)
        \/ Step(p)
        \/ CallFails(p)

RSpec == RInit /\ [][RNext]_rvars /\ \A p \in Procs : WF_rvars(Step(p))

-----------------------------------------------------------------------------
(* Properties.                                                             *)

Calls ==
    [kind : {"none", "ensure"} \cup Switching, model : Models \cup {None},
     at : {"idle", "upsert", "look", "create", "index", "done", "switch", "update", "commit"},
     todo : SUBSET Models, start : Nat, alone : BOOLEAN, prior : Models \cup {None},
     built : {"untouched", "bare"} \cup Indexes]

\* The shape of every variable.
RTypeOK ==
    /\ row \in [Models -> Row]
    /\ table \in [Models -> {"missing", "bare"} \cup Indexes]
    /\ recorded \subseteq Models \cup {None}
    /\ call \in [Procs -> Calls]
    /\ mine \in [Procs -> [Models -> Row \cup {None}]]
    /\ clock \in Nat

\* A model is active only with an indexed table, however its registration was
\* interleaved, repeated or cut short: no dense search is pointed at a table that
\* is missing or must be scanned (embed-model-registry.ts:190).
ActiveIsSearchable == \A m \in Active : table[m] \in Indexes

\* Every variable has its shape, and what is active can be searched.
RegistryInv == RTypeOK /\ ActiveIsSearchable

\* A step in which the activation, promote or demote of p takes effect: the rows
\* are what it has written.
Switches(p) ==
    /\ call[p].at = "commit" /\ call'[p].at = "idle"
    /\ \A m \in Models : mine[p][m] # None => row'[m] = mine[p][m]

\* Once a model is active one stays active through any race of activations, and no
\* step leaves the tenant without but a demote that had none to restore; and the
\* model dense search uses changes where an activation commits and nowhere else: a
\* replay that ensures its model never takes it (embed-model-registry.ts:120, "so a
\* staged embed model flip never steals").
ActiveKept ==
    [][/\ Active # {} /\ Active' = {}
             => \E p \in Procs : Switches(p) /\ call[p].kind = "clear"
       /\ Resolved' # Resolved => \E p \in Procs : Switches(p)]_rvars

\* An activation that no other overlapped leaves its model as the only active one,
\* whatever earlier races have left behind.
LoneActivationHeals ==
    [][\A p \in Procs : Switches(p) /\ call[p].alone /\ call[p].kind # "clear"
          => Active' = {call[p].model}]_rvars

\* Every call ends: processes that take each other's rows in opposite orders are
\* told apart, and one that failed holds nothing.
CallsEnd == \A p \in Procs : Busy(p) ~> ~Busy(p)

\* "Make modelKey the sole active model for the tenant" (embed-model-registry.ts
\* :314): activations that overlap leave two.
StaysSole == [][Cardinality(Active) <= 1 => Cardinality(Active') <= 1]_rvars

\* "Promote this model to the tenant's active dense-search target" (embed-model-
\* registry.ts:213): until a demote, what a promote has made active stays so.  The
\* next capture of an engine that is configured with another model activates that.
PromotedStays ==
    [][\A p \in Procs : Switches(p) /\ call[p].kind = "activate" /\ recorded # {}
          => Resolved' = Resolved]_rvars
=============================================================================
