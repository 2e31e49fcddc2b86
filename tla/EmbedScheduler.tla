--------------------------- MODULE EmbedScheduler ---------------------------
(***************************************************************************)
(* The background embedding of captured chunks (src/services/capture.ts):  *)
(* the process-wide scheduler that runs one embed pass at a time and joins *)
(* the adds of one tenant, the pass with its retries, and the sweep of the *)
(* chunks that earlier passes left without a vector.                       *)
(*                                                                         *)
(* One process is modelled, with the tables it shares with the rest: it    *)
(* may die and start again.  A step is what runs between two awaits.  Each *)
(* add has one chunk, named by the add.                                    *)
(***************************************************************************)
EXTENDS Naturals, Sequences, FiniteSets, Functions, Subsequence

CONSTANTS Tenants,
          Adds,          \* the captures that wrote a chunk
          TenantOf,      \* the tenant of each add
          Poison,        \* the adds whose text the embedder refuses
          MaxAttempts,   \* attempts at the fresh chunks of one pass
          BatchSize,     \* texts of one request to the embedder
          PendingLimit,  \* chunks of one sweep
          MaxOutages,    \* bound: awaits that fail though no text is refused
          MaxCrashes,    \* bound: times the process dies
          MaxRemovals    \* bound: chunks purged or forgotten

ASSUME EmbedAssumption ==
    /\ TenantOf \in [Adds -> Tenants]
    /\ Poison \subseteq Adds
    /\ {MaxAttempts, BatchSize, PendingLimit} \subseteq Nat \ {0}
    /\ {MaxOutages, MaxCrashes, MaxRemovals} \subseteq Nat

VARIABLES add,      \* where each add is
          stored,   \* the chunk rows there ever were, oldest first
          gone,     \* the chunks a purge deleted
          hidden,   \* the chunks of tombstoned versions
          vec,      \* the chunks with a vector in the active table
          queue,    \* tenants: chunks not yet in a pass; NoState when absent
          chain,    \* the drains still to run, the running one first
          pass,     \* the pass each tenant's drain is in
          fails,    \* attempts that failed with each add among their fresh chunks
          outages, crashes

queueVars == <<queue, chain>>
tableVars == <<stored, gone, hidden, vec>>
boundVars == <<outages, crashes>>
evars == <<add, stored, gone, hidden, vec, queue, chain, pass, fails, outages, crashes>>

NoState == [queued |-> FALSE, chunks |-> <<>>]
NoPass == [at |-> "off", batch |-> <<>>, rest |-> <<>>, attempt |-> 0]

Running(t) == pass[t].at # "off"

Init ==
    /\ add = [a \in Adds |-> "none"]
    /\ stored = <<>>
    /\ gone = {} /\ hidden = {} /\ vec = {}
    /\ queue = [t \in Tenants |-> NoState]
    /\ chain = <<>>
    /\ pass = [t \in Tenants |-> NoPass]
    /\ fails = [a \in Adds |-> 0]
    /\ outages = 0 /\ crashes = 0

-----------------------------------------------------------------------------
(* Captures and the tables.                                                *)

\* The capture commits its chunk; the task that enqueues it is a microtask.
Capture(a) ==
    /\ add[a] = "none"
    /\ add' = [add EXCEPT ![a] = "captured"]
    /\ stored' = Append(stored, a)
    /\ UNCHANGED <<gone, hidden, vec, queueVars, pass, fails, boundVars>>

\* A purge takes the chunk and, by the foreign key, its vector.
Purge(a) ==
    /\ a \in Range(stored) \ gone
    /\ Cardinality(gone \cup hidden) < MaxRemovals
    /\ gone' = gone \cup {a}
    /\ vec' = vec \ {a}
    /\ UNCHANGED <<add, stored, hidden, queueVars, pass, fails, boundVars>>

\* A forget tombstones the version; its vector stays.
Forget(a) ==
    /\ a \in Range(stored) \ (gone \cup hidden)
    /\ Cardinality(gone \cup hidden) < MaxRemovals
    /\ hidden' = hidden \cup {a}
    /\ UNCHANGED <<add, stored, gone, vec, queueVars, pass, fails, boundVars>>

-----------------------------------------------------------------------------
(* The scheduler.                                                          *)

\* enqueue: the chunks join the state of their tenant, and the first of them
\* puts the tenant's drain on the chain.
Enqueue(a) ==
    LET t == TenantOf[a]
    IN /\ add[a] = "captured"
       /\ add' = [add EXCEPT ![a] = "enqueued"]
       /\ queue' = [queue EXCEPT ![t] = [queued |-> TRUE, chunks |-> Append(@.chunks, a)]]
       /\ chain' = IF queue[t].queued THEN chain ELSE Append(chain, t)
       /\ UNCHANGED <<tableVars, pass, fails, boundVars>>

\* Mutant: the drains do not wait for each other.
AnyTurn(t) == t \in Range(chain)

\* chain.then: a drain runs when the one before it is over.
ItsTurn(t) == chain # <<>> /\ Head(chain) = t

\* The next pass of the drain, over every chunk that has joined by now.
StartPass(t) ==
    /\ ItsTurn(t)
    /\ ~Running(t)
    /\ queue[t].chunks # <<>>
    /\ pass' = [pass EXCEPT ![t] = [at |-> "register", batch |-> queue[t].chunks,
                                    rest |-> <<>>, attempt |-> 1]]
    /\ queue' = [queue EXCEPT ![t].chunks = <<>>]
    /\ UNCHANGED <<add, tableVars, chain, fails, boundVars>>

Waiters(t) == {a \in Adds : add[a] = "enqueued" /\ TenantOf[a] = t}

\* Mutant: the state of a drained tenant stays in the map.
StateKept(t) == [queue EXCEPT ![t].chunks = <<>>]

StateDeleted(t) == [queue EXCEPT ![t] = NoState]

\* Mutant: the drain does not look again for chunks that joined it.
OverAfterPass(t) == TRUE

DrainOver(t) == queue[t].chunks = <<>>

\* Nothing has joined: the waiters are resolved and the state is deleted.
EndDrain(t) ==
    /\ ItsTurn(t)
    /\ ~Running(t)
    /\ DrainOver(t)
    /\ add' = [a \in Adds |-> IF a \in Waiters(t) THEN "settled" ELSE add[a]]
    /\ queue' = StateDeleted(t)
    /\ chain' = Tail(chain)
    /\ UNCHANGED <<tableVars, pass, fails, boundVars>>

-----------------------------------------------------------------------------
(* One pass: runBackgroundEmbedPass.                                       *)

FreshStages == {"register", "fresh", "storing"}

\* An attempt failed: the fresh chunks are tried again after a pause until the
\* attempts are spent; a sweep is only logged.
Degraded(p) ==
    IF p.at \in FreshStages /\ p.attempt < MaxAttempts
    THEN [p EXCEPT !.at = "waiting"]
    ELSE NoPass

Retry(t) ==
    /\ pass[t].at = "waiting"
    /\ pass' = [pass EXCEPT ![t].at = "register", ![t].attempt = @ + 1]
    /\ UNCHANGED <<add, tableVars, queueVars, fails, boundVars>>

\* What an attempt at the fresh chunks leaves when it fails, whatever was done
\* of it: the sweep's failure counts for nobody.
FailsCounted(p) ==
    [a \in Adds |-> IF p.at \in FreshStages /\ a \in Range(p.batch)
                   THEN fails[a] + 1 ELSE fails[a]]

AttemptFails(t) ==
    /\ pass' = [pass EXCEPT ![t] = Degraded(@)]
    /\ fails' = FailsCounted(pass[t])

\* An await of the pass fails for a reason of the embedder or the database.
Outage(t) ==
    /\ outages < MaxOutages
    /\ outages' = outages + 1
    /\ AttemptFails(t)

\* activateEmbedModel comes before the fresh chunks are sent: an attempt may
\* fail with nothing sent.
RegisterModel(t) ==
    /\ pass[t].at = "register"
    /\ \/ /\ pass' = [pass EXCEPT ![t].at = "fresh", ![t].rest = pass[t].batch]
          /\ UNCHANGED <<fails, outages>>
       \/ Outage(t)
    /\ UNCHANGED <<add, tableVars, queueVars, crashes>>

Least(m, n) == IF m < n THEN m ELSE n

\* chunkTexts: the next texts that go out, and the ones after them.
NextBatch(s) == SubSeq(s, 1, Least(BatchSize, Len(s)))
LaterBatches(s) == SubSeq(s, Least(BatchSize, Len(s)) + 1, Len(s))

\* One text that is refused fails its whole request.
Refused(batch) == Range(batch) \cap Poison # {}

\* embedTexts sends the texts batch after batch; the first that fails ends the
\* call, and no vector is kept before the last has come back.
SendBatch(t) ==
    /\ pass[t].at \in {"fresh", "sweep"}
    /\ \/ /\ ~Refused(NextBatch(pass[t].rest))
          /\ pass' = IF LaterBatches(pass[t].rest) # <<>>
                     THEN [pass EXCEPT ![t].rest = LaterBatches(@)]
                     ELSE [pass EXCEPT ![t].at = IF @ = "fresh" THEN "storing" ELSE "sweeping",
                                       ![t].rest = pass[t].batch]
          /\ UNCHANGED <<fails, outages>>
       \/ /\ Refused(NextBatch(pass[t].rest))
          /\ AttemptFails(t)
          /\ UNCHANGED outages
       \/ Outage(t)
    /\ UNCHANGED <<add, tableVars, queueVars, crashes>>

\* Mutant: the table of vectors has no foreign key.
ChunkUnchecked(a) == TRUE

ChunkExists(a) == a \notin gone

\* The vectors are written one by one; an INSERT that fails, as the one for a
\* purged chunk does, takes the rest of the batch with it.
StoreVector(t) ==
    /\ pass[t].at \in {"storing", "sweeping"}
    /\ pass[t].rest # <<>>
    /\ \/ /\ ChunkExists(Head(pass[t].rest))
          /\ vec' = vec \cup {Head(pass[t].rest)}
          /\ pass' = [pass EXCEPT ![t].rest = Tail(@)]
          /\ UNCHANGED <<fails, outages>>
       \/ /\ ~ChunkExists(Head(pass[t].rest))
          /\ AttemptFails(t)
          /\ UNCHANGED <<vec, outages>>
       \/ /\ Outage(t)
          /\ UNCHANGED vec
    /\ UNCHANGED <<add, stored, gone, hidden, queueVars, crashes>>

\* findPendingChunks: the tenant's oldest chunks that have no vector, those of
\* tombstoned versions left out.
Pending(t) ==
    ElementsAt(stored, {i \in DOMAIN stored :
                          /\ TenantOf[stored[i]] = t
                          /\ stored[i] \notin gone \cup hidden \cup vec})

FirstOf(s) == SubSeq(s, 1, Least(PendingLimit, Len(s)))

\* The fresh chunks have their vectors; the sweep registers the model again, and
\* is only logged when that fails.
RegisterForSweep(t) ==
    /\ pass[t].at = "storing"
    /\ pass[t].rest = <<>>
    /\ \/ /\ pass' = [pass EXCEPT ![t].at = "find"]
          /\ UNCHANGED outages
       \/ /\ outages < MaxOutages
          /\ outages' = outages + 1
          /\ pass' = [pass EXCEPT ![t] = NoPass]
    /\ UNCHANGED <<add, tableVars, queueVars, fails, crashes>>

\* What is pending is looked up.
FindPending(t) ==
    /\ pass[t].at = "find"
    /\ pass' = [pass EXCEPT ![t] =
          IF Pending(t) = <<>> THEN NoPass
          ELSE [@ EXCEPT !.at = "sweep", !.batch = FirstOf(Pending(t)),
                         !.rest = FirstOf(Pending(t))]]
    /\ UNCHANGED <<add, tableVars, queueVars, fails, boundVars>>

EndSweep(t) ==
    /\ pass[t].at = "sweeping"
    /\ pass[t].rest = <<>>
    /\ pass' = [pass EXCEPT ![t] = NoPass]
    /\ UNCHANGED <<add, tableVars, queueVars, fails, boundVars>>

\* The process dies and another starts: the tables stay, the queues do not.
Crash ==
    /\ crashes < MaxCrashes
    /\ crashes' = crashes + 1
    /\ add' = [a \in Adds |-> IF add[a] \in {"captured", "enqueued"} THEN "lost" ELSE add[a]]
    /\ queue' = [t \in Tenants |-> NoState]
    /\ chain' = <<>>
    /\ pass' = [t \in Tenants |-> NoPass]
    /\ UNCHANGED <<tableVars, fails, outages>>

-----------------------------------------------------------------------------

PassStep(t) ==
    \/ StartPass(t)
    \/ EndDrain(t)
    \/ Retry(t)
    \/ RegisterModel(t)
    \/ SendBatch(t)
    \/ StoreVector(t)
    \/ RegisterForSweep(t)
    \/ FindPending(t)
    \/ EndSweep(t)

Next ==
    \/ \E a \in Adds : Capture(a) \/ Enqueue(a) \/ Purge(a) \/ Forget(a)
    \/ \E t \in Tenants : PassStep(t)
    \/ Crash

Spec == Init /\ [][Next]_evars

\* The event loop runs every microtask and every continuation; a call to the
\* embedder has a timeout, so it comes back.
Fairness ==
    /\ \A a \in Adds : WF_evars(Enqueue(a))
    /\ \A t \in Tenants : WF_evars(PassStep(t))

FairSpec == Spec /\ Fairness

-----------------------------------------------------------------------------
(* Properties.                                                             *)

\* The shape of every variable.
TypeOK ==
    /\ add \in [Adds -> {"none", "captured", "enqueued", "settled", "lost"}]
    /\ stored \in Seq(Adds)
    /\ gone \in SUBSET Adds /\ hidden \in SUBSET Adds /\ vec \in SUBSET Adds
    /\ queue \in [Tenants -> [queued: BOOLEAN, chunks: Seq(Adds)]]
    /\ chain \in Seq(Tenants)
    /\ pass \in [Tenants -> [at: {"off", "register", "fresh", "storing", "waiting",
                                  "find", "sweep", "sweeping"},
                             batch: Seq(Adds), rest: Seq(Adds), attempt: 0..MaxAttempts]]
    /\ fails \in [Adds -> Nat]
    /\ outages \in Nat /\ crashes \in Nat

\* One embed pass runs at a time in a process, whichever tenants added: a slow
\* embedder is never asked by two at once (capture.test.ts, "passes for two
\* tenants still never run concurrently").
OneRunAtATime ==
    \A t, u \in Tenants : Running(t) /\ Running(u) => t = u

\* Every variable has its shape, and passes never overlap.
EmbedInv == TypeOK /\ OneRunAtATime

\* A promise is resolved only when the chunk has its vector, is purged, or was
\* among the fresh chunks of as many failed attempts as a pass makes, those that
\* failed before anything was sent included: nothing that joins a drain while it
\* runs, retries or ends is forgotten (createBackgroundEmbedScheduler).
DoneWith(a) == a \in vec \cup gone \/ fails[a] >= MaxAttempts

SettledOnlyWhenDone == \A a \in Adds : add[a] = "settled" => DoneWith(a)

\* No vector outlives its chunk, though a purge may come between the call to the
\* embedder and the INSERT (the foreign key of ensureEmbedModel).
NoOrphanVector == vec \cap gone = {}

\* Every add that is enqueued is settled, however many join and fail, unless the
\* process dies.
WaitersSettle == \A a \in Adds : add[a] = "enqueued" ~> add[a] \in {"settled", "lost"}

(* What the comments say and the code does not keep.                       *)

\* The background pass "never leaves chunks pending" (runBackgroundEmbedPass):
\* once the embedder answers, every chunk gets its vector or goes.
NeverLeftPending ==
    \A a \in Adds : a \in Range(stored) ~> a \in vec \cup gone \cup hidden

\* "A long outage sweeps incrementally, one background pass at a time"
\* (findPendingChunks): a sweep during which the embedder is up leaves fewer
\* chunks pending than it found.
SweepProgresses ==
    [][\A t \in Tenants :
        pass[t].at = "sweep" /\ pass'[t].at = "off" /\ UNCHANGED <<outages, crashes>> =>
            \A a \in Range(Pending(t)) : a \in Poison]_evars
=============================================================================
