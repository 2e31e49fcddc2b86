--------------------------- MODULE FederatedSearch ---------------------------
(***************************************************************************)
(* One search over the document store and the mounted live sources         *)
(* (searchMerged, src/memory.ts, and src/core/merge-local-live.ts): the    *)
(* store is asked first, then every source at once, each with a timeout;   *)
(* when all calls are settled the hits are merged into one list.           *)
(*                                                                         *)
(* A hit is its dedupe key (adapter:externalRef) and where it came from.   *)
(* Scores, and with them the order of the list, are data: which hits the   *)
(* limit cuts is any choice.                                               *)
(***************************************************************************)
EXTENDS Naturals, FiniteSets, FiniteSetsExt

CONSTANTS NumProviders, \* sources are numbered in the order they are mounted in
          Keys,         \* dedupe keys of hits
          AdapterOf,    \* the adapter of each key
          NameOf,       \* the id of each source
          Names,        \* what a request may name beside "local"
          Limit,        \* the number of hits asked for
          None

Providers == 1..NumProviders

Evidences == {"strong", "weak", "none"}
LiveFlags == {"live_timeout", "live_error"}

ASSUME FederatedAssumption ==
    /\ NumProviders \in Nat
    /\ IsFiniteSet(Keys)
    /\ AdapterOf \in [Keys -> Names]
    /\ NameOf \in [Providers -> Names]
    /\ "local" \notin Names
    /\ Limit \in Nat \ {0}
    /\ None \notin Keys \cup Evidences

VARIABLES request, \* [sources, includeEvidence]; no sources is no filter
          mounted, \* each source: "absent", "plain" (no searchLive) or "live"
          phase,   \* "local", "live", "returned" or "failed"
          local,   \* what the store answered
          backend, \* each source's own work: "unasked", "running", "ended"
          call,    \* the call raced with its timer: "unasked", "pending",
                   \* "answered", "live_timeout" or "live_error"
          hits,    \* the hits of each source that has answered
          result

fvars == <<request, mounted, phase, local, backend, call, hits, result>>

Requests == [sources : SUBSET (Names \cup {"local"}), includeEvidence : BOOLEAN]

\* The store fills at most the limit and has no evidence without hits; a host's
\* own store may report none at all.
StoreAnswers ==
    {a \in [hits : SUBSET Keys, evidence : Evidences \cup {None},
            degraded : SUBSET {"dense_unavailable"}] :
       /\ Cardinality(a.hits) <= Limit
       /\ a.evidence # None => (a.evidence = "none" <=> a.hits = {})}

NoLocal == [hits |-> {}, evidence |-> None, degraded |-> {}]

-----------------------------------------------------------------------------
(* The calls.                                                              *)

WantsLocal == request.sources = {} \/ "local" \in request.sources

\* The sources collectLiveItems calls.
Asked ==
    {p \in Providers : /\ mounted[p] = "live"
                       /\ request.sources = {} \/ NameOf[p] \in request.sources}

\* store.search, awaited before any source is asked.
AskAll(a) ==
    /\ phase' = "live"
    /\ local' = a
    /\ call' = [p \in Providers |-> IF p \in Asked THEN "pending" ELSE "unasked"]
    /\ backend' = [p \in Providers |-> IF p \in Asked THEN "running" ELSE "unasked"]
    /\ UNCHANGED <<request, mounted, hits, result>>

LocalAnswers ==
    /\ phase = "local"
    /\ IF WantsLocal THEN \E a \in StoreAnswers : AskAll(a) ELSE AskAll(NoLocal)

\* An error of the store is the error of the search.
LocalFails ==
    /\ phase = "local" /\ WantsLocal
    /\ phase' = "failed"
    /\ UNCHANGED <<request, mounted, local, backend, call, hits, result>>

Pending(p) == call[p] = "pending"

\* withTimeout: the first of answer, error and timer is kept.
Settle(p, outcome, S) ==
    IF Pending(p)
    THEN /\ call' = [call EXCEPT ![p] = outcome]
         /\ hits' = [hits EXCEPT ![p] = S]
    ELSE UNCHANGED <<call, hits>>

\* A source answers or fails, in time or late, also after the search returned.
SourceEnds(p, outcome, S) ==
    /\ backend[p] = "running"
    /\ backend' = [backend EXCEPT ![p] = "ended"]
    /\ Settle(p, outcome, S)
    /\ UNCHANGED <<request, mounted, phase, local, result>>

SourceAnswers(p) == \E S \in SUBSET Keys : SourceEnds(p, "answered", S)
SourceFails(p) == SourceEnds(p, "live_error", {})

\* Mutant: a source that has not ended is waited for.
TimerAfterAnswer(p) == Pending(p) /\ backend[p] # "running"

TimerArmed(p) == Pending(p)

\* LIVE_TIMEOUT_MS later.
TimerFires(p) ==
    /\ phase = "live" /\ TimerArmed(p)
    /\ call' = [call EXCEPT ![p] = "live_timeout"]
    /\ UNCHANGED <<request, mounted, phase, local, backend, hits, result>>

-----------------------------------------------------------------------------
(* The merge.                                                              *)

AllSettled == \A p \in Providers : ~Pending(p)

Answered == {p \in Providers : call[p] = "answered"}

LocalHits == {[channel |-> "local", key |-> k, from |-> None] : k \in local.hits}
HitsOf(p) == {[channel |-> "live", key |-> k, from |-> p] : k \in hits[p]}

\* Mutant: one failed source empties the channel.
LiveAllOrNothing ==
    IF \E p \in Providers : call[p] \in LiveFlags THEN {} ELSE UNION {HitsOf(p) : p \in Answered}

LiveHits == UNION {HitsOf(p) : p \in Answered}

\* passesSourceFilter.
Passes(h) ==
    \/ request.sources = {}
    \/ h.channel = "local" /\ "local" \in request.sources
    \/ h.channel = "live" /\ AdapterOf[h.key] \in request.sources

\* Mutant: the hit that was there first is kept.
LiveWritten(h, g) ==
    h.channel = "live" /\ (g.channel = "local" \/ g.from > h.from)

\* byKey: h is written after g under the same key; the live hits first, in the
\* order of their sources, then the local ones.
WrittenAfter(h, g) ==
    \/ h.channel = "local" /\ g.channel = "live"
    \/ h.channel = "live" /\ g.channel = "live" /\ h.from > g.from

\* mergeLocalLiveV1.
Merged ==
    LET passing == {h \in LocalHits \cup LiveHits : Passes(h)}
    IN {h \in passing : \A g \in passing \ {h} : g.key = h.key => WrittenAfter(h, g)}

\* Whichever hits rank first.
CutTo(n, S) == kSubset(IF Cardinality(S) < n THEN Cardinality(S) ELSE n, S)

FlagsOfCalls == {call[p] : p \in Providers} \cap LiveFlags

\* Mutant: the live flags too are only for who asks for evidence.
FlagsWithEvidence ==
    IF request.includeEvidence THEN local.degraded \cup FlagsOfCalls ELSE {}

\* The store's flags are only for who asks for evidence; those of the sources
\* are always there.
ResultFlags ==
    IF request.includeEvidence THEN local.degraded \cup FlagsOfCalls ELSE FlagsOfCalls

\* Mutant: the store's word stands whenever it has hits.
LocalEvidence(items) ==
    IF items = {} THEN "none" ELSE IF local.evidence # None THEN local.evidence ELSE "weak"

\* mergeToSearchResult: the store's word, but "weak" once a source had hits,
\* also hits the filter dropped.
EvidenceFor(items) ==
    IF items = {} THEN "none"
    ELSE IF LiveHits = {} /\ local.evidence # None THEN local.evidence ELSE "weak"

Returns(items, evidence) ==
    /\ phase' = "returned"
    /\ result' = [items |-> items, degraded |-> ResultFlags,
                  evidence |-> IF request.includeEvidence THEN evidence ELSE None]
    /\ UNCHANGED <<request, mounted, local, backend, call, hits>>

\* No source is mounted: the store's answer as it is.
ReturnLocal ==
    /\ phase = "live"
    /\ \A p \in Providers : mounted[p] = "absent"
    /\ Returns(LocalHits, IF local.evidence = None THEN "none" ELSE local.evidence)

ReturnMerged ==
    /\ phase = "live" /\ AllSettled
    /\ \E p \in Providers : mounted[p] # "absent"
    /\ \E items \in CutTo(Limit, Merged) : Returns(items, EvidenceFor(items))

-----------------------------------------------------------------------------

FInit ==
    /\ request \in Requests
    /\ mounted \in [Providers -> {"absent", "plain", "live"}]
    /\ phase = "local"
    /\ local = NoLocal
    /\ backend = [p \in Providers |-> "unasked"]
    /\ call = [p \in Providers |-> "unasked"]
    /\ hits = [p \in Providers |-> {}]
    /\ result = None

SearchStep == LocalAnswers \/ LocalFails \/ ReturnLocal \/ ReturnMerged

SourceStep == \E p \in Providers : SourceAnswers(p) \/ SourceFails(p)

FNext == SearchStep \/ SourceStep \/ \E p \in Providers : TimerFires(p)

\* The store's call ends, timers fire; a source may never answer.
FSpec ==
    /\ FInit /\ [][FNext]_fvars
    /\ WF_fvars(SearchStep)
    /\ \A p \in Providers : WF_fvars(TimerFires(p))

-----------------------------------------------------------------------------
(* Properties.                                                             *)

HitType == [channel : {"local", "live"}, key : Keys, from : Providers \cup {None}]

\* The shape of every variable; a result is never longer than the limit.
FTypeOK ==
    /\ request \in Requests
    /\ mounted \in [Providers -> {"absent", "plain", "live"}]
    /\ phase \in {"local", "live", "returned", "failed"}
    /\ local.hits \subseteq Keys
    /\ backend \in [Providers -> {"unasked", "running", "ended"}]
    /\ call \in [Providers -> {"unasked", "pending", "answered"} \cup LiveFlags]
    /\ hits \in [Providers -> SUBSET Keys]
    /\ result # None => phase = "returned"
    /\ result # None =>
         /\ result.items \subseteq HitType /\ Cardinality(result.items) <= Limit
         /\ result.degraded \subseteq LiveFlags \cup {"dense_unavailable"}
         /\ result.evidence \in Evidences \cup {None}

\* One hit per adapter and reference, and the stored document before its live
\* copy, whatever the sources found and in whatever order they answered ("on
\* collision, prefer local", merge-local-live.ts).
LocalWins ==
    result # None =>
        /\ \A h, g \in result.items : h.key = g.key => h = g
        /\ \A h \in result.items : h.channel = "live" => h.key \notin local.hits

\* "strong" is said only of a result that is the store's own, of which the store
\* said it.
StrongIsLocal ==
    result # None /\ result.evidence = "strong" =>
        /\ local.evidence = "strong"
        /\ \A h \in result.items : h.channel = "local"

\* Every variable has its shape, with no result longer than its limit; the
\* store's copy of a hit is the one in it, and "strong" is of the store alone.
FederatedInv == FTypeOK /\ LocalWins /\ StrongIsLocal

\* A search that returns without the hits of a source it asked says so, asked
\* for evidence or not, and says it only then; what ended after the search had
\* its answer changes neither.
SaysWhatFailed ==
    result # None =>
        result.degraded \cap LiveFlags =
            {f \in LiveFlags : \E p \in Asked : call[p] = f}

\* A source that fails or is too late takes nobody else's hits with it: every
\* hit of the store and of the sources that answered is in the result under its
\* key, unless the filter names others or the result is full.
FailureIsContained ==
    result # None =>
        \A h \in LocalHits \cup UNION {HitsOf(p) : p \in Answered} :
            \/ ~Passes(h)
            \/ Cardinality(result.items) = Limit
            \/ \E g \in result.items : g.key = h.key

\* Every search returns or fails, though a source may never answer.
SearchEnds == phase \in {"local", "live"} ~> phase \in {"returned", "failed"}

(* What the documentation says and the code does not keep.                 *)

\* "Search falls back to Postgres full-text search and says so in a `degraded`
\* field" (README.md): a search hands on what the store said of itself.
SearchSaysSo == result # None => local.degraded \subseteq result.degraded
=============================================================================
