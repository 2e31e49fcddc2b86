--------------------------- MODULE DocumentAccess ---------------------------
(***************************************************************************)
(* Who may see a document: the tags an add writes (src/grant-tags.ts), the *)
(* grants a share materializes after the document has committed            *)
(* (src/memory.ts, src/services/share-grants.ts), the filter that search   *)
(* and list apply, and the ownership gate of the retention verbs           *)
(* (src/services/retention-ownership.ts).                                  *)
(*                                                                         *)
(* An add is one transaction for the document and then, when it names      *)
(* peers, one statement for the tag and one call per grant; anything may   *)
(* run between them.  Documents stand for their external refs: none is     *)
(* purged here.  memory.tenant stands for every tag the host grants by     *)
(* itself.                                                                 *)
(***************************************************************************)
EXTENDS Naturals, FiniteSets

CONSTANTS Principals, Docs, Contents,
          Adds,        \* the calls of add
          MaxReplays,  \* bound: documents replays derive again
          None

ASSUME AccessAssumption ==
    /\ MaxReplays \in Nat
    /\ None \notin Principals \cup Contents

VARIABLES host,      \* [stamps, grants]: the store appends tags; grants are writable
          doc,       \* [tags, hash, by, epoch] of each document
          origin,    \* the principal whose add created it
          firsts,    \* the principals of its versions with number 1, of any generation
          raws,      \* [by, tags, kept]: the raw captures it was added by that can be
                     \* replayed; kept: a version of it references this one
          forgotBy,  \* the principal that forgot it
          grants,    \* <<principal, tag>>: an allow for "search"
          call,      \* each add
          replays

docVars == <<doc, origin, firsts, raws, forgotBy>>
avars == <<host, doc, origin, firsts, raws, forgotBy, grants, call, replays>>

OwnerTag(p) == <<"memory.owner", p>>
DocTag(d) == <<"memory.doc", d>>
TenantTag == <<"memory.tenant", None>>

Tags == {OwnerTag(p) : p \in Principals} \cup {DocTag(d) : d \in Docs} \cup {TenantTag}

\* hash, by: of the active live version; hash None: the document has none.
\* epoch counts the captures and replays that wrote the tags.
NoDoc == [tags |-> {}, hash |-> None, by |-> None, epoch |-> 0]

Unused == [at |-> "idle", doc |-> None, by |-> None, peers |-> {}, tenant |-> FALSE,
           left |-> {}, epoch |-> 0, materialized |-> "unset"]

AInit ==
    /\ host \in [stamps : BOOLEAN, grants : BOOLEAN]
    /\ doc = [d \in Docs |-> NoDoc]
    /\ origin = [d \in Docs |-> None]
    /\ firsts = [d \in Docs |-> {}]
    /\ raws = [d \in Docs |-> {}]
    /\ forgotBy = [d \in Docs |-> None]
    /\ grants = {}
    /\ call = [c \in Adds |-> Unused]
    /\ replays = 0

-----------------------------------------------------------------------------
(* The filter.                                                             *)

\* canAccessDocument: the creator of the active version, or a grant on a tag.
CanAccess(p, d) ==
    \/ doc[d].by = p
    \/ \E t \in doc[d].tags : <<p, t>> \in grants

\* retrieve and listTimelineEvents: active documents that pass it.
Sees(p, d) == doc[d].hash # None /\ CanAccess(p, d)

-----------------------------------------------------------------------------
(* The transaction of an add.                                              *)

\* resolveAccessTags.
AddTags(p, peers, tenant) ==
    {OwnerTag(p)} \cup {OwnerTag(q) : q \in peers} \cup (IF tenant THEN {TenantTag} ELSE {})

\* The raw capture of an add.
Raw(p, peers, tenant, kept) == [by |-> p, tags |-> AddTags(p, peers, tenant), kept |-> kept]

\* A share names peers: what follows the transaction.
AfterCommit(c, p, d, peers, tenant) ==
    call' = [call EXCEPT ![c] =
        [at |-> IF peers = {} THEN "answered" ELSE "committed", doc |-> d, by |-> p,
         peers |-> peers, tenant |-> tenant, left |-> peers \ {p}, epoch |-> 0,
         materialized |-> "unset"]]

\* A document no one has added.
Create(c, p, d, h, peers, tenant) ==
    /\ origin[d] = None
    /\ doc' = [doc EXCEPT ![d] = [tags |-> AddTags(p, peers, tenant), hash |-> h,
                                  by |-> p, epoch |-> 1]]
    /\ origin' = [origin EXCEPT ![d] = p]
    /\ firsts' = [firsts EXCEPT ![d] = {p}]
    /\ raws' = [raws EXCEPT ![d] = {Raw(p, peers, tenant, TRUE)}]
    /\ AfterCommit(c, p, d, peers, tenant)

\* The active version has this content: only last_seen_at is written.
NoOp(c, p, d, h, peers, tenant) ==
    /\ doc[d].hash = h
    /\ raws' = [raws EXCEPT ![d] = @ \cup {Raw(p, peers, tenant, FALSE)}]
    /\ AfterCommit(c, p, d, peers, tenant)
    /\ UNCHANGED <<doc, origin, firsts>>

\* A new version: the document's tags are those of this add.
NewVersion(c, p, d, h, peers, tenant) ==
    /\ doc[d].hash \notin {None, h}
    /\ doc' = [doc EXCEPT ![d] = [tags |-> AddTags(p, peers, tenant), hash |-> h,
                                  by |-> p, epoch |-> @.epoch + 1]]
    /\ raws' = [raws EXCEPT ![d] = @ \cup {Raw(p, peers, tenant, TRUE)}]
    /\ AfterCommit(c, p, d, peers, tenant)
    /\ UNCHANGED <<origin, firsts>>

\* With no active version the version number is taken, and the add throws.
Refused(c, d) ==
    /\ origin[d] # None /\ doc[d].hash = None
    /\ call' = [call EXCEPT ![c].at = "failed"]
    /\ UNCHANGED <<doc, origin, firsts, raws>>

Commit(c, p, d, h, peers, tenant) ==
    /\ call[c].at = "idle"
    /\ \/ Create(c, p, d, h, peers, tenant)
       \/ NoOp(c, p, d, h, peers, tenant)
       \/ NewVersion(c, p, d, h, peers, tenant)
       \/ Refused(c, d)
    /\ UNCHANGED <<host, forgotBy, grants, replays>>

-----------------------------------------------------------------------------
(* What an add does after it, for the peers of its share.                  *)

\* appendAccessTags: the union, in one statement.
Stamped(d) == doc[d].tags \cup {DocTag(d)}

Stamp(c) ==
    /\ call[c].at = "committed"
    /\ doc' = IF host.stamps THEN [doc EXCEPT ![call[c].doc].tags = Stamped(call[c].doc)]
              ELSE doc
    /\ call' = [call EXCEPT ![c].at = "stamped", ![c].epoch = doc[call[c].doc].epoch]
    /\ UNCHANGED <<host, origin, firsts, raws, forgotBy, grants, replays>>

\* Mutant: the grant is on the tag of the owner that shares.
GrantOnOwner(c) == OwnerTag(call[c].by)

\* buildShareGrants.
GrantResource(c) == DocTag(call[c].doc)

\* putGrant for one peer.
PutGrant(c, q) ==
    /\ call[c].at = "stamped"
    /\ host.grants
    /\ q \in call[c].left
    /\ grants' = grants \cup {<<q, GrantResource(c)>>}
    /\ call' = [call EXCEPT ![c].left = @ \ {q}]
    /\ UNCHANGED <<host, docVars, replays>>

\* Mutant: a share is materialized when its grants are written.
GrantsWritten == host.grants

Materialized == host.grants /\ host.stamps

Answer(c) ==
    /\ call[c].at = "stamped"
    /\ host.grants => call[c].left = {}
    /\ call' = [call EXCEPT ![c].at = "answered",
                            ![c].materialized = IF Materialized THEN "true" ELSE "false"]
    /\ UNCHANGED <<host, docVars, grants, replays>>

\* A statement or a putGrant throws: caught, and the add answers all the same.
MaterializeFails(c) ==
    /\ call[c].at \in {"committed", "stamped"}
    /\ call' = [call EXCEPT ![c].at = "answered", ![c].materialized = "false"]
    /\ UNCHANGED <<host, docVars, grants, replays>>

-----------------------------------------------------------------------------
(* The host, the replays and the ownership gate.                           *)

HostGrants(p) ==
    /\ grants' = grants \cup {<<p, TenantTag>>}
    /\ UNCHANGED <<host, docVars, call, replays>>

\* A replay derives the document again from one of its raw captures, as the
\* first version of the replay's generation or as a later one; either writes
\* the document's tags.
ReplayDerives(d) ==
    /\ replays < MaxReplays
    /\ replays' = replays + 1
    /\ \E r \in raws[d] :
        /\ doc' = [doc EXCEPT ![d].tags = r.tags, ![d].epoch = @ + 1]
        /\ firsts' \in {firsts, [firsts EXCEPT ![d] = @ \cup {r.by}]}
    /\ UNCHANGED <<host, origin, raws, forgotBy, grants, call>>

\* Mutant: the owner is that of the active version.
ActiveOwner(d) == {doc[d].by}

\* resolveDocumentOwner: of the versions with the lowest number, any.
OwnersOf(d) == firsts[d]

\* tombstoneDocument through its gate: the raw captures of its versions lose
\* their text.
Forget(p, d) ==
    /\ doc[d].hash # None
    /\ p \in OwnersOf(d)
    /\ doc' = [doc EXCEPT ![d].hash = None, ![d].by = None]
    /\ forgotBy' = [forgotBy EXCEPT ![d] = p]
    /\ raws' = [raws EXCEPT ![d] = {r \in @ : ~r.kept}]
    /\ UNCHANGED <<host, origin, firsts, grants, call, replays>>

-----------------------------------------------------------------------------

ANext ==
    \/ \E c \in Adds, p \in Principals, d \in Docs, h \in Contents,
          peers \in SUBSET Principals, tenant \in BOOLEAN :
         Commit(c, p, d, h, peers, tenant)
    \/ \E c \in Adds :
         \/ Stamp(c) \/ Answer(c) \/ MaterializeFails(c)
         \/ \E q \in Principals : PutGrant(c, q)
    \/ \E p \in Principals : HostGrants(p)
    \/ \E d \in Docs : ReplayDerives(d) \/ \E p \in Principals : Forget(p, d)

ASpec == AInit /\ [][ANext]_avars

-----------------------------------------------------------------------------
(* Properties.                                                             *)

\* The shape of every variable.
ATypeOK ==
    /\ host \in [stamps : BOOLEAN, grants : BOOLEAN]
    /\ doc \in [Docs -> [tags : SUBSET Tags, hash : Contents \cup {None},
                         by : Principals \cup {None}, epoch : Nat]]
    /\ origin \in [Docs -> Principals \cup {None}]
    /\ firsts \in [Docs -> SUBSET Principals]
    /\ raws \in [Docs -> SUBSET [by : Principals, tags : SUBSET Tags, kept : BOOLEAN]]
    /\ replays \in Nat
    /\ forgotBy \in [Docs -> Principals \cup {None}]
    /\ grants \subseteq Principals \X Tags
    /\ call \in [Adds -> [at : {"idle", "committed", "stamped", "answered", "failed"},
                          doc : Docs \cup {None}, by : Principals \cup {None},
                          peers : SUBSET Principals, tenant : BOOLEAN,
                          left : SUBSET Principals, epoch : Nat,
                          materialized : {"unset", "true", "false"}]]

\* An add that answers grantsMaterialized has given its peers the document,
\* whatever other adds did between its statements: they see it until a capture
\* writes its tags anew, or it is forgotten.
MaterializedMeansSeen ==
    \A c \in Adds : call[c].materialized = "true" =>
        LET d == call[c].doc
        IN doc[d].hash # None /\ doc[d].epoch = call[c].epoch =>
               \A q \in call[c].peers \ {call[c].by} : Sees(q, d)

\* The principals that added a version of the document, or its content again.
Writers(d) == {call[c].by : c \in {e \in Adds : call[e].doc = d}}

\* No document is seen by one who was not given it: who sees it wrote a version
\* of it, was a peer of a share of it, or holds the tenant's grant on a document
\* some add shared with the tenant.
SeenWasGiven ==
    \A p \in Principals, d \in Docs : Sees(p, d) =>
        \/ p \in Writers(d)
        \/ \E c \in Adds : call[c].doc = d /\ p \in call[c].peers
        \/ /\ <<p, TenantTag>> \in grants
           /\ \E c \in Adds : call[c].doc = d /\ call[c].tenant

\* A share or a later version lets no one else forget a document: while no
\* replay has derived one again, it is forgotten by its creator only
\* (retention-ownership.ts: "it must never let them forget or purge it").
ForgottenByCreator ==
    replays = 0 => \A d \in Docs : forgotBy[d] # None => forgotBy[d] = origin[d]

\* Every variable has its shape, a share answered as materialized is one its
\* peers see, and nobody but its creator forgets a document.
AccessInv == ATypeOK /\ MaterializedMeansSeen /\ ForgottenByCreator

\* "The creating principal always sees their own docs"
\* (docs/AUTHZ-DOCUMENT-ACCESS.md), while the document is there to be seen.
CreatorSees ==
    \A d \in Docs : doc[d].hash # None => Sees(origin[d], d)

\* The tags a share is said to write are written when its add commits
\* (docs/AUTHZ-DOCUMENT-ACCESS.md, "Tags written").
ShareWritesTags ==
    [][\A c \in Adds : call[c].at = "idle" /\ call'[c].at \in {"committed", "answered"} =>
          AddTags(call'[c].by, call'[c].peers, call'[c].tenant)
             \subseteq doc'[call'[c].doc].tags]_avars

\* "Peers can then pass canAccessDocument" (docs/AUTHZ-DOCUMENT-ACCESS.md): once
\* a share is materialized, while the document is there to be seen.
SharedStaysSeen ==
    \A c \in Adds : call[c].materialized = "true" =>
        \A q \in call[c].peers : doc[call[c].doc].hash # None => Sees(q, call[c].doc)

\* "A replayed corpus never touches or is visible alongside the live one"
\* (src/core/generation.ts): a replay changes no one's sight of a document.
ReplayTouchesNothing ==
    [][replays' # replays =>
         \A p \in Principals, d \in Docs : Sees(p, d)' = Sees(p, d)]_avars

\* A document's owner is "stable regardless of which versions are later
\* deprecated, tombstoned, or added" (retention-ownership.ts).
OwnerStable == \A d \in Docs : OwnersOf(d) \subseteq {origin[d]}
=============================================================================
