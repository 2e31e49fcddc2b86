----------------------------- MODULE Distiller -----------------------------
(***************************************************************************)
(* The resident distiller (src/distiller/tick.ts): a host worker that      *)
(* pulls the capture feed from a stored cursor, has its model judge each   *)
(* entry, and adds the claims it writes to the memory it reads from.       *)
(*                                                                         *)
(* The feed is its log of live versions in feed_seq order: an entry's seq  *)
(* is its place in the log, which is what the write path guarantees        *)
(* (module Capture, LogSpec).  Every claim is a document of its own, since *)
(* an add without an external ref makes up a fresh one.  The host ticks    *)
(* one worker and stores the cursor a tick returns.                        *)
(***************************************************************************)
EXTENDS Naturals, Sequences, FiniteSets

CONSTANTS Sources,      \* the versions other writers add, each its document
          Doomed,       \* those whose claim the add refuses every time
          Tags,         \* access tags
          OwnerTag,     \* memory.owner: of the distiller's principal
          TenantTag,    \* memory.tenant: of the tenant
          RunScoped,    \* the distiller adds and reads through the run-scoped mount
          PageLimit,
          MaxClaims,    \* bound: claims the model wants
          MaxFailures,  \* bound: ticks that end by a fault
          MaxChanges    \* bound: changes of tags, grants and status by others

ASSUME DistillerAssumption ==
    /\ Doomed \subseteq Sources
    /\ {OwnerTag, TenantTag} \subseteq Tags
    /\ RunScoped \in BOOLEAN
    /\ PageLimit \in Nat \ {0}
    /\ {MaxClaims, MaxFailures, MaxChanges} \subseteq Nat

VARIABLES log,       \* the live versions, in feed_seq order
          hidden,    \* those whose status has left the feed
          held,      \* tags the distiller's principal holds a search grant on
          cursor,    \* the cursor the host stored last
          tick,      \* the tick under way
          handled,   \* entries a tick skipped, set aside or wrote a claim for
          denied,    \* entries the access filter kept from a page
          failures, changes

worldVars == <<log, hidden, held, changes>>
dvars == <<log, hidden, held, cursor, tick, handled, denied, failures, changes>>

\* own: the version carries the distiller's generator_agent_id.  from: the version
\* a claim derives from.
Entry == [claim: BOOLEAN, own: BOOLEAN, from: Nat, doc: Sources \cup {"claim"},
          tags: SUBSET Tags]

Idle == [at |-> "idle", left |-> {}, tags |-> [n \in {} |-> {}], next |-> 0]

DInit ==
    /\ log = <<>>
    /\ hidden = {}
    /\ held \in SUBSET Tags       \* what the host granted it before
    /\ cursor = 0
    /\ tick = Idle
    /\ handled = {} /\ denied = {}
    /\ failures = 0 /\ changes = 0

Seqs == DOMAIN log

-----------------------------------------------------------------------------
(* What others do to the memory while the distiller runs.                  *)

\* Another writer's version commits, under the tags its writer chose.
OtherAdds(s, T) ==
    /\ \A n \in Seqs : log[n].doc # s
    /\ log' = Append(log, [claim |-> FALSE, own |-> FALSE, from |-> 0, doc |-> s, tags |-> T])
    /\ UNCHANGED <<hidden, held, changes, cursor, tick, handled, denied, failures>>

Change ==
    /\ changes < MaxChanges
    /\ changes' = changes + 1
    /\ UNCHANGED <<cursor, tick, handled, denied, failures>>

\* A document's tags are replaced or widened.
Retag(n, T) ==
    /\ Change
    /\ ~log[n].claim
    /\ log' = [log EXCEPT ![n].tags = T]
    /\ UNCHANGED <<hidden, held>>

\* The version is deprecated or tombstoned.
Retire(n) ==
    /\ Change
    /\ hidden' = hidden \cup {n}
    /\ UNCHANGED <<log, held>>

\* The host grants or revokes a tag.
SetGrants(T) ==
    /\ Change
    /\ held' = T
    /\ UNCHANGED <<log, hidden>>

-----------------------------------------------------------------------------
(* A page of the feed.                                                     *)

\* Mutant: the cursor names the first entry of the next page.
EligibleAtCursor == {n \in Seqs : n >= cursor /\ n \notin hidden /\ ~log[n].own}

\* fetchFeed: visible, after the cursor, not of the generator that asks.
Eligible == {n \in Seqs : n > cursor /\ n \notin hidden /\ ~log[n].own}

\* teamTags: what a run reads without a grant, through the run-scoped mount.
TeamTags == IF RunScoped THEN {TenantTag} ELSE {}

\* The document filter: the principal created it, holds one of its tags, or
\* reads its own tenant's shared documents.
MayRead(n) ==
    \/ log[n].claim
    \/ log[n].tags \cap held # {}
    \/ log[n].tags \cap TeamTags # {}

\* Mutant: the cursor comes from the last entry the filter let through.
LastAllowed(raw) ==
    IF \E n \in raw : MayRead(n)
    THEN CHOOSE n \in raw : MayRead(n) /\ \A m \in raw : MayRead(m) => m <= n
    ELSE cursor

\* feedPageAfterAccessFilter: the cursor comes from the raw page.
NextCursor(raw) == CHOOSE n \in raw : \A m \in raw : m <= n

\* A tick begins: the first PageLimit eligible entries, filtered, with the tags
\* their documents have now.  (A tick over no entries changes nothing.)
ReadPage ==
    /\ tick.at = "idle"
    /\ \E last \in Eligible :
        LET raw == {n \in Eligible : n <= last}
        IN /\ Cardinality(raw) <= PageLimit
           /\ raw # Eligible => Cardinality(raw) = PageLimit
           /\ tick' = [at |-> "judging", left |-> {n \in raw : MayRead(n)},
                       tags |-> [n \in raw |-> log[n].tags], next |-> NextCursor(raw)]
           /\ denied' = denied \cup {n \in raw : ~MayRead(n)}
    /\ UNCHANGED <<worldVars, cursor, handled, failures>>

-----------------------------------------------------------------------------
(* The loop over the page.                                                 *)

First(n) == n \in tick.left /\ \A m \in tick.left : n <= m

Done(n) ==
    /\ handled' = handled \cup {n}
    /\ tick' = [tick EXCEPT !.left = @ \ {n}, !.at = "judging"]

\* Its own write, or the model skips it, poisons it or throws.
SetAside(n) ==
    /\ tick.at = "judging"
    /\ First(n)
    /\ Done(n)
    /\ UNCHANGED <<worldVars, cursor, denied, failures>>

\* shouldProcessFeedEntry, and the model wants a claim: the add is sent.
WriteClaim(n) ==
    /\ tick.at = "judging"
    /\ First(n)
    /\ ~log[n].own
    /\ Cardinality({m \in Seqs : log[m].claim}) < MaxClaims
    /\ tick' = [tick EXCEPT !.at = "adding"]
    /\ UNCHANGED <<worldVars, cursor, handled, denied, failures>>

\* What resolveAccessTags adds to the tags it is sent; the run-scoped mount shares
\* every add with the tenant.
AddedTags == {OwnerTag} \cup (IF RunScoped THEN {TenantTag} ELSE {})

\* Mutant: the claim does not carry the distiller's generator id.
ClaimUnattributed(n) ==
    [claim |-> TRUE, own |-> FALSE, from |-> n, doc |-> "claim",
     tags |-> tick.tags[n] \cup AddedTags]

\* buildDistilledClaim, and the document the add makes of it.
Claim(n) ==
    [claim |-> TRUE, own |-> TRUE, from |-> n, doc |-> "claim",
     tags |-> tick.tags[n] \cup AddedTags]

Failed ==
    /\ failures < MaxFailures
    /\ failures' = failures + 1
    /\ tick' = Idle

\* The claim commits, and the answer reaches the tick or is lost.
AddCommits(n) ==
    /\ tick.at = "adding"
    /\ First(n)
    /\ log[n].doc \notin Doomed
    /\ log' = Append(log, Claim(n))
    /\ \/ Done(n) /\ UNCHANGED failures
       \/ Failed /\ UNCHANGED handled
    /\ UNCHANGED <<hidden, held, changes, cursor, denied>>

\* The add is refused: the tick throws, and the next one starts over.
AddRefused(n) ==
    /\ tick.at = "adding"
    /\ First(n)
    /\ log[n].doc \in Doomed
    /\ tick' = Idle
    /\ UNCHANGED <<worldVars, cursor, handled, denied, failures>>

\* The worker dies, or a call does not come through.
TickFails ==
    /\ tick.at # "idle"
    /\ Failed
    /\ UNCHANGED <<worldVars, cursor, handled, denied>>

\* Mutant: the cursor is stored though entries of the page are left.
PageLeft == TRUE

PageDone == tick.left = {}

\* The tick returns, and the host stores its cursor.
TickEnd ==
    /\ tick.at = "judging"
    /\ PageDone
    /\ cursor' = tick.next
    /\ tick' = Idle
    /\ UNCHANGED <<worldVars, handled, denied, failures>>

-----------------------------------------------------------------------------

TickStep ==
    \/ ReadPage
    \/ \E n \in Seqs : SetAside(n) \/ WriteClaim(n) \/ AddCommits(n) \/ AddRefused(n)
    \/ TickEnd

DNext ==
    \/ \E s \in Sources, T \in SUBSET (Tags \ {OwnerTag}) : OtherAdds(s, T)
    \/ \E n \in Seqs : Retire(n) \/ \E T \in SUBSET (Tags \ {OwnerTag}) : Retag(n, T)
    \/ \E T \in SUBSET Tags : SetGrants(T)
    \/ TickStep
    \/ TickFails

DSpec == DInit /\ [][DNext]_dvars

\* The host ticks again and again, and a tick runs to its end.
DFairSpec == DSpec /\ WF_dvars(TickStep)

-----------------------------------------------------------------------------
(* Properties.                                                             *)

\* The shape of every variable.
DTypeOK ==
    /\ log \in Seq(Entry)
    /\ hidden \subseteq Seqs
    /\ held \subseteq Tags
    /\ cursor \in Nat
    /\ tick.at \in {"idle", "judging", "adding"}
    /\ tick.at = "adding" => tick.left # {}
    /\ tick.left \subseteq DOMAIN tick.tags
    /\ DOMAIN tick.tags \subseteq Seqs
    /\ \A n \in DOMAIN tick.tags : tick.tags[n] \subseteq Tags
    /\ tick.next \in Nat
    /\ handled \subseteq Seqs
    /\ denied \subseteq Seqs
    /\ failures \in Nat /\ changes \in Nat

\* At least once: what a stored cursor has passed was judged, kept back by the
\* access filter, retired, or written by the distiller, wherever ticks failed.
NothingLost ==
    \A n \in Seqs : n <= cursor =>
        n \in handled \cup denied \cup hidden \/ log[n].own

\* The distiller never distills what it wrote: every claim derives from a
\* version of another writer (docs/FEED.md, "loop-safe").
ClaimsFromOthers ==
    \A n \in Seqs : log[n].claim => ~log[log[n].from].claim

\* Every variable has its shape, no stored cursor has passed a version that
\* nobody dealt with, and no claim is made of a claim.
DistillerInv == DTypeOK /\ NothingLost /\ ClaimsFromOthers

ClaimsOf(n) == {c \in Seqs : log[c].claim /\ log[c].from = n}

\* A tick that failed is done over from its first entry, adds that came through
\* included: a version is claimed once and once more for each tick that failed,
\* unless an entry after it is one whose claim the add refuses every time
\* (runDistillTick returns the cursor only when every add has come through).
ClaimedOncePerFault ==
    \A n \in Seqs :
        Cardinality(ClaimsOf(n)) > 1 + failures =>
            \E d \in Seqs : d > n /\ log[d].doc \in Doomed

Passed(s) == \E n \in Seqs : log[n].doc = s /\ (n <= cursor \/ n \in hidden)

\* Every version of another writer is passed in the end or retired, also those
\* no principal but its writer may read (docs/FEED.md: a denied page must not
\* stall the consumer), while the add refuses the claim of none in the feed.
FeedDrained ==
    \A s \in Sources :
        (\E n \in Seqs : log[n].doc = s)
          ~> Passed(s) \/ \E n \in Seqs : log[n].doc \in Doomed

(* What the comments say and the code does not keep.                       *)

\* "Access tags must be <= source entry tags - never widen" (claim.ts): beside
\* its owner's tag, which every document has, a claim is added with no tag that
\* its source does not have.
ClaimsNeverWiden ==
    [][\A c \in Seqs' \ Seqs :
          log'[c].claim => log'[c].tags \subseteq log[log'[c].from].tags \cup {OwnerTag}]_dvars

\* "So a poison entry cannot block the feed forever" (claim.ts): the same, when
\* some claims are refused by the add.
NoEntryBlocksFeed ==
    \A s \in Sources : (\E n \in Seqs : log[n].doc = s) ~> Passed(s)
=============================================================================
