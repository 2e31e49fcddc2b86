------------------------------ MODULE Timeline ------------------------------
(***************************************************************************)
(* The other read of the corpus of HybridSearch: the list of a tenant's    *)
(* recent documents (listTimelineEvents, src/services/timeline.ts).  One   *)
(* statement reads a window of the newest active versions with the tags of *)
(* their documents; then the rows are put to the grant store one tag at a  *)
(* time, while versions are captured and retired, documents retagged and   *)
(* grants given and taken.                                                 *)
(*                                                                         *)
(* A caller either searches or lists.  The generation is live.             *)
(***************************************************************************)
EXTENDS HybridSearch

CONSTANTS Tags,       \* access tags
          Own,        \* versions whose created_by_principal_id is the caller
          Held,       \* visibleTags: what the call itself proves the caller holds
          FirstTags,  \* the tags each document has when the list begins
          Limit, TimelineOverfetch

ASSUME TimelineAssumption ==
    /\ Own \subseteq Versions /\ Held \subseteq Tags
    /\ None \notin Tags /\ Tags \cap Versions = {}
    /\ FirstTags \in [Docs -> SUBSET Tags]
    /\ Limit \in Nat \ {0} /\ TimelineOverfetch \in Nat \ {0}

VARIABLES call,       \* "search" or "list"
          grantStore, \* whether the host mounts one
          tags,       \* access_tags of each document
          granted,    \* tags on which the store allows the caller "search"
          step,       \* the list: "read", "filter", "listed", "failed"
          page,       \* the rows it read: [version, tags], newest first
          next, left, \* the row it is at, and the tags of it still to be asked
          events,     \* the rows found visible
          steady,     \* (what happened) <<d, r>>: reason r to show d held all along
          lately      \* (what happened) tags granted at some time since the read

listVars == <<step, page, next, left, events>>
accessVars == <<tags, granted, steady, lately>>
rvars == <<svars, call, grantStore, accessVars, listVars>>

FetchLimit == Limit * TimelineOverfetch

\* Why the caller may see a document: he created its active version, or it bears
\* a tag he holds or is granted.
Reasons(d, A, T, G) ==
    {t \in T[d] : t \in Held \/ (grantStore /\ t \in G)}
        \cup {v \in A \cap Own : DocOf[v] = d}

\* The reasons there are, of the documents that have an active version.
Shown(A, T, G) == UNION {{d} \X Reasons(d, A, T, G) : d \in {DocOf[v] : v \in A}}

-----------------------------------------------------------------------------
(* What happens beside the list.                                           *)

Watch ==
    /\ steady' = steady \cap Shown(active', tags', granted')
    /\ lately' = lately \cup granted'

Beside ==
    /\ call = "list" /\ step \in {"read", "filter"}
    /\ UNCHANGED <<call, grantStore, listVars>>

\* A capture of new content writes the document's tags anew.
Recapture(v) ==
    /\ Beside
    /\ Capture(v)
    /\ \E T \in SUBSET Tags : tags' = [tags EXCEPT ![DocOf[v]] = T]
    /\ UNCHANGED granted
    /\ Watch

Withdraw(v) ==
    /\ Beside
    /\ Retire(v)
    /\ UNCHANGED <<tags, granted>>
    /\ Watch

\* The host's store gains or loses a grant.  One of a tag the caller holds says
\* nothing new.
Regrant(t) ==
    /\ Beside
    /\ Change
    /\ granted' \in {granted \cup {t}, granted \ {t}} \ {granted}
    /\ UNCHANGED <<active, vec, supports, wasActive, tags>>
    /\ Watch

-----------------------------------------------------------------------------
(* The list.                                                               *)

\* ORDER BY occurred_at DESC LIMIT: rows that are as old come in any order.
Newest(s) == \A i, j \in DOMAIN s : When[s[i]] > When[s[j]] => i < j

ListRead ==
    /\ step = "read"
    /\ \E s \in SetToSeqs(active) :
        /\ Newest(s)
        /\ page' = [i \in 1..Least(FetchLimit, Len(s)) |->
                       [version |-> s[i], tags |-> tags[DocOf[s[i]]]]]
    /\ step' = "filter"
    /\ lately' = granted
    /\ UNCHANGED <<next, left, events, tags, granted, steady>>

NextRow(shown) ==
    /\ events' = IF shown THEN Append(events, page[next]) ELSE events
    /\ next' = next + 1
    /\ left' = None

\* Mutant: without a grant store everybody sees everything.
OpenToAll(row) == row.tags \cap Held # {} \/ row.version \in Own \/ ~grantStore

\* What needs no question to the store: a tag the caller holds, his own version.
SeenAtOnce(row) == row.tags \cap Held # {} \/ row.version \in Own

AtRow == step = "filter" /\ next <= Len(page)

\* filterTimelineRows: a row that is seen at once, or withheld where there is no
\* store to ask, or whose tags are now to be asked one by one.
TakeRow ==
    /\ AtRow /\ left = None
    /\ LET row == page[next] IN
        \/ SeenAtOnce(row) /\ NextRow(TRUE)
        \/ /\ ~SeenAtOnce(row) /\ (~grantStore \/ row.tags = {})
           /\ NextRow(FALSE)
        \/ /\ ~SeenAtOnce(row) /\ grantStore /\ row.tags # {}
           /\ left' = row.tags
           /\ UNCHANGED <<events, next>>
    /\ UNCHANGED <<step, page, accessVars>>

\* canAccessDocument: one authorize, in the order the tags have, which is any.
Authorize(t) ==
    /\ AtRow /\ left # None
    /\ t \in left
    /\ \/ t \in granted /\ NextRow(TRUE)
       \/ t \notin granted /\ left = {t} /\ NextRow(FALSE)
       \/ /\ t \notin granted /\ left # {t}
          /\ left' = left \ {t}
          /\ UNCHANGED <<events, next>>
    /\ UNCHANGED <<step, page, accessVars>>

\* Mutant: the rows are cut before they are filtered.
CutFirst(s) == SelectSeq(s, LAMBDA row : row \in ToSet(UpTo(page, Limit)))

\* The limit of the caller.
Cut(s) == UpTo(s, Limit)

ListReturn ==
    /\ step = "filter" /\ next > Len(page)
    /\ events' = Cut(events)
    /\ step' = "listed"
    /\ UNCHANGED <<page, next, left, accessVars>>

\* The statement or the store throws.
ListFails ==
    /\ step \in {"read", "filter"}
    /\ step' = "failed"
    /\ UNCHANGED <<page, next, left, events, accessVars>>

-----------------------------------------------------------------------------

RInit ==
    /\ SInit
    /\ call \in {"search", "list"}
    \* What the one caller's statements do not read is the same to the other.
    /\ call = "list" => engine = [embed |-> FALSE, rerank |-> FALSE] /\ vec = {}
    /\ tags = FirstTags
    /\ IF call = "list"
       THEN grantStore \in BOOLEAN /\ granted \in SUBSET (Tags \ Held)
       ELSE grantStore = FALSE /\ granted = {}
    /\ step = "read"
    /\ page = <<>> /\ events = <<>>
    /\ next = 1 /\ left = None
    /\ steady = Shown(active, tags, granted)
    /\ lately = {}

ListStep ==
    /\ call = "list"
    /\ ListRead \/ TakeRow \/ (\E t \in Tags : Authorize(t)) \/ ListReturn \/ ListFails
    /\ UNCHANGED <<svars, call, grantStore>>

SearchCall == call = "search" /\ SNext /\ UNCHANGED <<call, grantStore, accessVars, listVars>>

RNext ==
    \/ SearchCall
    \/ ListStep
    \/ \E v \in Versions : Recapture(v) \/ Withdraw(v)
    \/ \E t \in Tags \ Held : Regrant(t)

RSpec == RInit /\ [][RNext]_rvars

-----------------------------------------------------------------------------
(* Properties.                                                             *)

\* The shape of every variable.
RTypeOK ==
    /\ call \in {"search", "list"} /\ grantStore \in BOOLEAN
    /\ tags \in [Docs -> SUBSET Tags]
    /\ granted \subseteq Tags /\ lately \subseteq Tags
    /\ step \in {"read", "filter", "listed", "failed"}
    /\ \A s \in {page, events} : s \in Seq([version : Versions, tags : SUBSET Tags])
    /\ Len(page) <= FetchLimit /\ next \in 1..(Len(page) + 1)
    /\ left \in {None} \cup SUBSET Tags
    /\ steady \subseteq Docs \X (Tags \cup Versions)

\* Newest first, and each on a ground the row had as it was read: the caller's own
\* version, a tag he holds, or one the store allowed since.  Grants that come and
\* go between the questions show no other row.
EventsGrounded ==
    /\ \A i, j \in DOMAIN events :
          i < j => When[events[i].version] >= When[events[j].version]
    /\ \A i \in DOMAIN events :
          \/ events[i].version \in Own
          \/ events[i].tags \cap Held # {}
          \/ grantStore /\ events[i].tags \cap lately # {}

\* Both reads: what SearchInv says of a search, and of a list that every variable
\* has its shape and what is listed is in order and on grounds.
ReadInv == SearchInv /\ RTypeOK /\ EventsGrounded

\* A document that one and the same reason showed all through the call is listed,
\* whatever was captured, retagged, granted and revoked meanwhile, unless the
\* list is full, or the window is and the document was not in it.
SteadyIsListed ==
    step = "listed" =>
        \A reason \in steady :
            LET in(s) == \E i \in DOMAIN s : DocOf[s[i].version] = reason[1]
            IN \/ in(events)
               \/ Len(events) = Limit
               \/ Len(page) = FetchLimit /\ ~in(page)
=============================================================================
