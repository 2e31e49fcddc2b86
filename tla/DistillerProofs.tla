--------------------------- MODULE DistillerProofs ---------------------------
(***************************************************************************)
(* That nothing is lost between the feed and the distiller, that it makes  *)
(* no claim of a claim, and that it repeats a claim only for a tick that   *)
(* failed, for any feed, grants, page size and number of failures.         *)
(*                                                                         *)
(* The argument: up to the last entry of the page in hand, every entry is  *)
(* dealt with or still left to the tick (PageCovered), so that the cursor  *)
(* may be stored once none is left; and the entry whose claim is being     *)
(* added is another writer's (AddingAnothers), whatever was retagged or    *)
(* granted since the page was read.  For the repeats: a version the tick   *)
(* has not come to, counting from the stored cursor, has no more claims    *)
(* than ticks failed, and any other has one more at most (ClaimsCounted).  *)
(***************************************************************************)
EXTENDS Distiller, FiniteSetTheorems, TLAPS

\* A record with the fields of a tick.
TickShape == tick = [at |-> tick.at, left |-> tick.left, tags |-> tick.tags,
                     next |-> tick.next]

\* The entries that need no tick any more.
DealtWith(n) == n \in handled \cup denied \cup hidden \/ log[n].own

\* What the distiller wrote has its id, and derives from an entry before it.
ClaimsAreOwn ==
    \A n \in Seqs : log[n].claim => log[n].own /\ log[n].from \in Seqs

PageCovered ==
    /\ cursor <= Len(log)
    /\ tick.at # "idle" =>
         /\ tick.next <= Len(log)
         /\ \A n \in Seqs : n <= tick.next => DealtWith(n) \/ n \in tick.left

AddingAnothers == tick.at = "adding" => \A n \in Seqs : First(n) => ~log[n].own

\* The inductive invariant.
DInv ==
    /\ DTypeOK /\ TickShape
    /\ ClaimsAreOwn /\ ClaimsFromOthers
    /\ NothingLost /\ PageCovered /\ AddingAnothers

USE DistillerAssumption

\* How the log may grow: by one entry at its end, the others keeping all but
\* their tags.
Grown(e) ==
    /\ log' \in Seq(Entry)
    /\ Len(log') = Len(log) + 1
    /\ \A n \in Seqs : log'[n] = log[n]
    /\ log'[Len(log) + 1] = e

LEMMA Growth ==
    ASSUME log \in Seq(Entry), NEW e \in Entry, log' = Append(log, e)
    PROVE  Grown(e)
BY DEF Grown, Seqs

LEMMA InitDInv == DInit => DInv
BY DEF DInit, DInv, DTypeOK, TickShape, ClaimsAreOwn, ClaimsFromOthers, NothingLost,
       PageCovered, AddingAnothers, Seqs, Idle

\* Whatever entry is appended, what was known of the others stays so.
LEMMA GrowthKeeps ==
    ASSUME DInv, NEW e \in Entry, log' = Append(log, e),
           e.claim => e.own /\ e.from \in Seqs /\ ~log[e.from].claim,
           hidden' = hidden, denied' = denied, cursor' = cursor,
           handled \subseteq handled'
    PROVE  /\ Grown(e) /\ Seqs \subseteq Seqs'
           /\ ClaimsAreOwn' /\ ClaimsFromOthers' /\ NothingLost'
           /\ cursor' <= Len(log')
           /\ \A n \in Seqs : DealtWith(n) => DealtWith(n)'
<1>1. Grown(e)
  BY Growth DEF DInv, DTypeOK
<1>2. /\ Len(log) \in Nat /\ Seqs = 1..Len(log) /\ Seqs' = 1..(Len(log) + 1)
      /\ cursor \in Nat
  BY <1>1 DEF DInv, DTypeOK, Seqs, Grown
<1>3. Seqs \subseteq Seqs' /\ cursor' <= Len(log')
  BY <1>1, <1>2 DEF DInv, PageCovered, Grown
<1>4. ClaimsAreOwn' /\ ClaimsFromOthers'
  <2> SUFFICES ASSUME NEW n \in Seqs', log'[n].claim
               PROVE  log'[n].own /\ log'[n].from \in Seqs' /\ ~log'[log'[n].from].claim
    BY DEF ClaimsAreOwn, ClaimsFromOthers
  <2>1. CASE n \in Seqs
    <3>1. log'[n] = log[n]
      BY <2>1, <1>1 DEF Grown
    <3>2. log[n].own /\ log[n].from \in Seqs /\ ~log[log[n].from].claim
      BY <2>1, <3>1 DEF DInv, ClaimsAreOwn, ClaimsFromOthers
    <3>3. log'[log[n].from] = log[log[n].from]
      BY <3>2, <1>1 DEF Grown
    <3> QED
      BY <3>1, <3>2, <3>3, <1>3
  <2>2. CASE n = Len(log) + 1
    BY <2>2, <1>1, <1>3 DEF Grown
  <2> QED
    BY <2>1, <2>2, <1>2
<1>5. \A n \in Seqs : DealtWith(n) => DealtWith(n)'
  BY <1>1 DEF DealtWith, Grown
<1>6. NothingLost'
  <2> SUFFICES ASSUME NEW n \in Seqs', n <= cursor'
               PROVE  DealtWith(n)'
    BY DEF NothingLost, DealtWith
  <2>1. n \in Seqs /\ n <= cursor
    BY <1>2 DEF DInv, PageCovered
  <2> QED
    BY <2>1, <1>5 DEF DInv, NothingLost, DealtWith
<1> QED
  BY <1>1, <1>3, <1>4, <1>5, <1>6

LEMMA OtherAddsDInv ==
    ASSUME DInv, NEW s \in Sources, NEW T \in SUBSET (Tags \ {OwnerTag}), OtherAdds(s, T)
    PROVE  DInv'
<1> DEFINE e == [claim |-> FALSE, own |-> FALSE, from |-> 0, doc |-> s, tags |-> T]
<1>1. e \in Entry /\ log' = Append(log, e) /\ ~e.claim
  BY DEF Entry, OtherAdds
<1>2. UNCHANGED <<hidden, held, changes, cursor, tick, handled, denied, failures>>
  BY DEF OtherAdds
<1> HIDE DEF e
<1>3. /\ Grown(e) /\ Seqs \subseteq Seqs'
      /\ ClaimsAreOwn' /\ ClaimsFromOthers' /\ NothingLost'
      /\ cursor' <= Len(log')
      /\ \A n \in Seqs : DealtWith(n) => DealtWith(n)'
  BY <1>1, <1>2, GrowthKeeps
<1>4. DTypeOK' /\ TickShape'
  BY <1>2, <1>3 DEF DInv, DTypeOK, TickShape, Grown
<1>5. PageCovered' /\ AddingAnothers'
  <2>1. /\ Len(log) \in Nat /\ Seqs = 1..Len(log) /\ tick.left \subseteq Seqs
        /\ tick.next \in Nat /\ Seqs' = 1..(Len(log) + 1)
    BY <1>3 DEF DInv, DTypeOK, Seqs, Grown
  <2>2. PageCovered'
    BY <1>2, <1>3, <2>1 DEF DInv, PageCovered, Grown
  <2>3. \A n : First(n)' => First(n) /\ n \in Seqs
    BY <1>2, <2>1 DEF First
  <2>4. AddingAnothers'
    BY <1>2, <1>3, <2>3 DEF DInv, AddingAnothers, Grown
  <2> QED
    BY <2>2, <2>4
<1> QED
  BY <1>3, <1>4, <1>5 DEF DInv

\* What others do to an entry leaves it theirs, and retires it at most.
LEMMA ChangesDInv ==
    ASSUME DInv,
           \/ \E n \in Seqs : Retire(n) \/ \E T \in SUBSET (Tags \ {OwnerTag}) : Retag(n, T)
           \/ \E T \in SUBSET Tags : SetGrants(T)
    PROVE  DInv'
<1>1. /\ UNCHANGED <<cursor, tick, handled, denied, failures>>
      /\ changes \in Nat /\ changes' = changes + 1
  BY DEF Retire, Retag, SetGrants, Change, DInv, DTypeOK
<1>2. /\ log' \in Seq(Entry) /\ Len(log') = Len(log) /\ Seqs' = Seqs
      /\ \A n \in Seqs : /\ log'[n].own = log[n].own /\ log'[n].claim = log[n].claim
                         /\ log'[n].from = log[n].from
      /\ hidden \subseteq hidden' /\ hidden' \subseteq Seqs
      /\ held' \subseteq Tags
  <2>1. CASE \E n \in Seqs : Retire(n)
    BY <2>1 DEF Retire, DInv, DTypeOK, Seqs
  <2>2. CASE \E n \in Seqs : \E T \in SUBSET (Tags \ {OwnerTag}) : Retag(n, T)
    <3>1. PICK n \in Seqs, T \in SUBSET (Tags \ {OwnerTag}) : Retag(n, T)
      BY <2>2
    <3>2. log \in Seq(Entry) /\ Seqs = 1..Len(log) /\ log[n] \in Entry
      BY DEF DInv, DTypeOK, Seqs
    <3>3. [log[n] EXCEPT !.tags = T] \in Entry
      BY <3>2 DEF Entry
    <3>4. /\ log' = [log EXCEPT ![n] = [log[n] EXCEPT !.tags = T]]
          /\ UNCHANGED <<hidden, held>>
      BY <3>1 DEF Retag
    <3>5. log' \in Seq(Entry) /\ Len(log') = Len(log) /\ DOMAIN log' = DOMAIN log
      BY <3>2, <3>3, <3>4
    <3>6. \A m \in Seqs : /\ log'[m].own = log[m].own /\ log'[m].claim = log[m].claim
                          /\ log'[m].from = log[m].from
      BY <3>2, <3>4 DEF Entry
    <3> QED
      BY <3>4, <3>5, <3>6 DEF Seqs, DInv, DTypeOK
  <2>3. CASE \E T \in SUBSET Tags : SetGrants(T)
    BY <2>3 DEF SetGrants, DInv, DTypeOK, Seqs
  <2> QED
    BY <2>1, <2>2, <2>3
<1>3. DTypeOK' /\ TickShape'
  BY <1>1, <1>2 DEF DInv, DTypeOK, TickShape
<1>4. ClaimsAreOwn' /\ ClaimsFromOthers'
  BY <1>2 DEF DInv, ClaimsAreOwn, ClaimsFromOthers
<1>5. NothingLost' /\ PageCovered'
  BY <1>1, <1>2 DEF DInv, NothingLost, PageCovered, DealtWith
<1>6. AddingAnothers'
  BY <1>1, <1>2 DEF DInv, AddingAnothers, First
<1> QED
  BY <1>3, <1>4, <1>5, <1>6 DEF DInv
-----------------------------------------------------------------------------
(* The steps of a tick.                                                    *)

LEMMA ReadPageDInv ==
    ASSUME DInv, ReadPage
    PROVE  DInv'
<1>1. PICK last \in Eligible :
        LET raw == {n \in Eligible : n <= last}
        IN /\ tick' = [at |-> "judging", left |-> {n \in raw : MayRead(n)},
                       tags |-> [n \in raw |-> log[n].tags], next |-> NextCursor(raw)]
           /\ denied' = denied \cup {n \in raw : ~MayRead(n)}
  BY DEF ReadPage
<1> DEFINE raw == {n \in Eligible : n <= last}
<1>2. UNCHANGED <<log, hidden, held, changes, cursor, handled, failures>>
  BY DEF ReadPage, worldVars
<1>3. /\ log \in Seq(Entry) /\ Seqs = 1..Len(log) /\ Len(log) \in Nat
      /\ \A n \in Seqs : log[n].tags \subseteq Tags
  <2>1. log \in Seq(Entry) /\ Seqs = 1..Len(log) /\ Len(log) \in Nat
    BY DEF DInv, DTypeOK, Seqs
  <2>2. \A n \in Seqs : log[n] \in Entry
    BY <2>1
  <2> QED
    BY <2>1, <2>2 DEF Entry
<1>4. last \in Seqs /\ raw \subseteq Seqs /\ last \in raw
  BY <1>3 DEF Eligible
<1>5. NextCursor(raw) = last
  <2>1. \A n \in raw : n <= last
    OBVIOUS
  <2>2. \A n \in raw : (\A m \in raw : m <= n) => n = last
    BY <2>1, <1>3, <1>4
  <2> QED
    BY <1>4, <2>1, <2>2 DEF NextCursor
<1>6. /\ tick'.at = "judging" /\ tick'.left = {n \in raw : MayRead(n)}
      /\ tick'.tags = [n \in raw |-> log[n].tags] /\ tick'.next = last
      /\ denied' = denied \cup {n \in raw : ~MayRead(n)}
      /\ TickShape'
  BY <1>1, <1>5 DEF TickShape
<1> HIDE DEF raw
<1>7. DTypeOK'
  BY <1>2, <1>3, <1>4, <1>6 DEF DInv, DTypeOK, Seqs
<1>8. ClaimsAreOwn' /\ ClaimsFromOthers' /\ NothingLost'
  BY <1>2, <1>6 DEF DInv, ClaimsAreOwn, ClaimsFromOthers, NothingLost, Seqs
<1>9. PageCovered'
  <2>1. \A n \in Seqs : n <= last => DealtWith(n)' \/ n \in tick'.left
    <3> SUFFICES ASSUME NEW n \in Seqs, n <= last
                 PROVE  DealtWith(n)' \/ n \in tick'.left
      OBVIOUS
    <3>1. CASE n <= cursor
      BY <3>1, <1>2, <1>6 DEF DInv, NothingLost, DealtWith
    <3>2. CASE n > cursor /\ n \in Eligible
      BY <3>2, <1>6 DEF raw, DealtWith
    <3>3. CASE n > cursor /\ n \notin Eligible
      BY <3>3, <1>2 DEF Eligible, DealtWith
    <3>4. n <= cursor \/ n > cursor
      BY <1>3 DEF DInv, DTypeOK
    <3> QED
      BY <3>1, <3>2, <3>3, <3>4
  <2> QED
    BY <2>1, <1>2, <1>3, <1>4, <1>6 DEF DInv, PageCovered, Seqs
<1> QED
  BY <1>6, <1>7, <1>8, <1>9 DEF DInv, AddingAnothers

\* An entry that is done is one of the handled ones.
LEMMA SetAsideDInv ==
    ASSUME DInv, NEW n \in Seqs, SetAside(n)
    PROVE  DInv'
<1>1. /\ tick' = [tick EXCEPT !.left = @ \ {n}, !.at = "judging"]
      /\ handled' = handled \cup {n}
      /\ UNCHANGED <<log, hidden, held, changes, cursor, denied, failures>>
      /\ tick.at = "judging"
  BY DEF SetAside, Done, worldVars
<1>2. /\ tick'.at = "judging" /\ tick'.left = tick.left \ {n} /\ tick'.tags = tick.tags
      /\ tick'.next = tick.next /\ TickShape'
  BY <1>1 DEF DInv, TickShape
<1>3. DTypeOK'
  BY <1>1, <1>2 DEF DInv, DTypeOK, Seqs
<1>4. ClaimsAreOwn' /\ ClaimsFromOthers' /\ NothingLost'
  BY <1>1 DEF DInv, ClaimsAreOwn, ClaimsFromOthers, NothingLost, Seqs
<1>5. PageCovered'
  BY <1>1, <1>2 DEF DInv, PageCovered, DealtWith, Seqs
<1> QED
  BY <1>2, <1>3, <1>4, <1>5 DEF DInv, AddingAnothers

LEMMA WriteClaimDInv ==
    ASSUME DInv, NEW n \in Seqs, WriteClaim(n)
    PROVE  DInv'
<1>1. /\ tick' = [tick EXCEPT !.at = "adding"]
      /\ UNCHANGED <<log, hidden, held, changes, cursor, handled, denied, failures>>
      /\ First(n) /\ ~log[n].own /\ tick.at = "judging"
  BY DEF WriteClaim, worldVars
<1>2. /\ tick'.at = "adding" /\ tick'.left = tick.left /\ tick'.tags = tick.tags
      /\ tick'.next = tick.next /\ TickShape'
  BY <1>1 DEF DInv, TickShape
<1>3. DTypeOK'
  BY <1>1, <1>2 DEF DInv, DTypeOK, Seqs, First
<1>4. ClaimsAreOwn' /\ ClaimsFromOthers' /\ NothingLost' /\ PageCovered'
  BY <1>1, <1>2 DEF DInv, ClaimsAreOwn, ClaimsFromOthers, NothingLost, PageCovered, DealtWith,
                    Seqs
<1>5. AddingAnothers'
  <2> SUFFICES ASSUME NEW m \in Seqs, First(m)'
               PROVE  ~log[m].own
    BY <1>1 DEF AddingAnothers, Seqs
  <2>1. m \in tick.left /\ n \in tick.left /\ m <= n /\ n <= m
    BY <1>1, <1>2 DEF First
  <2>2. m = n
    BY <2>1 DEF DInv, DTypeOK, Seqs
  <2> QED
    BY <1>1, <2>2
<1> QED
  BY <1>2, <1>3, <1>4, <1>5 DEF DInv

\* A tick that ends without its cursor leaves the rest as it is.
LEMMA TickLostDInv ==
    ASSUME DInv, tick' = Idle, failures' \in Nat,
           UNCHANGED <<log, hidden, held, changes, cursor, handled, denied>>
    PROVE  DInv'
BY DEF DInv, DTypeOK, TickShape, ClaimsAreOwn, ClaimsFromOthers, NothingLost, PageCovered,
       AddingAnothers, Seqs, Idle

LEMMA TickEndDInv ==
    ASSUME DInv, TickEnd
    PROVE  DInv'
<1>1. /\ tick.at = "judging" /\ tick.left = {} /\ cursor' = tick.next /\ tick' = Idle
      /\ UNCHANGED <<log, hidden, held, changes, handled, denied, failures>>
  BY DEF TickEnd, PageDone, worldVars
<1>2. NothingLost'
  BY <1>1 DEF DInv, PageCovered, NothingLost, DealtWith, Seqs
<1> QED
  BY <1>1, <1>2 DEF DInv, DTypeOK, TickShape, ClaimsAreOwn, ClaimsFromOthers, PageCovered,
                    AddingAnothers, Seqs, Idle

\* The claim is appended, and its entry is done or the tick is lost.
LEMMA AddCommitsDInv ==
    ASSUME DInv, NEW n \in Seqs, AddCommits(n)
    PROVE  DInv'
<1> DEFINE e == Claim(n)
<1>1. /\ log' = Append(log, e) /\ tick.at = "adding" /\ First(n)
      /\ UNCHANGED <<hidden, held, changes, cursor, denied>>
      /\ \/ Done(n) /\ UNCHANGED failures
         \/ Failed /\ UNCHANGED handled
  BY DEF AddCommits
<1>2. n \in DOMAIN tick.tags /\ ~log[n].own /\ ~log[n].claim /\ n \in Nat
  BY <1>1 DEF DInv, DTypeOK, AddingAnothers, ClaimsAreOwn, First, Seqs
<1>3. e \in Entry /\ e.own /\ e.from = n
  <2>1. tick.tags[n] \subseteq Tags /\ AddedTags \subseteq Tags
    BY <1>2 DEF DInv, DTypeOK, AddedTags
  <2> QED
    BY <1>2, <2>1 DEF Claim, Entry
<1> HIDE DEF e
<1>4. handled \subseteq handled' /\ handled' \subseteq Seqs
  BY <1>1 DEF Done, DInv, DTypeOK
<1>5. /\ Grown(e) /\ Seqs \subseteq Seqs'
      /\ ClaimsAreOwn' /\ ClaimsFromOthers' /\ NothingLost'
      /\ cursor' <= Len(log')
      /\ \A m \in Seqs : DealtWith(m) => DealtWith(m)'
  BY <1>1, <1>2, <1>3, <1>4, GrowthKeeps
<1>6. /\ Len(log) \in Nat /\ Seqs = 1..Len(log) /\ tick.left \subseteq Seqs
      /\ tick.next \in Nat /\ Seqs' = 1..(Len(log) + 1)
  BY <1>5 DEF DInv, DTypeOK, Seqs, Grown
<1>7. CASE Done(n) /\ UNCHANGED failures
  <2>1. /\ tick'.at = "judging" /\ tick'.left = tick.left \ {n} /\ tick'.tags = tick.tags
        /\ tick'.next = tick.next /\ TickShape' /\ handled' = handled \cup {n}
    BY <1>7 DEF Done, DInv, TickShape
  <2>2. DTypeOK'
    BY <1>1, <1>4, <1>5, <1>6, <1>7, <2>1 DEF DInv, DTypeOK, Grown
  <2>3. PageCovered'
    <3>1. \A m \in Seqs' : m <= tick.next => m \in Seqs /\ (DealtWith(m) \/ m \in tick.left)
      BY <1>1, <1>6 DEF DInv, PageCovered
    <3>2. DealtWith(n)'
      BY <2>1 DEF DealtWith
    <3>3. tick.next <= Len(log')
      BY <1>1, <1>5, <1>6 DEF DInv, PageCovered, Grown
    <3> QED
      BY <1>5, <2>1, <3>1, <3>2, <3>3 DEF PageCovered
  <2> QED
    BY <1>5, <2>1, <2>2, <2>3 DEF DInv, AddingAnothers
<1>8. CASE Failed /\ UNCHANGED handled
  <2>1. tick' = Idle /\ failures' \in Nat
    BY <1>8 DEF Failed, DInv, DTypeOK
  <2>2. DTypeOK' /\ TickShape' /\ PageCovered' /\ AddingAnothers'
    BY <1>1, <1>4, <1>5, <1>6, <2>1
       DEF DInv, DTypeOK, TickShape, PageCovered, AddingAnothers, Grown, Idle
  <2> QED
    BY <1>5, <2>2 DEF DInv
<1> QED
  BY <1>1, <1>7, <1>8

-----------------------------------------------------------------------------

LEMMA NextDInv == DInv /\ [DNext]_dvars => DInv'
<1> SUFFICES ASSUME DInv, [DNext]_dvars
             PROVE  DInv'
  OBVIOUS
<1>1. CASE \E s \in Sources, T \in SUBSET (Tags \ {OwnerTag}) : OtherAdds(s, T)
  BY <1>1, OtherAddsDInv
<1>2. CASE \/ \E n \in Seqs : Retire(n) \/ \E T \in SUBSET (Tags \ {OwnerTag}) : Retag(n, T)
           \/ \E T \in SUBSET Tags : SetGrants(T)
  BY <1>2, ChangesDInv
<1>3. CASE ReadPage
  BY <1>3, ReadPageDInv
<1>4. CASE \E n \in Seqs : SetAside(n)
  BY <1>4, SetAsideDInv
<1>5. CASE \E n \in Seqs : WriteClaim(n)
  BY <1>5, WriteClaimDInv
<1>6. CASE \E n \in Seqs : AddCommits(n)
  BY <1>6, AddCommitsDInv
<1>7. CASE \E n \in Seqs : AddRefused(n)
  BY <1>7, TickLostDInv DEF AddRefused, worldVars, DInv, DTypeOK
<1>8. CASE TickEnd
  BY <1>8, TickEndDInv
<1>9. CASE TickFails
  BY <1>9, TickLostDInv DEF TickFails, Failed, worldVars, DInv, DTypeOK
<1>10. CASE UNCHANGED dvars
  BY <1>10 DEF dvars, DInv, DTypeOK, TickShape, ClaimsAreOwn, ClaimsFromOthers, NothingLost,
               PageCovered, DealtWith, AddingAnothers, First, Seqs
<1> QED
  BY <1>1, <1>2, <1>3, <1>4, <1>5, <1>6, <1>7, <1>8, <1>9, <1>10 DEF DNext, TickStep

\* Whatever fails, is retagged, retired or granted meanwhile: no version of the
\* feed is passed by the stored cursor that was neither judged nor kept back,
\* retired or the distiller's own; and every claim derives from a version of
\* another writer (src/distiller/tick.ts).
THEOREM NothingLostEver == DSpec => []DistillerInv
<1>1. DInv => DistillerInv
  BY DEF DInv, DistillerInv
<1> QED
  BY InitDInv, NextDInv, <1>1, PTL DEF DSpec

-----------------------------------------------------------------------------
(* How often a version is claimed.                                         *)

\* An entry after it is refused every time: its page is done over and over.
Exempt(n) == \E d \in Seqs : d > n /\ log[d].doc \in Doomed

\* A version that the tick has not come to, or no tick.
Ahead(n) ==
    /\ n > cursor
    /\ tick.at = "idle" \/ n > tick.next \/ \E m \in tick.left : m <= n

ClaimsCounted ==
    \A n \in Seqs : ~Exempt(n) =>
        /\ Cardinality(ClaimsOf(n)) <= 1 + failures
        /\ Ahead(n) => Cardinality(ClaimsOf(n)) <= failures

\* What a page leaves to the tick lies between its cursor and the next.
LeftOnPage ==
    tick.at # "idle" =>
        /\ tick.next > cursor
        /\ \A n \in tick.left : n > cursor /\ n <= tick.next

CInv == DInv /\ LeftOnPage /\ ClaimsCounted

LEMMA ClaimsFinite ==
    ASSUME log \in Seq(Entry), NEW n
    PROVE  IsFiniteSet(ClaimsOf(n)) /\ Cardinality(ClaimsOf(n)) \in Nat
<1>1. Len(log) \in Nat /\ Seqs = 1..Len(log)
  BY DEF Seqs
<1>2. IsFiniteSet(Seqs)
  BY <1>1, FS_Interval
<1>3. ClaimsOf(n) \subseteq Seqs
  BY DEF ClaimsOf
<1> QED
  BY <1>2, <1>3, FS_Subset, FS_CardinalityType

LEMMA InitCInv == DInit => CInv
<1> SUFFICES ASSUME DInit PROVE LeftOnPage /\ ClaimsCounted
  BY InitDInv DEF CInv
<1>1. Seqs = {} /\ tick.at = "idle"
  BY DEF DInit, Seqs, Idle
<1> QED
  BY <1>1 DEF LeftOnPage, ClaimsCounted

\* A page begins after the cursor, and no page in hand changes its bounds.
LEMMA LeftOnPageStep ==
    ASSUME DInv, LeftOnPage, [DNext]_dvars
    PROVE  LeftOnPage'
<1> USE DEF LeftOnPage
<1>0. log \in Seq(Entry) /\ Seqs = 1..Len(log) /\ cursor \in Nat
  BY DEF DInv, DTypeOK, Seqs
<1>1. CASE ReadPage
  <2>1. PICK last \in Eligible :
          LET raw == {n \in Eligible : n <= last}
          IN tick' = [at |-> "judging", left |-> {n \in raw : MayRead(n)},
                      tags |-> [n \in raw |-> log[n].tags], next |-> NextCursor(raw)]
    BY <1>1 DEF ReadPage
  <2> DEFINE raw == {n \in Eligible : n <= last}
  <2>2. \A n \in raw : n \in Nat /\ n > cursor /\ n <= last
    BY <1>0 DEF Eligible
  <2>3. last \in raw
    BY <1>0 DEF Eligible
  <2>4. \A n \in raw : (\A m \in raw : m <= n) => n = last
    BY <2>2, <2>3
  <2>5. NextCursor(raw) = last
    <3> HIDE DEF raw
    <3> QED
      BY <2>2, <2>3, <2>4 DEF NextCursor
  <2>6. cursor' = cursor
    BY <1>1 DEF ReadPage
  <2>7. tick'.left \subseteq raw /\ tick'.next = last
    BY <2>1, <2>5
  <2> QED
    BY <2>2, <2>3, <2>6, <2>7
<1>2. CASE \E n \in Seqs : SetAside(n)
  BY <1>2 DEF SetAside, Done, DInv, TickShape
<1>3. CASE \E n \in Seqs : WriteClaim(n)
  BY <1>3 DEF WriteClaim, DInv, TickShape
<1>4. CASE \E n \in Seqs : AddCommits(n)
  <2>1. PICK n \in Seqs : AddCommits(n)
    BY <1>4
  <2>2. CASE Done(n)
    <3>1. tick' = [tick EXCEPT !.left = @ \ {n}, !.at = "judging"] /\ tick.at = "adding"
      BY <2>1, <2>2 DEF AddCommits, Done
    <3>2. tick'.left = tick.left \ {n} /\ tick'.next = tick.next
      BY <3>1 DEF DInv, TickShape
    <3>3. cursor' = cursor
      BY <2>1 DEF AddCommits
    <3> QED
      BY <3>1, <3>2, <3>3
  <2>3. CASE Failed
    BY <2>3 DEF Failed, Idle
  <2> QED
    BY <2>1, <2>2, <2>3 DEF AddCommits
<1>5. CASE tick' = Idle
  BY <1>5 DEF Idle
<1>6. CASE UNCHANGED <<tick, cursor>>
  BY <1>6
<1> QED
  BY <1>1, <1>2, <1>3, <1>4, <1>5, <1>6
     DEF DNext, TickStep, dvars, OtherAdds, Retire, Retag, SetGrants, Change, AddRefused, TickEnd,
         TickFails, Failed

\* No step but an add changes what is claimed of a version, its writer or the
\* number of ticks that failed.
LEMMA CountStays ==
    ASSUME DInv, ClaimsCounted,
           Seqs' = Seqs, failures' \in Nat, failures \in Nat, failures' >= failures,
           \A n \in Seqs : /\ log'[n].claim = log[n].claim /\ log'[n].from = log[n].from
                          /\ log'[n].doc = log[n].doc,
           \A n \in Seqs : Ahead(n)' /\ ~Exempt(n) => Ahead(n) \/ failures' = failures + 1
    PROVE  ClaimsCounted'
<1> SUFFICES ASSUME NEW n \in Seqs, ~Exempt(n)'
             PROVE  /\ Cardinality(ClaimsOf(n)') <= 1 + failures'
                    /\ Ahead(n)' => Cardinality(ClaimsOf(n)') <= failures'
  BY DEF ClaimsCounted
<1>1. ClaimsOf(n)' = ClaimsOf(n)
  BY DEF ClaimsOf
<1>2. ~Exempt(n)
  BY DEF Exempt
<1>3. Cardinality(ClaimsOf(n)) \in Nat
  BY ClaimsFinite DEF DInv, DTypeOK
<1> QED
  BY <1>1, <1>2, <1>3 DEF ClaimsCounted

\* An entry at the end of the feed is claimed by none before it.
LEMMA CountGrows ==
    ASSUME DInv, ClaimsCounted, NEW e \in Entry, log' = Append(log, e),
           ~e.claim, UNCHANGED <<cursor, tick, failures>>
    PROVE  ClaimsCounted'
<1>1. Grown(e) /\ log \in Seq(Entry) /\ failures \in Nat
  BY Growth DEF DInv, DTypeOK
<1>2. Seqs = 1..Len(log) /\ Seqs' = 1..(Len(log) + 1) /\ Len(log) \in Nat
  BY <1>1 DEF Seqs, Grown
<1> SUFFICES ASSUME NEW n \in Seqs', ~Exempt(n)'
             PROVE  /\ Cardinality(ClaimsOf(n)') <= 1 + failures
                    /\ Ahead(n)' => Cardinality(ClaimsOf(n)') <= failures
  BY DEF ClaimsCounted
<1>3. ClaimsOf(n)' = ClaimsOf(n)
  BY <1>1, <1>2 DEF ClaimsOf, Grown
<1>4. CASE n \in Seqs
  <2>1. ~Exempt(n)
    BY <1>1, <1>2 DEF Exempt, Grown
  <2>2. Ahead(n)' = Ahead(n)
    BY DEF Ahead
  <2> QED
    BY <1>3, <1>4, <2>1, <2>2 DEF ClaimsCounted
<1>5. CASE n = Len(log) + 1
  <2>1. ClaimsOf(n) = {}
    BY <1>2, <1>5 DEF ClaimsOf, DInv, ClaimsAreOwn
  <2>2. Cardinality(ClaimsOf(n)) = 0
    BY <2>1, FS_EmptySet
  <2> QED
    BY <1>1, <1>3, <2>2
<1> QED
  BY <1>2, <1>4, <1>5

\* The entry in hand is claimed once more; it is behind the tick then, or the
\* tick has failed.
LEMMA CountAdds ==
    ASSUME CInv, NEW n \in Seqs, AddCommits(n)
    PROVE  ClaimsCounted'
<1> DEFINE e == Claim(n)
           new == Len(log) + 1
<1>1. /\ log' = Append(log, e) /\ tick.at = "adding" /\ First(n) /\ log[n].doc \notin Doomed
      /\ cursor' = cursor
      /\ \/ Done(n) /\ failures' = failures
         \/ tick' = Idle /\ failures' = failures + 1
  BY DEF AddCommits, Failed
<1>2. e \in Entry /\ e.claim /\ e.from = n
  <2>1. n \in DOMAIN tick.tags /\ n \in Nat
    BY <1>1 DEF CInv, DInv, DTypeOK, First, Seqs
  <2>2. tick.tags[n] \subseteq Tags /\ AddedTags \subseteq Tags
    BY <2>1 DEF CInv, DInv, DTypeOK, AddedTags
  <2> QED
    BY <2>1, <2>2 DEF Claim, Entry
<1> HIDE DEF e
<1>3. Grown(e) /\ log \in Seq(Entry) /\ failures \in Nat /\ cursor \in Nat
  BY <1>1, <1>2, Growth DEF CInv, DInv, DTypeOK
<1>4. Seqs = 1..Len(log) /\ Seqs' = Seqs \cup {new} /\ Len(log) \in Nat /\ new \notin Seqs
  BY <1>3 DEF Seqs, Grown
<1> SUFFICES ASSUME NEW m \in Seqs', ~Exempt(m)'
             PROVE  /\ Cardinality(ClaimsOf(m)') <= 1 + failures'
                    /\ Ahead(m)' => Cardinality(ClaimsOf(m)') <= failures'
  BY DEF ClaimsCounted
<1>5. ClaimsOf(m)' = IF m = n THEN ClaimsOf(m) \cup {new} ELSE ClaimsOf(m)
  BY <1>2, <1>3, <1>4 DEF ClaimsOf, Grown
<1>6. IsFiniteSet(ClaimsOf(m)) /\ Cardinality(ClaimsOf(m)) \in Nat
  BY <1>3, ClaimsFinite
<1>7. CASE m = new
  <2>1. ClaimsOf(m) = {}
    BY <1>4, <1>7 DEF ClaimsOf, CInv, DInv, ClaimsAreOwn
  <2>2. Cardinality(ClaimsOf(m)') = 0
    BY <1>4, <1>5, <1>7, <2>1, FS_EmptySet
  <2> QED
    BY <1>1, <1>3, <2>2
<1>8. CASE m \in Seqs
  <2>1. ~Exempt(m)
    BY <1>3, <1>4 DEF Exempt, Grown
  <2>2. /\ Cardinality(ClaimsOf(m)) <= 1 + failures
        /\ Ahead(m) => Cardinality(ClaimsOf(m)) <= failures
    BY <1>8, <2>1 DEF CInv, ClaimsCounted
  <2>3. CASE m = n
    <3>1. Ahead(n)
      BY <1>1, <1>4 DEF CInv, LeftOnPage, Ahead, First
    <3>2. new \notin ClaimsOf(n)
      BY <1>4 DEF ClaimsOf
    <3>3. Cardinality(ClaimsOf(m)') = Cardinality(ClaimsOf(m)) + 1
      BY <1>5, <1>6, <2>3, <3>2, FS_AddElement
    <3>4. Cardinality(ClaimsOf(m)') <= 1 + failures
      BY <1>3, <1>6, <2>2, <2>3, <3>1, <3>3
    <3>5. CASE Done(n) /\ failures' = failures
      <4>1. /\ tick'.left = tick.left \ {n} /\ tick'.next = tick.next /\ tick'.at = "judging"
        BY <3>5 DEF Done, CInv, DInv, TickShape
      <4>2. n <= tick.next /\ n \in Nat /\ tick.next \in Nat /\ tick.left \subseteq Seqs
        BY <1>1, <1>4 DEF CInv, DInv, DTypeOK, LeftOnPage, First, Seqs
      <4>3. \A k \in tick.left \ {n} : ~(k <= n)
        BY <1>1, <1>4, <4>2 DEF First
      <4>4. ~Ahead(n)'
        BY <4>1, <4>2, <4>3 DEF Ahead
      <4> QED
        BY <2>3, <3>4, <3>5, <4>4
    <3>6. CASE tick' = Idle /\ failures' = failures + 1
      BY <1>3, <1>6, <3>3, <3>4, <3>6
    <3> QED
      BY <1>1, <3>5, <3>6
  <2>4. CASE m # n
    <3>1. ClaimsOf(m)' = ClaimsOf(m)
      BY <1>5, <2>4
    <3>2. CASE Done(n) /\ failures' = failures
      <4>1. /\ tick'.left = tick.left \ {n} /\ tick'.next = tick.next /\ tick'.at = "judging"
        BY <3>2 DEF Done, CInv, DInv, TickShape
      <4>2. Ahead(m)' => Ahead(m)
        BY <1>1, <4>1 DEF Ahead
      <4> QED
        BY <2>2, <3>1, <3>2, <4>2
    <3>3. CASE tick' = Idle /\ failures' = failures + 1
      BY <1>3, <1>6, <2>2, <3>1, <3>3
    <3> QED
      BY <1>1, <3>2, <3>3
  <2> QED
    BY <2>3, <2>4
<1> QED
  BY <1>4, <1>7, <1>8

LEMMA ClaimsCountedStep ==
    ASSUME CInv, [DNext]_dvars
    PROVE  ClaimsCounted'
<1>0. /\ DInv /\ LeftOnPage /\ ClaimsCounted
      /\ log \in Seq(Entry) /\ Seqs = 1..Len(log) /\ Len(log) \in Nat
      /\ failures \in Nat /\ cursor \in Nat /\ tick.next \in Nat /\ tick.left \subseteq Seqs
  BY DEF CInv, DInv, DTypeOK, Seqs
\* A step that adds nothing to the feed, and puts nothing ahead but by failing.
<1>s. ASSUME UNCHANGED log, failures' \in Nat, failures' >= failures,
             \A n \in Seqs : Ahead(n)' /\ ~Exempt(n) => Ahead(n) \/ failures' = failures + 1
      PROVE  ClaimsCounted'
  BY <1>0, <1>s, CountStays DEF Seqs
<1>1. CASE \E s \in Sources, T \in SUBSET (Tags \ {OwnerTag}) : OtherAdds(s, T)
  <2>1. PICK s \in Sources, T \in SUBSET (Tags \ {OwnerTag}) : OtherAdds(s, T)
    BY <1>1
  <2> DEFINE e == [claim |-> FALSE, own |-> FALSE, from |-> 0, doc |-> s, tags |-> T]
  <2>2. e \in Entry /\ log' = Append(log, e) /\ ~e.claim
    BY <2>1 DEF Entry, OtherAdds
  <2>3. UNCHANGED <<cursor, tick, failures>>
    BY <2>1 DEF OtherAdds
  <2> HIDE DEF e
  <2> QED
    BY <1>0, <2>2, <2>3, CountGrows
<1>2. CASE \E n \in Seqs : \E T \in SUBSET (Tags \ {OwnerTag}) : Retag(n, T)
  <2>1. PICK n \in Seqs, T \in SUBSET (Tags \ {OwnerTag}) : Retag(n, T)
    BY <1>2
  <2>2. /\ log' = [log EXCEPT ![n] = [log[n] EXCEPT !.tags = T]]
        /\ UNCHANGED <<cursor, tick, failures>>
    BY <2>1 DEF Retag, Change
  <2>3. log[n] \in Entry
    BY <1>0
  <2>4. /\ Seqs' = Seqs
        /\ \A m \in Seqs : /\ log'[m].claim = log[m].claim /\ log'[m].from = log[m].from
                          /\ log'[m].doc = log[m].doc
    BY <1>0, <2>2, <2>3 DEF Seqs, Entry
  <2>5. \A m \in Seqs : Ahead(m)' = Ahead(m)
    BY <2>2 DEF Ahead
  <2> QED
    BY <1>0, <2>2, <2>4, <2>5, CountStays
<1>3. CASE \E n \in Seqs : Retire(n)
  BY <1>0, <1>3, <1>s DEF Retire, Change, Ahead
<1>4. CASE \E T \in SUBSET Tags : SetGrants(T)
  BY <1>0, <1>4, <1>s DEF SetGrants, Change, Ahead
<1>5. CASE ReadPage
  <2>1. tick.at = "idle" /\ UNCHANGED <<log, cursor, failures>>
    BY <1>5 DEF ReadPage, worldVars
  <2>2. \A n \in Seqs : Ahead(n)' => Ahead(n)
    BY <2>1 DEF Ahead
  <2> QED
    BY <1>0, <1>s, <2>1, <2>2
<1>6. CASE \E n \in Seqs : SetAside(n)
  <2>1. PICK n \in Seqs : SetAside(n)
    BY <1>6
  <2>2. /\ tick' = [tick EXCEPT !.left = @ \ {n}, !.at = "judging"] /\ tick.at = "judging"
        /\ UNCHANGED <<log, cursor, failures>>
    BY <2>1 DEF SetAside, Done, worldVars
  <2>3. tick'.left \subseteq tick.left /\ tick'.next = tick.next /\ tick'.at # "idle"
    BY <1>0, <2>2 DEF DInv, TickShape
  <2>4. \A m \in Seqs : Ahead(m)' => Ahead(m)
    BY <2>2, <2>3 DEF Ahead
  <2> QED
    BY <1>0, <1>s, <2>2, <2>4
<1>7. CASE \E n \in Seqs : WriteClaim(n)
  <2>1. /\ tick' = [tick EXCEPT !.at = "adding"] /\ tick.at = "judging"
        /\ UNCHANGED <<log, cursor, failures>>
    BY <1>7 DEF WriteClaim, worldVars
  <2>2. tick'.left = tick.left /\ tick'.next = tick.next /\ tick'.at # "idle"
    BY <1>0, <2>1 DEF DInv, TickShape
  <2>3. \A m \in Seqs : Ahead(m)' => Ahead(m)
    BY <2>1, <2>2 DEF Ahead
  <2> QED
    BY <1>0, <1>s, <2>1, <2>3
<1>8. CASE \E n \in Seqs : AddCommits(n)
  BY <1>8, CountAdds
<1>9. CASE \E n \in Seqs : AddRefused(n)
  <2>1. PICK n \in Seqs : AddRefused(n)
    BY <1>9
  <2>2. /\ First(n) /\ log[n].doc \in Doomed
        /\ UNCHANGED <<log, cursor, failures>>
    BY <2>1 DEF AddRefused, worldVars
  <2>3. \A m \in Seqs : Ahead(m)' /\ ~Exempt(m) => Ahead(m)
    <3> SUFFICES ASSUME NEW m \in Seqs, Ahead(m)', ~Exempt(m) PROVE Ahead(m)
      OBVIOUS
    <3>1. ~(n > m)
      BY <2>2 DEF Exempt
    <3>2. n \in tick.left /\ n <= m
      BY <1>0, <2>2, <3>1 DEF First
    <3> QED
      BY <2>2, <3>2 DEF Ahead
  <2> QED
    BY <1>0, <1>s, <2>2, <2>3
<1>10. CASE TickEnd
  <2>1. /\ tick.at = "judging" /\ cursor' = tick.next
        /\ UNCHANGED <<log, failures>>
    BY <1>10 DEF TickEnd, worldVars
  <2>2. \A m \in Seqs : Ahead(m)' => Ahead(m)
    BY <1>0, <2>1 DEF Ahead, LeftOnPage
  <2> QED
    BY <1>0, <1>s, <2>1, <2>2
<1>11. CASE TickFails
  BY <1>0, <1>11, <1>s DEF TickFails, Failed, worldVars
<1>12. CASE UNCHANGED dvars
  BY <1>0, <1>12, <1>s DEF dvars, Ahead
<1> QED
  BY <1>1, <1>2, <1>3, <1>4, <1>5, <1>6, <1>7, <1>8, <1>9, <1>10, <1>11, <1>12 DEF DNext, TickStep

\* However ticks fail, at whatever await, and whatever is retagged, retired or
\* granted meanwhile: a version is claimed once and once more for each tick that
\* failed, unless an entry after it is always refused (runDistillTick).
THEOREM ClaimedOncePerFaultEver == DSpec => []ClaimedOncePerFault
<1>1. CInv /\ [DNext]_dvars => CInv'
  BY NextDInv, LeftOnPageStep, ClaimsCountedStep DEF CInv
<1>2. CInv => ClaimedOncePerFault
  <2> SUFFICES ASSUME CInv, NEW n \in Seqs, Cardinality(ClaimsOf(n)) > 1 + failures,
                      ~Exempt(n)
               PROVE  FALSE
    BY DEF ClaimedOncePerFault, Exempt
  <2>1. Cardinality(ClaimsOf(n)) <= 1 + failures
    BY DEF CInv, ClaimsCounted
  <2>2. Cardinality(ClaimsOf(n)) \in Nat /\ failures \in Nat
    BY ClaimsFinite DEF CInv, DInv, DTypeOK
  <2> QED
    BY <2>1, <2>2
<1> QED
  BY InitCInv, <1>1, <1>2, PTL DEF DSpec
=============================================================================
