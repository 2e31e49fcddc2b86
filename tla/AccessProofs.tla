---------------------------- MODULE AccessProofs ----------------------------
(***************************************************************************)
(* Theorems about who may see and forget a document.                       *)
(*                                                                         *)
(* What a share gives is spread over statements of which any other add,    *)
(* replay or forget may run in between.  AInv says of everything that can  *)
(* give sight of a document where it came from: the tags a document or one *)
(* of its raw captures bears (TagsGiven), the grants there are             *)
(* (GrantsGiven), and the creator of its active version (ByWriter).        *)
(* Sharing says of a share under way what it has done so far, as long as   *)
(* nobody has written the document's tags since its stamp.                 *)
(***************************************************************************)
EXTENDS DocumentAccess, TLAPS

\* What some add of the document asked for.
SharedWith(q, d) == \E c \in Adds : call[c].doc = d /\ q \in call[c].peers
TenantShared(d) == \E c \in Adds : call[c].doc = d /\ call[c].tenant

\* A document nobody has added has nothing to be seen or forgotten by.
NothingBefore ==
    \A d \in Docs : origin[d] = None =>
        /\ doc[d].hash = None /\ doc[d].epoch = 0
        /\ firsts[d] = {} /\ raws[d] = {} /\ forgotBy[d] = None

\* A call that has not begun asks for nothing; one past its transaction is for a
\* document.
CallsBegin ==
    \A c \in Adds :
        /\ call[c].at = "idle" => call[c] = Unused
        /\ call[c].at \in {"committed", "stamped"} => call[c].doc \in Docs

TagsGiven ==
    \A d \in Docs :
        /\ \A e \in Docs : DocTag(e) \in doc[d].tags => e = d
        /\ TenantTag \in doc[d].tags => TenantShared(d)
        /\ \A r \in raws[d] : /\ \A e \in Docs : DocTag(e) \notin r.tags
                              /\ TenantTag \in r.tags => TenantShared(d)

GrantsGiven ==
    \A g \in grants : \/ g[2] = TenantTag
                      \/ \E d \in Docs : g[2] = DocTag(d) /\ SharedWith(g[1], d)

ByWriter == \A d \in Docs : doc[d].by # None => doc[d].by \in Writers(d)

\* A share past its stamp has granted the document to the peers that are not left,
\* and its tag is there unless the tags were written anew.
Sharing ==
    \A c \in Adds : call[c].at = "stamped" \/ call[c].materialized = "true" =>
        LET d == call[c].doc
        IN /\ d \in Docs
           /\ call[c].epoch <= doc[d].epoch
           /\ host.stamps /\ doc[d].epoch = call[c].epoch => DocTag(d) \in doc[d].tags
           /\ \A q \in call[c].peers \ {call[c].by} : q \in call[c].left
                                                      \/ <<q, DocTag(d)>> \in grants

\* What a share owes: nobody, once it is answered as materialized.
Owed ==
    \A c \in Adds :
        /\ call[c].at = "committed" => call[c].left = call[c].peers \ {call[c].by}
        /\ call[c].materialized = "true" => host.stamps /\ call[c].left = {}
        /\ call[c].left \subseteq call[c].peers

\* Before any replay, version 1 of a document is its creator's.
FirstIsOrigin ==
    replays = 0 => /\ \A d \in Docs : firsts[d] \subseteq {origin[d]}
                   /\ ForgottenByCreator

AInv == /\ ATypeOK /\ NothingBefore /\ CallsBegin /\ TagsGiven /\ GrantsGiven
        /\ ByWriter /\ Sharing /\ Owed /\ FirstIsOrigin

-----------------------------------------------------------------------------

\* Tags of different kinds, or of different owners, are different.
LEMMA TagsDiffer ==
    /\ \A p, d : OwnerTag(p) # DocTag(d)
    /\ \A p : OwnerTag(p) # TenantTag
    /\ \A d : DocTag(d) # TenantTag
    /\ \A d, e : DocTag(d) = DocTag(e) => d = e
BY DEF OwnerTag, DocTag, TenantTag

LEMMA AddTagsAre ==
    ASSUME NEW p \in Principals, NEW peers \in SUBSET Principals, NEW tenant \in BOOLEAN
    PROVE  /\ AddTags(p, peers, tenant) \in SUBSET Tags
           /\ \A e \in Docs : DocTag(e) \notin AddTags(p, peers, tenant)
           /\ TenantTag \in AddTags(p, peers, tenant) <=> tenant
BY TagsDiffer DEF AddTags, Tags

LEMMA InitAInv == AInit => AInv
<1> SUFFICES ASSUME AInit PROVE AInv
  OBVIOUS
<1>1. ATypeOK
  BY AccessAssumption DEF AInit, ATypeOK, NoDoc, Unused
<1>2. NothingBefore /\ CallsBegin /\ TagsGiven /\ GrantsGiven
  BY DEF AInit, NothingBefore, CallsBegin, TagsGiven, GrantsGiven, NoDoc, Unused
<1>3. ByWriter /\ Sharing /\ Owed /\ FirstIsOrigin
  BY DEF AInit, ByWriter, Sharing, Owed, FirstIsOrigin, ForgottenByCreator, NoDoc, Unused
<1> QED
  BY <1>1, <1>2, <1>3 DEF AInv

-----------------------------------------------------------------------------
(* The transaction of an add.                                              *)

\* What is asked for stays asked for: a call is given its document once.
AskedStays ==
    \A c \in Adds :
        \/ call[c] = Unused
        \/ /\ call'[c].doc = call[c].doc /\ call'[c].by = call[c].by
           /\ call'[c].peers = call[c].peers /\ call'[c].tenant = call[c].tenant

LEMMA AskedKeeps ==
    ASSUME AskedStays, NEW d
    PROVE  /\ \A q : SharedWith(q, d) => SharedWith(q, d)'
           /\ TenantShared(d) => TenantShared(d)'
           /\ \A p \in Principals : p \in Writers(d) => p \in Writers(d)'
<1>1. \A q : SharedWith(q, d) => SharedWith(q, d)'
  BY DEF AskedStays, SharedWith, Unused
<1>2. TenantShared(d) => TenantShared(d)'
  BY DEF AskedStays, TenantShared, Unused
<1>3. ASSUME NEW p \in Principals, p \in Writers(d)
      PROVE  p \in Writers(d)'
  <2>1. PICK c \in Adds : call[c].doc = d /\ call[c].by = p
    BY <1>3 DEF Writers
  <2>2. call[c] # Unused
    BY <2>1, AccessAssumption DEF Unused
  <2> QED
    BY <2>1, <2>2 DEF AskedStays, Writers
<1> QED
  BY <1>1, <1>2, <1>3

\* What the call is after its transaction, of which it is the first step.
Entered(c, p, d, peers, tenant) ==
    /\ AskedStays
    /\ \A e \in Adds : e # c => call'[e] = call[e]
    /\ call'[c].at \in {"committed", "answered"} /\ call'[c].materialized = "unset"
    /\ call'[c].doc = d /\ call'[c].by = p
    /\ call'[c].peers = peers /\ call'[c].tenant = tenant
    /\ call'[c].left = peers \ {p}

CallType == [at : {"idle", "committed", "stamped", "answered", "failed"},
             doc : Docs \cup {None}, by : Principals \cup {None},
             peers : SUBSET Principals, tenant : BOOLEAN,
             left : SUBSET Principals, epoch : Nat,
             materialized : {"unset", "true", "false"}]

DocType == [tags : SUBSET Tags, hash : Contents \cup {None},
            by : Principals \cup {None}, epoch : Nat]

RawType == [by : Principals, tags : SUBSET Tags, kept : BOOLEAN]

LEMMA AfterCommitIs ==
    ASSUME AInv, NEW c \in Adds, NEW p \in Principals, NEW d \in Docs,
           NEW peers \in SUBSET Principals, NEW tenant \in BOOLEAN,
           call[c].at = "idle", AfterCommit(c, p, d, peers, tenant)
    PROVE  Entered(c, p, d, peers, tenant) /\ call' \in [Adds -> CallType]
<1> DEFINE new == [at |-> IF peers = {} THEN "answered" ELSE "committed", doc |-> d, by |-> p,
                   peers |-> peers, tenant |-> tenant, left |-> peers \ {p}, epoch |-> 0,
                   materialized |-> "unset"]
<1>1. /\ call' = [call EXCEPT ![c] = new]
      /\ call \in [Adds -> CallType]
  BY DEF AfterCommit, AInv, ATypeOK, CallType
<1>2. call'[c] = new /\ \A e \in Adds : e # c => call'[e] = call[e]
  BY <1>1
<1>3. AskedStays
  BY <1>2 DEF AskedStays, AInv, CallsBegin
<1>4. new \in CallType
  BY DEF CallType
<1> QED
  BY <1>1, <1>2, <1>3, <1>4 DEF Entered

\* The parts of the invariant that say of calls only what they do after it.
LEMMA CommitKeepsCalls ==
    ASSUME AInv, NEW c \in Adds, NEW p \in Principals, NEW d \in Docs,
           NEW peers \in SUBSET Principals, NEW tenant \in BOOLEAN,
           call[c].at = "idle", AfterCommit(c, p, d, peers, tenant),
           UNCHANGED <<host, grants>>,
           \A e \in Docs : \/ doc'[e] = doc[e]
                           \/ doc'[e].epoch \in Nat /\ doc[e].epoch < doc'[e].epoch
    PROVE  CallsBegin' /\ Sharing' /\ Owed' /\ GrantsGiven'
<1>1. /\ \A e \in Adds : e # c => call'[e] = call[e]
      /\ call'[c].at \in {"committed", "answered"} /\ call'[c].materialized = "unset"
      /\ call'[c].doc = d /\ call'[c].by = p /\ call'[c].peers = peers
      /\ call'[c].left = peers \ {p}
  BY AfterCommitIs DEF Entered
<1>2. CallsBegin' /\ Owed'
  BY <1>1 DEF AInv, CallsBegin, Owed
<1>3. Sharing'
  <2> SUFFICES ASSUME NEW e \in Adds, call'[e].at = "stamped" \/ call'[e].materialized = "true"
               PROVE  LET g == call'[e].doc
                      IN /\ g \in Docs
                         /\ call'[e].epoch <= doc'[g].epoch
                         /\ host.stamps /\ doc'[g].epoch = call'[e].epoch
                               => DocTag(g) \in doc'[g].tags
                         /\ \A q \in call'[e].peers \ {call'[e].by} :
                               q \in call'[e].left \/ <<q, DocTag(g)>> \in grants
    BY DEF Sharing
  <2>1. call'[e] = call[e]
    BY <1>1
  <2>2. call[e].epoch \in Nat
    BY DEF AInv, ATypeOK
  <2>3. /\ call[e].doc \in Docs
        /\ call[e].epoch <= doc[call[e].doc].epoch
        /\ host.stamps /\ doc[call[e].doc].epoch = call[e].epoch
              => DocTag(call[e].doc) \in doc[call[e].doc].tags
        /\ \A q \in call[e].peers \ {call[e].by} :
              q \in call[e].left \/ <<q, DocTag(call[e].doc)>> \in grants
    BY <2>1 DEF AInv, Sharing
  <2>4. doc[call[e].doc].epoch \in Nat
    BY <2>3 DEF AInv, ATypeOK
  <2> QED
    BY <2>1, <2>2, <2>3, <2>4
<1>4. GrantsGiven'
  BY AfterCommitIs, AskedKeeps DEF Entered, AInv, GrantsGiven
<1> QED
  BY <1>2, <1>3, <1>4

\* A step that leaves the documents alone, and may only add grants.
LEMMA Handled ==
    ASSUME AInv, AskedStays, UNCHANGED <<host, docVars, replays>>,
           call' \in [Adds -> CallType], CallsBegin', Owed', Sharing',
           grants' \subseteq Principals \X Tags, GrantsGiven'
    PROVE  AInv'
<1>1. ATypeOK' /\ NothingBefore' /\ FirstIsOrigin'
  BY DEF AInv, ATypeOK, CallType, NothingBefore, FirstIsOrigin, ForgottenByCreator, docVars
<1>2. TagsGiven'
  BY AskedKeeps DEF AInv, TagsGiven, docVars
<1>3. ByWriter'
  <2>1. \A e \in Docs : doc[e].by # None => doc[e].by \in Principals
    BY DEF AInv, ATypeOK
  <2> QED
    BY <2>1, AskedKeeps DEF AInv, ByWriter, docVars
<1> QED
  BY <1>1, <1>2, <1>3 DEF AInv

LEMMA CommitKeeps ==
    ASSUME AInv, NEW c \in Adds, NEW p \in Principals, NEW d \in Docs, NEW h \in Contents,
           NEW peers \in SUBSET Principals, NEW tenant \in BOOLEAN,
           Commit(c, p, d, h, peers, tenant)
    PROVE  AInv'
<1>1. call[c].at = "idle" /\ UNCHANGED <<host, forgotBy, grants, replays>>
  BY DEF Commit
<1> DEFINE given == AddTags(p, peers, tenant)
<1>2. /\ given \in SUBSET Tags
      /\ \A e \in Docs : DocTag(e) \notin given
      /\ TenantTag \in given <=> tenant
  BY AddTagsAre
<1> HIDE DEF given
<1>3. ASSUME AfterCommit(c, p, d, peers, tenant)
      PROVE  /\ TenantTag \in given => TenantShared(d)'
             /\ p \in Writers(d)'
             /\ \A e \in Docs : /\ TenantShared(e) => TenantShared(e)'
                                /\ doc[e].by # None => doc[e].by \in Writers(e)'
  <2>1. call'[c].doc = d /\ call'[c].by = p /\ call'[c].tenant = tenant
    BY <1>1, <1>3, AfterCommitIs DEF Entered
  <2>2. \A e \in Docs : doc[e].by # None => doc[e].by \in Writers(e)'
    <3>1. \A e \in Docs : doc[e].by # None => doc[e].by \in Principals
      BY DEF AInv, ATypeOK
    <3> QED
      BY <1>1, <1>3, <3>1, AfterCommitIs, AskedKeeps DEF Entered, AInv, ByWriter
  <2>3. \A e \in Docs : TenantShared(e) => TenantShared(e)'
    BY <1>1, <1>3, AfterCommitIs, AskedKeeps DEF Entered
  <2> QED
    BY <1>2, <2>1, <2>2, <2>3 DEF TenantShared, Writers
<1>4. CASE Create(c, p, d, h, peers, tenant)
  <2>1. /\ origin[d] = None
        /\ doc' = [doc EXCEPT ![d] = [tags |-> given, hash |-> h, by |-> p, epoch |-> 1]]
        /\ origin' = [origin EXCEPT ![d] = p]
        /\ firsts' = [firsts EXCEPT ![d] = {p}]
        /\ raws' = [raws EXCEPT ![d] = {[by |-> p, tags |-> given, kept |-> TRUE]}]
        /\ AfterCommit(c, p, d, peers, tenant)
    BY <1>4 DEF Create, Raw, given
  <2>2. ATypeOK'
    <3>1. doc' \in [Docs -> [tags : SUBSET Tags, hash : Contents \cup {None},
                             by : Principals \cup {None}, epoch : Nat]]
      BY <1>2, <2>1 DEF AInv, ATypeOK
    <3>2. /\ origin' \in [Docs -> Principals \cup {None}]
          /\ firsts' \in [Docs -> SUBSET Principals]
          /\ raws' \in [Docs -> SUBSET [by : Principals, tags : SUBSET Tags, kept : BOOLEAN]]
      BY <1>2, <2>1 DEF AInv, ATypeOK
    <3>3. call' \in [Adds -> CallType]
      BY <1>1, <2>1, AfterCommitIs
    <3> QED
      BY <1>1, <3>1, <3>2, <3>3 DEF AInv, ATypeOK, CallType
  <2>3. NothingBefore' /\ FirstIsOrigin'
    BY <1>1, <2>1, AccessAssumption DEF AInv, ATypeOK, NothingBefore, FirstIsOrigin, ForgottenByCreator
  <2>4. ByWriter'
    BY <1>3, <2>1 DEF AInv, ATypeOK, ByWriter
  <2>5. TagsGiven'
    BY <1>2, <1>3, <2>1 DEF AInv, ATypeOK, TagsGiven
  <2>6. \A e \in Docs : doc'[e] = doc[e] \/ (doc'[e].epoch \in Nat /\ doc[e].epoch < doc'[e].epoch)
    BY <2>1 DEF AInv, ATypeOK, NothingBefore
  <2> QED
    BY <1>1, <2>1, <2>2, <2>3, <2>4, <2>5, <2>6, CommitKeepsCalls DEF AInv
<1>5. CASE NoOp(c, p, d, h, peers, tenant)
  <2>1. /\ doc[d].hash = h
        /\ raws' = [raws EXCEPT ![d] = @ \cup {[by |-> p, tags |-> given, kept |-> FALSE]}]
        /\ AfterCommit(c, p, d, peers, tenant)
        /\ UNCHANGED <<doc, origin, firsts>>
    BY <1>5 DEF NoOp, Raw, given
  <2>2. ATypeOK'
    <3>1. raws' \in [Docs -> SUBSET [by : Principals, tags : SUBSET Tags, kept : BOOLEAN]]
      <4>1. [by |-> p, tags |-> given, kept |-> FALSE] \in RawType
        BY <1>2 DEF RawType
      <4>2. raws \in [Docs -> SUBSET RawType]
        BY DEF AInv, ATypeOK, RawType
      <4> QED
        BY <2>1, <4>1, <4>2 DEF RawType
    <3>2. call' \in [Adds -> CallType]
      BY <1>1, <2>1, AfterCommitIs
    <3> QED
      BY <1>1, <2>1, <3>1, <3>2 DEF AInv, ATypeOK, CallType
  <2>3. NothingBefore' /\ FirstIsOrigin'
    BY <1>1, <2>1, AccessAssumption DEF AInv, ATypeOK, NothingBefore, FirstIsOrigin, ForgottenByCreator
  <2>4. ByWriter'
    BY <1>3, <2>1 DEF AInv, ATypeOK, ByWriter
  <2>5. TagsGiven'
    BY <1>2, <1>3, <2>1 DEF AInv, ATypeOK, TagsGiven
  <2> QED
    BY <1>1, <2>1, <2>2, <2>3, <2>4, <2>5, CommitKeepsCalls DEF AInv
<1>6. CASE NewVersion(c, p, d, h, peers, tenant)
  <2>1. /\ doc[d].hash \notin {None, h}
        /\ doc' = [doc EXCEPT ![d] = [tags |-> given, hash |-> h, by |-> p,
                                      epoch |-> doc[d].epoch + 1]]
        /\ raws' = [raws EXCEPT ![d] = @ \cup {[by |-> p, tags |-> given, kept |-> TRUE]}]
        /\ AfterCommit(c, p, d, peers, tenant)
        /\ UNCHANGED <<origin, firsts>>
    BY <1>6 DEF NewVersion, Raw, given
  <2>2. ATypeOK'
    <3>1. doc' \in [Docs -> [tags : SUBSET Tags, hash : Contents \cup {None},
                             by : Principals \cup {None}, epoch : Nat]]
      BY <1>2, <2>1 DEF AInv, ATypeOK
    <3>2. raws' \in [Docs -> SUBSET [by : Principals, tags : SUBSET Tags, kept : BOOLEAN]]
      <4>1. [by |-> p, tags |-> given, kept |-> TRUE] \in RawType
        BY <1>2 DEF RawType
      <4>2. raws \in [Docs -> SUBSET RawType]
        BY DEF AInv, ATypeOK, RawType
      <4> QED
        BY <2>1, <4>1, <4>2 DEF RawType
    <3>3. call' \in [Adds -> CallType]
      BY <1>1, <2>1, AfterCommitIs
    <3> QED
      BY <1>1, <2>1, <3>1, <3>2, <3>3 DEF AInv, ATypeOK, CallType
  <2>3. NothingBefore' /\ FirstIsOrigin'
    BY <1>1, <2>1, AccessAssumption DEF AInv, ATypeOK, NothingBefore, FirstIsOrigin, ForgottenByCreator
  <2>4. ByWriter'
    BY <1>3, <2>1 DEF AInv, ATypeOK, ByWriter
  <2>5. TagsGiven'
    BY <1>2, <1>3, <2>1 DEF AInv, ATypeOK, TagsGiven
  <2>6. \A e \in Docs : doc'[e] = doc[e] \/ (doc'[e].epoch \in Nat /\ doc[e].epoch < doc'[e].epoch)
    BY <2>1 DEF AInv, ATypeOK
  <2> QED
    BY <1>1, <2>1, <2>2, <2>3, <2>4, <2>5, <2>6, CommitKeepsCalls DEF AInv
<1>7. CASE Refused(c, d)
  <2>1. call' = [call EXCEPT ![c].at = "failed"] /\ UNCHANGED <<doc, origin, firsts, raws>>
    BY <1>7 DEF Refused
  <2>2. /\ \A e \in Adds : e # c => call'[e] = call[e]
        /\ call[c] = Unused /\ call'[c] = [call[c] EXCEPT !.at = "failed"]
    BY <1>1, <2>1 DEF AInv, ATypeOK, CallsBegin
  <2>3. AskedStays
    BY <2>2 DEF AskedStays
  <2> QED
    <3>1. call' \in [Adds -> CallType]
      <4>1. call \in [Adds -> CallType]
        BY DEF AInv, ATypeOK, CallType
      <4>2. [call[c] EXCEPT !.at = "failed"] \in CallType
        BY <4>1 DEF CallType
      <4> QED
        BY <2>1, <4>1, <4>2
    <3>2. CallsBegin' /\ Owed'
      <4>1. /\ call'[c].at = "failed" /\ call'[c].materialized = "unset"
             /\ call'[c].left \subseteq call'[c].peers
        BY <2>2 DEF Unused
      <4>2. \A e \in Adds : e # c => call'[e] = call[e]
        BY <2>2
      <4>3. CallsBegin'
        BY <4>1, <4>2 DEF AInv, CallsBegin
      <4>4. host' = host
        BY <1>1
      <4> QED
        BY <4>1, <4>2, <4>3, <4>4 DEF AInv, Owed
    <3>3. Sharing'
      BY <1>1, <2>1, <2>2 DEF AInv, Sharing, Unused
    <3>4. GrantsGiven' /\ grants' \subseteq Principals \X Tags
      BY <1>1, <2>3, AskedKeeps DEF AInv, ATypeOK, GrantsGiven
    <3> QED
      BY <1>1, <2>1, <2>3, <3>1, <3>2, <3>3, <3>4, Handled DEF docVars
<1> QED
  BY <1>4, <1>5, <1>6, <1>7 DEF Commit

-----------------------------------------------------------------------------
(* What an add does after its transaction.                                 *)

\* A call goes on: it stays what it was for.
LEMMA GoesOn ==
    ASSUME AInv, NEW c \in Adds, call[c].at # "idle",
           NEW r \in CallType, call' = [call EXCEPT ![c] = r], r.at # "idle",
           r.doc = call[c].doc, r.by = call[c].by, r.peers = call[c].peers,
           r.tenant = call[c].tenant
    PROVE  /\ AskedStays /\ call' \in [Adds -> CallType] /\ call'[c] = r
           /\ \A e \in Adds : e # c => call'[e] = call[e]
<1>1. call \in [Adds -> CallType]
  BY DEF AInv, ATypeOK, CallType
<1>2. call'[c] = r /\ \A e \in Adds : e # c => call'[e] = call[e]
  BY <1>1
<1> QED
  BY <1>1, <1>2 DEF AskedStays

LEMMA CallIsTyped == ASSUME AInv, NEW c \in Adds PROVE call[c] \in CallType
BY DEF AInv, ATypeOK, CallType

LEMMA StampKeeps ==
    ASSUME AInv, NEW c \in Adds, Stamp(c)
    PROVE  AInv'
<1> DEFINE d == call[c].doc
           r == [call[c] EXCEPT !.at = "stamped", !.epoch = doc[d].epoch]
<1>1. /\ call[c].at = "committed" /\ d \in Docs
      /\ doc' = IF host.stamps THEN [doc EXCEPT ![d].tags = doc[d].tags \cup {DocTag(d)}]
                ELSE doc
      /\ call' = [call EXCEPT ![c] = r]
      /\ UNCHANGED <<host, origin, firsts, raws, forgotBy, grants, replays>>
  BY CallIsTyped DEF Stamp, Stamped, AInv, CallsBegin, ATypeOK
<1>2. r \in CallType /\ doc[d].epoch \in Nat
  <2>1. doc[d].epoch \in Nat
    BY <1>1 DEF AInv, ATypeOK
  <2> QED
    BY <1>1, <2>1, CallIsTyped DEF CallType
<1>3. /\ r.at = "stamped" /\ r.epoch = doc[d].epoch /\ r.doc = d /\ r.by = call[c].by
      /\ r.peers = call[c].peers /\ r.tenant = call[c].tenant /\ r.left = call[c].left
      /\ r.materialized = call[c].materialized
  BY <1>2, CallIsTyped DEF CallType
<1> HIDE DEF r
<1>4. /\ AskedStays /\ call' \in [Adds -> CallType] /\ call'[c] = r
      /\ \A e \in Adds : e # c => call'[e] = call[e]
  BY <1>1, <1>2, <1>3, GoesOn
<1>5. /\ \A e \in Docs : /\ doc'[e].hash = doc[e].hash /\ doc'[e].by = doc[e].by
                         /\ doc'[e].epoch = doc[e].epoch
                         /\ doc[e].tags \subseteq doc'[e].tags
                         /\ e # d => doc'[e].tags = doc[e].tags
      /\ doc'[d].tags \subseteq doc[d].tags \cup {DocTag(d)}
      /\ host.stamps => DocTag(d) \in doc'[d].tags
  BY <1>1 DEF AInv, ATypeOK
<1>6. ATypeOK'
  <2>1. DocTag(d) \in Tags
    BY <1>1 DEF Tags
  <2>2. doc' \in [Docs -> [tags : SUBSET Tags, hash : Contents \cup {None},
                           by : Principals \cup {None}, epoch : Nat]]
    <3>1. doc \in [Docs -> DocType]
      BY DEF AInv, ATypeOK, DocType
    <3>2. [doc[d] EXCEPT !.tags = doc[d].tags \cup {DocTag(d)}] \in DocType
      BY <1>1, <2>1, <3>1 DEF DocType
    <3> QED
      BY <1>1, <3>1, <3>2 DEF DocType
  <2> QED
    BY <1>1, <1>4, <2>2 DEF AInv, ATypeOK, CallType
<1>7. NothingBefore' /\ FirstIsOrigin'
  BY <1>1, <1>5 DEF AInv, NothingBefore, FirstIsOrigin, ForgottenByCreator
<1>8. TagsGiven'
  <2>1. \A e \in Docs : /\ \A g \in Docs : DocTag(g) \in doc'[e].tags => g = e
                        /\ TenantTag \in doc'[e].tags => TenantTag \in doc[e].tags
    BY <1>5, TagsDiffer DEF AInv, TagsGiven
  <2> QED
    BY <1>1, <1>4, <2>1, AskedKeeps DEF AInv, TagsGiven
<1>9. ByWriter'
  <2>1. \A e \in Docs : doc[e].by # None => doc[e].by \in Principals
    BY DEF AInv, ATypeOK
  <2> QED
    BY <1>4, <1>5, <2>1, AskedKeeps DEF AInv, ByWriter
<1>10. CallsBegin' /\ Owed'
  <2>1. call[c].materialized = "true" => host.stamps /\ call[c].left = {}
    BY DEF AInv, Owed
  <2> QED
    BY <1>1, <1>3, <1>4, <2>1 DEF AInv, CallsBegin, Owed
<1>11. Sharing'
  <2>1. ASSUME NEW e \in Adds, e # c
        PROVE  (call[e].at = "stamped" \/ call[e].materialized = "true") =>
                  LET g == call[e].doc
                  IN /\ g \in Docs
                     /\ call[e].epoch <= doc'[g].epoch
                     /\ host.stamps /\ doc'[g].epoch = call[e].epoch => DocTag(g) \in doc'[g].tags
                     /\ \A q \in call[e].peers \ {call[e].by} :
                           q \in call[e].left \/ <<q, DocTag(g)>> \in grants
    BY <1>5 DEF AInv, Sharing
  <2>2. \A q \in r.peers \ {r.by} : q \in r.left
    BY <1>1, <1>3 DEF AInv, Owed
  <2>3. r.epoch <= doc'[d].epoch
    <3>1. doc'[d].epoch = doc[d].epoch
      BY <1>1, <1>5
    <3> QED
      BY <1>2, <1>3, <3>1
  <2>4. LET g == call'[c].doc
        IN /\ g \in Docs
           /\ call'[c].epoch <= doc'[g].epoch
           /\ host.stamps /\ doc'[g].epoch = call'[c].epoch => DocTag(g) \in doc'[g].tags
           /\ \A q \in call'[c].peers \ {call'[c].by} :
                 q \in call'[c].left \/ <<q, DocTag(g)>> \in grants
    BY <1>1, <1>3, <1>4, <1>5, <2>2, <2>3
  <2>5. UNCHANGED <<host, grants>>
    BY <1>1
  <2> QED
    BY <1>4, <2>1, <2>4, <2>5 DEF Sharing
<1>12. GrantsGiven'
  BY <1>1, <1>4, AskedKeeps DEF AInv, GrantsGiven
<1> QED
  BY <1>6, <1>7, <1>8, <1>9, <1>10, <1>11, <1>12 DEF AInv

LEMMA PutGrantKeeps ==
    ASSUME AInv, NEW c \in Adds, NEW q \in Principals, PutGrant(c, q)
    PROVE  AInv'
<1> DEFINE d == call[c].doc
           r == [call[c] EXCEPT !.left = call[c].left \ {q}]
<1>1. /\ call[c].at = "stamped" /\ d \in Docs /\ q \in call[c].left
      /\ grants' = grants \cup {<<q, DocTag(d)>>}
      /\ call' = [call EXCEPT ![c] = r]
      /\ UNCHANGED <<host, docVars, replays>>
  BY CallIsTyped DEF PutGrant, GrantResource, AInv, CallsBegin, ATypeOK
<1>2. r \in CallType
  BY <1>1, CallIsTyped DEF CallType
<1>3. /\ r.at = "stamped" /\ r.epoch = call[c].epoch /\ r.doc = d /\ r.by = call[c].by
      /\ r.peers = call[c].peers /\ r.tenant = call[c].tenant /\ r.left = call[c].left \ {q}
      /\ r.materialized = call[c].materialized
  BY <1>1, <1>2, CallIsTyped DEF CallType
<1> HIDE DEF r
<1>4. /\ AskedStays /\ call' \in [Adds -> CallType] /\ call'[c] = r
      /\ \A e \in Adds : e # c => call'[e] = call[e]
  BY <1>1, <1>2, <1>3, GoesOn
<1>5. CallsBegin' /\ Owed'
  <2>1. call[c].materialized = "true" => host.stamps /\ call[c].left = {}
    BY DEF AInv, Owed
  <2> QED
    BY <1>1, <1>3, <1>4, <2>1 DEF AInv, CallsBegin, Owed
<1>6. Sharing'
  <2>1. \A e \in Adds : e # c => (call'[e] = call[e] /\ grants \subseteq grants')
    BY <1>1, <1>4
  <2>2. UNCHANGED <<host, doc>>
    BY <1>1 DEF docVars
  <2> QED
    BY <1>1, <1>3, <1>4, <2>1, <2>2 DEF AInv, Sharing
<1>7. GrantsGiven'
  <2>1. q \in call'[c].peers /\ call'[c].doc = d
    BY <1>1, <1>3, <1>4 DEF AInv, Owed
  <2> QED
    BY <1>1, <1>4, <2>1, AskedKeeps DEF AInv, GrantsGiven, SharedWith
<1>8. grants' \subseteq Principals \X Tags
  BY <1>1 DEF AInv, ATypeOK, Tags
<1> QED
  BY <1>1, <1>4, <1>5, <1>6, <1>7, <1>8, Handled

\* A call that ends, whatever it answers.
LEMMA EndsKeep ==
    ASSUME AInv, NEW c \in Adds, Answer(c) \/ MaterializeFails(c)
    PROVE  AInv'
<1>0. PICK m \in {"true", "false"} :
        /\ call' = [call EXCEPT ![c] = [call[c] EXCEPT !.at = "answered", !.materialized = m]]
        /\ m = "true" => /\ call[c].at = "stamped" /\ host.stamps /\ call[c].left = {}
  BY CallIsTyped DEF Answer, MaterializeFails, Materialized, AInv, ATypeOK
<1> DEFINE r == [call[c] EXCEPT !.at = "answered", !.materialized = m]
<1>1. /\ call[c].at \in {"committed", "stamped"}
      /\ call' = [call EXCEPT ![c] = r]
      /\ UNCHANGED <<host, docVars, grants, replays>>
  BY <1>0 DEF Answer, MaterializeFails
<1>2. r \in CallType
  <2>1. call[c] \in CallType
    BY CallIsTyped
  <2> QED
    BY <2>1 DEF CallType
<1>3. /\ r.at = "answered" /\ r.epoch = call[c].epoch /\ r.doc = call[c].doc
      /\ r.by = call[c].by /\ r.peers = call[c].peers /\ r.tenant = call[c].tenant
      /\ r.left = call[c].left /\ r.materialized = m
  BY <1>1, <1>2, CallIsTyped DEF CallType
<1> HIDE DEF r
<1>4. /\ AskedStays /\ call' \in [Adds -> CallType] /\ call'[c] = r
      /\ \A e \in Adds : e # c => call'[e] = call[e]
  BY <1>1, <1>2, <1>3, GoesOn
<1>5. CallsBegin' /\ Owed'
  BY <1>0, <1>1, <1>3, <1>4 DEF AInv, CallsBegin, Owed
<1>6. Sharing'
  <2>1. UNCHANGED <<host, doc, grants>>
    BY <1>1 DEF docVars
  <2> QED
    BY <1>0, <1>1, <1>3, <1>4, <2>1 DEF AInv, Sharing
<1>7. GrantsGiven' /\ grants' \subseteq Principals \X Tags
  BY <1>1, <1>4, AskedKeeps DEF AInv, ATypeOK, GrantsGiven
<1> QED
  BY <1>1, <1>4, <1>5, <1>6, <1>7, Handled

-----------------------------------------------------------------------------
(* The host, the replays and the ownership gate.                           *)

LEMMA HostGrantsKeeps ==
    ASSUME AInv, NEW p \in Principals, HostGrants(p)
    PROVE  AInv'
<1>1. /\ grants' = grants \cup {<<p, TenantTag>>}
      /\ UNCHANGED <<host, docVars, call, replays>>
  BY DEF HostGrants
<1>2. AskedStays /\ call' \in [Adds -> CallType]
  BY <1>1 DEF AskedStays, AInv, ATypeOK, CallType
<1>3. CallsBegin' /\ Owed'
  BY <1>1 DEF AInv, CallsBegin, Owed
<1>4. Sharing'
  <2>1. UNCHANGED <<host, doc, call>> /\ grants \subseteq grants'
    BY <1>1 DEF docVars
  <2> QED
    BY <2>1 DEF AInv, Sharing
<1>5. GrantsGiven' /\ grants' \subseteq Principals \X Tags
  <2>1. <<p, TenantTag>> \in Principals \X Tags
    BY DEF Tags
  <2>2. \A g \in grants' : g \in grants \/ g[2] = TenantTag
    BY <1>1
  <2>3. GrantsGiven'
    BY <1>2, <2>2, AskedKeeps DEF AInv, GrantsGiven
  <2> QED
    BY <1>1, <2>1, <2>3 DEF AInv, ATypeOK
<1> QED
  BY <1>1, <1>2, <1>3, <1>4, <1>5, Handled

LEMMA ReplayKeeps ==
    ASSUME AInv, NEW d \in Docs, ReplayDerives(d)
    PROVE  AInv'
<1>1. PICK r \in raws[d] :
        /\ doc' = [doc EXCEPT ![d].tags = r.tags, ![d].epoch = doc[d].epoch + 1]
        /\ firsts' \in {firsts, [firsts EXCEPT ![d] = firsts[d] \cup {r.by}]}
  BY DEF ReplayDerives, AInv, ATypeOK
<1>2. /\ replays' = replays + 1 /\ replays \in Nat
      /\ UNCHANGED <<host, origin, raws, forgotBy, grants, call>>
  BY DEF ReplayDerives, AInv, ATypeOK
<1>3. r.by \in Principals /\ r.tags \in SUBSET Tags
  BY <1>1 DEF AInv, ATypeOK
<1>4. /\ \A e \in Docs : e # d => doc'[e] = doc[e]
      /\ doc'[d].tags = r.tags /\ doc'[d].hash = doc[d].hash /\ doc'[d].by = doc[d].by
      /\ doc'[d].epoch = doc[d].epoch + 1 /\ doc[d].epoch \in Nat
  BY <1>1 DEF AInv, ATypeOK
<1>5. ATypeOK'
  <2>1. doc' \in [Docs -> [tags : SUBSET Tags, hash : Contents \cup {None},
                           by : Principals \cup {None}, epoch : Nat]]
    BY <1>1, <1>3, <1>4 DEF AInv, ATypeOK
  <2>2. firsts' \in [Docs -> SUBSET Principals]
    BY <1>1, <1>3 DEF AInv, ATypeOK
  <2> QED
    BY <1>2, <2>1, <2>2 DEF AInv, ATypeOK
<1>6. NothingBefore'
  <2>1. origin[d] # None
    BY <1>1 DEF AInv, NothingBefore
  <2>2. \A e \in Docs : e # d => firsts'[e] = firsts[e]
    BY <1>1 DEF AInv, ATypeOK
  <2> QED
    BY <1>2, <1>4, <2>1, <2>2 DEF AInv, NothingBefore
<1>7. AskedStays
  BY <1>2 DEF AskedStays
<1>8. TagsGiven'
  BY <1>1, <1>2, <1>4, <1>7, AskedKeeps DEF AInv, TagsGiven
<1>9. ByWriter'
  <2>1. \A e \in Docs : doc[e].by # None => doc[e].by \in Principals
    BY DEF AInv, ATypeOK
  <2> QED
    BY <1>4, <1>7, <2>1, AskedKeeps DEF AInv, ByWriter
<1>10. CallsBegin' /\ Owed' /\ FirstIsOrigin'
  BY <1>2 DEF AInv, CallsBegin, Owed, FirstIsOrigin
<1>11. GrantsGiven'
  BY <1>2, <1>7, AskedKeeps DEF AInv, GrantsGiven
<1>12. Sharing'
  <2>1. \A e \in Docs : /\ doc[e].epoch \in Nat
                        /\ doc'[e] = doc[e] \/ doc'[e].epoch = doc[e].epoch + 1
    BY <1>4 DEF AInv, ATypeOK
  <2>2. \A c \in Adds : call[c].epoch \in Nat
    BY CallIsTyped DEF CallType
  <2> QED
    BY <1>2, <2>1, <2>2 DEF AInv, Sharing
<1> QED
  BY <1>5, <1>6, <1>8, <1>9, <1>10, <1>11, <1>12 DEF AInv

LEMMA ForgetKeeps ==
    ASSUME AInv, NEW p \in Principals, NEW d \in Docs, Forget(p, d)
    PROVE  AInv'
<1>1. /\ doc[d].hash # None /\ p \in firsts[d]
      /\ doc' = [doc EXCEPT ![d].hash = None, ![d].by = None]
      /\ forgotBy' = [forgotBy EXCEPT ![d] = p]
      /\ raws' = [raws EXCEPT ![d] = {r \in raws[d] : ~r.kept}]
      /\ UNCHANGED <<host, origin, firsts, grants, call, replays>>
  BY DEF Forget, OwnersOf, AInv, ATypeOK
<1>2. /\ \A e \in Docs : /\ e # d => doc'[e] = doc[e] /\ forgotBy'[e] = forgotBy[e]
                         /\ raws'[e] \subseteq raws[e]
                         /\ doc'[e].tags = doc[e].tags /\ doc'[e].epoch = doc[e].epoch
      /\ doc'[d].hash = None /\ doc'[d].by = None /\ forgotBy'[d] = p
  BY <1>1 DEF AInv, ATypeOK
<1>3. ATypeOK'
  <2>1. doc' \in [Docs -> [tags : SUBSET Tags, hash : Contents \cup {None},
                           by : Principals \cup {None}, epoch : Nat]]
    <3>1. doc \in [Docs -> DocType]
      BY DEF AInv, ATypeOK, DocType
    <3>2. [doc[d] EXCEPT !.hash = None, !.by = None] \in DocType
      BY <3>1 DEF DocType
    <3> QED
      BY <1>1, <3>1, <3>2 DEF DocType
  <2>2. /\ forgotBy' \in [Docs -> Principals \cup {None}]
        /\ raws' \in [Docs -> SUBSET [by : Principals, tags : SUBSET Tags, kept : BOOLEAN]]
    BY <1>1 DEF AInv, ATypeOK
  <2> QED
    BY <1>1, <2>1, <2>2 DEF AInv, ATypeOK
<1>4. origin[d] # None
  BY <1>1 DEF AInv, NothingBefore
<1>5. NothingBefore'
  <2>1. \A e \in Docs : e # d => raws'[e] = raws[e]
    BY <1>1 DEF AInv, ATypeOK
  <2>2. origin' = origin /\ firsts' = firsts
    BY <1>1
  <2> QED
    BY <1>2, <1>4, <2>1, <2>2 DEF AInv, NothingBefore
<1>6. FirstIsOrigin'
  BY <1>1, <1>2 DEF AInv, FirstIsOrigin, ForgottenByCreator
<1>7. AskedStays
  BY <1>1 DEF AskedStays
<1>8. TagsGiven'
  BY <1>1, <1>2, <1>7, AskedKeeps DEF AInv, TagsGiven
<1>9. ByWriter'
  <2>1. \A e \in Docs : doc[e].by # None => doc[e].by \in Principals
    BY DEF AInv, ATypeOK
  <2> QED
    BY <1>2, <1>7, <2>1, AskedKeeps DEF AInv, ByWriter
<1>10. CallsBegin' /\ Owed'
  BY <1>1 DEF AInv, CallsBegin, Owed
<1>11. GrantsGiven'
  BY <1>1, <1>7, AskedKeeps DEF AInv, GrantsGiven
<1>12. Sharing'
  <2>1. \A e \in Docs : doc'[e].tags = doc[e].tags /\ doc'[e].epoch = doc[e].epoch
    BY <1>2
  <2>2. UNCHANGED <<host, grants, call>>
    BY <1>1
  <2> QED
    BY <2>1, <2>2 DEF AInv, Sharing
<1> QED
  BY <1>3, <1>5, <1>6, <1>8, <1>9, <1>10, <1>11, <1>12 DEF AInv

-----------------------------------------------------------------------------
(* The theorems.                                                           *)

LEMMA NextAInv == AInv /\ [ANext]_avars => AInv'
<1> SUFFICES ASSUME AInv, [ANext]_avars PROVE AInv'
  OBVIOUS
<1>1. CASE UNCHANGED avars
  <2>1. UNCHANGED <<host, docVars, grants, call, replays>>
    BY <1>1 DEF avars, docVars
  <2>2. AskedStays /\ call' \in [Adds -> CallType]
    BY <2>1 DEF AskedStays, AInv, ATypeOK, CallType
  <2>3. CallsBegin' /\ Owed' /\ Sharing'
    BY <2>1 DEF AInv, CallsBegin, Owed, Sharing, docVars
  <2>4. GrantsGiven' /\ grants' \subseteq Principals \X Tags
    BY <2>1, <2>2, AskedKeeps DEF AInv, ATypeOK, GrantsGiven
  <2> QED
    BY <2>1, <2>2, <2>3, <2>4, Handled
<1>2. CASE ANext
  BY <1>2, CommitKeeps, StampKeeps, PutGrantKeeps, EndsKeep, HostGrantsKeeps, ReplayKeeps,
     ForgetKeeps DEF ANext
<1> QED
  BY <1>1, <1>2

LEMMA AInvHolds == ASpec => []AInv
BY InitAInv, NextAInv, PTL DEF ASpec

\* An add that answers grantsMaterialized has given its peers the document,
\* whatever other adds did between its statements, and while no replay has
\* derived one again only its creator forgets it (memory.ts,
\* retention-ownership.ts).
THEOREM SharesAreKept == ASpec => []AccessInv
<1>1. AInv => AccessInv
  <2> SUFFICES ASSUME AInv PROVE AccessInv
    OBVIOUS
  <2>1. ASSUME NEW c \in Adds, call[c].materialized = "true",
               doc[call[c].doc].hash # None, doc[call[c].doc].epoch = call[c].epoch,
               NEW q \in call[c].peers \ {call[c].by}
        PROVE  Sees(q, call[c].doc)
    <3>1. DocTag(call[c].doc) \in doc[call[c].doc].tags
      BY <2>1 DEF AInv, Sharing, Owed
    <3>2. <<q, DocTag(call[c].doc)>> \in grants
      BY <2>1 DEF AInv, Sharing, Owed
    <3> QED
      BY <2>1, <3>1, <3>2 DEF Sees, CanAccess
  <2>2. MaterializedMeansSeen
    BY <2>1 DEF MaterializedMeansSeen
  <2>3. ForgottenByCreator
    BY DEF AInv, FirstIsOrigin, ForgottenByCreator
  <2> QED
    BY <2>2, <2>3 DEF AInv, AccessInv
<1> QED
  BY <1>1, AInvHolds, PTL

\* Nobody sees a document that no add gave him, in whatever order shares, later
\* versions, replays and grants of the host are done (grant-tags.ts).
THEOREM SightIsGiven == ASpec => []SeenWasGiven
<1>1. AInv => SeenWasGiven
  <2> SUFFICES ASSUME AInv, NEW p \in Principals, NEW d \in Docs, Sees(p, d)
               PROVE  \/ p \in Writers(d)
                      \/ SharedWith(p, d)
                      \/ <<p, TenantTag>> \in grants /\ TenantShared(d)
    BY DEF SeenWasGiven, SharedWith, TenantShared
  <2>1. CASE doc[d].by = p
    BY <2>1, AccessAssumption DEF AInv, ByWriter
  <2>2. ASSUME NEW t \in doc[d].tags, <<p, t>> \in grants
        PROVE  SharedWith(p, d) \/ (<<p, TenantTag>> \in grants /\ TenantShared(d))
    <3>1. t = TenantTag \/ \E e \in Docs : t = DocTag(e) /\ SharedWith(p, e)
      BY <2>2 DEF AInv, GrantsGiven
    <3> QED
      BY <2>2, <3>1 DEF AInv, TagsGiven
  <2> QED
    BY <2>1, <2>2 DEF Sees, CanAccess
<1> QED
  BY <1>1, AInvHolds, PTL
=============================================================================
