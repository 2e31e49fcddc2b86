---------------------------- MODULE EmbedProofs ----------------------------
(***************************************************************************)
(* Theorems about the way of a text to its vectors: the scheduler that     *)
(* embeds in the background, for any tenants, adds and bounds; the model   *)
(* registry, for any number of processes, models and calls; and the        *)
(* chunker, for any texts and any caps with MinChars <= MaxChars.          *)
(*                                                                         *)
(* The scheduler's argument: the drain at the head of the chain is the     *)
(* only one in a pass (TurnHeld), and an add that waits and is not done    *)
(* with is either in its tenant's queue or among the fresh chunks of its   *)
(* tenant's pass, still to be stored and with every earlier attempt of the *)
(* pass counted against it (Tracked).  That a pass never counts more       *)
(* attempts than it may rests on AttemptsLeft: one that waits to retry has *)
(* an attempt left.                                                        *)
(*                                                                         *)
(* The registry's: an index, once there, is never lost, and each call that *)
(* is about to write "active", or has written it and not committed, has an *)
(* indexed table in its hands: it built or found the index in the steps    *)
(* before, or it names a model that a promote found active and recorded.   *)
(*                                                                         *)
(* The chunker's: what the separators and the hard cut leave are leaves no *)
(* longer than the cap, cut within a word only where the word is longer    *)
(* (LeavesAre); the groups, with the leaves in hand as the last, stand in  *)
(* line from the start of the text (Line, InHand); and a line that reaches *)
(* the end of the text makes chunks that do (ChunksAre, PlanOK).           *)
(***************************************************************************)
EXTENDS EmbedScheduler, EmbedRegistry, Chunker, Subsequence, SequenceTheorems

\* The shape of the scheduler's variables.
QueueShape ==
    /\ add \in [Adds -> {"none", "captured", "enqueued", "settled", "lost"}]
    /\ queue \in [Tenants -> [queued: BOOLEAN, chunks: Seq(Adds)]]
    /\ chain \in Seq(Tenants)

\* A record with the fields of a pass, whatever their values.
IsPass(p) == p = [at |-> p.at, batch |-> p.batch, rest |-> p.rest, attempt |-> p.attempt]

PassShape ==
    /\ pass = [t \in Tenants |-> pass[t]]
    /\ \A t \in Tenants : IsPass(pass[t])

Shapes == QueueShape /\ PassShape

\* The steps at the embedder and the registry.
Sends(t) == RegisterModel(t) \/ SendBatch(t) \/ RegisterForSweep(t)

\* The shape of the rest.
TableShape ==
    /\ stored \in Seq(Adds)
    /\ gone \in SUBSET Adds /\ hidden \in SUBSET Adds /\ vec \in SUBSET Adds
    /\ fails \in [Adds -> Nat]
    /\ outages \in Nat /\ crashes \in Nat

PassRecord == [at: {"off", "register", "fresh", "storing", "waiting",
                    "find", "sweep", "sweeping"},
               batch: Seq(Adds), rest: Seq(Adds), attempt: 0..MaxAttempts]

PassType == pass \in [Tenants -> PassRecord]

\* A pass that waits to try again may.
AttemptsLeft == \A t \in Tenants : pass[t].at = "waiting" => pass[t].attempt < MaxAttempts

\* Only the drain whose turn it is runs.
TurnHeld == \A t \in Tenants : Running(t) => ItsTurn(t)

\* A chunk that a pass is at, with each attempt that failed counted.
InPass(a, p) ==
    /\ p.at \in {"register", "fresh", "storing", "waiting"}
    /\ a \in Range(p.batch)
    /\ p.at = "storing" => a \in Range(p.rest)
    /\ fails[a] + 1 >= p.attempt
    /\ p.at = "waiting" => fails[a] >= p.attempt

\* A chunk that waits and is not done with is queued or in its tenant's pass.
Awaiting(a) ==
    \/ a \in Range(queue[TenantOf[a]].chunks)
    \/ InPass(a, pass[TenantOf[a]])

Tracked == \A a \in Adds : add[a] = "enqueued" /\ ~DoneWith(a) => Awaiting(a)

EInv == TypeOK /\ AttemptsLeft /\ TurnHeld /\ Tracked /\ SettledOnlyWhenDone /\ NoOrphanVector

\* What appending to a sequence adds to its elements.
LEMMA RangeAppend ==
    ASSUME NEW S, NEW s \in Seq(S), NEW e \in S
    PROVE  Range(Append(s, e)) = Range(s) \cup {e}
<1> DEFINE z == Append(s, e)
<1>1. /\ DOMAIN z = 1..(Len(s) + 1)
      /\ z[Len(s) + 1] = e
      /\ \A i \in 1..Len(s) : z[i] = s[i]
  OBVIOUS
<1>2. DOMAIN s = 1..Len(s) /\ Len(s) \in Nat
  OBVIOUS
<1>3. Range(z) \subseteq Range(s) \cup {e}
  <2> SUFFICES ASSUME NEW i \in 1..(Len(s) + 1)
               PROVE  z[i] \in Range(s) \cup {e}
    BY <1>1 DEF Range
  <2> HIDE DEF z
  <2>1. CASE i = Len(s) + 1
    BY <2>1, <1>1
  <2>2. CASE i # Len(s) + 1
    BY <2>2, <1>1, <1>2 DEF Range
  <2> QED
    BY <2>1, <2>2
<1>4. Range(s) \cup {e} \subseteq Range(z)
  <2> HIDE DEF z
  <2>1. \A i \in 1..Len(s) : s[i] \in Range(z)
    BY <1>1, <1>2 DEF Range
  <2>2. e \in Range(z)
    BY <1>1, <1>2 DEF Range
  <2> QED
    BY <2>1, <2>2, <1>2 DEF Range
<1> QED
  BY <1>3, <1>4

\* Every variable of an idle state is as the process starts with it.
LEMMA InitEInv == Init => EInv
  BY EmbedAssumption
  DEF Init, EInv, TypeOK, AttemptsLeft, TurnHeld, Running, Tracked, SettledOnlyWhenDone, NoOrphanVector,
      NoState, NoPass

\* The scheduler's variables keep their shape.
LEMMA QueueShapeStep == QueueShape /\ [Next]_evars => QueueShape'
<1> SUFFICES ASSUME QueueShape, [Next]_evars PROVE QueueShape'
  OBVIOUS
<1> USE EmbedAssumption DEF QueueShape
<1>0. <<>> \in Seq(Adds)
  OBVIOUS
<1>1. ASSUME NEW a \in Adds, Capture(a) \/ Purge(a) \/ Forget(a) PROVE QueueShape'
  BY <1>1 DEF Capture, Purge, Forget, queueVars
<1>2. ASSUME NEW a \in Adds, Enqueue(a) PROVE QueueShape'
  <2>1. TenantOf[a] \in Tenants
    OBVIOUS
  <2>2. Append(queue[TenantOf[a]].chunks, a) \in Seq(Adds)
    BY <2>1
  <2> QED
    BY <1>2, <2>1, <2>2 DEF Enqueue
<1>3. ASSUME NEW t \in Tenants, StartPass(t) PROVE QueueShape'
  BY <1>0, <1>3 DEF StartPass
<1>4. ASSUME NEW t \in Tenants, EndDrain(t) PROVE QueueShape'
  BY <1>0, <1>4 DEF EndDrain, ItsTurn, StateDeleted, NoState
<1>5. ASSUME NEW t \in Tenants,
             Retry(t) \/ Sends(t) \/ StoreVector(t) \/ FindPending(t) \/ EndSweep(t)
      PROVE  QueueShape'
  BY <1>5 DEF Retry, Sends, RegisterModel, SendBatch, RegisterForSweep, Outage, AttemptFails,
      StoreVector, FindPending, EndSweep, queueVars
<1>6. CASE Crash
  BY <1>0, <1>6 DEF Crash, NoState
<1>7. CASE UNCHANGED evars
  BY <1>7 DEF evars
<1> QED
  BY <1>1, <1>2, <1>3, <1>4, <1>5, <1>6, <1>7 DEF Next, PassStep, Sends

\* The tables keep theirs: a chunk that is stored is one of an add.
LEMMA TableShapeStep == TableShape /\ TypeOK /\ [Next]_evars => TableShape'
<1> SUFFICES ASSUME TableShape, TypeOK, [Next]_evars PROVE TableShape'
  OBVIOUS
<1> USE EmbedAssumption DEF TableShape, tableVars, boundVars
<1>1. ASSUME NEW a \in Adds, Capture(a) \/ Enqueue(a) \/ Purge(a) \/ Forget(a)
      PROVE  TableShape'
  <2>1. Append(stored, a) \in Seq(Adds)
    OBVIOUS
  <2>2. CASE Capture(a)
    BY <2>1, <2>2 DEF Capture
  <2>3. CASE Enqueue(a)
    BY <2>3 DEF Enqueue
  <2>4. CASE Purge(a) \/ Forget(a)
    BY <2>4 DEF Purge, Forget
  <2> QED
    BY <1>1, <2>2, <2>3, <2>4
<1>c. \A p : FailsCounted(p) \in [Adds -> Nat]
  BY DEF FailsCounted
<1>2. ASSUME NEW t \in Tenants, Sends(t) PROVE TableShape'
  BY <1>2, <1>c DEF Sends, RegisterModel, SendBatch, RegisterForSweep, Outage, AttemptFails
<1>3. ASSUME NEW t \in Tenants, StoreVector(t) PROVE TableShape'
  <2>1. pass[t].rest \in Seq(Adds) /\ pass[t].rest # <<>>
    BY <1>3 DEF StoreVector, TypeOK
  <2>2. Head(pass[t].rest) \in Adds
    BY <2>1
  <2> QED
    BY <1>3, <1>c, <2>2 DEF StoreVector, Outage, AttemptFails
<1>4. ASSUME NEW t \in Tenants,
             StartPass(t) \/ EndDrain(t) \/ Retry(t) \/ FindPending(t) \/ EndSweep(t)
      PROVE  TableShape'
  BY <1>4 DEF StartPass, EndDrain, Retry, FindPending, EndSweep
<1>5. CASE Crash
  BY <1>5 DEF Crash
<1>6. CASE UNCHANGED evars
  BY <1>6 DEF evars
<1> QED
  BY <1>1, <1>2, <1>3, <1>4, <1>5, <1>6 DEF Next, PassStep, Sends

\* What a sweep takes up are chunks that are stored.
LEMMA PendingType ==
    ASSUME TypeOK, NEW t \in Tenants
    PROVE  FirstOf(Pending(t)) \in Seq(Adds)
<1> DEFINE K == {i \in DOMAIN stored : /\ TenantOf[stored[i]] = t
                                       /\ stored[i] \notin gone \cup hidden \cup vec}
<1>1. stored \in Seq(Adds) /\ K \in SUBSET DOMAIN stored
  BY DEF TypeOK
<1>2. Pending(t) = ElementsAt(stored, K)
  BY DEF Pending
<1> HIDE DEF K
<1>3. Pending(t) \in Seq(Adds)
  BY <1>1, <1>2, ElementsAtType
<1>4. ASSUME NEW s \in Seq(Adds)
      PROVE  FirstOf(s) \in Seq(Adds)
  <2>1. PICK n \in 0..Len(s) : FirstOf(s) = SubSeq(s, 1, n)
    BY EmbedAssumption DEF FirstOf, Least
  <2> QED
    BY <2>1, SubSeqProperties
<1> QED
  BY <1>3, <1>4

LEMMA HeadOrTail ==
    ASSUME NEW s \in Seq(Adds), s # <<>>, NEW a \in Range(s)
    PROVE  a = Head(s) \/ a \in Range(Tail(s))
<1>1. PICK i \in 1..Len(s) : a = s[i]
  BY DEF Range
<1>2. CASE i = 1
  BY <1>1, <1>2
<1>3. CASE i # 1
  <2>1. i - 1 \in DOMAIN Tail(s) /\ Tail(s)[i - 1] = s[i]
    BY <1>1, <1>3
  <2> QED
    BY <1>1, <2>1 DEF Range
<1> QED
  BY <1>2, <1>3

LEMMA LaterType ==
    ASSUME NEW s \in Seq(Adds)
    PROVE  LaterBatches(s) \in Seq(Adds)
<1>1. PICK n \in 0..Len(s) : LaterBatches(s) = SubSeq(s, n + 1, Len(s))
  BY EmbedAssumption DEF LaterBatches, Least
<1> QED
  BY <1>1, SubSeqProperties

\* A pass is the record it is said to be, and one that waits for a retry has an
\* attempt left: no pass makes more of them than it may.
LEMMA PassStepType ==
    TypeOK /\ AttemptsLeft /\ [Next]_evars => PassType' /\ AttemptsLeft'
<1> SUFFICES ASSUME TypeOK, AttemptsLeft, [Next]_evars PROVE PassType' /\ AttemptsLeft'
  OBVIOUS
<1> USE EmbedAssumption
<1>0. /\ pass \in [Tenants -> PassRecord] /\ NoPass \in PassRecord
      /\ \A t \in Tenants : pass[t].at = "waiting" => pass[t].attempt < MaxAttempts
  <2>1. pass \in [Tenants -> PassRecord]
    BY DEF TypeOK, PassRecord
  <2>2. NoPass \in PassRecord
    BY DEF NoPass, PassRecord
  <2> QED
    BY <2>1, <2>2 DEF AttemptsLeft
<1>1. ASSUME NEW t \in Tenants, NEW p \in PassRecord, pass' = [pass EXCEPT ![t] = p],
             p.at = "waiting" => p.attempt < MaxAttempts
      PROVE  PassType' /\ AttemptsLeft'
  BY <1>0, <1>1 DEF PassType, AttemptsLeft
<1>2. CASE pass' = pass
  BY <1>0, <1>2 DEF PassType, AttemptsLeft
<1>3. ASSUME NEW t \in Tenants, StartPass(t) PROVE PassType' /\ AttemptsLeft'
  <2>1. [at |-> "register", batch |-> queue[t].chunks, rest |-> <<>>, attempt |-> 1] \in PassRecord
    BY DEF TypeOK, PassRecord
  <2> QED
    BY <1>1, <1>3, <2>1 DEF StartPass
<1>4. ASSUME NEW t \in Tenants, Retry(t) PROVE PassType' /\ AttemptsLeft'
  <2> DEFINE p == [[pass[t] EXCEPT !.at = "register"] EXCEPT !.attempt = @ + 1]
  <2>1. pass' = [pass EXCEPT ![t] = p]
    BY <1>0, <1>4 DEF Retry, PassRecord
  <2>2. pass[t].attempt + 1 \in 0..MaxAttempts
    BY <1>0, <1>4 DEF Retry, PassRecord
  <2>3. p \in PassRecord /\ p.at = "register"
    BY <1>0, <2>2 DEF PassRecord
  <2> HIDE DEF p
  <2> QED
    BY <1>1, <2>1, <2>3
<1>5. ASSUME NEW t \in Tenants
      PROVE  /\ Degraded(pass[t]) \in PassRecord
             /\ Degraded(pass[t]).at = "waiting" => Degraded(pass[t]).attempt < MaxAttempts
  <2>1. pass[t] \in PassRecord /\ NoPass.at # "waiting"
    BY <1>0 DEF NoPass
  <2>2. [pass[t] EXCEPT !.at = "waiting"] \in PassRecord
    BY <2>1 DEF PassRecord
  <2>3. [pass[t] EXCEPT !.at = "waiting"].attempt = pass[t].attempt
    BY <2>1 DEF PassRecord
  <2> QED
    BY <1>0, <2>1, <2>2, <2>3 DEF Degraded
<1>f. ASSUME NEW t \in Tenants, AttemptFails(t) PROVE PassType' /\ AttemptsLeft'
  BY <1>0, <1>1, <1>5, <1>f DEF AttemptFails
<1>6. ASSUME NEW t \in Tenants, Sends(t) PROVE PassType' /\ AttemptsLeft'
  <2>1. CASE AttemptFails(t)
    BY <1>f, <2>1
  <2>2. ASSUME NEW a \in {"fresh", "storing", "find", "sweeping"}, NEW q \in Seq(Adds),
               pass' = [pass EXCEPT ![t] = [pass[t] EXCEPT !.at = a, !.rest = q]]
        PROVE  PassType' /\ AttemptsLeft'
    <3> DEFINE p == [pass[t] EXCEPT !.at = a, !.rest = q]
    <3>1. p \in PassRecord /\ p.at # "waiting"
      BY <1>0 DEF PassRecord
    <3> HIDE DEF p
    <3>2. pass' = [pass EXCEPT ![t] = p]
      BY <2>2 DEF p
    <3> QED
      BY <1>1, <3>1, <3>2
  <2>3. CASE RegisterModel(t)
    <3>1. CASE pass' = [pass EXCEPT ![t].at = "fresh", ![t].rest = pass[t].batch]
      <4>1. pass' = [pass EXCEPT ![t] = [pass[t] EXCEPT !.at = "fresh", !.rest = pass[t].batch]]
        BY <1>0, <3>1
      <4>2. pass[t].batch \in Seq(Adds)
        BY <1>0 DEF PassRecord
      <4> QED
        BY <2>2, <4>1, <4>2
    <3> QED
      BY <2>1, <2>3, <3>1 DEF RegisterModel, Outage
  <2>4. CASE SendBatch(t)
    <3> DEFINE q == LaterBatches(pass[t].rest)
    <3>1. pass[t] \in PassRecord /\ pass[t].rest \in Seq(Adds) /\ pass[t].batch \in Seq(Adds)
      BY <1>0 DEF PassRecord
    <3>2. q \in Seq(Adds)
      BY <3>1, LaterType
    <3>3. CASE pass' = [pass EXCEPT ![t] = [pass[t] EXCEPT !.rest = q]]
      <4>1. [pass[t] EXCEPT !.rest = q] = [pass[t] EXCEPT !.at = pass[t].at, !.rest = q]
        BY <3>1 DEF PassRecord
      <4>2. pass[t].at \in {"fresh", "sweep"}
        BY <2>4 DEF SendBatch
      <4>3. [pass[t] EXCEPT !.rest = q] \in PassRecord
        BY <3>1, <3>2 DEF PassRecord
      <4>4. [pass[t] EXCEPT !.rest = q].at # "waiting"
        BY <3>1, <4>2 DEF PassRecord
      <4> QED
        BY <1>1, <3>3, <4>3, <4>4
    <3>4. CASE pass' = [pass EXCEPT ![t] =
                 [pass[t] EXCEPT !.at = IF @ = "fresh" THEN "storing" ELSE "sweeping",
                                 !.rest = pass[t].batch]]
      <4>1. PICK a \in {"storing", "sweeping"} :
                pass' = [pass EXCEPT ![t] = [pass[t] EXCEPT !.at = a, !.rest = pass[t].batch]]
        BY <3>1, <3>4 DEF PassRecord
      <4> QED
        BY <2>2, <3>1, <4>1
    <3>5. CASE pass' = [pass EXCEPT ![t].rest = LaterBatches(@)]
      <4>1. pass' = [pass EXCEPT ![t] = [pass[t] EXCEPT !.rest = q]]
        BY <1>0, <3>5
      <4> QED
        BY <3>3, <4>1
    <3>6. CASE pass' = [pass EXCEPT ![t].at = IF @ = "fresh" THEN "storing" ELSE "sweeping",
                                    ![t].rest = pass[t].batch]
      <4>1. pass' = [pass EXCEPT ![t] =
               [pass[t] EXCEPT !.at = IF @ = "fresh" THEN "storing" ELSE "sweeping",
                               !.rest = pass[t].batch]]
        BY <1>0, <3>6
      <4> QED
        BY <3>4, <4>1
    <3>7. CASE AttemptFails(t)
      BY <2>1, <3>7
    <3> QED
      BY <2>4, <3>5, <3>6, <3>7 DEF SendBatch, Outage
  <2>5. CASE RegisterForSweep(t)
    <3>1. CASE pass' = [pass EXCEPT ![t].at = "find"]
      <4> DEFINE p == [pass[t] EXCEPT !.at = "find"]
      <4>1. pass' = [pass EXCEPT ![t] = p]
        BY <1>0, <3>1
      <4>2. p \in PassRecord /\ p.at # "waiting"
        BY <1>0 DEF PassRecord
      <4> HIDE DEF p
      <4> QED
        BY <1>1, <4>1, <4>2
    <3>2. CASE pass' = [pass EXCEPT ![t] = NoPass]
      <4>1. NoPass.at # "waiting"
        BY DEF NoPass
      <4> QED
        BY <1>0, <1>1, <3>2, <4>1
    <3> QED
      BY <2>5, <3>1, <3>2 DEF RegisterForSweep
  <2> QED
    BY <1>6, <2>3, <2>4, <2>5 DEF Sends
<1>7. ASSUME NEW t \in Tenants, StoreVector(t) PROVE PassType' /\ AttemptsLeft'
  <2>2. CASE pass' = [pass EXCEPT ![t].rest = Tail(@)]
    <3> DEFINE p == [pass[t] EXCEPT !.rest = Tail(pass[t].rest)]
    <3>1. pass' = [pass EXCEPT ![t] = p]
      BY <1>0, <2>2
    <3>2. pass[t].rest \in Seq(Adds) /\ pass[t].rest # <<>>
      BY <1>0, <1>7 DEF StoreVector, PassRecord
    <3>3. Tail(pass[t].rest) \in Seq(Adds)
      BY <3>2
    <3>4. p \in PassRecord /\ p.at = pass[t].at /\ p.attempt = pass[t].attempt
      BY <1>0, <3>3 DEF PassRecord
    <3> HIDE DEF p
    <3> QED
      BY <1>0, <1>1, <3>1, <3>4
  <2> QED
    BY <1>f, <1>7, <2>2 DEF StoreVector, Outage
<1>8. ASSUME NEW t \in Tenants, FindPending(t) PROVE PassType' /\ AttemptsLeft'
  <2> DEFINE p == [pass[t] EXCEPT !.at = "sweep", !.batch = FirstOf(Pending(t)),
                                   !.rest = FirstOf(Pending(t))]
  <2>1. pass' = [pass EXCEPT ![t] = NoPass] \/ pass' = [pass EXCEPT ![t] = p]
    BY <1>0, <1>8 DEF FindPending, PassRecord
  <2>2. p \in PassRecord /\ p.at # "waiting"
    BY <1>0, PendingType DEF PassRecord
  <2> HIDE DEF p
  <2>3. NoPass.at # "waiting"
    BY DEF NoPass
  <2> QED
    BY <1>0, <1>1, <2>1, <2>2, <2>3
<1>9. ASSUME NEW t \in Tenants, EndSweep(t) PROVE PassType' /\ AttemptsLeft'
  <2>1. NoPass.at # "waiting"
    BY DEF NoPass
  <2> QED
    BY <1>0, <1>1, <1>9, <2>1 DEF EndSweep
<1>10. CASE Crash
  <2>1. NoPass.at # "waiting"
    BY DEF NoPass
  <2> QED
    BY <1>0, <1>10, <2>1 DEF Crash, PassType, AttemptsLeft
<1>11. ASSUME NEW a \in Adds, Capture(a) \/ Enqueue(a) \/ Purge(a) \/ Forget(a)
       PROVE  pass' = pass
  BY <1>11 DEF Capture, Enqueue, Purge, Forget
<1>12. ASSUME NEW t \in Tenants, EndDrain(t)
       PROVE  pass' = pass
  BY <1>12 DEF EndDrain
<1>13. UNCHANGED evars => pass' = pass
  BY DEF evars
<1> QED
  BY <1>2, <1>3, <1>4, <1>6, <1>7, <1>8, <1>9, <1>10, <1>11, <1>12, <1>13 DEF Next, PassStep, Sends

LEMMA TypeIsShapes == TypeOK <=> QueueShape /\ TableShape /\ PassType
  BY DEF TypeOK, QueueShape, TableShape, PassType, PassRecord

LEMMA TypeGivesShapes == TypeOK => Shapes
<1> SUFFICES ASSUME TypeOK PROVE Shapes
  OBVIOUS
<1>1. pass \in [Tenants -> PassRecord]
  BY DEF TypeOK, PassRecord
<1>2. \A p \in PassRecord : IsPass(p)
  BY DEF PassRecord, IsPass
<1> QED
  BY <1>1, <1>2, TypeIsShapes DEF Shapes, PassShape

LEMMA HeadStays ==
    ASSUME NEW S, NEW s \in Seq(S), s # <<>>, NEW x \in S
    PROVE  Append(s, x) # <<>> /\ Head(Append(s, x)) = Head(s)
<1>1. Len(s) \in Nat \ {0} /\ Append(s, x) \in Seq(S) /\ Len(Append(s, x)) = Len(s) + 1
  OBVIOUS
<1>2. Append(s, x)[1] = s[1]
  BY <1>1
<1> QED
  BY <1>1, <1>2

\* A drain starts a pass only at the head of the chain, and the head leaves
\* the chain only between passes.
LEMMA TurnHeldStep == Shapes /\ TurnHeld /\ [Next]_evars => TurnHeld'
<1> SUFFICES ASSUME Shapes, TurnHeld, [Next]_evars PROVE TurnHeld'
  OBVIOUS
<1> USE EmbedAssumption DEF Shapes, QueueShape, PassShape, IsPass, TurnHeld, Running, ItsTurn
<1>1. ASSUME NEW a \in Adds, Capture(a) \/ Purge(a) \/ Forget(a) PROVE TurnHeld'
  BY <1>1 DEF Capture, Purge, Forget, queueVars
<1>2. ASSUME NEW a \in Adds, Enqueue(a) PROVE TurnHeld'
  <2>1. \A t \in Tenants : ItsTurn(t) => ItsTurn(t)'
    <3> SUFFICES ASSUME NEW t \in Tenants, ItsTurn(t) PROVE ItsTurn(t)'
      OBVIOUS
    <3>1. TenantOf[a] \in Tenants
      OBVIOUS
    <3>2. chain \in Seq(Tenants) /\ chain # <<>>
      OBVIOUS
    <3>3. Append(chain, TenantOf[a]) # <<>> /\ Head(Append(chain, TenantOf[a])) = Head(chain)
      BY <3>1, <3>2, HeadStays
    <3> QED
      <4>1. chain' = chain \/ chain' = Append(chain, TenantOf[a])
        BY <1>2 DEF Enqueue
      <4> QED
        BY <4>1, <3>3
  <2> QED
    BY <1>2, <2>1 DEF Enqueue
<1>3. ASSUME NEW t \in Tenants, StartPass(t) PROVE TurnHeld'
  BY <1>3 DEF StartPass
<1>4. ASSUME NEW t \in Tenants, EndDrain(t) PROVE TurnHeld'
  BY <1>4 DEF EndDrain
<1>5. ASSUME NEW t \in Tenants,
             Retry(t) \/ Sends(t) \/ StoreVector(t) \/ FindPending(t) \/ EndSweep(t)
      PROVE  TurnHeld'
  <2>1. Running(t)
    BY <1>5 DEF Retry, Sends, RegisterModel, SendBatch, RegisterForSweep, Outage, AttemptFails,
      StoreVector, FindPending, EndSweep
  <2>2. \A u \in Tenants \ {t} : pass'[u] = pass[u]
    BY <1>5 DEF Retry, Sends, RegisterModel, SendBatch, RegisterForSweep, Outage, AttemptFails,
      StoreVector, FindPending, EndSweep
  <2>3. chain' = chain
    BY <1>5 DEF Retry, Sends, RegisterModel, SendBatch, RegisterForSweep, Outage, AttemptFails,
      StoreVector, FindPending, EndSweep, queueVars
  <2> QED
    BY <2>1, <2>2, <2>3
<1>6. CASE Crash
  BY <1>6 DEF Crash, NoPass
<1>7. CASE UNCHANGED evars
  BY <1>7 DEF evars
<1> QED
  BY <1>1, <1>2, <1>3, <1>4, <1>5, <1>6, <1>7 DEF Next, PassStep, Sends

\* What is done with stays so: only more is stored, purged and counted.
LEMMA DoneStays ==
    ASSUME TypeOK, [Next]_evars, NEW a \in Adds, DoneWith(a)
    PROVE  DoneWith(a)'
<1>1. \A p : FailsCounted(p)[a] >= fails[a]
  BY DEF FailsCounted, TypeOK
<1>2. fails'[a] >= fails[a]
  <2>1. fails[a] \in Nat
    BY DEF TypeOK
  <2>2. fails' = fails \/ \E p : fails' = FailsCounted(p)
    BY DEF Next, PassStep, evars, Capture, Enqueue, Purge, Forget, StartPass, EndDrain, Retry,
           RegisterModel, SendBatch, RegisterForSweep, StoreVector, FindPending, EndSweep, Crash,
           Outage, AttemptFails
  <2> QED
    BY <1>1, <2>1, <2>2
<1>3. vec \cup gone \subseteq vec' \cup gone'
  BY DEF Next, PassStep, evars, Capture, Enqueue, Purge, Forget, StartPass, EndDrain, Retry,
         RegisterModel, SendBatch, RegisterForSweep, StoreVector, FindPending, EndSweep, Crash,
         tableVars
<1>4. fails[a] \in Nat /\ fails'[a] \in Nat /\ MaxAttempts \in Nat
  <2>1. TableShape'
    BY TypeIsShapes, TableShapeStep
  <2> QED
    BY <2>1, EmbedAssumption DEF TypeOK, TableShape
<1> QED
  BY <1>2, <1>3, <1>4 DEF DoneWith

\* A failed attempt leaves each of its chunks to the next, or spent.
LEMMA FailTracks ==
    ASSUME TypeOK, Tracked, [Next]_evars, NEW t \in Tenants, AttemptFails(t), pass[t].at # "waiting",
           add' = add, queue' = queue
    PROVE  Tracked'
<1> SUFFICES ASSUME NEW a \in Adds, add[a] = "enqueued", ~DoneWith(a)' PROVE Awaiting(a)'
  BY DEF Tracked
<1> USE EmbedAssumption
<1>1. ~DoneWith(a) /\ Awaiting(a)
  BY DoneStays DEF Tracked
<1>2. CASE a \in Range(queue[TenantOf[a]].chunks)
  BY <1>2 DEF Awaiting
<1>3. CASE InPass(a, pass[TenantOf[a]])
  <2> DEFINE p == pass[TenantOf[a]]
  <2>1. /\ TenantOf[a] \in Tenants
        /\ p \in PassRecord
        /\ pass \in [Tenants -> PassRecord]
        /\ fails[a] \in Nat
    BY DEF TypeOK, PassRecord
  <2>2. CASE TenantOf[a] = t
    <3>1. pass'[TenantOf[a]] = Degraded(p)
      BY <2>1, <2>2 DEF AttemptFails
    <3>2. p.at # "waiting"
      BY <2>2
    <3>3. p.at \in FreshStages /\ fails'[a] = fails[a] + 1
      BY <1>3, <2>2, <3>2 DEF InPass, FreshStages, AttemptFails, FailsCounted
    <3>4. p.attempt \in 0..MaxAttempts /\ fails'[a] >= p.attempt
      BY <1>3, <2>1, <3>3 DEF InPass, PassRecord
    <3>5. CASE p.attempt < MaxAttempts
      <4>1. Degraded(p) = [p EXCEPT !.at = "waiting"]
        BY <3>3, <3>5 DEF Degraded
      <4>2. /\ Degraded(p).at = "waiting" /\ Degraded(p).batch = p.batch
            /\ Degraded(p).attempt = p.attempt
        BY <2>1, <4>1 DEF PassRecord
      <4>3. fails'[a] + 1 >= p.attempt
        BY <2>1, <3>3, <3>4
      <4> QED
        BY <1>3, <3>1, <3>4, <4>2, <4>3 DEF Awaiting, InPass
    <3>6. CASE p.attempt = MaxAttempts
      BY <3>4, <3>6 DEF DoneWith
    <3> QED
      BY <3>4, <3>5, <3>6
  <2>3. CASE TenantOf[a] # t
    <3>1. pass'[TenantOf[a]] = p
      BY <2>1, <2>3 DEF AttemptFails
    <3>2. fails'[a] \in Nat /\ fails'[a] >= fails[a]
      BY <2>1 DEF AttemptFails, FailsCounted
    <3>3. p.attempt \in Nat
      BY <2>1 DEF PassRecord
    <3> QED
      BY <1>3, <2>1, <3>1, <3>2, <3>3 DEF Awaiting, InPass
  <2> QED
    BY <2>2, <2>3
<1> QED
  BY <1>1, <1>2, <1>3 DEF Awaiting

\* No step loses sight of a chunk that waits.
LEMMA TrackedStep == TypeOK /\ Tracked /\ [Next]_evars => Tracked'
<1> SUFFICES ASSUME TypeOK, Tracked, [Next]_evars PROVE Tracked'
  OBVIOUS
<1> USE EmbedAssumption
<1>0. /\ pass \in [Tenants -> PassRecord]
      /\ queue \in [Tenants -> [queued: BOOLEAN, chunks: Seq(Adds)]]
      /\ add \in [Adds -> {"none", "captured", "enqueued", "settled", "lost"}]
      /\ fails \in [Adds -> Nat]
  BY DEF TypeOK, PassRecord
<1>a. \A a \in Adds : TenantOf[a] \in Tenants
  OBVIOUS
\* Of a chunk that still waits, the state before is known.
<1>b. \A a \in Adds : add[a] = "enqueued" /\ ~DoneWith(a)' => Awaiting(a)
  BY DoneStays DEF Tracked
\* A step that changes one pass at most, and neither adds nor queues.
<1>c. ASSUME NEW t \in Tenants, add' = add, queue' = queue, fails' = fails,
             \A u \in Tenants \ {t} : pass'[u] = pass[u],
             \A a \in Adds : TenantOf[a] = t /\ InPass(a, pass[t]) /\ ~DoneWith(a)' => InPass(a, pass'[t])
      PROVE  Tracked'
  <2> SUFFICES ASSUME NEW a \in Adds, add[a] = "enqueued", ~DoneWith(a)' PROVE Awaiting(a)'
    BY <1>c DEF Tracked
  <2>1. Awaiting(a)
    BY <1>b
  <2>2. InPass(a, pass[TenantOf[a]]) => InPass(a, pass'[TenantOf[a]])
    BY <1>a, <1>c
  <2>3. InPass(a, pass'[TenantOf[a]]) => InPass(a, pass[TenantOf[a]])'
    BY <1>c DEF InPass
  <2> QED
    BY <1>c, <2>1, <2>2, <2>3 DEF Awaiting
<1>1. ASSUME NEW a \in Adds, Capture(a) \/ Purge(a) \/ Forget(a) PROVE Tracked'
  <2>1. /\ queue' = queue /\ pass' = pass /\ fails' = fails
        /\ \A b \in Adds : add'[b] = "enqueued" => add[b] = "enqueued"
    BY <1>0, <1>1 DEF Capture, Purge, Forget, queueVars
  <2> QED
    BY <1>b, <2>1 DEF Tracked, Awaiting, InPass
<1>2. ASSUME NEW a \in Adds, Enqueue(a) PROVE Tracked'
  <2>1. Range(queue'[TenantOf[a]].chunks) = Range(queue[TenantOf[a]].chunks) \cup {a}
    BY <1>0, <1>a, <1>2, RangeAppend DEF Enqueue
  <2>2. \A u \in Tenants \ {TenantOf[a]} : queue'[u] = queue[u]
    BY <1>0, <1>2 DEF Enqueue
  <2>3. /\ pass' = pass /\ fails' = fails
        /\ \A b \in Adds \ {a} : add'[b] = add[b]
    BY <1>0, <1>2 DEF Enqueue
  <2>4. ASSUME NEW b \in Adds, add'[b] = "enqueued", ~DoneWith(b)' PROVE Awaiting(b)'
    <3>1. CASE b = a
      BY <2>1, <3>1 DEF Awaiting
    <3>2. CASE b # a
      <4>1. Awaiting(b)
        BY <1>b, <2>3, <2>4, <3>2
      <4>2. Range(queue[TenantOf[b]].chunks) \subseteq Range(queue'[TenantOf[b]].chunks)
        BY <1>a, <2>1, <2>2
      <4> QED
        BY <2>3, <4>1, <4>2 DEF Awaiting, InPass
    <3> QED
      BY <3>1, <3>2
  <2> QED
    BY <2>4 DEF Tracked
<1>3. ASSUME NEW t \in Tenants, StartPass(t) PROVE Tracked'
  <2>1. /\ pass[t].at = "off"
        /\ pass'[t] = [at |-> "register", batch |-> queue[t].chunks, rest |-> <<>>, attempt |-> 1]
    BY <1>0, <1>3 DEF StartPass, Running
  <2>2. \A u \in Tenants \ {t} : queue'[u] = queue[u] /\ pass'[u] = pass[u]
    BY <1>0, <1>3 DEF StartPass
  <2>3. add' = add /\ fails' = fails
    BY <1>3 DEF StartPass
  <2>4. ASSUME NEW a \in Adds, add'[a] = "enqueued", ~DoneWith(a)' PROVE Awaiting(a)'
    <3>1. Awaiting(a)
      BY <1>b, <2>3, <2>4
    <3>2. CASE TenantOf[a] = t
      <4>1. a \in Range(queue[t].chunks)
        BY <2>1, <3>1, <3>2 DEF Awaiting, InPass
      <4> QED
        BY <1>0, <2>1, <2>3, <3>2, <4>1 DEF Awaiting, InPass
    <3>3. CASE TenantOf[a] # t
      BY <1>a, <2>2, <2>3, <3>1, <3>3 DEF Awaiting, InPass
    <3> QED
      BY <3>2, <3>3
  <2> QED
    BY <2>4 DEF Tracked
<1>4. ASSUME NEW t \in Tenants, EndDrain(t) PROVE Tracked'
  <2>1. \A u \in Tenants \ {t} : queue'[u] = queue[u]
    BY <1>0, <1>4 DEF EndDrain, StateDeleted
  <2>2. \A b \in Adds : add'[b] = "enqueued" => add[b] = "enqueued" /\ TenantOf[b] # t
    BY <1>4 DEF EndDrain, Waiters
  <2>3. pass' = pass /\ fails' = fails
    BY <1>4 DEF EndDrain
  <2> QED
    BY <1>a, <1>b, <2>1, <2>2, <2>3 DEF Tracked, Awaiting, InPass
<1>5. ASSUME NEW t \in Tenants, Retry(t) PROVE Tracked'
  <2>1. /\ pass[t].at = "waiting"
        /\ pass'[t].at = "register" /\ pass'[t].batch = pass[t].batch
        /\ pass'[t].attempt = pass[t].attempt + 1
    BY <1>0, <1>5 DEF Retry, PassRecord
  <2>2. pass[t].attempt \in Nat
    BY <1>0 DEF PassRecord
  <2>3. \A a \in Adds : InPass(a, pass[t]) => InPass(a, pass'[t])
    BY <1>0, <2>1, <2>2 DEF InPass
  <2>4. /\ add' = add /\ queue' = queue /\ fails' = fails
        /\ \A u \in Tenants \ {t} : pass'[u] = pass[u]
    BY <1>0, <1>5 DEF Retry, queueVars
  <2> QED
    BY <1>c, <2>3, <2>4
<1>6. ASSUME NEW t \in Tenants, RegisterModel(t) PROVE Tracked'
  <2>1. pass[t].at = "register" /\ add' = add /\ queue' = queue
    BY <1>6 DEF RegisterModel, queueVars
  <2>2. CASE AttemptFails(t)
    BY <2>1, <2>2, FailTracks
  <2>3. CASE pass' = [pass EXCEPT ![t].at = "fresh", ![t].rest = pass[t].batch] /\ fails' = fails
    <3>1. /\ pass'[t].at = "fresh" /\ pass'[t].batch = pass[t].batch
          /\ pass'[t].attempt = pass[t].attempt
          /\ \A u \in Tenants \ {t} : pass'[u] = pass[u]
      BY <1>0, <2>3 DEF PassRecord
    <3>2. \A a \in Adds : InPass(a, pass[t]) => InPass(a, pass'[t])
      BY <3>1 DEF InPass
    <3> QED
      BY <1>c, <2>1, <2>3, <3>1, <3>2
  <2> QED
    BY <1>6, <2>2, <2>3 DEF RegisterModel, Outage
<1>7. ASSUME NEW t \in Tenants, SendBatch(t) PROVE Tracked'
  <2>1. pass[t].at \in {"fresh", "sweep"} /\ add' = add /\ queue' = queue
    BY <1>7 DEF SendBatch, queueVars
  <2>2. CASE AttemptFails(t)
    BY <2>1, <2>2, FailTracks
  <2>3. ASSUME NEW p, pass' = [pass EXCEPT ![t] = p], fails' = fails,
               p.batch = pass[t].batch, p.attempt = pass[t].attempt,
               \/ p.at = pass[t].at
               \/ p.at = (IF pass[t].at = "fresh" THEN "storing" ELSE "sweeping")
                  /\ p.rest = pass[t].batch
        PROVE  Tracked'
    <3>1. pass'[t] = p /\ \A u \in Tenants \ {t} : pass'[u] = pass[u]
      BY <1>0, <2>3
    <3>2. \A a \in Adds : InPass(a, pass[t]) => InPass(a, p)
      BY <2>1, <2>3 DEF InPass
    <3> QED
      BY <1>c, <2>1, <2>3, <3>1, <3>2
  <2>4. CASE pass' = [pass EXCEPT ![t].rest = LaterBatches(@)] /\ fails' = fails
    <3> DEFINE p == [pass[t] EXCEPT !.rest = LaterBatches(pass[t].rest)]
    <3>1. p.batch = pass[t].batch /\ p.attempt = pass[t].attempt /\ p.at = pass[t].at
      BY <1>0 DEF PassRecord
    <3>2. pass' = [pass EXCEPT ![t] = p]
      BY <1>0, <2>4
    <3> HIDE DEF p
    <3> QED
      BY <2>3, <2>4, <3>1, <3>2
  <2>5. CASE /\ pass' = [pass EXCEPT ![t].at = IF @ = "fresh" THEN "storing" ELSE "sweeping",
                                    ![t].rest = pass[t].batch]
             /\ fails' = fails
    <3> DEFINE p == [pass[t] EXCEPT !.at = IF @ = "fresh" THEN "storing" ELSE "sweeping",
                                    !.rest = pass[t].batch]
    <3>1. /\ p.batch = pass[t].batch /\ p.attempt = pass[t].attempt /\ p.rest = pass[t].batch
          /\ p.at = IF pass[t].at = "fresh" THEN "storing" ELSE "sweeping"
      BY <1>0 DEF PassRecord
    <3>2. pass' = [pass EXCEPT ![t] = p]
      BY <1>0, <2>5
    <3> HIDE DEF p
    <3> QED
      BY <2>3, <2>5, <3>1, <3>2
  <2> QED
    BY <1>7, <2>2, <2>4, <2>5 DEF SendBatch, Outage
<1>8. ASSUME NEW t \in Tenants, StoreVector(t) PROVE Tracked'
  <2>1. /\ pass[t].at \in {"storing", "sweeping"} /\ pass[t].rest # <<>>
        /\ add' = add /\ queue' = queue
    BY <1>8 DEF StoreVector, queueVars
  <2>2. CASE AttemptFails(t)
    BY <2>1, <2>2, FailTracks
  <2>3. CASE /\ vec' = vec \cup {Head(pass[t].rest)} /\ fails' = fails
             /\ pass' = [pass EXCEPT ![t].rest = Tail(@)]
    <3>1. /\ pass'[t].at = pass[t].at /\ pass'[t].batch = pass[t].batch
          /\ pass'[t].attempt = pass[t].attempt /\ pass'[t].rest = Tail(pass[t].rest)
          /\ \A u \in Tenants \ {t} : pass'[u] = pass[u]
      BY <1>0, <2>3 DEF PassRecord
    <3>2. pass[t].rest \in Seq(Adds)
      BY <1>0 DEF PassRecord
    <3>3. \A a \in Range(pass[t].rest) : a = Head(pass[t].rest) \/ a \in Range(Tail(pass[t].rest))
      BY <2>1, <3>2, HeadOrTail
    <3>4. ASSUME NEW a \in Adds, InPass(a, pass[t]), ~DoneWith(a)' PROVE InPass(a, pass'[t])
      <4>1. a # Head(pass[t].rest)
        BY <2>3, <3>4 DEF DoneWith
      <4> QED
        BY <2>1, <3>1, <3>3, <3>4, <4>1 DEF InPass
    <3> QED
      BY <1>c, <2>1, <2>3, <3>1, <3>4
  <2> QED
    BY <1>8, <2>2, <2>3 DEF StoreVector, Outage
<1>9. ASSUME NEW t \in Tenants, RegisterForSweep(t) \/ FindPending(t) \/ EndSweep(t)
      PROVE  Tracked'
  <2>1. \A a \in Adds : ~InPass(a, pass[t])
    BY <1>9 DEF RegisterForSweep, FindPending, EndSweep, InPass, Range
  <2>2. /\ add' = add /\ queue' = queue /\ fails' = fails
        /\ \A u \in Tenants \ {t} : pass'[u] = pass[u]
    BY <1>0, <1>9 DEF RegisterForSweep, FindPending, EndSweep, queueVars
  <2> QED
    BY <1>c, <2>1, <2>2
<1>10. CASE Crash
  BY <1>0, <1>10 DEF Crash, Tracked
<1>11. CASE UNCHANGED evars
  BY <1>11, <1>b DEF evars, Tracked, Awaiting, InPass
<1> QED
  BY <1>1, <1>2, <1>3, <1>4, <1>5, <1>6, <1>7, <1>8, <1>9, <1>10, <1>11 DEF Next, PassStep

\* Only the end of a drain settles an add, when nothing of it is left to do.
LEMMA SettledStep ==
    TypeOK /\ Tracked /\ SettledOnlyWhenDone /\ [Next]_evars => SettledOnlyWhenDone'
<1> SUFFICES ASSUME TypeOK, Tracked, SettledOnlyWhenDone, [Next]_evars,
                    NEW a \in Adds, add'[a] = "settled"
             PROVE  DoneWith(a)'
  BY DEF SettledOnlyWhenDone
<1> SUFFICES DoneWith(a)
  BY DoneStays
<1>1. CASE add[a] = "settled"
  BY <1>1 DEF SettledOnlyWhenDone
<1>2. CASE add[a] # "settled"
  <2>1. PICK t \in Tenants : EndDrain(t)
    BY <1>2 DEF Next, PassStep, evars, Capture, Enqueue, Purge, Forget, StartPass, Retry,
                RegisterModel, SendBatch, RegisterForSweep, StoreVector, FindPending, EndSweep,
                Crash, TypeOK
  <2>2. a \in Waiters(t)
    BY <1>2, <2>1 DEF EndDrain
  <2>3. Range(queue[t].chunks) = {} /\ pass[t].at = "off"
    BY <2>1 DEF EndDrain, DrainOver, Range, Running
  <2> QED
    BY <2>2, <2>3 DEF Waiters, Tracked, Awaiting, InPass
<1> QED
  BY <1>1, <1>2

\* A vector is stored only for a chunk that is there, and leaves with it.
LEMMA NoOrphanStep == NoOrphanVector /\ [Next]_evars => NoOrphanVector'
<1> SUFFICES ASSUME NoOrphanVector, [Next]_evars PROVE NoOrphanVector'
  OBVIOUS
<1> USE DEF NoOrphanVector, tableVars
<1>1. ASSUME NEW a \in Adds, Capture(a) \/ Enqueue(a) \/ Purge(a) \/ Forget(a)
      PROVE  NoOrphanVector'
  BY <1>1 DEF Capture, Enqueue, Purge, Forget
<1>2. ASSUME NEW t \in Tenants, StoreVector(t) PROVE NoOrphanVector'
  BY <1>2 DEF StoreVector, ChunkExists
<1>3. ASSUME NEW t \in Tenants,
             \/ StartPass(t) \/ EndDrain(t) \/ Retry(t) \/ Sends(t)
             \/ FindPending(t) \/ EndSweep(t)
      PROVE  NoOrphanVector'
  BY <1>3 DEF StartPass, EndDrain, Retry, Sends, RegisterModel, SendBatch, RegisterForSweep,
      FindPending, EndSweep
<1>4. CASE Crash
  BY <1>4 DEF Crash
<1>5. CASE UNCHANGED evars
  BY <1>5 DEF evars
<1> QED
  BY <1>1, <1>2, <1>3, <1>4, <1>5 DEF Next, PassStep, Sends

\* The strengthened invariant holds in every reachable state.
LEMMA Inductive == Spec => []EInv
<1>1. EInv /\ [Next]_evars => EInv'
  <2> SUFFICES ASSUME EInv, [Next]_evars PROVE EInv'
    OBVIOUS
  <2>1. TypeOK /\ Shapes /\ QueueShape /\ TableShape /\ AttemptsLeft
    BY TypeIsShapes, TypeGivesShapes DEF EInv
  <2>2. TypeOK'
    <3>1. QueueShape' /\ TableShape' /\ PassType'
      BY <2>1, QueueShapeStep, TableShapeStep, PassStepType
    <3> QED
      BY <3>1 DEF TypeOK, QueueShape, TableShape, PassType, PassRecord
  <2>3. AttemptsLeft'
    BY <2>1, PassStepType
  <2>4. TurnHeld' /\ Tracked'
    BY <2>1, TurnHeldStep, TrackedStep DEF EInv
  <2>5. SettledOnlyWhenDone' /\ NoOrphanVector'
    BY <2>1, SettledStep, NoOrphanStep DEF EInv
  <2> QED
    BY <2>2, <2>3, <2>4, <2>5 DEF EInv
<1> QED
  BY InitEInv, <1>1, PTL DEF Spec

\* One embed pass runs at a time in a process, however many tenants add to it
\* (createBackgroundEmbedScheduler), and every variable keeps its shape: no pass
\* makes more attempts than it may.
THEOREM OneRunAlways == Spec => []EmbedInv
<1>1. EInv => EmbedInv
  BY DEF EInv, EmbedInv, TurnHeld, ItsTurn, OneRunAtATime
<1> QED
  BY Inductive, <1>1, PTL

\* An add whose promise is resolved has its vector, is purged, or was among the
\* fresh chunks of every attempt a pass makes, all failed, whatever step of the
\* pass failed and at whatever moment the add joined its tenant's drain
\* (createBackgroundEmbedScheduler, runBackgroundEmbedPass).
THEOREM SettledOnlyWhenDoneAlways == Spec => []SettledOnlyWhenDone
<1>1. EInv => SettledOnlyWhenDone
  BY DEF EInv
<1> QED
  BY Inductive, <1>1, PTL

\* A vector never outlives its chunk, wherever a purge falls in a pass
\* (ensureEmbedModel, embedChunks).
THEOREM NoOrphanVectorEver == Spec => []NoOrphanVector
<1>1. EInv => NoOrphanVector
  BY DEF EInv
<1> QED
  BY Inductive, <1>1, PTL
-----------------------------------------------------------------------------
(* The embed registry.                                                     *)

USE RegistryAssumption

TableStates == {"missing", "bare"} \cup Indexes

\* The table of the model of call c, where t are the committed tables.
TableOf(c, t) == IF c.built # "untouched" THEN c.built ELSE t[c.model]

\* What call c, with w written and not committed, may rely on.
Sound(c, w, t) ==
    /\ c.at # "idle" /\ c.kind # "clear" => c.model \in Models
    /\ c.kind = "clear" => c.at \in {"switch", "update", "commit"}
    /\ c.built # "untouched" =>
          /\ c.kind = "promote"
          /\ c.at \in {"index", "switch", "update", "commit"}
    /\ c.built = "bare" => c.at = "index"
    /\ c.prior # None => t[c.prior] \in Indexes
    /\ c.kind = "restore" => c.model \in Models /\ t[c.model] \in Indexes
    /\ c.at \in {"switch", "update", "commit"} /\ c.kind # "clear" => TableOf(c, t) \in Indexes
    /\ \A m \in Models :
          w[m] # None /\ w[m].status = "active" =>
             \/ t[m] \in Indexes
             \/ m = c.model /\ c.at # "idle" /\ TableOf(c, t) \in Indexes

RInv ==
    /\ RTypeOK
    /\ ActiveIsSearchable
    /\ \A m \in recorded \ {None} : table[m] \in Indexes
    /\ \A p \in Procs : Sound(call[p], mine[p], table)

\* The same call, but for what StartSwitch notes in the calls beside it.
Same(c, d) == \E b \in BOOLEAN : d = [c EXCEPT !.alone = b]

Grows(t, u) == \A m \in Models : t[m] \in Indexes => u[m] \in Indexes

-----------------------------------------------------------------------------

LEMMA NewestIsActive == Newest \subseteq Active /\ Active \subseteq Models
BY DEF Newest, Active

LEMMA ResolvedIsActive == Resolved = None \/ Resolved \in Active
BY DEF Resolved, Newest

LEMMA InitRInv == RInit => RInv
<1> SUFFICES ASSUME RInit
             PROVE  RInv
  OBVIOUS
<1>1. PICK left \in SUBSET Models : \E stage \in [left -> 1..Cardinality(left)] :
        /\ row = [m \in Models |-> IF m \in left THEN [status |-> "active", at |-> stage[m]]
                                   ELSE [status |-> "none", at |-> 0]]
        /\ table = [m \in Models |-> IF m \notin left THEN "missing"
                                     ELSE IF m \in Wide THEN "halfvec" ELSE "hnsw"]
        /\ recorded = {}
        /\ call = [p \in Procs |-> Idle]
        /\ mine = [p \in Procs |-> Untouched]
        /\ clock = Cardinality(Models)
  BY DEF RInit
<1>2. Cardinality(Models) \in Nat
  BY FS_CardinalityType
<1>3. row \in [Models -> Row]
  BY <1>1 DEF Row
<1>4. Idle \in Calls /\ Untouched \in [Models -> Row \cup {None}]
  BY DEF Idle, NewCall, Calls, Untouched
<1>5. RTypeOK
  BY <1>1, <1>2, <1>3, <1>4 DEF RTypeOK, Indexes
<1>6. ActiveIsSearchable
  BY <1>1 DEF ActiveIsSearchable, Active, Indexes
<1>7. Sound(Idle, Untouched, table)
  BY DEF Sound, Idle, NewCall, Untouched, TableOf
<1> QED
  BY <1>1, <1>5, <1>6, <1>7 DEF RInv

\* A call that does not move keeps what it may rely on while tables only grow.
LEMMA KeepsSound ==
    ASSUME NEW c \in Calls, NEW d, Same(c, d), NEW w, NEW t, NEW u, Grows(t, u),
           Sound(c, w, t)
    PROVE  Sound(d, w, u)
<1>1. /\ d.kind = c.kind /\ d.model = c.model /\ d.at = c.at /\ d.built = c.built
      /\ d.prior = c.prior
  BY DEF Same, Calls
<1>2. c.model \in Models \cup {None} /\ c.prior \in Models \cup {None}
  BY DEF Calls
<1>3. c.model \in Models /\ TableOf(c, t) \in Indexes => TableOf(d, u) \in Indexes
  BY <1>1 DEF TableOf, Grows
<1> QED
  BY <1>1, <1>2, <1>3 DEF Sound, Grows

\* A step of p in which tables only grow and nothing becomes active before its
\* table can be searched: what is left to show is what p may rely on.
LEMMA Lift ==
    ASSUME RInv, RTypeOK', NEW p \in Procs,
           Grows(table, table'),
           Sound(call'[p], mine'[p], table'),
           \A q \in Procs \ {p} : Same(call[q], call'[q]) /\ mine'[q] = mine[q],
           \A m \in recorded' \ recorded : m = call[p].prior,
           \A m \in Active' : m \in Active \/ table'[m] \in Indexes
    PROVE  RInv'
<1>1. ASSUME NEW q \in Procs \ {p}
      PROVE  Sound(call'[q], mine'[q], table')
  <2>1. call[q] \in Calls /\ Sound(call[q], mine[q], table)
    BY DEF RInv, RTypeOK
  <2>2. Same(call[q], call'[q]) /\ mine'[q] = mine[q]
    OBVIOUS
  <2>3. Sound(call'[q], mine[q], table')
    BY <2>1, <2>2, KeepsSound
  <2> QED
    BY <2>2, <2>3
<1>2. ActiveIsSearchable'
  BY NewestIsActive DEF RInv, ActiveIsSearchable, Grows
<1>3. ASSUME NEW m \in recorded' \ {None}
      PROVE  table'[m] \in Indexes
  <2>1. m \in Models
    BY DEF RTypeOK
  <2>2. CASE m \in recorded
    BY <2>1, <2>2 DEF RInv, Grows
  <2>3. CASE m \notin recorded
    <3>1. m = call[p].prior
      BY <2>3
    <3>2. Sound(call[p], mine[p], table)
      BY DEF RInv
    <3>3. table[m] \in Indexes
      BY <3>1, <3>2 DEF Sound
    <3> QED
      BY <3>3, <2>1 DEF Grows
  <2> QED
    BY <2>2, <2>3
<1> QED
  BY <1>1, <1>2, <1>3 DEF RInv

LEMMA SameItself == ASSUME NEW c \in Calls PROVE Same(c, c)
<1>1. c.alone \in BOOLEAN /\ c = [c EXCEPT !.alone = c.alone]
  BY DEF Calls
<1> QED
  BY <1>1 DEF Same

\* The steps that move one call, and no row, table or record.
LEMMA LiftCall ==
    ASSUME RInv, NEW p \in Procs, NEW c \in Calls,
           call' = [call EXCEPT ![p] = c],
           NEW w \in [Models -> Row \cup {None}],
           mine' = [mine EXCEPT ![p] = w],
           Sound(c, w, table),
           UNCHANGED tables, clock' \in Nat
    PROVE  RInv'
<1>1. call \in [Procs -> Calls] /\ mine \in [Procs -> [Models -> Row \cup {None}]]
  BY DEF RInv, RTypeOK
<1>2. RTypeOK'
  BY <1>1 DEF RInv, RTypeOK, tables
<1>3. call'[p] = c /\ mine'[p] = w
  BY <1>1
<1>4. ASSUME NEW q \in Procs \ {p}
      PROVE  Same(call[q], call'[q]) /\ mine'[q] = mine[q]
  BY <1>1, SameItself
<1>5. Grows(table, table') /\ Active' = Active /\ recorded' = recorded
  BY DEF tables, Grows, Active
<1> QED
  BY <1>2, <1>3, <1>4, <1>5, Lift DEF tables

-----------------------------------------------------------------------------

LEMMA StaysMine ==
    ASSUME RInv, NEW p \in Procs
    PROVE  /\ mine = [mine EXCEPT ![p] = mine[p]]
           /\ mine[p] \in [Models -> Row \cup {None}]
           /\ call[p] \in Calls
           /\ Sound(call[p], mine[p], table)
           /\ clock \in Nat
BY DEF RInv, RTypeOK

LEMMA BeginKeeps ==
    ASSUME RInv, NEW p \in Procs, NEW kind \in Switching \cup {"ensure"},
           NEW m \in Models \cup {None}, Begin(p, kind, m)
    PROVE  RInv'
<1> DEFINE prior == IF kind = "promote" THEN Resolved ELSE None
           stage == IF kind \in {"restore", "clear"} THEN "switch" ELSE "upsert"
           c == NewCall(kind, m, stage, clock + 1, prior)
<1>1. /\ call' = [call EXCEPT ![p] = c]
      /\ mine' = [mine EXCEPT ![p] = mine[p]]
      /\ UNCHANGED tables
      /\ clock' = clock + 1
  BY StaysMine DEF Begin
<1>2. prior = None \/ (prior \in Models /\ table[prior] \in Indexes)
  BY ResolvedIsActive, NewestIsActive DEF RInv, ActiveIsSearchable
<1>3. c \in Calls /\ clock' \in Nat
  <2>1. clock \in Nat
    BY StaysMine
  <2>2. prior \in Models \cup {None} /\ stage \in {"switch", "upsert"}
    BY <1>2
  <2> QED
    BY <1>1, <2>1, <2>2 DEF Calls, NewCall
<1>4. Sound(c, mine[p], table)
  <2>1. call[p].at = "idle" /\ (kind # "clear" => m \in Models)
    BY DEF Begin
  <2>2. \A n \in Models : mine[p][n] # None /\ mine[p][n].status = "active" => table[n] \in Indexes
    BY <2>1, StaysMine DEF Sound
  <2>3. /\ stage \in {"switch", "update", "commit"} /\ kind # "clear" => kind = "restore"
        /\ kind = "clear" => stage = "switch"
    OBVIOUS
  <2>4. kind = "restore" => m \in Models /\ table[m] \in Indexes
    BY <2>1 DEF Begin, RInv
  <2> QED
    BY <1>2, <2>1, <2>2, <2>3, <2>4 DEF Sound, TableOf, NewCall
<1> HIDE DEF c
<1> QED
  BY <1>1, <1>3, <1>4, StaysMine, LiftCall

\* What an insert or an update makes of a row it sees.
LEMMA SeenHasGround ==
    ASSUME RInv, NEW p \in Procs, NEW m \in Models
    PROVE  /\ Seen(p, m) \in Row
           /\ Seen(p, m).status = "active" =>
                 \/ table[m] \in Indexes
                 \/ /\ m = call[p].model /\ call[p].at # "idle"
                    /\ TableOf(call[p], table) \in Indexes
<1>1. row[m] \in Row /\ mine[p][m] \in Row \cup {None}
  BY DEF RInv, RTypeOK
<1>2. CASE mine[p][m] = None
  BY <1>1, <1>2 DEF Seen, RInv, ActiveIsSearchable, Active
<1>3. CASE mine[p][m] # None
  BY <1>1, <1>3, StaysMine DEF Seen, Sound
<1> QED
  BY <1>2, <1>3

LEMMA UpsertKeeps ==
    ASSUME RInv, NEW p \in Procs, Upsert(p)
    PROVE  RInv'
<1> DEFINE m == call[p].model
           c == [call[p] EXCEPT !.at = "look"]
<1>1. /\ call[p].at = "upsert" /\ call[p] \in Calls
      /\ call' = [call EXCEPT ![p] = c]
      /\ UNCHANGED <<table, recorded, clock>>
  BY StaysMine DEF Upsert, Goto
<1>2. m \in Models /\ call[p].built = "untouched" /\ clock \in Nat
  BY <1>1, StaysMine DEF Sound
<1>3. c \in Calls
  BY <1>1 DEF Calls
<1>4. /\ Upserted(p) \in Row
      /\ Upserted(p).status = "active" => table[m] \in Indexes
  BY <1>1, <1>2, SeenHasGround DEF Upserted, Row, Calls, TableOf
<1>5. CASE mine' = [mine EXCEPT ![p][m] = Upserted(p)] /\ UNCHANGED row
  <2> DEFINE w == [mine[p] EXCEPT ![m] = Upserted(p)]
  <2>1. mine' = [mine EXCEPT ![p] = w] /\ UNCHANGED tables /\ clock' \in Nat
    BY <1>1, <1>2, <1>5 DEF tables
  <2>2. w \in [Models -> Row \cup {None}]
    BY <1>4, StaysMine
  <2>3. Sound(c, w, table)
    BY <1>1, <1>2, <1>4, StaysMine DEF Sound, TableOf, Calls
  <2> HIDE DEF c, w
  <2> QED
    BY <1>1, <1>3, <2>1, <2>2, <2>3, LiftCall
<1>6. CASE row' = [row EXCEPT ![m] = Upserted(p)] /\ UNCHANGED mine
  <2>1. RTypeOK'
    BY <1>1, <1>3, <1>4, <1>6 DEF RInv, RTypeOK
  <2>2. Sound(call'[p], mine'[p], table')
    <3>1. call'[p] = c /\ mine'[p] = mine[p] /\ table' = table
      BY <1>1, <1>6 DEF RInv, RTypeOK
    <3>2. Sound(c, mine[p], table)
      BY <1>1, <1>2, StaysMine DEF Sound, TableOf, Calls
    <3> HIDE DEF c
    <3> QED
      BY <2>1, <3>1, <3>2
  <2>3. \A n \in Active' : n \in Active \/ table'[n] \in Indexes
    BY <1>1, <1>2, <1>4, <1>6 DEF RInv, RTypeOK, Active
  <2>4. ASSUME NEW q \in Procs \ {p}
        PROVE  Same(call[q], call'[q]) /\ mine'[q] = mine[q]
    BY <1>1, <1>6, SameItself DEF RInv, RTypeOK
  <2>5. Grows(table, table') /\ recorded' = recorded
    BY <1>1 DEF Grows
  <2> QED
    BY <2>1, <2>2, <2>3, <2>4, <2>5, Lift
<1> QED
  BY <1>5, <1>6 DEF Upsert

\* A call that only goes on.
LEMMA GotoKeeps ==
    ASSUME RInv, NEW p \in Procs, NEW stage, Goto(p, stage), UNCHANGED <<tables, mine, clock>>,
           stage \in {"look", "create", "index", "done", "switch", "update", "commit"},
           call[p].at # "idle",
           call[p].kind = "clear" => stage \in {"switch", "update", "commit"},
           call[p].built # "untouched" => stage \in {"index", "switch", "update", "commit"},
           call[p].built = "bare" => stage = "index",
           stage \in {"switch", "update", "commit"} /\ call[p].kind # "clear"
              => TableOf(call[p], table) \in Indexes
    PROVE  RInv'
<1> DEFINE c == [call[p] EXCEPT !.at = stage]
<1>1. call' = [call EXCEPT ![p] = c] /\ mine' = [mine EXCEPT ![p] = mine[p]]
  BY StaysMine DEF Goto
<1>2. c \in Calls
  BY StaysMine DEF Calls
<1>3. clock' \in Nat
  BY StaysMine
<1>4. Sound(c, mine[p], table)
  BY StaysMine DEF Sound, TableOf, Calls
<1> HIDE DEF c
<1> QED
  BY <1>1, <1>2, <1>3, <1>4, StaysMine, LiftCall

LEMMA LookKeeps ==
    ASSUME RInv, NEW p \in Procs, LookForTable(p)
    PROVE  RInv'
BY StaysMine, GotoKeeps DEF LookForTable, Sound

LEMMA KeepIndexKeeps ==
    ASSUME RInv, NEW p \in Procs, KeepIndex(p)
    PROVE  RInv'
<1>1. TableOf(call[p], table) \in Indexes
  BY DEF KeepIndex, IndexThere, TableSeen, TableOf
<1>2. call[p].built # "untouched" => AfterIndex(p) = "switch"
  BY StaysMine DEF Sound, AfterIndex, Switching
<1>3. call[p].at = "index" /\ call[p].kind # "clear" /\ call[p].built # "bare"
  BY <1>1, StaysMine DEF KeepIndex, Sound, TableOf, Indexes
<1> QED
  BY <1>1, <1>2, <1>3, GotoKeeps DEF KeepIndex, AfterIndex

LEMMA StatementKeeps ==
    ASSUME RInv, NEW p \in Procs, StatementDone(p)
    PROVE  RInv'
BY StaysMine, GotoKeeps DEF StatementDone, Sound

LEMMA IdleKeeps ==
    ASSUME RInv, NEW p \in Procs, NEW w \in {mine[p], Untouched},
           call' = [call EXCEPT ![p] = Idle], mine' = [mine EXCEPT ![p] = w],
           call[p].at = "done" \/ w = Untouched,
           UNCHANGED <<tables, clock>>
    PROVE  RInv'
<1>1. Idle \in Calls /\ Untouched \in [Models -> Row \cup {None}]
  BY DEF Idle, NewCall, Calls, Untouched
<1>2. w \in [Models -> Row \cup {None}] /\ clock' \in Nat
  BY <1>1, StaysMine
<1>3. Sound(Idle, w, table)
  BY StaysMine DEF Sound, TableOf, Idle, NewCall, Untouched
<1> QED
  BY <1>1, <1>2, <1>3, LiftCall

LEMMA DoneKeeps ==
    ASSUME RInv, NEW p \in Procs, EnsureDone(p)
    PROVE  RInv'
BY StaysMine, IdleKeeps DEF EnsureDone

LEMMA FailKeeps ==
    ASSUME RInv, NEW p \in Procs, Fail(p)
    PROVE  RInv'
BY IdleKeeps DEF Fail, RolledBack

\* A call that has taken the snapshot of its switch is a call, the same as before
\* but for three fields.
LEMMA SwitchIsCall ==
    ASSUME NEW x \in Calls, NEW T \in SUBSET Models, NEW a \in BOOLEAN
    PROVE  [x EXCEPT !.at = "update", !.todo = T, !.alone = a] \in Calls
  BY DEF Calls

LEMMA SwitchTaken ==
    ASSUME NEW p \in Procs, call[p] \in Calls, StartSwitch(p)
    PROVE  LET x == call[p]
               y == call'[p]
           IN /\ y.at = "update" /\ y.todo = Demoted(p) \cup Target(p)
              /\ y.alone = (Switchers = {})
              /\ y.kind = x.kind /\ y.model = x.model
              /\ y.prior = x.prior /\ y.built = x.built
<1> DEFINE T == Demoted(p) \cup Target(p)
           a == Switchers = {}
<1>1. call'[p] = [call[p] EXCEPT !.at = "update", !.todo = T, !.alone = a]
  BY DEF StartSwitch
<1> HIDE DEF T, a
<1>2. /\ call'[p].at = "update" /\ call'[p].todo = T /\ call'[p].alone = a
      /\ call'[p].kind = call[p].kind /\ call'[p].model = call[p].model
      /\ call'[p].prior = call[p].prior /\ call'[p].built = call[p].built
  BY <1>1 DEF Calls
<1> QED
  BY <1>2 DEF T, a

\* That another switch has begun changes one field of a call.
LEMMA AloneIsOneField ==
    ASSUME NEW x \in Calls, NEW y, y = x \/ y = [x EXCEPT !.alone = FALSE]
    PROVE  y.at = x.at /\ y.kind = x.kind /\ y.model = x.model /\ y.todo = x.todo
  BY DEF Calls

\* The snapshot of a switch: its own model's table is indexed by now.
LEMMA StartSwitchKeeps ==
    ASSUME RInv, NEW p \in Procs, StartSwitch(p)
    PROVE  RInv'
<1> DEFINE c == [call[p] EXCEPT !.at = "update", !.todo = Demoted(p) \cup Target(p),
                                !.alone = Switchers = {}]
<1>1. call \in [Procs -> Calls]
  BY DEF RInv, RTypeOK
<1>2. c \in Calls
  <2>1. Demoted(p) \cup Target(p) \subseteq Models
    BY StaysMine DEF StartSwitch, Demoted, Target, Sound
  <2>2. (Switchers = {}) \in BOOLEAN
    OBVIOUS
  <2> QED
    BY <1>1, <2>1, <2>2, SwitchIsCall
<1>3. call'[p] = c /\ Same(c, c)
  BY <1>1, <1>2, SameItself DEF StartSwitch
<1>4. ASSUME NEW q \in Procs \ {p}
      PROVE  Same(call[q], call'[q]) /\ call'[q] \in Calls
  <2>1. CASE call'[q] = call[q]
    BY <1>1, <2>1, SameItself
  <2>2. CASE call'[q] = [call[q] EXCEPT !.alone = FALSE]
    <3>1. call[q] \in Calls
      BY <1>1
    <3> QED
      BY <2>2, <3>1 DEF Same, Calls
  <2> QED
    BY <2>1, <2>2 DEF StartSwitch
<1>5. call' \in [Procs -> Calls]
  <2>1. call'[p] \in Calls
    BY <1>2, <1>3
  <2>2. \E f \in [Procs -> {call'[q] : q \in Procs}] : call' = f
    BY DEF StartSwitch
  <2> QED
    BY <1>4, <2>1, <2>2
<1>6. RTypeOK' /\ Active' = Active /\ Grows(table, table')
  BY <1>5 DEF RInv, RTypeOK, StartSwitch, tables, Active, Grows
<1>7. Sound(call'[p], mine'[p], table')
  <2>1. /\ c.at = "update" /\ c.kind = call[p].kind /\ c.model = call[p].model
        /\ c.prior = call[p].prior /\ c.built = call[p].built
    BY <1>1, <1>3, SwitchTaken
  <2> HIDE DEF c
  <2>2. Sound(c, mine[p], table)
    BY <2>1, StaysMine DEF StartSwitch, Sound, TableOf
  <2> QED
    BY <1>3, <2>2 DEF StartSwitch, tables
<1>8. UNCHANGED <<mine, recorded>>
  BY DEF StartSwitch, tables
<1> HIDE DEF c
<1> QED
  BY <1>4, <1>6, <1>7, <1>8, Lift

LEMMA UpdateKeeps ==
    ASSUME RInv, NEW p \in Procs, NEW m \in Models, UpdateRow(p, m)
    PROVE  RInv'
<1> DEFINE c == [call[p] EXCEPT !.todo = @ \ {m}]
           w == [mine[p] EXCEPT ![m] = Switched(p, m)]
<1>1. /\ call[p].at = "update" /\ call[p] \in Calls
      /\ call' = [call EXCEPT ![p] = c]
      /\ mine' = [mine EXCEPT ![p] = w]
      /\ UNCHANGED tables /\ clock' \in Nat
  BY StaysMine DEF UpdateRow
<1>2. c \in Calls
  BY <1>1 DEF Calls
<1>3. /\ Switched(p, m) \in Row
      /\ Switched(p, m).status = "active" => m \in Target(p)
  BY <1>1, SeenHasGround DEF Switched, Row, Calls
<1>4. w \in [Models -> Row \cup {None}]
  BY <1>3, StaysMine
<1>5. Sound(c, w, table)
  BY <1>1, <1>3, StaysMine DEF Sound, TableOf, Calls, Target
<1> HIDE DEF c, w
<1> QED
  BY <1>1, <1>2, <1>4, <1>5, LiftCall

\* A call whose statement built something, and that is a step further, is a call.
LEMMA BuiltIsCall ==
    ASSUME NEW x \in Calls, NEW b \in {"untouched", "bare"} \cup Indexes,
           NEW stage \in {"index", "switch", "done"}
    PROVE  [x EXCEPT !.built = b, !.at = stage] \in Calls
  BY DEF Calls

\* A statement that makes the table or its index: only a table without an index
\* is touched, so no other call loses what it relies on.
LEMMA BuildKeeps ==
    ASSUME RInv, NEW p \in Procs, NEW t \in {"bare"} \cup Indexes, NEW stage, Build(p, t, stage),
           call[p].at \in {"create", "index"}, ~IndexThere(p),
           (t = "bare" /\ stage = "index") \/ (t \in Indexes /\ stage = AfterIndex(p)),
           UNCHANGED <<row, recorded, mine, clock>>
    PROVE  RInv'
<1> DEFINE m == call[p].model
           b == IF InTransaction(p) THEN t ELSE "untouched"
           c == [call[p] EXCEPT !.built = b, !.at = stage]
<1>1. /\ call \in [Procs -> Calls] /\ table \in [Models -> TableStates]
      /\ clock \in Nat /\ call[p].kind # "clear" /\ m \in Models
  BY StaysMine DEF RInv, RTypeOK, Sound, TableStates
<1>2. stage \in {"index", "switch", "done"}
      /\ (stage = "switch" => t \in Indexes) /\ (t = "bare" => stage = "index")
  BY DEF AfterIndex, Indexes
<1>3. InTransaction(p) => call[p].kind = "promote" /\ stage \in {"index", "switch"}
  BY <1>1, <1>2, StaysMine
     DEF InTransaction, Transactional, Switching, AfterIndex, Sound, IndexThere, TableSeen, Indexes
<1>4. ~InTransaction(p) => call[p].built = "untouched"
  BY StaysMine DEF InTransaction, Transactional, Sound
<1>5. c \in Calls /\ call' = [call EXCEPT ![p] = c]
  <2>1. c \in Calls
    <3>1. call[p] \in Calls /\ b \in {"untouched", "bare"} \cup Indexes
      BY <1>1
    <3> HIDE DEF b
    <3> QED
      BY <3>1, <1>2, BuiltIsCall
  <2>2. CASE InTransaction(p)
    <3>1. b = t /\ c = [call[p] EXCEPT !.built = t, !.at = stage]
      BY <2>2
    <3>2. call' = [call EXCEPT ![p] = [call[p] EXCEPT !.built = t, !.at = stage]]
      BY <2>2 DEF Build
    <3> HIDE DEF c
    <3> QED
      BY <2>1, <3>1, <3>2
  <2>3. CASE ~InTransaction(p)
    <3>1. call[p] = [call[p] EXCEPT !.built = "untouched"]
      BY <1>1, <1>4, <2>3 DEF Calls
    <3>2. c = [call[p] EXCEPT !.at = stage]
      BY <1>1, <1>4, <2>3, <3>1 DEF Calls
    <3>3. call' = [call EXCEPT ![p] = [call[p] EXCEPT !.at = stage]]
      BY <2>3 DEF Build, Goto
    <3> HIDE DEF c
    <3> QED
      BY <2>1, <3>2, <3>3
  <2> QED
    BY <2>1, <2>2, <2>3
<1>6. table' = IF InTransaction(p) THEN table ELSE [table EXCEPT ![m] = t]
  BY DEF Build
<1>7. Grows(table, table') /\ table' \in [Models -> TableStates]
  BY <1>1, <1>4, <1>6 DEF Grows, IndexThere, TableSeen, TableStates
<1>8. RTypeOK'
  BY <1>1, <1>5, <1>7 DEF RInv, RTypeOK, TableStates
<1>9. Sound(call'[p], mine'[p], table')
  <2>1. /\ c.at = stage /\ c.built = b /\ c.model = m /\ c.kind = call[p].kind
        /\ c.prior = call[p].prior
    BY <1>1 DEF Calls
  <2>2. call[p].prior # None => call[p].prior \in Models /\ table'[call[p].prior] \in Indexes
    BY <1>1, <1>7, StaysMine DEF Sound, Grows, Calls
  <2>3. TableOf(c, table') = t
    BY <1>1, <1>6, <2>1 DEF TableOf, Indexes
  <2>4. TableOf(call[p], table) \notin Indexes
    BY DEF IndexThere, TableSeen, TableOf
  <2>5. \A n \in Models : mine[p][n] # None /\ mine[p][n].status = "active"
                         => table'[n] \in Indexes
    BY <1>7, <2>4, StaysMine DEF Sound, Grows
  <2>6. call[p].kind = "restore" => table'[m] \in Indexes
    BY <1>1, <1>7, StaysMine DEF Sound, Grows
  <2>7. c.built # "untouched" => c.kind = "promote" /\ stage \in {"index", "switch"}
    BY <1>3, <2>1
  <2>8. c.built = "bare" => c.at = "index"
    BY <1>2, <2>1
  <2>9. Sound(c, mine[p], table')
    BY <1>1, <1>2, <2>1, <2>2, <2>3, <2>5, <2>6, <2>7, <2>8 DEF Sound
  <2>10. call'[p] = c /\ mine' = mine
    BY <1>1, <1>5
  <2> HIDE DEF c
  <2> QED
    BY <2>9, <2>10
<1>10. ASSUME NEW q \in Procs \ {p}
       PROVE  Same(call[q], call'[q]) /\ mine'[q] = mine[q]
  <2>1. call'[q] = call[q] /\ call[q] \in Calls
    BY <1>1, <1>5
  <2> QED
    BY <2>1, SameItself
<1>11. Active' = Active /\ recorded' = recorded
  BY DEF Active
<1> HIDE DEF c, m, b
<1> QED
  BY <1>7, <1>8, <1>9, <1>10, <1>11, Lift

LEMMA CreateKeeps ==
    ASSUME RInv, NEW p \in Procs, CreateTable(p)
    PROVE  RInv'
BY BuildKeeps DEF CreateTable, IndexThere, Indexes

LEMMA BuildIndexKeeps ==
    ASSUME RInv, NEW p \in Procs, BuildIndex(p) \/ FallBack(p)
    PROVE  RInv'
<1>1. CASE BuildIndex(p)
  <2> DEFINE t == IF call[p].model \in Wide THEN "halfvec" ELSE "hnsw"
  <2>1. t \in Indexes
    BY DEF Indexes
  <2>2. Build(p, t, AfterIndex(p))
    BY <1>1 DEF BuildIndex
  <2> HIDE DEF t
  <2> QED
    BY <1>1, <2>1, <2>2, BuildKeeps DEF BuildIndex
<1>2. CASE FallBack(p)
  <2>1. "ivfflat" \in Indexes
    BY DEF Indexes
  <2> QED
    BY <1>2, <2>1, BuildKeeps DEF FallBack
<1> QED
  BY <1>1, <1>2

LEMMA CommitKeeps ==
    ASSUME RInv, NEW p \in Procs, Commit(p)
    PROVE  RInv'
<1>1. /\ call \in [Procs -> Calls] /\ table \in [Models -> TableStates] /\ clock' \in Nat
      /\ mine \in [Procs -> [Models -> Row \cup {None}]]
      /\ recorded \subseteq Models \cup {None}
      /\ call[p].at = "commit" /\ call[p].prior \in Models \cup {None}
  BY StaysMine DEF RInv, RTypeOK, Commit, TableStates, Calls
<1>2. /\ call[p].kind # "clear" => call[p].model \in Models /\ TableOf(call[p], table) \in Indexes
      /\ call[p].kind = "clear" => call[p].built = "untouched"
      /\ call[p].built # "bare"
  BY <1>1, StaysMine DEF Sound
<1>3. table' \in [Models -> TableStates] /\ Grows(table, table')
  BY <1>1, <1>2 DEF Commit, Grows, TableOf, TableStates
<1>4. row' \in [Models -> Row]
  BY SeenHasGround DEF Commit
<1>5. Idle \in Calls /\ Untouched \in [Models -> Row \cup {None}]
  BY DEF Idle, NewCall, Calls, Untouched
<1>6. call' \in [Procs -> Calls] /\ call'[p] = Idle /\ mine'[p] = Untouched
  BY <1>1, <1>5 DEF Commit
<1>7. mine' \in [Procs -> [Models -> Row \cup {None}]] /\ recorded' \subseteq Models \cup {None}
  BY <1>1, <1>5 DEF Commit
<1>8. RTypeOK'
  BY <1>1, <1>3, <1>4, <1>6, <1>7 DEF RTypeOK, TableStates
<1>9. Sound(call'[p], mine'[p], table')
  BY <1>6 DEF Sound, TableOf, Idle, NewCall, Untouched
<1>10. ASSUME NEW q \in Procs \ {p}
       PROVE  Same(call[q], call'[q]) /\ mine'[q] = mine[q]
  <2>1. call'[q] = call[q] /\ mine'[q] = mine[q] /\ call[q] \in Calls
    BY <1>1 DEF Commit
  <2> QED
    BY <2>1, SameItself
<1>11. ASSUME NEW m \in Active'
       PROVE  table'[m] \in Indexes
  <2>1. m \in Models /\ Seen(p, m).status = "active"
    BY DEF Commit, Active
  <2>2. CASE table[m] \in Indexes
    BY <1>3, <2>1, <2>2 DEF Grows
  <2>3. CASE m = call[p].model /\ TableOf(call[p], table) \in Indexes
    BY <1>1, <2>1, <2>3 DEF Commit, TableOf
  <2> QED
    BY <2>1, <2>2, <2>3, SeenHasGround
<1>12. \A m \in recorded' \ recorded : m = call[p].prior
  BY DEF Commit
<1> QED
  BY <1>3, <1>8, <1>9, <1>10, <1>11, <1>12, Lift

-----------------------------------------------------------------------------

LEMMA NextRInv == RInv /\ [RNext]_rvars => RInv'
<1> SUFFICES ASSUME RInv, [RNext]_rvars
             PROVE  RInv'
  OBVIOUS
<1>1. CASE UNCHANGED rvars
  BY <1>1 DEF rvars, tables, RInv, RTypeOK, ActiveIsSearchable, Active, Sound, TableOf
<1>2. ASSUME NEW p \in Procs,
             \/ \E kind \in Switching \cup {"ensure"}, m \in Models \cup {None} : Begin(p, kind, m)
             \/ Step(p)
             \/ CallFails(p)
      PROVE  RInv'
  <2>1. CASE \E kind \in Switching \cup {"ensure"}, m \in Models \cup {None} : Begin(p, kind, m)
    BY <2>1, BeginKeeps
  <2>2. CASE CallFails(p) \/ CreateRefused(p) \/ DeadlockVictim(p)
    BY <2>2, FailKeeps DEF CallFails, CreateRefused, DeadlockVictim
  <2>3. CASE Upsert(p)
    BY <2>3, UpsertKeeps
  <2>4. CASE LookForTable(p)
    BY <2>4, LookKeeps
  <2>5. CASE CreateTable(p)
    BY <2>5, CreateKeeps
  <2>6. CASE KeepIndex(p)
    BY <2>6, KeepIndexKeeps
  <2>7. CASE BuildIndex(p) \/ FallBack(p)
    BY <2>7, BuildIndexKeeps
  <2>8. CASE EnsureDone(p)
    BY <2>8, DoneKeeps
  <2>9. CASE StartSwitch(p)
    BY <2>9, StartSwitchKeeps
  <2>10. CASE StatementDone(p)
    BY <2>10, StatementKeeps
  <2>11. CASE Commit(p)
    BY <2>11, CommitKeeps
  <2>12. CASE \E m \in Models : UpdateRow(p, m)
    BY <2>12, UpdateKeeps
  <2> QED
    BY <1>2, <2>1, <2>2, <2>3, <2>4, <2>5, <2>6, <2>7, <2>8, <2>9, <2>10, <2>11, <2>12 DEF Step
<1> QED
  BY <1>1, <1>2 DEF RNext

\* However registrations, activations, promotes and demotes of any number of
\* processes interleave, fail or are rolled back, every active model has an
\* indexed table (ensureEmbedModel before setActiveEmbedModelExclusive).
THEOREM ActiveSearchableAlways == RSpec => []RegistryInv
<1>1. RInv => RegistryInv
  BY DEF RInv, RegistryInv
<1> QED
  BY InitRInv, NextRInv, <1>1, PTL DEF RSpec

-----------------------------------------------------------------------------
(* That one stays active, and that only a switch changes which is used.    *)

\* A call has written nothing before its upsert, nothing but the row of its
\* model before its switch, and a switch that has taken
\* the row of its target has written it active.
Writes(c, w) ==
    /\ c.at \in {"idle", "upsert"} \/ c.kind \notin Switching => w = Untouched
    /\ c.at \notin {"update", "commit"} => \A m \in Models \ {c.model} : w[m] = None
    /\ c.at \in {"switch", "update", "commit"} => c.kind \in Switching
    /\ c.at = "done" => c.kind \notin Switching
    /\ c.at = "commit" => c.todo = {}
    /\ c.at \in {"update", "commit"} /\ c.kind # "clear" /\ c.model \notin c.todo =>
          w[c.model] # None /\ w[c.model].status = "active"

WInv == \A p \in Procs : Writes(call[p], mine[p])

LEMMA InitWInv == RInit => WInv
BY DEF RInit, WInv, Writes, Idle, NewCall, Switching, Untouched

\* What a step does to a call that does not switch yet, or no longer.
LEMMA WritesLater ==
    ASSUME RInv, WInv, NEW p \in Procs,
           Step(p) \/ CallFails(p)
              \/ \E kind \in Switching \cup {"ensure"}, m \in Models \cup {None} : Begin(p, kind, m),
           ~StartSwitch(p), ~StatementDone(p), ~(\E m \in Models : UpdateRow(p, m))
    PROVE  /\ \A q \in Procs \ {p} : call'[q] = call[q] /\ mine'[q] = mine[q]
           /\ Writes(call'[p], mine'[p])
           /\ call'[p].at \notin {"update", "commit"}
<1>1. /\ call \in [Procs -> Calls] /\ mine \in [Procs -> [Models -> Row \cup {None}]]
      /\ call[p] \in Calls /\ Writes(call[p], mine[p])
  BY DEF RInv, RTypeOK, WInv
<1>2. CASE \E kind \in Switching \cup {"ensure"}, m \in Models \cup {None} : Begin(p, kind, m)
  <2>1. PICK kind \in Switching \cup {"ensure"}, m \in Models \cup {None} : Begin(p, kind, m)
    BY <1>2
  <2>2. /\ mine' = mine /\ mine[p] = Untouched
        /\ \A q \in Procs \ {p} : call'[q] = call[q]
        /\ call'[p].kind = kind
        /\ call'[p].at = IF kind \in {"restore", "clear"} THEN "switch" ELSE "upsert"
    BY <1>1, <2>1 DEF Begin, NewCall, Writes
  <2> QED
    BY <2>2 DEF Writes, Switching, Untouched
<1>3. CASE CallFails(p) \/ CreateRefused(p) \/ DeadlockVictim(p) \/ EnsureDone(p) \/ Commit(p)
  <2>1. call' = [call EXCEPT ![p] = Idle]
        /\ (mine' = [mine EXCEPT ![p] = Untouched] \/ (mine' = mine /\ mine[p] = Untouched))
    BY <1>1, <1>3 DEF CallFails, CreateRefused, DeadlockVictim, EnsureDone, Commit, Fail, RolledBack,
                      Writes
  <2>2. Writes(Idle, Untouched) /\ Idle.at = "idle"
    BY DEF Writes, Idle, NewCall, Switching, Untouched
  <2> QED
    BY <1>1, <2>1, <2>2
<1>4. CASE Upsert(p)
  <2>1. /\ call'[p].at = "look" /\ call'[p].kind = call[p].kind
        /\ call'[p].model = call[p].model
        /\ \A q \in Procs \ {p} : call'[q] = call[q] /\ mine'[q] = mine[q]
    BY <1>1, <1>4 DEF Upsert, Goto, Calls
  <2>2. call[p].kind \notin Switching => mine'[p] = Untouched
    BY <1>1, <1>4 DEF Upsert, InTransaction, Transactional, Switching, Writes
  <2>3. \A m \in Models \ {call[p].model} : mine'[p][m] = None
    BY <1>1, <1>4 DEF Upsert, Writes
  <2> QED
    BY <2>1, <2>2, <2>3 DEF Writes
<1>5. CASE LookForTable(p) \/ KeepIndex(p)
  <2>1. PICK stage \in {"create", "index", "switch", "done"} :
           /\ Goto(p, stage) /\ mine' = mine /\ call[p].at \in {"look", "index"}
           /\ stage = "switch" => call[p].kind \in Switching
           /\ stage = "done" => call[p].kind \notin Switching
    BY <1>5 DEF LookForTable, KeepIndex, AfterIndex
  <2>2. /\ call'[p].at = stage /\ call'[p].kind = call[p].kind
        /\ call'[p].model = call[p].model
        /\ \A q \in Procs \ {p} : call'[q] = call[q]
    BY <1>1, <2>1 DEF Goto, Calls
  <2> QED
    BY <1>1, <2>1, <2>2 DEF Writes
<1>6. CASE CreateTable(p) \/ BuildIndex(p) \/ FallBack(p)
  <2>1. PICK t \in {"bare"} \cup Indexes, stage \in {"index", "switch", "done"} :
           /\ Build(p, t, stage) /\ mine' = mine /\ call[p].at \in {"create", "index"}
           /\ stage = "switch" => call[p].kind \in Switching
           /\ stage = "done" => call[p].kind \notin Switching
    BY <1>6 DEF CreateTable, BuildIndex, FallBack, AfterIndex, Indexes
  <2>2. \/ call' = [call EXCEPT ![p] = [call[p] EXCEPT !.built = t, !.at = stage]]
        \/ call' = [call EXCEPT ![p] = [call[p] EXCEPT !.at = stage]]
    BY <2>1 DEF Build, Goto
  <2>3. call'[p].at = stage /\ call'[p].kind = call[p].kind /\ call'[p].model = call[p].model
    <3>1. CASE call'[p] = [call[p] EXCEPT !.built = t, !.at = stage]
      BY <1>1, <3>1 DEF Calls
    <3>2. CASE call'[p] = [call[p] EXCEPT !.at = stage]
      BY <1>1, <3>2 DEF Calls
    <3> QED
      BY <1>1, <2>2, <3>1, <3>2
  <2> QED
    BY <1>1, <2>1, <2>2, <2>3 DEF Writes
<1> QED
  BY <1>2, <1>3, <1>4, <1>5, <1>6 DEF Step

LEMMA NextWInv == RInv /\ WInv /\ [RNext]_rvars => WInv'
<1> SUFFICES ASSUME RInv, WInv, [RNext]_rvars
             PROVE  WInv'
  OBVIOUS
<1>1. /\ call \in [Procs -> Calls] /\ mine \in [Procs -> [Models -> Row \cup {None}]]
  BY DEF RInv, RTypeOK
<1>2. CASE UNCHANGED rvars
  BY <1>2 DEF rvars, WInv
<1>3. ASSUME NEW p \in Procs, StartSwitch(p)
      PROVE  WInv'
  <2>1. /\ mine' = mine
        /\ \A q \in Procs \ {p} : call'[q] = call[q] \/ call'[q] = [call[q] EXCEPT !.alone = FALSE]
    BY <1>3 DEF StartSwitch, tables
  <2>2. /\ call'[p].at = "update" /\ call'[p].kind = call[p].kind
        /\ call'[p].model = call[p].model /\ Target(p) \subseteq call'[p].todo
    BY <1>1, <1>3, SwitchTaken
  <2>3. Writes(call'[p], mine'[p])
    BY <1>3, <2>1, <2>2 DEF StartSwitch, WInv, Writes, Target
  <2>4. ASSUME NEW q \in Procs \ {p}
        PROVE  Writes(call'[q], mine'[q])
    <3>1. /\ call'[q].at = call[q].at /\ call'[q].kind = call[q].kind
          /\ call'[q].model = call[q].model /\ call'[q].todo = call[q].todo
      BY <1>1, <2>1, AloneIsOneField
    <3> QED
      BY <2>1, <3>1 DEF WInv, Writes
  <2> QED
    BY <2>3, <2>4 DEF WInv
<1>4. ASSUME NEW p \in Procs, StatementDone(p)
      PROVE  WInv'
  <2>1. mine' = mine /\ \A q \in Procs \ {p} : call'[q] = call[q]
    BY <1>1, <1>4 DEF StatementDone, Goto
  <2>2. Writes(call'[p], mine[p])
    BY <1>1, <1>4 DEF StatementDone, Goto, WInv, Writes, Calls
  <2> QED
    BY <2>1, <2>2 DEF WInv
<1>5. ASSUME NEW p \in Procs, NEW m \in Models, UpdateRow(p, m)
      PROVE  WInv'
  <2>1. \A q \in Procs \ {p} : call'[q] = call[q] /\ mine'[q] = mine[q]
    BY <1>1, <1>5 DEF UpdateRow
  <2>2. /\ call'[p].at = "update" /\ call'[p].kind = call[p].kind
        /\ call'[p].model = call[p].model /\ call'[p].todo = call[p].todo \ {m}
        /\ mine'[p] = [mine[p] EXCEPT ![m] = Switched(p, m)]
    BY <1>1, <1>5 DEF UpdateRow, Calls
  <2>3. call[p].kind # "clear" /\ m = call[p].model =>
           mine'[p][m] # None /\ mine'[p][m].status = "active"
    <3>1. call[p].kind # "clear" /\ m = call[p].model =>
             mine'[p][m] = [status |-> "active", at |-> call[p].start]
      BY <1>1, <2>2 DEF Switched, Target
    <3>2. [status |-> "active", at |-> call[p].start] # None
      <4>1. call[p].start \in Nat
        BY <1>1 DEF Calls
      <4> QED
        BY <4>1 DEF Row
    <3> QED
      BY <3>1, <3>2
  <2>4. Writes(call'[p], mine'[p])
    BY <1>1, <1>5, <2>2, <2>3 DEF UpdateRow, WInv, Writes
  <2> QED
    BY <2>1, <2>4 DEF WInv
<1>6. ASSUME NEW p \in Procs,
             Step(p) \/ CallFails(p)
                \/ \E kind \in Switching \cup {"ensure"}, m \in Models \cup {None} : Begin(p, kind, m),
             ~StartSwitch(p), ~StatementDone(p), ~(\E m \in Models : UpdateRow(p, m))
      PROVE  WInv'
  BY <1>6, WritesLater DEF WInv
<1> QED
  BY <1>2, <1>3, <1>4, <1>5, <1>6 DEF RNext

\* The steps that change a committed row: an insert of a new one, which is not
\* active, and a commit, which takes over what its process has written.
LEMMA RowsChange ==
    ASSUME RInv, WInv, [RNext]_rvars
    PROVE  \/ UNCHANGED <<Active, Resolved>>
           \/ \E p \in Procs : Commit(p)
<1>1. CASE UNCHANGED row
  BY <1>1 DEF Active, Resolved, Newest
<1>2. CASE \E p \in Procs : Upsert(p) /\ ~UNCHANGED row
  <2>1. PICK p \in Procs : Upsert(p) /\ ~UNCHANGED row
    BY <1>2
  <2> DEFINE m == call[p].model
  <2>2. row' = [row EXCEPT ![m] = Upserted(p)] /\ ~InTransaction(p)
    BY <2>1 DEF Upsert
  <2>3. row \in [Models -> Row] /\ call[p] \in Calls /\ m \in Models
    BY <2>1, StaysMine DEF Upsert, RInv, RTypeOK, Sound
  <2>4. Seen(p, m) = row[m]
    BY <2>1, <2>3 DEF Upsert, WInv, Writes, Seen, Untouched
  <2>5. CASE row[m].status = "none"
    <3>1. /\ Upserted(p) = [status |-> "ready", at |-> call[p].start]
          /\ \A n \in Models \ {m} : row'[n] = row[n]
          /\ row'[m] = Upserted(p) /\ row'[m].status = "ready"
      BY <2>2, <2>3, <2>4, <2>5 DEF Upserted
    <3>2. Active' = Active /\ m \notin Active
      BY <2>5, <3>1 DEF Active
    <3>3. Newest' = Newest
      BY <3>1, <3>2 DEF Newest, Active
    <3> QED
      BY <3>2, <3>3 DEF Resolved
  <2>6. CASE row[m].status # "none"
    BY <2>1, <2>2, <2>3, <2>4, <2>6 DEF Upserted
  <2> QED
    BY <2>5, <2>6
<1>3. ASSUME ~UNCHANGED row
      PROVE  \E p \in Procs : Upsert(p) \/ Commit(p)
  BY <1>3 DEF RNext, Step, rvars, tables, Begin, CallFails, Fail, LookForTable, CreateTable,
              CreateRefused, KeepIndex, BuildIndex, FallBack, EnsureDone, StartSwitch, StatementDone,
              DeadlockVictim, UpdateRow
<1> QED
  BY <1>1, <1>2, <1>3

\* While a model is active one stays active, except for a demote that has none to
\* restore, and the model dense search uses changes by a switch only
\* (setActiveEmbedModelExclusive, and the conflict clause of ensureEmbedModel).
THEOREM ActiveKeptAlways == RSpec => ActiveKept
<1> DEFINE Kept ==
        /\ Active # {} /\ Active' = {}
              => \E p \in Procs : Switches(p) /\ call[p].kind = "clear"
        /\ Resolved' # Resolved => \E p \in Procs : Switches(p)
<1>1. ASSUME RInv, WInv, [RNext]_rvars
      PROVE  Kept
  <2>1. ASSUME NEW p \in Procs, Commit(p)
        PROVE  Switches(p) /\ (call[p].kind # "clear" => Active' # {})
    <3>1. call \in [Procs -> Calls] /\ mine \in [Procs -> [Models -> Row \cup {None}]]
      BY <1>1 DEF RInv, RTypeOK
    <3>2. Switches(p)
      BY <2>1, <3>1 DEF Commit, Switches, Seen, Idle, NewCall
    <3>3. ASSUME call[p].kind # "clear"
          PROVE  call[p].model \in Active'
      <4>1. call[p].model \in Models
        BY <1>1, <2>1, <3>3, StaysMine DEF Commit, Sound
      <4>2. mine[p][call[p].model] # None /\ mine[p][call[p].model].status = "active"
        BY <1>1, <2>1, <3>3 DEF Commit, WInv, Writes
      <4> QED
        BY <2>1, <4>1, <4>2 DEF Commit, Seen, Active
    <3> QED
      BY <3>2, <3>3
  <2> QED
    BY <1>1, <2>1, RowsChange
<1> QED
  BY InitRInv, NextRInv, InitWInv, NextWInv, <1>1, PTL DEF RSpec, ActiveKept

-----------------------------------------------------------------------------
(* That an activation by itself leaves one model active.                   *)

Alone(p) == call[p].at \in {"update", "commit"} /\ call[p].alone

\* Beside it no other switches, and it still has to take every active row that
\* is not its target's, or has written it and not as active.
AInv ==
    \A p \in Procs : Alone(p) =>
        /\ Switchers \subseteq {p}
        /\ \A m \in Models \ {call[p].model} :
              /\ m \in Active => m \in call[p].todo \/ mine[p][m] # None
              /\ mine[p][m] # None => mine[p][m].status # "active"

LEMMA InitAInv == RInit => AInv
BY DEF RInit, AInv, Alone, Idle, NewCall

LEMMA NextAInv == RInv /\ WInv /\ AInv /\ [RNext]_rvars => AInv'
<1> SUFFICES ASSUME RInv, WInv, AInv, [RNext]_rvars
             PROVE  AInv'
  OBVIOUS
<1>1. /\ call \in [Procs -> Calls] /\ mine \in [Procs -> [Models -> Row \cup {None}]]
      /\ row \in [Models -> Row]
  BY DEF RInv, RTypeOK
<1>2. CASE UNCHANGED rvars
  BY <1>2 DEF rvars, tables, AInv, Alone, Switchers, Active
<1>3. ASSUME NEW p \in Procs, StartSwitch(p)
      PROVE  AInv'
  <2>1. /\ UNCHANGED <<row, mine>>
        /\ call'[p].at = "update" /\ call'[p].model = call[p].model
        /\ call'[p].todo = Demoted(p) \cup Target(p)
        /\ call'[p].alone = (Switchers = {})
    BY <1>1, <1>3, SwitchTaken DEF StartSwitch, tables
  <2>2. ASSUME NEW q \in Procs \ {p}
        PROVE  ~Alone(q)' /\ (q \notin Switchers => q \notin Switchers')
    <3>1. CASE q \in Switchers
      <4>1. call'[q] = [call[q] EXCEPT !.alone = FALSE] /\ call[q] \in Calls
        BY <1>1, <1>3, <3>1 DEF StartSwitch
      <4>2. call'[q].alone = FALSE
        BY <4>1 DEF Calls
      <4> QED
        BY <3>1, <4>2 DEF Alone
    <3>2. CASE q \notin Switchers
      BY <1>3, <3>2 DEF StartSwitch, Alone, Switchers
    <3> QED
      BY <3>1, <3>2
  <2>3. ASSUME Alone(p)'
        PROVE  /\ Switchers' \subseteq {p}
               /\ \A m \in Models \ {call'[p].model} :
                     /\ m \in Active' => m \in call'[p].todo \/ mine'[p][m] # None
                     /\ mine'[p][m] # None => mine'[p][m].status # "active"
    <3>1. Switchers = {}
      BY <2>1, <2>3 DEF Alone
    <3>2. Switchers' \subseteq {p}
      BY <2>2, <3>1 DEF Switchers
    <3>3. \A m \in Models \ {call[p].model} : mine[p][m] = None
      BY <1>3 DEF StartSwitch, WInv, Writes
    <3>4. \A m \in Models \ {call[p].model} : m \in Active => m \in Demoted(p)
      BY <3>3 DEF Active, Demoted, Seen
    <3> QED
      BY <2>1, <3>2, <3>3, <3>4 DEF Active
  <2> QED
    BY <2>2, <2>3 DEF AInv
<1>4. ASSUME NEW p \in Procs, StatementDone(p)
      PROVE  AInv'
  <2>1. /\ UNCHANGED <<row, mine>> /\ \A q \in Procs \ {p} : call'[q] = call[q]
        /\ call[p].at = "update" /\ call'[p].alone = call[p].alone
        /\ call'[p].model = call[p].model /\ call'[p].todo = call[p].todo
    BY <1>1, <1>4 DEF StatementDone, Goto, Calls, tables
  <2>2. Switchers' \subseteq Switchers /\ Active' = Active
    BY <2>1 DEF Switchers, Active
  <2>3. \A q \in Procs : Alone(q)' => Alone(q)
    BY <2>1 DEF Alone
  <2> QED
    BY <2>1, <2>2, <2>3 DEF AInv
<1>5. ASSUME NEW p \in Procs, NEW m \in Models, UpdateRow(p, m)
      PROVE  AInv'
  <2>1. /\ UNCHANGED row /\ \A q \in Procs \ {p} : call'[q] = call[q]
        /\ call[p].at = "update" /\ call'[p].at = "update" /\ call'[p].alone = call[p].alone
        /\ call'[p].model = call[p].model /\ call'[p].todo = call[p].todo \ {m}
        /\ mine'[p] = [mine[p] EXCEPT ![m] = Switched(p, m)]
    BY <1>1, <1>5 DEF UpdateRow, Calls, tables
  <2>2. Switchers' = Switchers /\ Active' = Active /\ p \in Switchers
    BY <2>1 DEF Switchers, Active
  <2>3. \A q \in Procs : Alone(q)' => Alone(q) /\ q = p
    BY <2>1, <2>2 DEF Alone, AInv
  <2>4. Switched(p, m) \in Row /\ (m # call[p].model => Switched(p, m).status # "active")
    BY <1>1, SeenHasGround DEF Switched, Target, Row, Calls
  <2> QED
    BY <1>1, <2>1, <2>2, <2>3, <2>4 DEF AInv
<1>6. ASSUME NEW p \in Procs,
             Step(p) \/ CallFails(p)
                \/ \E kind \in Switching \cup {"ensure"}, m \in Models \cup {None} : Begin(p, kind, m),
             ~StartSwitch(p), ~StatementDone(p), ~(\E m \in Models : UpdateRow(p, m))
      PROVE  AInv'
  <2>1. /\ \A q \in Procs \ {p} : call'[q] = call[q] /\ mine'[q] = mine[q]
        /\ call'[p].at \notin {"update", "commit"}
    BY <1>6, WritesLater
  <2>2. Switchers' \subseteq Switchers
    BY <2>1 DEF Switchers
  <2>3. ASSUME NEW q \in Procs, Alone(q)'
        PROVE  /\ Switchers' \subseteq {q}
               /\ \A m \in Models \ {call'[q].model} :
                     /\ m \in Active' => m \in call'[q].todo \/ mine'[q][m] # None
                     /\ mine'[q][m] # None => mine'[q][m].status # "active"
    <3>1. q # p /\ Alone(q)
      BY <2>1, <2>3 DEF Alone
    <3>2. Active' = Active
      <4>1. ASSUME NEW r \in Procs, Commit(r)
            PROVE  FALSE
        <5>1. r \in Switchers
          BY <4>1 DEF Commit, Switchers
        <5>2. r = q
          BY <3>1, <5>1 DEF AInv
        <5>3. call'[q].at = "idle"
          BY <1>1, <4>1, <5>2 DEF Commit, Idle, NewCall
        <5> QED
          BY <2>3, <5>3 DEF Alone
      <4> QED
        BY <4>1, RowsChange
    <3> QED
      BY <2>1, <2>2, <3>1, <3>2 DEF AInv
  <2> QED
    BY <2>3 DEF AInv
<1> QED
  BY <1>2, <1>3, <1>4, <1>5, <1>6 DEF RNext

\* An activation, promote or restore that no other switch overlapped leaves its
\* model as the only active one (the update of setActiveEmbedModelExclusive).
THEOREM LoneActivationHealsAlways == RSpec => LoneActivationHeals
<1> DEFINE Heals ==
        \A p \in Procs : Switches(p) /\ call[p].alone /\ call[p].kind # "clear"
           => Active' = {call[p].model}
<1>1. ASSUME RInv, WInv, AInv, [RNext]_rvars
      PROVE  Heals
  <2> SUFFICES ASSUME NEW p \in Procs, Switches(p), call[p].alone, call[p].kind # "clear"
               PROVE  Active' = {call[p].model}
    OBVIOUS
  <2> DEFINE m == call[p].model
  <2>1. /\ call \in [Procs -> Calls] /\ mine \in [Procs -> [Models -> Row \cup {None}]]
    BY <1>1 DEF RInv, RTypeOK
  <2>2. /\ m \in Models /\ call[p].todo = {}
        /\ mine[p][m] # None /\ mine[p][m].status = "active"
    BY <1>1, StaysMine DEF Switches, Sound, WInv, Writes
  <2>3. \A n \in Models \ {m} :
           /\ n \in Active => mine[p][n] # None
           /\ mine[p][n] # None => mine[p][n].status # "active"
    BY <1>1, <2>2 DEF Switches, AInv, Alone
  <2>4. UNCHANGED Active \/ Commit(p)
    <3>1. ASSUME NEW r \in Procs, Commit(r)
          PROVE  r = p
      BY <1>1, <3>1 DEF AInv, Alone, Switches, Switchers, Commit
    <3> QED
      BY <1>1, <3>1, RowsChange
  <2>5. ASSUME NEW n \in Models \ {m}
        PROVE  n \notin Active'
    <3>1. CASE mine[p][n] # None
      BY <2>3, <3>1 DEF Switches, Active
    <3>2. CASE mine[p][n] = None
      <4>1. n \notin Active
        BY <2>3, <3>2
      <4>2. Commit(p) => (n \in Active' <=> n \in Active)
        BY <3>2 DEF Commit, Seen, Active
      <4> QED
        BY <2>4, <4>1, <4>2
    <3> QED
      BY <3>1, <3>2
  <2>6. m \in Active'
    BY <2>2 DEF Switches, Active
  <2> QED
    BY <2>5, <2>6 DEF Active
<1> QED
  BY InitRInv, NextRInv, InitWInv, NextWInv, InitAInv, NextAInv, <1>1, PTL
     DEF RSpec, LoneActivationHeals

-----------------------------------------------------------------------------
(* Where a text is cut.                                                    *)

\* The cuts of a text: its two ends and places between them.
CutsOf(t, C) == C \in SUBSET (0..Len(t)) /\ 0 \in C /\ Len(t) \in C

\* The pieces next to a place, and around two places with no cut between.
LEMMA PieceAround ==
    ASSUME NEW t \in Seq(Classes), NEW C, CutsOf(t, C),
           NEW a \in 0..Len(t), NEW b \in 0..Len(t), a < b,
           \A c \in C : c <= a \/ c >= b
    PROVE  \E a0, b0 \in C : Adjacent(C, a0, b0) /\ a0 <= a /\ b <= b0
<1>1. Len(t) \in Nat /\ C \in SUBSET Nat /\ \A c \in C : c <= Len(t)
  BY DEF CutsOf
<1>2. PICK b0 \in C : b <= b0 /\ \A c \in C : b <= c => b0 <= c
  <2> DEFINE T == {c \in C : b <= c}
  <2>1. T \in SUBSET Nat
    BY <1>1
  <2>2. Len(t) \in T
    BY <1>1 DEF CutsOf
  <2>3. PICK n \in T : \A m \in T : n <= m
    <3> HIDE DEF T
    <3> QED
      BY <2>1, <2>2, LeastNatural
  <2> QED
    BY <2>3
<1>3. PICK a0 \in C : a0 <= a /\ \A c \in C : c <= a => c <= a0
  <2> DEFINE T == {n \in Nat : n <= a /\ a - n \in C}
  <2>1. T \in SUBSET Nat /\ a \in T
    BY <1>1 DEF CutsOf
  <2>2. PICK n \in T : \A m \in T : n <= m
    <3> HIDE DEF T
    <3> QED
      BY <2>1, LeastNatural
  <2>3. ASSUME NEW c \in C, c <= a PROVE c <= a - n
    <3>1. c \in Nat /\ a \in Nat /\ a - c \in Nat /\ a - (a - c) = c
      BY <1>1, <2>3
    <3>2. a - c \in T
      BY <3>1, <2>3
    <3>3. n <= a - c /\ n \in Nat
      BY <2>2, <3>2
    <3> QED
      BY <3>1, <3>3
  <2> QED
    BY <1>1, <2>2, <2>3
<1> QED
  BY <1>1, <1>2, <1>3 DEF Adjacent

LEMMA SplitCuts ==
    ASSUME NEW t \in Seq(Classes), NEW C, CutsOf(t, C), NEW r \in 1..4
    PROVE  CutsOf(t, SplitAt(t, C, r)) /\ C \subseteq SplitAt(t, C, r)
<1> DEFINE new == {e \in 1..Len(t) : \E a, b \in C : /\ Adjacent(C, a, b)
                                                    /\ b - a > MaxChars
                                                    /\ a < e /\ e <= b
                                                    /\ SeparatorEnds(t, a, e, r)}
<1>1. SplitAt(t, C, r) = C \cup new
  BY DEF SplitAt
<1>2. new \subseteq 0..Len(t)
  OBVIOUS
<1> HIDE DEF new
<1> QED
  BY <1>1, <1>2 DEF CutsOf

\* Where nothing is cut by a separator, and the text between is too long, there is
\* none: for the two separators that are one character.
LEMMA SplitLeavesNone ==
    ASSUME NEW t \in Seq(Classes), NEW C, CutsOf(t, C), NEW r \in {2, 4},
           NEW a \in 0..Len(t), NEW b \in 0..Len(t), b - a > MaxChars,
           \A c \in SplitAt(t, C, r) : c <= a \/ c >= b
    PROVE  \A i \in (a + 1)..(b - 1) : t[i] # (IF r = 2 THEN "newline" ELSE "space")
<1>1. MaxChars \in Nat \ {0} /\ Len(t) \in Nat
  BY ChunkerAssumption
<1>2. PICK a0, b0 \in C : Adjacent(C, a0, b0) /\ a0 <= a /\ b <= b0
  <2>1. \A c \in C : c <= a \/ c >= b
    BY SplitCuts
  <2> QED
    BY <1>1, <2>1, PieceAround
<1> SUFFICES ASSUME NEW i \in (a + 1)..(b - 1), t[i] = IF r = 2 THEN "newline" ELSE "space"
             PROVE  FALSE
  OBVIOUS
<1>3. a0 \in Nat /\ b0 \in Nat /\ b0 <= Len(t)
  BY <1>2 DEF CutsOf
<1>4. i \in 1..Len(t) /\ a0 < i /\ i <= b0 /\ b0 - a0 > MaxChars
  BY <1>1, <1>2, <1>3
<1>5. SeparatorEnds(t, a0, i, r)
  <2>1. CASE r = 2
    BY <2>1 DEF SeparatorEnds
  <2>2. CASE r = 4
    BY <2>2 DEF SeparatorEnds
  <2> QED
    BY <2>1, <2>2
<1>6. i \in SplitAt(t, C, r)
  BY <1>2, <1>4, <1>5 DEF SplitAt
<1> QED
  BY <1>1, <1>6

\* A cut within a word is of a word that is too long.
WordEdge(t, e) ==
    \/ e \in {0, Len(t)}
    \/ t[e] \in {"newline", "space"}
    \/ \E a \in 0..(e - 1), b \in (e + 1)..Len(t) :
          /\ b - a > MaxChars
          /\ \A i \in (a + 1)..(b - 1) : t[i] \notin {"newline", "space"}

LEMMA SplitAtWords ==
    ASSUME NEW t \in Seq(Classes), NEW C, CutsOf(t, C), NEW r \in 1..4,
           \A e \in C : e \in {0, Len(t)} \/ t[e] \in {"newline", "space"}
    PROVE  \A e \in SplitAt(t, C, r) : e \in {0, Len(t)} \/ t[e] \in {"newline", "space"}
<1> SUFFICES ASSUME NEW e \in SplitAt(t, C, r), e \notin C
             PROVE  t[e] \in {"newline", "space"}
  OBVIOUS
<1>1. PICK a, b \in C : a < e /\ e <= b /\ e \in 1..Len(t) /\ SeparatorEnds(t, a, e, r)
  BY DEF SplitAt
<1>2. CASE r = 1
  <2>1. PICK k \in 1..((e - a) \div 2) : \A i \in (e - 2 * k + 1)..e : t[i] = "newline"
    BY <1>1, <1>2 DEF SeparatorEnds, PairEnds
  <2>2. a \in Nat /\ e \in Nat /\ k \in Nat /\ k >= 1
    BY <1>1 DEF CutsOf
  <2>3. e \in (e - 2 * k + 1)..e
    BY <2>2
  <2> QED
    BY <2>1, <2>3
<1>3. CASE r = 2
  BY <1>1, <1>3 DEF SeparatorEnds
<1>4. CASE r = 3
  BY <1>1, <1>4 DEF SeparatorEnds
<1>5. CASE r = 4
  BY <1>1, <1>5 DEF SeparatorEnds
<1> QED
  BY <1>2, <1>3, <1>4, <1>5

\* The leaves of a text.
Leaves(t) == HardCut(t, Pieces(t))

LEMMA PiecesAre ==
    ASSUME NEW t \in Seq(Classes), t # <<>>
    PROVE  /\ CutsOf(t, Pieces(t))
           /\ \A e \in Pieces(t) : e \in {0, Len(t)} \/ t[e] \in {"newline", "space"}
           /\ \A a, b \in Pieces(t) : Adjacent(Pieces(t), a, b) /\ b - a > MaxChars =>
                 \A i \in (a + 1)..(b - 1) : t[i] \notin {"newline", "space"}
<1> DEFINE C0 == {0, Len(t)}
           C1 == SplitAt(t, C0, 1)
           C2 == SplitAt(t, C1, 2)
           C3 == SplitAt(t, C2, 3)
           C4 == SplitAt(t, C3, 4)
<1>1. CutsOf(t, C0)
  BY DEF CutsOf
<1> HIDE DEF C0
<1>2. CutsOf(t, C1)
  BY <1>1, SplitCuts
<1> HIDE DEF C1
<1>3. CutsOf(t, C2) /\ C1 \subseteq C2
  BY <1>2, SplitCuts
<1>4. \A a, b \in 0..Len(t) : b - a > MaxChars /\ (\A c \in C2 : c <= a \/ c >= b) =>
         \A i \in (a + 1)..(b - 1) : t[i] # "newline"
  BY <1>2, SplitLeavesNone
<1> HIDE DEF C2
<1>5. CutsOf(t, C3) /\ C2 \subseteq C3
  BY <1>3, SplitCuts
<1> HIDE DEF C3
<1>6. CutsOf(t, C4) /\ C3 \subseteq C4
  BY <1>5, SplitCuts
<1>7. \A a, b \in 0..Len(t) : b - a > MaxChars /\ (\A c \in C4 : c <= a \/ c >= b) =>
         \A i \in (a + 1)..(b - 1) : t[i] # "space"
  BY <1>5, SplitLeavesNone
<1>8. \A e \in C4 : e \in {0, Len(t)} \/ t[e] \in {"newline", "space"}
  <2>1. \A e \in C0 : e \in {0, Len(t)} \/ t[e] \in {"newline", "space"}
    BY DEF C0
  <2>2. \A e \in C1 : e \in {0, Len(t)} \/ t[e] \in {"newline", "space"}
    BY <1>1, <2>1, SplitAtWords DEF C1
  <2>3. \A e \in C2 : e \in {0, Len(t)} \/ t[e] \in {"newline", "space"}
    BY <1>2, <2>2, SplitAtWords DEF C2
  <2>4. \A e \in C3 : e \in {0, Len(t)} \/ t[e] \in {"newline", "space"}
    BY <1>3, <2>3, SplitAtWords DEF C3
  <2> QED
    BY <1>5, <2>4, SplitAtWords
<1>9. Pieces(t) = C4
  BY DEF Pieces, C0, C1, C2, C3
<1> HIDE DEF C4
<1>10. ASSUME NEW a \in C4, NEW b \in C4, Adjacent(C4, a, b), b - a > MaxChars
       PROVE  \A i \in (a + 1)..(b - 1) : t[i] \notin {"newline", "space"}
  <2>1. a \in 0..Len(t) /\ b \in 0..Len(t)
    BY <1>6 DEF CutsOf
  <2>2. /\ \A c \in C4 : c <= a \/ c >= b
        /\ \A c \in C2 : c <= a \/ c >= b
    BY <1>5, <1>6, <1>10 DEF Adjacent
  <2> QED
    BY <1>4, <1>7, <1>10, <2>1, <2>2
<1> QED
  BY <1>6, <1>8, <1>9, <1>10

LEMMA Multiples ==
    ASSUME NEW n \in Nat \ {0}, NEW x \in Nat, x % n = 0
    PROVE  (x + n) % n = 0 /\ (x > 0 => x >= n)
<1>1. x = n * (x \div n) /\ x \div n \in Nat
  OBVIOUS
<1>2. PICK q \in Nat : x = n * q
  BY <1>1
<1>3. x + n = n * (q + 1)
  BY <1>2
<1>4. (n * (q + 1)) % n = 0
  OBVIOUS
<1>5. x < n => x % n = x
  OBVIOUS
<1> QED
  BY <1>3, <1>4, <1>5

LEMMA LeavesAre ==
    ASSUME NEW t \in Seq(Classes), t # <<>>
    PROVE  /\ CutsOf(t, Leaves(t))
           /\ \A a, b \in Leaves(t) : Adjacent(Leaves(t), a, b) => b - a <= MaxChars
           /\ \A e \in Leaves(t) : WordEdge(t, e)
<1> DEFINE C == Pieces(t)
           D == Leaves(t)
           hard == {e \in 1..Len(t) : \E a, b \in C : /\ Adjacent(C, a, b) /\ a < e /\ e < b
                                                      /\ (e - a) % MaxChars = 0}
<1>1. /\ CutsOf(t, C)
      /\ \A e \in C : e \in {0, Len(t)} \/ t[e] \in {"newline", "space"}
      /\ \A a, b \in C : Adjacent(C, a, b) /\ b - a > MaxChars =>
            \A i \in (a + 1)..(b - 1) : t[i] \notin {"newline", "space"}
  BY PiecesAre
<1>2. D = C \cup hard
  BY DEF Leaves, HardCut
<1>3. MaxChars \in Nat \ {0} /\ Len(t) \in Nat
  BY ChunkerAssumption
<1> HIDE DEF C
<1>4. \A e \in hard : e \in 1..Len(t)
  OBVIOUS
<1>5. ASSUME NEW e \in hard
      PROVE  \E a, b \in C : /\ Adjacent(C, a, b) /\ a < e /\ e < b
                             /\ (e - a) % MaxChars = 0
  OBVIOUS
<1>6. ASSUME NEW e \in 1..Len(t), NEW a \in C, NEW b \in C,
             Adjacent(C, a, b), a < e, e < b, (e - a) % MaxChars = 0
      PROVE  e \in hard
  BY <1>6
<1> HIDE DEF hard
<1>7. CutsOf(t, D) /\ C \subseteq D
  <2>1. C \subseteq D /\ D \in SUBSET (0..Len(t))
    <3>1. C \in SUBSET (0..Len(t))
      BY <1>1 DEF CutsOf
    <3>2. hard \in SUBSET (0..Len(t))
      BY <1>3, <1>4
    <3> QED
      BY <1>2, <3>1, <3>2
  <2>2. 0 \in D /\ Len(t) \in D
    BY <1>1, <2>1 DEF CutsOf
  <2> HIDE DEF D
  <2> QED
    BY <2>1, <2>2 DEF CutsOf
<1>8. ASSUME NEW e \in hard
      PROVE  WordEdge(t, e)
  <2>1. PICK a, b \in C : Adjacent(C, a, b) /\ a < e /\ e < b /\ (e - a) % MaxChars = 0
    BY <1>5
  <2>2. a \in 0..Len(t) /\ b \in 0..Len(t) /\ e \in 1..Len(t)
    BY <1>1, <1>4 DEF CutsOf
  <2>3. b - a > MaxChars
    <3>1. e - a \in Nat /\ e - a > 0
      BY <2>1, <2>2
    <3>2. e - a >= MaxChars
      BY <1>3, <2>1, <3>1, Multiples
    <3> QED
      BY <1>3, <2>1, <2>2, <3>2
  <2>4. \A i \in (a + 1)..(b - 1) : t[i] \notin {"newline", "space"}
    BY <1>1, <2>1, <2>3
  <2>5. a \in 0..(e - 1) /\ b \in (e + 1)..Len(t)
    BY <2>1, <2>2
  <2> QED
    BY <2>3, <2>4, <2>5 DEF WordEdge
<1>9. ASSUME NEW a \in D, NEW b \in D, Adjacent(D, a, b), b - a > MaxChars
      PROVE  FALSE
  <2>1. a \in 0..Len(t) /\ b \in 0..Len(t) /\ a < b
    BY <1>7, <1>9 DEF CutsOf, Adjacent
  <2>2. PICK a0, b0 \in C : Adjacent(C, a0, b0) /\ a0 <= a /\ b <= b0
    <3>1. \A c \in C : c <= a \/ c >= b
      BY <1>7, <1>9 DEF Adjacent
    <3> QED
      BY <1>1, <2>1, <3>1, PieceAround
  <2>3. a0 \in 0..Len(t) /\ b0 \in 0..Len(t) /\ \A c \in C : c \in 0..Len(t)
    BY <1>1 DEF CutsOf
  <2>4. (a - a0) % MaxChars = 0
    <3>1. CASE a \in C
      <4>1. a = a0
        BY <2>1, <2>2, <2>3, <3>1 DEF Adjacent
      <4> QED
        BY <1>3, <2>1, <4>1
    <3>2. CASE a \in hard
      <4>1. PICK a1, b1 \in C : Adjacent(C, a1, b1) /\ a1 < a /\ a < b1 /\ (a - a1) % MaxChars = 0
        BY <1>5, <3>2
      <4>2. a1 = a0
        BY <2>1, <2>2, <2>3, <4>1 DEF Adjacent
      <4> QED
        BY <4>1, <4>2
    <3> QED
      BY <1>2, <3>1, <3>2
  <2>5. ((a + MaxChars) - a0) % MaxChars = 0
    <3>1. PICK x \in Nat : x = a - a0
      BY <2>1, <2>2, <2>3
    <3>2. (x + MaxChars) % MaxChars = 0
      BY <1>3, <2>4, <3>1, Multiples
    <3>3. x + MaxChars = (a + MaxChars) - a0
      BY <1>3, <2>1, <2>3, <3>1
    <3> QED
      BY <3>2, <3>3
  <2>6. /\ a + MaxChars \in 1..Len(t) /\ a0 < a + MaxChars /\ a + MaxChars < b0
        /\ a < a + MaxChars /\ a + MaxChars < b
    BY <1>3, <1>9, <2>1, <2>2, <2>3
  <2>7. a + MaxChars \in D
    <3>1. PICK e \in 1..Len(t) : e = a + MaxChars
      BY <2>6
    <3>2. e \in hard
      BY <1>6, <2>2, <2>5, <2>6, <3>1
    <3> QED
      BY <1>2, <3>1, <3>2
  <2> QED
    BY <1>3, <1>9, <2>1, <2>6, <2>7 DEF Adjacent
<1>10. \A e \in D : WordEdge(t, e)
  BY <1>1, <1>2, <1>8 DEF WordEdge
<1>11. \A a, b \in D : Adjacent(D, a, b) => b - a <= MaxChars
  <2>1. \A a \in D : a \in Nat
    BY <1>3, <1>7 DEF CutsOf
  <2> QED
    BY <1>3, <1>9, <2>1
<1> QED
  BY <1>7, <1>10, <1>11

-----------------------------------------------------------------------------
(* The groups of a text, and its chunks.                                   *)

\* Groups of the leaves of a text, in order and without a gap; each begins with no
\* more than the overlap of the one before, and was needed: that one and what this
\* one adds would be too long.
Line(t, gs) ==
    /\ gs \in Seq(Runs) /\ gs # <<>>
    /\ gs[1].from = 0
    /\ \A i \in DOMAIN gs :
          /\ gs[i].from \in Leaves(t) /\ gs[i].to \in Leaves(t)
          /\ gs[i].from < gs[i].to /\ Size(gs[i]) <= MaxChars + OverlapChars
    /\ \A i \in 1..(Len(gs) - 1) :
          /\ gs[i + 1].from <= gs[i].to /\ gs[i].to < gs[i + 1].to
          /\ gs[i].to - gs[i + 1].from <= OverlapChars
          /\ gs[i + 1].to - gs[i].from > MaxChars

\* What one chunk is to the text it is of.
WholeChunk(t, c) ==
    /\ From(c) \in Nat /\ To(c) \in Nat /\ Length(c) \in Nat
    /\ To(c) <= Len(t)
    /\ WordEdge(t, From(c)) /\ WordEdge(t, To(c))
    /\ Length(c) <= MaxChars + OverlapChars + (IF Len(c.parts) = 1 THEN 0 ELSE MinChars - 1)
    /\ Length(c) < MinChars => Length(c) = Len(t) \/ To(c) < Len(t)

\* What two in a row are to each other.
InTurn(c, d) ==
    /\ From(d) <= To(c) /\ To(c) < To(d)
    /\ To(c) - From(d) <= OverlapChars

Chunk == [of : Nat, parts : Seq(Runs)]

LEMMA OnePart ==
    ASSUME NEW g \in Runs, NEW c \in Chunk, c.parts = <<g>>
    PROVE  /\ From(c) = g.from /\ To(c) = g.to /\ Length(c) = Size(g) /\ Len(c.parts) = 1
BY DEF From, To, Length

LEMMA TwoParts ==
    ASSUME NEW g \in Runs, NEW h \in Runs, NEW c \in Chunk, c.parts = <<g, h>>
    PROVE  /\ From(c) = g.from /\ To(c) = h.to /\ Length(c) = Size(g) + Size(h)
           /\ Len(c.parts) = 2
BY DEF From, To, Length

\* The chunks of a text whose last group ends where it does.
LEMMA ChunksAre ==
    ASSUME NEW t \in Seq(Classes), t # <<>>, NEW gs, Line(t, gs), gs[Len(gs)].to = Len(t),
           at \in Nat
    PROVE  /\ Chunks(gs) \in Seq(Chunk) /\ Chunks(gs) # <<>>
           /\ \A k \in DOMAIN Chunks(gs) : /\ Chunks(gs)[k].of = at
                                           /\ WholeChunk(t, Chunks(gs)[k])
           /\ From(Chunks(gs)[1]) = 0
           /\ To(Chunks(gs)[Len(Chunks(gs))]) = Len(t)
           /\ \A k \in 1..(Len(Chunks(gs)) - 1) : InTurn(Chunks(gs)[k], Chunks(gs)[k + 1])
<1> DEFINE n == Len(gs)
           cs == Chunks(gs)
<1>1. gs \in Seq(Runs) /\ n \in Nat /\ n >= 1 /\ DOMAIN gs = 1..n
  BY DEF Line
<1>2. gs[1].from = 0 /\ gs[n].to = Len(t)
  BY DEF Line
<1>3. /\ MaxChars \in Nat \ {0} /\ OverlapChars \in Nat
      /\ MinChars \in Nat /\ MinChars <= MaxChars /\ Len(t) \in Nat
  BY ChunkerAssumption
<1>4. ASSUME NEW i \in 1..n
      PROVE  /\ gs[i] \in Runs /\ gs[i].from \in Nat /\ gs[i].to \in Nat
             /\ gs[i].to <= Len(t) /\ gs[i].from < gs[i].to
             /\ Size(gs[i]) = gs[i].to - gs[i].from /\ Size(gs[i]) \in Nat
             /\ Size(gs[i]) <= MaxChars + OverlapChars
             /\ WordEdge(t, gs[i].from) /\ WordEdge(t, gs[i].to)
  <2>1. gs[i].from \in Leaves(t) /\ gs[i].to \in Leaves(t)
    BY <1>1 DEF Line
  <2>2. gs[i].to <= Len(t) /\ WordEdge(t, gs[i].from) /\ WordEdge(t, gs[i].to)
    BY <1>3, <2>1, LeavesAre DEF CutsOf
  <2>3. gs[i].from < gs[i].to /\ Size(gs[i]) <= MaxChars + OverlapChars
    BY <1>1 DEF Line
  <2>4. gs[i] \in Runs /\ gs[i].from \in Nat /\ gs[i].to \in Nat
    <3>1. gs[i] \in Runs
      BY <1>1
    <3> QED
      BY <3>1 DEF Runs
  <2>5. Size(gs[i]) = gs[i].to - gs[i].from /\ Size(gs[i]) \in Nat
    BY <2>3, <2>4 DEF Size
  <2> QED
    BY <2>2, <2>3, <2>4, <2>5
<1>5. \A i \in 1..(n - 1) :
          /\ gs[i + 1].from <= gs[i].to /\ gs[i].to < gs[i + 1].to
          /\ gs[i].to - gs[i + 1].from <= OverlapChars
          /\ gs[i + 1].to - gs[i].from > MaxChars
  BY DEF Line
<1>6. \A i \in 1..(n - 1) : i \in 1..n /\ i + 1 \in 1..n /\ gs[i].to < Len(t)
  <2> SUFFICES ASSUME NEW i \in 1..(n - 1)
               PROVE  i \in 1..n /\ i + 1 \in 1..n /\ gs[i].to < Len(t)
    OBVIOUS
  <2>1. i \in 1..n /\ i + 1 \in 1..n
    BY <1>1
  <2>2. /\ gs[i].to < gs[i + 1].to /\ gs[i + 1].to <= Len(t)
        /\ gs[i].to \in Nat /\ gs[i + 1].to \in Nat
    BY <1>4, <1>5, <2>1
  <2> QED
    BY <1>3, <2>1, <2>2
<1>7. CASE n < 2 \/ Size(gs[n]) >= MinChars
  <2>1. cs = [i \in 1..n |-> [of |-> at, parts |-> <<gs[i]>>]]
    <3>1. Merged(gs) = [i \in 1..n |-> <<gs[i]>>]
      BY <1>7 DEF Merged
    <3> QED
      BY <3>1 DEF Chunks
  <2> HIDE DEF cs, n
  <2>2. \A i \in 1..n : cs[i] \in Chunk /\ cs[i].parts = <<gs[i]>> /\ cs[i].of = at
    BY <1>4, <2>1 DEF Chunk
  <2>3. cs \in Seq(Chunk) /\ Len(cs) = n /\ DOMAIN cs = 1..n
    BY <1>1, <2>1, <2>2
  <2>4. \A i \in 1..n : /\ From(cs[i]) = gs[i].from /\ To(cs[i]) = gs[i].to
                        /\ Length(cs[i]) = Size(gs[i]) /\ Len(cs[i].parts) = 1
    <3> SUFFICES ASSUME NEW i \in 1..n
                 PROVE  /\ From(cs[i]) = gs[i].from /\ To(cs[i]) = gs[i].to
                        /\ Length(cs[i]) = Size(gs[i]) /\ Len(cs[i].parts) = 1
      OBVIOUS
    <3>1. gs[i] \in Runs /\ cs[i] \in Chunk /\ cs[i].parts = <<gs[i]>>
      BY <1>4, <2>2
    <3> QED
      BY <3>1, OnePart
  <2>5. ASSUME NEW i \in 1..n
        PROVE  WholeChunk(t, cs[i])
    <3>1. Size(gs[i]) < MinChars => Size(gs[i]) = Len(t) \/ gs[i].to < Len(t)
      <4>1. CASE i = n
        BY <1>1, <1>2, <1>3, <1>4, <1>7, <4>1
      <4>2. CASE i # n
        BY <1>1, <1>6, <4>2
      <4> QED
        BY <4>1, <4>2
    <3> QED
      BY <1>3, <1>4, <2>4, <3>1 DEF WholeChunk
  <2>6. ASSUME NEW i \in 1..(n - 1)
        PROVE  InTurn(cs[i], cs[i + 1])
    BY <1>5, <1>6, <2>4 DEF InTurn
  <2>7. From(cs[1]) = 0 /\ To(cs[n]) = Len(t)
    BY <1>1, <1>2, <2>4
  <2> QED
    BY <1>1, <2>2, <2>3, <2>5, <2>6, <2>7 DEF cs
<1>8. CASE ~(n < 2 \/ Size(gs[n]) >= MinChars)
  <2>1. cs = [i \in 1..(n - 1) |-> [of |-> at, parts |-> IF i = n - 1 THEN <<gs[n - 1], gs[n]>>
                                                         ELSE <<gs[i]>>]]
    <3>1. Merged(gs) = [i \in 1..(n - 1) |-> IF i = n - 1 THEN <<gs[n - 1], gs[n]>>
                                             ELSE <<gs[i]>>]
      BY <1>8 DEF Merged
    <3> QED
      BY <3>1 DEF Chunks
  <2> HIDE DEF cs, n
  <2>2. PICK m \in Nat : m = n - 1 /\ m >= 1 /\ n = m + 1 /\ m \in 1..n /\ n \in 1..n
    BY <1>1, <1>8
  <2>3. \A i \in 1..m : i # m => cs[i] \in Chunk /\ cs[i].parts = <<gs[i]>> /\ cs[i].of = at
    BY <1>4, <2>1, <2>2 DEF Chunk
  <2>4. cs[m] \in Chunk /\ cs[m].parts = <<gs[m], gs[n]>> /\ cs[m].of = at
    BY <1>4, <2>1, <2>2 DEF Chunk
  <2>5. cs \in Seq(Chunk) /\ Len(cs) = m /\ DOMAIN cs = 1..m
    <3>1. \A i \in 1..m : cs[i] \in Chunk
      BY <2>3, <2>4
    <3>2. cs = [i \in 1..m |-> cs[i]]
      BY <2>1, <2>2
    <3> QED
      BY <3>1, <3>2
  <2>6. \A i \in 1..m : i # m => /\ From(cs[i]) = gs[i].from /\ To(cs[i]) = gs[i].to
                                 /\ Length(cs[i]) = Size(gs[i]) /\ Len(cs[i].parts) = 1
    <3> SUFFICES ASSUME NEW i \in 1..m, i # m
                 PROVE  /\ From(cs[i]) = gs[i].from /\ To(cs[i]) = gs[i].to
                        /\ Length(cs[i]) = Size(gs[i]) /\ Len(cs[i].parts) = 1
      OBVIOUS
    <3>1. i \in 1..n
      BY <2>2
    <3>2. gs[i] \in Runs /\ cs[i] \in Chunk /\ cs[i].parts = <<gs[i]>>
      BY <1>4, <2>3, <3>1
    <3> QED
      BY <3>2, OnePart
  <2>7. /\ From(cs[m]) = gs[m].from /\ To(cs[m]) = gs[n].to
        /\ Length(cs[m]) = Size(gs[m]) + Size(gs[n]) /\ Len(cs[m].parts) = 2
    <3>1. gs[m] \in Runs /\ gs[n] \in Runs
      BY <1>4, <2>2
    <3> QED
      BY <2>4, <3>1, TwoParts
  <2>8. WholeChunk(t, cs[m])
    <3>1. /\ gs[m].from \in Nat /\ gs[m].to \in Nat /\ gs[n].from \in Nat /\ gs[n].to \in Nat
          /\ Size(gs[m]) = gs[m].to - gs[m].from /\ Size(gs[n]) = gs[n].to - gs[n].from
          /\ Size(gs[m]) \in Nat /\ Size(gs[n]) \in Nat /\ Size(gs[m]) <= MaxChars + OverlapChars
          /\ WordEdge(t, gs[m].from) /\ WordEdge(t, gs[n].to)
      BY <1>4, <2>2
    <3>2. gs[n].from <= gs[m].to /\ gs[n].to - gs[m].from > MaxChars
      BY <1>5, <2>2
    <3>3. Size(gs[n]) <= MinChars - 1
      BY <1>3, <1>8, <3>1
    <3>4. Size(gs[m]) + Size(gs[n]) >= MinChars
      <4>1. ASSUME NEW a \in Nat, NEW b \in Nat, NEW c \in Nat, NEW d \in Nat,
                   c <= b, d - a > MaxChars
            PROVE  (b - a) + (d - c) >= MinChars
        BY <1>3, <4>1
      <4> QED
        BY <3>1, <3>2, <4>1
    <3>5. Size(gs[m]) + Size(gs[n]) <= MaxChars + OverlapChars + (MinChars - 1)
      BY <1>3, <3>1, <3>3
    <3>6. /\ From(cs[m]) \in Nat /\ To(cs[m]) \in Nat /\ Length(cs[m]) \in Nat
          /\ To(cs[m]) <= Len(t) /\ ~(Length(cs[m]) < MinChars)
      <4>1. From(cs[m]) \in Nat /\ To(cs[m]) \in Nat /\ To(cs[m]) <= Len(t)
        BY <1>2, <1>3, <2>7, <3>1
      <4>2. ASSUME NEW x \in Nat, NEW y \in Nat, x + y >= MinChars
            PROVE  x + y \in Nat /\ ~(x + y < MinChars)
        BY <1>3, <4>2
      <4> QED
        BY <2>7, <3>1, <3>4, <4>1, <4>2
    <3> QED
      BY <2>7, <3>1, <3>5, <3>6 DEF WholeChunk
  <2>9. ASSUME NEW i \in 1..m
        PROVE  WholeChunk(t, cs[i])
    <3>1. CASE i # m
      <4>1. i \in 1..n /\ gs[i].to < Len(t)
        BY <1>6, <2>2, <3>1
      <4>2. /\ From(cs[i]) = gs[i].from /\ To(cs[i]) = gs[i].to
            /\ Length(cs[i]) = Size(gs[i]) /\ Len(cs[i].parts) = 1
        BY <2>6, <3>1
      <4>3. /\ gs[i].from \in Nat /\ gs[i].to \in Nat /\ gs[i].to <= Len(t)
            /\ Size(gs[i]) \in Nat /\ Size(gs[i]) <= MaxChars + OverlapChars
            /\ WordEdge(t, gs[i].from) /\ WordEdge(t, gs[i].to)
        BY <1>4, <4>1
      <4>4. MaxChars + OverlapChars + 0 = MaxChars + OverlapChars
        BY <1>3
      <4> QED
        BY <4>1, <4>2, <4>3, <4>4 DEF WholeChunk
    <3> QED
      BY <2>8, <3>1
  <2>10. ASSUME NEW i \in 1..(m - 1)
         PROVE  InTurn(cs[i], cs[i + 1])
    <3>1. i \in 1..m /\ i # m /\ i + 1 \in 1..m /\ i \in 1..(n - 1) /\ m \in 1..(n - 1)
      BY <2>2
    <3>2. From(cs[i + 1]) = gs[i + 1].from /\ To(cs[i + 1]) >= gs[i + 1].to
      <4>1. CASE i + 1 = m
        <5>1. gs[n].to > gs[m].to /\ gs[n].to \in Nat /\ gs[m].to \in Nat
          BY <1>4, <1>5, <2>2, <3>1
        <5> QED
          BY <2>7, <4>1, <5>1
      <4>2. CASE i + 1 # m
        <5>1. gs[i + 1].to \in Nat
          BY <1>6, <1>4, <3>1
        <5> QED
          BY <2>6, <3>1, <4>2, <5>1
      <4> QED
        BY <4>1, <4>2
    <3>3. /\ gs[i].to \in Nat /\ gs[i + 1].to \in Nat /\ gs[i + 1].from \in Nat
          /\ To(cs[i + 1]) \in Nat
      BY <1>4, <1>6, <2>9, <3>1 DEF WholeChunk
    <3>4. /\ gs[i + 1].from <= gs[i].to /\ gs[i].to < gs[i + 1].to
          /\ gs[i].to - gs[i + 1].from <= OverlapChars
      BY <1>5, <3>1
    <3>5. To(cs[i]) = gs[i].to
      BY <2>6, <3>1
    <3>6. gs[i].to < To(cs[i + 1])
      BY <3>2, <3>3, <3>4
    <3> QED
      BY <3>2, <3>4, <3>5, <3>6 DEF InTurn
  <2>11. From(cs[1]) = 0 /\ To(cs[m]) = Len(t)
    BY <1>2, <2>2, <2>6, <2>7
  <2> QED
    BY <2>2, <2>3, <2>4, <2>5, <2>9, <2>10, <2>11 DEF cs
<1> QED
  BY <1>7, <1>8

-----------------------------------------------------------------------------
(* The invariant.                                                          *)

\* The groups with the leaves in hand as the last one.
WithHand == Append(groups, [from |-> lo, to |-> pos])

\* A text that is chunked has taken no leaf yet, or its leaves so far are in line.
InHand ==
    phase = "merge" =>
        /\ at \in 1..Len(doc) /\ Text # <<>> /\ cuts = Leaves(Text)
        /\ lo \in cuts /\ pos \in cuts /\ lo <= pos
        /\ \/ pos = 0 /\ groups = <<>>
           \/ Line(Text, WithHand)

\* The chunks of the texts that are done.
PlanOK ==
    /\ \A k \in DOMAIN plan : /\ plan[k].of \in Planned /\ doc[plan[k].of] # <<>>
                              /\ WholeChunk(doc[plan[k].of], plan[k])
    /\ \A k \in DOMAIN plan : k + 1 \in Of(plan[k].of) => InTurn(plan[k], plan[k + 1])

KInv == ChunkerInv /\ InHand /\ PlanOK

LEMMA InitKInv == CInit => KInv
<1> SUFFICES ASSUME CInit PROVE KInv
  OBVIOUS
<1>1. doc \in Seq(Seq(Classes)) /\ at = 0 /\ phase = "next" /\ plan = <<>>
  BY ChunkerAssumption DEF CInit
<1>2. ChunkerInv
  BY <1>1 DEF CInit, ChunkerInv, CTypeOK, NothingDropped, Planned
<1>3. InHand /\ PlanOK
  BY <1>1 DEF InHand, PlanOK
<1> QED
  BY <1>2, <1>3 DEF KInv

LEMMA SplitKeeps == ASSUME KInv, Split PROVE KInv'
<1>1. /\ phase = "next" /\ at < Len(doc) /\ at' = at + 1 /\ doc' = doc /\ plan' = plan
      /\ doc \in Seq(Seq(Classes)) /\ at \in 0..Len(doc)
  BY DEF Split, KInv, ChunkerInv, CTypeOK
<1>2. doc[at + 1] \in Seq(Classes) /\ at + 1 \in 1..Len(doc) /\ Len(doc) \in Nat
  BY <1>1
<1>3. CASE doc[at + 1] = <<>>
  <2>1. UNCHANGED <<phase, cuts, lo, pos, groups>>
    BY <1>3 DEF Split
  <2>2. Planned' = Planned \cup {at + 1}
    BY <1>1, <2>1 DEF Planned
  <2>3. CTypeOK'
    BY <1>1, <1>2, <2>1 DEF KInv, ChunkerInv, CTypeOK
  <2>4. NothingDropped'
    BY <1>1, <1>3, <2>2 DEF KInv, ChunkerInv, NothingDropped, Of
  <2>5. InHand' /\ PlanOK'
    BY <1>1, <2>1, <2>2 DEF KInv, InHand, PlanOK, Of
  <2> QED
    BY <2>3, <2>4, <2>5 DEF KInv, ChunkerInv
<1>4. CASE doc[at + 1] # <<>>
  <2>1. /\ phase' = "merge" /\ cuts' = Leaves(doc[at + 1])
        /\ lo' = 0 /\ pos' = 0 /\ groups' = <<>>
    BY <1>4 DEF Split, Leaves
  <2>2. Planned' = Planned
    BY <1>1, <2>1 DEF Planned
  <2>3. CutsOf(doc[at + 1], cuts')
    BY <1>2, <1>4, <2>1, LeavesAre
  <2>4. CTypeOK'
    BY <1>1, <1>2, <2>1, <2>3 DEF KInv, ChunkerInv, CTypeOK, CutsOf
  <2>5. NothingDropped' /\ PlanOK'
    BY <1>1, <2>2 DEF KInv, ChunkerInv, NothingDropped, PlanOK, Of
  <2>6. InHand'
    BY <1>1, <1>2, <1>4, <2>1, <2>3 DEF InHand, Text, CutsOf
  <2> QED
    BY <2>4, <2>5, <2>6 DEF KInv, ChunkerInv
<1> QED
  BY <1>3, <1>4

\* What a turn of the loop leaves alone.
LEMMA TurnKeeps ==
    ASSUME KInv, phase = "merge", UNCHANGED <<doc, at, phase, cuts, plan>>,
           lo' \in cuts, pos' \in cuts, lo' <= pos', groups' \in Seq(Runs),
           Line(Text, Append(groups', [from |-> lo', to |-> pos']))
    PROVE  KInv'
<1>1. cuts \subseteq Nat
  BY DEF KInv, ChunkerInv, CTypeOK
<1>2. CTypeOK'
  BY <1>1 DEF KInv, ChunkerInv, CTypeOK
<1>3. NothingDropped' /\ PlanOK'
  BY DEF KInv, ChunkerInv, NothingDropped, PlanOK, Of, Planned
<1>4. InHand'
  BY DEF KInv, InHand, Text, WithHand
<1> QED
  BY <1>2, <1>3, <1>4 DEF KInv, ChunkerInv

\* The leaf after a place is one the cap admits.
LEMMA LeafIs ==
    ASSUME KInv, phase = "merge", NEW e \in cuts, Leaf(e)
    PROVE  /\ Text \in Seq(Classes) /\ Text # <<>> /\ cuts = Leaves(Text)
           /\ e \in Nat /\ pos \in Nat /\ lo \in Nat /\ pos < e /\ e - pos <= MaxChars
           /\ 0 \in cuts /\ \A c \in cuts : c \in Nat
<1>1. Text \in Seq(Classes) /\ Text # <<>> /\ cuts = Leaves(Text) /\ cuts \subseteq Nat
  BY DEF KInv, InHand, ChunkerInv, CTypeOK, Text
<1>2. Adjacent(cuts, pos, e) /\ pos \in cuts
  BY DEF Leaf
<1>3. e - pos <= MaxChars /\ 0 \in cuts
  BY <1>1, <1>2, LeavesAre DEF CutsOf
<1> QED
  BY <1>1, <1>2, <1>3 DEF KInv, ChunkerInv, CTypeOK, Adjacent

LEMMA JoinKeeps ==
    ASSUME KInv, NEW e \in cuts, Join(e)
    PROVE  KInv'
<1>1. /\ phase = "merge" /\ Leaf(e) /\ Fits(e) /\ pos' = e
      /\ UNCHANGED <<doc, at, phase, cuts, lo, groups, plan>>
  BY DEF Join
<1>2. /\ Text \in Seq(Classes) /\ Text # <<>> /\ cuts = Leaves(Text)
      /\ e \in Nat /\ pos \in Nat /\ lo \in Nat /\ pos < e /\ e - pos <= MaxChars
      /\ 0 \in cuts /\ \A c \in cuts : c \in Nat
  BY <1>1, LeafIs
<1>3. lo \in cuts /\ lo <= pos /\ groups \in Seq(Runs)
  BY <1>1 DEF KInv, InHand, ChunkerInv, CTypeOK
<1>4. MaxChars \in Nat \ {0} /\ OverlapChars \in Nat
  BY ChunkerAssumption
<1> DEFINE old == WithHand
           new == Append(groups, [from |-> lo, to |-> e])
           n == Len(groups) + 1
<1>5. /\ old \in Seq(Runs) /\ new \in Seq(Runs) /\ Len(old) = n /\ Len(new) = n /\ n \in Nat \ {0}
      /\ DOMAIN new = 1..n /\ DOMAIN old = 1..n
      /\ \A i \in 1..(n - 1) : new[i] = old[i]
      /\ new[n] = [from |-> lo, to |-> e] /\ old[n] = [from |-> lo, to |-> pos]
      /\ new # <<>>
  <2>1. [from |-> lo, to |-> e] \in Runs /\ [from |-> lo, to |-> pos] \in Runs
    BY <1>2 DEF Runs
  <2> HIDE DEF n
  <2>2. Len(groups) \in Nat /\ n \in Nat \ {0} /\ n - 1 = Len(groups)
    BY <1>3 DEF n
  <2>3. /\ old \in Seq(Runs) /\ Len(old) = n /\ old[n] = [from |-> lo, to |-> pos]
        /\ \A i \in 1..(n - 1) : old[i] = groups[i]
    BY <1>3, <2>1, <2>2 DEF WithHand, n
  <2>4. /\ new \in Seq(Runs) /\ Len(new) = n /\ new[n] = [from |-> lo, to |-> e]
        /\ \A i \in 1..(n - 1) : new[i] = groups[i]
    BY <1>3, <2>1, <2>2 DEF n
  <2> HIDE DEF old, new
  <2> QED
    BY <2>2, <2>3, <2>4
<1>6. Size(new[n]) = e - lo /\ e - lo <= MaxChars + OverlapChars
  <2>1. e - lo <= MaxChars \/ lo = pos
    BY <1>1 DEF Fits
  <2> QED
    BY <1>2, <1>4, <1>5, <2>1 DEF Size
<1> HIDE DEF old, new, n
<1>7. Line(Text, new)
  <2>1. CASE pos = 0 /\ groups = <<>>
    <3>1. n = 1 /\ lo = 0
      BY <1>2, <1>3, <2>1 DEF n
    <3> QED
      BY <1>2, <1>3, <1>4, <1>5, <1>6, <3>1 DEF Line
  <2>2. CASE Line(Text, old)
    <3>1. new[1].from = 0
      BY <1>5, <2>2 DEF Line
    <3>2. ASSUME NEW i \in DOMAIN new
          PROVE  /\ new[i].from \in Leaves(Text) /\ new[i].to \in Leaves(Text)
                 /\ new[i].from < new[i].to /\ Size(new[i]) <= MaxChars + OverlapChars
      <4>1. CASE i = n
        BY <1>2, <1>3, <1>5, <1>6, <4>1
      <4>2. CASE i # n
        BY <1>5, <2>2, <4>2 DEF Line
      <4> QED
        BY <4>1, <4>2
    <3>3. ASSUME NEW i \in 1..(Len(new) - 1)
          PROVE  /\ new[i + 1].from <= new[i].to /\ new[i].to < new[i + 1].to
                 /\ new[i].to - new[i + 1].from <= OverlapChars
                 /\ new[i + 1].to - new[i].from > MaxChars
      <4>1. /\ old[i + 1].from <= old[i].to /\ old[i].to < old[i + 1].to
            /\ old[i].to - old[i + 1].from <= OverlapChars
            /\ old[i + 1].to - old[i].from > MaxChars
            /\ old[i] \in Runs /\ old[i + 1] \in Runs /\ new[i] = old[i]
        BY <1>5, <2>2 DEF Line
      <4>2. CASE i + 1 = n
        <5>1. /\ new[i + 1].from = lo /\ new[i + 1].to = e
              /\ old[i + 1].from = lo /\ old[i + 1].to = pos
          BY <1>5, <4>2
        <5>2. old[i].from \in Nat /\ old[i].to \in Nat
          BY <4>1 DEF Runs
        <5>3. ASSUME NEW a \in Nat, NEW b \in Nat, lo <= b, b < pos, pos - a > MaxChars
              PROVE  b < e /\ e - a > MaxChars
          BY <1>2, <1>4, <5>3
        <5>4. old[i].to < e /\ e - old[i].from > MaxChars
          BY <4>1, <5>1, <5>2, <5>3
        <5> QED
          BY <4>1, <5>1, <5>4
      <4>3. CASE i + 1 # n
        BY <1>5, <4>1, <4>3
      <4> QED
        BY <4>2, <4>3
    <3> QED
      BY <1>5, <3>1, <3>2, <3>3 DEF Line
  <2> QED
    BY <1>1, <2>1, <2>2 DEF KInv, InHand, old
<1>8. Line(Text, Append(groups', [from |-> lo', to |-> pos']))
  BY <1>1, <1>7 DEF new
<1> QED
  BY <1>1, <1>2, <1>3, <1>8, TurnKeeps

LEMMA CloseKeeps ==
    ASSUME KInv, NEW e \in cuts, Close(e)
    PROVE  KInv'
<1>1. /\ phase = "merge" /\ Leaf(e) /\ ~Fits(e) /\ pos' = e /\ groups' = WithHand
      /\ lo' \in cuts /\ lo <= lo' /\ lo' <= pos /\ InOverlap(lo')
      /\ UNCHANGED <<doc, at, phase, cuts, plan>>
  BY DEF Close, WithHand
<1>2. /\ Text \in Seq(Classes) /\ Text # <<>> /\ cuts = Leaves(Text)
      /\ e \in Nat /\ pos \in Nat /\ lo \in Nat /\ pos < e /\ e - pos <= MaxChars
      /\ 0 \in cuts /\ \A c \in cuts : c \in Nat
  BY <1>1, LeafIs
<1>3. lo \in cuts /\ lo <= pos /\ groups \in Seq(Runs) /\ e - lo > MaxChars /\ lo # pos
  BY <1>1, <1>2, ChunkerAssumption DEF KInv, InHand, ChunkerInv, CTypeOK, Fits
<1>4. MaxChars \in Nat \ {0} /\ OverlapChars \in Nat
  BY ChunkerAssumption
<1>5. pos - lo' <= OverlapChars /\ lo' \in Nat
  BY <1>1, <1>2 DEF InOverlap
<1> DEFINE old == WithHand
           hand == [from |-> lo', to |-> e]
           new == Append(old, hand)
           n == Len(groups) + 1
<1>6. /\ old \in Seq(Runs) /\ Len(old) = n /\ n \in Nat \ {0} /\ DOMAIN old = 1..n
      /\ old[n] = [from |-> lo, to |-> pos]
  BY <1>2, <1>3 DEF WithHand, Runs
<1>7. hand \in Runs
  BY <1>2, <1>5 DEF Runs
<1> HIDE DEF old, n
<1>8. /\ new \in Seq(Runs) /\ Len(new) = n + 1 /\ DOMAIN new = 1..(n + 1) /\ new # <<>>
      /\ \A i \in 1..n : new[i] = old[i]
      /\ new[n + 1] = hand
  BY <1>6, <1>7
<1> HIDE DEF new
<1>9. Line(Text, new)
  <2>1. Line(Text, old)
    BY <1>1, <1>2, <1>3 DEF KInv, InHand, old
  <2>2. new[1].from = 0
    BY <1>6, <1>8, <2>1 DEF Line
  <2>3. Size(hand) = e - lo' /\ e - lo' <= MaxChars + OverlapChars /\ lo' < e
    <3>1. ASSUME NEW l \in Nat, l <= pos, pos - l <= OverlapChars
          PROVE  e - l <= MaxChars + OverlapChars /\ l < e
      BY <1>2, <1>4, <3>1
    <3>2. Size(hand) = e - lo'
      BY DEF Size
    <3> QED
      BY <1>1, <1>5, <3>1, <3>2
  <2>4. ASSUME NEW i \in DOMAIN new
        PROVE  /\ new[i].from \in Leaves(Text) /\ new[i].to \in Leaves(Text)
               /\ new[i].from < new[i].to /\ Size(new[i]) <= MaxChars + OverlapChars
    <3>1. CASE i = n + 1
      BY <1>1, <1>2, <1>8, <2>3, <3>1
    <3>2. CASE i # n + 1
      <4>1. i \in 1..n
        BY <1>6, <1>8, <3>2
      <4> QED
        BY <1>6, <1>8, <2>1, <4>1 DEF Line
    <3> QED
      BY <3>1, <3>2
  <2>5. ASSUME NEW i \in 1..(Len(new) - 1)
        PROVE  /\ new[i + 1].from <= new[i].to /\ new[i].to < new[i + 1].to
               /\ new[i].to - new[i + 1].from <= OverlapChars
               /\ new[i + 1].to - new[i].from > MaxChars
    <3>1. CASE i = n
      BY <1>1, <1>2, <1>3, <1>5, <1>6, <1>8, <3>1
    <3>2. CASE i # n
      <4>1. i \in 1..(Len(old) - 1) /\ i \in 1..n /\ i + 1 \in 1..n
        BY <1>6, <1>8, <3>2
      <4> QED
        BY <1>8, <2>1, <4>1 DEF Line
    <3> QED
      BY <3>1, <3>2
  <2> QED
    BY <1>8, <2>2, <2>4, <2>5 DEF Line
<1>10. Line(Text, Append(groups', [from |-> lo', to |-> pos']))
  BY <1>1, <1>9 DEF new, old
<1>11. lo' <= pos' /\ pos' \in cuts /\ groups' \in Seq(Runs)
  BY <1>1, <1>2, <1>5, <1>6 DEF old
<1> QED
  BY <1>1, <1>10, <1>11, TurnKeeps

\* The chunks of a text are added behind those of the texts before it.
LEMMA FinishKeeps == ASSUME KInv, Finish PROVE KInv'
<1> DEFINE t == Text
           cs == Chunks(WithHand)
           n == Len(plan)
           m == Len(cs)
           New(i) == {k \in 1..(n + m) : plan'[k].of = i}
<1>1. /\ phase = "merge" /\ pos = Len(t) /\ plan' = plan \o cs /\ phase' = "next"
      /\ UNCHANGED <<doc, at, cuts, lo, pos, groups>>
  BY DEF Finish, WithHand
<1>2. /\ doc \in Seq(Seq(Classes)) /\ at \in 1..Len(doc) /\ at \in Nat
      /\ t \in Seq(Classes) /\ t # <<>> /\ pos # 0
      /\ lo \in Nat /\ pos \in Nat /\ groups \in Seq(Runs) /\ plan \in Seq(Chunk)
  <2>1. at \in 1..Len(doc) /\ doc \in Seq(Seq(Classes)) /\ t # <<>>
    BY <1>1 DEF KInv, InHand, ChunkerInv, CTypeOK
  <2>2. t \in Seq(Classes)
    BY <2>1 DEF Text
  <2> QED
    BY <1>1, <2>1, <2>2 DEF KInv, ChunkerInv, CTypeOK, Chunk
<1>3. Line(t, WithHand) /\ WithHand[Len(WithHand)].to = Len(t)
  BY <1>1, <1>2 DEF KInv, InHand, WithHand
<1>4. /\ cs \in Seq(Chunk) /\ cs # <<>>
      /\ \A k \in DOMAIN cs : cs[k].of = at /\ WholeChunk(t, cs[k])
      /\ From(cs[1]) = 0 /\ To(cs[Len(cs)]) = Len(t)
      /\ \A k \in 1..(Len(cs) - 1) : InTurn(cs[k], cs[k + 1])
  BY <1>2, <1>3, ChunksAre
<1> HIDE DEF cs
<1>5. /\ n \in Nat /\ m \in Nat \ {0} /\ DOMAIN plan = 1..n /\ DOMAIN cs = 1..m
      /\ plan' \in Seq(Chunk) /\ DOMAIN plan' = 1..(n + m)
      /\ \A k \in 1..n : plan'[k] = plan[k]
      /\ \A k \in 1..m : plan'[n + k] = cs[k]
  <2>1. /\ n \in Nat /\ m \in Nat \ {0} /\ DOMAIN plan = 1..n /\ DOMAIN cs = 1..m
        /\ n = Len(plan) /\ m = Len(cs)
    BY <1>2, <1>4
  <2>2. plan' = plan \o cs /\ plan \in Seq(Chunk) /\ cs \in Seq(Chunk)
    BY <1>1, <1>2, <1>4
  <2> HIDE DEF n, m
  <2> QED
    BY <2>1, <2>2
<1> HIDE DEF n, m
<1>6. Planned = 1..(at - 1) /\ Planned' = 1..at
  BY <1>1 DEF Planned
<1>7. \A k \in DOMAIN plan : plan[k].of \in 1..(at - 1)
  BY <1>6 DEF KInv, PlanOK
<1>8. \A k \in DOMAIN plan' : \/ k \in 1..n /\ plan'[k] = plan[k]
                              \/ k - n \in 1..m /\ plan'[k] = cs[k - n]
  <2> SUFFICES ASSUME NEW k \in 1..(n + m), k \notin 1..n
               PROVE  k - n \in 1..m /\ plan'[k] = cs[k - n]
    BY <1>5
  <2>1. k - n \in 1..m /\ n + (k - n) = k
    BY <1>5
  <2> QED
    BY <1>5, <2>1
<1>9. ASSUME NEW i \in 1..(at - 1)
      PROVE  New(i) = Of(i) /\ Of(i) \subseteq 1..n
  <2>1. i # at
    BY <1>2
  <2>2. \A k \in 1..m : cs[k].of # i
    BY <1>4, <1>5, <2>1
  <2>3. Of(i) = {k \in 1..n : plan[k].of = i}
    BY <1>5 DEF Of
  <2>4. \A k \in 1..(n + m) : plan'[k].of = i => k \in 1..n /\ plan'[k] = plan[k]
    BY <1>5, <1>8, <2>2
  <2>5. \A k \in 1..n : k \in 1..(n + m) /\ plan'[k] = plan[k]
    BY <1>5
  <2> QED
    BY <2>3, <2>4, <2>5
<1>10. New(at) = {k \in 1..(n + m) : k > n}
  <2>1. \A k \in 1..n : plan[k].of # at
    <3>1. at \notin 1..(at - 1)
      BY <1>2
    <3> QED
      BY <1>5, <1>7, <3>1
  <2>2. ASSUME NEW k \in 1..(n + m)
        PROVE  plan'[k].of = at <=> k > n
    <3>1. CASE k \in 1..n
      BY <1>5, <2>1, <3>1
    <3>2. CASE k \notin 1..n
      <4>1. k - n \in DOMAIN cs /\ plan'[k] = cs[k - n]
        BY <1>5, <1>8, <3>2
      <4>2. plan'[k].of = at
        BY <1>4, <4>1
      <4> QED
        BY <1>5, <3>2, <4>2
    <3> QED
      BY <3>1, <3>2
  <2> QED
    BY <2>2
<1> HIDE DEF New
<1>11. CTypeOK'
  BY <1>1, <1>2, <1>5 DEF KInv, ChunkerInv, CTypeOK, Chunk
<1>12. NothingDropped'
  <2> SUFFICES ASSUME NEW i \in 1..at, doc[i] # <<>>
               PROVE  /\ \E k \in New(i) : From(plan'[k]) = 0
                      /\ \E k \in New(i) : To(plan'[k]) = Len(doc[i])
                      /\ \A k \in New(i) : To(plan'[k]) < Len(doc[i]) =>
                           /\ k + 1 \in New(i)
                           /\ From(plan'[k + 1]) <= To(plan'[k]) /\ To(plan'[k]) < To(plan'[k + 1])
    <3>1. \A i : Of(i)' = New(i)
      BY <1>5 DEF Of, New
    <3> QED
      BY <1>1, <1>6, <3>1 DEF NothingDropped
  <2>1. CASE i # at
    <3>1. i \in 1..(at - 1) /\ i \in Planned
      BY <1>2, <1>6, <2>1
    <3>2. /\ \E k \in Of(i) : From(plan[k]) = 0
          /\ \E k \in Of(i) : To(plan[k]) = Len(doc[i])
          /\ \A k \in Of(i) : To(plan[k]) < Len(doc[i]) =>
                /\ k + 1 \in Of(i)
                /\ From(plan[k + 1]) <= To(plan[k]) /\ To(plan[k]) < To(plan[k + 1])
      BY <3>1 DEF KInv, ChunkerInv, NothingDropped
    <3>3. New(i) = Of(i) /\ \A k \in Of(i) : plan'[k] = plan[k]
      BY <1>5, <1>9, <3>1
    <3> QED
      BY <3>2, <3>3
  <2>2. CASE i = at
    <3>1. n + 1 \in New(i) /\ From(plan'[n + 1]) = 0
      <4>1. n + 1 \in 1..(n + m) /\ n + 1 > n /\ plan'[n + 1] = cs[1]
        BY <1>5
      <4> QED
        BY <1>4, <1>10, <2>2, <4>1
    <3>2. n + m \in New(i) /\ To(plan'[n + m]) = Len(doc[i])
      <4>1. To(cs[m]) = Len(doc[i])
        BY <1>4, <2>2 DEF m, Text
      <4> QED
        BY <1>5, <1>10, <2>2, <4>1
    <3>3. ASSUME NEW k \in New(i), To(plan'[k]) < Len(doc[i])
          PROVE  /\ k + 1 \in New(i)
                 /\ From(plan'[k + 1]) <= To(plan'[k]) /\ To(plan'[k]) < To(plan'[k + 1])
      <4>1. k \in 1..(n + m) /\ k > n
        BY <1>10, <2>2, <3>3
      <4>2. k # n + m
        BY <1>2, <3>2, <3>3 DEF Text
      <4>3. PICK j \in 1..(m - 1) : k = n + j
        <5>1. k - n \in 1..(m - 1) /\ k = n + (k - n)
          BY <1>5, <4>1, <4>2
        <5> QED
          BY <5>1
      <4>4. plan'[k] = cs[j] /\ plan'[k + 1] = cs[j + 1] /\ k + 1 \in 1..(n + m)
        <5>1. j \in 1..m /\ j + 1 \in 1..m /\ n + (j + 1) = k + 1
          BY <1>5, <4>3
        <5> QED
          BY <1>5, <4>3, <5>1
      <4>5. InTurn(cs[j], cs[j + 1])
        BY <1>4, <4>3 DEF m
      <4> QED
        <5>1. k + 1 > n
          BY <1>5, <4>1
        <5> QED
          BY <1>10, <2>2, <4>4, <4>5, <5>1 DEF InTurn
    <3> QED
      BY <3>1, <3>2, <3>3
  <2> QED
    BY <2>1, <2>2
<1>13. PlanOK'
  <2>1. ASSUME NEW k \in DOMAIN plan'
        PROVE  /\ plan'[k].of \in 1..at /\ doc[plan'[k].of] # <<>>
               /\ WholeChunk(doc[plan'[k].of], plan'[k])
    <3>1. CASE k \in 1..n /\ plan'[k] = plan[k]
      <4>1. /\ plan[k].of \in 1..(at - 1) /\ doc[plan[k].of] # <<>>
            /\ WholeChunk(doc[plan[k].of], plan[k])
        BY <1>5, <1>7, <3>1 DEF KInv, PlanOK
      <4>2. plan[k].of \in 1..at
        BY <1>2, <4>1
      <4> QED
        BY <3>1, <4>1, <4>2
    <3>2. CASE k - n \in 1..m /\ plan'[k] = cs[k - n]
      <4>1. plan'[k].of = at /\ WholeChunk(t, plan'[k])
        BY <1>4, <1>5, <3>2
      <4>2. at \in 1..at
        BY <1>2
      <4> QED
        BY <1>2, <4>1, <4>2 DEF Text
    <3> QED
      BY <1>8, <3>1, <3>2
  <2>2. ASSUME NEW k \in DOMAIN plan', k + 1 \in New(plan'[k].of)
        PROVE  InTurn(plan'[k], plan'[k + 1])
    <3>1. CASE k \in 1..n /\ plan'[k] = plan[k]
      <4>1. plan[k].of \in 1..(at - 1) /\ k + 1 \in Of(plan[k].of) /\ k + 1 \in 1..n
        BY <1>5, <1>7, <1>9, <2>2, <3>1
      <4>2. InTurn(plan[k], plan[k + 1])
        BY <1>5, <3>1, <4>1 DEF KInv, PlanOK
      <4> QED
        BY <1>5, <3>1, <4>1, <4>2
    <3>2. CASE k - n \in 1..m /\ plan'[k] = cs[k - n]
      <4>1. plan'[k].of = at /\ k + 1 \in 1..(n + m)
        <5>1. plan'[k].of = at
          BY <1>4, <1>5, <3>2
        <5> QED
          BY <1>10, <2>2, <5>1
      <4>2. PICK j \in 1..(m - 1) : k = n + j
        <5>1. k - n \in 1..(m - 1) /\ k = n + (k - n)
          BY <1>5, <3>2, <4>1
        <5> QED
          BY <5>1
      <4>3. plan'[k] = cs[j] /\ plan'[k + 1] = cs[j + 1]
        <5>1. j \in 1..m /\ j + 1 \in 1..m /\ n + (j + 1) = k + 1
          BY <1>5, <4>2
        <5> QED
          BY <1>5, <4>2, <5>1
      <4> QED
        BY <1>4, <4>2, <4>3 DEF m
    <3> QED
      BY <1>8, <2>2, <3>1, <3>2
  <2> QED
    <3>1. \A i : {k \in DOMAIN plan' : plan'[k].of = i} = New(i)
      BY <1>5 DEF New
    <3> QED
      BY <1>1, <1>6, <2>1, <2>2, <3>1 DEF PlanOK, Of
<1>14. InHand'
  BY <1>1 DEF InHand
<1> QED
  BY <1>11, <1>12, <1>13, <1>14 DEF KInv, ChunkerInv

LEMMA NextKInv == KInv /\ [CNext]_cvars => KInv'
<1> SUFFICES ASSUME KInv, [CNext]_cvars PROVE KInv'
  OBVIOUS
<1>1. CASE UNCHANGED cvars
  BY <1>1 DEF cvars, KInv, ChunkerInv, CTypeOK, NothingDropped, InHand, PlanOK, Planned, Of,
              Text, WithHand
<1>2. CASE CNext
  BY <1>1, <1>2, SplitKeeps, FinishKeeps, JoinKeeps, CloseKeeps DEF CNext, Done
<1> QED
  BY <1>1, <1>2

LEMMA KInvHolds == CSpec => []KInv
BY InitKInv, NextKInv, PTL DEF CSpec

\* Whatever a text is and wherever its separators are, its chunks begin at its start
\* and end at its end, and none leaves a gap to the one before it
\* (chunkTokenRecursive).
THEOREM NothingIsDropped == CSpec => []ChunkerInv
<1>1. KInv => ChunkerInv
  BY DEF KInv
<1> QED
  BY <1>1, KInvHolds, PTL

\* No chunk is longer than the caps add up to, no text that is cut ends in a stub,
\* and chunks in a row share no more than the overlap (mergeLeaves, mergeRemnant).
THEOREM ChunksStayBounded == CSpec => []ChunksBounded
<1>1. KInv => ChunksBounded
  BY DEF KInv, PlanOK, WholeChunk, InTurn, ChunksBounded, SizesBounded, OverlapBounded
<1> QED
  BY <1>1, KInvHolds, PTL

\* No chunk begins or ends within a word that the cap has room for
\* (splitRecursive, SEPARATOR_LADDER).
THEOREM WordsStayWhole == CSpec => []WordsKept
<1>1. KInv => WordsKept
  BY DEF KInv, PlanOK, WholeChunk, WordEdge, WordsKept
<1> QED
  BY <1>1, KInvHolds, PTL
=============================================================================
