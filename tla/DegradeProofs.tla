---------------------------- MODULE DegradeProofs ----------------------------
(***************************************************************************)
(* Theorems about what is said when a part of a search fails: by the       *)
(* metrics, for any tenants, flags and configurations, through wraps,      *)
(* evictions and resizes; and by the search over the store and the live    *)
(* sources, for any number of sources, keys and hits.                      *)
(*                                                                         *)
(* WindowOK is the invariant of one window: beside the counts it says that *)
(* a slot never used has no flags, which is what bounds each count by the  *)
(* number of searches in the window.  The order of the tenants plays no    *)
(* part: whichever tracked tenant is evicted, the others keep their state. *)
(* WindowHolds relates a window to what happened: read backwards from the  *)
(* cursor, the slots of the buffer are the last searches and then those    *)
(* never used.  That the slot about to be written is used exactly when the *)
(* window is full is part of it, and makes the two lengths agree.          *)
(*                                                                         *)
(* Of the search: a call is made to exactly the sources that are asked,    *)
(* and nothing is pending once there is a result, so what ends later no    *)
(* longer changes what the result was made of (Frozen).                    *)
(***************************************************************************)
EXTENDS DegradeMetrics, FederatedSearch

Used(b) == {i \in DOMAIN b : b[i].used}
With(b, f) == {i \in DOMAIN b : f \in b[i].flags}

WindowOK(s, size) ==
    /\ s \in WindowType(size)
    /\ s.filled = Cardinality(Used(s.buf))
    /\ \A f \in Flags : s.counts[f] = Cardinality(With(s.buf, f))
    /\ \A i \in DOMAIN s.buf : ~s.buf[i].used => s.buf[i].flags = {}

ConfigOK == config \in ConfigType /\ ValidConfig(config)

WindowsOK ==
    /\ ConfigOK
    /\ DOMAIN state = Tracked
    /\ \A t \in Tracked : WindowOK(state[t], config.size)

LEMMA SlotCount ==
    ASSUME NEW size \in Nat \ {0}
    PROVE  IsFiniteSet(0..(size - 1)) /\ Cardinality(0..(size - 1)) = size
<1>1. 0 \in Int /\ size - 1 \in Int /\ 0 <= size - 1 /\ (size - 1) - 0 + 1 = size
  OBVIOUS
<1> QED
  BY <1>1, FS_Interval, SMTT(30)

LEMMA EmptyWindowOK ==
    ASSUME NEW size \in Nat \ {0}
    PROVE  WindowOK(EmptyWindow(size), size)
<1> DEFINE s == EmptyWindow(size)
<1>1. s \in WindowType(size)
  BY DEF EmptyWindow, WindowType, NoCall, Slot
<1>2. Used(s.buf) = {} /\ \A f \in Flags : With(s.buf, f) = {}
  BY DEF EmptyWindow, Used, With, NoCall
<1>3. s.filled = 0 /\ \A f \in Flags : s.counts[f] = 0
  BY DEF EmptyWindow
<1>4. \A i \in DOMAIN s.buf : s.buf[i].flags = {}
  BY DEF EmptyWindow, NoCall
<1> QED
  BY <1>1, <1>2, <1>3, <1>4, FS_EmptySet DEF WindowOK

\* No count exceeds the number of searches in the window: every slot that has a
\* flag is used.
LEMMA CountWithinFilled ==
    ASSUME NEW size \in Nat \ {0}, NEW s, WindowOK(s, size), NEW f \in Flags
    PROVE  s.counts[f] <= s.filled
<1>1. DOMAIN s.buf = 0..(size - 1)
  BY DEF WindowOK, WindowType
<1>2. IsFiniteSet(Used(s.buf))
  <2>1. IsFiniteSet(0..(size - 1))
    BY FS_Interval
  <2>2. Used(s.buf) \subseteq 0..(size - 1)
    BY <1>1 DEF Used
  <2> QED
    BY <2>1, <2>2, FS_Subset
<1>3. With(s.buf, f) \subseteq Used(s.buf)
  BY DEF WindowOK, With, Used
<1>4. Cardinality(With(s.buf, f)) <= Cardinality(Used(s.buf))
  BY <1>2, <1>3, FS_Subset
<1> QED
  BY <1>4 DEF WindowOK

LEMMA PushedOK ==
    ASSUME ConfigOK, NEW s, WindowOK(s, config.size), NEW flags \in SUBSET Flags
    PROVE  WindowOK(Pushed(s, flags), config.size)
<1> DEFINE size == config.size
           k == s.cursor
           b == s.buf
           p == Pushed(s, flags)
           c == [b EXCEPT ![k] = [used |-> TRUE, flags |-> flags]]
<1>1. size \in Nat \ {0}
  BY DEF ConfigOK, ValidConfig, ConfigType
<1>2. /\ b \in [0..(size - 1) -> Slot] /\ k \in 0..(size - 1) /\ s.filled \in 0..size
      /\ s.counts \in [Flags -> Nat] /\ s.escalated \in [Flags -> BOOLEAN]
  BY DEF WindowOK, WindowType
<1>3. DOMAIN b = 0..(size - 1) /\ IsFiniteSet(DOMAIN b) /\ Cardinality(DOMAIN b) = size
  <2>1. DOMAIN b = 0..(size - 1)
    BY <1>2
  <2> QED
    BY <1>1, <2>1, SlotCount
<1>4. /\ p.buf = c
      /\ p.cursor = (k + 1) % size
      /\ p.filled = IF b[k].used THEN s.filled
                    ELSE IF s.filled + 1 < size THEN s.filled + 1 ELSE size
      /\ p.escalated = s.escalated
      /\ \A f \in Flags : p.counts[f] = AtLeast0(s.counts[f] - Leaves(s, f)) + Enters(flags, f)
      /\ DOMAIN p.counts = Flags
  BY <1>3 DEF Pushed, NextSlot
<1>5. c \in [0..(size - 1) -> Slot] /\ c[k] = [used |-> TRUE, flags |-> flags]
      /\ \A i \in 0..(size - 1) : i # k => c[i] = b[i]
  BY <1>2 DEF Slot
<1>6. p.cursor \in 0..(size - 1)
  BY <1>1, <1>2, <1>4
<1>7. p.filled = Cardinality(Used(c)) /\ p.filled \in 0..size
  <2>1. Used(c) = Used(b) \cup {k}
    BY <1>2, <1>5 DEF Used
  <2>2. IsFiniteSet(Used(b)) /\ IsFiniteSet(Used(c)) /\ Cardinality(Used(c)) <= size
    <3>1. Used(b) \subseteq DOMAIN b /\ Used(c) \subseteq DOMAIN b
      BY DEF Used
    <3> QED
      BY <1>3, <3>1, FS_Subset
  <2>3. s.filled = Cardinality(Used(b))
    BY DEF WindowOK
  <2>4. Cardinality(Used(c)) = IF k \in Used(b) THEN s.filled ELSE s.filled + 1
    BY <2>1, <2>2, <2>3, FS_AddElement
  <2>5. k \in Used(b) <=> b[k].used
    BY <1>2, <1>3 DEF Used
  <2> QED
    BY <1>1, <1>2, <1>4, <2>2, <2>4, <2>5
<1>8. ASSUME NEW f \in Flags
      PROVE  p.counts[f] = Cardinality(With(c, f)) /\ p.counts[f] \in Nat
  <2> DEFINE rest == With(b, f) \ {k}
  <2>1. IsFiniteSet(With(b, f))
    <3>1. With(b, f) \subseteq DOMAIN b
      BY DEF With
    <3> QED
      BY <1>3, <3>1, FS_Subset
  <2>2. s.counts[f] = Cardinality(With(b, f)) /\ s.counts[f] \in Nat
    BY <1>2 DEF WindowOK
  <2>3. /\ IsFiniteSet(rest)
        /\ Cardinality(rest) = s.counts[f] - Leaves(s, f)
    <3>1. k \in With(b, f) <=> f \in b[k].flags
      BY <1>2, <1>3 DEF With
    <3>2. Cardinality(rest) = IF k \in With(b, f) THEN Cardinality(With(b, f)) - 1
                              ELSE Cardinality(With(b, f))
      BY <2>1, FS_RemoveElement
    <3>3. IsFiniteSet(rest)
      BY <2>1, FS_RemoveElement
    <3> QED
      BY <2>2, <3>1, <3>2, <3>3 DEF Leaves
  <2>4. Cardinality(rest) \in Nat
    BY <2>3, FS_CardinalityType
  <2>5. p.counts[f] = Cardinality(rest) + Enters(flags, f)
    BY <1>4, <2>3, <2>4 DEF AtLeast0
  <2>6. CASE f \in flags
    <3>1. With(c, f) = rest \cup {k}
      BY <1>2, <1>5, <2>6 DEF With
    <3>2. Cardinality(With(c, f)) = Cardinality(rest) + 1
      BY <2>3, <3>1, FS_AddElement
    <3> QED
      BY <2>4, <2>5, <2>6, <3>2 DEF Enters
  <2>7. CASE f \notin flags
    <3>1. With(c, f) = rest
      BY <1>2, <1>5, <2>7 DEF With
    <3>2. p.counts[f] = Cardinality(rest) + 0
      BY <2>5, <2>7 DEF Enters
    <3>3. ASSUME NEW x \in Nat PROVE x + 0 = x
      OBVIOUS
    <3>4. p.counts[f] = Cardinality(rest)
      BY <2>4, <3>2, <3>3
    <3> QED
      BY <2>4, <3>1, <3>4
  <2> QED
    BY <2>6, <2>7
<1>9. \A i \in DOMAIN c : ~c[i].used => c[i].flags = {}
  BY <1>2, <1>3, <1>5 DEF WindowOK
<1>10. p \in WindowType(size)
  <2>1. p.counts \in [Flags -> Nat]
    BY <1>4, <1>8 DEF Pushed
  <2> QED
    BY <1>2, <1>4, <1>5, <1>6, <1>7, <2>1 DEF WindowType, Pushed
<1> QED
  BY <1>4, <1>7, <1>8, <1>9, <1>10 DEF WindowOK

LEMMA EvaluatedOK ==
    ASSUME NEW size \in Nat \ {0}, NEW s, WindowOK(s, size)
    PROVE  WindowOK(Evaluated(s), size)
<1> DEFINE e == Evaluated(s)
<1>1. e.buf = s.buf /\ e.filled = s.filled /\ e.counts = s.counts
  BY DEF Evaluated
<1>2. e.escalated \in [Flags -> BOOLEAN]
  <2>1. \A f \in Flags : s.escalated[f] \in BOOLEAN
    BY DEF WindowOK, WindowType
  <2>2. \A f \in Flags : AlarmAfter(s, f) \in BOOLEAN
    BY <2>1, Zenon DEF AlarmAfter, RateAtLeast, RateAtMost
  <2> QED
    BY <2>2 DEF Evaluated
<1>3. e \in WindowType(size)
  BY <1>2 DEF WindowOK, WindowType, Evaluated
<1> QED
  BY <1>1, <1>3 DEF WindowOK

LEMMA RecordOK ==
    ASSUME WindowsOK, NEW t \in Tenants, NEW flags \in SUBSET Flags, NEW gone,
           Record(t, flags, gone)
    PROVE  WindowsOK'
<1> DEFINE before == IF t \in Tracked THEN state[t] ELSE EmptyWindow(config.size)
<1>1. config.size \in Nat \ {0}
  BY DEF WindowsOK, ConfigOK, ValidConfig, ConfigType
<1>2. WindowOK(before, config.size)
  BY <1>1, EmptyWindowOK DEF WindowsOK
<1>3. WindowOK(Evaluated(Pushed(before, flags)), config.size)
  BY <1>1, <1>2, PushedOK, EvaluatedOK DEF WindowsOK
<1>4. /\ config' = config
      /\ state' = [u \in (Tracked \ gone) \cup {t} |->
                     IF u = t THEN Evaluated(Pushed(before, flags)) ELSE state[u]]
  BY DEF Record
<1>5. ASSUME NEW u \in Tracked'
      PROVE  WindowOK(state'[u], config.size)
  BY <1>3, <1>4, <1>5 DEF WindowsOK, Tracked
<1>6. ConfigOK'
  BY <1>4 DEF WindowsOK, ConfigOK, ValidConfig, EnoughSamples, Spread
<1> QED
  BY <1>4, <1>5, <1>6 DEF WindowsOK, Tracked

LEMMA ConfigureOK ==
    ASSUME WindowsOK, NEW c \in Configs, Configure(c)
    PROVE  WindowsOK'
<1>1. c \in ConfigType /\ ValidConfig(c) /\ config' = c
  BY MetricsAssumption DEF Configure
<1>2. ConfigOK'
  BY <1>1 DEF ConfigOK
<1>3. CASE c.size = config.size
  <2>1. state' = state
    BY <1>3 DEF Configure
  <2> QED
    BY <1>1, <1>2, <1>3, <2>1 DEF WindowsOK, Tracked
<1>4. CASE c.size # config.size
  <2>1. state' = [t \in Tracked |-> EmptyWindow(c.size)]
    BY <1>4 DEF Configure
  <2>2. c.size \in Nat \ {0}
    BY <1>1 DEF ValidConfig, ConfigType
  <2> QED
    BY <1>1, <1>2, <2>1, <2>2, EmptyWindowOK DEF WindowsOK, Tracked
<1> QED
  BY <1>3, <1>4

LEMMA NextOK == WindowsOK /\ [MNext]_mvars => WindowsOK'
<1> SUFFICES ASSUME WindowsOK, [MNext]_mvars
             PROVE  WindowsOK'
  OBVIOUS
<1>1. ASSUME NEW t \in Tenants, NEW flags \in SUBSET Flags, RecordDegrade(t, flags)
      PROVE  WindowsOK'
  BY <1>1, RecordOK DEF RecordDegrade
<1>2. ASSUME NEW t \in Tenants, NEW flags \in SUBSET Flags, NEW v \in Tenants,
             RecordEvicting(t, flags, v)
      PROVE  WindowsOK'
  BY <1>2, RecordOK DEF RecordEvicting
<1>3. ASSUME NEW c \in Configs, Configure(c)
      PROVE  WindowsOK'
  BY <1>3, ConfigureOK
<1>4. CASE UNCHANGED mvars
  BY <1>4 DEF mvars, WindowsOK, ConfigOK, Tracked
<1> QED
  BY <1>1, <1>2, <1>3, <1>4 DEF MNext

LEMMA WindowsAlwaysOK == MSpec => []WindowsOK
<1>1. MInit => WindowsOK
  BY MetricsAssumption DEF MInit, WindowsOK, ConfigOK, Tracked
<1> QED
  BY <1>1, NextOK, PTL DEF MSpec

\* Whatever is searched, resized and evicted, the counts the alarms and the
\* snapshot read are those of the window, and none makes a rate above 1.
THEOREM CountsAlwaysMatch == MSpec => []CountsMatchBuffer
<1>1. WindowsOK => CountsMatchBuffer
  <2> SUFFICES ASSUME WindowsOK, NEW t \in Tracked
               PROVE  /\ state[t].filled = Cardinality(Used(state[t].buf))
                      /\ \A f \in Flags :
                           /\ state[t].counts[f] = Cardinality(With(state[t].buf, f))
                           /\ state[t].counts[f] <= state[t].filled
    BY DEF CountsMatchBuffer, Used, With
  <2>1. config.size \in Nat \ {0}
    BY DEF WindowsOK, ConfigOK, ValidConfig, ConfigType
  <2>2. WindowOK(state[t], config.size)
    BY DEF WindowsOK
  <2>3. \A f \in Flags : state[t].counts[f] <= state[t].filled
    BY <2>1, <2>2, CountWithinFilled
  <2> QED
    BY <2>2, <2>3 DEF WindowOK
<1> QED
  BY <1>1, WindowsAlwaysOK, PTL

-----------------------------------------------------------------------------
(* The window and the searches it stands for.                              *)

\* The slot of the k-th search back.
Back(s, size, k) == s.buf[(s.cursor + size - k) % size]

WindowHolds(s, h, size) ==
    /\ h \in Seq(SUBSET Flags) /\ Len(h) = s.filled
    /\ \A k \in 1..size : Back(s, size, k).used <=> k <= s.filled
    /\ \A k \in 1..s.filled : Back(s, size, k).flags = h[k]

HistoryOK ==
    /\ DOMAIN recent = Tracked
    /\ \A t \in Tracked : WindowHolds(state[t], recent[t], config.size)

LEMMA Wraps ==
    ASSUME NEW n \in Nat \ {0}, NEW a \in 0..(n - 1)
    PROVE  a % n = a /\ (a + n) % n = a
OBVIOUS

\* The cursor moves past the slot written, and the slots behind it move one back.
LEMMA BackOne ==
    ASSUME NEW n \in Nat \ {0}, NEW c \in 0..(n - 1)
    PROVE  /\ (c + n - n) % n = c
           /\ (((c + 1) % n) + n - 1) % n = c
           /\ \A k \in 1..(n - 1) : /\ (((c + 1) % n) + n - (k + 1)) % n = (c + n - k) % n
                                    /\ (c + n - k) % n \in (0..(n - 1)) \ {c}
<1> DEFINE d == (c + 1) % n
<1>1. d = IF c + 1 = n THEN 0 ELSE c + 1
  <2>1. CASE c + 1 = n
    BY <2>1, Wraps
  <2>2. CASE c + 1 # n
    BY <2>2, Wraps
  <2> QED
    BY <2>1, <2>2
<1>2. ASSUME NEW a \in 0..(n - 1), NEW k \in 1..n
      PROVE  (a + n - k) % n = IF k <= a THEN a - k ELSE a + n - k
  <2>1. CASE k <= a
    <3>1. a - k \in 0..(n - 1) /\ a + n - k = (a - k) + n
      BY <2>1
    <3> QED
      BY <2>1, <3>1, Wraps
  <2>2. CASE ~(k <= a)
    <3>1. a + n - k \in 0..(n - 1)
      BY <2>2
    <3> QED
      BY <2>2, <3>1, Wraps
  <2> QED
    BY <2>1, <2>2
<1>3. d \in 0..(n - 1)
  BY <1>1
<1>4. (c + n - n) % n = c
  BY Wraps
<1>5. (d + n - 1) % n = c
  BY <1>1, <1>2, <1>3
<1>6. ASSUME NEW k \in 1..(n - 1)
      PROVE  /\ (d + n - (k + 1)) % n = (c + n - k) % n
             /\ (c + n - k) % n \in (0..(n - 1)) \ {c}
  <2>1. (c + n - k) % n = IF k <= c THEN c - k ELSE c + n - k
    BY <1>2
  <2>2. k + 1 \in 1..n
    OBVIOUS
  <2>3. (d + n - (k + 1)) % n = IF k + 1 <= d THEN d - (k + 1) ELSE d + n - (k + 1)
    BY <1>2, <1>3, <2>2
  <2> HIDE DEF d
  <2> QED
    BY <1>1, <2>1, <2>3
<1> QED
  BY <1>4, <1>5, <1>6

LEMMA EmptyWindowHolds ==
    ASSUME NEW size \in Nat \ {0}
    PROVE  WindowHolds(EmptyWindow(size), <<>>, size)
<1> DEFINE s == EmptyWindow(size)
<1>1. s.filled = 0 /\ s.cursor = 0 /\ s.buf = [i \in 0..(size - 1) |-> NoCall]
  BY DEF EmptyWindow
<1>2. ASSUME NEW k \in 1..size
      PROVE  Back(s, size, k) = NoCall
  <2>1. size - k \in 0..(size - 1)
    OBVIOUS
  <2>2. (0 + size - k) % size \in 0..(size - 1)
    BY <2>1, Wraps
  <2> HIDE DEF s
  <2> QED
    BY <1>1, <2>2 DEF Back
<1>3. <<>> \in Seq(SUBSET Flags) /\ Len(<<>>) = 0
  OBVIOUS
<1> HIDE DEF s
<1>4. \A k \in 1..size : Back(s, size, k).used <=> k <= s.filled
  BY <1>1, <1>2 DEF NoCall
<1>5. WindowHolds(s, <<>>, size)
  BY <1>1, <1>3, <1>4 DEF WindowHolds
<1> QED
  BY <1>5 DEF s

\* What a search prepends, and what of it a window of that size keeps.
LEMMA NewestOf ==
    ASSUME NEW size \in Nat \ {0}, NEW h \in Seq(SUBSET Flags), NEW flags \in SUBSET Flags
    PROVE  LET r == Newest(<<flags>> \o h, size)
           IN  /\ r \in Seq(SUBSET Flags)
               /\ Len(r) = IF Len(h) + 1 < size THEN Len(h) + 1 ELSE size
               /\ r[1] = flags
               /\ \A k \in 1..(Len(r) - 1) : k <= Len(h) /\ r[k + 1] = h[k]
<1> DEFINE l == <<flags>> \o h
           n == IF Len(l) < size THEN Len(l) ELSE size
           r == SubSeq(l, 1, n)
<1>1. /\ l \in Seq(SUBSET Flags) /\ Len(l) = Len(h) + 1
      /\ l[1] = flags /\ \A k \in 1..Len(h) : l[k + 1] = h[k]
  OBVIOUS
<1> HIDE DEF l
<1>2. Len(h) \in Nat /\ n \in 1..Len(l)
  BY <1>1
<1> HIDE DEF n
<1>3. r \in Seq(SUBSET Flags) /\ Len(r) = n /\ \A k \in 1..n : r[k] = l[k]
  BY <1>1, <1>2
<1>4. r[1] = flags
  BY <1>1, <1>2, <1>3
<1>5. \A k \in 1..(n - 1) : k <= Len(h) /\ r[k + 1] = h[k]
  <2> SUFFICES ASSUME NEW k \in 1..(n - 1) PROVE k <= Len(h) /\ r[k + 1] = h[k]
    OBVIOUS
  <2>1. k \in 1..Len(h) /\ k + 1 \in 1..n
    BY <1>1, <1>2
  <2> QED
    BY <1>1, <1>3, <2>1
<1>6. Newest(<<flags>> \o h, size) = r
  BY DEF Newest, l, n
<1> HIDE DEF r
<1>7. n = IF Len(h) + 1 < size THEN Len(h) + 1 ELSE size
  BY <1>1 DEF n
<1> QED
  BY <1>3, <1>4, <1>5, <1>6, <1>7

LEMMA PushedHolds ==
    ASSUME ConfigOK, NEW s, WindowOK(s, config.size), NEW flags \in SUBSET Flags,
           NEW h, WindowHolds(s, h, config.size)
    PROVE  WindowHolds(Pushed(s, flags), Newest(<<flags>> \o h, config.size), config.size)
<1> DEFINE size == config.size
           p == Pushed(s, flags)
           r == Newest(<<flags>> \o h, size)
           c == s.cursor
<1>1. size \in Nat \ {0}
  BY DEF ConfigOK, ValidConfig, ConfigType
<1>2. /\ s.buf \in [0..(size - 1) -> Slot] /\ c \in 0..(size - 1) /\ s.filled \in 0..size
      /\ h \in Seq(SUBSET Flags) /\ Len(h) = s.filled
  BY DEF WindowOK, WindowType, WindowHolds
<1>3. Cardinality(DOMAIN s.buf) = size
  BY <1>1, <1>2, SlotCount
<1>4. /\ p.buf = [s.buf EXCEPT ![c] = [used |-> TRUE, flags |-> flags]]
      /\ p.cursor = (c + 1) % size
      /\ p.filled = IF s.buf[c].used THEN s.filled
                    ELSE IF s.filled + 1 < size THEN s.filled + 1 ELSE size
  BY <1>3 DEF Pushed, NextSlot
<1>5. s.buf[c].used <=> s.filled = size
  <2>1. Back(s, size, size) = s.buf[c]
    BY <1>1, <1>2, BackOne DEF Back
  <2>2. Back(s, size, size).used <=> size <= s.filled
    BY <1>1 DEF WindowHolds
  <2> QED
    BY <1>1, <1>2, <2>1, <2>2
<1>6. p.filled = IF s.filled + 1 < size THEN s.filled + 1 ELSE size
  BY <1>1, <1>2, <1>4, <1>5
<1>7. /\ r \in Seq(SUBSET Flags) /\ Len(r) = p.filled
      /\ r[1] = flags
      /\ \A k \in 1..(Len(r) - 1) : k <= Len(h) /\ r[k + 1] = h[k]
  <2>1. /\ r \in Seq(SUBSET Flags)
        /\ Len(r) = IF Len(h) + 1 < size THEN Len(h) + 1 ELSE size
        /\ r[1] = flags
        /\ \A k \in 1..(Len(r) - 1) : k <= Len(h) /\ r[k + 1] = h[k]
    BY <1>1, <1>2, NewestOf, Zenon
  <2> HIDE DEF r, p
  <2>2. Len(r) = p.filled
    BY <1>2, <1>6, <2>1
  <2> QED
    BY <2>1, <2>2
<1>8. Back(p, size, 1) = [used |-> TRUE, flags |-> flags]
  <2>1. (((c + 1) % size) + size - 1) % size = c
    BY <1>1, <1>2, BackOne
  <2>2. p.buf[c] = [used |-> TRUE, flags |-> flags]
    BY <1>2, <1>4
  <2> QED
    BY <1>4, <2>1, <2>2 DEF Back
<1>9. ASSUME NEW k \in 1..(size - 1)
      PROVE  Back(p, size, k + 1) = Back(s, size, k)
  <2> DEFINE x == (c + size - k) % size
  <2>1. (((c + 1) % size) + size - (k + 1)) % size = x /\ x \in (0..(size - 1)) \ {c}
    BY <1>1, <1>2, BackOne
  <2> HIDE DEF x
  <2>2. p.buf[x] = s.buf[x]
    BY <1>2, <1>4, <2>1
  <2> QED
    BY <1>4, <2>1, <2>2 DEF Back, x
<1>10. ASSUME NEW k \in 1..(size - 1)
       PROVE  /\ Back(p, size, k + 1).used <=> k + 1 <= p.filled
              /\ k + 1 <= p.filled => Back(p, size, k + 1).flags = r[k + 1]
  <2>1. Back(s, size, k).used <=> k <= s.filled
    BY <1>1 DEF WindowHolds
  <2>2. k <= s.filled <=> k + 1 <= p.filled
    BY <1>1, <1>2, <1>6
  <2>3. ASSUME k + 1 <= p.filled PROVE Back(s, size, k).flags = r[k + 1]
    <3>1. k \in 1..s.filled /\ k \in 1..(Len(r) - 1)
      BY <1>1, <1>2, <1>7, <2>2, <2>3
    <3>2. Back(s, size, k).flags = h[k]
      BY <3>1 DEF WindowHolds
    <3> QED
      BY <1>7, <3>1, <3>2
  <2> QED
    BY <1>9, <2>1, <2>2, <2>3
<1>11. p.filled \in 1..size
  BY <1>1, <1>2, <1>6
<1> HIDE DEF p, r
<1>12. \A k \in 1..size : k = 1 \/ (k - 1 \in 1..(size - 1) /\ k = (k - 1) + 1)
  BY <1>1
<1>13. ASSUME NEW k \in 1..size
       PROVE  /\ Back(p, size, k).used <=> k <= p.filled
              /\ k <= p.filled => Back(p, size, k).flags = r[k]
  <2>1. CASE k = 1
    BY <1>7, <1>8, <1>11, <2>1
  <2>2. CASE k # 1
    <3>1. k - 1 \in 1..(size - 1) /\ (k - 1) + 1 = k
      BY <1>1, <2>2
    <3>2. /\ Back(p, size, (k - 1) + 1).used <=> (k - 1) + 1 <= p.filled
          /\ (k - 1) + 1 <= p.filled => Back(p, size, (k - 1) + 1).flags = r[(k - 1) + 1]
      BY <1>10, <3>1
    <3> QED
      BY <3>1, <3>2
  <2> QED
    BY <2>1, <2>2
<1>14. \A k \in 1..p.filled : k \in 1..size /\ k <= p.filled
  BY <1>1, <1>11
<1> QED
  BY <1>7, <1>13, <1>14 DEF WindowHolds, p, r

-----------------------------------------------------------------------------
(* The tables, and the alarms.                                             *)

LEMMA RecordHolds ==
    ASSUME WindowsOK, HistoryOK, NEW t \in Tenants, NEW flags \in SUBSET Flags, NEW gone,
           Record(t, flags, gone)
    PROVE  HistoryOK'
<1> DEFINE size == config.size
           before == IF t \in Tracked THEN state[t] ELSE EmptyWindow(size)
           history == IF t \in Tracked THEN recent[t] ELSE <<>>
           now == Evaluated(Pushed(before, flags))
           r == Newest(<<flags>> \o history, size)
<1>1. size \in Nat \ {0}
  BY DEF WindowsOK, ConfigOK, ValidConfig, ConfigType
<1>2. WindowOK(before, size) /\ WindowHolds(before, history, size)
  BY <1>1, EmptyWindowOK, EmptyWindowHolds DEF WindowsOK, HistoryOK
<1>3. WindowHolds(Pushed(before, flags), r, size)
  BY <1>2, PushedHolds DEF WindowsOK
<1>4. WindowHolds(now, r, size)
  BY <1>3 DEF WindowHolds, Back, Evaluated
<1>5. /\ config' = config
      /\ state' = [u \in (Tracked \ gone) \cup {t} |-> IF u = t THEN now ELSE state[u]]
      /\ recent' = [u \in (Tracked \ gone) \cup {t} |-> IF u = t THEN r ELSE recent[u]]
  BY DEF Record
<1> HIDE DEF now, r
<1>6. ASSUME NEW u \in Tracked'
      PROVE  WindowHolds(state'[u], recent'[u], config'.size)
  <2>1. CASE u = t
    BY <1>4, <1>5, <2>1
  <2>2. CASE u # t
    <3>1. u \in Tracked /\ state'[u] = state[u] /\ recent'[u] = recent[u]
      BY <1>5, <1>6, <2>2 DEF Tracked
    <3> QED
      BY <1>5, <3>1 DEF HistoryOK
  <2> QED
    BY <2>1, <2>2
<1> QED
  BY <1>5, <1>6 DEF HistoryOK, Tracked

LEMMA ConfigureHolds ==
    ASSUME WindowsOK, HistoryOK, NEW c \in Configs, Configure(c)
    PROVE  HistoryOK'
<1>1. c \in ConfigType /\ ValidConfig(c) /\ config' = c
  BY MetricsAssumption DEF Configure
<1>2. CASE c.size = config.size
  <2>1. state' = state /\ recent' = recent
    BY <1>2 DEF Configure
  <2> QED
    BY <1>1, <1>2, <2>1 DEF HistoryOK, Tracked
<1>3. CASE c.size # config.size
  <2>1. /\ state' = [t \in Tracked |-> EmptyWindow(c.size)]
        /\ recent' = [t \in Tracked |-> <<>>]
    BY <1>3 DEF Configure
  <2>2. c.size \in Nat \ {0}
    BY <1>1 DEF ValidConfig, ConfigType
  <2> QED
    BY <1>1, <2>1, <2>2, EmptyWindowHolds DEF HistoryOK, Tracked
<1> QED
  BY <1>2, <1>3

\* The last searches of a tenant were judged under a valid config, and if they
\* were a whole window of that config and all failed with f, f's alarm is on.
AlarmsOK ==
    /\ judged \in [Tracked -> Configs]
    /\ \A t \in Tracked : ValidConfig(judged[t])
    /\ TotalFailureAlarms

TablesOK ==
    /\ config \in Configs
    /\ order \in Seq(Tenants)
    /\ Tracked \subseteq Tenants /\ state = [t \in Tracked |-> state[t]]

MInv == WindowsOK /\ HistoryOK /\ TablesOK /\ AlarmsOK

\* A rate of 1 is above any high watermark.
LEMMA RateOfAll ==
    ASSUME NEW n \in Nat, NEW high \in Int, high < Unit
    PROVE  n * Unit >= high * n
<1>1. Unit \in Nat
  BY MetricsAssumption
<1>2. PICK d \in Nat : Unit = high + d
  BY <1>1
<1>3. n * d >= 0 /\ n * d \in Int /\ high * n \in Int /\ n * high = high * n
  OBVIOUS
<1>4. n * (high + d) = n * high + n * d
  OBVIOUS
<1>5. n * Unit = high * n + n * d
  BY <1>2, <1>3, <1>4
<1> QED
  BY <1>3, <1>5

\* A window all of whose slots have f alarms.
LEMMA FullWindowAlarms ==
    ASSUME ConfigOK, NEW s, WindowOK(s, config.size), NEW h,
           WindowHolds(s, h, config.size), NEW f \in Flags,
           Len(h) = config.size, \A k \in DOMAIN h : f \in h[k]
    PROVE  Evaluated(s).escalated[f]
<1> DEFINE size == config.size
<1>1. size \in Nat \ {0} /\ config.high \in Int /\ config.high < Unit
  BY DEF ConfigOK, ValidConfig, ConfigType
<1>2. /\ s.buf \in [0..(size - 1) -> Slot] /\ s.cursor \in 0..(size - 1)
      /\ s.filled = size /\ DOMAIN h = 1..size
      /\ s.counts[f] = Cardinality(With(s.buf, f))
  BY DEF WindowOK, WindowType, WindowHolds
<1>3. ASSUME NEW i \in 0..(size - 1)
      PROVE  f \in s.buf[i].flags
  <2> DEFINE k == IF i < s.cursor THEN s.cursor - i ELSE s.cursor + size - i
  <2>1. k \in 1..size
    BY <1>1, <1>2
  <2>2. (s.cursor + size - k) % size = i
    <3>1. CASE i < s.cursor
      <4>1. s.cursor + size - k = i + size
        BY <1>1, <1>2, <3>1
      <4> QED
        BY <1>1, <4>1, Wraps
    <3>2. CASE ~(i < s.cursor)
      <4>1. s.cursor + size - k = i
        BY <1>1, <1>2, <3>2
      <4> QED
        BY <1>1, <4>1, Wraps
    <3> QED
      BY <3>1, <3>2
  <2> HIDE DEF k
  <2>3. Back(s, size, k) = s.buf[i]
    BY <2>2 DEF Back
  <2>4. Back(s, size, k).flags = h[k]
    BY <1>2, <2>1 DEF WindowHolds
  <2> QED
    BY <1>2, <2>1, <2>3, <2>4
<1>4. s.counts[f] = size
  <2>1. With(s.buf, f) = 0..(size - 1)
    BY <1>2, <1>3 DEF With
  <2> QED
    BY <1>1, <1>2, <2>1, SlotCount
<1>5. RateAtLeast(s, f, config.high)
  <2>1. size * Unit >= config.high * size
    BY <1>1, RateOfAll
  <2> QED
    BY <1>2, <1>4, <2>1 DEF RateAtLeast
<1>6. EnoughSamples(config, s.filled)
  BY <1>2 DEF ConfigOK, ValidConfig
<1>7. AlarmAfter(s, f)
  BY <1>5, <1>6 DEF AlarmAfter
<1> QED
  BY <1>7 DEF Evaluated

\* Only Record judges, and it judges under the config of the day; a search's
\* alarm is that of the window it leaves.
LEMMA RecordAlarms ==
    ASSUME MInv, NEW t \in Tenants, NEW flags \in SUBSET Flags, NEW gone,
           Record(t, flags, gone)
    PROVE  AlarmsOK'
<1> DEFINE size == config.size
           before == IF t \in Tracked THEN state[t] ELSE EmptyWindow(size)
           history == IF t \in Tracked THEN recent[t] ELSE <<>>
           pushed == Pushed(before, flags)
           r == Newest(<<flags>> \o history, size)
           kept == (Tracked \ gone) \cup {t}
<1>1. size \in Nat \ {0} /\ ConfigOK
  BY DEF MInv, WindowsOK, ConfigOK, ValidConfig, ConfigType
<1>2. WindowOK(before, size) /\ WindowHolds(before, history, size)
  BY <1>1, EmptyWindowOK, EmptyWindowHolds DEF MInv, WindowsOK, HistoryOK
<1>3. WindowOK(pushed, size) /\ WindowHolds(pushed, r, size)
  BY <1>1, <1>2, PushedOK, PushedHolds
<1>4. /\ config' = config
      /\ state' = [u \in kept |-> IF u = t THEN Evaluated(pushed) ELSE state[u]]
      /\ recent' = [u \in kept |-> IF u = t THEN r ELSE recent[u]]
      /\ judged' = [u \in kept |-> IF u = t THEN config ELSE judged[u]]
  BY DEF Record
<1> HIDE DEF pushed, r
<1>5. judged' \in [kept -> Configs] /\ \A u \in kept : ValidConfig(judged'[u])
  BY <1>1, <1>4 DEF MInv, AlarmsOK, TablesOK, ConfigOK
<1>6. ASSUME NEW u \in kept, NEW f \in Flags,
             Len(recent'[u]) = judged'[u].size, \A k \in DOMAIN recent'[u] : f \in recent'[u][k]
      PROVE  state'[u].escalated[f]
  <2>1. CASE u = t
    <3>1. recent'[u] = r /\ judged'[u] = config /\ state'[u] = Evaluated(pushed)
      BY <1>4, <2>1
    <3> QED
      BY <1>1, <1>3, <1>6, <3>1, FullWindowAlarms
  <2>2. CASE u # t
    <3>1. /\ u \in Tracked /\ recent'[u] = recent[u] /\ judged'[u] = judged[u]
          /\ state'[u] = state[u]
      BY <1>4, <2>2
    <3> QED
      BY <1>6, <3>1, Zenon DEF MInv, AlarmsOK, TotalFailureAlarms
  <2> QED
    BY <2>1, <2>2
<1>7. Tracked' = kept
  BY <1>4 DEF Tracked
<1> HIDE DEF kept
<1>8. ASSUME NEW u \in kept PROVE ValidConfig(judged[u])' <=> ValidConfig(judged'[u])
  BY DEF ValidConfig, EnoughSamples, Spread
<1> QED
  BY <1>5, <1>6, <1>7, <1>8 DEF AlarmsOK, TotalFailureAlarms

LEMMA ConfigureAlarms ==
    ASSUME MInv, NEW c \in Configs, Configure(c)
    PROVE  AlarmsOK'
<1>1. judged' = judged /\ Tracked' = Tracked
  <2>1. DOMAIN state' = Tracked
    BY DEF Configure, Tracked
  <2> QED
    BY <2>1 DEF Configure, Tracked
<1>2. judged' \in [Tracked' -> Configs] /\ \A t \in Tracked : ValidConfig(judged[t])'
  BY <1>1 DEF MInv, AlarmsOK, ValidConfig, EnoughSamples, Spread
<1>3. CASE c.size = config.size
  <2>1. state' = state /\ recent' = recent
    BY <1>3 DEF Configure
  <2> QED
    BY <1>1, <1>2, <2>1 DEF MInv, AlarmsOK, TotalFailureAlarms
<1>4. CASE c.size # config.size
  <2>1. \A t \in Tracked : Len(recent'[t]) = 0
    BY <1>4 DEF Configure
  <2>2. \A t \in Tracked : judged[t].size # 0
    BY MetricsAssumption DEF MInv, AlarmsOK, ValidConfig, ConfigType
  <2> QED
    BY <1>1, <1>2, <2>1, <2>2 DEF AlarmsOK, TotalFailureAlarms
<1> QED
  BY <1>3, <1>4

LEMMA RecordTables ==
    ASSUME TablesOK, NEW t \in Tenants, NEW flags \in SUBSET Flags, NEW gone,
           Record(t, flags, gone)
    PROVE  TablesOK'
<1> DEFINE U == gone \cup {t}
           K == {i \in DOMAIN order : order[i] \notin U}
<1>1. ElementsAt(order, K) \in Seq(Tenants)
  <2>1. order \in Seq(Tenants) /\ K \in SUBSET DOMAIN order
    BY DEF TablesOK
  <2> HIDE DEF K
  <2> QED
    BY <2>1, ElementsAtType
<1>2. order' = Append(ElementsAt(order, K), t)
  BY DEF Record, Without
<1>3. order' \in Seq(Tenants)
  BY <1>1, <1>2
<1>4. config' = config /\ Tracked' \subseteq Tenants
  BY DEF Record, Tracked, TablesOK
<1>5. state' = [u \in Tracked' |-> state'[u]]
  BY DEF Record, Tracked
<1> QED
  BY <1>3, <1>4, <1>5 DEF TablesOK

LEMMA StepKeepsMInv == MInv /\ [MNext]_mvars => MInv'
<1> SUFFICES ASSUME MInv, [MNext]_mvars
             PROVE  HistoryOK' /\ TablesOK' /\ AlarmsOK'
  BY NextOK DEF MInv
<1>1. ASSUME NEW t \in Tenants, NEW flags \in SUBSET Flags, NEW gone, Record(t, flags, gone)
      PROVE  HistoryOK' /\ TablesOK' /\ AlarmsOK'
  <2>1. WindowsOK /\ HistoryOK /\ TablesOK
    BY DEF MInv
  <2>2. HistoryOK' /\ TablesOK'
    BY <1>1, <2>1, RecordHolds, RecordTables
  <2>3. AlarmsOK'
    BY <1>1, RecordAlarms
  <2> QED
    BY <2>2, <2>3
<1>2. ASSUME NEW c \in Configs, Configure(c)
      PROVE  HistoryOK' /\ TablesOK' /\ AlarmsOK'
  <2>1. WindowsOK /\ HistoryOK
    BY DEF MInv
  <2>2. HistoryOK' /\ AlarmsOK'
    BY <1>2, <2>1, ConfigureHolds, ConfigureAlarms
  <2>3. TablesOK'
    <3>1. DOMAIN state' = Tracked
      BY <1>2 DEF Configure, Tracked
    <3> QED
      BY <1>2, <3>1 DEF Configure, Tracked, MInv, TablesOK
  <2> QED
    BY <2>2, <2>3
<1>3. CASE UNCHANGED mvars
  <2>1. HistoryOK'
    BY <1>3 DEF mvars, MInv, HistoryOK, Tracked
  <2>2. TablesOK'
    BY <1>3 DEF mvars, MInv, TablesOK, Tracked
  <2>3. AlarmsOK'
    BY <1>3 DEF mvars, MInv, AlarmsOK, Tracked, TotalFailureAlarms, ValidConfig,
                EnoughSamples, Spread
  <2> QED
    BY <2>1, <2>2, <2>3
<1>4. CASE MNext
  <2>1. CASE \E t \in Tenants, flags \in SUBSET Flags :
               \/ RecordDegrade(t, flags)
               \/ \E v \in Tenants : RecordEvicting(t, flags, v)
    BY <1>1, <2>1 DEF RecordDegrade, RecordEvicting
  <2>2. CASE \E c \in Configs : Configure(c)
    BY <1>2, <2>2
  <2> QED
    BY <1>4, <2>1, <2>2 DEF MNext
<1> QED
  BY <1>3, <1>4

LEMMA MInvHolds == MSpec => []MInv
<1>1. MInit => MInv
  <2> SUFFICES ASSUME MInit PROVE MInv
    OBVIOUS
  <2>1. DOMAIN state = {} /\ DOMAIN recent = {} /\ judged \in [{} -> Configs]
    BY DEF MInit
  <2>2. WindowsOK
    BY <2>1, MetricsAssumption DEF MInit, WindowsOK, ConfigOK, Tracked
  <2>3. HistoryOK /\ AlarmsOK
    BY <2>1 DEF HistoryOK, AlarmsOK, TotalFailureAlarms, Tracked
  <2>4. TablesOK
    BY <2>1, MetricsAssumption DEF MInit, TablesOK, Tracked
  <2> QED
    BY <2>2, <2>3, <2>4 DEF MInv
<1> QED
  BY <1>1, StepKeepsMInv, PTL DEF MSpec

\* Whatever is searched, resized and evicted, a tenant's window is that of its
\* last searches, newest first, and of no other.
THEOREM WindowsAreRecent == MSpec => []MetricsInv
<1>1. MInv => MetricsInv
  <2> SUFFICES ASSUME MInv PROVE MetricsInv
    OBVIOUS
  <2>1. config.size \in Nat \ {0}
    BY DEF MInv, WindowsOK, ConfigOK, ValidConfig, ConfigType
  <2>2. \A t \in Tracked : /\ state[t] \in WindowType(config.size)
                           /\ WindowHolds(state[t], recent[t], config.size)
    BY DEF MInv, WindowsOK, WindowOK, HistoryOK
  <2>3. WindowIsRecent
    <3> SUFFICES ASSUME NEW t \in Tracked
                 PROVE  LET s == state[t]
                            size == Cardinality(DOMAIN s.buf)
                        IN /\ Len(recent[t]) = s.filled
                           /\ \A k \in 1..s.filled :
                                s.buf[(s.cursor + size - k) % size].flags = recent[t][k]
      BY DEF WindowIsRecent
    <3>1. DOMAIN state[t].buf = 0..(config.size - 1)
      BY <2>2 DEF WindowType
    <3>2. Cardinality(DOMAIN state[t].buf) = config.size
      BY <2>1, <3>1, SlotCount
    <3> QED
      BY <2>2, <3>2 DEF WindowHolds, Back
  <2>4. state \in [Tracked -> WindowType(config.size)]
    <3>1. state = [t \in Tracked |-> state[t]]
      BY DEF MInv, TablesOK
    <3> QED
      BY <2>2, <3>1
  <2>5. MTypeOK
    BY <2>4 DEF MInv, MTypeOK, TablesOK, HistoryOK, AlarmsOK, WindowsOK, ConfigOK
  <2> QED
    BY <2>3, <2>5 DEF MetricsInv
<1> QED
  BY <1>1, MInvHolds, PTL

\* Under any config the validator accepts, a tenant whose last windowSize
\* searches all failed with a flag has that flag's alarm on.
THEOREM EscalationIsReachable == MSpec => []TotalFailureAlarms
<1>1. MInv => TotalFailureAlarms
  BY DEF MInv, AlarmsOK
<1> QED
  BY <1>1, MInvHolds, PTL

\* An eviction drops a tenant with an alarm on only when every tenant tracked
\* has one.
THEOREM AlarmsAreKept == MSpec => AlarmsOutliveEviction
<1> DEFINE Kept == \A t \in Tracked : IsEscalated(t) /\ t \notin Tracked' =>
                      \A u \in Tracked : IsEscalated(u)
<1>1. [MNext]_mvars => [Kept]_mvars
  <2>1. ASSUME NEW t \in Tenants, NEW flags \in SUBSET Flags, RecordDegrade(t, flags)
        PROVE  Kept
    BY <2>1 DEF RecordDegrade, Record, Tracked
  <2>2. ASSUME NEW t \in Tenants, NEW flags \in SUBSET Flags, NEW v \in Tenants,
               RecordEvicting(t, flags, v)
        PROVE  Kept
    <3>1. Tracked' = (Tracked \ {v}) \cup {t} /\ Victim(v)
      BY <2>2 DEF RecordEvicting, Record, Tracked
    <3>2. ~IsEscalated(v) \/ \A u \in Tracked : IsEscalated(u)
      BY <3>1 DEF Victim
    <3> QED
      BY <3>1, <3>2
  <2>3. ASSUME NEW c \in Configs, Configure(c)
        PROVE  Kept
    BY <2>3 DEF Configure, Tracked
  <2> QED
    BY <2>1, <2>2, <2>3 DEF MNext
<1> QED
  BY <1>1, PTL DEF MSpec, AlarmsOutliveEviction

-----------------------------------------------------------------------------
(* The search over the store and the live sources.                         *)

USE FederatedAssumption

\* The shape of the variables a result is made of.
Shape ==
    /\ request \in Requests
    /\ mounted \in [Providers -> {"absent", "plain", "live"}]
    /\ phase \in {"local", "live", "returned", "failed"}
    /\ local = NoLocal \/ local \in StoreAnswers
    /\ backend \in [Providers -> {"unasked", "running", "ended"}]
    /\ call \in [Providers -> {"unasked", "pending", "answered"} \cup LiveFlags]
    /\ hits \in [Providers -> SUBSET Keys]

\* The store is not asked by a request that does not name it.
AskedOnly ==
    /\ ~WantsLocal => local = NoLocal
    /\ phase \in {"local", "failed"} => local = NoLocal /\ \A p \in Providers : call[p] = "unasked"
    /\ phase \in {"live", "returned"} => \A p \in Providers : p \in Asked <=> call[p] # "unasked"

\* A result is final: no call is pending that could change what it is made of.
Frozen ==
    result # None => phase = "returned" /\ AllSettled

NoneMounted == \A p \in Providers : mounted[p] = "absent"

\* What either return makes of the hits, the flags and the store's word.
Result(items) ==
    /\ IF NoneMounted THEN items = LocalHits ELSE items \in CutTo(Limit, Merged)
    /\ result.items = items
    /\ result.degraded = ResultFlags
    /\ result.evidence =
         IF ~request.includeEvidence THEN None
         ELSE IF NoneMounted THEN IF local.evidence = None THEN "none" ELSE local.evidence
         ELSE EvidenceFor(items)

\* A result is what it was made of.
MadeOf == result # None => \E items : Result(items)

FInv == Shape /\ AskedOnly /\ Frozen /\ MadeOf

LEMMA InitFInv == FInit => FInv
BY DEF FInit, FInv, Shape, AskedOnly, Frozen, MadeOf, NoLocal, Providers

-----------------------------------------------------------------------------
(* The steps.                                                              *)

\* What ends or times out changes nothing of a result there is.
LEMMA UnmadeFInv ==
    ASSUME FInv, Shape', AskedOnly',
           UNCHANGED <<request, mounted, local, result>>,
           result # None => UNCHANGED <<phase, call, hits>>
    PROVE  FInv'
<1>1. CASE result = None
  BY <1>1 DEF FInv, Frozen, MadeOf
<1>2. CASE result # None
  <2>1. UNCHANGED <<request, mounted, local, result, phase, call, hits>>
    BY <1>2
  <2>2. PICK items : Result(items)
    BY <1>2 DEF FInv, MadeOf
  <2>3. Result(items)'
    BY <2>1, <2>2 DEF Result, NoneMounted, LocalHits, LiveHits, HitsOf, Merged, CutTo, Passes, WrittenAfter,
                      ResultFlags, FlagsOfCalls, EvidenceFor, Answered
  <2> QED
    BY <2>1, <2>3, <1>2 DEF FInv, Frozen, MadeOf, AllSettled, Pending
<1> QED
  BY <1>1, <1>2

LEMMA LocalFInv ==
    ASSUME FInv, LocalAnswers \/ LocalFails
    PROVE  FInv'
<1>1. /\ phase = "local" /\ result = None /\ result' = None
      /\ UNCHANGED <<request, mounted, hits>>
  BY DEF FInv, Frozen, LocalAnswers, LocalFails, AskAll
<1>2. CASE LocalAnswers
  <2>1. PICK a : AskAll(a) /\ (IF WantsLocal THEN a \in StoreAnswers ELSE a = NoLocal)
    BY <1>2 DEF LocalAnswers
  <2>2. Shape'
    BY <1>1, <2>1 DEF FInv, Shape, AskAll
  <2>3. AskedOnly'
    BY <1>1, <2>1, <2>2 DEF AskedOnly, AskAll, Asked, WantsLocal
  <2> QED
    BY <1>1, <2>2, <2>3 DEF FInv, Frozen, MadeOf
<1>3. CASE LocalFails
  <2>1. Shape' /\ AskedOnly'
    BY <1>1, <1>3 DEF FInv, Shape, AskedOnly, LocalFails, WantsLocal
  <2> QED
    BY <1>1, <2>1 DEF FInv, Frozen, MadeOf
<1> QED
  BY <1>2, <1>3

LEMMA SourceFInv ==
    ASSUME FInv, NEW p \in Providers, NEW outcome \in {"answered", "live_error"},
           NEW S \in SUBSET Keys, SourceEnds(p, outcome, S)
    PROVE  FInv'
<1>1. UNCHANGED <<request, mounted, phase, local, result>>
  BY DEF SourceEnds
<1>2. Shape'
  BY <1>1 DEF FInv, Shape, SourceEnds, Settle, LiveFlags, NoLocal, StoreAnswers, Requests
<1>3. AskedOnly'
  <2>1. \A q \in Providers : call'[q] = "unasked" <=> call[q] = "unasked"
    BY DEF FInv, Shape, SourceEnds, Settle, Pending
  <2> QED
    BY <1>1, <2>1 DEF FInv, AskedOnly, Asked, WantsLocal
<1>4. result # None => UNCHANGED <<phase, call, hits>>
  BY <1>1 DEF FInv, Frozen, AllSettled, SourceEnds, Settle
<1> QED
  BY <1>1, <1>2, <1>3, <1>4, UnmadeFInv

LEMMA TimerFInv ==
    ASSUME FInv, NEW p \in Providers, TimerFires(p)
    PROVE  FInv'
<1>1. UNCHANGED <<request, mounted, phase, local, result>> /\ result = None
  BY DEF TimerFires, FInv, Frozen
<1>2. Shape'
  BY <1>1 DEF FInv, Shape, TimerFires, LiveFlags, NoLocal, StoreAnswers, Requests
<1>3. AskedOnly'
  <2>1. \A q \in Providers : call'[q] = "unasked" <=> call[q] = "unasked"
    BY DEF FInv, Shape, TimerFires, TimerArmed, Pending
  <2> QED
    BY <1>1, <2>1 DEF FInv, AskedOnly, Asked, WantsLocal
<1> QED
  BY <1>1, <1>2, <1>3, UnmadeFInv

LEMMA ReturnFInv ==
    ASSUME FInv, ReturnLocal \/ ReturnMerged
    PROVE  FInv'
<1>1. PICK items, evidence :
        /\ Returns(items, evidence)
        /\ IF NoneMounted
           THEN /\ items = LocalHits
                /\ evidence = IF local.evidence = None THEN "none" ELSE local.evidence
           ELSE items \in CutTo(Limit, Merged) /\ evidence = EvidenceFor(items)
  BY DEF ReturnLocal, ReturnMerged, NoneMounted
<1>2. /\ phase = "live" /\ phase' = "returned"
      /\ UNCHANGED <<request, mounted, local, backend, call, hits>>
  BY <1>1 DEF ReturnLocal, ReturnMerged, Returns
<1>3. AllSettled
  <2>1. CASE NoneMounted
    BY <1>2, <2>1 DEF NoneMounted, AllSettled, Pending, Asked, FInv, AskedOnly
  <2>2. CASE ~NoneMounted
    BY <2>2 DEF ReturnLocal, ReturnMerged, NoneMounted
  <2> QED
    BY <2>1, <2>2
<1>4. Shape' /\ AskedOnly'
  BY <1>2 DEF FInv, Shape, AskedOnly, Asked, WantsLocal, NoLocal, StoreAnswers, Requests
<1>5. Frozen'
  BY <1>2, <1>3 DEF Frozen, AllSettled, Pending
<1>6. Result(items)'
  <2>1. /\ result' = [items |-> items, degraded |-> ResultFlags,
                      evidence |-> IF request.includeEvidence THEN evidence ELSE None]
    BY <1>1 DEF Returns
  <2>2. /\ NoneMounted' <=> NoneMounted
        /\ LocalHits' = LocalHits /\ CutTo(Limit, Merged)' = CutTo(Limit, Merged)
        /\ ResultFlags' = ResultFlags /\ EvidenceFor(items)' = EvidenceFor(items)
        /\ local' = local /\ request' = request
    BY <1>2 DEF NoneMounted, LocalHits, LiveHits, HitsOf, Merged, CutTo, Passes, WrittenAfter,
                ResultFlags, FlagsOfCalls, EvidenceFor, Answered
  <2> QED
    BY <1>1, <2>1, <2>2 DEF Result
<1> QED
  BY <1>4, <1>5, <1>6 DEF FInv, MadeOf

LEMMA NextFInv == FInv /\ [FNext]_fvars => FInv'
<1> SUFFICES ASSUME FInv, [FNext]_fvars
             PROVE  FInv'
  OBVIOUS
<1>1. CASE LocalAnswers \/ LocalFails
  BY <1>1, LocalFInv
<1>2. CASE ReturnLocal \/ ReturnMerged
  BY <1>2, ReturnFInv
<1>3. CASE \E p \in Providers : SourceAnswers(p)
  <2>1. PICK p \in Providers, S \in SUBSET Keys : SourceEnds(p, "answered", S)
    BY <1>3 DEF SourceAnswers
  <2> QED
    BY <2>1, SourceFInv
<1>4. CASE \E p \in Providers : SourceFails(p)
  BY <1>4, SourceFInv DEF SourceFails
<1>5. CASE \E p \in Providers : TimerFires(p)
  BY <1>5, TimerFInv
<1>6. CASE UNCHANGED fvars
  <2>1. Shape' /\ AskedOnly'
    BY <1>6 DEF fvars, FInv, Shape, AskedOnly, Asked, WantsLocal, NoLocal, StoreAnswers, Requests
  <2> QED
    BY <1>6, <2>1, UnmadeFInv DEF fvars
<1> QED
  BY <1>1, <1>2, <1>3, <1>4, <1>5, <1>6 DEF FNext, SearchStep, SourceStep

LEMMA AlwaysFInv == FSpec => []FInv
BY InitFInv, NextFInv, PTL DEF FSpec

-----------------------------------------------------------------------------
(* The theorems.                                                           *)

LEMMA FlagsAreTheCalls == FInv => SaysWhatFailed
<1> SUFFICES ASSUME FInv, result # None
             PROVE  result.degraded \cap LiveFlags
                       = {f \in LiveFlags : \E p \in Asked : call[p] = f}
  BY DEF SaysWhatFailed
<1>1. result.degraded = ResultFlags
  BY DEF FInv, MadeOf, Result
<1>2. local.degraded \cap LiveFlags = {}
  BY DEF FInv, Shape, NoLocal, StoreAnswers, LiveFlags
<1>3. FlagsOfCalls = {f \in LiveFlags : \E p \in Asked : call[p] = f}
  BY DEF FlagsOfCalls, FInv, Frozen, AskedOnly, Asked, LiveFlags
<1> QED
  BY <1>1, <1>2, <1>3 DEF ResultFlags

\* A search that returns without the hits of a source it asked has a flag for it,
\* and has one only then, however late a source ends (collectLiveItems,
\* mergeToSearchResult in src/memory.ts).
THEOREM AlwaysSaysWhatFailed == FSpec => []SaysWhatFailed
BY AlwaysFInv, FlagsAreTheCalls, PTL

\* The hits there are, and those the request lets through.
Hits == LocalHits \cup LiveHits
Passing == {h \in Hits : Passes(h)}

LEMMA HitsAreHits ==
    ASSUME Shape
    PROVE  /\ Hits \subseteq HitType
           /\ \A h \in Hits : \/ h.channel = "local" /\ h.from = None /\ h.key \in local.hits
                              \/ h.channel = "live" /\ h.from \in Providers
                                   /\ h \in HitsOf(h.from) /\ h.from \in Answered
           /\ \A h, g \in Hits : h.channel = g.channel /\ h.key = g.key /\ h.from = g.from
                                    => h = g
           /\ Merged \subseteq Hits
<1>1. local.hits \subseteq Keys
  BY DEF Shape, NoLocal, StoreAnswers
<1>2. \A h \in LocalHits : /\ h \in HitType
                           /\ h = [channel |-> "local", key |-> h.key, from |-> None]
                           /\ h.channel = "local" /\ h.from = None /\ h.key \in local.hits
  BY <1>1 DEF LocalHits, HitType
<1>3. \A h \in LiveHits : /\ h \in HitType
                          /\ h = [channel |-> "live", key |-> h.key, from |-> h.from]
                          /\ h.channel = "live" /\ h.from \in Providers
                          /\ h \in HitsOf(h.from) /\ h.from \in Answered
  <2> SUFFICES ASSUME NEW h \in LiveHits
               PROVE  /\ h \in HitType
                      /\ h = [channel |-> "live", key |-> h.key, from |-> h.from]
                      /\ h.channel = "live" /\ h.from \in Providers
                      /\ h \in HitsOf(h.from) /\ h.from \in Answered
    OBVIOUS
  <2>1. PICK p \in Answered : h \in HitsOf(p)
    BY DEF LiveHits
  <2>2. p \in Providers /\ hits[p] \subseteq Keys
    BY <2>1 DEF Answered, Shape
  <2>3. PICK k \in hits[p] : h = [channel |-> "live", key |-> k, from |-> p]
    BY <2>1 DEF HitsOf
  <2> QED
    BY <2>1, <2>2, <2>3 DEF HitType
<1>4. Merged \subseteq Hits
  BY DEF Merged, Hits
<1> QED
  BY <1>2, <1>3, <1>4 DEF Hits

LEMMA OnePerKey ==
    ASSUME Shape
    PROVE  \A h, g \in Merged : h.key = g.key => h = g
<1> SUFFICES ASSUME NEW h \in Merged, NEW g \in Merged, h.key = g.key, h # g
             PROVE  FALSE
  OBVIOUS
<1>1. WrittenAfter(h, g) /\ WrittenAfter(g, h)
  BY DEF Merged
<1>2. h \in Hits /\ g \in Hits
  BY HitsAreHits
<1> QED
  BY <1>1, <1>2, HitsAreHits DEF WrittenAfter, Providers

LEMMA MergedIsFinite ==
    ASSUME Shape
    PROVE  IsFiniteSet(Merged) /\ Cardinality(Merged) \in Nat
<1> DEFINE f == [h \in Merged |-> h.key]
<1>1. f \in Injection(Merged, Keys)
  BY OnePerKey, HitsAreHits DEF Injection, IsInjective, HitType
<1> QED
  BY <1>1, FS_Injection, FS_CardinalityType

LEMMA LeastOf ==
    ASSUME NEW T \in SUBSET Nat, T # {}
    PROVE  \E n \in T : \A m \in T : n <= m
<1>1. PICK R : IsWellFoundedOn(R, Nat) /\ \A m, n \in Nat : m < n => <<m, n>> \in R
  <2> DEFINE Less == OpToRel(<, Nat)
  <2>1. IsWellFoundedOn(Less, Nat)
    BY NatLessThanWellFounded
  <2>2. \A m, n \in Nat : m < n => <<m, n>> \in Less
    BY DEF OpToRel
  <2> HIDE DEF Less
  <2> QED
    BY <2>1, <2>2
<1>2. PICK n \in T : \A m \in T : ~ (<<m, n>> \in R)
  BY <1>1, WFMin, ZenonT(30)
<1>3. \A m \in T : ~(m < n)
  BY <1>1, <1>2
<1> QED
  BY <1>3

\* One of the sources that answered with a key is the last of them.
LEMMA KeyIsKept ==
    ASSUME Shape, NEW h \in Passing
    PROVE  \E g \in Merged : g.key = h.key
<1> DEFINE same == {g \in Passing : g.key = h.key}
<1>1. /\ same \subseteq Hits /\ h \in same
      /\ \A g \in same : Passes(g) /\ g.key = h.key
      /\ \A g \in Hits : Passes(g) /\ g.key = h.key => g \in same
  BY DEF Passing
<1>2. \A g \in same : (\A e \in same \ {g} : WrittenAfter(g, e)) => g \in Merged
  BY <1>1 DEF Merged, Hits
<1> HIDE DEF same
<1>3. CASE \E g \in same : g.channel = "local"
  <2>1. PICK g \in same : g.channel = "local"
    BY <1>3
  <2>2. \A e \in same \ {g} : WrittenAfter(g, e)
    BY <1>1, <2>1, HitsAreHits DEF WrittenAfter
  <2> QED
    BY <1>1, <1>2, <2>1, <2>2
<1>4. CASE \A g \in same : g.channel # "local"
  <2> DEFINE left == {NumProviders - g.from : g \in same}
  <2>1. \A g \in same : g.channel = "live" /\ g.from \in Providers
    BY <1>1, <1>4, HitsAreHits
  <2>2. left \in SUBSET Nat /\ left # {}
    BY <1>1, <2>1 DEF Providers
  <2>3. PICK n \in left : \A m \in left : n <= m
    BY <2>2, LeastOf
  <2>4. PICK g \in same : n = NumProviders - g.from
    BY <2>3
  <2>5. \A e \in same : NumProviders - g.from <= NumProviders - e.from
    BY <2>3, <2>4
  <2>6. \A e \in same \ {g} : e.from # g.from
    BY <1>1, <2>1, HitsAreHits
  <2>7. \A e \in same \ {g} : WrittenAfter(g, e)
    BY <2>1, <2>5, <2>6 DEF WrittenAfter, Providers
  <2> QED
    BY <1>1, <1>2, <2>7
<1> QED
  BY <1>3, <1>4

\* A store that fills its limit answers no longer than that.
LEMMA LocalHitsWithinLimit ==
    ASSUME Shape
    PROVE  IsFiniteSet(LocalHits) /\ Cardinality(LocalHits) \in Nat
           /\ Cardinality(LocalHits) <= Limit
<1>1. /\ local.hits \subseteq Keys /\ Cardinality(local.hits) <= Limit
  BY FS_EmptySet DEF Shape, NoLocal, StoreAnswers
<1>2. IsFiniteSet(local.hits) /\ Cardinality(local.hits) \in Nat
  BY <1>1, FS_Subset, FS_CardinalityType
<1> DEFINE f == [k \in local.hits |-> [channel |-> "local", key |-> k, from |-> None]]
<1>3. f \in Surjection(local.hits, LocalHits)
  BY DEF Surjection, LocalHits
<1>4. IsFiniteSet(LocalHits) /\ Cardinality(LocalHits) <= Cardinality(local.hits)
  BY <1>2, <1>3, FS_Surjection
<1> QED
  BY <1>1, <1>2, <1>4, FS_CardinalityType

\* No source answers that was not mounted.
LEMMA NothingLive ==
    ASSUME FInv, result # None, NoneMounted
    PROVE  Answered = {} /\ LiveHits = {}
BY DEF FInv, Frozen, AskedOnly, Asked, NoneMounted, Answered, LiveHits

\* A result is cut from the merged hits, and is all of them unless it is full.
LEMMA WithinLimit ==
    ASSUME FInv, result # None
    PROVE  /\ result.items \subseteq Hits
           /\ result.items \subseteq (IF NoneMounted THEN LocalHits ELSE Merged)
           /\ Cardinality(result.items) <= Limit
           /\ \/ Cardinality(result.items) = Limit
              \/ result.items = IF NoneMounted THEN LocalHits ELSE Merged
<1>1. Shape
  BY DEF FInv
<1>2. PICK items : Result(items)
  BY DEF FInv, MadeOf
<1>3. CASE NoneMounted
  BY <1>1, <1>2, <1>3, LocalHitsWithinLimit DEF Result, Hits
<1>4. CASE ~NoneMounted
  <2> DEFINE n == IF Cardinality(Merged) < Limit THEN Cardinality(Merged) ELSE Limit
  <2>1. items \subseteq Merged /\ Cardinality(items) = n
    BY <1>2, <1>4 DEF Result, CutTo, kSubset
  <2>2. IsFiniteSet(Merged) /\ Cardinality(Merged) \in Nat
    BY <1>1, MergedIsFinite
  <2>3. Cardinality(items) = Cardinality(Merged) => items = Merged
    BY <2>1, <2>2, FS_Subset
  <2> QED
    BY <1>1, <1>2, <1>4, <2>1, <2>2, <2>3, HitsAreHits DEF Result
<1> QED
  BY <1>3, <1>4

LEMMA Contained == FInv => FailureIsContained
<1> SUFFICES ASSUME FInv, result # None, NEW h \in Hits, Passes(h),
                    Cardinality(result.items) # Limit
             PROVE  \E g \in result.items : g.key = h.key
  BY DEF FailureIsContained, Hits, LiveHits
<1>1. result.items = IF NoneMounted THEN LocalHits ELSE Merged
  BY WithinLimit
<1>2. CASE NoneMounted
  BY <1>1, <1>2, NothingLive DEF Hits
<1>3. CASE ~NoneMounted
  BY <1>1, <1>3, KeyIsKept DEF Passing, FInv
<1> QED
  BY <1>2, <1>3

LEMMA TypeFInv == FInv => FTypeOK
<1> SUFFICES ASSUME FInv
             PROVE  FTypeOK
  OBVIOUS
<1>1. /\ request \in Requests
      /\ mounted \in [Providers -> {"absent", "plain", "live"}]
      /\ phase \in {"local", "live", "returned", "failed"}
      /\ local.hits \subseteq Keys
      /\ backend \in [Providers -> {"unasked", "running", "ended"}]
      /\ call \in [Providers -> {"unasked", "pending", "answered"} \cup LiveFlags]
      /\ hits \in [Providers -> SUBSET Keys]
  BY DEF FInv, Shape, NoLocal, StoreAnswers
<1>2. ASSUME result # None
      PROVE  /\ phase = "returned"
             /\ result.items \subseteq HitType /\ Cardinality(result.items) <= Limit
             /\ result.degraded \subseteq LiveFlags \cup {"dense_unavailable"}
             /\ result.evidence \in Evidences \cup {None}
  <2>1. Shape /\ phase = "returned"
    BY <1>2 DEF FInv, Frozen
  <2>2. PICK items : Result(items)
    BY <1>2 DEF FInv, MadeOf
  <2>3. result.items \subseteq HitType /\ Cardinality(result.items) <= Limit
    BY <1>2, <2>1, WithinLimit, HitsAreHits
  <2>4. local.degraded \subseteq {"dense_unavailable"} /\ local.evidence \in Evidences \cup {None}
    BY <2>1 DEF Shape, NoLocal, StoreAnswers
  <2>5. result.degraded \subseteq LiveFlags \cup {"dense_unavailable"}
    BY <2>2, <2>4 DEF Result, ResultFlags, FlagsOfCalls
  <2>6. result.evidence \in Evidences \cup {None}
    BY <2>2, <2>4 DEF Result, EvidenceFor, Evidences
  <2> QED
    BY <2>1, <2>3, <2>5, <2>6
<1> QED
  BY <1>1, <1>2 DEF FTypeOK

LEMMA StoredWins == FInv => LocalWins
<1> SUFFICES ASSUME FInv, result # None
             PROVE  /\ \A h, g \in result.items : h.key = g.key => h = g
                    /\ \A h \in result.items : h.channel = "live" => h.key \notin local.hits
  BY DEF LocalWins
<1>1. Shape /\ result.items \subseteq (IF NoneMounted THEN LocalHits ELSE Merged)
  BY WithinLimit DEF FInv
<1>2. CASE NoneMounted
  <2>1. \A h \in LocalHits : h.channel = "local" /\ h.from = None /\ h \in Hits
    BY DEF LocalHits, Hits
  <2> QED
    BY <1>1, <1>2, <2>1, HitsAreHits
<1>3. CASE ~NoneMounted
  <2>1. \A h, g \in result.items : h.key = g.key => h = g
    BY <1>1, <1>3, OnePerKey
  <2>2. ASSUME NEW h \in Merged, h.channel = "live", h.key \in local.hits
        PROVE  FALSE
    <3> DEFINE g == [channel |-> "local", key |-> h.key, from |-> None]
    <3>1. g \in LocalHits /\ g.channel = "local" /\ g.key = h.key /\ g # h
      BY <2>2 DEF LocalHits
    <3>2. WantsLocal
      BY <2>2 DEF FInv, AskedOnly, NoLocal
    <3>3. Passes(g)
      BY <3>1, <3>2 DEF Passes, WantsLocal
    <3>4. WrittenAfter(h, g)
      BY <3>1, <3>3 DEF Merged
    <3> QED
      BY <2>2, <3>1, <3>4 DEF WrittenAfter
  <2> QED
    BY <1>1, <1>3, <2>1, <2>2
<1> QED
  BY <1>2, <1>3

LEMMA StrongOnlyLocal == FInv => StrongIsLocal
<1> SUFFICES ASSUME FInv, result # None, result.evidence = "strong"
             PROVE  local.evidence = "strong" /\ \A h \in result.items : h.channel = "local"
  BY DEF StrongIsLocal
<1>1. PICK items : Result(items)
  BY DEF FInv, MadeOf
<1>2. None # "strong" /\ request.includeEvidence
  BY <1>1 DEF Result, Evidences
<1>3. \A h \in LocalHits : h.channel = "local"
  BY DEF LocalHits
<1>4. CASE NoneMounted
  BY <1>1, <1>2, <1>3, <1>4 DEF Result
<1>5. CASE ~NoneMounted
  <2>1. LiveHits = {} /\ local.evidence = "strong"
    BY <1>1, <1>2, <1>5 DEF Result, EvidenceFor
  <2>2. result.items \subseteq Hits
    BY WithinLimit
  <2> QED
    BY <1>3, <2>1, <2>2 DEF Hits
<1> QED
  BY <1>4, <1>5

\* A source that fails, hangs or is too late takes nobody else's hits out of a
\* result that has room (withTimeout, collectLiveItems).
THEOREM FailureAlwaysContained == FSpec => []FailureIsContained
BY AlwaysFInv, Contained, PTL

\* A result has one hit per key, the stored one where there is one, no more than
\* were asked for, and calls itself strong only on the store's own word for the
\* store's own hits (mergeLocalLiveV1, mergeToSearchResult).
THEOREM FederatedInvAlways == FSpec => []FederatedInv
<1>1. FInv => FederatedInv
  BY TypeFInv, StoredWins, StrongOnlyLocal DEF FederatedInv
<1> QED
  BY AlwaysFInv, <1>1, PTL
=============================================================================
