--------------------------- MODULE DegradeMetrics ---------------------------
(***************************************************************************)
(* The degrade metrics (src/core/degrade-metrics.ts): per tenant, a        *)
(* circular buffer of the last searches' degrade flags with a running      *)
(* count of each flag, an alarm per flag with two watermarks, and a bound  *)
(* on the tenants tracked, kept by evicting the one least recently used.   *)
(*                                                                         *)
(* Watermarks are counted in Unit-ths, so that rates are compared without  *)
(* fractions.  The lifetime totals, which only the summary line reads, and *)
(* the logging are left out.                                               *)
(***************************************************************************)
EXTENDS Integers, Sequences, FiniteSets, Subsequence

CONSTANTS Tenants, Flags,
          Unit,        \* a rate of 1
          Confidence,  \* the 5 of "n*p*(1-p) >= 5"
          Configs,     \* what a host may ask for, valid or not
          Default      \* DEFAULT_CONFIG

\* size: windowSize; high, low: the watermarks; max: maxTrackedTenants.
ConfigType == [size : Int, high : Int, low : Int, max : Int]

\* minSamplesFor, of a watermark strictly between 0 and 1: ceil(5/(p(1-p))).
Spread(c) == c.high * (Unit - c.high)
EnoughSamples(c, n) == n * Spread(c) >= Confidence * Unit * Unit

\* Mutant: the floor of samples is not compared with the window.
ValidShape(c) ==
    /\ c.size >= 1 /\ c.max >= 1
    /\ c.high > 0 /\ c.high < Unit
    /\ c.low >= 0 /\ c.low < c.high

\* validateConfig: a highWatermark of 1 has no finite floor of samples.
ValidConfig(c) ==
    /\ c.size >= 1 /\ c.max >= 1
    /\ c.high > 0 /\ c.high < Unit
    /\ c.low >= 0 /\ c.low < c.high
    /\ EnoughSamples(c, c.size)

ASSUME MetricsAssumption ==
    /\ Unit \in Nat \ {0} /\ Confidence \in Nat
    /\ Configs \subseteq ConfigType
    /\ Default \in Configs /\ ValidConfig(Default)

VARIABLES config,
          order,   \* the tracked tenants, least recently touched first
          state,   \* [tracked tenants -> TenantState]
          recent,  \* (what happened) flags of a tenant's searches since its window
                   \* was last empty, newest first, as many as a window holds
          judged   \* (what happened) the config its last search was judged under

mvars == <<config, order, state, recent, judged>>

Tracked == DOMAIN state

-----------------------------------------------------------------------------
(* One tenant's window.                                                    *)

NoCall == [used |-> FALSE, flags |-> {}]
Slot == [used : BOOLEAN, flags : SUBSET Flags]

\* newTenantState, and what resizeAllTenantWindows leaves of one.
EmptyWindow(size) ==
    [buf |-> [i \in 0..(size - 1) |-> NoCall], cursor |-> 0, filled |-> 0,
     counts |-> [f \in Flags |-> 0], escalated |-> [f \in Flags |-> FALSE]]

\* Mutant: the flags that leave the window stay counted.
NothingLeaves(s, f) == 0

\* The flags of the search that leaves the window.
Leaves(s, f) == IF f \in s.buf[s.cursor].flags THEN 1 ELSE 0

Enters(flags, f) == IF f \in flags THEN 1 ELSE 0

AtLeast0(n) == IF n < 0 THEN 0 ELSE n

\* Mutant: the cursor leaves out a slot.
NextSlotSkips(s) == (s.cursor + 2) % Cardinality(DOMAIN s.buf)

NextSlot(s) == (s.cursor + 1) % Cardinality(DOMAIN s.buf)

\* pushToWindow.
Pushed(s, flags) ==
    [buf |-> [s.buf EXCEPT ![s.cursor] = [used |-> TRUE, flags |-> flags]],
     cursor |-> NextSlot(s),
     filled |-> IF s.buf[s.cursor].used THEN s.filled
                ELSE IF s.filled + 1 < config.size THEN s.filled + 1 ELSE config.size,
     counts |-> [f \in Flags |-> AtLeast0(s.counts[f] - Leaves(s, f)) + Enters(flags, f)],
     escalated |-> s.escalated]

\* windowedRate >= mark, and <= mark, with at least one search in the window.
RateAtLeast(s, f, mark) == s.counts[f] * Unit >= mark * s.filled
RateAtMost(s, f, mark) == s.counts[f] * Unit <= mark * s.filled

\* The alarms after a search: held off below the floor of samples, and as they
\* were between the watermarks.
AlarmAfter(s, f) ==
    IF ~EnoughSamples(config, s.filled) THEN s.escalated[f]
    ELSE \/ RateAtLeast(s, f, config.high)
         \/ s.escalated[f] /\ ~RateAtMost(s, f, config.low)

Evaluated(s) ==
    [buf |-> s.buf, cursor |-> s.cursor, filled |-> s.filled, counts |-> s.counts,
     escalated |-> [f \in Flags |-> AlarmAfter(s, f)]]

IsEscalated(t) == \E f \in Flags : state[t].escalated[f]

-----------------------------------------------------------------------------
(* The tenants tracked.                                                    *)

\* Mutant: the oldest goes, whatever its alarms.
EvictOldest(v) == v = order[1]

\* evictIfNeeded: the oldest tenant with no alarm, or of all if each has one.
Victim(v) ==
    \E i \in DOMAIN order :
        /\ v = order[i]
        /\ \/ /\ ~IsEscalated(v)
              /\ \A j \in 1..(i - 1) : IsEscalated(order[j])
           \/ i = 1 /\ \A u \in Tracked : IsEscalated(u)

Without(s, U) == ElementsAt(s, {i \in DOMAIN s : s[i] \notin U})

\* The newest size searches.
Newest(s, size) == SubSeq(s, 1, IF Len(s) < size THEN Len(s) ELSE size)

\* recordDegrade, once the tenants in gone were evicted.
Record(t, flags, gone) ==
    LET before == IF t \in Tracked THEN state[t] ELSE EmptyWindow(config.size)
        history == IF t \in Tracked THEN recent[t] ELSE <<>>
        kept == (Tracked \ gone) \cup {t}
    IN /\ order' = Append(Without(order, gone \cup {t}), t)
       /\ state' = [u \in kept |->
                      IF u = t THEN Evaluated(Pushed(before, flags)) ELSE state[u]]
       /\ recent' = [u \in kept |->
                      IF u = t THEN Newest(<<flags>> \o history, config.size) ELSE recent[u]]
       /\ judged' = [u \in kept |-> IF u = t THEN config ELSE judged[u]]
       /\ UNCHANGED config

\* A search of a tenant that is tracked, or that there is room for.
RecordDegrade(t, flags) ==
    /\ t \in Tracked \/ Len(order) < config.max
    /\ Record(t, flags, {})

\* A search of a tenant whose state needs the place of another.
RecordEvicting(t, flags, v) ==
    /\ t \notin Tracked
    /\ Len(order) >= config.max
    /\ v \in Tracked /\ Victim(v)
    /\ Record(t, flags, {v})

\* configureDegradeMetrics: another window size empties every window.
Configure(c) ==
    /\ ValidConfig(c)
    /\ config' = c
    /\ IF c.size = config.size THEN UNCHANGED <<state, recent>>
       ELSE /\ state' = [t \in Tracked |-> EmptyWindow(c.size)]
            /\ recent' = [t \in Tracked |-> <<>>]
    /\ UNCHANGED <<order, judged>>

MInit ==
    /\ config = Default
    /\ order = <<>>
    /\ state = [t \in {} |-> EmptyWindow(Default.size)]
    /\ recent = [t \in {} |-> <<>>]
    /\ judged = [t \in {} |-> Default]

MNext ==
    \/ \E t \in Tenants, flags \in SUBSET Flags :
         \/ RecordDegrade(t, flags)
         \/ \E v \in Tenants : RecordEvicting(t, flags, v)
    \/ \E c \in Configs : Configure(c)

MSpec == MInit /\ [][MNext]_mvars

-----------------------------------------------------------------------------
(* Properties.                                                             *)

WindowType(size) ==
    [buf : [0..(size - 1) -> Slot], cursor : 0..(size - 1), filled : 0..size,
     counts : [Flags -> Nat], escalated : [Flags -> BOOLEAN]]

\* The shape of every variable: every window has the size the config says.
MTypeOK ==
    /\ config \in Configs /\ ValidConfig(config)
    /\ order \in Seq(Tenants)
    /\ Tracked \subseteq Tenants
    /\ state \in [Tracked -> WindowType(config.size)]
    /\ DOMAIN recent = Tracked
    /\ judged \in [Tracked -> Configs]

\* The running counts are those of the buffer, so that no rate the snapshot
\* reports exceeds 1, also after windows were resized ("windowedDegradeRate
\* exceed 1.0", the comment on configureDegradeMetrics).
CountsMatchBuffer ==
    \A t \in Tracked :
        /\ state[t].filled = Cardinality({i \in DOMAIN state[t].buf : state[t].buf[i].used})
        /\ \A f \in Flags :
            /\ state[t].counts[f] =
                 Cardinality({i \in DOMAIN state[t].buf : f \in state[t].buf[i].flags})
            /\ state[t].counts[f] <= state[t].filled

\* The window is that of the tenant's last searches: what the alarms and the
\* snapshot judge is what happened, none of it older than windowSize searches.
WindowIsRecent ==
    \A t \in Tracked : LET s == state[t]
                           size == Cardinality(DOMAIN s.buf)
                       IN /\ Len(recent[t]) = s.filled
                          /\ \A k \in 1..s.filled :
                               s.buf[(s.cursor + size - k) % size].flags = recent[t][k]

\* Every variable has its shape, and every window holds the last searches.
MetricsInv == MTypeOK /\ WindowIsRecent

\* "No config this validator accepts may make escalation unreachable": a tenant
\* whose last windowSize searches all failed with a flag has its alarm on.
TotalFailureAlarms ==
    \A t \in Tracked, f \in Flags :
        /\ Len(recent[t]) = judged[t].size
        /\ \A k \in DOMAIN recent[t] : f \in recent[t][k]
        => state[t].escalated[f]

\* A tenant with an alarm on is dropped only when all have one.
AlarmsOutliveEviction ==
    [][\A t \in Tracked : IsEscalated(t) /\ t \notin Tracked' =>
         \A u \in Tracked : IsEscalated(u)]_mvars

\* "Max tenants tracked at once; oldest non-escalated tenant is evicted past
\* this" (the comment on maxTrackedTenants).
TrackedWithinMax == Len(order) <= config.max
=============================================================================
