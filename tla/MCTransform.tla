---------------------------- MODULE MCTransform ----------------------------
EXTENDS Transform, TLC

Symmetry ==
    Permutations(Captures) \cup Permutations(Hashes) \cup Permutations(Switches)
        \cup Permutations(Replays)

\* A corpus to start from, as captures one after the other leave it: a version of
\* each document, of one content, which the feed's consumer has; no run yet, or one
\* that was over before there was anything to replay.
Place == CHOOSE f \in [Refs -> 1..Cardinality(Refs)] : \A r, q \in Refs : f[r] = f[q] => r = q
First == CHOOSE f \in [Refs -> Captures] : \A r, q \in Refs : f[r] = f[q] => r = q
OldHash == CHOOSE h \in Hashes : TRUE
OldTime == CHOOSE t \in Times : TRUE
Old == {First[r] : r \in Refs}

RefOf(c) == CHOOSE r \in Refs : First[r] = c

StoredInit ==
    /\ pc = [c \in Captures |-> IF c \in Old THEN "captured" ELSE "idle"]
    /\ req = [c \in Captures |->
                IF c \in Old THEN [ref |-> RefOf(c), gen |-> Live, hash |-> OldHash,
                                   time |-> OldTime, fresh |-> TRUE]
                ELSE [ref |-> None, gen |-> Live, hash |-> None, time |-> None, fresh |-> FALSE]]
    /\ head = [c \in Captures |->
                [doc |-> None, base |-> None, num |-> IF c \in Old THEN 1 ELSE 0]]
    /\ seq = [c \in Captures |-> IF c \in Old THEN Place[RefOf(c)] ELSE 0]
    /\ capLock = [r \in Refs |-> None]
    /\ feedLock = None
    /\ rows = [c \in Captures |-> IF c \in Old THEN NewRow(c) ELSE NoRow]
    /\ docs = First
    /\ raw = [p \in Payloads |-> IF p[2] = OldHash /\ p[3] = OldTime THEN "stored" ELSE "absent"]
    /\ nextSeq = Cardinality(Refs) + 1
    /\ cursor = Cardinality(Refs)
    /\ seen = Old
    /\ run \in [Replays -> [status: {"none", "completed"}, todo: {{}}, at: {None},
                            bad: {FALSE}, archive: {None}, prior: {None}]]
    /\ switch = [s \in Switches |-> [at |-> "idle", kind |-> "promote", of |-> None,
                                     archive |-> None, prior |-> None,
                                     todo |-> {}, out |-> {}, into |-> {}]]
    /\ active = None
    /\ search = NoSearch

\* Calls that are alike begin in the order of their ranks, the first one is of the
\* first document, a capture brings a content that is not stored (else it is a noop,
\* if it finds the version), and the search and the consumer, which take no part in
\* the rest, are done with before.
Rank == CHOOSE f \in [Captures \cup Switches -> 1..Cardinality(Captures \cup Switches)] :
            \A x, y \in Captures \cup Switches : f[x] = f[y] => x = y
New == Captures \ Old

InOrder ==
    /\ \A c, d \in New : pc[d] # "idle" /\ Rank[c] < Rank[d] => pc[c] # "idle"
    /\ \A c \in New : pc[c] # "idle" /\ Place[req[c].ref] > 1 => \E d \in New : Rank[d] < Rank[c]
    /\ \A c \in New : pc[c] # "idle" /\ req[c].gen = Live => req[c].hash # OldHash
    /\ \A s, t \in Switches :
         switch[t].at # "idle" /\ Rank[s] < Rank[t] => switch[s].at # "idle"
    /\ search # NoSearch => \A c \in New : pc[c] = "idle"

StoredNext == TNext /\ InOrder' /\ UNCHANGED feedVars

StoredSpec == StoredInit /\ [][StoredNext]_tvars /\ TFairness
=============================================================================
