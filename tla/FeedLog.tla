------------------------------ MODULE FeedLog ------------------------------
(***************************************************************************)
(* What the capture feed promises its consumer (docs/FEED.md, "Pull"): a   *)
(* log that only grows at its end and is read front to back, so that a     *)
(* stored cursor stands for everything before it.                          *)
(***************************************************************************)
EXTENDS Naturals

VARIABLES log,      \* the feed_seq values a consumer can be given
          cursor,   \* the last one it stored
          given     \* those it was given

logVars == <<log, cursor, given>>

Init ==
    /\ log = {}
    /\ cursor = 0
    /\ given = {}

\* An entry enters behind every other one and behind the cursor.
Publish ==
    /\ \E s \in log' :
        /\ s \in Nat
        /\ \A t \in log : t < s
        /\ cursor < s
        /\ log' = log \cup {s}
    /\ UNCHANGED <<cursor, given>>

\* A page: every entry after the cursor, up to its last one.
Consume ==
    \E s \in log :
        /\ cursor < s
        /\ cursor' = s
        /\ given' = given \cup {t \in log : cursor < t /\ t <= s}
        /\ UNCHANGED log

Next == Publish \/ Consume

Spec == Init /\ [][Next]_logVars

\* Everything at or before the cursor was given to the consumer: the promise
\* that lets it store a cursor and nothing else.
CursorSafe == \A t \in log : t <= cursor => t \in given
=============================================================================
