------------------------------- MODULE Chunker -------------------------------
(***************************************************************************)
(* How a capture cuts the texts of a document into chunks:                 *)
(* chunkTokenRecursive (src/core/chunk/token-recursive.ts) for each text,  *)
(* and rechunk (src/core/adapt-and-plan.ts) for the document.              *)
(*                                                                         *)
(* A text is a sequence of characters, of which only the classes that the  *)
(* separators are made of are told apart.  A place in it is the number of  *)
(* characters before it; <<a, b>> is the text between two places.  Leaves  *)
(* abut, so the leaves of a text are the places where it is cut, and a run *)
(* of them is given by the places where it begins and ends.                *)
(***************************************************************************)
EXTENDS Naturals, Sequences, FiniteSets

CONSTANTS Documents,     \* the documents: each the sequence of its texts
          MaxChars, MinChars, OverlapChars  \* the caps, in characters

Classes == {"newline", "dot", "space", "letter"}

ASSUME ChunkerAssumption ==
    /\ Documents \subseteq Seq(Seq(Classes))
    /\ MaxChars \in Nat \ {0}
    /\ MinChars \in 0..MaxChars
    /\ OverlapChars \in Nat

VARIABLES doc,      \* the document
          at,       \* the text of it that is chunked
          phase,
          cuts,     \* where its leaves begin and end
          lo, pos,  \* the leaves in hand, and the place up to which leaves are taken
          groups,   \* the groups of leaves that are closed
          plan      \* the chunks of the document so far

cvars == <<doc, at, phase, cuts, lo, pos, groups, plan>>

CInit ==
    /\ doc \in Documents
    /\ at = 0
    /\ phase = "next"
    /\ cuts = {}
    /\ lo = 0 /\ pos = 0
    /\ groups = <<>>
    /\ plan = <<>>

Text == doc[at]

-----------------------------------------------------------------------------
(* splitRecursive.                                                         *)

\* Two neighbouring places.
Adjacent(C, a, b) == a < b /\ \A c \in C : c <= a \/ c >= b

\* "\n\n" ends at e, in the piece that begins at a: the newlines before it pair up
\* from the first of their run.
PairEnds(t, a, e) ==
    \E k \in 1..((e - a) \div 2) :
        /\ \A i \in (e - 2 * k + 1)..e : t[i] = "newline"
        /\ e - 2 * k = a \/ t[e - 2 * k] # "newline"

\* The separators, in the order they are tried.
SeparatorEnds(t, a, e, r) ==
    CASE r = 1 -> PairEnds(t, a, e)
      [] r = 2 -> t[e] = "newline"
      [] r = 3 -> e - a > 1 /\ t[e - 1] = "dot" /\ t[e] = "space"
      [] r = 4 -> t[e] = "space"

\* splitKeepingSeparator, in every piece that is still too long.
SplitAt(t, C, r) ==
    C \cup {e \in 1..Len(t) : \E a, b \in C : /\ Adjacent(C, a, b)
                                              /\ b - a > MaxChars
                                              /\ a < e /\ e <= b
                                              /\ SeparatorEnds(t, a, e, r)}

\* What no separator has made short enough is cut every MaxChars.
HardCut(t, C) ==
    C \cup {e \in 1..Len(t) :
              \E a, b \in C : Adjacent(C, a, b) /\ a < e /\ e < b /\ (e - a) % MaxChars = 0}

\* Mutant: the hard cut comes one separator early.
LadderShort(t) == SplitAt(t, SplitAt(t, SplitAt(t, {0, Len(t)}, 1), 2), 3)

Pieces(t) == SplitAt(t, SplitAt(t, SplitAt(t, SplitAt(t, {0, Len(t)}, 1), 2), 3), 4)

Split ==
    /\ phase = "next"
    /\ at < Len(doc)
    /\ at' = at + 1
    /\ IF doc[at + 1] = <<>>
       THEN UNCHANGED <<phase, cuts, lo, pos, groups>>
       ELSE /\ phase' = "merge"
            /\ cuts' = HardCut(doc[at + 1], Pieces(doc[at + 1]))
            /\ lo' = 0 /\ pos' = 0
            /\ groups' = <<>>
    /\ UNCHANGED <<doc, plan>>

-----------------------------------------------------------------------------
(* mergeLeaves.                                                            *)

\* The next leaf.
Leaf(e) == pos \in cuts /\ e \in cuts /\ Adjacent(cuts, pos, e)

\* Mutant: the leaf itself is not counted.
FitsSoFar(e) == pos - lo <= MaxChars \/ lo = pos

\* It fits, or it is the first in hand.
Fits(e) == e - lo <= MaxChars \/ lo = pos

Join(e) ==
    /\ phase = "merge"
    /\ Leaf(e)
    /\ Fits(e)
    /\ pos' = e
    /\ UNCHANGED <<doc, at, phase, cuts, lo, groups, plan>>

\* Mutant: leaves are dropped while there are as many characters as the overlap.
TailBeyond(c) == pos - c <= OverlapChars + 1

\* The leaves from c on are few enough to be repeated.
InOverlap(c) == pos - c <= OverlapChars

\* The group is closed, and its tail begins the next.
Close(e) ==
    /\ phase = "merge"
    /\ Leaf(e)
    /\ ~Fits(e)
    /\ groups' = Append(groups, [from |-> lo, to |-> pos])
    /\ lo' \in {c \in cuts : /\ lo <= c /\ c <= pos /\ InOverlap(c)
                             /\ \A b \in cuts : lo <= b /\ b < c => ~InOverlap(b)}
    /\ pos' = e
    /\ UNCHANGED <<doc, at, phase, cuts, plan>>

-----------------------------------------------------------------------------
(* mergeRemnant, and the chunks of the text.                               *)

Size(g) == g.to - g.from

\* Mutant: the remnant takes the place of the group before it.
RemnantReplaces(gs) ==
    LET n == Len(gs)
    IN IF n < 2 \/ Size(gs[n]) >= MinChars THEN [i \in 1..n |-> <<gs[i]>>]
       ELSE [i \in 1..(n - 1) |-> IF i = n - 1 THEN <<gs[n]>> ELSE <<gs[i]>>]

\* A last group that is too small is appended to the one before it, whole: what
\* it repeats of that one stands in the chunk twice.
Merged(gs) ==
    LET n == Len(gs)
    IN IF n < 2 \/ Size(gs[n]) >= MinChars THEN [i \in 1..n |-> <<gs[i]>>]
       ELSE [i \in 1..(n - 1) |-> IF i = n - 1 THEN <<gs[n - 1], gs[n]>> ELSE <<gs[i]>>]

\* The chunks: of which text, and of which runs of its leaves.
Chunks(gs) == [i \in DOMAIN Merged(gs) |-> [of |-> at, parts |-> Merged(gs)[i]]]

\* No leaf is left: the last group is closed and the chunks are planned, in order.
Finish ==
    /\ phase = "merge"
    /\ pos = Len(Text)
    /\ plan' = plan \o Chunks(Append(groups, [from |-> lo, to |-> pos]))
    /\ phase' = "next"
    /\ UNCHANGED <<doc, at, cuts, lo, pos, groups>>

\* Every text is chunked.
Done ==
    /\ phase = "next"
    /\ at = Len(doc)
    /\ UNCHANGED cvars

CNext == Split \/ Finish \/ Done \/ \E e \in cuts : Join(e) \/ Close(e)

CSpec == CInit /\ [][CNext]_cvars

-----------------------------------------------------------------------------
(* Properties.                                                             *)

Runs == [from : Nat, to : Nat]

\* The shape of every variable.
CTypeOK ==
    /\ doc \in Seq(Seq(Classes))
    /\ at \in 0..Len(doc)
    /\ phase \in {"next", "merge"}
    /\ cuts \subseteq Nat
    /\ lo \in Nat /\ pos \in Nat
    /\ groups \in Seq(Runs)
    /\ plan \in Seq([of : Nat, parts : Seq(Runs)])

\* The span of a chunk, and the length of its text.
From(c) == c.parts[1].from
To(c) == c.parts[Len(c.parts)].to
Length(c) == IF Len(c.parts) = 1 THEN Size(c.parts[1]) ELSE Size(c.parts[1]) + Size(c.parts[2])

\* The texts that are done, and the chunks of one.
Planned == IF phase = "next" THEN 1..at ELSE 1..(at - 1)
Of(i) == {k \in DOMAIN plan : plan[k].of = i}

\* No text is lost between chunks: those of a text begin at its start, end at its
\* end, and none leaves a gap to the one before it, whose end it passes
\* (splitKeepingSeparator: "reconstructs the original string exactly").
NothingDropped ==
    \A i \in Planned : doc[i] # <<>> =>
        /\ \E k \in Of(i) : From(plan[k]) = 0
        /\ \E k \in Of(i) : To(plan[k]) = Len(doc[i])
        /\ \A k \in Of(i) : To(plan[k]) < Len(doc[i]) =>
               /\ k + 1 \in Of(i)
               /\ From(plan[k + 1]) <= To(plan[k]) /\ To(plan[k]) < To(plan[k + 1])

\* Every variable has its shape, and no text is lost.
ChunkerInv == CTypeOK /\ NothingDropped

\* A chunk is never longer than the cap and the overlap it may begin with, and a
\* remnant if it took one in; and no text that is cut ends in a stub.
SizesBounded ==
    \A k \in DOMAIN plan :
        /\ Length(plan[k]) <= MaxChars + OverlapChars
                                + (IF Len(plan[k].parts) = 1 THEN 0 ELSE MinChars - 1)
        /\ Length(plan[k]) < MinChars =>
               Length(plan[k]) = Len(doc[plan[k].of]) \/ To(plan[k]) < Len(doc[plan[k].of])

\* Two chunks in a row share no more than the overlap.
OverlapBounded ==
    \A k \in DOMAIN plan : k + 1 \in Of(plan[k].of) =>
        To(plan[k]) - From(plan[k + 1]) <= OverlapChars

\* The limits there are on a chunk and on what it repeats.
ChunksBounded == SizesBounded /\ OverlapBounded

\* A chunk begins and ends within a word only if the word is longer than the cap:
\* wherever there is a separator to cut at, the cut is there.
WordsKept ==
    \A k \in DOMAIN plan : \A e \in {From(plan[k]), To(plan[k])} :
        LET t == doc[plan[k].of]
        IN \/ e \in {0, Len(t)}
           \/ t[e] \in {"newline", "space"}
           \/ \E a \in 0..(e - 1), b \in (e + 1)..Len(t) :
                  /\ b - a > MaxChars
                  /\ \A i \in (a + 1)..(b - 1) : t[i] \notin {"newline", "space"}

\* "Hard caps every chunking strategy respects" (core/chunk/types.ts:1).
CapsHold == \A k \in DOMAIN plan : Length(plan[k]) <= MaxChars

\* The span of a chunk is for citations: it is where its text is
\* (token-recursive.ts:39, adapt-and-plan.ts:33).
SpanIsText == \A k \in DOMAIN plan : Length(plan[k]) = To(plan[k]) - From(plan[k])

\* The tail of a group seeds the next one (token-recursive.ts:81): no chunk is
\* repeated whole in the next.
NoneSwallowed ==
    \A k \in DOMAIN plan : k + 1 \in Of(plan[k].of) => From(plan[k]) < From(plan[k + 1])
=============================================================================
