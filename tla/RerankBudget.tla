---------------------------- MODULE RerankBudget ----------------------------
(***************************************************************************)
(* What a TEI reranker is sent (src/core/rerank-client.ts): whether a      *)
(* configuration is accepted for its model, what a query leaves of the     *)
(* characters for each document, and how a document is cut to that.        *)
(*                                                                         *)
(* A text is the number of blanks it begins with, of the characters from   *)
(* the first to the last that is not blank, and of the blanks it ends      *)
(* with.  A token is taken for CharsPerToken characters, as the code does. *)
(***************************************************************************)
EXTENDS Integers

CharsPerToken == 3
MarginTokens == 12
MinDocChars == 200

KnownLimits == [m \in {"bge-reranker-base", "bge-reranker-large", "bge-reranker-v2-m3"} |->
                  IF m = "bge-reranker-v2-m3" THEN 8192 ELSE 512]

\* tokenLimitForModel: a model that is not known is taken for the smallest.
LimitOf(model) == IF model \in DOMAIN KnownLimits THEN KnownLimits[model] ELSE 512

\* defaultMaxDocCharsForModel.
DefaultMaxDocChars(model) ==
    (IF LimitOf(model) > MarginTokens THEN LimitOf(model) - MarginTokens ELSE 0) * CharsPerToken

\* The characters a pair may have: what the operator, or a replay, has set, or
\* the model's.
MaxDocChars(config) ==
    IF config.set THEN config.maxDocChars ELSE DefaultMaxDocChars(config.model)

\* validateRerankConfig: the tokens, rounded up, are within the model's limit.
Accepted(config) ==
    -((-MaxDocChars(config)) \div CharsPerToken) <= LimitOf(config.model)

\* resolveDocBudget: what the query leaves; too little is not made up for.
DocBudget(config, query) == MaxDocChars(config) - query
TooLong(config, query) == DocBudget(config, query) < MinDocChars

Text == [lead : Nat, body : Nat, trail : Nat]
Length(t) == t.lead + t.body + t.trail

\* truncateForRerank.
Truncated(t, budget) ==
    IF Length(t) <= budget THEN t
    ELSE [lead |-> 0, body |-> IF t.body <= budget THEN t.body ELSE budget, trail |-> 0]

\* model: the one that is configured, or the default one.
Configs == [model : STRING, set : BOOLEAN, maxDocChars : Int]
=============================================================================
