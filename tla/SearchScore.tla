----------------------------- MODULE SearchScore -----------------------------
(***************************************************************************)
(* The data of internal/search/index.go: chunks, queries and the score a   *)
(* chunk gets.  A chunk is seen through the tokens that tokenize/stem make *)
(* of its body, its title and its tags, each as how often every term       *)
(* occurs; the text itself, the stop words and the stemming rules are      *)
(* abstracted.  BM25's real number is the constant operator BodyScore,     *)
(* over exactly the five quantities the code reads for it.                 *)
(***************************************************************************)
EXTENDS Integers, Sequences, FiniteSets, Functions

CONSTANTS
    Chunk,      \* the chunks sources are split into
    Term,       \* stemmed terms
    Body,       \* Body[c][t]: occurrences of t among the body tokens of c
    Title,      \* Title[c][t]: occurrences among the title tokens
    Tag,        \* Tag[c][t]: occurrences among the tags
    BodyLen,    \* BodyLen[c]: number of body tokens of c
    BodyScore(_, _, _, _, _)  \* (n, df, tf, docLen, avgLen) -> score

ASSUME ChunkAssumption ==
    /\ Body \in [Chunk -> [Term -> Nat]]
    /\ Title \in [Chunk -> [Term -> Nat]]
    /\ Tag \in [Chunk -> [Term -> Nat]]
    /\ BodyLen \in [Chunk -> Nat]

(* The chunks a term was found in, by position, with how often.            *)
Occurrences(cs, count, t) ==
    LET in == {d \in 1..Len(cs) : count[cs[d]][t] > 0}
    IN  [d \in in |-> count[cs[d]][t]]

TotalLen(cs) == SumFunction([d \in 1..Len(cs) |-> BodyLen[cs[d]]])

(* NewIndex: the index built from a list of chunks in one go, as the       *)
(* convention index is.  avgLen is kept as the fraction <<total, chunks>>. *)
NewIndex(cs) ==
    [ inverted |-> [t \in Term |-> DOMAIN Occurrences(cs, Body, t)],
      termFreq |-> [t \in Term |-> Occurrences(cs, Body, t)],
      titleInv |-> [t \in Term |-> Occurrences(cs, Title, t)],
      tagInv   |-> [t \in Term |-> Occurrences(cs, Tag, t)],
      docLen   |-> [d \in 1..Len(cs) |-> BodyLen[cs[d]]],
      totalBodyLen |-> TotalLen(cs),
      avgLen   |-> <<TotalLen(cs), Len(cs)>> ]

(* What one query term adds to the score of chunk d of an index with n     *)
(* chunks: BM25 when the term is in the body, 3 for each posting of the    *)
(* title, 5 for each posting of a tag.                                     *)
TermScore(ix, n, t, d) ==
    (IF d \in ix.inverted[t]
     THEN BodyScore(n, Cardinality(ix.inverted[t]), ix.termFreq[t][d],
                    ix.docLen[d], ix.avgLen)
     ELSE 0)
    + (IF d \in DOMAIN ix.titleInv[t] THEN 3 * ix.titleInv[t][d] ELSE 0)
    + (IF d \in DOMAIN ix.tagInv[t] THEN 5 * ix.tagInv[t][d] ELSE 0)

(* The chunks a term scores at all. *)
Scored(ix, t) ==
    ix.inverted[t] \cup DOMAIN ix.titleInv[t] \cup DOMAIN ix.tagInv[t]

DefaultMaxResults == 10

Cap(maxResults) == IF maxResults <= 0 THEN DefaultMaxResults ELSE maxResults

(* The choices of the top n scored chunks; chunks of equal score may come  *)
(* in either order, since the ranking is sorted from a map.                *)
TopChoices(score, n) ==
    {top \in SUBSET DOMAIN score :
        /\ Cardinality(top) = IF Cardinality(DOMAIN score) > n
                              THEN n ELSE Cardinality(DOMAIN score)
        /\ \A d \in top, e \in DOMAIN score \ top : score[d] >= score[e]}
=============================================================================
