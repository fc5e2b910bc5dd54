---------------------------- MODULE IndexContract ----------------------------
(***************************************************************************)
(* What the comments of internal/search/index.go promise of an Index: it   *)
(* is safe for concurrent use, callers can merge in content while searches *)
(* continue.  Merge adds all its chunks at one instant, Search answers at  *)
(* one instant, and ranks the chunks as an index freshly built from the    *)
(* chunks merged so far would.                                             *)
(***************************************************************************)
EXTENDS SearchScore, SequencesExt

CONSTANTS
    Searcher,   \* goroutines that search
    Batch,      \* the chunk lists a Merge may be called with
    Query,      \* the token lists a query may have
    MaxResults  \* the result limits a search may ask for

VARIABLES
    docs,       \* the chunks merged so far
    answer      \* answer[s]: the results of the last Search of s

(* The score of chunk d for the terms of q, from the documents alone. *)
FullScore(cs, q) ==
    LET ix == NewIndex(cs)
        hit == UNION {Scored(ix, q[i]) : i \in 1..Len(q)}
    IN  [d \in hit |->
            SumFunction([i \in 1..Len(q) |-> TermScore(ix, Len(cs), q[i], d)])]

Results(cs, score, top) == {[chunk |-> cs[d], at |-> d, score |-> score[d]] : d \in top}

Init ==
    /\ docs = <<>>
    /\ answer = [s \in Searcher |-> {}]

Add(batch) ==
    /\ docs' = docs \o batch
    /\ UNCHANGED answer

Answer(s, q, k) ==
    /\ LET score == FullScore(docs, q)
       IN  \E top \in TopChoices(score, Cap(k)) :
              answer' = [answer EXCEPT ![s] = Results(docs, score, top)]
    /\ UNCHANGED docs

Next ==
    \/ \E batch \in Batch : Add(batch)
    \/ \E s \in Searcher, q \in Query, k \in MaxResults : Answer(s, q, k)

Spec == Init /\ [][Next]_<<docs, answer>>
=============================================================================
