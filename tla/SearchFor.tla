------------------------------ MODULE SearchFor ------------------------------
(***************************************************************************)
(* The template function search_for: searchFor of                          *)
(* internal/tools/templating.go asks two indexes, that of the conventions, *)
(* which BuildIndex of internal/conventions fills once, and the live index *)
(* of the sources, of which it takes first the length and later the        *)
(* results.  In between workers merge into an index, also into one that is *)
(* no longer live, and a refresh makes another one live.                   *)
(* An index is the set of its chunks; which of them a query matches does   *)
(* not change, but which come first does.                                  *)
(***************************************************************************)
EXTENDS Integers, Sequences, FiniteSets

CONSTANTS
    Chunk,        \* of the sources
    ConvChunk,    \* of the conventions: BuildIndex makes one of each
    Matching,     \* the chunks and conventions that the query matches
    Wanted,       \* what a template may ask for as the number of results
    MaxIndexes    \* bound: indexes that become live

ASSUME SearchForAssumption ==
    /\ Matching \subseteq Chunk \cup ConvChunk /\ Chunk \cap ConvChunk = {}
    /\ IsFiniteSet(Chunk) /\ IsFiniteSet(ConvChunk)
    /\ Wanted \subseteq Int /\ MaxIndexes \in Nat \ {0}

VARIABLES
    idx,      \* idx[g]: the chunks of the g-th index; the last one is live
    conv,     \* the conventions of the configuration
    asked,    \* the number of results asked for
    step,     \* "call", "search", "load", "return" or "done"
    loaded,   \* the index that LiveIndex.Search has loaded
    since,    \* the index that was live when the call began
    held,     \* what the indexes live since then have held since then
    result    \* the conventions and chunks listed, the tip, the wording

searchForVars == <<idx, conv, asked, step, loaded, since, held, result>>

Live == Len(idx)
Blank == [convs |-> {}, docs |-> {}, tip |-> FALSE, words |-> "results"]

SearchForInit ==
    /\ idx \in {<<S>> : S \in SUBSET Chunk}
    /\ conv \in SUBSET ConvChunk /\ asked \in Wanted
    /\ step = "call" /\ loaded = 1 /\ since = 1 /\ held = {} /\ result = Blank

-----------------------------------------------------------------------------
(* The pipeline: what it does is in module SourcePipeline. *)
Noted == held' = held \cup {idx'[g] : g \in since..Len(idx')}

MergeInto ==
    /\ \E g \in DOMAIN idx, S \in SUBSET Chunk : idx' = [idx EXCEPT ![g] = @ \cup S]
    /\ Noted
    /\ UNCHANGED <<conv, asked, step, loaded, since, result>>

SwapIn ==
    /\ Live < MaxIndexes
    /\ \E S \in SUBSET Chunk : idx' = Append(idx, S)
    /\ Noted
    /\ UNCHANGED <<conv, asked, step, loaded, since, result>>

-----------------------------------------------------------------------------
(* Index.Search: of no number of results it makes ten. *)
Cap(n) == IF n <= 0 THEN 10 ELSE n

Found(chunks) ==
    LET match == chunks \cap Matching
        n == IF Cardinality(match) > Cap(asked) THEN Cap(asked) ELSE Cardinality(match)
    IN  {S \in SUBSET match : Cardinality(S) = n}

(* Mutant: one of the indexes is empty. *)
CallEither ==
    /\ step = "call"
    /\ since' = Live /\ held' = {idx[Live]}
    /\ IF conv = {} \/ idx[Live] = {}
       THEN step' = "done" /\ result' = [result EXCEPT !.words = "no index"]
       ELSE /\ \E convs \in Found(conv) : result' = [result EXCEPT !.convs = convs]
            /\ step' = "search"
    /\ UNCHANGED <<idx, conv, asked, loaded>>

(* The lengths, and the search for conventions, which comes first. *)
CallSearchFor ==
    /\ step = "call"
    /\ since' = Live /\ held' = {idx[Live]}
    /\ IF conv = {} /\ idx[Live] = {}
       THEN step' = "done" /\ result' = [result EXCEPT !.words = "no index"]
       ELSE /\ \E convs \in Found(conv) : result' = [result EXCEPT !.convs = convs]
            /\ step' = IF idx[Live] # {} THEN "search" ELSE "return"
    /\ UNCHANGED <<idx, conv, asked, loaded>>

LoadLive ==
    /\ step = "search"
    /\ loaded' = Live /\ step' = "load"
    /\ UNCHANGED <<idx, conv, asked, since, held, result>>

SearchLive ==
    /\ step = "load"
    /\ \E docs \in Found(idx[loaded]) :
        result' = [result EXCEPT !.docs = docs, !.tip = docs # {} /\ Cardinality(docs) >= asked]
    /\ step' = "return"
    /\ UNCHANGED <<idx, conv, asked, loaded, since, held>>

ReturnFound ==
    /\ step = "return"
    /\ result' = IF result.convs = {} /\ result.docs = {}
                 THEN [result EXCEPT !.words = "no results"] ELSE result
    /\ step' = "done"
    /\ UNCHANGED <<idx, conv, asked, loaded, since, held>>

SearchForNext ==
    \/ CallSearchFor \/ LoadLive \/ SearchLive \/ ReturnFound
    \/ step # "done" /\ (MergeInto \/ SwapIn)

SearchForSpec == SearchForInit /\ [][SearchForNext]_searchForVars

-----------------------------------------------------------------------------
(* searchFor: an answer is that of one index which was live while the call *)
(* ran, although it asks twice: the best matches of it and of the          *)
(* conventions, a tip if some chunk that matches is not listed, "no        *)
(* results" only if nothing matched and "no index" only if there were no   *)
(* conventions and it was empty.                                           *)
AnswersFromOneIndex ==
    step = "done" => \E chunks \in held :
        /\ result.convs \in Found(conv) /\ result.docs \in Found(chunks)
        /\ chunks \cap Matching # result.docs => result.tip
        /\ result.words = "results" <=> (chunks \cup conv) \cap Matching # {}
        /\ result.words = "no index" => chunks \cup conv = {}
=============================================================================
