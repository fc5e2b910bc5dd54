---------------------------- MODULE EngineProofs ----------------------------
(***************************************************************************)
(* Theorems about what the engine computes: grep prints the window, for    *)
(* texts of any length; what search_for lists is of one index, for any     *)
(* live, conventions and queries and any number of merges and swaps      *)
(* while a call runs; a document of any length is cut into its sections.   *)
(***************************************************************************)
EXTENDS MarkdownChunks, GrepSpans, SearchFor, DataLemmas, SequenceTheorems

-----------------------------------------------------------------------------
(* grep.  GrepIsWindow is inductive with the facts of SpansInOrder: spans  *)
(* begin no later than that of the next line could and none is empty, and  *)
(* the last does not end behind the reach of the lines looked at.          *)

SpanType == [start : Nat, end : Nat]

GrepTypeOK ==
    /\ size \in Nat /\ before \in Nat /\ after \in Nat
    /\ matches \subseteq 0..(size - 1)
    /\ next \in 0..size
    /\ merged \in Seq(SpanType)

SpansInOrder ==
    \A k \in 1..Len(merged) :
        /\ merged[k].start <= Larger(next - before, 0)
        /\ merged[k].end <= Smaller(next + after, size)

GrepInv == GrepTypeOK /\ SpansInOrder /\ GrepIsWindow

(* Every text has at least one line, and a negative context counts as 0. *)
LEMMA GrepStarts == GrepInit => GrepInv
<1> SUFFICES ASSUME GrepInit PROVE GrepInv
  OBVIOUS
<1> USE GrepAssumption
<1>1. GrepTypeOK
  BY DEF GrepInit, GrepTypeOK, Asked, Larger, SpanType
<1>2. Len(merged) = 0 /\ next = 0
  BY DEF GrepInit
<1>3. QED
  BY <1>1, <1>2 DEF GrepInv, SpansInOrder, GrepIsWindow, GrepTypeOK

(* A line that does not match changes neither the spans nor what is near   *)
(* the matches looked at.                                                  *)
LEMMA PassKeeps == GrepInv /\ PassLine => GrepInv'
<1> SUFFICES ASSUME GrepInv, PassLine PROVE GrepInv'
  OBVIOUS
<1>1. GrepTypeOK'
  BY DEF GrepInv, GrepTypeOK, PassLine
<1>2. SpansInOrder'
  <2> SUFFICES ASSUME NEW k \in 1..Len(merged')
               PROVE /\ merged'[k].start <= Larger(next' - before', 0)
                     /\ merged'[k].end <= Smaller(next' + after', size')
    BY DEF SpansInOrder
  <2> /\ merged' = merged /\ next' = next + 1
      /\ before' = before /\ after' = after /\ size' = size
    BY DEF PassLine
  <2>0. merged[k] \in SpanType
    BY DEF GrepInv, GrepTypeOK
  <2>1. merged[k].start \in Nat /\ merged[k].end \in Nat
    BY <2>0 DEF SpanType
  <2>2. merged[k].start <= Larger(next - before, 0) /\ merged[k].end <= Smaller(next + after, size)
    BY DEF GrepInv, SpansInOrder
  <2>3. next \in Nat /\ before \in Nat /\ after \in Nat /\ size \in Nat
    BY DEF GrepInv, GrepTypeOK
  <2>4. QED
    BY <2>1, <2>2, <2>3 DEF Larger, Smaller
<1>3. \A m \in matches : m < next + 1 <=> m < next
  BY DEF GrepInv, GrepTypeOK, PassLine
<1>4. GrepIsWindow'
  BY <1>3 DEF GrepInv, GrepIsWindow, PassLine, Near, InSpan
<1>5. QED
  BY <1>1, <1>2, <1>4 DEF GrepInv

(* The span of a line holds exactly the lines near it.                     *)
LEMMA SpanIsNear ==
    ASSUME GrepTypeOK, next < size
    PROVE  /\ Span(next) \in SpanType
           /\ Span(next).start = Larger(next - before, 0)
           /\ Span(next).end = Smaller(next + 1 + after, size)
           /\ \A j \in 0..(size - 1) : InSpan(j, Span(next)) <=> Near(j, next)
<1>1. next \in Nat /\ before \in Nat /\ after \in Nat /\ size \in Nat
  BY DEF GrepTypeOK
<1>2. Larger(next - before, 0) \in Nat /\ Smaller(next + after + 1, size) \in Nat
  BY <1>1 DEF Larger, Smaller
<1>3. QED
  BY <1>1, <1>2 DEF Span, SpanType, InSpan, Near, Larger, Smaller

(* A span that does not touch the last one is put behind it.               *)
LEMMA AppendKeeps ==
    ASSUME GrepInv, next < size, next \in matches,
           UNCHANGED <<size, matches, before, after>>, next' = next + 1,
           merged' = Append(merged, Span(next)),
           Len(merged) = 0 \/ Span(next).start > merged[Len(merged)].end
    PROVE  GrepInv'
<1> DEFINE sp == Span(next)
<1>1. GrepTypeOK /\ SpansInOrder /\ GrepIsWindow
  BY DEF GrepInv
<1>2. /\ sp \in SpanType /\ sp.start = Larger(next - before, 0)
      /\ sp.end = Smaller(next + 1 + after, size)
      /\ \A j \in 0..(size - 1) : InSpan(j, sp) <=> Near(j, next)
  BY <1>1, SpanIsNear
<1> HIDE DEF sp
<1>3. next \in Nat /\ before \in Nat /\ after \in Nat /\ size \in Nat /\ Len(merged) \in Nat
  BY <1>1 DEF GrepTypeOK
<1>4. /\ merged' \in Seq(SpanType) /\ Len(merged') = Len(merged) + 1
      /\ \A k \in 1..Len(merged) : merged'[k] = merged[k]
      /\ merged'[Len(merged) + 1] = sp
  BY <1>1, <1>2 DEF GrepTypeOK, sp
<1>5. GrepTypeOK'
  BY <1>1, <1>4 DEF GrepTypeOK
<1>6. SpansInOrder'
  <2> SUFFICES ASSUME NEW k \in 1..Len(merged')
               PROVE /\ merged'[k].start <= Larger(next' - before', 0)
                     /\ merged'[k].end <= Smaller(next' + after', size')
    BY DEF SpansInOrder
  <2>1. CASE k \in 1..Len(merged)
    <3>0. merged[k] \in SpanType
      BY <1>1, <2>1 DEF GrepTypeOK
    <3>1. merged[k].start \in Nat /\ merged[k].end \in Nat
      BY <3>0 DEF SpanType
    <3>2. merged[k].start <= Larger(next - before, 0) /\ merged[k].end <= Smaller(next + after, size)
      BY <1>1, <2>1 DEF SpansInOrder
    <3>3. /\ Larger(next - before, 0) <= Larger(next + 1 - before, 0)
          /\ Smaller(next + after, size) <= Smaller(next + 1 + after, size)
          /\ Larger(next - before, 0) \in Nat /\ Larger(next + 1 - before, 0) \in Nat
          /\ Smaller(next + after, size) \in Nat /\ Smaller(next + 1 + after, size) \in Nat
      BY <1>3 DEF Larger, Smaller
    <3>4. /\ merged[k].start <= Larger(next + 1 - before, 0)
          /\ merged[k].end <= Smaller(next + 1 + after, size)
      BY <3>1, <3>2, <3>3
    <3>5. merged'[k] = merged[k]
      BY <1>4, <2>1
    <3>6. next' - before' = next + 1 - before /\ next' + after' = next + 1 + after /\ size' = size
      BY <1>3
    <3>7. QED
      BY <3>4, <3>5, <3>6
  <2>2. CASE k = Len(merged) + 1
    BY <1>2, <1>3, <1>4, <2>2 DEF Larger, Smaller
  <2>3. QED
    BY <1>3, <1>4, <2>1, <2>2
<1>7. GrepIsWindow'
  <2>1. ASSUME NEW j \in 0..(size - 1)
        PROVE (\E k \in 1..Len(merged') : InSpan(j, merged'[k]))
              <=> (\E k \in 1..Len(merged) : InSpan(j, merged[k])) \/ InSpan(j, sp)
    <3>1. \A k \in 1..Len(merged') : k \in 1..Len(merged) \/ k = Len(merged) + 1
      BY <1>3, <1>4
    <3>2. 1..Len(merged) \subseteq 1..Len(merged') /\ Len(merged) + 1 \in 1..Len(merged')
      BY <1>3, <1>4
    <3>3. QED
      BY <1>4, <3>1, <3>2
  <2>2. ASSUME NEW j \in 0..(size - 1)
        PROVE (\E m \in matches : m < next + 1 /\ Near(j, m))
              <=> (\E m \in matches : m < next /\ Near(j, m)) \/ Near(j, next)
    BY <1>1, <1>3 DEF GrepTypeOK
  <2>3. ASSUME NEW k \in 1..(Len(merged') - 1) PROVE merged'[k].end < merged'[k + 1].start
    <3>1. CASE k \in 1..(Len(merged) - 1)
      BY <1>1, <1>3, <1>4, <3>1 DEF GrepIsWindow
    <3>2. CASE k = Len(merged)
      <4>0. merged[k] \in SpanType /\ Len(merged) # 0
        BY <1>1, <1>3, <1>4, <3>2 DEF GrepTypeOK
      <4>1. merged[k].end \in Nat /\ sp.start \in Nat
        BY <1>2, <4>0 DEF SpanType
      <4>2. QED
        BY <1>3, <1>4, <3>2, <4>0, <4>1 DEF sp
    <3>3. QED
      BY <1>3, <1>4, <3>1, <3>2
  <2>4. QED
    BY <1>1, <1>2, <2>1, <2>2, <2>3 DEF GrepIsWindow, Near
<1>8. QED
  BY <1>5, <1>6, <1>7 DEF GrepInv

LEMMA LongerIsSeq ==
    ASSUME NEW spans \in Seq(SpanType), NEW i \in 1..Len(spans), NEW sp \in SpanType
    PROVE  /\ [spans EXCEPT ![i] = sp] \in Seq(SpanType)
           /\ Len([spans EXCEPT ![i] = sp]) = Len(spans)
<1> HIDE DEF SpanType
<1>1. QED
  BY ExceptSeq

(* A span that touches the last one lengthens it: it begins no earlier and *)
(* does not end before it, so together they hold the lines of both.        *)
LEMMA JoinKeeps ==
    ASSUME GrepInv, next < size, next \in matches,
           UNCHANGED <<size, matches, before, after>>, next' = next + 1,
           Len(merged) # 0, ~(Span(next).start > merged[Len(merged)].end),
           merged' = [merged EXCEPT ![Len(merged)].end = Larger(@, Span(next).end)]
    PROVE  GrepInv'
<1> DEFINE sp == Span(next)
           last == Len(merged)
<1>1. GrepTypeOK /\ SpansInOrder /\ GrepIsWindow
  BY DEF GrepInv
<1>2. /\ sp \in SpanType /\ sp.start = Larger(next - before, 0)
      /\ sp.end = Smaller(next + 1 + after, size)
      /\ \A j \in 0..(size - 1) : InSpan(j, sp) <=> Near(j, next)
  BY <1>1, SpanIsNear
<1>3. /\ next \in Nat /\ before \in Nat /\ after \in Nat /\ size \in Nat
      /\ last \in 1..Len(merged) /\ Len(merged) \in Nat
  BY <1>1 DEF GrepTypeOK
<1>4. /\ merged[last] \in SpanType
      /\ merged[last].start \in Nat /\ merged[last].end \in Nat
      /\ sp.start \in Nat /\ sp.end \in Nat
      /\ merged[last].start <= sp.start /\ sp.start <= merged[last].end
      /\ merged[last].end <= sp.end
  <2>1. merged[last] \in SpanType
    BY <1>1, <1>3 DEF GrepTypeOK
  <2>2. merged[last].start \in Nat /\ merged[last].end \in Nat /\ sp.start \in Nat /\ sp.end \in Nat
    BY <1>2, <2>1 DEF SpanType
  <2>3. /\ merged[last].start <= Larger(next - before, 0)
        /\ merged[last].end <= Smaller(next + after, size)
    BY <1>1, <1>3 DEF SpansInOrder
  <2>4. merged[last].end <= sp.end
    BY <1>2, <1>3, <2>2, <2>3 DEF Smaller
  <2>5. QED
    BY <1>2, <2>1, <2>2, <2>3, <2>4
<1> HIDE DEF sp
<1>5. Larger(merged[last].end, sp.end) = sp.end
  BY <1>4 DEF Larger
<1>6. merged' = [merged EXCEPT ![last] = [merged[last] EXCEPT !.end = sp.end]]
  BY <1>1, <1>3, <1>5 DEF GrepTypeOK, sp
<1>7. /\ merged' \in Seq(SpanType) /\ Len(merged') = Len(merged)
      /\ \A k \in 1..Len(merged) : k # last => merged'[k] = merged[k]
      /\ merged'[last].start = merged[last].start /\ merged'[last].end = sp.end
  <2>1. [merged[last] EXCEPT !.end = sp.end] \in SpanType
    BY <1>4 DEF SpanType
  <2>2. merged' = [merged EXCEPT ![last] = [merged[last] EXCEPT !.end = sp.end]] /\ merged \in Seq(SpanType)
    BY <1>1, <1>6 DEF GrepTypeOK
  <2>3. merged' \in Seq(SpanType) /\ Len(merged') = Len(merged)
    BY <1>3, <2>1, <2>2, LongerIsSeq
  <2>4. /\ \A k \in 1..Len(merged) : k # last => merged'[k] = merged[k]
        /\ merged'[last] = [merged[last] EXCEPT !.end = sp.end]
    BY <1>3, <2>2
  <2>5. QED
    BY <1>4, <2>3, <2>4 DEF SpanType
<1> HIDE DEF last
<1>8. GrepTypeOK'
  BY <1>1, <1>7 DEF GrepTypeOK
<1>9. SpansInOrder'
  <2> SUFFICES ASSUME NEW k \in 1..Len(merged')
               PROVE /\ merged'[k].start <= Larger(next' - before', 0)
                     /\ merged'[k].end <= Smaller(next' + after', size')
    BY DEF SpansInOrder
  <2>0. k \in 1..Len(merged) /\ merged[k] \in SpanType
    BY <1>1, <1>7 DEF GrepTypeOK
  <2>1. merged[k].start \in Nat /\ merged[k].end \in Nat
    BY <2>0 DEF SpanType
  <2>2. merged[k].start <= Larger(next - before, 0) /\ merged[k].end <= Smaller(next + after, size)
    BY <1>1, <2>0 DEF SpansInOrder
  <2>3. merged'[k].start = merged[k].start /\ (merged'[k].end = merged[k].end \/ merged'[k].end = sp.end)
    BY <1>7, <2>0
  <2>4. next' - before' = next + 1 - before /\ next' + after' = next + 1 + after /\ size' = size
    BY <1>3
  <2>5. /\ Larger(next - before, 0) <= Larger(next + 1 - before, 0)
        /\ Smaller(next + after, size) <= Smaller(next + 1 + after, size)
        /\ Larger(next - before, 0) \in Nat /\ Larger(next + 1 - before, 0) \in Nat
        /\ Smaller(next + after, size) \in Nat /\ Smaller(next + 1 + after, size) \in Nat
    BY <1>3 DEF Larger, Smaller
  <2>6. merged'[k].start <= Larger(next + 1 - before, 0)
    BY <2>1, <2>2, <2>3, <2>5
  <2>7. merged'[k].end <= Smaller(next + 1 + after, size)
    BY <1>2, <2>1, <2>2, <2>3, <2>5
  <2>8. QED
    BY <2>4, <2>6, <2>7, Zenon
<1>10. GrepIsWindow'
  <2>1. ASSUME NEW j \in 0..(size - 1)
        PROVE InSpan(j, merged'[last]) <=> InSpan(j, merged[last]) \/ InSpan(j, sp)
    <3>1. merged'[last].start = merged[last].start /\ merged'[last].end = sp.end
      BY <1>7
    <3>2. /\ merged[last].start \in Nat /\ merged[last].end \in Nat
          /\ sp.start \in Nat /\ sp.end \in Nat /\ j \in Nat
      BY <1>1, <1>2, <1>3, <1>4 DEF GrepTypeOK, SpanType
    <3>3. QED
      BY <1>3, <1>4, <3>1, <3>2 DEF InSpan
  <2>2. ASSUME NEW j \in 0..(size - 1)
        PROVE (\E k \in 1..Len(merged') : InSpan(j, merged'[k]))
              <=> (\E k \in 1..Len(merged) : InSpan(j, merged[k])) \/ InSpan(j, sp)
    <3>1. \A k \in 1..Len(merged) : k # last => merged'[k] = merged[k]
      BY <1>7
    <3>2. last \in 1..Len(merged) /\ Len(merged') = Len(merged)
      BY <1>3, <1>7
    <3>3. InSpan(j, merged'[last]) <=> InSpan(j, merged[last]) \/ InSpan(j, sp)
      BY <2>1
    <3>4. QED
      BY <3>1, <3>2, <3>3, Zenon
  <2>3. ASSUME NEW j \in 0..(size - 1)
        PROVE (\E m \in matches : m < next + 1 /\ Near(j, m))
              <=> (\E m \in matches : m < next /\ Near(j, m)) \/ Near(j, next)
    BY <1>1, <1>3 DEF GrepTypeOK
  <2>4. ASSUME NEW k \in 1..(Len(merged) - 1) PROVE merged'[k].end < merged'[k + 1].start
    <3>1. k # last /\ k \in 1..Len(merged) /\ k + 1 \in 1..Len(merged)
      BY <1>3 DEF last
    <3>2. merged'[k] = merged[k] /\ merged'[k + 1].start = merged[k + 1].start
      BY <1>7, <3>1
    <3>3. QED
      BY <1>1, <3>2 DEF GrepIsWindow
  <2>5. QED
    BY <1>1, <1>2, <1>7, <2>2, <2>3, <2>4 DEF GrepIsWindow, Near
<1>11. QED
  BY <1>8, <1>9, <1>10 DEF GrepInv

LEMMA MergeKeeps == GrepInv /\ MergeSpan => GrepInv'
<1>1. CASE Len(merged) = 0
  BY <1>1, AppendKeeps DEF MergeSpan
<1>2. CASE Len(merged) # 0 /\ Span(next).start > merged[Len(merged)].end
  BY <1>2, AppendKeeps DEF MergeSpan
<1>3. CASE Len(merged) # 0 /\ ~(Span(next).start > merged[Len(merged)].end)
  BY <1>3, JoinKeeps DEF MergeSpan
<1>4. QED
  BY <1>1, <1>2, <1>3

(* grepFunc, for texts of any length and any number of lines of context:   *)
(* what it prints is what is near a match, each line once and in order.    *)
THEOREM GrepPrintsWindow == GrepSpec => []GrepIsWindow
<1>1. GrepInit => GrepInv
  BY GrepStarts
<1>2. GrepInv /\ [GrepNext]_grepVars => GrepInv'
  <2> SUFFICES ASSUME GrepInv, [GrepNext]_grepVars PROVE GrepInv'
    OBVIOUS
  <2>1. CASE PassLine
    BY <2>1, PassKeeps
  <2>2. CASE MergeSpan
    BY <2>2, MergeKeeps
  <2>3. CASE UNCHANGED grepVars
    BY <2>3 DEF grepVars, GrepInv, GrepTypeOK, SpansInOrder, GrepIsWindow, Near
  <2>4. QED
    BY <2>1, <2>2, <2>3 DEF GrepNext
<1>3. GrepInv => GrepIsWindow
  BY DEF GrepInv
<1>4. QED
  BY <1>1, <1>2, <1>3, PTL DEF GrepSpec

-----------------------------------------------------------------------------
(* search_for. *)

IndexesTypeOK ==
    /\ idx \in Seq(SUBSET Chunk) /\ conv \in SUBSET ConvChunk /\ asked \in Wanted
    /\ step \in {"call", "search", "load", "return", "done"}
    /\ since \in 1..Len(idx)
    /\ result \in [convs : SUBSET ConvChunk, docs : SUBSET Chunk, tip : BOOLEAN,
                   words : {"results", "no results", "no index"}]

(* Indexes are noted: those live since the call began as they are now, and *)
(* the one that is being searched is one of them.                          *)
HeldIsLive ==
    /\ held \subseteq SUBSET Chunk
    /\ step # "call" =>
        /\ \A g \in since..Len(idx) : idx[g] \in held
        /\ step = "load" => loaded \in since..Len(idx)

Listed(live) ==
    /\ result.docs \in Found(live)
    /\ live \cap Matching # result.docs => result.tip

(* What is listed so far. *)
SoFar ==
    /\ step \in {"call", "search", "load", "return"} => result.words = "results"
    /\ step \in {"call", "search", "load"} => result.docs = {}
    /\ step = "call" => result.convs = {}
    /\ step \in {"search", "load", "return"} => result.convs \in Found(conv)
    /\ step = "return" => \E live \in held : Listed(live)

SearchInv == IndexesTypeOK /\ HeldIsLive /\ SoFar /\ AnswersFromOneIndex

(* What is found is some of what matches, nothing of it only if nothing    *)
(* matches; of an empty index it is nothing.                               *)
LEMMA FoundProperties ==
    ASSUME NEW S, IsFiniteSet(S), asked \in Int
    PROVE  /\ \A T \in Found(S) : T \subseteq S \cap Matching
           /\ {} \in Found(S) <=> S \cap Matching = {}
           /\ \A T \in Found(S) : S \cap Matching # T => T # {} /\ Cardinality(T) >= asked
<1> DEFINE match == S \cap Matching
           n == IF Cardinality(match) > Cap(asked) THEN Cap(asked) ELSE Cardinality(match)
<1>1. IsFiniteSet(match) /\ Cardinality(match) \in Nat
    BY FS_Subset, FS_CardinalityType
<1>2. Cap(asked) \in Nat \ {0} /\ Cap(asked) >= asked
    BY DEF Cap
<1>3. Found(S) = {T \in SUBSET match : Cardinality(T) = n}
    BY DEF Found
<1>4. n = 0 <=> match = {}
    <2> HIDE DEF match
    <2> QED BY <1>1, <1>2, FS_EmptySet
<1>5. Cardinality({}) = 0
    BY FS_EmptySet
<1>6. ASSUME NEW T \in Found(S), match # T PROVE T # {} /\ Cardinality(T) >= asked
    <2>1. T \in SUBSET match /\ Cardinality(T) = n
        BY <1>3
    <2>2. Cardinality(match) # Cardinality(T)
        <3> HIDE DEF match
        <3> QED BY <1>1, <1>6, <2>1, FS_Subset
    <2>3. Cardinality(match) > Cap(asked) /\ Cardinality(T) = Cap(asked)
        BY <2>1, <2>2
    <2> QED BY <1>2, <1>5, <2>3
<1> HIDE DEF match, n
<1> QED BY <1>3, <1>4, <1>5, <1>6 DEF match

LEMMA SearchStarts == SearchForInit => SearchInv
<1> SUFFICES ASSUME SearchForInit PROVE SearchInv
    OBVIOUS
<1>1. PICK S \in SUBSET Chunk : idx = <<S>>
    BY DEF SearchForInit
<1>2. idx \in Seq(SUBSET Chunk) /\ Len(idx) = 1
    BY <1>1
<1> QED BY <1>2 DEF SearchForInit, SearchInv, IndexesTypeOK, HeldIsLive, SoFar,
        AnswersFromOneIndex, Blank

(* The pipeline can add to an index and to the indexes; what the call has  *)
(* noted stays noted.                                                      *)
LEMMA GrowthKeeps ==
    ASSUME SearchInv, step # "done", idx' \in Seq(SUBSET Chunk), Len(idx') >= Len(idx), Noted,
           UNCHANGED <<conv, asked, step, loaded, since, result>>
    PROVE  SearchInv'
<1>1. /\ idx \in Seq(SUBSET Chunk) /\ since \in 1..Len(idx) /\ held \subseteq SUBSET Chunk
      /\ conv \in SUBSET ConvChunk /\ asked \in Wanted
    BY DEF SearchInv, IndexesTypeOK, HeldIsLive
<1>2. Len(idx) \in Nat /\ Len(idx') \in Nat
    BY <1>1, LenProperties
<1>3. IndexesTypeOK' /\ HeldIsLive'
    <2>1. since' \in 1..Len(idx')
        BY <1>1, <1>2
    <2>2. IndexesTypeOK'
        BY <2>1 DEF SearchInv, IndexesTypeOK
    <2>3. ASSUME NEW g \in since..Len(idx') PROVE idx'[g] \in SUBSET Chunk
        <3>1. g \in 1..Len(idx')
            BY <1>1, <1>2
        <3> QED BY <3>1, ElementOfSeq
    <2>4. held' = held \cup {idx'[g] : g \in since..Len(idx')}
        BY DEF Noted
    <2>5. held' \subseteq SUBSET Chunk /\ \A g \in since'..Len(idx') : idx'[g] \in held'
        BY <1>1, <2>3, <2>4
    <2>6. step' = "load" => loaded' \in since'..Len(idx')
        BY <1>1, <1>2 DEF SearchInv, HeldIsLive
    <2> QED BY <2>2, <2>5, <2>6 DEF HeldIsLive
<1>4. held \subseteq held'
    BY DEF Noted
<1>5. ASSUME NEW live PROVE Listed(live) <=> Listed(live)'
    BY DEF Listed, Found, Cap
<1>6. SoFar'
    BY <1>4, <1>5 DEF SearchInv, SoFar, Found, Cap
<1>7. AnswersFromOneIndex'
    BY DEF AnswersFromOneIndex
<1> QED BY <1>3, <1>6, <1>7 DEF SearchInv

LEMMA SearchSteps == SearchInv /\ [SearchForNext]_searchForVars => SearchInv'
<1> SUFFICES ASSUME SearchInv, [SearchForNext]_searchForVars PROVE SearchInv'
    OBVIOUS
<1>1. /\ idx \in Seq(SUBSET Chunk) /\ Len(idx) \in Nat /\ since \in 1..Len(idx)
      /\ \A g \in 1..Len(idx) : idx[g] \in SUBSET Chunk
      /\ asked \in Int
    BY SearchForAssumption, LenProperties, ElementOfSeq DEF SearchInv, IndexesTypeOK
<1>2. IsFiniteSet(conv) /\ \A S \in SUBSET Chunk : IsFiniteSet(S)
    BY SearchForAssumption, FS_Subset DEF SearchInv, IndexesTypeOK
<1>3. Live \in 1..Len(idx) /\ idx[Live] \in SUBSET Chunk
    BY <1>1 DEF Live
<1>4. CASE UNCHANGED searchForVars
    BY <1>4 DEF searchForVars, SearchInv, IndexesTypeOK, HeldIsLive, SoFar, Listed, Found, Cap,
        AnswersFromOneIndex
<1>5. CASE step # "done" /\ MergeInto
    <2>1. PICK g \in DOMAIN idx, S \in SUBSET Chunk : idx' = [idx EXCEPT ![g] = @ \cup S]
        BY <1>5 DEF MergeInto
    <2>2. idx' \in Seq(SUBSET Chunk) /\ Len(idx') = Len(idx)
        BY <1>1, <2>1, ExceptSeq
    <2> QED BY <1>1, <1>5, <2>2, GrowthKeeps DEF MergeInto
<1>6. CASE step # "done" /\ SwapIn
    <2>1. PICK S \in SUBSET Chunk : idx' = Append(idx, S)
        BY <1>6 DEF SwapIn
    <2>2. idx' \in Seq(SUBSET Chunk) /\ Len(idx') = Len(idx) + 1
        BY <1>1, <2>1, AppendProperties
    <2> QED BY <1>1, <1>6, <2>2, GrowthKeeps DEF SwapIn
<1>7. CASE CallSearchFor
    <2>1. /\ step = "call" /\ since' = Live /\ held' = {idx[Live]}
          /\ UNCHANGED <<idx, conv, asked, loaded>>
          /\ result.docs = {} /\ result.words = "results"
        BY <1>7 DEF CallSearchFor, SearchInv, SoFar
    <2>2. CASE conv = {} /\ idx[Live] = {}
        <3>1. step' = "done" /\ result' = [result EXCEPT !.words = "no index"]
            BY <1>7, <2>2 DEF CallSearchFor
        <3>2. IndexesTypeOK' /\ HeldIsLive' /\ SoFar'
            <4>1. IndexesTypeOK'
                BY <1>3, <2>1, <3>1 DEF SearchInv, IndexesTypeOK
            <4>2. held' \in SUBSET SUBSET Chunk
                BY <1>3, <2>1
            <4>3. \A g \in since'..Len(idx') : idx'[g] \in held'
                BY <1>1, <2>1 DEF Live
            <4> QED BY <3>1, <4>1, <4>2, <4>3 DEF HeldIsLive, SoFar
        <3>3. AnswersFromOneIndex'
            <4>1. {} \in Found({})
                BY <1>1, FoundProperties, FS_EmptySet
            <4>2. result.convs = {}
                BY <2>1 DEF SearchInv, SoFar
            <4>3. /\ result'.convs = {} /\ result'.docs = {} /\ result'.words = "no index"
                BY <2>1, <3>1, <4>2 DEF SearchInv, IndexesTypeOK
            <4>4. {} \in held' /\ conv' = {} /\ ({} \in Found({}))'
                BY <2>1, <2>2, <4>1 DEF Found, Cap
            <4>5. ({} \cup conv') \cap Matching = {} /\ {} \cap Matching = {}
                BY <4>4
            <4> QED BY <4>3, <4>4, <4>5 DEF AnswersFromOneIndex
        <3> QED BY <3>2, <3>3 DEF SearchInv
    <2>3. CASE ~(conv = {} /\ idx[Live] = {})
        <3>1. PICK convs \in Found(conv) : result' = [result EXCEPT !.convs = convs]
            BY <1>7, <2>3 DEF CallSearchFor
        <3>2. step' = IF idx[Live] # {} THEN "search" ELSE "return"
            BY <1>7, <2>3 DEF CallSearchFor
        <3>3. convs \subseteq conv /\ convs \subseteq ConvChunk
            BY <1>1, <1>2, FoundProperties DEF SearchInv, IndexesTypeOK
        <3>4. IndexesTypeOK'
            BY <1>3, <2>1, <3>1, <3>2, <3>3 DEF SearchInv, IndexesTypeOK
        <3>5. HeldIsLive'
            BY <1>1, <2>1, <3>2 DEF HeldIsLive, Live
        <3>6. SoFar'
            <4>1. result'.convs \in Found(conv)' /\ result'.words = "results" /\ result'.docs = {}
                BY <2>1, <3>1 DEF SearchInv, IndexesTypeOK, Found, Cap
            <4>2. ASSUME idx[Live] = {} PROVE \E live \in held' : Listed(live)'
                <5>1. {} \in Found({})'
                    BY <1>1, <2>1, FoundProperties, FS_EmptySet DEF Found, Cap
                <5> QED BY <2>1, <4>1, <4>2, <5>1 DEF Listed
            <4> QED BY <3>2, <4>1, <4>2 DEF SoFar
        <3>7. AnswersFromOneIndex'
            BY <3>2 DEF AnswersFromOneIndex
        <3> QED BY <3>4, <3>5, <3>6, <3>7 DEF SearchInv
    <2> QED BY <2>2, <2>3
<1>8. CASE LoadLive
    <2>1. /\ step = "search" /\ step' = "load" /\ loaded' = Live
          /\ UNCHANGED <<idx, conv, asked, since, held, result>>
        BY <1>8 DEF LoadLive
    <2>2. IndexesTypeOK' /\ AnswersFromOneIndex'
        BY <2>1 DEF SearchInv, IndexesTypeOK, AnswersFromOneIndex
    <2>3. HeldIsLive'
        BY <1>1, <2>1 DEF SearchInv, HeldIsLive, Live
    <2>4. SoFar'
        BY <2>1 DEF SearchInv, SoFar, Found, Cap
    <2> QED BY <2>2, <2>3, <2>4 DEF SearchInv
<1>9. CASE SearchLive
    <2>1. /\ step = "load" /\ step' = "return"
          /\ UNCHANGED <<idx, conv, asked, loaded, since, held>>
        BY <1>9 DEF SearchLive
    <2>2. PICK docs \in Found(idx[loaded]) :
            result' = [result EXCEPT !.docs = docs, !.tip = docs # {} /\ Cardinality(docs) >= asked]
        BY <1>9 DEF SearchLive
    <2>3. loaded \in 1..Len(idx) /\ idx[loaded] \in held /\ idx[loaded] \in SUBSET Chunk
        BY <1>1, <2>1 DEF SearchInv, HeldIsLive
    <2>4. docs \subseteq Chunk
        BY <1>1, <1>2, <2>3, FoundProperties
    <2>5. IndexesTypeOK'
        BY <2>1, <2>2, <2>4 DEF SearchInv, IndexesTypeOK
    <2>6. HeldIsLive'
        BY <2>1 DEF SearchInv, HeldIsLive
    <2>7. Listed(idx[loaded])'
        <3>1. idx[loaded] \cap Matching # docs => docs # {} /\ Cardinality(docs) >= asked
            BY <1>1, <1>2, <2>3, FoundProperties
        <3>2. result'.docs = docs /\ result'.tip = (docs # {} /\ Cardinality(docs) >= asked)
            BY <2>2 DEF SearchInv, IndexesTypeOK
        <3> QED BY <2>1, <3>1, <3>2 DEF Listed, Found, Cap
    <2>8. SoFar'
        <3>1. result'.convs = result.convs /\ result'.words = "results"
            BY <2>1, <2>2 DEF SearchInv, SoFar, IndexesTypeOK
        <3>2. idx'[loaded'] \in held'
            BY <2>1, <2>3
        <3>3. \E live \in held' : Listed(live)'
            BY <2>1, <2>7, <3>2
        <3> QED BY <2>1, <3>1, <3>3 DEF SearchInv, SoFar, Found, Cap
    <2>9. AnswersFromOneIndex'
        BY <2>1 DEF AnswersFromOneIndex
    <2> QED BY <2>5, <2>6, <2>8, <2>9 DEF SearchInv
<1>10. CASE ReturnFound
    <2>1. /\ step = "return" /\ step' = "done"
          /\ UNCHANGED <<idx, conv, asked, loaded, since, held>>
          /\ result' = IF result.convs = {} /\ result.docs = {}
                       THEN [result EXCEPT !.words = "no results"] ELSE result
        BY <1>10 DEF ReturnFound
    <2>2. IndexesTypeOK' /\ HeldIsLive' /\ SoFar'
        BY <2>1 DEF SearchInv, IndexesTypeOK, HeldIsLive, SoFar
    <2>3. AnswersFromOneIndex'
        <3>1. PICK live \in held : Listed(live)
            BY <2>1 DEF SearchInv, SoFar
        <3>2. /\ result.convs \in Found(conv) /\ result.words = "results"
              /\ IsFiniteSet(live)
            BY <1>2, <2>1 DEF SearchInv, SoFar, HeldIsLive
        <3>3. /\ result.docs = {} => live \cap Matching = {}
              /\ result.docs \subseteq live \cap Matching
              /\ result.convs = {} => conv \cap Matching = {}
              /\ result.convs \subseteq conv \cap Matching
            BY <1>1, <1>2, <3>1, <3>2, FoundProperties DEF Listed
        <3>4. /\ result'.convs = result.convs /\ result'.docs = result.docs
              /\ result'.tip = result.tip
              /\ result'.words = IF result.convs = {} /\ result.docs = {}
                                 THEN "no results" ELSE "results"
            BY <2>1, <3>2 DEF SearchInv, IndexesTypeOK
        <3>5. /\ result'.convs \in Found(conv)' /\ result'.docs \in Found(live)'
              /\ live \cap Matching # result'.docs => result'.tip
            BY <2>1, <3>1, <3>2, <3>4 DEF Listed, Found, Cap
        <3>6. result'.words = "results" <=> (live \cup conv) \cap Matching # {}
            BY <3>3, <3>4
        <3>7. live \in held' /\ result'.words # "no index"
            <4>1. live \in held'
                BY <2>1, <3>1
            <4>2. result'.words # "no index"
                BY <3>4
            <4> QED BY <4>1, <4>2
        <3>8. (live \cup conv') \cap Matching = (live \cup conv) \cap Matching
            BY <2>1
        <3> QED BY <3>5, <3>6, <3>7, <3>8 DEF AnswersFromOneIndex
    <2> QED BY <2>2, <2>3 DEF SearchInv
<1> QED BY <1>4, <1>5, <1>6, <1>7, <1>8, <1>9, <1>10 DEF SearchForNext

LEMMA SearchInvariant == SearchForSpec => []SearchInv
    BY SearchStarts, SearchSteps, PTL DEF SearchForSpec

-----------------------------------------------------------------------------
(* Although searchFor reads the live index twice, what it lists comes from *)
(* one index that was live while it ran.                                   *)
THEOREM AnswersAreOfOneIndex == SearchForSpec => []AnswersFromOneIndex
<1>1. SearchInv => AnswersFromOneIndex
    BY DEF SearchInv
<1> QED BY <1>1, SearchInvariant, PTL

-----------------------------------------------------------------------------
(* chunkMarkdown.  The induction says what section the scanner is in: the  *)
(* titles above it, its body so far, and that those before it are listed.  *)
(* The lines behind the front matter are a sequence again. *)
DocOK ==
    /\ Len(doc) \in Nat /\ DOMAIN doc = 1..Len(doc)
    /\ \A i \in Heads : doc[i].level \in Levels

LEMMA MinOf ==
    ASSUME NEW S \in SUBSET Nat, S # {}
    PROVE  Min(S) \in S /\ \A i \in S : Min(S) <= i
<1>1. \E n \in S : \A m \in S : n <= m
    BY LeastNat
<1>2. QED
    BY <1>1 DEF Min

LEMMA MaxOf ==
    ASSUME NEW n \in Nat, NEW S \in SUBSET (0..n), S # {}
    PROVE  Max(S) \in S /\ \A i \in S : i <= Max(S)
<1> DEFINE T == {n - i : i \in S}
<1>1. T \in SUBSET Nat /\ T # {}
    <2>1. \A i \in S : i \in 0..n /\ n - i \in Nat
        OBVIOUS
    <2>2. PICK i \in S : TRUE
        OBVIOUS
    <2>3. n - i \in T
        OBVIOUS
    <2>4. QED
        BY <2>1, <2>3
<1>2. PICK m \in T : \A k \in T : m <= k
    BY <1>1, LeastNat
<1>3. n - m \in S /\ \A i \in S : i <= n - m
    BY <1>2
<1>4. QED
    BY <1>3 DEF Max

LEMMA StripIsDoc ==
    ASSUME NEW d \in Docs
    PROVE  /\ Len(Strip(d)) \in Nat /\ DOMAIN Strip(d) = 1..Len(Strip(d))
           /\ \A i \in DOMAIN Strip(d) : Strip(d)[i].kind = "heading" => Strip(d)[i].level \in Levels
<1> DEFINE Line == {d[i] : i \in DOMAIN d}
           Title(l) == l.kind = "heading" => l.level \in Levels
<1>1. d \in Seq(Line) /\ \A l \in Line : Title(l) /\ (l.kind = "rule" => Title(l.behind))
    BY ChunkAssumption DEF IsLine
<1>2. ASSUME NEW s, NEW L, s \in Seq(L), \A l \in L : Title(l)
      PROVE  /\ Len(s) \in Nat /\ DOMAIN s = 1..Len(s)
             /\ \A i \in DOMAIN s : Title(s[i])
    BY <1>2
<1> HIDE DEF Line
<1>3. CASE Strip(d) = d
    BY <1>1, <1>2, <1>3
<1>4. CASE Strip(d) # d
    <2> DEFINE rest == Tail(d)
               k == CHOOSE k \in Close(rest) : TRUE
    <2>1. d # <<>> /\ Close(rest) # {} /\ Strip(d) = After(rest, k)
        BY <1>4 DEF Strip
    <2>2. rest \in Seq(Line) /\ DOMAIN rest \in SUBSET Nat
        BY <1>1, <2>1
    <2>3. Close(rest) \subseteq DOMAIN rest
        <3>1. \A S : S \subseteq DOMAIN rest /\ S # {} => Min(S) \in DOMAIN rest
            BY <2>2, MinOf
        <3> HIDE DEF rest
        <3>2. QED
            BY <3>1 DEF Close
    <2>4. k \in DOMAIN rest
        BY <2>1, <2>3
    <2> HIDE DEF k, rest
    <2> DEFINE behind == SubSeq(rest, k + 1, Len(rest))
    <2>5. behind \in Seq(Line)
        BY <2>2, <2>4
    <2>6. CASE rest[k].kind = "rule"
        <3> DEFINE first == rest[k].behind
                   More == Line \cup {first}
        <3>1. Strip(d) = <<first>> \o behind
            BY <2>1, <2>6 DEF After
        <3>2. Title(first)
            BY <1>1, <2>2, <2>4, <2>6
        <3> HIDE DEF first
        <3>3. <<first>> \in Seq(More) /\ behind \in Seq(More)
            BY <2>5
        <3>4. Strip(d) \in Seq(More) /\ \A l \in More : Title(l)
            BY <1>1, <3>1, <3>2, <3>3
        <3> HIDE DEF More
        <3>5. QED
            BY <1>2, <3>4
    <2>7. CASE rest[k].kind # "rule"
        <3>1. Strip(d) = behind \/ (behind # <<>> /\ Strip(d) = Tail(behind))
            BY <2>1, <2>7 DEF After
        <3> HIDE DEF behind
        <3>2. Strip(d) \in Seq(Line)
            BY <2>5, <3>1
        <3>3. QED
            BY <1>1, <1>2, <3>2
    <2>8. QED
        BY <2>6, <2>7
<1>5. QED
    BY <1>3, <1>4

-----------------------------------------------------------------------------
(* The scanner stays before the line it stops at, and meets it when it     *)
(* stops.                                                                  *)
LEMMA ScanEndIs ==
    ASSUME DocOK
    PROVE  /\ ScanEnd \in 1..(Len(doc) + 1)
           /\ \A i \in DOMAIN doc : doc[i].kind = "long" => ScanEnd <= i
           /\ ScanEnd <= Len(doc) => doc[ScanEnd].kind = "long"
<1> DEFINE S == {i \in DOMAIN doc : doc[i].kind = "long"} \cup {Len(doc) + 1}
<1>1. S \in SUBSET Nat /\ S # {}
    BY DEF DocOK
<1>2. Min(S) \in S /\ \A i \in S : Min(S) <= i
    BY <1>1, MinOf
<1>3. ScanEnd = Min(S)
    BY DEF ScanEnd
<1>4. QED
    BY <1>2, <1>3 DEF DocOK

LEMMA AtEndIs ==
    ASSUME DocOK, line \in 1..ScanEnd
    PROVE  AtEnd <=> line = ScanEnd
BY ScanEndIs DEF AtEnd, DocOK

(* The title at level l of the path to the heading at h. *)
AtLevel(h, l) ==
    LET above == {g \in Heads : g <= h /\ doc[g].level <= l}
    IN  IF above # {} /\ doc[Max(above)].level = l THEN doc[Max(above)].text ELSE ""

(* No heading is between h and n. *)
NoneBetween(h, n) == \A g \in Heads : ~(h < g /\ g < n)

(* The body is what the lines behind h say, without the blank ones at the  *)
(* start.                                                                  *)
BodyOf(h) ==
    \E k \in h..(line - 1) :
        /\ \A i \in (h + 1)..k : doc[i].text = ""
        /\ body = [i \in 1..(line - 1 - k) |-> doc[k + i].text]
        /\ k < line - 1 => doc[k + 1].text # ""

(* The list has the chunks of what is kept before h. *)
ListsTo(list, h) ==
    /\ \E C : list \in Seq(C)
    /\ Len(list) = Cardinality({g \in Kept : g < h})
    /\ \A g \in Kept : g < h => list[Cardinality({f \in Kept : f <= g})] = ChunkOf(g)

(* The scanner is in the section of the heading at h. *)
InSection(h) ==
    /\ h \in {0} \cup Heads /\ h < line
    /\ NoneBetween(h, line)
    /\ headings = [l \in Levels |-> AtLevel(h, l)]
    /\ title = HeadTitle(h)
    /\ BodyOf(h)
    /\ ListsTo(chunks, h)

ChunkInv ==
    /\ DocOK
    /\ status \in {"read", "done"}
    /\ status = "read" => line \in 1..ScanEnd /\ \E h \in Nat : InSection(h)
    /\ ChunksAreSections

LEMMA KeptAre ==
    ASSUME DocOK
    PROVE  /\ Kept \subseteq 0..(ScanEnd - 1) /\ Kept \subseteq {0} \cup Heads
           /\ Heads \subseteq 1..Len(doc) /\ IsFiniteSet(Kept)
<1>1. Heads \subseteq 1..Len(doc)
    BY DEF Heads, DocOK
<1>4. Kept \subseteq {0} \cup Heads /\ \A g \in Kept : g = 0 \/ g < ScanEnd
    BY DEF Kept
<1>5. Kept \subseteq 0..(ScanEnd - 1)
    BY <1>1, <1>4, ScanEndIs DEF DocOK
<1>2. IsFiniteSet(0..(ScanEnd - 1))
    BY FS_Interval, ScanEndIs DEF DocOK
<1>3. QED
    BY <1>1, <1>2, <1>4, <1>5, FS_Subset

(* Trim of a text is that of the text without blank lines at its start.    *)
Blanks(u, s) == \A i \in 1..s : u[i] = ""
Follows(u, v, s, p) == \A i \in 1..p : u[s + i] = v[i]
FollowsBlanks(T, u, v, s, p) ==
    u \in [1..(s + p) -> T] /\ Blanks(u, s) /\ Follows(u, v, s, p)

LEMMA TrimBehind ==
    ASSUME NEW T, NEW s \in Nat, NEW p \in Nat, NEW u, NEW v \in [1..p -> T],
           FollowsBlanks(T, u, v, s, p)
    PROVE  Trim(u) = Trim(v)
<1>0. PICK m \in Nat : m = s + p
    OBVIOUS
<1>12. u \in [1..m -> T] /\ Blanks(u, s) /\ Follows(u, v, s, p)
    BY <1>0 DEF FollowsBlanks
<1> DEFINE U == {i \in DOMAIN u : u[i] # ""}
           V == {i \in DOMAIN v : v[i] # ""}
<1>3. U \subseteq 1..m /\ V \subseteq 1..p
    BY <1>12
<1>11. /\ \A i \in 1..m : u[i] # "" <=> i \in U
       /\ \A i \in 1..p : v[i] # "" <=> i \in V
    BY <1>12
<1> HIDE DEF U, V
<1>1. ASSUME NEW i \in V PROVE s + i \in U
    <2>1. i \in 1..p /\ s + i \in 1..m
        BY <1>0, <1>3
    <2>2. u[s + i] = v[i]
        BY <1>12, <2>1 DEF Follows
    <2>3. QED
        BY <1>11, <2>1, <2>2
<1>2. ASSUME NEW i \in U PROVE i - s \in V
    <2>1. i \in 1..m /\ i \notin 1..s
        BY <1>3, <1>11, <1>12 DEF Blanks
    <2>2. i - s \in 1..p /\ s + (i - s) = i
        BY <1>0, <2>1
    <2>3. u[i] = v[i - s]
        BY <1>12, <2>2 DEF Follows
    <2>4. QED
        BY <1>11, <2>1, <2>2, <2>3
<1>4. Trim(u) = IF U = {} THEN <<>> ELSE SubSeq(u, Min(U), Max(U))
    BY DEF Trim, U
<1>5. Trim(v) = IF V = {} THEN <<>> ELSE SubSeq(v, Min(V), Max(V))
    BY DEF Trim, V
<1>6. CASE V = {}
    BY <1>2, <1>4, <1>5, <1>6
<1>7. CASE V # {}
    <2> DEFINE a == Min(V)
               b == Max(V)
    <2>0. PICK o \in V : TRUE
        BY <1>7
    <2>1. U # {} /\ U \in SUBSET Nat /\ U \in SUBSET (0..m)
        BY <1>1, <1>3, <2>0
    <2>2. V \in SUBSET Nat /\ V \in SUBSET (0..p)
        BY <1>3
    <2>3. a \in V /\ (\A i \in V : a <= i) /\ b \in V /\ \A i \in V : i <= b
        BY <1>7, <2>2, MinOf, MaxOf
    <2>4. /\ Min(U) \in U /\ \A i \in U : Min(U) <= i
          /\ Max(U) \in U /\ \A i \in U : i <= Max(U)
        BY <2>1, MinOf, MaxOf
    <2> HIDE DEF a, b
    <2>5. a \in 1..p /\ b \in 1..p /\ a <= b
        BY <1>3, <2>3
    <2>6. Min(U) \in Nat /\ Max(U) \in Nat
        BY <2>1, <2>4
    <2>7. Min(U) <= s + a /\ s + b <= Max(U)
        BY <1>1, <2>3, <2>4
    <2>8. a <= Min(U) - s /\ Max(U) - s <= b
        BY <1>2, <2>3, <2>4
    <2>9. Min(U) = s + a /\ Max(U) = s + b
        BY <2>5, <2>6, <2>7, <2>8
    <2> DEFINE left == SubSeq(u, s + a, s + b)
               right == SubSeq(v, a, b)
    <2>10. \A i \in (s + a)..(s + b) : u[i] \in T
        BY <1>0, <1>12, <2>5
    <2>11. \A i \in a..b : v[i] \in T
        BY <2>5
    <2>12. /\ left \in Seq(T) /\ Len(left) = (s + b) - (s + a) + 1
           /\ \A i \in 1..((s + b) - (s + a) + 1) : left[i] = u[(s + a) + i - 1]
        BY <2>5, <2>10, SubSeqProperties
    <2>13. /\ right \in Seq(T) /\ Len(right) = b - a + 1
           /\ \A i \in 1..(b - a + 1) : right[i] = v[a + i - 1]
        BY <2>5, <2>11, SubSeqProperties
    <2>14. ASSUME NEW i \in 1..(b - a + 1) PROVE left[i] = right[i]
        <3>1. a + i - 1 \in 1..p /\ (s + a) + i - 1 = s + (a + i - 1)
            BY <2>5
        <3>2. i \in 1..((s + b) - (s + a) + 1)
            BY <2>5
        <3>3. u[s + (a + i - 1)] = v[a + i - 1]
            BY <1>12, <3>1 DEF Follows
        <3>4. QED
            BY <2>12, <2>13, <3>1, <3>2, <3>3
    <2> HIDE DEF left, right
    <2>15. left = right
        BY <2>5, <2>12, <2>13, <2>14, SeqEqual
    <2>16. QED
        BY <1>4, <1>5, <1>7, <2>1, <2>9, <2>15 DEF left, right, a, b
<1>8. QED
    BY <1>6, <1>7

(* At the next heading, and where the scanner stops, the body is what the  *)
(* chunk of h has.                                                         *)
LEMMA BodyIsSaid ==
    ASSUME DocOK, line \in 1..ScanEnd, NEW h \in Nat, InSection(h), line = ScanEnd \/ line \in Heads
    PROVE  Trim(body) = Said(h)
<1> DEFINE S == {g \in Heads : g > h /\ g < ScanEnd} \cup {ScanEnd}
<1>1. /\ ScanEnd \in Nat /\ ScanEnd <= Len(doc) + 1 /\ Len(doc) \in Nat
      /\ Heads \subseteq 1..Len(doc)
    BY ScanEndIs, KeptAre DEF DocOK
<1>2. h < line /\ line <= ScanEnd /\ line \in Nat
    BY <1>1 DEF InSection
<1>3. S \in SUBSET Nat /\ line \in S
    <2>1. \A g \in Heads : g \in Nat
        BY <1>1
    <2>2. line # ScanEnd => line \in Heads /\ line > h /\ line < ScanEnd
        BY <1>1, <1>2
    <2>3. QED
        BY <1>1, <2>1, <2>2
<1>4. ASSUME NEW g \in S PROVE line <= g
    <2>1. CASE g = ScanEnd
        BY <1>2, <2>1
    <2>2. CASE g \in Heads /\ g > h
        <3>1. g \in Nat /\ ~(h < g /\ g < line)
            BY <1>1, <2>2 DEF InSection, NoneBetween
        <3>2. QED
            BY <1>2, <2>2, <3>1
    <2>3. QED
        BY <2>1, <2>2
<1>5. Min(S) \in S /\ \A g \in S : Min(S) <= g
    <2> HIDE DEF S
    <2>1. QED
        BY <1>3, MinOf
<1>6. Min(S) = line
    <2> HIDE DEF S
    <2>1. Min(S) \in Nat
        BY <1>3, <1>5
    <2>2. Min(S) <= line /\ line <= Min(S)
        BY <1>3, <1>4, <1>5
    <2>3. QED
        BY <1>2, <2>1, <2>2
<1> DEFINE u == [i \in 1..(line - h - 1) |-> doc[h + i].text]
<1>7. Said(h) = Trim(u)
    BY <1>6 DEF Said
<1>8. PICK k \in h..(line - 1) :
        /\ \A i \in (h + 1)..k : doc[i].text = ""
        /\ body = [i \in 1..(line - 1 - k) |-> doc[k + i].text]
    BY DEF InSection, BodyOf
<1> DEFINE T == {doc[i].text : i \in 1..Len(doc)}
           s == k - h
           p == line - 1 - k
           m == line - h - 1
<1>9. s \in Nat /\ p \in Nat /\ m \in Nat /\ m = s + p /\ k \in Nat
    <2>1. k \in h..(line - 1)
        OBVIOUS
    <2>2. QED
        BY <1>2, <2>1
<1>10. u \in [1..m -> T]
    <2>1. \A i \in 1..m : h + i \in 1..Len(doc)
        BY <1>1, <1>2
    <2>2. QED
        BY <2>1
<1>11. body \in [1..p -> T]
    <2>1. \A i \in 1..p : k + i \in 1..Len(doc)
        BY <1>1, <1>2, <1>9
    <2>2. QED
        BY <1>8, <2>1
<1>12. Blanks(u, s)
    <2>1. SUFFICES ASSUME NEW i \in 1..s PROVE u[i] = ""
        BY DEF Blanks
    <2>2. i \in 1..m /\ h + i \in (h + 1)..k
        BY <1>9
    <2>3. QED
        BY <1>8, <2>2
<1>13. Follows(u, body, s, p)
    <2>1. SUFFICES ASSUME NEW i \in 1..p PROVE u[s + i] = body[i]
        BY DEF Follows
    <2>2. s + i \in 1..m /\ h + (s + i) = k + i
        BY <1>9
    <2>3. QED
        BY <1>8, <2>2
<1> HIDE DEF u, T, s, p, m
<1>14. Trim(u) = Trim(body)
    <2>1. FollowsBlanks(T, u, body, s, p)
        BY <1>9, <1>10, <1>12, <1>13 DEF FollowsBlanks
    <2>2. s \in Nat /\ p \in Nat
        BY <1>9
    <2>3. QED
        BY <1>11, <2>1, <2>2, TrimBehind
<1>15. QED
    BY <1>7, <1>14

(* The flush lists the chunk of h behind those before it.                  *)
LEMMA FlushLists ==
    ASSUME DocOK, line \in 1..ScanEnd, NEW h \in Nat, InSection(h), line = ScanEnd \/ line \in Heads
    PROVE  ListsTo(Flush, line)
<1> DEFINE before_ == {g \in Kept : g < h}
           upTo == {g \in Kept : g < line}
           rank(g) == Cardinality({f \in Kept : f <= g})
<1>1. /\ Kept \subseteq Nat /\ Kept \subseteq {0} \cup Heads /\ IsFiniteSet(Kept)
      /\ Heads \subseteq Nat /\ line \in Nat /\ h < line
    BY KeptAre, ScanEndIs DEF DocOK, InSection
<1>2. \A g \in Kept : g < line => g <= h
    BY <1>1 DEF InSection, NoneBetween
<1>3. IsFiniteSet(before_) /\ IsFiniteSet(upTo)
    BY <1>1, FS_Subset
<1>4. Trim(body) = Said(h) /\ title = HeadTitle(h) /\ ListsTo(chunks, h)
    BY BodyIsSaid DEF InSection
<1>5. PICK C : chunks \in Seq(C)
    BY <1>4 DEF ListsTo
<1>6. CASE h \notin Kept
    <2>1. upTo = before_
        <3>1. \A g \in Kept : g < line <=> g < h
            BY <1>1, <1>2, <1>6
        <3>2. QED
            BY <3>1
    <2>2. Trim(body) = <<>> /\ title = ""
        <3>1. h \in {0} \cup {g \in Heads : g < ScanEnd}
            BY <1>1, ScanEndIs DEF InSection, DocOK
        <3>2. QED
            BY <1>4, <1>6, <3>1 DEF Kept
    <2>3. Flush = chunks
        BY <2>2 DEF Flush
    <2>4. \A g \in Kept : g < line => g < h
        BY <2>1
    <2>5. QED
        BY <1>4, <2>1, <2>3, <2>4 DEF ListsTo
<1>7. CASE h \in Kept
    <2>1. upTo = before_ \cup {h} /\ h \notin before_
        <3>1. \A g \in Kept : g < line <=> g < h \/ g = h
            BY <1>1, <1>2, <1>7
        <3>2. ~(h < h)
            OBVIOUS
        <3>3. QED
            BY <1>7, <3>1, <3>2
    <2>2. Cardinality(upTo) = Cardinality(before_) + 1 /\ Cardinality(before_) \in Nat
        BY <1>3, <2>1, FS_AddElement, FS_CardinalityType
    <2>3. ~(Trim(body) = <<>> /\ title = "")
        BY <1>4, <1>7 DEF Kept
    <2>4. Flush = Append(chunks, ChunkOf(h))
        <3>1. Section(headings) = PathTo(h)
            BY DEF InSection, AtLevel, PathTo
        <3>2. QED
            BY <1>4, <2>3, <3>1 DEF Flush, ChunkOf
    <2>5. Len(chunks) = Cardinality(before_)
        BY <1>4 DEF ListsTo
    <2> DEFINE D == C \cup {ChunkOf(h)}
    <2>6. chunks \in Seq(D) /\ ChunkOf(h) \in D
        BY <1>5
    <2> HIDE DEF D
    <2>7. /\ Flush \in Seq(D) /\ Len(Flush) = Len(chunks) + 1
          /\ Flush[Len(chunks) + 1] = ChunkOf(h)
          /\ \A i \in 1..Len(chunks) : Flush[i] = chunks[i]
        BY <2>4, <2>6
    <2>8. ASSUME NEW g \in Kept, g < line PROVE Flush[rank(g)] = ChunkOf(g)
        <3>1. CASE g = h
            <4>0. \A f \in Kept : f <= g <=> f < line
                BY <1>1, <1>2, <3>1
            <4>1. {f \in Kept : f <= g} = upTo
                BY <4>0
            <4>2. QED
                BY <2>2, <2>5, <2>7, <3>1, <4>1
        <3>2. CASE g # h
            <4>1. g < h /\ g \in Nat
                BY <1>1, <1>2, <2>8, <3>2
            <4>0. \A f \in Kept : f <= g => f < h
                BY <1>1, <4>1
            <4>2. {f \in Kept : f <= g} \subseteq before_ /\ g \in {f \in Kept : f <= g}
                <5>1. g <= g
                    BY <4>1
                <5>2. QED
                    BY <4>0, <5>1
            <4>3. rank(g) <= Cardinality(before_) /\ rank(g) \in Nat /\ rank(g) # 0
                BY <1>3, <4>2, FS_Subset, FS_CardinalityType, FS_EmptySet
            <4>4. rank(g) \in 1..Len(chunks)
                BY <2>2, <2>5, <4>3
            <4>5. chunks[rank(g)] = ChunkOf(g)
                BY <1>4, <4>1 DEF ListsTo
            <4>6. QED
                BY <2>7, <4>4, <4>5
        <3>3. QED
            BY <3>1, <3>2
    <2>9. Len(Flush) = Cardinality(upTo)
        BY <2>2, <2>5, <2>7
    <2>10. QED
        BY <2>7, <2>8, <2>9 DEF ListsTo
<1>8. QED
    BY <1>6, <1>7

(* What depends on the document alone.                                     *)
LEMMA DocAlone ==
    ASSUME UNCHANGED doc
    PROVE  /\ DocOK' <=> DocOK
           /\ UNCHANGED <<Heads, ScanEnd, Kept>>
           /\ \A h : ChunkOf(h)' = ChunkOf(h) /\ HeadTitle(h)' = HeadTitle(h)
           /\ \A h, l : AtLevel(h, l)' = AtLevel(h, l)
BY DEF DocOK, Heads, ScanEnd, Kept, ChunkOf, HeadTitle, Said, PathTo, AtLevel

LEMMA ChunkStarts == ChunkInit => ChunkInv
<1> SUFFICES ASSUME ChunkInit PROVE ChunkInv
    OBVIOUS
<1>1. DocOK
    BY StripIsDoc DEF ChunkInit, DocOK, Heads
<1>2. line = 1
    BY DEF ChunkInit
<1>12. status = "read" /\ title = "" /\ headings = [l \in Levels |-> ""]
    BY DEF ChunkInit
<1>13. body = <<>> /\ chunks = <<>>
    BY DEF ChunkInit
<1>3. line \in 1..ScanEnd
    BY <1>1, <1>2, ScanEndIs DEF DocOK
<1>4. Heads \subseteq 1..Len(doc) /\ Len(doc) \in Nat
    BY <1>1, KeptAre DEF DocOK
<1>5. \A l : AtLevel(0, l) = ""
    <2>1. \A l : {g \in Heads : g <= 0 /\ doc[g].level <= l} = {}
        <3>1. \A g \in Heads : ~(g <= 0)
            BY <1>4
        <3>2. QED
            BY <3>1
    <2>2. QED
        BY <2>1 DEF AtLevel
<1>6. headings = [l \in Levels |-> AtLevel(0, l)]
    BY <1>5, <1>12
<1>7. NoneBetween(0, line)
    BY <1>2, <1>4 DEF NoneBetween
<1>8. BodyOf(0)
    <2>1. 0 \in 0..(line - 1) /\ 1..(line - 1 - 0) = {} /\ (0 + 1)..0 = {}
        BY <1>2
    <2>2. body = [i \in 1..(line - 1 - 0) |-> doc[0 + i].text]
        BY <1>13, <2>1
    <2>3. ~(0 < line - 1)
        BY <1>2
    <2>4. QED
        BY <2>1, <2>2, <2>3 DEF BodyOf
<1>9. ListsTo(chunks, 0)
    <2>1. {g \in Kept : g < 0} = {}
        <3>1. Kept \subseteq 0..(ScanEnd - 1)
            BY <1>1, KeptAre
        <3>2. \A g \in Kept : ~(g < 0)
            BY <3>1
        <3>3. QED
            BY <3>2
    <2>2. chunks \in Seq({}) /\ Len(chunks) = 0
        BY <1>13
    <2>3. Cardinality({g \in Kept : g < 0}) = 0
        BY <2>1, FS_EmptySet
    <2>4. \A g \in Kept : ~(g < 0)
        BY <2>1
    <2> HIDE DEF ListsTo
    <2>5. QED
        BY <2>2, <2>3, <2>4 DEF ListsTo
<1>10. InSection(0)
    <2>1. 0 < line /\ 0 \in {0} \cup Heads
        BY <1>2
    <2>2. title = HeadTitle(0)
        BY <1>12 DEF HeadTitle
    <2>3. QED
        BY <1>6, <1>7, <1>8, <1>9, <2>1, <2>2 DEF InSection
<1>11. QED
    BY <1>1, <1>3, <1>10, <1>12 DEF ChunkInv, ChunksAreSections

(* A heading replaces the titles of its level and below, and no others.    *)
LEMMA LevelsAtHeading ==
    ASSUME DocOK, line \in Heads, NEW h \in Nat, h < line, NoneBetween(h, line), NEW l \in Levels
    PROVE  AtLevel(line, l) = IF l < doc[line].level THEN AtLevel(h, l)
                              ELSE IF l = doc[line].level THEN doc[line].text ELSE ""
<1> DEFINE above(n) == {g \in Heads : g <= n /\ doc[g].level <= l}
           top == doc[line].level
<1>1. Heads \subseteq 1..Len(doc) /\ Len(doc) \in Nat /\ line \in Nat
    BY KeptAre DEF DocOK
<1>2. top \in Nat /\ l \in Nat
    BY DEF DocOK, Levels
<1>3. CASE l < top
    <2>1. ~(top <= l)
        BY <1>2, <1>3
    <2>2. \A g \in Heads : g # line => (g <= line <=> g <= h)
        <3>1. \A g \in Heads : g \in Nat /\ ~(h < g /\ g < line)
            BY <1>1 DEF NoneBetween
        <3>2. QED
            BY <1>1, <3>1
    <2>3. ~(line <= h)
        BY <1>1
    <2>4. above(line) = above(h)
        BY <2>1, <2>2, <2>3
    <2>5. QED
        BY <1>3, <2>4 DEF AtLevel
<1>4. CASE ~(l < top)
    <2>1. top <= l /\ line <= line
        BY <1>1, <1>2, <1>4
    <2>2. line \in above(line) /\ above(line) \subseteq 0..Len(doc)
        <3>1. \A g \in Heads : g \in 0..Len(doc)
            BY <1>1
        <3>2. QED
            BY <2>1, <3>1
    <2>3. \A g \in above(line) : g <= line
        OBVIOUS
    <2> HIDE DEF above
    <2>4. Max(above(line)) \in above(line) /\ \A g \in above(line) : g <= Max(above(line))
        BY <1>1, <2>2, MaxOf
    <2>5. Max(above(line)) = line
        <3>1. Max(above(line)) \in Nat
            BY <1>1, <2>2, <2>4
        <3>2. Max(above(line)) <= line /\ line <= Max(above(line))
            BY <2>2, <2>3, <2>4
        <3>3. QED
            BY <1>1, <3>1, <3>2
    <2>6. AtLevel(line, l) = IF top = l THEN doc[line].text ELSE ""
        BY <2>2, <2>5 DEF AtLevel, above
    <2>7. QED
        BY <1>4, <2>6
<1>5. QED
    BY <1>3, <1>4

LEMMA HeadingKeeps == ChunkInv /\ Heading => ChunkInv'
<1> SUFFICES ASSUME ChunkInv, Heading PROVE ChunkInv'
    OBVIOUS
<1>1. DocOK /\ status = "read" /\ line \in 1..ScanEnd /\ line \in 1..Len(doc)
    <2>1. DocOK /\ status = "read" /\ line \in 1..ScanEnd
        BY DEF ChunkInv, Heading, AtLine
    <2>2. line \in Nat /\ 1 <= line /\ Len(doc) \in Nat
        BY <2>1, ScanEndIs DEF DocOK
    <2>3. ~(line > Len(doc))
        BY DEF Heading, AtLine, AtEnd
    <2>4. QED
        BY <2>1, <2>2, <2>3
<1>2. PICK h \in Nat : InSection(h)
    BY <1>1 DEF ChunkInv
<1>3. line \in Heads /\ line # ScanEnd
    BY <1>1, AtEndIs DEF Heading, AtLine, DocOK, Heads
<1>4. ScanEnd \in Nat /\ line \in Nat /\ line < ScanEnd /\ h < line /\ NoneBetween(h, line)
    BY <1>1, <1>2, <1>3, ScanEndIs DEF DocOK, InSection
<1>5. UNCHANGED doc /\ line' = line + 1 /\ chunks' = Flush
    BY DEF Heading
<1>6. /\ DocOK' /\ Heads' = Heads /\ ScanEnd' = ScanEnd /\ Kept' = Kept
      /\ \A g : ChunkOf(g)' = ChunkOf(g) /\ HeadTitle(g)' = HeadTitle(g)
      /\ \A g, l : AtLevel(g, l)' = AtLevel(g, l)
    BY <1>1, <1>5, DocAlone
<1>7. PICK n \in Nat : n = line
    BY <1>4
<1>8. ListsTo(Flush, n)
    BY <1>1, <1>2, <1>3, <1>7, FlushLists
<1>9. ListsTo(chunks, n)'
    BY <1>5, <1>6, <1>8 DEF ListsTo
<1>10. headings' = [l \in Levels |-> AtLevel(n, l)']
    <2>1. headings' = [l \in Levels |->
            IF l < doc[line].level THEN headings[l]
            ELSE IF l = doc[line].level THEN doc[line].text ELSE ""]
        BY DEF Heading
    <2>2. \A l \in Levels : headings[l] = AtLevel(h, l)
        BY <1>2 DEF InSection
    <2>3. \A l \in Levels : AtLevel(n, l) =
            IF l < doc[line].level THEN headings[l]
            ELSE IF l = doc[line].level THEN doc[line].text ELSE ""
        BY <1>1, <1>3, <1>4, <1>7, <2>2, LevelsAtHeading
    <2>4. QED
        BY <1>6, <2>1, <2>3
<1>11. NoneBetween(n, line)'
    <2>1. \A g \in Heads : g \in Nat
        BY <1>1, KeptAre
    <2>2. \A g \in Heads : ~(n < g /\ g < line + 1)
        BY <1>4, <1>7, <2>1
    <2>3. QED
        BY <1>5, <1>6, <2>2 DEF NoneBetween
<1>12. title' = HeadTitle(n)'
    <2>1. n # 0
        BY <1>1, <1>7
    <2>2. QED
        BY <1>5, <1>6, <1>7, <2>1 DEF Heading, HeadTitle
<1>13. BodyOf(n)'
    <2>1. body' = <<>>
        BY DEF Heading
    <2>2. n \in n..(line' - 1) /\ (n + 1)..n = {} /\ 1..(line' - 1 - n) = {} /\ ~(n < line' - 1)
        BY <1>4, <1>5, <1>7
    <2>3. body' = [i \in 1..(line' - 1 - n) |-> doc'[n + i].text]
        BY <2>1, <2>2
    <2>4. QED
        BY <2>2, <2>3 DEF BodyOf
<1>14. InSection(n)'
    <2>1. n \in Heads' /\ n < line'
        BY <1>3, <1>4, <1>5, <1>6, <1>7
    <2>2. QED
        BY <1>9, <1>10, <1>11, <1>12, <1>13, <2>1 DEF InSection
<1>15. line' \in 1..ScanEnd'
    BY <1>4, <1>5, <1>6
<1>16. QED
    BY <1>1, <1>6, <1>14, <1>15 DEF ChunkInv, ChunksAreSections, Heading

LEMMA TextKeeps == ChunkInv /\ Text => ChunkInv'
<1> SUFFICES ASSUME ChunkInv, Text PROVE ChunkInv'
    OBVIOUS
<1>1. DocOK /\ status = "read" /\ line \in 1..ScanEnd /\ line \in 1..Len(doc)
    <2>1. DocOK /\ status = "read" /\ line \in 1..ScanEnd
        BY DEF ChunkInv, Text, AtLine
    <2>2. line \in Nat /\ 1 <= line /\ Len(doc) \in Nat
        BY <2>1, ScanEndIs DEF DocOK
    <2>3. ~(line > Len(doc))
        BY DEF Text, AtLine, AtEnd
    <2>4. QED
        BY <2>1, <2>2, <2>3
<1>2. PICK h \in Nat : InSection(h)
    BY <1>1 DEF ChunkInv
<1>3. line \notin Heads /\ line # ScanEnd
    BY <1>1, AtEndIs DEF Text, AtLine, Heads
<1>4. ScanEnd \in Nat /\ line \in Nat /\ line < ScanEnd /\ h < line /\ NoneBetween(h, line)
    BY <1>1, <1>2, <1>3, ScanEndIs DEF DocOK, InSection
<1>5. UNCHANGED <<doc, headings, title, chunks>> /\ line' = line + 1
    BY DEF Text
<1>6. /\ DocOK' /\ Heads' = Heads /\ ScanEnd' = ScanEnd /\ Kept' = Kept
      /\ \A g : ChunkOf(g)' = ChunkOf(g) /\ HeadTitle(g)' = HeadTitle(g)
      /\ \A g, l : AtLevel(g, l)' = AtLevel(g, l)
    BY <1>1, <1>5, DocAlone
<1>7. ListsTo(chunks, h)'
    BY <1>2, <1>5, <1>6 DEF ListsTo, InSection
<1>8. NoneBetween(h, line)'
    <2>1. \A g \in Heads : g \in Nat /\ g # line /\ ~(h < g /\ g < line)
        BY <1>1, <1>3, <1>4, KeptAre DEF NoneBetween
    <2>2. \A g \in Heads : ~(h < g /\ g < line + 1)
        BY <1>4, <2>1
    <2>3. QED
        BY <1>5, <1>6, <2>2 DEF NoneBetween
<1>9. BodyOf(h)'
    <2>1. PICK k \in h..(line - 1) :
            /\ \A i \in (h + 1)..k : doc[i].text = ""
            /\ body = [i \in 1..(line - 1 - k) |-> doc[k + i].text]
            /\ k < line - 1 => doc[k + 1].text # ""
        BY <1>2 DEF InSection, BodyOf
    <2> DEFINE says == doc[line].text
    <2>2. k \in Nat /\ k <= line - 1 /\ h <= k
        BY <1>4
    <2>3. body' = IF body = <<>> /\ says = "" THEN body ELSE Append(body, says)
        BY DEF Text
    <2>4. CASE body = <<>> /\ says = ""
        <3>1. k = line - 1
            <4>0. body = <<>>
                BY <2>4
            <4>1. DOMAIN body = {}
                BY <4>0
            <4>2. 1..(line - 1 - k) = {}
                BY <2>1, <4>1
            <4>3. ~(1 <= line - 1 - k)
                BY <1>4, <2>2, <4>2
            <4>4. QED
                BY <1>4, <2>2, <4>3
        <3>2. line \in h..(line' - 1) /\ 1..(line' - 1 - line) = {} /\ ~(line < line' - 1)
            BY <1>4, <1>5
        <3>3. \A i \in (h + 1)..line : i = line \/ i \in (h + 1)..k
            BY <1>4, <3>1
        <3>4. \A i \in (h + 1)..line : doc'[i].text = ""
            BY <1>5, <2>1, <2>4, <3>3
        <3>5. body' = [i \in 1..(line' - 1 - line) |-> doc'[line + i].text]
            <4>1. body' = <<>>
                BY <2>3, <2>4
            <4>2. 1..(line' - 1 - line) = {}
                BY <3>2
            <4>3. QED
                BY <4>1, <4>2
        <3>6. PICK n \in Nat : n = line
            BY <1>4
        <3>7. /\ n \in h..(line' - 1) /\ (\A i \in (h + 1)..n : doc'[i].text = "")
              /\ body' = [i \in 1..(line' - 1 - n) |-> doc'[n + i].text]
              /\ ~(n < line' - 1)
            BY <3>2, <3>4, <3>5, <3>6
        <3>8. QED
            BY <3>7 DEF BodyOf
    <2>5. CASE ~(body = <<>> /\ says = "")
        <3> DEFINE len == line - 1 - k
                   T == {doc[i].text : i \in 1..Len(doc)}
        <3>1. len \in Nat /\ line' - 1 - k = len + 1 /\ k + (len + 1) = line
            BY <1>4, <1>5, <2>2
        <3>2. \A i \in 1..(len + 1) : k + i \in 1..Len(doc)
            BY <1>1, <2>2, <3>1 DEF DocOK
        <3>3. body \in Seq(T) /\ Len(body) = len /\ \A i \in 1..len : body[i] = doc[k + i].text
            <4>1. body = [i \in 1..len |-> doc[k + i].text]
                BY <2>1
            <4>2. \A i \in 1..len : doc[k + i].text \in T
                <5>1. \A i \in 1..len : i \in 1..(len + 1)
                    BY <3>1
                <5>2. \A i \in 1..len : k + i \in 1..Len(doc)
                    BY <3>2, <5>1
                <5> HIDE DEF len
                <5>3. QED
                    BY <5>2
            <4> HIDE DEF len, T
            <4>3. QED
                BY <3>1, <4>1, <4>2
        <3>4. says \in T
            BY <1>1
        <3> DEFINE next_ == [i \in 1..(len + 1) |-> doc[k + i].text]
        <3>5. Append(body, says) = next_
            <4>1. \A i \in 1..(len + 1) : Append(body, says)[i] = doc[k + i].text
                <5>1. \A i \in 1..(len + 1) : i \in 1..len \/ i = len + 1
                    BY <3>1
                <5>2. doc[k + (len + 1)].text = says
                    BY <3>1
                <5> HIDE DEF T, len, says
                <5>3. QED
                    BY <3>1, <3>3, <3>4, <5>1, <5>2
            <4> HIDE DEF T, len, says
            <4>2. Append(body, says) \in Seq(T) /\ Len(Append(body, says)) = len + 1
                BY <3>1, <3>3, <3>4
            <4>3. next_ \in Seq(T) /\ Len(next_) = len + 1
                  /\ \A i \in 1..(len + 1) : next_[i] = doc[k + i].text
                <5>1. \A i \in 1..(len + 1) : doc[k + i].text \in T
                    BY <3>2 DEF T
                <5>2. QED
                    BY <3>1, <5>1
            <4> HIDE DEF next_
            <4>4. QED
                BY <4>1, <4>2, <4>3, SeqEqual
        <3>6. body' = [i \in 1..(line' - 1 - k) |-> doc'[k + i].text]
            BY <1>5, <2>3, <2>5, <3>1, <3>5
        <3>7. doc[k + 1].text # ""
            <4>1. CASE k < line - 1
                BY <2>1, <4>1
            <4>2. CASE ~(k < line - 1)
                <5>1. len = 0 /\ k + 1 = line
                    BY <1>4, <2>2, <4>2
                <5>2. body = <<>>
                    BY <3>3, <5>1
                <5>3. QED
                    BY <2>5, <5>1, <5>2
            <4>3. QED
                BY <4>1, <4>2
        <3>8. k \in h..(line' - 1)
            BY <1>4, <1>5, <2>2
        <3> HIDE DEF says, len, T, next_
        <3>9. /\ \A i \in (h + 1)..k : doc'[i].text = ""
              /\ doc'[k + 1].text # ""
            BY <1>5, <2>1, <3>7
        <3>10. QED
            BY <3>6, <3>8, <3>9 DEF BodyOf
    <2>6. QED
        BY <2>4, <2>5
<1>10. InSection(h)'
    <2>1. h \in {0} \cup Heads' /\ h < line'
        BY <1>2, <1>4, <1>5, <1>6 DEF InSection
    <2>2. title' = HeadTitle(h)' /\ headings' = [l \in Levels |-> AtLevel(h, l)']
        BY <1>2, <1>5, <1>6 DEF InSection
    <2>3. QED
        BY <1>7, <1>8, <1>9, <2>1, <2>2 DEF InSection
<1>11. line' \in 1..ScanEnd'
    BY <1>4, <1>5, <1>6
<1>12. QED
    BY <1>1, <1>6, <1>10, <1>11 DEF ChunkInv, ChunksAreSections, Text

LEMMA EndKeeps == ChunkInv /\ End => ChunkInv'
<1> SUFFICES ASSUME ChunkInv, End PROVE ChunkInv'
    OBVIOUS
<1>1. DocOK /\ line \in 1..ScanEnd /\ line = ScanEnd
    BY AtEndIs DEF ChunkInv, End
<1>2. PICK h \in Nat : InSection(h)
    BY DEF ChunkInv, End
<1>3. ListsTo(Flush, line)
    BY <1>1, <1>2, FlushLists
<1>4. UNCHANGED doc /\ chunks' = Flush /\ status' = "done"
    BY DEF End
<1>5. DocOK' /\ Kept' = Kept /\ \A g : ChunkOf(g)' = ChunkOf(g)
    BY <1>1, <1>4, DocAlone
<1>6. \A g \in Kept : g < line
    <2>1. Kept \subseteq 0..(ScanEnd - 1) /\ ScanEnd \in Nat
        BY <1>1, KeptAre, ScanEndIs DEF DocOK
    <2>2. QED
        BY <1>1, <2>1
<1>7. {g \in Kept : g < line} = Kept
    BY <1>6
<1>8. /\ Len(Flush) = Cardinality(Kept)
      /\ \A g \in Kept : Flush[Cardinality({f \in Kept : f <= g})] = ChunkOf(g)
    BY <1>3, <1>6, <1>7 DEF ListsTo
<1>9. ChunksAreSections'
    BY <1>4, <1>5, <1>8 DEF ChunksAreSections
<1>10. QED
    BY <1>4, <1>5, <1>9 DEF ChunkInv

(* chunkMarkdown: for every document, whatever its front matter, there is  *)
(* a chunk for each section that says something, with the path of headings *)
(* above it, in the order of the document.                                 *)
THEOREM SectionsAreChunked == ChunkSpec => []ChunksAreSections
<1>1. ChunkInv /\ UNCHANGED chunkVars => ChunkInv'
    <2> SUFFICES ASSUME ChunkInv, UNCHANGED chunkVars PROVE ChunkInv'
        OBVIOUS
    <2>1. UNCHANGED <<status, doc, line, headings, title, body, chunks>>
        BY DEF chunkVars
    <2>2. /\ DocOK' /\ Heads' = Heads /\ ScanEnd' = ScanEnd /\ Kept' = Kept
          /\ \A g : ChunkOf(g)' = ChunkOf(g) /\ HeadTitle(g)' = HeadTitle(g)
          /\ \A g, l : AtLevel(g, l)' = AtLevel(g, l)
        BY <2>1, DocAlone DEF ChunkInv
    <2>3. \A h : InSection(h) => InSection(h)'
        BY <2>1, <2>2 DEF InSection, NoneBetween, BodyOf, ListsTo
    <2>4. ChunksAreSections'
        BY <2>1, <2>2 DEF ChunkInv, ChunksAreSections
    <2>5. QED
        BY <2>1, <2>2, <2>3, <2>4 DEF ChunkInv
<1>2. ChunkInv /\ [ChunkNext]_chunkVars => ChunkInv'
    BY <1>1, HeadingKeeps, TextKeeps, EndKeeps DEF ChunkNext
<1>3. ChunkInv => ChunksAreSections
    BY DEF ChunkInv
<1>4. QED
    BY <1>2, <1>3, ChunkStarts, PTL DEF ChunkSpec
=============================================================================
