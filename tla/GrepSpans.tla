------------------------------ MODULE GrepSpans ------------------------------
(***************************************************************************)
(* grepFunc of internal/tools/templating.go: of a text the lines that      *)
(* match are printed, each with some lines before and after it, and spans  *)
(* that touch are printed as one.  The loops over the lines, the matches   *)
(* and the spans are one loop here.                                        *)
(***************************************************************************)
EXTENDS Integers, Sequences

CONSTANTS
    MaxLines,   \* bound: lines of a text
    MaxContext  \* bound: lines asked for before and after a match

ASSUME GrepAssumption == MaxLines \in Nat \ {0} /\ MaxContext \in Nat

VARIABLES
    size,       \* the number of lines, which are numbered from 0
    matches,    \* the lines that match
    before, after,
    next,       \* the line that is looked at
    merged      \* spans so far, from a start to the line behind the end

grepVars == <<size, matches, before, after, next, merged>>

Larger(m, n) == IF m > n THEN m ELSE n
Smaller(m, n) == IF m < n THEN m ELSE n

(* A negative number of lines counts as 0. *)
Asked(n) == Larger(n, 0)

Span(m) == [start |-> Larger(m - before, 0), end |-> Smaller(m + after + 1, size)]

GrepInit ==
    /\ size \in 1..MaxLines
    /\ matches \in SUBSET (0..(size - 1))
    /\ \E b, a \in -1..MaxContext : before = Asked(b) /\ after = Asked(a)
    /\ next = 0 /\ merged = <<>>

PassLine ==
    /\ next < size /\ next \notin matches
    /\ next' = next + 1
    /\ UNCHANGED <<size, matches, before, after, merged>>

(* Mutant: spans that touch are not joined. *)
MergeOverlap ==
    LET sp == Span(next)
        last == Len(merged)
    IN  /\ next < size /\ next \in matches
        /\ merged' = IF IF last = 0 THEN TRUE ELSE sp.start >= merged[last].end
                     THEN Append(merged, sp)
                     ELSE [merged EXCEPT ![last].end = Larger(@, sp.end)]
        /\ next' = next + 1
        /\ UNCHANGED <<size, matches, before, after>>

MergeSpan ==
    LET sp == Span(next)
        last == Len(merged)
    IN  /\ next < size /\ next \in matches
        /\ merged' = IF IF last = 0 THEN TRUE ELSE sp.start > merged[last].end
                     THEN Append(merged, sp)
                     ELSE [merged EXCEPT ![last].end = Larger(@, sp.end)]
        /\ next' = next + 1
        /\ UNCHANGED <<size, matches, before, after>>

GrepNext == PassLine \/ MergeSpan
GrepSpec == GrepInit /\ [][GrepNext]_grepVars

-----------------------------------------------------------------------------
InSpan(j, sp) == sp.start <= j /\ j < sp.end
Near(j, m) == m - before <= j /\ j <= m + after

(* grepFunc prints the lines of the spans: they are the lines near a match *)
(* among those it has looked at, and no two spans touch, so that each line *)
(* is printed once, in order, and a separator stands for lines left out.   *)
GrepIsWindow ==
    /\ \A j \in 0..(size - 1) :
        (\E k \in 1..Len(merged) : InSpan(j, merged[k]))
        <=> (\E m \in matches : m < next /\ Near(j, m))
    /\ \A k \in 1..(Len(merged) - 1) : merged[k].end < merged[k + 1].start
=============================================================================
