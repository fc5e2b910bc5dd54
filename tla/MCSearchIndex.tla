--------------------------- MODULE MCSearchIndex ---------------------------
(* Two mergers and two searchers over two chunks that differ in length,    *)
(* in term frequency and in which field the terms occur.                   *)
EXTENDS SearchIndex

Doc == {"guide", "api"}
Word == {"tool", "config"}

Of(a, b) == [t \in Word |-> IF t = "tool" THEN a ELSE b]
MCBody == [c \in Doc |-> IF c = "guide" THEN Of(2, 0) ELSE Of(1, 1)]
MCTitle == [c \in Doc |-> IF c = "guide" THEN Of(0, 2) ELSE Of(0, 0)]
MCTag == [c \in Doc |-> IF c = "guide" THEN Of(0, 0) ELSE Of(1, 0)]
MCBodyLen == [c \in Doc |-> IF c = "guide" THEN 2 ELSE 4]

(* Falls with df and with the length relative to the average, grows with   *)
(* n and tf, and stays positive while df <= n, as BM25 does.               *)
MCBodyScore(n, df, tf, dl, avg) ==
    1 + ((1 + n - df) * tf * 24) \div (tf + 1 + (dl * avg[2]) \div (IF avg[1] > 0 THEN avg[1] ELSE 1))

MCBatch == {<<>>, <<"guide">>, <<"api", "guide">>}
MCQuery == {<<>>, <<"config", "tool">>}
MCMaxResults == {0, 1}
=============================================================================
