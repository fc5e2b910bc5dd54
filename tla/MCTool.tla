------------------------------- MODULE MCTool -------------------------------
(* A tool has a number and a path or a flag, with and without defaults and *)
(* constraints, sound and not; options of a name of their own, of the      *)
(* number's and of the engine's.  A template prints, passes the number on  *)
(* as a float64, names what is not declared, or does so in a branch that   *)
(* it takes on a number that is not zero, on one that is, or on an engine  *)
(* that has tools to range over.                                           *)
EXTENDS ToolCall, TLC

Int_(n) == [go |-> "int", text |-> ToString(n), num |-> n]
Float(n) == [go |-> "float64", text |-> ToString(n), num |-> n]
Str(s) == [go |-> "string", text |-> s, num |-> 0]

Number(required, default, enum, min, max) ==
    [name |-> "before", type |-> "number", required |-> required,
     default |-> default, enum |-> enum, min |-> min, max |-> max]
Other(name, type) ==
    [name |-> name, type |-> type, required |-> FALSE,
     default |-> NoValue, enum |-> {}, min |-> {}, max |-> {}]

Numbers ==
    {Number(r, d, {}, lo, hi) : r \in BOOLEAN, d \in {NoValue, Int_(2), Float(3)},
                                lo \in {{}, {1}}, hi \in {{}, {2}}}
    \cup {Number(FALSE, d, {Int_(1), Float(2)}, lo, {}) : d \in {NoValue, Int_(2), Str("2")},
                                                          lo \in {{}, {1}}}
    \cup {Number(FALSE, NoValue, {}, {2}, {1})}
Others == {Other("file", "project_file_path"), Other("flag", "bool"), Other("before", "number"),
           Other("file", "path"), Other(Reserved, "string")}
Options == {Empty, [k \in {"after"} |-> Int_(2)], [k \in {"before", Reserved} |-> Float(9)]}
Use(key, want) == [key |-> key, want |-> want, when |-> {}]
In(key, values, use) == [use EXCEPT !.when = {[key |-> key, values |-> values]}]
(* The numbers that are not zero, on which if takes its branch. *)
NonZero == {Int_(2), Float(1), Float(2), Float(3), Float(9), Str("2")}
Uses ==
    {<<Use("before", "float64")>>, <<Use("before", "any"), Use(Reserved, "any")>>,
     <<Use("after", "int")>>,
     <<Use("before", "any"), In("before", NonZero, Use("after", "int"))>>,
     <<Use("before", "any"), In("before", {Zero("number")}, Use("flag", "bool")),
       In("before", NonZero, Use("before", "float64"))>>,
     <<Use(Reserved, "any"), In(Reserved, {Engine}, Use("file", "string"))>>}

MCTools ==
    {[params |-> <<n, o>>, options |-> opt, uses |-> u, json |-> j, maxOutputKB |-> k] :
        n \in Numbers, o \in Others, opt \in Options, u \in Uses, j \in BOOLEAN, k \in {0, 1}}
    \cup {[params |-> <<>>, options |-> Empty, uses |-> <<>>, json |-> FALSE, maxOutputKB |-> k] :
        k \in {-1, 1, 2}}
(* The numbers of the documentation's ci_log. *)
DocTools ==
    {[params |-> <<Number(FALSE, Int_(10), {}, {}, {})>>, options |-> Empty,
      uses |-> <<Use("before", "float64")>>, json |-> FALSE, maxOutputKB |-> 0]}
MCArguments ==
    {Empty, [k \in {"before", "file", Reserved} |-> IF k = "before" THEN Float(1) ELSE Str("in")],
     [k \in {"before", "after"} |-> Str("2")], [k \in {"before"} |-> Float(2)],
     [k \in {"file"} |-> Str("out")]}
MCOutputs == {<<>>, <<1, 2, 1>>, <<1, 4, 3, 4>>, <<3, 3, 3>>, <<1, Broken, 1, 3, 4>>}
MCFiles == {"in"}
=============================================================================
