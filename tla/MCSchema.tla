------------------------------ MODULE MCSchema ------------------------------
(* Documents with sources of no, one or two kinds, a convention that       *)
(* refers to a source and to itself, a tool and its parameter, in which    *)
(* what is left out and what is wrong varies.                              *)
EXTENDS SchemaProcess, TLC

If(condition, x) == IF condition THEN {x} ELSE {}
StructNode(node, type, key, val) ==
    node :> [type |-> type, key |-> key, val |-> val, unsound |-> FALSE]

(* A document of choices o; the number is that of all fields that have one. *)
Document(o) ==
    LET kinds == IF o.kinds = {} THEN {} ELSE o.kinds \ {"none"}
        local == If("local" \in kinds, "l")
        git == If("git" \in kinds, "g")
        sources == If(kinds \cup o.kinds # {}, "sources")
        limits == If(o.limits # {}, "limits")
        all ==
            StructNode("root", "Config", "", [version |-> o.version, project |-> {"project"},
                conventions |-> {"c"}, tools |-> If(o.tool, "t")])
            @@ StructNode("project", "Project", "", [name |-> "n", description |-> "d",
                sources |-> sources, credentials |-> ""])
            @@ StructNode("sources", "ProjectSources", "", [pullPolicy |-> o.policy,
                syncInterval |-> o.number, local |-> local, scrape |-> {}, git |-> git, http |-> {}])
            @@ StructNode("l", "LocalSource", "l", [paths |-> o.paths, index |-> "",
                pullPolicy |-> o.policy])
            @@ StructNode("g", "GitSource", "g", [repo |-> "r", paths |-> {"p"}, depth |-> o.number,
                index |-> "false", pullPolicy |-> ""])
            @@ StructNode("c", "Convention", "c", [docs |-> {"doc"}, description |-> "d",
                relations |-> {"rel"}])
            @@ StructNode("doc", "DocRef", "", [source |-> o.doc])
            @@ StructNode("rel", "ConventionRelations", "", [target |-> o.target])
            @@ StructNode("t", "Tool", "t", [description |-> "d", template |-> "t",
                params |-> {"x", "y"}, maxOutputKB |-> o.number])
            @@ StructNode("x", "ToolParam", "", [name |-> o.name, type |-> o.type,
                constraints |-> limits])
            @@ StructNode("y", "ToolParam", "", [name |-> "y", type |-> "bool", constraints |-> {}])
            @@ StructNode("limits", "ParamConstraints", "", [enum |-> o.limits \ {"min"},
                min |-> IF "min" \in o.limits THEN "1" ELSE "", max |-> ""])
        nodes == {"root", "project", "c", "doc", "rel"} \cup sources \cup local \cup git
                 \cup IF o.tool THEN {"t", "x", "y"} \cup limits ELSE {}
    IN  [n \in nodes |-> [all[n] EXCEPT !.unsound = o.unsound /\ n = "t"]]

Chosen(kinds, policies, docs, paths, numbers, types, limits) ==
    {[version |-> "1", kinds |-> k, policy |-> p, doc |-> d, target |-> "c", paths |-> s,
      number |-> n, tool |-> TRUE, name |-> "x", type |-> y, limits |-> l, unsound |-> FALSE] :
        k \in kinds, p \in policies, d \in docs, s \in paths, n \in numbers, y \in types, l \in limits}
Plain == Chosen({{"local"}}, {""}, {"l"}, {{"p"}}, {0}, {"string"}, {{}})

MCDocuments ==
    {Document(o) : o \in
        Chosen({{}, {"none"}, {"local"}, {"git"}, {"local", "git"}}, {"", "always", "often"},
                {"", "l", "g"}, {{}, {"p"}, {"p", ""}}, {0, -1, 2}, {"string"}, {{}})
        \cup Chosen({{"git"}}, {""}, {"g"}, {{"p"}}, {0, -1}, {"", "number", "int"},
                     {{}, {"min"}, {"1"}, {"1", "min"}})
        \cup UNION {{[o EXCEPT !.version = "2"], [o EXCEPT !.tool = FALSE], [o EXCEPT !.target = "z"],
                     [o EXCEPT !.name = ""], [o EXCEPT !.name = ReservedName],
                     [o EXCEPT !.unsound = TRUE]} : o \in Plain}}
=============================================================================
