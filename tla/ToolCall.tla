------------------------------ MODULE ToolCall ------------------------------
(***************************************************************************)
(* One tool, from its definition in the configuration to its answers: what *)
(* schema.Process accepts of it, with the dry run of its template, and     *)
(* what Engine.Execute of internal/tools/tools.go does with a call.        *)
(* A Go value is its dynamic type, the text fmt.Sprint makes of it and, if *)
(* it is a number, that number.  Of a template its uses of the context are *)
(* kept, in their order: the key, the type that the function it is passed  *)
(* to asks for, and when it is reached, that is, the values of other keys  *)
(* on which the branches of if, with and range are taken that it is in.    *)
(***************************************************************************)
EXTENDS Integers, Sequences, FiniteSets, FiniteSetsExt

CONSTANTS
    Tools,      \* definitions of the tool, as yaml.Load leaves them
    Arguments,  \* what clients send: values of some names
    Outputs,    \* texts, each a sequence of the widths of its characters
    Files,      \* texts of paths that are in the project
    KB          \* bytes in a KB, 1024 in the code

Reserved == "mcpsmithy"
ParamTypes == {"string", "number", "bool", "array", "project_file_path"}
DefaultKB == 2  \* of maxOutputKB, 1024 in the code
Broken == 0     \* the width that stands for a byte of no character

NoValue == [go |-> "nil", text |-> "<nil>", num |-> 0]
Engine == [go |-> "engine", text |-> Reserved, num |-> 0]
NoEngine == [Engine EXCEPT !.text = ""]  \* without conventions, sources, tools

ASSUME ToolAssumption ==
    /\ KB \in Nat \ {0}
    /\ \A t \in Tools :
        /\ DOMAIN t = {"params", "options", "uses", "json", "maxOutputKB"}
        /\ t.maxOutputKB \in Int /\ t.json \in BOOLEAN
        /\ t.params \in Seq({t.params[i] : i \in DOMAIN t.params})
        /\ \A i \in DOMAIN t.params :
            /\ DOMAIN t.params[i] = {"name", "type", "required", "default", "enum", "min", "max"}
            /\ Cardinality(t.params[i].min) <= 1 /\ Cardinality(t.params[i].max) <= 1
        \* a branch is taken on what was looked up before, on the way to it
        /\ t.uses \in Seq({t.uses[i] : i \in DOMAIN t.uses})
        /\ \A i \in DOMAIN t.uses : \A c \in t.uses[i].when :
            \E j \in 1..(i - 1) :
                c.key = t.uses[j].key /\ t.uses[j].when \subseteq t.uses[i].when
    /\ \A a \in Arguments : \A k \in DOMAIN a : a[k] # Engine
    /\ \A o \in Outputs : o \in Seq(Broken..4)

VARIABLES
    pc,         \* "load", "refused", "ready", "params" or "cut"
    tool,       \* the definition
    sent,       \* the arguments of the call
    params,     \* the map of Execute
    at,         \* the parameter its loop is at
    seen,       \* what the template is executed on
    out,        \* what it wrote
    answer      \* how the last call ended: its text, or why it failed

vars == <<pc, tool, sent, params, at, seen, out, answer>>

Declared == {tool.params[i] : i \in DOMAIN tool.params}
Over(f, g) == [k \in DOMAIN f \cup DOMAIN g |-> IF k \in DOMAIN g THEN g[k] ELSE f[k]]
Empty == [k \in {} |-> NoValue]

(* zeroForType of the engine and ZeroForParamType of the dry run agree. *)
Zero(type) ==
    CASE type = "number" -> [go |-> "float64", text |-> "0", num |-> 0]
      [] type = "bool" -> [go |-> "bool", text |-> "false", num |-> 0]
      [] type = "array" -> [go |-> "slice", text |-> "[]", num |-> 0]
      [] OTHER -> [go |-> "string", text |-> "", num |-> 0]

-----------------------------------------------------------------------------
(* Load: defaults first, then the checks.  Compatible says which Go types  *)
(* a literal of a parameter's type may have; a number may be an int.       *)
Compatible(type, x) ==
    \/ x.go = Zero(type).go \/ x.go = "nil"
    \/ type = "number" /\ x.go = "int"

NameOK(p) == p.name \notin {"", Reserved}

TypeNameOK(p) == p.type \in ParamTypes

DefaultOK(p) == Compatible(p.type, p.default)

(* oneOfErrors: an enum excludes a minimum and a maximum. *)
GroupsOK(p) == p.enum = {} \/ p.min \cup p.max = {}

(* checkConstraintsStruct *)
RangeOK(p) ==
    /\ p.min \cup p.max # {} => p.type = "number"
    /\ \A lo \in p.min, hi \in p.max : lo <= hi
    /\ \A x \in p.enum : Compatible(p.type, x)

LimitOK(t) == t.maxOutputKB >= 1

Reached(u, context) ==
    \A c \in u.when : c.key \in DOMAIN context /\ context[c.key] \in c.values

Lacks(u, context) == Reached(u, context) /\ u.key \notin DOMAIN context

WrongKind(u, context) ==
    /\ Reached(u, context) /\ u.key \in DOMAIN context
    /\ u.want \notin {"any", context[u.key].go}

Failing(t, context) ==
    {i \in DOMAIN t.uses : Lacks(t.uses[i], context) \/ WrongKind(t.uses[i], context)}

(* The first use that fails ends the execution of a template. *)
Executed(t, context) ==
    IF Failing(t, context) = {} THEN "none"
    ELSE IF Lacks(t.uses[Min(Failing(t, context))], context) THEN "nokey" ELSE "kind"

(* Tool.Validate executes the template on the zero value of each parameter *)
(* and on the options, unless it calls from_json; so in the branches that  *)
(* are taken on those.                                                     *)
DryContext(t) ==
    LET zeros == [k \in {t.params[i].name : i \in DOMAIN t.params} |->
                    Zero(t.params[Max({i \in DOMAIN t.params : t.params[i].name = k})].type)]
    IN  Over(Over([k \in {Reserved} |-> NoEngine], zeros), t.options)

DryRunOK(t) == t.json \/ Executed(t, DryContext(t)) = "none"

Defaulted(t) == [t EXCEPT !.maxOutputKB = IF @ = 0 THEN DefaultKB ELSE @]

Accepted(t) ==
    /\ \A i \in DOMAIN t.params :
        LET p == t.params[i]
        IN  NameOK(p) /\ TypeNameOK(p) /\ DefaultOK(p) /\ GroupsOK(p) /\ RangeOK(p)
    /\ LimitOK(t) /\ DryRunOK(t)

Init ==
    /\ pc = "load" /\ tool \in Tools
    /\ sent = Empty /\ params = Empty /\ at = 1 /\ seen = Empty
    /\ out = <<>> /\ answer = "none"

Load ==
    /\ pc = "load"
    /\ tool' = Defaulted(tool)
    /\ pc' = IF Accepted(Defaulted(tool)) THEN "ready" ELSE "refused"
    /\ UNCHANGED <<sent, params, at, seen, out, answer>>

-----------------------------------------------------------------------------
(* Execute. *)
Call ==
    /\ pc = "ready"
    /\ sent' \in Arguments /\ params' = sent'
    /\ at' = 1 /\ seen' = Empty /\ out' = <<>> /\ answer' = "none"
    /\ pc' = "params"
    /\ UNCHANGED tool

(* Mutants: a parameter that is not given and has no default stays unset;  *)
(* the defaults replace what is given; only what is given is checked.      *)
FilledAlone(p) ==
    IF p.name \in DOMAIN params THEN params
    ELSE [k \in {p.name} |-> IF p.default # NoValue THEN p.default ELSE Zero(p.type)]

FilledUnset(p) ==
    IF p.name \in DOMAIN params \/ p.default = NoValue THEN params
    ELSE Over([k \in {p.name} |-> p.default], params)

Filled(p) ==
    IF p.name \in DOMAIN params THEN params
    ELSE Over([k \in {p.name} |-> IF p.default # NoValue THEN p.default ELSE Zero(p.type)],
              params)

(* validateConstraint compares texts for an enum, so "1" passes for 1. *)
WithinGiven(p, x) ==
    IF p.name \notin DOMAIN sent THEN TRUE
    ELSE IF p.enum # {} THEN \E e \in p.enum : e.text = x.text
    ELSE p.min \cup p.max # {} =>
            /\ x.go \in {"int", "float64"}
            /\ \A lo \in p.min : x.num >= lo
            /\ \A hi \in p.max : x.num <= hi

Within(p, x) ==
    IF p.enum # {} THEN \E e \in p.enum : e.text = x.text
    ELSE p.min \cup p.max # {} =>
            /\ x.go \in {"int", "float64"}
            /\ \A lo \in p.min : x.num >= lo
            /\ \A hi \in p.max : x.num <= hi

PathOK(p, x) ==
    p.type = "project_file_path" /\ x.go = "string" /\ x.text # "" => x.text \in Files

(* One turn of the loop over the declared parameters. *)
Param ==
    /\ pc = "params" /\ at <= Len(tool.params)
    /\ LET p == tool.params[at]
           x == IF p.name \in DOMAIN Filled(p) THEN Filled(p)[p.name] ELSE NoValue
           why == IF p.required /\ p.name \notin DOMAIN params THEN "missing"
                  ELSE IF ~PathOK(p, x) THEN "path"
                  ELSE IF ~Within(p, x) THEN "constraint" ELSE "none"
       IN  /\ answer' = why
           /\ IF why = "none"
              THEN params' = Filled(p) /\ at' = at + 1 /\ UNCHANGED pc
              ELSE pc' = "ready" /\ UNCHANGED <<params, at>>
    /\ UNCHANGED <<tool, sent, seen, out>>

(* Mutant: what a client sends takes precedence over the options. *)
ContextSent ==
    LET all == Over(tool.options, params)
    IN  Over(all, [k \in {Reserved} |-> Engine])

(* The options are copied over the parameters, and the engine's own key    *)
(* over both.                                                              *)
Context ==
    LET all == Over(params, tool.options)
    IN  Over(all, [k \in {Reserved} |-> Engine])

Render ==
    /\ pc = "params" /\ at > Len(tool.params)
    /\ seen' = Context
    /\ IF Executed(tool, Context) = "none"
       THEN out' \in Outputs /\ pc' = "cut" /\ UNCHANGED answer
       ELSE answer' = Executed(tool, Context) /\ pc' = "ready" /\ UNCHANGED out
    /\ UNCHANGED <<tool, sent, params, at>>

Width(w) == IF w = Broken THEN 1 ELSE w
Bytes(text) == MapThenSumSet(LAMBDA i : Width(text[i]), DOMAIN text)

Limit == IF tool.maxOutputKB * KB <= 0 THEN DefaultKB * KB ELSE tool.maxOutputKB * KB

(* Mutant: the text is cut to whole characters that end behind the limit. *)
CutLate(text, limit) ==
    LET n == Min({k \in 0..Len(text) : Bytes(SubSeq(text, 1, k)) >= limit} \cup {Len(text)})
    IN  SubSeq(text, 1, n)

(* truncateOutput drops bytes until what is left is valid: behind a broken *)
(* byte nothing is.                                                        *)
Cut(text, limit) ==
    LET valid == {k \in 0..Len(text) : \A i \in 1..k : text[i] # Broken}
        n == Max({k \in valid : Bytes(SubSeq(text, 1, k)) <= limit})
    IN  IF Bytes(text) <= limit THEN text ELSE SubSeq(text, 1, n)

Answer ==
    /\ pc = "cut"
    /\ out' = Cut(out, Limit)
    /\ answer' = IF Bytes(out) <= Limit THEN "whole" ELSE "cut"
    /\ pc' = "ready"
    /\ UNCHANGED <<tool, sent, params, at, seen>>

Next == Load \/ Call \/ Param \/ Render \/ Answer

Spec == Init /\ [][Next]_vars

-----------------------------------------------------------------------------
(* Every variable has its type, and of an accepted tool all is as it says. *)
TypeOK ==
    /\ pc \in {"load", "refused", "ready", "params", "cut"}
    /\ pc \notin {"load", "refused"} => Accepted(tool)
    /\ sent \in Arguments \cup {Empty}
    /\ DOMAIN sent \subseteq DOMAIN params
    /\ at \in 1..(Len(tool.params) + 1)
    /\ answer \in {"none", "missing", "path", "constraint", "nokey", "kind", "whole", "cut"}

(* Execute: what a template is executed on meets the constraints of every  *)
(* parameter that no option replaces, given or not.                        *)
ConstraintsHold ==
    seen # Empty => \A p \in Declared : p.name \notin DOMAIN tool.options =>
        LET x == seen[p.name]
        IN  /\ p.enum # {} => x.text \in {e.text : e \in p.enum}
            /\ p.min \cup p.max # {} => x.go \in {"int", "float64"}
            /\ \A lo \in p.min : lo <= x.num
            /\ \A hi \in p.max : x.num <= hi

(* Execute and Context: no argument changes an option or the engine's key. *)
AuthorDecides ==
    seen # Empty =>
        /\ seen[Reserved] = Engine
        /\ \A k \in DOMAIN tool.options \ {Reserved} : seen[k] = tool.options[k]

Misfit(p, x) == x.go # Zero(p.type).go

(* A use in a branch that the dry run did not take and the call does.      *)
Untried(u) == Reached(u, seen) /\ ~Reached(u, DryContext(tool))

(* Tool.Validate: in the branches that its dry run took, a template misses *)
(* no key in any call, and meets a value of another type only where a      *)
(* client sent one, or a default or an option of the engine's own name     *)
(* stands for one.  In other branches it may do both.                      *)
DryRunPredicts ==
    ~tool.json =>
        /\ answer = "nokey" =>
            \E i \in DOMAIN tool.uses : Untried(tool.uses[i]) /\ Lacks(tool.uses[i], seen)
        /\ answer = "kind" =>
            \/ \E i \in DOMAIN tool.uses : Untried(tool.uses[i]) /\ WrongKind(tool.uses[i], seen)
            \/ \E p \in Declared : p.name \in DOMAIN sent /\ Misfit(p, sent[p.name])
            \/ \E p \in Declared : p.default # NoValue /\ Misfit(p, p.default)
            \/ Reserved \in DOMAIN tool.options
            \/ \E p, q \in Declared : p # q /\ p.name = q.name

(* truncateOutput: of a text that is valid what is left is valid, within   *)
(* the limit, and short of it by less than one character.                  *)
CutIsTight ==
    [][ LET whole == \A i \in DOMAIN out : out[i] # Broken
        IN  pc = "cut" /\ whole =>
            /\ \E n \in 0..Len(out) : out' = SubSeq(out, 1, n)
            /\ Bytes(out') <= Limit
            /\ out' # out => Bytes(out') > Limit - 4 ]_vars

-----------------------------------------------------------------------------
(* docs/user/reference/config/README.md:785: the tool ci_log declares its  *)
(* numbers with the default 10 and passes them to grep.  A call that sends *)
(* values of the declared types does not fail for the type of another.     *)
DefaultsRender ==
    answer = "kind" /\ ~tool.json /\ Reserved \notin DOMAIN tool.options =>
        \E p \in Declared : p.name \in DOMAIN sent /\ Misfit(p, sent[p.name])

(* internal/config/v1/types.go:270-273: the dry run "catches syntax        *)
(* errors, arity mismatches, and undeclared variable references in a       *)
(* single pass".  No accepted template, but one that calls from_json, for  *)
(* which it is not made, refers to what neither is declared nor there.     *)
NoKeyMissed == ~tool.json => answer # "nokey"
=============================================================================
