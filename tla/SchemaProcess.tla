---------------------------- MODULE SchemaProcess ----------------------------
(***************************************************************************)
(* How a configuration is accepted: config.Parse takes the parser of its   *)
(* version, and schema.Process walks the tree of structs, guided by their  *)
(* tags: a first walk fills defaults in and checks the fields, a second    *)
(* one checks whole structs.                                               *)
(* A document is a set of struct nodes.  A field that holds structs has    *)
(* the set of their nodes; a node in a map has its key.  Values of other   *)
(* fields are texts or numbers, a list is the set of its elements.         *)
(***************************************************************************)
EXTENDS Integers, Sequences, FiniteSets, SequencesExt

CONSTANT Documents  \* what yaml.Load makes of configuration files

VARIABLES
    pass,     \* "version", "leaves", "structs", "done" or "unsupported"
    origin,   \* the document as it was loaded
    heap,     \* the document as it is
    stack,    \* calls of walk that have not returned
    errs      \* errors found: a node, a field or a group, and what is wrong

schemaVars == <<pass, origin, heap, stack, errs>>

-----------------------------------------------------------------------------
(* A field and its tag, as parseTag reads it.  zero is what isZero holds   *)
(* of: no text, 0, a nil pointer, a list or map without elements.          *)
Field(name, kind, elem, zero) ==
    [name |-> name, kind |-> kind, elem |-> elem, zero |-> zero,
     required |-> FALSE, default |-> {}, min |-> {}, allowed |-> {},
     notreserved |-> FALSE, refs |-> {}, groups |-> {}]

TextField(name) == Field(name, "leaf", "", "")
NumberField(name) == Field(name, "leaf", "", 0)
ListField(name) == Field(name, "list", "", {})
StructField(name, type) == Field(name, "struct", type, {})
PointerField(name, type) == Field(name, "pointer", type, {})
StructsField(name, type) == Field(name, "structs", type, {})  \* a map or a slice

Req(f) == [f EXCEPT !.required = TRUE]
Def(f, v) == [f EXCEPT !.default = {v}]
AtLeast(f, n) == [f EXCEPT !.min = {n}]
Enum(f, values) == [f EXCEPT !.allowed = values]
Refs(f, paths) == [f EXCEPT !.refs = paths]
Groups(f, groups) == [f EXCEPT !.groups = groups]  \* of oneof?: at most one

Policies == {"always", "ifNotPresent", "never"}
PullPolicy == Enum(TextField("pullPolicy"), Policies)
IndexField == Def(TextField("index"), "true")

(* The structs of internal/config/v1/types.go: the fields that have a tag  *)
(* or hold structs.                                                        *)
ConfigType ==
    <<Req(TextField("version")), StructField("project", "Project"),
      StructsField("conventions", "Convention"), Req(StructsField("tools", "Tool"))>>
ProjectType ==
    <<Req(TextField("name")), Req(TextField("description")),
      PointerField("sources", "ProjectSources"),
      Def(TextField("credentials"), "~/.mcpsmithy/credentials")>>
ProjectSourcesType ==
    <<Def(PullPolicy, "ifNotPresent"), AtLeast(Def(NumberField("syncInterval"), 0), 0),
      StructsField("local", "LocalSource"), StructsField("scrape", "ScrapeSource"),
      StructsField("git", "GitSource"), StructsField("http", "HTTPSource")>>
LocalSourceType == <<Req(ListField("paths")), IndexField, PullPolicy>>
ScrapeSourceType ==
    <<Req(ListField("urls")), IndexField, AtLeast(Def(NumberField("maxDepth"), 0), 0),
      AtLeast(Def(NumberField("maxPageSize"), 2048), 0),
      AtLeast(Def(NumberField("maxPages"), 20), 0), PullPolicy>>
GitSourceType ==
    <<Req(TextField("repo")), Req(ListField("paths")),
      AtLeast(Def(NumberField("depth"), 1), 1), IndexField, PullPolicy>>
HTTPSourceType == <<Req(TextField("url")), Req(ListField("paths")), IndexField, PullPolicy>>
ConventionType ==
    <<StructsField("docs", "DocRef"), Req(TextField("description")),
      StructsField("relations", "ConventionRelations")>>
ConventionRelationsType == <<Refs(Req(TextField("target")), {<<"conventions">>})>>
DocRefType ==
    <<Refs(Req(TextField("source")),
           {<<"project", "sources", kind>> : kind \in {"local", "scrape", "git", "http"}})>>
ToolType ==
    <<Req(TextField("description")), Req(TextField("template")),
      StructsField("params", "ToolParam"), AtLeast(Def(NumberField("maxOutputKB"), 1024), 1)>>
ToolParamType ==
    <<[Req(TextField("name")) EXCEPT !.notreserved = TRUE],
      Req(Enum(TextField("type"), {"string", "number", "bool", "array", "project_file_path"})),
      PointerField("constraints", "ParamConstraints")>>
ParamConstraintsType ==
    <<Groups(ListField("enum"), {"no_enum_with_min", "no_enum_with_max"}),
      Groups(TextField("min"), {"no_enum_with_min"}),
      Groups(TextField("max"), {"no_enum_with_max"})>>

Types ==
    [Config |-> ConfigType, Project |-> ProjectType, ProjectSources |-> ProjectSourcesType,
     LocalSource |-> LocalSourceType, ScrapeSource |-> ScrapeSourceType,
     GitSource |-> GitSourceType, HTTPSource |-> HTTPSourceType,
     Convention |-> ConventionType, ConventionRelations |-> ConventionRelationsType,
     DocRef |-> DocRefType, Tool |-> ToolType, ToolParam |-> ToolParamType,
     ParamConstraints |-> ParamConstraintsType]

Root == "root"
ReservedName == "mcpsmithy"
Checks == {"required", "values", "min", "notreserved", "ref"}
Holders == {"struct", "pointer", "structs"}
NamesOf(document, n) ==
    LET fields == Types[document[n].type] IN {fields[i].name : i \in DOMAIN fields}
Tag(document, n, name) ==
    LET fields == Types[document[n].type]
    IN  fields[CHOOSE i \in DOMAIN fields : fields[i].name = name]

(* The nodes that a node holds. *)
Held(document, n) ==
    UNION {document[n].val[name] :
             name \in {m \in NamesOf(document, n) : Tag(document, n, m).kind \in Holders}}

(* A node: its type, its key, its values, and whether the checks of a tool *)
(* or of a parameter that module ToolCall has find it wrong.  The root     *)
(* leads to each node: of any that it is not among, some other holds one.  *)
ASSUME DocumentAssumption ==
    \A d \in Documents :
        /\ Root \in DOMAIN d /\ d[Root].type = "Config"
        /\ \A n \in DOMAIN d :
            /\ DOMAIN d[n] = {"type", "key", "val", "unsound"}
            /\ d[n].type \in DOMAIN Types
            /\ DOMAIN d[n].val = NamesOf(d, n)
            /\ \A name \in NamesOf(d, n) :
                /\ Tag(d, n, name).kind \in Holders =>
                    \A c \in d[n].val[name] : c \in DOMAIN d /\ d[c].type = Tag(d, n, name).elem
                /\ Tag(d, n, name).min # {} => d[n].val[name] \in Int
        /\ \A nodes \in SUBSET (DOMAIN d \ {Root}) : nodes # {} =>
            \E n \in DOMAIN d \ nodes : Held(d, n) \cap nodes # {}

-----------------------------------------------------------------------------
(* resolveMapKeys: the keys of the map that a path of fields leads to. *)
KeysAt(path) ==
    LET nodes[k \in 0..Len(path)] ==
            IF k = 0 THEN {Root} ELSE UNION {heap[n].val[path[k]] : n \in nodes[k - 1]}
    IN  {heap[n].key : n \in nodes[Len(path)]}

(* Mutant: a reference is checked against one of its maps. *)
DeclaredKeysOne(f) == IF f.refs = {} THEN {} ELSE KeysAt(CHOOSE path \in f.refs : TRUE)

DeclaredKeys(f) == UNION {KeysAt(path) : path \in f.refs}

(* The callback of the first walk: a field that is not set gets its        *)
(* default, and the value it then has is checked.                          *)
WithDefault(f, v) ==
    IF v = f.zero /\ f.default # {} THEN CHOOSE x \in f.default : TRUE ELSE v

(* A required list has elements and each is required; a value that is not  *)
(* set is checked no further; a reference needs a key of one of its maps,  *)
(* unless none of them has any.                                            *)
FieldErrors(n, f, v) ==
    LET keys == DeclaredKeys(f)
        Is(w) ==
            CASE w = "required" -> f.required /\ (v = f.zero \/ (f.kind = "list" /\ "" \in v))
              [] w = "values" -> v # f.zero /\ f.allowed # {} /\ v \notin f.allowed
              [] w = "min" -> v # f.zero /\ \E m \in f.min : v < m
              [] w = "notreserved" -> f.notreserved /\ v = ReservedName
              [] w = "ref" -> v # f.zero /\ keys # {} /\ v \notin keys
    IN  {<<n, f.name, w>> : w \in {w \in Checks : Is(w)}}

(* The callback of the second walk: two members of a group are set, or a   *)
(* check of ToolCall fails.                                                *)
StructErrors(n) ==
    LET set(g) == {name \in NamesOf(heap, n) :
                      g \in Tag(heap, n, name).groups /\ heap[n].val[name] # Tag(heap, n, name).zero}
        groups == UNION {Tag(heap, n, name).groups : name \in NamesOf(heap, n)}
    IN  {<<n, g, "oneof">> : g \in {g \in groups : Cardinality(set(g)) > 1}}
        \cup {<<n, "", "unsound">> : m \in {n} \cap {k \in DOMAIN heap : heap[k].unsound}}

-----------------------------------------------------------------------------
SchemaInit ==
    /\ pass = "version"
    /\ origin \in Documents /\ heap = origin
    /\ stack = <<>> /\ errs = {}

(* A call of walk works on a copy of the struct, written back at its end:  *)
(* walkMap does that, elsewhere the fields are set in place.               *)
Frame(n) == [node |-> n, val |-> heap[n].val, at |-> 1, todo |-> {}]
Top == Last(stack)
Fields == Types[heap[Top.node].type]
Walking == stack # <<>>

(* config.Parse: the only version so far is "1". *)
Version ==
    /\ pass = "version"
    /\ IF heap[Root].val.version = "1"
       THEN pass' = "leaves" /\ stack' = <<Frame(Root)>>
       ELSE pass' = "unsupported" /\ UNCHANGED stack
    /\ UNCHANGED <<origin, heap, errs>>

(* The next field of the struct: in the first walk it is set and checked,  *)
(* and then the structs it holds are walked, in any order.                 *)
WalkField ==
    /\ Walking /\ Top.todo = {} /\ Top.at <= Len(Fields)
    /\ LET f == Fields[Top.at]
           v == IF pass = "leaves" THEN WithDefault(f, Top.val[f.name]) ELSE Top.val[f.name]
       IN  /\ stack' = Append(Front(stack),
                    [Top EXCEPT !.val[f.name] = v, !.at = @ + 1,
                                !.todo = IF f.kind \in Holders THEN v ELSE {}])
           /\ errs' = IF pass = "leaves" THEN errs \cup FieldErrors(Top.node, f, v) ELSE errs
    /\ UNCHANGED <<pass, origin, heap>>

WalkInto ==
    /\ Walking
    /\ \E c \in Top.todo :
        /\ stack' = Front(stack) \o <<[Top EXCEPT !.todo = @ \ {c}], Frame(c)>>
        /\ errs' = IF pass = "structs" THEN errs \cup StructErrors(c) ELSE errs
    /\ UNCHANGED <<pass, origin, heap>>

(* Mutant: what was walked as a copy, a struct in a map, is not put back. *)
WalkOutLost ==
    /\ Walking /\ Top.todo = {} /\ Top.at > Len(Fields)
    /\ stack' = Front(stack)
    /\ IF heap[Top.node].key # "" THEN UNCHANGED heap
       ELSE heap' = [heap EXCEPT ![Top.node].val = Top.val]
    /\ UNCHANGED <<pass, origin, errs>>

WalkOut ==
    /\ Walking /\ Top.todo = {} /\ Top.at > Len(Fields)
    /\ stack' = Front(stack)
    /\ heap' = [heap EXCEPT ![Top.node].val = Top.val]
    /\ UNCHANGED <<pass, origin, errs>>

(* Process: the second walk, and the return. *)
EndWalk ==
    /\ stack = <<>>
    /\ \/ /\ pass = "leaves" /\ pass' = "structs"
          /\ stack' = <<Frame(Root)>> /\ errs' = errs \cup StructErrors(Root)
       \/ pass = "structs" /\ pass' = "done" /\ UNCHANGED <<stack, errs>>
    /\ UNCHANGED <<origin, heap>>

SchemaNext == Version \/ WalkField \/ WalkInto \/ WalkOut \/ EndWalk

SchemaSpec == SchemaInit /\ [][SchemaNext]_schemaVars

-----------------------------------------------------------------------------
(* schema.Process: when it returns, every field of every struct, however   *)
(* deep in maps, lists and pointers, has its default if it was not set,    *)
(* and exactly the wrong fields and structs are reported.                  *)
ReportIsExact ==
    pass = "done" =>
        LET Value(n, name) == WithDefault(Tag(origin, n, name), origin[n].val[name])
            Wrong(n) == UNION {FieldErrors(n, Tag(origin, n, name), Value(n, name)) :
                                  name \in NamesOf(origin, n)}
        IN  /\ \A n \in DOMAIN origin : \A name \in NamesOf(origin, n) :
                    heap[n].val[name] = Value(n, name)
            /\ errs = UNION {Wrong(n) \cup StructErrors(n) : n \in DOMAIN origin}

(* What the rest of the program relies on in a struct. *)
Sound(n) ==
    LET v == heap[n].val
        Keys(type) == {heap[m].key : m \in {m \in DOMAIN heap : heap[m].type = type}}
        Sources == UNION {Keys(type) : type \in {"LocalSource", "ScrapeSource", "GitSource", "HTTPSource"}}
    IN  CASE heap[n].type = "ProjectSources" -> v.pullPolicy \in Policies /\ v.syncInterval >= 0
          [] heap[n].type \in {"LocalSource", "HTTPSource"} ->
                v.paths # {} /\ "" \notin v.paths /\ v.pullPolicy \in Policies \cup {""}
          [] heap[n].type = "GitSource" -> v.depth >= 1 /\ v.paths # {} /\ v.repo # ""
          [] heap[n].type = "ScrapeSource" -> v.urls # {} /\ v.maxDepth >= 0 /\ v.maxPages >= 1
          [] heap[n].type = "DocRef" -> v.source # "" /\ (Sources # {} => v.source \in Sources)
          [] heap[n].type = "ConventionRelations" -> v.target \in Keys("Convention")
          [] heap[n].type = "Tool" -> v.template # "" /\ v.maxOutputKB >= 1 /\ ~heap[n].unsound
          [] heap[n].type = "ToolParam" -> v.name \notin {"", ReservedName} /\ v.type # ""
          [] heap[n].type = "ParamConstraints" -> v.enum = {} \/ (v.min = "" /\ v.max = "")
          [] OTHER -> TRUE

(* schema.Process: what the rest of the program relies on holds in each    *)
(* struct of a configuration that is accepted: its sources can be fetched  *)
(* and read, its tools can be offered, a relation leads to a convention    *)
(* that is there, and a docs entry to a source that is declared, except    *)
(* that it may name any source where none is declared: process.go:83 asks  *)
(* for a match only if there is something to match, and process_test.go:507*)
(* wants it so, although types.go:235 says of DocRef.Source "must match a  *)
(* key in project.sources".                                                *)
AcceptedIsSound == pass = "done" /\ errs = {} => \A n \in DOMAIN heap : Sound(n)
=============================================================================
