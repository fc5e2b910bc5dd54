----------------------------- MODULE SchemaProofs -----------------------------
(***************************************************************************)
(* Theorems about SchemaProcess, for every document: the two walks report  *)
(* exactly what is wrong and leave every field with its default, and what  *)
(* is accepted is what the rest of the program relies on.                  *)
(***************************************************************************)
EXTENDS SchemaProcess, DataLemmas, SequenceTheorems

-----------------------------------------------------------------------------
(* The table of types, field by field.                                     *)
Is(f, name, kind, elem, zero, default) ==
    f.name = name /\ f.kind = kind /\ f.elem = elem /\ f.zero = zero /\ f.default = default
Has(f, min, allowed, refs, groups) ==
    f.min = min /\ f.allowed = allowed /\ f.refs = refs /\ f.groups = groups

LEMMA TextIs == \A n : LET f == TextField(n) IN Is(f, n, "leaf", "", "", {}) /\ Has(f, {}, {}, {}, {})
BY DEF TextField, Field, Is, Has
LEMMA ReqTextIs ==
    \A n : LET f == Req(TextField(n))
           IN  Is(f, n, "leaf", "", "", {}) /\ Has(f, {}, {}, {}, {}) /\ f.required
BY DEF Req, TextField, Field, Is, Has
LEMMA DefTextIs ==
    \A n, v : LET f == Def(TextField(n), v)
              IN  Is(f, n, "leaf", "", "", {v}) /\ Has(f, {}, {}, {}, {})
BY DEF Def, TextField, Field, Is, Has
LEMMA NumberIs ==
    \A n, v, m : LET f == AtLeast(Def(NumberField(n), v), m)
                 IN  Is(f, n, "leaf", "", 0, {v}) /\ Has(f, {m}, {}, {}, {})
BY DEF AtLeast, Def, NumberField, Field, Is, Has
LEMMA ReqListIs ==
    \A n : LET f == Req(ListField(n))
           IN  Is(f, n, "list", "", {}, {}) /\ Has(f, {}, {}, {}, {}) /\ f.required
BY DEF Req, ListField, Field, Is, Has
LEMMA HoldersAre ==
    \A n, t :
        /\ Is(StructField(n, t), n, "struct", t, {}, {}) /\ Has(StructField(n, t), {}, {}, {}, {})
        /\ Is(PointerField(n, t), n, "pointer", t, {}, {}) /\ Has(PointerField(n, t), {}, {}, {}, {})
        /\ Is(StructsField(n, t), n, "structs", t, {}, {}) /\ Has(StructsField(n, t), {}, {}, {}, {})
BY DEF StructField, PointerField, StructsField, Field, Is, Has
LEMMA ReqStructsIs ==
    \A n, t : LET f == Req(StructsField(n, t))
              IN  Is(f, n, "structs", t, {}, {}) /\ Has(f, {}, {}, {}, {})
BY DEF Req, StructsField, Field, Is, Has
LEMMA PolicyIs ==
    /\ Is(PullPolicy, "pullPolicy", "leaf", "", "", {}) /\ Has(PullPolicy, {}, Policies, {}, {})
    /\ \A v : LET f == Def(PullPolicy, v)
              IN  Is(f, "pullPolicy", "leaf", "", "", {v}) /\ Has(f, {}, Policies, {}, {})
BY DEF PullPolicy, Enum, Def, TextField, Field, Is, Has
LEMMA RefsAre ==
    \A n, s : LET f == Refs(Req(TextField(n)), s)
              IN  Is(f, n, "leaf", "", "", {}) /\ Has(f, {}, {}, s, {}) /\ f.required
BY DEF Refs, Req, TextField, Field, Is, Has
LEMMA EnumIs ==
    \A n, s : LET f == Req(Enum(TextField(n), s))
              IN  Is(f, n, "leaf", "", "", {}) /\ Has(f, {}, s, {}, {}) /\ f.required
BY DEF Enum, Req, TextField, Field, Is, Has
LEMMA NotReservedIs ==
    \A n : LET f == [Req(TextField(n)) EXCEPT !.notreserved = TRUE]
           IN  Is(f, n, "leaf", "", "", {}) /\ Has(f, {}, {}, {}, {}) /\ f.required /\ f.notreserved
BY DEF Req, TextField, Field, Is, Has
LEMMA GroupsAre ==
    \A n, g :
        /\ Is(Groups(ListField(n), g), n, "list", "", {}, {})
        /\ Has(Groups(ListField(n), g), {}, {}, {}, g)
        /\ Is(Groups(TextField(n), g), n, "leaf", "", "", {})
        /\ Has(Groups(TextField(n), g), {}, {}, {}, g)
BY DEF Groups, ListField, TextField, Field, Is, Has

PageDefault == 2048
OutputDefault == 1024
SourceKinds == {"local", "scrape", "git", "http"}
ToSources == {<<"project", "sources", kind>> : kind \in SourceKinds}
ToConventions == {<<"conventions">>}
ValueTypes == {"string", "number", "bool", "array", "project_file_path"}

LEMMA ConfigRows ==
    LET t == Types["Config"]
    IN  /\ Len(t) = 4 /\ DOMAIN t = 1..4
        /\ Is(t[1], "version", "leaf", "", "", {}) /\ Has(t[1], {}, {}, {}, {}) /\ t[1].required
        /\ Is(t[2], "project", "struct", "Project", {}, {}) /\ Has(t[2], {}, {}, {}, {})
        /\ Is(t[3], "conventions", "structs", "Convention", {}, {}) /\ Has(t[3], {}, {}, {}, {})
        /\ Is(t[4], "tools", "structs", "Tool", {}, {}) /\ Has(t[4], {}, {}, {}, {})
<1>1. Types["Config"] = ConfigType
  BY DEF Types
<1>2. /\ Len(ConfigType) = 4 /\ DOMAIN ConfigType = 1..4
      /\ ConfigType[1] = Req(TextField("version"))
      /\ ConfigType[2] = StructField("project", "Project")
      /\ ConfigType[3] = StructsField("conventions", "Convention")
      /\ ConfigType[4] = Req(StructsField("tools", "Tool"))
  BY DEF ConfigType
<1>3. QED
  BY <1>1, <1>2, ReqTextIs, HoldersAre, ReqStructsIs

LEMMA ProjectRows ==
    LET t == Types["Project"]
    IN  /\ Len(t) = 4 /\ DOMAIN t = 1..4
        /\ Is(t[1], "name", "leaf", "", "", {}) /\ Has(t[1], {}, {}, {}, {}) /\ t[1].required
        /\ Is(t[2], "description", "leaf", "", "", {}) /\ Has(t[2], {}, {}, {}, {}) /\ t[2].required
        /\ Is(t[3], "sources", "pointer", "ProjectSources", {}, {}) /\ Has(t[3], {}, {}, {}, {})
        /\ Is(t[4], "credentials", "leaf", "", "", {"~/.mcpsmithy/credentials"})
        /\ Has(t[4], {}, {}, {}, {})
<1>1. Types["Project"] = ProjectType
  BY DEF Types
<1>2. /\ Len(ProjectType) = 4 /\ DOMAIN ProjectType = 1..4
      /\ ProjectType[1] = Req(TextField("name"))
      /\ ProjectType[2] = Req(TextField("description"))
      /\ ProjectType[3] = PointerField("sources", "ProjectSources")
      /\ ProjectType[4] = Def(TextField("credentials"), "~/.mcpsmithy/credentials")
  BY DEF ProjectType
<1>3. QED
  BY <1>1, <1>2, ReqTextIs, HoldersAre, DefTextIs

LEMMA ProjectSourcesRows ==
    LET t == Types["ProjectSources"]
    IN  /\ Len(t) = 6 /\ DOMAIN t = 1..6
        /\ Is(t[1], "pullPolicy", "leaf", "", "", {"ifNotPresent"})
        /\ Has(t[1], {}, Policies, {}, {})
        /\ Is(t[2], "syncInterval", "leaf", "", 0, {0}) /\ Has(t[2], {0}, {}, {}, {})
        /\ Is(t[3], "local", "structs", "LocalSource", {}, {}) /\ Has(t[3], {}, {}, {}, {})
        /\ Is(t[4], "scrape", "structs", "ScrapeSource", {}, {}) /\ Has(t[4], {}, {}, {}, {})
        /\ Is(t[5], "git", "structs", "GitSource", {}, {}) /\ Has(t[5], {}, {}, {}, {})
        /\ Is(t[6], "http", "structs", "HTTPSource", {}, {}) /\ Has(t[6], {}, {}, {}, {})
<1>1. Types["ProjectSources"] = ProjectSourcesType
  BY DEF Types
<1>2. /\ Len(ProjectSourcesType) = 6 /\ DOMAIN ProjectSourcesType = 1..6
      /\ ProjectSourcesType[1] = Def(PullPolicy, "ifNotPresent")
      /\ ProjectSourcesType[2] = AtLeast(Def(NumberField("syncInterval"), 0), 0)
      /\ ProjectSourcesType[3] = StructsField("local", "LocalSource")
      /\ ProjectSourcesType[4] = StructsField("scrape", "ScrapeSource")
      /\ ProjectSourcesType[5] = StructsField("git", "GitSource")
      /\ ProjectSourcesType[6] = StructsField("http", "HTTPSource")
  BY DEF ProjectSourcesType
<1>3. QED
  BY <1>1, <1>2, PolicyIs, NumberIs, HoldersAre

LEMMA LocalSourceRows ==
    LET t == Types["LocalSource"]
    IN  /\ Len(t) = 3 /\ DOMAIN t = 1..3
        /\ Is(t[1], "paths", "list", "", {}, {}) /\ Has(t[1], {}, {}, {}, {}) /\ t[1].required
        /\ Is(t[2], "index", "leaf", "", "", {"true"}) /\ Has(t[2], {}, {}, {}, {})
        /\ Is(t[3], "pullPolicy", "leaf", "", "", {}) /\ Has(t[3], {}, Policies, {}, {})
<1>1. Types["LocalSource"] = LocalSourceType
  BY DEF Types
<1>2. /\ Len(LocalSourceType) = 3 /\ DOMAIN LocalSourceType = 1..3
      /\ LocalSourceType[1] = Req(ListField("paths"))
      /\ LocalSourceType[2] = IndexField
      /\ LocalSourceType[3] = PullPolicy
  BY DEF LocalSourceType
<1>3. QED
  BY <1>1, <1>2, ReqListIs, DefTextIs, PolicyIs DEF IndexField

LEMMA ScrapeSourceRows ==
    LET t == Types["ScrapeSource"]
    IN  /\ Len(t) = 6 /\ DOMAIN t = 1..6
        /\ Is(t[1], "urls", "list", "", {}, {}) /\ Has(t[1], {}, {}, {}, {}) /\ t[1].required
        /\ Is(t[2], "index", "leaf", "", "", {"true"}) /\ Has(t[2], {}, {}, {}, {})
        /\ Is(t[3], "maxDepth", "leaf", "", 0, {0}) /\ Has(t[3], {0}, {}, {}, {})
        /\ Is(t[4], "maxPageSize", "leaf", "", 0, {PageDefault}) /\ Has(t[4], {0}, {}, {}, {})
        /\ Is(t[5], "maxPages", "leaf", "", 0, {20}) /\ Has(t[5], {0}, {}, {}, {})
        /\ Is(t[6], "pullPolicy", "leaf", "", "", {}) /\ Has(t[6], {}, Policies, {}, {})
<1>1. Types["ScrapeSource"] = ScrapeSourceType
  BY DEF Types
<1>2. Len(ScrapeSourceType) = 6 /\ DOMAIN ScrapeSourceType = 1..6
  BY DEF ScrapeSourceType
<1>3. LET f == ScrapeSourceType[1]
      IN  Is(f, "urls", "list", "", {}, {}) /\ Has(f, {}, {}, {}, {}) /\ f.required
  <2>1. ScrapeSourceType[1] = Req(ListField("urls"))
    BY DEF ScrapeSourceType
  <2>2. QED
    BY <2>1, ReqListIs
<1>4. LET f == ScrapeSourceType[2]
      IN  Is(f, "index", "leaf", "", "", {"true"}) /\ Has(f, {}, {}, {}, {})
  <2>1. ScrapeSourceType[2] = IndexField
    BY DEF ScrapeSourceType
  <2>2. QED
    BY <2>1, DefTextIs DEF IndexField
<1>5. LET f == ScrapeSourceType[3]
      IN  Is(f, "maxDepth", "leaf", "", 0, {0}) /\ Has(f, {0}, {}, {}, {})
  <2>1. ScrapeSourceType[3] = AtLeast(Def(NumberField("maxDepth"), 0), 0)
    BY DEF ScrapeSourceType
  <2>2. QED
    BY <2>1, NumberIs
<1>6. LET f == ScrapeSourceType[4]
      IN  Is(f, "maxPageSize", "leaf", "", 0, {PageDefault}) /\ Has(f, {0}, {}, {}, {})
  <2>1. ScrapeSourceType[4] = AtLeast(Def(NumberField("maxPageSize"), PageDefault), 0)
    BY DEF ScrapeSourceType, PageDefault
  <2>2. QED
    BY <2>1, NumberIs
<1>7. LET f == ScrapeSourceType[5]
      IN  Is(f, "maxPages", "leaf", "", 0, {20}) /\ Has(f, {0}, {}, {}, {})
  <2>1. ScrapeSourceType[5] = AtLeast(Def(NumberField("maxPages"), 20), 0)
    BY DEF ScrapeSourceType
  <2>2. QED
    BY <2>1, NumberIs
<1>8. LET f == ScrapeSourceType[6]
      IN  Is(f, "pullPolicy", "leaf", "", "", {}) /\ Has(f, {}, Policies, {}, {})
  <2>1. ScrapeSourceType[6] = PullPolicy
    BY DEF ScrapeSourceType
  <2>2. QED
    BY <2>1, PolicyIs
<1>9. QED
  BY <1>1, <1>2, <1>3, <1>4, <1>5, <1>6, <1>7, <1>8

LEMMA GitSourceRows ==
    LET t == Types["GitSource"]
    IN  /\ Len(t) = 5 /\ DOMAIN t = 1..5
        /\ Is(t[1], "repo", "leaf", "", "", {}) /\ Has(t[1], {}, {}, {}, {}) /\ t[1].required
        /\ Is(t[2], "paths", "list", "", {}, {}) /\ Has(t[2], {}, {}, {}, {}) /\ t[2].required
        /\ Is(t[3], "depth", "leaf", "", 0, {1}) /\ Has(t[3], {1}, {}, {}, {})
        /\ Is(t[4], "index", "leaf", "", "", {"true"}) /\ Has(t[4], {}, {}, {}, {})
        /\ Is(t[5], "pullPolicy", "leaf", "", "", {}) /\ Has(t[5], {}, Policies, {}, {})
<1>1. Types["GitSource"] = GitSourceType
  BY DEF Types
<1>2. /\ Len(GitSourceType) = 5 /\ DOMAIN GitSourceType = 1..5
      /\ GitSourceType[1] = Req(TextField("repo"))
      /\ GitSourceType[2] = Req(ListField("paths"))
      /\ GitSourceType[3] = AtLeast(Def(NumberField("depth"), 1), 1)
      /\ GitSourceType[4] = IndexField
      /\ GitSourceType[5] = PullPolicy
  BY DEF GitSourceType
<1>3. QED
  BY <1>1, <1>2, ReqTextIs, ReqListIs, NumberIs, DefTextIs, PolicyIs DEF IndexField

LEMMA HTTPSourceRows ==
    LET t == Types["HTTPSource"]
    IN  /\ Len(t) = 4 /\ DOMAIN t = 1..4
        /\ Is(t[1], "url", "leaf", "", "", {}) /\ Has(t[1], {}, {}, {}, {}) /\ t[1].required
        /\ Is(t[2], "paths", "list", "", {}, {}) /\ Has(t[2], {}, {}, {}, {}) /\ t[2].required
        /\ Is(t[3], "index", "leaf", "", "", {"true"}) /\ Has(t[3], {}, {}, {}, {})
        /\ Is(t[4], "pullPolicy", "leaf", "", "", {}) /\ Has(t[4], {}, Policies, {}, {})
<1>1. Types["HTTPSource"] = HTTPSourceType
  BY DEF Types
<1>2. /\ Len(HTTPSourceType) = 4 /\ DOMAIN HTTPSourceType = 1..4
      /\ HTTPSourceType[1] = Req(TextField("url"))
      /\ HTTPSourceType[2] = Req(ListField("paths"))
      /\ HTTPSourceType[3] = IndexField
      /\ HTTPSourceType[4] = PullPolicy
  BY DEF HTTPSourceType
<1>3. QED
  BY <1>1, <1>2, ReqTextIs, ReqListIs, DefTextIs, PolicyIs DEF IndexField

LEMMA ConventionRows ==
    LET t == Types["Convention"]
    IN  /\ Len(t) = 3 /\ DOMAIN t = 1..3
        /\ Is(t[1], "docs", "structs", "DocRef", {}, {}) /\ Has(t[1], {}, {}, {}, {})
        /\ Is(t[2], "description", "leaf", "", "", {}) /\ Has(t[2], {}, {}, {}, {}) /\ t[2].required
        /\ Is(t[3], "relations", "structs", "ConventionRelations", {}, {})
        /\ Has(t[3], {}, {}, {}, {})
<1>1. Types["Convention"] = ConventionType
  BY DEF Types
<1>2. /\ Len(ConventionType) = 3 /\ DOMAIN ConventionType = 1..3
      /\ ConventionType[1] = StructsField("docs", "DocRef")
      /\ ConventionType[2] = Req(TextField("description"))
      /\ ConventionType[3] = StructsField("relations", "ConventionRelations")
  BY DEF ConventionType
<1>3. QED
  BY <1>1, <1>2, HoldersAre, ReqTextIs

LEMMA ConventionRelationsRows ==
    LET t == Types["ConventionRelations"]
    IN  /\ Len(t) = 1 /\ DOMAIN t = 1..1
        /\ Is(t[1], "target", "leaf", "", "", {})
        /\ Has(t[1], {}, {}, ToConventions, {}) /\ t[1].required
<1>1. Types["ConventionRelations"] = ConventionRelationsType
  BY DEF Types
<1>2. /\ Len(ConventionRelationsType) = 1 /\ DOMAIN ConventionRelationsType = 1..1
      /\ ConventionRelationsType[1] = Refs(Req(TextField("target")), ToConventions)
  BY DEF ConventionRelationsType, ToConventions
<1>3. QED
  BY <1>1, <1>2, RefsAre

LEMMA DocRefRows ==
    LET t == Types["DocRef"]
    IN  /\ Len(t) = 1 /\ DOMAIN t = 1..1
        /\ Is(t[1], "source", "leaf", "", "", {})
        /\ Has(t[1], {}, {}, ToSources, {}) /\ t[1].required
<1>1. Types["DocRef"] = DocRefType
  BY DEF Types
<1>2. /\ Len(DocRefType) = 1 /\ DOMAIN DocRefType = 1..1
      /\ DocRefType[1] = Refs(Req(TextField("source")), ToSources)
  BY DEF DocRefType, ToSources, SourceKinds
<1>3. QED
  BY <1>1, <1>2, RefsAre

LEMMA ToolRows ==
    LET t == Types["Tool"]
    IN  /\ Len(t) = 4 /\ DOMAIN t = 1..4
        /\ Is(t[1], "description", "leaf", "", "", {}) /\ Has(t[1], {}, {}, {}, {}) /\ t[1].required
        /\ Is(t[2], "template", "leaf", "", "", {}) /\ Has(t[2], {}, {}, {}, {}) /\ t[2].required
        /\ Is(t[3], "params", "structs", "ToolParam", {}, {}) /\ Has(t[3], {}, {}, {}, {})
        /\ Is(t[4], "maxOutputKB", "leaf", "", 0, {OutputDefault}) /\ Has(t[4], {1}, {}, {}, {})
<1>1. Types["Tool"] = ToolType
  BY DEF Types
<1>2. Len(ToolType) = 4 /\ DOMAIN ToolType = 1..4
  BY DEF ToolType
<1>3. LET f == ToolType[1]
      IN  Is(f, "description", "leaf", "", "", {}) /\ Has(f, {}, {}, {}, {}) /\ f.required
  <2>1. ToolType[1] = Req(TextField("description"))
    BY DEF ToolType
  <2>2. QED
    BY <2>1, ReqTextIs
<1>4. LET f == ToolType[2]
      IN  Is(f, "template", "leaf", "", "", {}) /\ Has(f, {}, {}, {}, {}) /\ f.required
  <2>1. ToolType[2] = Req(TextField("template"))
    BY DEF ToolType
  <2>2. QED
    BY <2>1, ReqTextIs
<1>5. LET f == ToolType[3]
      IN  Is(f, "params", "structs", "ToolParam", {}, {}) /\ Has(f, {}, {}, {}, {})
  <2>1. ToolType[3] = StructsField("params", "ToolParam")
    BY DEF ToolType
  <2>2. QED
    BY <2>1, HoldersAre
<1>6. LET f == ToolType[4]
      IN  Is(f, "maxOutputKB", "leaf", "", 0, {OutputDefault}) /\ Has(f, {1}, {}, {}, {})
  <2>1. ToolType[4] = AtLeast(Def(NumberField("maxOutputKB"), OutputDefault), 1)
    BY DEF ToolType, OutputDefault
  <2>2. QED
    BY <2>1, NumberIs
<1>7. QED
  BY <1>1, <1>2, <1>3, <1>4, <1>5, <1>6

LEMMA ToolParamRows ==
    LET t == Types["ToolParam"]
    IN  /\ Len(t) = 3 /\ DOMAIN t = 1..3
        /\ Is(t[1], "name", "leaf", "", "", {})
        /\ Has(t[1], {}, {}, {}, {}) /\ t[1].required /\ t[1].notreserved
        /\ Is(t[2], "type", "leaf", "", "", {})
        /\ Has(t[2], {}, ValueTypes, {}, {}) /\ t[2].required
        /\ Is(t[3], "constraints", "pointer", "ParamConstraints", {}, {})
        /\ Has(t[3], {}, {}, {}, {})
<1>1. Types["ToolParam"] = ToolParamType
  BY DEF Types
<1>2. Len(ToolParamType) = 3 /\ DOMAIN ToolParamType = 1..3
  BY DEF ToolParamType
<1>3. LET f == ToolParamType[1]
      IN  Is(f, "name", "leaf", "", "", {}) /\ Has(f, {}, {}, {}, {}) /\ f.required /\ f.notreserved
  <2>1. ToolParamType[1] = [Req(TextField("name")) EXCEPT !.notreserved = TRUE]
    BY DEF ToolParamType
  <2>2. QED
    BY <2>1, NotReservedIs
<1>4. LET f == ToolParamType[2]
      IN  Is(f, "type", "leaf", "", "", {}) /\ Has(f, {}, ValueTypes, {}, {}) /\ f.required
  <2>1. ToolParamType[2] = Req(Enum(TextField("type"), ValueTypes))
    BY DEF ToolParamType, ValueTypes
  <2>2. QED
    BY <2>1, EnumIs
<1>5. LET f == ToolParamType[3]
      IN  Is(f, "constraints", "pointer", "ParamConstraints", {}, {}) /\ Has(f, {}, {}, {}, {})
  <2>1. ToolParamType[3] = PointerField("constraints", "ParamConstraints")
    BY DEF ToolParamType
  <2>2. QED
    BY <2>1, HoldersAre
<1>6. QED
  BY <1>1, <1>2, <1>3, <1>4, <1>5

LEMMA ParamConstraintsRows ==
    LET t == Types["ParamConstraints"]
    IN  /\ Len(t) = 3 /\ DOMAIN t = 1..3
        /\ Is(t[1], "enum", "list", "", {}, {})
        /\ Has(t[1], {}, {}, {}, {"no_enum_with_min", "no_enum_with_max"})
        /\ Is(t[2], "min", "leaf", "", "", {}) /\ Has(t[2], {}, {}, {}, {"no_enum_with_min"})
        /\ Is(t[3], "max", "leaf", "", "", {}) /\ Has(t[3], {}, {}, {}, {"no_enum_with_max"})
<1>1. Types["ParamConstraints"] = ParamConstraintsType
  BY DEF Types
<1>2. /\ Len(ParamConstraintsType) = 3 /\ DOMAIN ParamConstraintsType = 1..3
      /\ ParamConstraintsType[1] = Groups(ListField("enum"), {"no_enum_with_min", "no_enum_with_max"})
      /\ ParamConstraintsType[2] = Groups(TextField("min"), {"no_enum_with_min"})
      /\ ParamConstraintsType[3] = Groups(TextField("max"), {"no_enum_with_max"})
  BY DEF ParamConstraintsType
<1>3. QED
  BY <1>1, <1>2, GroupsAre

-----------------------------------------------------------------------------
(* No two fields of a struct have one name; a field that holds structs has *)
(* no default, no reference and no group, and is the place of one type;    *)
(* references lead to the conventions or to the sources.                   *)
Places ==
    {<<"Config", "project", "Project">>, <<"Config", "conventions", "Convention">>,
     <<"Config", "tools", "Tool">>, <<"Project", "sources", "ProjectSources">>,
     <<"ProjectSources", "local", "LocalSource">>, <<"ProjectSources", "scrape", "ScrapeSource">>,
     <<"ProjectSources", "git", "GitSource">>, <<"ProjectSources", "http", "HTTPSource">>,
     <<"Convention", "docs", "DocRef">>, <<"Convention", "relations", "ConventionRelations">>,
     <<"Tool", "params", "ToolParam">>, <<"ToolParam", "constraints", "ParamConstraints">>}

FieldOK(type, f) ==
    /\ f.kind \in Holders => f.default = {} /\ <<type, f.name, f.elem>> \in Places
    /\ f.refs \in {{}, ToSources, ToConventions}

TableOK(type, fields) ==
    /\ Len(fields) \in Nat /\ DOMAIN fields = 1..Len(fields)
    /\ \A i, j \in DOMAIN fields : fields[i].name = fields[j].name => i = j
    /\ \A i \in DOMAIN fields : FieldOK(type, fields[i])

LEMMA ConfigTable == TableOK("Config", Types["Config"])
<1> DEFINE t == Types["Config"]
<1>1. Len(t) = 4 /\ DOMAIN t = 1..4
  BY ConfigRows
<1>2. /\ t[1].name = "version" /\ FieldOK("Config", t[1])
      /\ t[2].name = "project" /\ FieldOK("Config", t[2])
      /\ t[3].name = "conventions" /\ FieldOK("Config", t[3])
      /\ t[4].name = "tools" /\ FieldOK("Config", t[4])
  BY ConfigRows DEF Is, Has, FieldOK, Places, Holders
<1> HIDE DEF t
<1>3. \A i \in DOMAIN t : i = 1 \/ i = 2 \/ i = 3 \/ i = 4
  BY <1>1
<1>4. \A i \in DOMAIN t : FieldOK("Config", t[i])
  BY <1>2, <1>3
<1>5. \A i, j \in DOMAIN t : t[i].name = t[j].name => i = j
  BY <1>2, <1>3
<1>6. QED
  BY <1>1, <1>4, <1>5 DEF TableOK, t

LEMMA ProjectTable == TableOK("Project", Types["Project"])
<1> DEFINE t == Types["Project"]
<1>1. Len(t) = 4 /\ DOMAIN t = 1..4
  BY ProjectRows
<1>2. /\ t[1].name = "name" /\ FieldOK("Project", t[1])
      /\ t[2].name = "description" /\ FieldOK("Project", t[2])
      /\ t[3].name = "sources" /\ FieldOK("Project", t[3])
      /\ t[4].name = "credentials" /\ FieldOK("Project", t[4])
  BY ProjectRows DEF Is, Has, FieldOK, Places, Holders
<1> HIDE DEF t
<1>3. \A i \in DOMAIN t : i = 1 \/ i = 2 \/ i = 3 \/ i = 4
  BY <1>1
<1>4. \A i \in DOMAIN t : FieldOK("Project", t[i])
  BY <1>2, <1>3
<1>5. \A i, j \in DOMAIN t : t[i].name = t[j].name => i = j
  BY <1>2, <1>3
<1>6. QED
  BY <1>1, <1>4, <1>5 DEF TableOK, t

LEMMA ProjectSourcesTable == TableOK("ProjectSources", Types["ProjectSources"])
<1> DEFINE t == Types["ProjectSources"]
<1>1. Len(t) = 6 /\ DOMAIN t = 1..6
  BY ProjectSourcesRows
<1>2. /\ t[1].name = "pullPolicy" /\ FieldOK("ProjectSources", t[1])
      /\ t[2].name = "syncInterval" /\ FieldOK("ProjectSources", t[2])
      /\ t[3].name = "local" /\ FieldOK("ProjectSources", t[3])
      /\ t[4].name = "scrape" /\ FieldOK("ProjectSources", t[4])
      /\ t[5].name = "git" /\ FieldOK("ProjectSources", t[5])
      /\ t[6].name = "http" /\ FieldOK("ProjectSources", t[6])
  BY ProjectSourcesRows DEF Is, Has, FieldOK, Places, Holders
<1> HIDE DEF t
<1>3. \A i \in DOMAIN t : i = 1 \/ i = 2 \/ i = 3 \/ i = 4 \/ i = 5 \/ i = 6
  BY <1>1
<1>4. \A i \in DOMAIN t : FieldOK("ProjectSources", t[i])
  BY <1>2, <1>3
<1>5. \A i, j \in DOMAIN t : t[i].name = t[j].name => i = j
  BY <1>2, <1>3
<1>6. QED
  BY <1>1, <1>4, <1>5 DEF TableOK, t

LEMMA LocalSourceTable == TableOK("LocalSource", Types["LocalSource"])
<1> DEFINE t == Types["LocalSource"]
<1>1. Len(t) = 3 /\ DOMAIN t = 1..3
  BY LocalSourceRows
<1>2. /\ t[1].name = "paths" /\ FieldOK("LocalSource", t[1])
      /\ t[2].name = "index" /\ FieldOK("LocalSource", t[2])
      /\ t[3].name = "pullPolicy" /\ FieldOK("LocalSource", t[3])
  BY LocalSourceRows DEF Is, Has, FieldOK, Places, Holders
<1> HIDE DEF t
<1>3. \A i \in DOMAIN t : i = 1 \/ i = 2 \/ i = 3
  BY <1>1
<1>4. \A i \in DOMAIN t : FieldOK("LocalSource", t[i])
  BY <1>2, <1>3
<1>5. \A i, j \in DOMAIN t : t[i].name = t[j].name => i = j
  BY <1>2, <1>3
<1>6. QED
  BY <1>1, <1>4, <1>5 DEF TableOK, t

LEMMA ScrapeSourceTable == TableOK("ScrapeSource", Types["ScrapeSource"])
<1> DEFINE t == Types["ScrapeSource"]
<1>1. Len(t) = 6 /\ DOMAIN t = 1..6
  BY ScrapeSourceRows
<1>2. /\ t[1].name = "urls" /\ FieldOK("ScrapeSource", t[1])
      /\ t[2].name = "index" /\ FieldOK("ScrapeSource", t[2])
      /\ t[3].name = "maxDepth" /\ FieldOK("ScrapeSource", t[3])
      /\ t[4].name = "maxPageSize" /\ FieldOK("ScrapeSource", t[4])
      /\ t[5].name = "maxPages" /\ FieldOK("ScrapeSource", t[5])
      /\ t[6].name = "pullPolicy" /\ FieldOK("ScrapeSource", t[6])
  BY ScrapeSourceRows DEF Is, Has, FieldOK, Places, Holders
<1> HIDE DEF t
<1>3. \A i \in DOMAIN t : i = 1 \/ i = 2 \/ i = 3 \/ i = 4 \/ i = 5 \/ i = 6
  BY <1>1
<1>4. \A i \in DOMAIN t : FieldOK("ScrapeSource", t[i])
  BY <1>2, <1>3
<1>5. \A i, j \in DOMAIN t : t[i].name = t[j].name => i = j
  BY <1>2, <1>3
<1>6. QED
  BY <1>1, <1>4, <1>5 DEF TableOK, t

LEMMA GitSourceTable == TableOK("GitSource", Types["GitSource"])
<1> DEFINE t == Types["GitSource"]
<1>1. Len(t) = 5 /\ DOMAIN t = 1..5
  BY GitSourceRows
<1>2. /\ t[1].name = "repo" /\ FieldOK("GitSource", t[1])
      /\ t[2].name = "paths" /\ FieldOK("GitSource", t[2])
      /\ t[3].name = "depth" /\ FieldOK("GitSource", t[3])
      /\ t[4].name = "index" /\ FieldOK("GitSource", t[4])
      /\ t[5].name = "pullPolicy" /\ FieldOK("GitSource", t[5])
  BY GitSourceRows DEF Is, Has, FieldOK, Places, Holders
<1> HIDE DEF t
<1>3. \A i \in DOMAIN t : i = 1 \/ i = 2 \/ i = 3 \/ i = 4 \/ i = 5
  BY <1>1
<1>4. \A i \in DOMAIN t : FieldOK("GitSource", t[i])
  BY <1>2, <1>3
<1>5. \A i, j \in DOMAIN t : t[i].name = t[j].name => i = j
  BY <1>2, <1>3
<1>6. QED
  BY <1>1, <1>4, <1>5 DEF TableOK, t

LEMMA HTTPSourceTable == TableOK("HTTPSource", Types["HTTPSource"])
<1> DEFINE t == Types["HTTPSource"]
<1>1. Len(t) = 4 /\ DOMAIN t = 1..4
  BY HTTPSourceRows
<1>2. /\ t[1].name = "url" /\ FieldOK("HTTPSource", t[1])
      /\ t[2].name = "paths" /\ FieldOK("HTTPSource", t[2])
      /\ t[3].name = "index" /\ FieldOK("HTTPSource", t[3])
      /\ t[4].name = "pullPolicy" /\ FieldOK("HTTPSource", t[4])
  BY HTTPSourceRows DEF Is, Has, FieldOK, Places, Holders
<1> HIDE DEF t
<1>3. \A i \in DOMAIN t : i = 1 \/ i = 2 \/ i = 3 \/ i = 4
  BY <1>1
<1>4. \A i \in DOMAIN t : FieldOK("HTTPSource", t[i])
  BY <1>2, <1>3
<1>5. \A i, j \in DOMAIN t : t[i].name = t[j].name => i = j
  BY <1>2, <1>3
<1>6. QED
  BY <1>1, <1>4, <1>5 DEF TableOK, t

LEMMA ConventionTable == TableOK("Convention", Types["Convention"])
<1> DEFINE t == Types["Convention"]
<1>1. Len(t) = 3 /\ DOMAIN t = 1..3
  BY ConventionRows
<1>2. /\ t[1].name = "docs" /\ FieldOK("Convention", t[1])
      /\ t[2].name = "description" /\ FieldOK("Convention", t[2])
      /\ t[3].name = "relations" /\ FieldOK("Convention", t[3])
  BY ConventionRows DEF Is, Has, FieldOK, Places, Holders
<1> HIDE DEF t
<1>3. \A i \in DOMAIN t : i = 1 \/ i = 2 \/ i = 3
  BY <1>1
<1>4. \A i \in DOMAIN t : FieldOK("Convention", t[i])
  BY <1>2, <1>3
<1>5. \A i, j \in DOMAIN t : t[i].name = t[j].name => i = j
  BY <1>2, <1>3
<1>6. QED
  BY <1>1, <1>4, <1>5 DEF TableOK, t

LEMMA ConventionRelationsTable == TableOK("ConventionRelations", Types["ConventionRelations"])
<1> DEFINE t == Types["ConventionRelations"]
<1>1. Len(t) = 1 /\ DOMAIN t = 1..1
  BY ConventionRelationsRows
<1>2. /\ t[1].name = "target" /\ FieldOK("ConventionRelations", t[1])
  BY ConventionRelationsRows DEF Is, Has, FieldOK, Places, Holders
<1> HIDE DEF t
<1>3. \A i \in DOMAIN t : i = 1
  BY <1>1
<1>4. \A i \in DOMAIN t : FieldOK("ConventionRelations", t[i])
  BY <1>2, <1>3
<1>5. \A i, j \in DOMAIN t : t[i].name = t[j].name => i = j
  BY <1>2, <1>3
<1>6. QED
  BY <1>1, <1>4, <1>5 DEF TableOK, t

LEMMA DocRefTable == TableOK("DocRef", Types["DocRef"])
<1> DEFINE t == Types["DocRef"]
<1>1. Len(t) = 1 /\ DOMAIN t = 1..1
  BY DocRefRows
<1>2. /\ t[1].name = "source" /\ FieldOK("DocRef", t[1])
  BY DocRefRows DEF Is, Has, FieldOK, Places, Holders
<1> HIDE DEF t
<1>3. \A i \in DOMAIN t : i = 1
  BY <1>1
<1>4. \A i \in DOMAIN t : FieldOK("DocRef", t[i])
  BY <1>2, <1>3
<1>5. \A i, j \in DOMAIN t : t[i].name = t[j].name => i = j
  BY <1>2, <1>3
<1>6. QED
  BY <1>1, <1>4, <1>5 DEF TableOK, t

LEMMA ToolTable == TableOK("Tool", Types["Tool"])
<1> DEFINE t == Types["Tool"]
<1>1. Len(t) = 4 /\ DOMAIN t = 1..4
  BY ToolRows
<1>2. /\ t[1].name = "description" /\ FieldOK("Tool", t[1])
      /\ t[2].name = "template" /\ FieldOK("Tool", t[2])
      /\ t[3].name = "params" /\ FieldOK("Tool", t[3])
      /\ t[4].name = "maxOutputKB" /\ FieldOK("Tool", t[4])
  BY ToolRows DEF Is, Has, FieldOK, Places, Holders
<1> HIDE DEF t
<1>3. \A i \in DOMAIN t : i = 1 \/ i = 2 \/ i = 3 \/ i = 4
  BY <1>1
<1>4. \A i \in DOMAIN t : FieldOK("Tool", t[i])
  BY <1>2, <1>3
<1>5. \A i, j \in DOMAIN t : t[i].name = t[j].name => i = j
  BY <1>2, <1>3
<1>6. QED
  BY <1>1, <1>4, <1>5 DEF TableOK, t

LEMMA ToolParamTable == TableOK("ToolParam", Types["ToolParam"])
<1> DEFINE t == Types["ToolParam"]
<1>1. Len(t) = 3 /\ DOMAIN t = 1..3
  BY ToolParamRows
<1>2. /\ t[1].name = "name" /\ FieldOK("ToolParam", t[1])
      /\ t[2].name = "type" /\ FieldOK("ToolParam", t[2])
      /\ t[3].name = "constraints" /\ FieldOK("ToolParam", t[3])
  BY ToolParamRows DEF Is, Has, FieldOK, Places, Holders
<1> HIDE DEF t
<1>3. \A i \in DOMAIN t : i = 1 \/ i = 2 \/ i = 3
  BY <1>1
<1>4. \A i \in DOMAIN t : FieldOK("ToolParam", t[i])
  BY <1>2, <1>3
<1>5. \A i, j \in DOMAIN t : t[i].name = t[j].name => i = j
  BY <1>2, <1>3
<1>6. QED
  BY <1>1, <1>4, <1>5 DEF TableOK, t

LEMMA ParamConstraintsTable == TableOK("ParamConstraints", Types["ParamConstraints"])
<1> DEFINE t == Types["ParamConstraints"]
<1>1. Len(t) = 3 /\ DOMAIN t = 1..3
  BY ParamConstraintsRows
<1>2. /\ t[1].name = "enum" /\ FieldOK("ParamConstraints", t[1])
      /\ t[2].name = "min" /\ FieldOK("ParamConstraints", t[2])
      /\ t[3].name = "max" /\ FieldOK("ParamConstraints", t[3])
  BY ParamConstraintsRows DEF Is, Has, FieldOK, Places, Holders
<1> HIDE DEF t
<1>3. \A i \in DOMAIN t : i = 1 \/ i = 2 \/ i = 3
  BY <1>1
<1>4. \A i \in DOMAIN t : FieldOK("ParamConstraints", t[i])
  BY <1>2, <1>3
<1>5. \A i, j \in DOMAIN t : t[i].name = t[j].name => i = j
  BY <1>2, <1>3
<1>6. QED
  BY <1>1, <1>4, <1>5 DEF TableOK, t

LEMMA Table == \A type \in DOMAIN Types : TableOK(type, Types[type])
<1>1. DOMAIN Types =
        {"Config", "Project", "ProjectSources", "LocalSource", "ScrapeSource", "GitSource", "HTTPSource", "Convention", "ConventionRelations", "DocRef", "Tool", "ToolParam", "ParamConstraints"}
  BY DEF Types
<1>2. QED
  BY <1>1, ConfigTable, ProjectTable, ProjectSourcesTable, LocalSourceTable, ScrapeSourceTable, GitSourceTable, HTTPSourceTable, ConventionTable, ConventionRelationsTable, DocRefTable, ToolTable, ToolParamTable, ParamConstraintsTable

(* A field of a node is the one that its name leads to.                    *)
LEMMA TagOf ==
    ASSUME NEW d, NEW n, d[n].type \in DOMAIN Types, NEW i \in DOMAIN Types[d[n].type]
    PROVE  LET f == Types[d[n].type][i]
           IN  f.name \in NamesOf(d, n) /\ Tag(d, n, f.name) = f /\ FieldOK(d[n].type, f)
BY Table DEF TableOK, NamesOf, Tag

LEMMA NameOf ==
    ASSUME NEW d, NEW n, d[n].type \in DOMAIN Types, NEW name \in NamesOf(d, n)
    PROVE  /\ \E i \in DOMAIN Types[d[n].type] :
                name = Types[d[n].type][i].name /\ Tag(d, n, name) = Types[d[n].type][i]
           /\ FieldOK(d[n].type, Tag(d, n, name)) /\ Tag(d, n, name).name = name
BY TagOf DEF NamesOf

-----------------------------------------------------------------------------
(* Documents.  Value is what a field has in the end; a document like       *)
(* another has its nodes, and in each field what that has or has it with   *)
(* its default.  What holds structs is the same, and so are the keys.      *)
Value(d, n, name) == WithDefault(Tag(d, n, name), d[n].val[name])

LikeIt(h, d) ==
    /\ DOMAIN h = DOMAIN d
    /\ \A n \in DOMAIN d :
        /\ DOMAIN h[n] = {"type", "key", "val", "unsound"}
        /\ h[n].type = d[n].type /\ h[n].key = d[n].key /\ h[n].unsound = d[n].unsound
        /\ DOMAIN h[n].val = NamesOf(d, n)
        /\ \A name \in NamesOf(d, n) : h[n].val[name] \in {d[n].val[name], Value(d, n, name)}

LEMMA DefaultTwice ==
    ASSUME NEW f, NEW v
    PROVE  WithDefault(f, WithDefault(f, v)) = WithDefault(f, v)
BY DEF WithDefault

LEMMA DocumentIs ==
    ASSUME NEW d \in Documents, NEW n \in DOMAIN d
    PROVE  /\ Root \in DOMAIN d /\ d[Root].type = "Config" /\ d[n].type \in DOMAIN Types
           /\ DOMAIN d[n] = {"type", "key", "val", "unsound"} /\ DOMAIN d[n].val = NamesOf(d, n)
           /\ \A name \in NamesOf(d, n) :
                Tag(d, n, name).kind \in Holders =>
                    /\ \A c \in d[n].val[name] : c \in DOMAIN d /\ d[c].type = Tag(d, n, name).elem
                    /\ Value(d, n, name) = d[n].val[name]
           /\ \A name \in NamesOf(d, n) : Tag(d, n, name).min # {} => d[n].val[name] \in Int
<1>1. d[n].type \in DOMAIN Types
  BY DocumentAssumption
<1>2. \A name \in NamesOf(d, n) :
        Tag(d, n, name).kind \in Holders => Value(d, n, name) = d[n].val[name]
  BY <1>1, NameOf DEF FieldOK, Value, WithDefault
<1>3. QED
  BY <1>1, <1>2, DocumentAssumption

(* The keys that a path of one name and a path of three lead to.           *)
KeysIn(h, path) ==
    LET nodes[k \in 0..Len(path)] ==
            IF k = 0 THEN {Root} ELSE UNION {h[n].val[path[k]] : n \in nodes[k - 1]}
    IN  {h[n].key : n \in nodes[Len(path)]}

Under(h, nodes, name) == UNION {h[n].val[name] : n \in nodes}

LEMMA KeysOfOne ==
    ASSUME NEW h, NEW a
    PROVE  KeysIn(h, <<a>>) = {h[n].key : n \in Under(h, {Root}, a)}
<1> DEFINE path == <<a>>
           Body(g) == [k \in 0..1 |-> IF k = 0 THEN {Root} ELSE Under(h, g[k - 1], path[k])]
           w == [k \in 0..1 |-> IF k = 0 THEN {Root} ELSE Under(h, {Root}, a)]
           f == CHOOSE g : g = Body(g)
<1>1. Len(path) = 1 /\ path[1] = a
  OBVIOUS
<1>2. KeysIn(h, path) = {h[n].key : n \in f[1]}
  BY <1>1 DEF KeysIn, Under
<1>3. w = Body(w)
  <2>1. w[0] = {Root}
    OBVIOUS
  <2>2. \A k \in 0..1 : w[k] = IF k = 0 THEN {Root} ELSE Under(h, w[k - 1], path[k])
    BY <1>1, <2>1
  <2> DEFINE R(k) == IF k = 0 THEN {Root} ELSE Under(h, w[k - 1], path[k])
  <2>3. w = [k \in 0..1 |-> w[k]]
    OBVIOUS
  <2> HIDE DEF w
  <2>4. [k \in 0..1 |-> w[k]] = [k \in 0..1 |-> R(k)]
    BY <2>2
  <2>5. QED
    BY <2>3, <2>4
<1>4. f = Body(f)
  BY <1>3
<1> HIDE DEF f
<1>5. f[0] = {Root}
  BY <1>4
<1>6. f[1] = Under(h, f[0], path[1])
  BY <1>4
<1>7. QED
  BY <1>1, <1>2, <1>5, <1>6

LEMMA KeysOfThree ==
    ASSUME NEW h, NEW a, NEW b, NEW c
    PROVE  KeysIn(h, <<a, b, c>>) =
               {h[n].key : n \in Under(h, Under(h, Under(h, {Root}, a), b), c)}
<1> DEFINE path == <<a, b, c>>
           Body(g) == [k \in 0..3 |-> IF k = 0 THEN {Root} ELSE Under(h, g[k - 1], path[k])]
           A == Under(h, {Root}, a)
           B == Under(h, A, b)
           C == Under(h, B, c)
           w == [k \in 0..3 |-> IF k = 0 THEN {Root} ELSE IF k = 1 THEN A ELSE IF k = 2 THEN B ELSE C]
           f == CHOOSE g : g = Body(g)
<1>1. Len(path) = 3 /\ path[1] = a /\ path[2] = b /\ path[3] = c
  OBVIOUS
<1>2. KeysIn(h, path) = {h[n].key : n \in f[3]}
  BY <1>1 DEF KeysIn, Under
<1>3. w = Body(w)
  <2>1. w[0] = {Root} /\ w[1] = A /\ w[2] = B /\ w[3] = C
    OBVIOUS
  <2>2. A = Under(h, {Root}, a) /\ B = Under(h, A, b) /\ C = Under(h, B, c)
    OBVIOUS
  <2> DEFINE R(k) == IF k = 0 THEN {Root} ELSE Under(h, w[k - 1], path[k])
  <2>3. w = [k \in 0..3 |-> w[k]]
    OBVIOUS
  <2> HIDE DEF w, A, B, C, path
  <2>4. R(0) = w[0] /\ R(1) = w[1] /\ R(2) = w[2] /\ R(3) = w[3]
    BY <1>1, <2>1, <2>2
  <2>5. \A k \in 0..3 : k = 0 \/ k = 1 \/ k = 2 \/ k = 3
    OBVIOUS
  <2>6. \A k \in 0..3 : w[k] = R(k)
    BY <2>4, <2>5
  <2> HIDE DEF R
  <2>7. [k \in 0..3 |-> w[k]] = [k \in 0..3 |-> R(k)]
    BY <2>6
  <2>8. QED
    BY <2>3, <2>7 DEF R
<1>4. f = Body(f)
  BY <1>3
<1> HIDE DEF f
<1>5. f[0] = {Root}
  BY <1>4
<1>6. f[1] = Under(h, f[0], path[1]) /\ f[2] = Under(h, f[1], path[2])
      /\ f[3] = Under(h, f[2], path[3])
  BY <1>4
<1>7. QED
  BY <1>1, <1>2, <1>5, <1>6

(* A field of a type that holds structs.                                   *)
IsPlace(type, name, elem) ==
    /\ type \in DOMAIN Types
    /\ \E i \in DOMAIN Types[type] :
        LET f == Types[type][i] IN f.name = name /\ f.elem = elem /\ f.kind \in Holders

LEMMA PlacesOnPaths ==
    /\ IsPlace("Config", "conventions", "Convention") /\ IsPlace("Config", "project", "Project")
    /\ IsPlace("Project", "sources", "ProjectSources")
    /\ IsPlace("ProjectSources", "local", "LocalSource")
    /\ IsPlace("ProjectSources", "scrape", "ScrapeSource")
    /\ IsPlace("ProjectSources", "git", "GitSource")
    /\ IsPlace("ProjectSources", "http", "HTTPSource")
<1>1. {"Config", "Project", "ProjectSources"} \subseteq DOMAIN Types
  BY DEF Types
<1>2. IsPlace("Config", "conventions", "Convention") /\ IsPlace("Config", "project", "Project")
  <2>1. 2 \in 1..4 /\ 3 \in 1..4
    OBVIOUS
  <2>2. QED
    BY <1>1, <2>1, ConfigRows DEF IsPlace, Is, Holders
<1>3. IsPlace("Project", "sources", "ProjectSources")
  <2>1. 3 \in 1..4
    OBVIOUS
  <2>2. QED
    BY <1>1, <2>1, ProjectRows DEF IsPlace, Is, Holders
<1>4. /\ IsPlace("ProjectSources", "local", "LocalSource")
      /\ IsPlace("ProjectSources", "scrape", "ScrapeSource")
      /\ IsPlace("ProjectSources", "git", "GitSource")
      /\ IsPlace("ProjectSources", "http", "HTTPSource")
  <2>1. 3 \in 1..6 /\ 4 \in 1..6 /\ 5 \in 1..6 /\ 6 \in 1..6
    OBVIOUS
  <2>2. QED
    BY <1>1, <2>1, ProjectSourcesRows DEF IsPlace, Is, Holders
<1>5. QED
  BY <1>2, <1>3, <1>4

(* What nodes of a type hold in a document is what they hold in one that   *)
(* is like it.                                                             *)
AllOf(d, nodes, type) == \A n \in nodes : n \in DOMAIN d /\ d[n].type = type

LEMMA UnderKept ==
    ASSUME NEW d \in Documents, NEW h, LikeIt(h, d), NEW type, NEW name, NEW elem,
           IsPlace(type, name, elem), NEW nodes, AllOf(d, nodes, type)
    PROVE  Under(h, nodes, name) = Under(d, nodes, name) /\ AllOf(d, Under(d, nodes, name), elem)
<1>1. ASSUME NEW n \in nodes
      PROVE  /\ h[n].val[name] = d[n].val[name]
             /\ \A c \in d[n].val[name] : c \in DOMAIN d /\ d[c].type = elem
  <2>1. n \in DOMAIN d /\ d[n].type = type
    BY DEF AllOf
  <2>2. PICK i \in DOMAIN Types[type] :
            Types[type][i].name = name /\ Types[type][i].elem = elem /\ Types[type][i].kind \in Holders
    BY DEF IsPlace
  <2>3. name \in NamesOf(d, n) /\ Tag(d, n, name).kind \in Holders /\ Tag(d, n, name).elem = elem
    BY <2>1, <2>2, TagOf DEF IsPlace
  <2>4. QED
    BY <2>1, <2>3, DocumentIs DEF LikeIt
<1>2. QED
  BY <1>1 DEF Under, AllOf

LEMMA KeysKept ==
    ASSUME NEW d \in Documents, NEW h, LikeIt(h, d),
           NEW path \in ToSources \cup ToConventions
    PROVE  /\ KeysIn(h, path) = KeysIn(d, path)
           /\ path \in ToConventions =>
                KeysIn(d, path) = {d[n].key : n \in Under(d, {Root}, "conventions")}
<1>1. AllOf(d, {Root}, "Config")
  BY DocumentIs, DocumentAssumption DEF AllOf
<1>2. CASE path \in ToConventions
  <2>1. path = <<"conventions">>
    BY <1>2 DEF ToConventions
  <2> DEFINE nodes == Under(d, {Root}, "conventions")
  <2>2. nodes = Under(h, {Root}, "conventions") /\ AllOf(d, nodes, "Convention")
    BY <1>1, PlacesOnPaths, UnderKept
  <2>3. KeysIn(h, path) = {h[n].key : n \in nodes} /\ KeysIn(d, path) = {d[n].key : n \in nodes}
    BY <2>1, <2>2, KeysOfOne
  <2> HIDE DEF nodes
  <2>4. \A n \in nodes : h[n].key = d[n].key
    BY <2>2 DEF AllOf, LikeIt
  <2>5. {h[n].key : n \in nodes} = {d[n].key : n \in nodes}
    BY <2>4
  <2>6. QED
    BY <2>3, <2>5 DEF nodes
<1>3. CASE path \in ToSources
  <2>1. PICK kind \in SourceKinds : path = <<"project", "sources", kind>>
    BY <1>3 DEF ToSources
  <2> DEFINE A == Under(d, {Root}, "project")
             B == Under(d, A, "sources")
             C == Under(d, B, kind)
  <2>2. A = Under(h, {Root}, "project") /\ AllOf(d, A, "Project")
    BY <1>1, PlacesOnPaths, UnderKept
  <2>3. B = Under(h, A, "sources") /\ AllOf(d, B, "ProjectSources")
    BY <2>2, PlacesOnPaths, UnderKept
  <2>4. PICK elem : IsPlace("ProjectSources", kind, elem)
    BY PlacesOnPaths DEF SourceKinds
  <2>5. C = Under(h, B, kind) /\ AllOf(d, C, elem)
    BY <2>3, <2>4, UnderKept
  <2>6. KeysIn(h, path) = {h[n].key : n \in C} /\ KeysIn(d, path) = {d[n].key : n \in C}
    <3>1. KeysIn(d, path) = {d[n].key : n \in C}
      BY <2>1, KeysOfThree
    <3>2. KeysIn(h, path) = {h[n].key : n \in
              Under(h, Under(h, Under(h, {Root}, "project"), "sources"), kind)}
      BY <2>1, KeysOfThree
    <3> HIDE DEF A, B, C
    <3>3. QED
      BY <3>1, <3>2, <2>2, <2>3, <2>5
  <2> HIDE DEF C
  <2>7. \A n \in C : h[n].key = d[n].key
    BY <2>5 DEF AllOf, LikeIt
  <2>8. {h[n].key : n \in C} = {d[n].key : n \in C}
    BY <2>7
  <2>9. path \notin ToConventions
    BY <2>1 DEF ToConventions
  <2>10. QED
    BY <2>6, <2>8, <2>9
<1>4. QED
  BY <1>2, <1>3

(* What is wrong with a field does not change during the walks.            *)
LEMMA KeysAtIs == \A path : KeysAt(path) = KeysIn(heap, path)
BY DEF KeysAt, KeysIn

LEMMA ErrorsKept ==
    ASSUME origin \in Documents, origin' = origin, LikeIt(heap, origin), LikeIt(heap', origin),
           NEW n, NEW f, f.refs \in {{}, ToSources, ToConventions}, NEW v
    PROVE  FieldErrors(n, f, v)' = FieldErrors(n, f, v)
<1>1. \A path \in f.refs : KeysAt(path)' = KeysAt(path)
  <2>1. \A path : KeysAt(path)' = KeysIn(heap', path)
    BY DEF KeysAt, KeysIn
  <2>2. \A path \in f.refs : KeysIn(heap', path) = KeysIn(origin, path)
                             /\ KeysIn(heap, path) = KeysIn(origin, path)
    BY KeysKept
  <2>3. QED
    BY <2>1, <2>2, KeysAtIs
<1>2. DeclaredKeys(f)' = DeclaredKeys(f)
  BY <1>1 DEF DeclaredKeys
<1>3. QED
  BY <1>2 DEF FieldErrors

-----------------------------------------------------------------------------
(* The walks.  A walk has come to a set of nodes: each of them is a frame  *)
(* of the stack or done with, and each node that a field leads to which    *)
(* the walk is past is among them or still to do.                          *)
FieldsOf(n) == Types[origin[n].type]
Val(n, name) == Value(origin, n, name)
Leads(n, name) == IF Tag(origin, n, name).kind \in Holders THEN origin[n].val[name] ELSE {}
Wrong(n) ==
    UNION {FieldErrors(n, Tag(origin, n, name), Val(n, name)) : name \in NamesOf(origin, n)}

(* A field the first walk is past has its value and is reported.           *)
Settled(n, name, v, come) ==
    /\ v = Val(n, name)
    /\ FieldErrors(n, Tag(origin, n, name), v) \subseteq errs
    /\ Leads(n, name) \subseteq come

FrameOK(frame, come) ==
    /\ DOMAIN frame = {"node", "val", "at", "todo"}
    /\ frame.node \in come
    /\ frame.at \in 1..(Len(FieldsOf(frame.node)) + 1)
    /\ frame.todo \subseteq DOMAIN origin
    /\ DOMAIN frame.val = NamesOf(origin, frame.node)
    /\ \A name \in NamesOf(origin, frame.node) :
        frame.val[name] \in {origin[frame.node].val[name], Val(frame.node, name)}

PastSettled(frame, come) ==
    \A j \in 1..(frame.at - 1) :
        LET name == FieldsOf(frame.node)[j].name
        IN  Settled(frame.node, name, frame.val[name], come \cup frame.todo)

NodeSettled(n, come) ==
    \A name \in NamesOf(origin, n) : Settled(n, name, heap[n].val[name], come)

LeavesInv(come) ==
    /\ Root \in come
    /\ \A frame \in ToSet(stack) : FrameOK(frame, come) /\ PastSettled(frame, come)
    /\ \A n \in come : NodeSettled(n, come) \/ \E frame \in ToSet(stack) : frame.node = n
    /\ errs \subseteq UNION {Wrong(n) : n \in DOMAIN origin}

(* In the second walk every field has its value, and every field is        *)
(* reported; so is every struct the walk has come to.                      *)
Final(document) ==
    \A n \in DOMAIN origin : \A name \in NamesOf(origin, n) : document[n].val[name] = Val(n, name)

PastLeads(frame, come) ==
    /\ \A name \in NamesOf(origin, frame.node) : frame.val[name] = Val(frame.node, name)
    /\ \A j \in 1..(frame.at - 1) :
        Leads(frame.node, FieldsOf(frame.node)[j].name) \subseteq come \cup frame.todo

NodeLeads(n, come) == \A name \in NamesOf(origin, n) : Leads(n, name) \subseteq come

StructsInv(come) ==
    /\ Root \in come /\ Final(heap)
    /\ \A n \in DOMAIN origin : Wrong(n) \subseteq errs
    /\ \A frame \in ToSet(stack) : FrameOK(frame, come) /\ PastLeads(frame, come)
    /\ \A n \in come :
        /\ StructErrors(n) \subseteq errs
        /\ NodeLeads(n, come) \/ \E frame \in ToSet(stack) : frame.node = n
    /\ errs \subseteq UNION {Wrong(n) \cup StructErrors(n) : n \in DOMAIN origin}

Exact ==
    /\ Final(heap)
    /\ errs = UNION {Wrong(n) \cup StructErrors(n) : n \in DOMAIN origin}

SchemaInv ==
    /\ origin \in Documents /\ LikeIt(heap, origin)
    /\ \E frames : stack \in Seq(frames)
    /\ pass \in {"version", "leaves", "structs", "done", "unsupported"}
    /\ pass = "version" => heap = origin /\ errs = {}
    /\ pass \notin {"leaves", "structs"} => stack = <<>>
    /\ pass = "leaves" => \E come \in SUBSET DOMAIN origin : LeavesInv(come)
    /\ pass = "structs" => \E come \in SUBSET DOMAIN origin : StructsInv(come)
    /\ pass = "done" => Exact

(* The stack.                                                              *)
LEMMA StackTop ==
    ASSUME NEW S, NEW s \in Seq(S), s # <<>>
    PROVE  /\ Front(s) \in Seq(S) /\ Last(s) \in ToSet(s)
           /\ ToSet(s) = ToSet(Front(s)) \cup {Last(s)}
<1>1. Len(s) \in Nat \ {0} /\ DOMAIN s = 1..Len(s)
  OBVIOUS
<1>2. Front(s) \in Seq(S) /\ Len(Front(s)) = Len(s) - 1
      /\ \A i \in 1..(Len(s) - 1) : Front(s)[i] = s[i]
  BY <1>1 DEF Front
<1>3. Last(s) = s[Len(s)]
  BY DEF Last
<1>4. DOMAIN Front(s) = 1..(Len(s) - 1)
  BY <1>1, <1>2
<1>5. ToSet(Front(s)) = {s[i] : i \in 1..(Len(s) - 1)}
  BY <1>2, <1>4 DEF ToSet
<1>6. QED
  BY <1>1, <1>2, <1>3, <1>5 DEF ToSet

LEMMA StackPut ==
    ASSUME NEW S, NEW s \in Seq(S), NEW x
    PROVE  Append(s, x) \in Seq(S \cup {x}) /\ ToSet(Append(s, x)) = ToSet(s) \cup {x}
<1>1. Len(s) \in Nat /\ DOMAIN s = 1..Len(s)
  OBVIOUS
<1>2. s \in Seq(S \cup {x})
  OBVIOUS
<1> DEFINE a == Append(s, x)
<1>3. /\ a \in Seq(S \cup {x}) /\ DOMAIN a = 1..(Len(s) + 1)
      /\ \A i \in 1..Len(s) : a[i] = s[i]
      /\ a[Len(s) + 1] = x
  BY <1>1, <1>2
<1> HIDE DEF a
<1>4. ToSet(a) = ToSet(s) \cup {x}
  BY <1>1, <1>3 DEF ToSet
<1>5. QED
  BY <1>3, <1>4 DEF a

LEMMA StackPutTwo ==
    ASSUME NEW S, NEW s \in Seq(S), NEW x, NEW y
    PROVE  ToSet(s \o <<x, y>>) = ToSet(s) \cup {x} \cup {y}
<1>1. Len(s) \in Nat /\ DOMAIN s = 1..Len(s)
  OBVIOUS
<1>2. s \in Seq(S \cup {x, y}) /\ <<x, y>> \in Seq(S \cup {x, y})
  OBVIOUS
<1> DEFINE b == s \o <<x, y>>
<1>3. /\ b \in Seq(S \cup {x, y}) /\ DOMAIN b = 1..(Len(s) + 2)
      /\ \A i \in 1..Len(s) : b[i] = s[i]
      /\ b[Len(s) + 1] = x /\ b[Len(s) + 2] = y
  BY <1>1, <1>2
<1> HIDE DEF b
<1>4. ToSet(b) = ToSet(s) \cup {x} \cup {y}
  BY <1>1, <1>3 DEF ToSet
<1>5. QED
  BY <1>3, <1>4 DEF b

(* What the walk has settled stays so.                                     *)
LEMMA SettledStays ==
    ASSUME origin \in Documents, origin' = origin, LikeIt(heap, origin), LikeIt(heap', origin),
           errs \subseteq errs', NEW come, NEW more, come \subseteq more,
           NEW n \in DOMAIN origin, NEW name \in NamesOf(origin, n), NEW v,
           Settled(n, name, v, come)
    PROVE  Settled(n, name, v, more)'
<1>1. Tag(origin, n, name).refs \in {{}, ToSources, ToConventions}
  BY DocumentIs, NameOf DEF FieldOK
<1>2. FieldErrors(n, Tag(origin, n, name), v)' = FieldErrors(n, Tag(origin, n, name), v)
  <2> DEFINE f == Tag(origin, n, name)
  <2>1. f' = f
    OBVIOUS
  <2>2. PICK g : g = f
    OBVIOUS
  <2>3. FieldErrors(n, g, v)' = FieldErrors(n, g, v)
    BY <1>1, <2>2, ErrorsKept
  <2>4. QED
    BY <2>1, <2>2, <2>3
<1>3. QED
  BY <1>2 DEF Settled, Val, Leads

LEMMA FieldsAre ==
    ASSUME origin \in Documents, NEW n \in DOMAIN origin
    PROVE  /\ Len(FieldsOf(n)) \in Nat /\ DOMAIN FieldsOf(n) = 1..Len(FieldsOf(n))
           /\ \A j \in 1..Len(FieldsOf(n)) :
                /\ FieldsOf(n)[j].name \in NamesOf(origin, n)
                /\ Tag(origin, n, FieldsOf(n)[j].name) = FieldsOf(n)[j]
           /\ \A name \in NamesOf(origin, n) :
                \E j \in 1..Len(FieldsOf(n)) : FieldsOf(n)[j].name = name
<1>1. origin[n].type \in DOMAIN Types
  BY DocumentIs
<1>2. TableOK(origin[n].type, FieldsOf(n))
  BY <1>1, Table DEF FieldsOf
<1>3. Len(FieldsOf(n)) \in Nat /\ DOMAIN FieldsOf(n) = 1..Len(FieldsOf(n))
  BY <1>2 DEF TableOK
<1>4. QED
  BY <1>1, <1>3, TagOf, NameOf DEF FieldsOf

LEMMA FrameStays ==
    ASSUME origin \in Documents, origin' = origin, LikeIt(heap, origin), LikeIt(heap', origin),
           errs \subseteq errs', NEW come \in SUBSET DOMAIN origin, NEW more, come \subseteq more,
           NEW frame, FrameOK(frame, come), PastSettled(frame, come)
    PROVE  FrameOK(frame, more)' /\ PastSettled(frame, more)'
<1>1. FrameOK(frame, more)'
  BY DEF FrameOK, FieldsOf, Val
<1> DEFINE n == frame.node
<1>2. n \in DOMAIN origin
  BY DEF FrameOK
<1>3. ASSUME NEW j \in 1..(frame.at - 1)
      PROVE  LET name == FieldsOf(n)[j].name
             IN  Settled(n, name, frame.val[name], more \cup frame.todo)'
  <2> DEFINE name == FieldsOf(n)[j].name
  <2>1. j \in 1..Len(FieldsOf(n))
    BY <1>2, FieldsAre DEF FrameOK
  <2>2. PICK nm : nm = name
    OBVIOUS
  <2>3. nm \in NamesOf(origin, n)
    BY <1>2, <2>1, <2>2, FieldsAre
  <2>4. Settled(n, nm, frame.val[nm], come \cup frame.todo)
    BY <2>2 DEF PastSettled
  <2>5. PICK v : v = frame.val[nm]
    OBVIOUS
  <2>6. Settled(n, nm, v, more \cup frame.todo)'
    BY <1>2, <2>3, <2>4, <2>5, SettledStays
  <2>7. nm = (FieldsOf(n)[j].name)'
    BY <2>2 DEF FieldsOf
  <2>8. QED
    BY <2>5, <2>6, <2>7
<1>4. QED
  BY <1>1, <1>3 DEF PastSettled

LEMMA NodeStays ==
    ASSUME origin \in Documents, origin' = origin, LikeIt(heap, origin), LikeIt(heap', origin),
           errs \subseteq errs', NEW come, NEW more, come \subseteq more,
           NEW n \in DOMAIN origin, NodeSettled(n, come),
           \A name \in NamesOf(origin, n) : heap'[n].val[name] = heap[n].val[name]
    PROVE  NodeSettled(n, more)'
<1>1. ASSUME NEW name \in NamesOf(origin, n)
      PROVE  Settled(n, name, heap[n].val[name], more)'
  <2>1. PICK v : v = heap[n].val[name]
    OBVIOUS
  <2>2. Settled(n, name, v, come)
    BY <2>1 DEF NodeSettled
  <2>3. Settled(n, name, v, more)'
    BY <2>2, SettledStays
  <2>4. heap'[n].val[name] = v
    BY <2>1
  <2>5. QED
    BY <2>3, <2>4
<1>2. QED
  BY <1>1 DEF NodeSettled

LEMMA WrongStays ==
    ASSUME origin \in Documents, origin' = origin, LikeIt(heap, origin), LikeIt(heap', origin),
           NEW n \in DOMAIN origin
    PROVE  Wrong(n)' = Wrong(n)
<1> DEFINE E(name) == FieldErrors(n, Tag(origin, n, name), Val(n, name))
<1>1. ASSUME NEW name \in NamesOf(origin, n) PROVE E(name)' = E(name)
  <2>1. Tag(origin, n, name).refs \in {{}, ToSources, ToConventions}
    BY DocumentIs, NameOf DEF FieldOK
  <2>2. PICK f, v : f = Tag(origin, n, name) /\ v = Val(n, name)
    OBVIOUS
  <2>3. FieldErrors(n, f, v)' = FieldErrors(n, f, v)
    BY <2>1, <2>2, ErrorsKept
  <2>4. f = Tag(origin', n, name) /\ v = Val(n, name)'
    BY <2>2 DEF Val
  <2>5. QED
    BY <2>2, <2>3, <2>4
<1> HIDE DEF E
<1>2. {E(name) : name \in NamesOf(origin, n)} = {E(name)' : name \in NamesOf(origin, n)}
  BY <1>1
<1>3. Wrong(n) = UNION {E(name) : name \in NamesOf(origin, n)}
  BY DEF Wrong, E
<1>4. Wrong(n)' = UNION {E(name)' : name \in NamesOf(origin, n)}
  BY DEF Wrong, E
<1>5. QED
  BY <1>2, <1>3, <1>4

LEMMA SchemaStarts == SchemaInit => SchemaInv
<1> SUFFICES ASSUME SchemaInit PROVE SchemaInv
  OBVIOUS
<1>1. origin \in Documents /\ heap = origin /\ stack = <<>> /\ errs = {} /\ pass = "version"
  BY DEF SchemaInit
<1>2. LikeIt(origin, origin)
  BY <1>1, DocumentIs DEF LikeIt
<1>3. stack \in Seq({})
  BY <1>1
<1>4. QED
  BY <1>1, <1>2, <1>3 DEF SchemaInv

(* A new frame is one in which nothing is settled yet.                     *)
LEMMA FrameStarts ==
    ASSUME origin \in Documents, LikeIt(heap, origin),
           NEW n \in DOMAIN origin, NEW come, n \in come
    PROVE  FrameOK(Frame(n), come) /\ PastSettled(Frame(n), come) /\ Frame(n).node = n
<1>1. /\ Frame(n).node = n /\ Frame(n).val = heap[n].val /\ Frame(n).at = 1 /\ Frame(n).todo = {}
      /\ DOMAIN Frame(n) = {"node", "val", "at", "todo"}
  BY DEF Frame
<1>2. FrameOK(Frame(n), come)
  BY <1>1, FieldsAre DEF FrameOK, LikeIt, Val
<1>3. PastSettled(Frame(n), come)
  <2>1. 1..(Frame(n).at - 1) = {}
    BY <1>1
  <2>2. QED
    BY <2>1 DEF PastSettled
<1>4. QED
  BY <1>1, <1>2, <1>3

LEMMA VersionKeeps == SchemaInv /\ Version => SchemaInv'
<1> SUFFICES ASSUME SchemaInv, Version PROVE SchemaInv'
  OBVIOUS
<1>1. origin \in Documents /\ LikeIt(heap, origin) /\ errs = {} /\ UNCHANGED <<origin, heap, errs>>
  BY DEF SchemaInv, Version
<1>2. Root \in DOMAIN origin
  BY <1>1, DocumentAssumption
<1>3. CASE pass' = "leaves" /\ stack' = <<Frame(Root)>>
  <2>1. FrameOK(Frame(Root), {Root}) /\ PastSettled(Frame(Root), {Root}) /\ Frame(Root).node = Root
    BY <1>1, <1>2, FrameStarts
  <2>2. PICK top : top = Frame(Root)
    OBVIOUS
  <2>3. ToSet(stack') = {top} /\ stack' \in Seq({top})
    BY <1>3, <2>2 DEF ToSet
  <2>4. FrameOK(top, {Root})' /\ PastSettled(top, {Root})'
    <3>1. {Root} \in SUBSET DOMAIN origin
      BY <1>2
    <3>2. QED
      BY <1>1, <2>1, <2>2, <3>1, FrameStays
  <2>5. LeavesInv({Root})'
    BY <1>1, <2>1, <2>2, <2>3, <2>4 DEF LeavesInv
  <2>6. QED
    BY <1>1, <1>2, <1>3, <2>3, <2>5 DEF SchemaInv
<1>4. CASE pass' = "unsupported" /\ stack' = stack
  BY <1>1, <1>4 DEF SchemaInv, Version
<1>5. QED
  BY <1>3, <1>4 DEF Version

(* A step of the first walk keeps what is settled, if it does that to the  *)
(* frames it puts on the stack and to the nodes it is done with.           *)
LeavesMove(come, more) ==
    /\ come \subseteq more /\ errs \subseteq errs'
    /\ errs' \subseteq UNION {Wrong(n) : n \in DOMAIN origin}
    /\ \A frame \in ToSet(stack') :
        frame \in ToSet(stack) \/ (FrameOK(frame, more)' /\ PastSettled(frame, more)')
    /\ \A n \in more : \/ \E frame \in ToSet(stack') : frame.node = n
                       \/ NodeSettled(n, more)'
                       \/ /\ n \in come /\ ~\E frame \in ToSet(stack) : frame.node = n
                          /\ \A name \in NamesOf(origin, n) :
                                heap'[n].val[name] = heap[n].val[name]

LEMMA LeavesStep ==
    ASSUME origin \in Documents, origin' = origin, LikeIt(heap, origin), LikeIt(heap', origin),
           NEW come \in SUBSET DOMAIN origin, NEW more \in SUBSET DOMAIN origin,
           LeavesInv(come), LeavesMove(come, more)
    PROVE  LeavesInv(more)'
<1>1. Root \in more
  BY DEF LeavesInv, LeavesMove
<1>2. \A frame \in ToSet(stack') : FrameOK(frame, more)' /\ PastSettled(frame, more)'
  <2>1. ASSUME NEW frame \in ToSet(stack) PROVE FrameOK(frame, more)' /\ PastSettled(frame, more)'
    <3>1. FrameOK(frame, come) /\ PastSettled(frame, come)
      BY DEF LeavesInv
    <3>2. come \subseteq more /\ errs \subseteq errs'
      BY DEF LeavesMove
    <3>3. QED
      BY <3>1, <3>2, FrameStays
  <2>2. QED
    BY <2>1 DEF LeavesMove
<1>3. \A n \in more : NodeSettled(n, more)' \/ \E frame \in ToSet(stack') : frame.node = n
  <2>1. ASSUME NEW n \in come, NodeSettled(n, come),
               \A name \in NamesOf(origin, n) : heap'[n].val[name] = heap[n].val[name]
        PROVE  NodeSettled(n, more)'
    <3>1. come \subseteq more /\ errs \subseteq errs'
      BY DEF LeavesMove
    <3>2. QED
      BY <2>1, <3>1, NodeStays
  <2>2. QED
    BY <2>1 DEF LeavesInv, LeavesMove
<1>4. errs' \subseteq UNION {Wrong(n)' : n \in DOMAIN origin}
  BY WrongStays DEF LeavesMove
<1>5. QED
  BY <1>1, <1>2, <1>3, <1>4 DEF LeavesInv

(* The field that comes next. *)
LEMMA NextField ==
    ASSUME origin \in Documents, LikeIt(heap, origin), NEW come \in SUBSET DOMAIN origin,
           FrameOK(Top, come), Top.at <= Len(Fields)
    PROVE  LET f == Fields[Top.at]
           IN  /\ Top.node \in DOMAIN origin /\ Fields = FieldsOf(Top.node)
               /\ Top.at \in 1..Len(Fields) /\ f.name \in NamesOf(origin, Top.node)
               /\ Tag(origin, Top.node, f.name) = f
               /\ WithDefault(f, Top.val[f.name]) = Val(Top.node, f.name)
<1>1. Top.node \in DOMAIN origin /\ Fields = FieldsOf(Top.node)
  BY DEF FrameOK, LikeIt, Fields, FieldsOf
<1>2. Top.at \in 1..Len(Fields)
  BY <1>1, FieldsAre DEF FrameOK
<1>3. Fields[Top.at].name \in NamesOf(origin, Top.node)
      /\ Tag(origin, Top.node, Fields[Top.at].name) = Fields[Top.at]
  BY <1>1, <1>2, FieldsAre
<1>4. WithDefault(Fields[Top.at], Top.val[Fields[Top.at].name]) = Val(Top.node, Fields[Top.at].name)
  <2> DEFINE f == Fields[Top.at]
  <2>1. Val(Top.node, f.name) = WithDefault(f, origin[Top.node].val[f.name])
    BY <1>3 DEF Val, Value
  <2>2. Top.val[f.name] \in {origin[Top.node].val[f.name], Val(Top.node, f.name)}
    BY <1>3 DEF FrameOK
  <2> HIDE DEF f
  <2>3. QED
    BY <2>1, <2>2, DefaultTwice DEF f
<1>5. QED
  BY <1>1, <1>2, <1>3, <1>4

(* The frame that WalkField leaves.                                        *)
LEMMA FieldFrame ==
    ASSUME NEW name, NEW v, NEW todo, NEW frame,
           DOMAIN frame = {"node", "val", "at", "todo"}, name \in DOMAIN frame.val
    PROVE  LET g == [frame EXCEPT !.val[name] = v, !.at = @ + 1, !.todo = todo]
           IN  /\ DOMAIN g = {"node", "val", "at", "todo"} /\ g.node = frame.node
               /\ g.at = frame.at + 1 /\ g.todo = todo /\ DOMAIN g.val = DOMAIN frame.val
               /\ g.val[name] = v
               /\ \A m \in DOMAIN frame.val : m # name => g.val[m] = frame.val[m]
OBVIOUS

LEMMA LeavesField ==
    ASSUME SchemaInv, WalkField, pass = "leaves"
    PROVE  SchemaInv'
<1>1. PICK come \in SUBSET DOMAIN origin : LeavesInv(come)
  BY DEF SchemaInv
<1>2. PICK S : stack \in Seq(S)
  BY DEF SchemaInv
<1>3. /\ origin \in Documents /\ LikeIt(heap, origin) /\ UNCHANGED <<pass, origin, heap>>
      /\ stack # <<>> /\ Top.todo = {} /\ Top.at <= Len(Fields)
  BY DEF SchemaInv, WalkField, Walking
<1>4. PICK top, f, n, w, rest :
          top = Top /\ f = Fields[Top.at] /\ n = Top.node /\ rest = Front(stack)
          /\ w = WithDefault(Fields[Top.at], Top.val[Fields[Top.at].name])
  OBVIOUS
<1>5. PICK todo, g : /\ todo = IF f.kind \in Holders THEN w ELSE {}
                     /\ g = [top EXCEPT !.val[f.name] = w, !.at = @ + 1, !.todo = todo]
  OBVIOUS
<1>6. stack' = Append(rest, g) /\ errs' = errs \cup FieldErrors(n, f, w)
  <2>1. /\ stack' = Append(Front(stack),
              [Top EXCEPT !.val[Fields[Top.at].name] =
                     WithDefault(Fields[Top.at], Top.val[Fields[Top.at].name]),
                  !.at = @ + 1,
                  !.todo = IF Fields[Top.at].kind \in Holders
                           THEN WithDefault(Fields[Top.at], Top.val[Fields[Top.at].name]) ELSE {}])
        /\ errs' = errs \cup FieldErrors(Top.node, Fields[Top.at],
                         WithDefault(Fields[Top.at], Top.val[Fields[Top.at].name]))
    BY Zenon DEF WalkField
  <2>2. QED
    BY <1>4, <1>5, <2>1
<1>7. rest \in Seq(S) /\ top \in ToSet(stack) /\ ToSet(stack) = ToSet(rest) \cup {top}
  BY <1>2, <1>3, <1>4, StackTop DEF Top
<1>8. FrameOK(top, come) /\ PastSettled(top, come)
  BY <1>1, <1>7 DEF LeavesInv
<1>9. /\ n \in DOMAIN origin /\ Fields = FieldsOf(n) /\ top.at \in 1..Len(FieldsOf(n))
      /\ f = FieldsOf(n)[top.at] /\ top.node = n
      /\ f.name \in NamesOf(origin, n) /\ Tag(origin, n, f.name) = f /\ w = Val(n, f.name)
  BY <1>3, <1>4, <1>8, NextField
<1>10. /\ DOMAIN g = {"node", "val", "at", "todo"} /\ g.node = n /\ g.at = top.at + 1
       /\ g.todo = todo /\ DOMAIN g.val = DOMAIN top.val /\ g.val[f.name] = w
       /\ \A m \in DOMAIN top.val : m # f.name => g.val[m] = top.val[m]
  <2>1. DOMAIN top = {"node", "val", "at", "todo"} /\ f.name \in DOMAIN top.val
    BY <1>8, <1>9 DEF FrameOK
  <2>2. QED
    BY <1>5, <1>9, <2>1, FieldFrame
<1>11. Leads(n, f.name) = todo /\ todo \subseteq DOMAIN origin
  <2>1. f.kind \in Holders => w = origin[n].val[f.name] /\ w \subseteq DOMAIN origin
    BY <1>3, <1>9, DocumentIs DEF Val
  <2>2. QED
    BY <1>5, <1>9, <2>1 DEF Leads
<1>12. FrameOK(g, come)
  BY <1>8, <1>9, <1>10, <1>11, FieldsAre DEF FrameOK
<1>13. FieldErrors(n, f, w) \subseteq errs' /\ errs \subseteq errs'
  BY <1>6
<1>14. PastSettled(g, come)'
  <2>1. ASSUME NEW j \in 1..(g.at - 1)
        PROVE  Settled(n, FieldsOf(n)[j].name, g.val[FieldsOf(n)[j].name], come \cup todo)'
    <3>1. PICK nm : nm = FieldsOf(n)[j].name
      OBVIOUS
    <3>2. nm = FieldsOf(n)[j].name'
      BY <1>3, <3>1 DEF FieldsOf
    <3>3. CASE j = top.at
      <4>1. nm = f.name
        BY <1>9, <3>1, <3>3
      <4>2. FieldErrors(n, f, w)' = FieldErrors(n, f, w)
        <5>1. FieldOK(origin[n].type, Tag(origin, n, f.name))
          BY <1>3, <1>9, DocumentIs, NameOf
        <5>2. f.refs \in {{}, ToSources, ToConventions}
          BY <1>9, <5>1 DEF FieldOK
        <5>3. QED
          BY <1>3, <5>2, ErrorsKept
      <4>3. w = Val(n, f.name)' /\ Leads(n, f.name)' = todo /\ f = Tag(origin, n, f.name)'
        BY <1>3, <1>9, <1>11 DEF Val, Leads
      <4>4. Settled(n, f.name, w, come \cup todo)'
        BY <1>13, <4>2, <4>3 DEF Settled
      <4>5. QED
        BY <1>10, <3>2, <4>1, <4>4
    <3>4. CASE j # top.at
      <4>1. j \in 1..(top.at - 1) /\ j \in 1..Len(FieldsOf(n))
        BY <1>3, <1>9, <1>10, <3>4, FieldsAre
      <4>2. Settled(n, nm, top.val[nm], come)
        <5>1. come \cup top.todo = come
          BY <1>3, <1>4
        <5>2. QED
          BY <1>8, <1>9, <3>1, <4>1, <5>1 DEF PastSettled
      <4>3. nm \in NamesOf(origin, n) /\ nm \in DOMAIN top.val
        BY <1>3, <1>8, <1>9, <3>1, <4>1, FieldsAre DEF FrameOK
      <4>4. g.val[nm] = top.val[nm]
        BY <1>9, <1>10, <4>2, <4>3 DEF Settled
      <4>5. PICK y : y = g.val[nm]
        OBVIOUS
      <4>6. Settled(n, nm, y, come \cup todo)'
        <5>1. Settled(n, nm, y, come) /\ come \subseteq come \cup todo
          BY <4>2, <4>4, <4>5
        <5>2. QED
          BY <1>3, <1>9, <1>13, <4>3, <5>1, SettledStays
      <4>7. QED
        BY <3>2, <4>5, <4>6
    <3>5. QED
      BY <3>3, <3>4
  <2>2. QED
    BY <1>10, <2>1 DEF PastSettled
<1>15. errs' \subseteq UNION {Wrong(m) : m \in DOMAIN origin}
  <2>1. FieldErrors(n, f, w) \subseteq Wrong(n)
    BY <1>9 DEF Wrong
  <2>2. QED
    BY <1>1, <1>9, <1>6, <2>1 DEF LeavesInv
<1>16. ToSet(stack') = ToSet(rest) \cup {g} /\ stack' \in Seq(S \cup {g})
  BY <1>6, <1>7, StackPut
<1>17. LeavesInv(come)'
  <2>1. FrameOK(g, come)'
    BY <1>3, <1>12 DEF FrameOK, FieldsOf, Val
  <2>2. come \subseteq come /\ errs \subseteq errs'
    BY <1>13
  <2>3. \A frame \in ToSet(stack') :
            frame \in ToSet(stack) \/ (FrameOK(frame, come)' /\ PastSettled(frame, come)')
    BY <1>7, <1>14, <1>16, <2>1
  <2>4. \A m \in come : \/ \E frame \in ToSet(stack') : frame.node = m
                        \/ NodeSettled(m, come)'
                        \/ /\ m \in come /\ ~\E frame \in ToSet(stack) : frame.node = m
                           /\ \A name \in NamesOf(origin, m) :
                                    heap'[m].val[name] = heap[m].val[name]
    BY <1>3, <1>7, <1>9, <1>10, <1>16
  <2>5. LeavesMove(come, come)
    BY <1>15, <2>2, <2>3, <2>4 DEF LeavesMove
  <2>6. QED
    BY <1>1, <1>3, <2>5, LeavesStep
<1>18. QED
  BY <1>3, <1>16, <1>17 DEF SchemaInv

(* The document that WalkOut leaves. *)
LEMMA OutDocument ==
    ASSUME origin \in Documents, LikeIt(heap, origin), NEW come \in SUBSET DOMAIN origin,
           NEW frame, FrameOK(frame, come)
    PROVE  LET h == [heap EXCEPT ![frame.node].val = frame.val]
           IN  /\ LikeIt(h, origin) /\ h[frame.node].val = frame.val
               /\ \A m \in DOMAIN origin : m # frame.node => h[m] = heap[m]
<1>1. PICK h : h = [heap EXCEPT ![frame.node].val = frame.val]
  OBVIOUS
<1>2. frame.node \in DOMAIN origin /\ DOMAIN heap = DOMAIN origin
  BY DEF FrameOK, LikeIt
<1>3. /\ DOMAIN h = DOMAIN origin
      /\ \A m \in DOMAIN origin : m # frame.node => h[m] = heap[m]
      /\ h[frame.node] = [heap[frame.node] EXCEPT !.val = frame.val]
  BY <1>1, <1>2
<1>4. DOMAIN heap[frame.node] = {"type", "key", "val", "unsound"}
  BY <1>2 DEF LikeIt
<1>5. /\ DOMAIN h[frame.node] = {"type", "key", "val", "unsound"}
      /\ h[frame.node].type = heap[frame.node].type /\ h[frame.node].key = heap[frame.node].key
      /\ h[frame.node].unsound = heap[frame.node].unsound /\ h[frame.node].val = frame.val
  BY <1>3, <1>4
<1>6. LikeIt(h, origin)
  <2>1. ASSUME NEW m \in DOMAIN origin
        PROVE  /\ DOMAIN h[m] = {"type", "key", "val", "unsound"}
               /\ h[m].type = origin[m].type /\ h[m].key = origin[m].key
               /\ h[m].unsound = origin[m].unsound
               /\ DOMAIN h[m].val = NamesOf(origin, m)
               /\ \A name \in NamesOf(origin, m) :
                     h[m].val[name] \in {origin[m].val[name], Value(origin, m, name)}
    <3>1. CASE m = frame.node
      BY <1>5, <3>1 DEF LikeIt, FrameOK, Val
    <3>2. CASE m # frame.node
      BY <1>3, <3>2 DEF LikeIt
    <3>3. QED
      BY <3>1, <3>2
  <2>2. QED
    BY <1>3, <2>1 DEF LikeIt
<1>7. QED
  BY <1>1, <1>3, <1>5, <1>6

LEMMA LeavesInto ==
    ASSUME SchemaInv, WalkInto, pass = "leaves"
    PROVE  SchemaInv'
<1>1. PICK come \in SUBSET DOMAIN origin : LeavesInv(come)
  BY DEF SchemaInv
<1>2. PICK S : stack \in Seq(S)
  BY DEF SchemaInv
<1>3. /\ origin \in Documents /\ LikeIt(heap, origin) /\ UNCHANGED <<pass, origin, heap>>
      /\ stack # <<>> /\ errs' = errs
  BY DEF SchemaInv, WalkInto, Walking
<1>4. PICK c \in Top.todo : stack' = Front(stack) \o <<[Top EXCEPT !.todo = @ \ {c}], Frame(c)>>
  BY DEF WalkInto
<1>5. PICK top, rest, g, new : /\ top = Top /\ rest = Front(stack) /\ new = Frame(c)
                               /\ g = [Top EXCEPT !.todo = @ \ {c}]
  OBVIOUS
<1>6. rest \in Seq(S) /\ top \in ToSet(stack) /\ ToSet(stack) = ToSet(rest) \cup {top}
  BY <1>2, <1>3, <1>5, StackTop DEF Top
<1>7. FrameOK(top, come) /\ PastSettled(top, come)
  BY <1>1, <1>6 DEF LeavesInv
<1>8. PICK more : more = come \cup {c}
  OBVIOUS
<1>9. /\ g.node = top.node /\ g.at = top.at /\ g.val = top.val /\ g.todo = top.todo \ {c}
      /\ FrameOK(g, more) /\ more \in SUBSET DOMAIN origin
  <2>1. c \in top.todo /\ g = [top EXCEPT !.todo = @ \ {c}]
    BY <1>4, <1>5
  <2>2. /\ DOMAIN g = {"node", "val", "at", "todo"} /\ g.node = top.node /\ g.at = top.at
        /\ g.val = top.val /\ g.todo = top.todo \ {c}
    BY <1>7, <2>1 DEF FrameOK
  <2>3. FrameOK(g, more)
    BY <1>7, <1>8, <2>2 DEF FrameOK
  <2>4. more \in SUBSET DOMAIN origin
    BY <1>7, <1>8, <2>1 DEF FrameOK
  <2>5. QED
    BY <2>2, <2>3, <2>4
<1>10. PastSettled(g, more)
  <2>1. come \cup top.todo \subseteq more \cup g.todo
    BY <1>8, <1>9
  <2>2. QED
    BY <1>7, <1>9, <2>1 DEF PastSettled, Settled
<1>11. FrameOK(new, more) /\ PastSettled(new, more) /\ new.node = c
  <2>1. c \in DOMAIN origin /\ c \in more
    BY <1>8, <1>9
  <2>2. QED
    BY <1>3, <1>5, <2>1, FrameStarts
<1>12. FrameOK(g, more)' /\ PastSettled(g, more)' /\ FrameOK(new, more)' /\ PastSettled(new, more)'
  <2>1. errs \subseteq errs' /\ LikeIt(heap', origin) /\ more \subseteq more
    BY <1>3
  <2>2. FrameOK(g, more)' /\ PastSettled(g, more)'
    BY <1>3, <1>9, <1>10, <2>1, FrameStays
  <2>3. FrameOK(new, more)' /\ PastSettled(new, more)'
    BY <1>3, <1>9, <1>11, <2>1, FrameStays
  <2>4. QED
    BY <2>2, <2>3
<1>13. ToSet(stack') = ToSet(rest) \cup {g, new} /\ stack' \in Seq(S \cup {g, new})
  <2>1. stack' = rest \o <<g, new>>
    BY <1>4, <1>5
  <2>2. ToSet(rest \o <<g, new>>) = ToSet(rest) \cup {g} \cup {new}
    BY <1>6, StackPutTwo
  <2>3. rest \o <<g, new>> \in Seq(S \cup {g, new})
    BY <1>6
  <2>4. QED
    BY <2>1, <2>2, <2>3
<1>14. LeavesInv(more)'
  <2>1. come \subseteq more /\ errs \subseteq errs'
    BY <1>3, <1>8
  <2>2. errs' \subseteq UNION {Wrong(n) : n \in DOMAIN origin}
    BY <1>1, <1>3 DEF LeavesInv
  <2>3. \A frame \in ToSet(stack') :
            frame \in ToSet(stack) \/ (FrameOK(frame, more)' /\ PastSettled(frame, more)')
    BY <1>6, <1>12, <1>13
  <2>4. \A m \in more : \/ \E frame \in ToSet(stack') : frame.node = m
                        \/ NodeSettled(m, more)'
                        \/ /\ m \in come /\ ~\E frame \in ToSet(stack) : frame.node = m
                           /\ \A name \in NamesOf(origin, m) :
                                    heap'[m].val[name] = heap[m].val[name]
    BY <1>3, <1>6, <1>8, <1>9, <1>11, <1>13
  <2>5. LeavesMove(come, more)
    BY <2>1, <2>2, <2>3, <2>4 DEF LeavesMove
  <2>6. QED
    BY <1>1, <1>3, <1>9, <2>5, LeavesStep
<1>15. QED
  BY <1>3, <1>9, <1>13, <1>14 DEF SchemaInv

LEMMA LeavesOut ==
    ASSUME SchemaInv, WalkOut, pass = "leaves"
    PROVE  SchemaInv'
<1>1. PICK come \in SUBSET DOMAIN origin : LeavesInv(come)
  BY DEF SchemaInv
<1>2. PICK S : stack \in Seq(S)
  BY DEF SchemaInv
<1>3. /\ origin \in Documents /\ LikeIt(heap, origin) /\ UNCHANGED <<pass, origin, errs>>
      /\ stack # <<>> /\ Top.todo = {} /\ Top.at > Len(Fields)
  BY DEF SchemaInv, WalkOut, Walking
<1>4. PICK top, rest, n : top = Top /\ rest = Front(stack) /\ n = Top.node
  OBVIOUS
<1>5. stack' = rest /\ heap' = [heap EXCEPT ![top.node].val = top.val]
  BY <1>4 DEF WalkOut
<1>6. rest \in Seq(S) /\ top \in ToSet(stack) /\ ToSet(stack) = ToSet(rest) \cup {top}
  BY <1>2, <1>3, <1>4, StackTop DEF Top
<1>7. FrameOK(top, come) /\ PastSettled(top, come)
  BY <1>1, <1>6 DEF LeavesInv
<1>8. /\ LikeIt(heap', origin) /\ heap'[n].val = top.val /\ n \in DOMAIN origin
      /\ \A m \in DOMAIN origin : m # n => heap'[m] = heap[m]
  <2>1. PICK h : h = [heap EXCEPT ![top.node].val = top.val]
    OBVIOUS
  <2>2. /\ LikeIt(h, origin) /\ h[top.node].val = top.val
        /\ \A m \in DOMAIN origin : m # top.node => h[m] = heap[m]
    BY <1>3, <1>7, <2>1, OutDocument
  <2>3. heap' = h /\ top.node = n /\ n \in DOMAIN origin
    BY <1>4, <1>5, <1>7, <2>1 DEF FrameOK
  <2>4. QED
    BY <2>2, <2>3
<1>9. NodeSettled(n, come)'
  <2>1. ASSUME NEW name \in NamesOf(origin, n) PROVE Settled(n, name, heap[n].val[name], come)'
    <3>1. PICK v : v = heap'[n].val[name]
      OBVIOUS
    <3>2. Settled(n, name, v, come)
      <4>1. PICK j \in 1..Len(FieldsOf(n)) : FieldsOf(n)[j].name = name
        BY <1>3, <1>8, FieldsAre
      <4>2. top.at = Len(FieldsOf(n)) + 1 /\ Len(FieldsOf(n)) \in Nat
        <5>1. Fields = FieldsOf(n)
          BY <1>3, <1>4, <1>8 DEF Fields, FieldsOf, LikeIt
        <5>2. Len(FieldsOf(n)) \in Nat
          BY <1>3, <1>8, FieldsAre
        <5>3. top.at \in 1..(Len(FieldsOf(n)) + 1) /\ top.at > Len(FieldsOf(n))
          BY <1>3, <1>4, <1>7, <5>1 DEF FrameOK
        <5>4. QED
          BY <5>2, <5>3
      <4>3. j \in 1..(top.at - 1)
        BY <4>1, <4>2
      <4>4. Settled(n, name, top.val[name], come \cup top.todo)
        BY <1>4, <1>7, <4>1, <4>3 DEF PastSettled
      <4>5. QED
        BY <1>3, <1>4, <1>8, <3>1, <4>4
    <3>3. errs \subseteq errs' /\ come \subseteq come
      BY <1>3
    <3>4. Settled(n, name, v, come)'
      BY <1>3, <1>8, <3>2, <3>3, SettledStays
    <3>5. QED
      BY <3>1, <3>4
  <2>2. QED
    BY <1>3, <2>1 DEF NodeSettled
<1>10. LeavesInv(come)'
  <2>1. come \subseteq come /\ errs \subseteq errs'
    BY <1>3
  <2>2. errs' \subseteq UNION {Wrong(m) : m \in DOMAIN origin}
    BY <1>1, <1>3 DEF LeavesInv
  <2>3. \A frame \in ToSet(stack') :
            frame \in ToSet(stack) \/ (FrameOK(frame, come)' /\ PastSettled(frame, come)')
    BY <1>5, <1>6
  <2>4. \A m \in come : \/ \E frame \in ToSet(stack') : frame.node = m
                        \/ NodeSettled(m, come)'
                        \/ /\ m \in come /\ ~\E frame \in ToSet(stack) : frame.node = m
                           /\ \A name \in NamesOf(origin, m) :
                                    heap'[m].val[name] = heap[m].val[name]
    BY <1>4, <1>5, <1>6, <1>8, <1>9
  <2>5. LeavesMove(come, come)
    BY <2>1, <2>2, <2>3, <2>4 DEF LeavesMove
  <2>6. QED
    BY <1>1, <1>3, <1>8, <2>5, LeavesStep
<1>11. QED
  BY <1>3, <1>5, <1>6, <1>8, <1>10 DEF SchemaInv

(* A walk that has come to all that the nodes it has come to lead to has   *)
(* come to every node.                                                     *)
LEMMA AllReached ==
    ASSUME origin \in Documents, NEW come \in SUBSET DOMAIN origin, Root \in come,
           \A n \in come : NodeLeads(n, come)
    PROVE  come = DOMAIN origin
<1> DEFINE nodes == DOMAIN origin \ come
<1>1. SUFFICES ASSUME nodes # {} PROVE FALSE
  OBVIOUS
<1>2. nodes \in SUBSET (DOMAIN origin \ {Root})
  OBVIOUS
<1>3. PICK n \in DOMAIN origin \ nodes : Held(origin, n) \cap nodes # {}
  BY <1>1, <1>2, DocumentAssumption
<1>4. n \in come
  BY <1>3
<1>5. PICK name \in NamesOf(origin, n) :
        Tag(origin, n, name).kind \in Holders /\ origin[n].val[name] \cap nodes # {}
  BY <1>3 DEF Held
<1>6. origin[n].val[name] \subseteq come
  BY <1>4, <1>5 DEF NodeLeads, Leads
<1>7. QED
  BY <1>5, <1>6

LEMMA StructErrorsStay ==
    ASSUME origin \in Documents, origin' = origin, LikeIt(heap, origin), LikeIt(heap', origin),
           Final(heap), Final(heap'), NEW n \in DOMAIN origin
    PROVE  StructErrors(n)' = StructErrors(n)
<1>1. NamesOf(heap, n) = NamesOf(origin, n) /\ NamesOf(heap', n) = NamesOf(origin, n)
  BY DEF LikeIt, NamesOf
<1>2. \A name : Tag(heap', n, name) = Tag(heap, n, name)
  <2>1. heap'[n].type = heap[n].type
    BY DEF LikeIt
  <2>2. QED
    BY <2>1 DEF Tag
<1>3. \A name \in NamesOf(heap, n) : heap'[n].val[name] = heap[n].val[name]
  BY <1>1 DEF Final
<1>4. \A m : m \in {k \in DOMAIN heap : heap[k].unsound} <=> m \in {k \in DOMAIN heap' : heap'[k].unsound}
  BY DEF LikeIt
<1> DEFINE G == UNION {Tag(heap, n, name).groups : name \in NamesOf(heap, n)}
           Set(g) == {name \in NamesOf(heap, n) :
                g \in Tag(heap, n, name).groups /\ heap[n].val[name] # Tag(heap, n, name).zero}
           G2 == UNION {Tag(heap', n, name).groups : name \in NamesOf(heap', n)}
           Set2(g) == {name \in NamesOf(heap', n) :
                g \in Tag(heap', n, name).groups /\ heap'[n].val[name] # Tag(heap', n, name).zero}
<1>5. G2 = G
  BY <1>1, <1>2
<1>6. \A g : Set2(g) = Set(g)
  BY <1>1, <1>2, <1>3
<1>7. StructErrors(n) = {<<n, g, "oneof">> : g \in {g \in G : Cardinality(Set(g)) > 1}}
            \cup {<<n, "", "unsound">> : m \in {n} \cap {k \in DOMAIN heap : heap[k].unsound}}
  BY DEF StructErrors
<1>8. StructErrors(n)' = {<<n, g, "oneof">> : g \in {g \in G2 : Cardinality(Set2(g)) > 1}}
            \cup {<<n, "", "unsound">> : m \in {n} \cap {k \in DOMAIN heap' : heap'[k].unsound}}
  BY DEF StructErrors
<1> HIDE DEF G, G2, Set, Set2
<1>9. {g \in G2 : Cardinality(Set2(g)) > 1} = {g \in G : Cardinality(Set(g)) > 1}
  BY <1>5, <1>6
<1>10. {n} \cap {k \in DOMAIN heap' : heap'[k].unsound} = {n} \cap {k \in DOMAIN heap : heap[k].unsound}
  BY <1>4
<1>11. QED
  BY <1>7, <1>8, <1>9, <1>10

LEMMA LeavesEnd ==
    ASSUME SchemaInv, EndWalk, pass = "leaves"
    PROVE  SchemaInv'
<1>1. PICK come \in SUBSET DOMAIN origin : LeavesInv(come)
  BY DEF SchemaInv
<1>2. /\ origin \in Documents /\ LikeIt(heap, origin) /\ UNCHANGED <<origin, heap>>
      /\ stack = <<>> /\ pass' = "structs" /\ stack' = <<Frame(Root)>>
      /\ errs' = errs \cup StructErrors(Root)
  BY DEF SchemaInv, EndWalk
<1>3. ToSet(stack) = {}
  BY <1>2 DEF ToSet
<1>4. \A n \in come : NodeSettled(n, come)
  BY <1>1, <1>3 DEF LeavesInv
<1>5. come = DOMAIN origin
  BY <1>1, <1>2, <1>4, AllReached DEF LeavesInv, NodeSettled, NodeLeads, Settled
<1>6. Final(heap)
  BY <1>4, <1>5 DEF NodeSettled, Settled, Final
<1>7. \A n \in DOMAIN origin : Wrong(n) \subseteq errs
  <2>1. ASSUME NEW n \in DOMAIN origin, NEW name \in NamesOf(origin, n)
        PROVE  FieldErrors(n, Tag(origin, n, name), Val(n, name)) \subseteq errs
    BY <1>4, <1>5 DEF NodeSettled, Settled
  <2>2. QED
    BY <2>1 DEF Wrong
<1>8. Root \in DOMAIN origin
  BY <1>2, DocumentAssumption
<1>9. PICK top : top = Frame(Root)
  OBVIOUS
<1>10. ToSet(stack') = {top} /\ stack' \in Seq({top})
  BY <1>2, <1>9 DEF ToSet
<1>11. FrameOK(top, {Root}) /\ top.node = Root /\ top.val = heap[Root].val /\ top.at = 1
  <2>1. top.val = heap[Root].val /\ top.at = 1
    BY <1>9 DEF Frame
  <2>2. QED
    BY <1>2, <1>8, <1>9, <2>1, FrameStarts
<1>12. FrameOK(top, {Root})'
  BY <1>2, <1>11 DEF FrameOK, FieldsOf, Val
<1>13. PastLeads(top, {Root})'
  <2>1. \A name \in NamesOf(origin, Root) : top.val[name] = Val(Root, name)
    BY <1>6, <1>8, <1>11 DEF Final
  <2>2. 1..(top.at - 1) = {}
    BY <1>11
  <2>3. QED
    BY <1>2, <1>11, <2>1, <2>2 DEF PastLeads, Val
<1>14. \A n \in DOMAIN origin : Wrong(n)' = Wrong(n)
  BY <1>2, WrongStays
<1>15. \A n : StructErrors(n)' = StructErrors(n)
  BY <1>2 DEF StructErrors
<1>16. Final(heap)'
  BY <1>2, <1>6 DEF Final, Val
<1>17. StructsInv({Root})'
  <2>1. errs' \subseteq UNION {Wrong(n)' \cup StructErrors(n)' : n \in DOMAIN origin}
    <3>1. errs \subseteq UNION {Wrong(n) : n \in DOMAIN origin}
      BY <1>1 DEF LeavesInv
    <3>2. QED
      BY <1>2, <1>8, <1>14, <1>15, <3>1
  <2>2. \A n \in DOMAIN origin : Wrong(n)' \subseteq errs'
    BY <1>2, <1>7, <1>14
  <2>3. StructErrors(Root)' \subseteq errs'
    BY <1>2, <1>15
  <2>4. QED
    BY <1>2, <1>10, <1>11, <1>12, <1>13, <1>16, <2>1, <2>2, <2>3 DEF StructsInv
<1>18. QED
  BY <1>2, <1>8, <1>10, <1>17 DEF SchemaInv

(* A step of the second walk.                                              *)
StructsMove(come, more) ==
    /\ come \subseteq more /\ errs \subseteq errs' /\ Final(heap')
    /\ errs' \subseteq errs \cup UNION {StructErrors(n) : n \in DOMAIN origin}
    /\ \A n \in more \ come : StructErrors(n) \subseteq errs'
    /\ \A frame \in ToSet(stack') :
        frame \in ToSet(stack) \/ (FrameOK(frame, more) /\ PastLeads(frame, more))
    /\ \A n \in more : \/ \E frame \in ToSet(stack') : frame.node = n
                       \/ NodeLeads(n, more)
                       \/ n \in come /\ ~\E frame \in ToSet(stack) : frame.node = n

LEMMA StructsStep ==
    ASSUME origin \in Documents, origin' = origin, LikeIt(heap, origin), LikeIt(heap', origin),
           NEW come \in SUBSET DOMAIN origin, NEW more \in SUBSET DOMAIN origin,
           StructsInv(come), StructsMove(come, more)
    PROVE  StructsInv(more)'
<1>1. \A n \in DOMAIN origin : Wrong(n)' = Wrong(n)
  BY WrongStays
<1>2. \A n \in DOMAIN origin : StructErrors(n)' = StructErrors(n)
  BY StructErrorsStay DEF StructsInv, StructsMove
<1>3. Final(heap)'
  BY DEF Final, Val, StructsMove
<1>4. \A frame \in ToSet(stack') : FrameOK(frame, more)' /\ PastLeads(frame, more)'
  <2>1. ASSUME NEW frame \in ToSet(stack') PROVE FrameOK(frame, more) /\ PastLeads(frame, more)
    <3>1. CASE frame \in ToSet(stack)
      <4>1. FrameOK(frame, come) /\ PastLeads(frame, come) /\ come \subseteq more
        BY <3>1 DEF StructsInv, StructsMove
      <4>2. QED
        BY <4>1 DEF FrameOK, PastLeads
    <3>2. QED
      BY <3>1 DEF StructsMove
  <2>2. QED
    BY <2>1 DEF FrameOK, PastLeads, Leads, Val, FieldsOf
<1>5. ASSUME NEW n \in more
      PROVE  /\ StructErrors(n)' \subseteq errs'
             /\ NodeLeads(n, more)' \/ \E frame \in ToSet(stack') : frame.node = n
  <2>1. StructErrors(n)' \subseteq errs'
    BY <1>2 DEF StructsInv, StructsMove
  <2>2. NodeLeads(n, more) \/ \E frame \in ToSet(stack') : frame.node = n
    BY DEF StructsInv, StructsMove, NodeLeads
  <2>3. QED
    BY <2>1, <2>2 DEF NodeLeads, Leads
<1>6. \A n \in DOMAIN origin : Wrong(n)' \subseteq errs'
  BY <1>1 DEF StructsInv, StructsMove
<1>7. errs' \subseteq UNION {Wrong(n)' \cup StructErrors(n)' : n \in DOMAIN origin}
  <2>1. errs \subseteq UNION {Wrong(n) \cup StructErrors(n) : n \in DOMAIN origin}
    BY DEF StructsInv
  <2>2. errs' \subseteq UNION {Wrong(n) \cup StructErrors(n) : n \in DOMAIN origin}
    BY <2>1 DEF StructsMove
  <2>3. QED
    BY <1>1, <1>2, <2>2
<1>8. Root \in more
  BY DEF StructsInv, StructsMove
<1>9. QED
  BY <1>3, <1>4, <1>5, <1>6, <1>7, <1>8 DEF StructsInv

LEMMA StructsWalkField ==
    ASSUME SchemaInv, WalkField, pass = "structs"
    PROVE  SchemaInv'
<1>1. PICK come \in SUBSET DOMAIN origin : StructsInv(come)
  BY DEF SchemaInv
<1>2. PICK S : stack \in Seq(S)
  BY DEF SchemaInv
<1>3. /\ origin \in Documents /\ LikeIt(heap, origin) /\ UNCHANGED <<pass, origin, heap, errs>>
      /\ stack # <<>> /\ Top.todo = {} /\ Top.at <= Len(Fields)
  BY DEF SchemaInv, WalkField, Walking
<1>4. PICK top, f, n, w, rest :
          top = Top /\ f = Fields[Top.at] /\ n = Top.node /\ rest = Front(stack)
          /\ w = Top.val[Fields[Top.at].name]
  OBVIOUS
<1>5. PICK todo, g : /\ todo = IF f.kind \in Holders THEN w ELSE {}
                     /\ g = [top EXCEPT !.val[f.name] = w, !.at = @ + 1, !.todo = todo]
  OBVIOUS
<1>6. stack' = Append(rest, g)
  <2>1. stack' = Append(Front(stack),
              [Top EXCEPT !.val[Fields[Top.at].name] = Top.val[Fields[Top.at].name],
                  !.at = @ + 1,
                  !.todo = IF Fields[Top.at].kind \in Holders
                           THEN Top.val[Fields[Top.at].name] ELSE {}])
    <3>1. pass # "leaves"
      OBVIOUS
    <3>2. QED
      BY <3>1, Zenon DEF WalkField
  <2>2. QED
    BY <1>4, <1>5, <2>1
<1>7. rest \in Seq(S) /\ top \in ToSet(stack) /\ ToSet(stack) = ToSet(rest) \cup {top}
  BY <1>2, <1>3, <1>4, StackTop DEF Top
<1>8. FrameOK(top, come) /\ PastLeads(top, come)
  BY <1>1, <1>7 DEF StructsInv
<1>9. /\ n \in DOMAIN origin /\ top.at \in 1..Len(FieldsOf(n))
      /\ f = FieldsOf(n)[top.at] /\ top.node = n
      /\ f.name \in NamesOf(origin, n) /\ Tag(origin, n, f.name) = f /\ w = Val(n, f.name)
  <2>1. /\ n \in DOMAIN origin /\ Fields = FieldsOf(n) /\ top.at \in 1..Len(FieldsOf(n))
        /\ f.name \in NamesOf(origin, n) /\ Tag(origin, n, f.name) = f
    BY <1>3, <1>4, <1>8, NextField
  <2>2. QED
    BY <1>4, <1>8, <2>1 DEF PastLeads
<1>10. /\ DOMAIN g = {"node", "val", "at", "todo"} /\ g.node = n /\ g.at = top.at + 1
       /\ g.todo = todo /\ DOMAIN g.val = DOMAIN top.val /\ g.val[f.name] = w
       /\ \A m \in DOMAIN top.val : m # f.name => g.val[m] = top.val[m]
  <2>1. DOMAIN top = {"node", "val", "at", "todo"} /\ f.name \in DOMAIN top.val
    BY <1>8, <1>9 DEF FrameOK
  <2>2. QED
    BY <1>5, <1>9, <2>1, FieldFrame
<1>11. Leads(n, f.name) = todo /\ todo \subseteq DOMAIN origin
  <2>1. f.kind \in Holders => w = origin[n].val[f.name] /\ w \subseteq DOMAIN origin
    BY <1>3, <1>9, DocumentIs DEF Val
  <2>2. QED
    BY <1>5, <1>9, <2>1 DEF Leads
<1>12. FrameOK(g, come)
  BY <1>8, <1>9, <1>10, <1>11, FieldsAre DEF FrameOK
<1>13. PastLeads(g, come)
  <2>1. \A name \in NamesOf(origin, n) : g.val[name] = Val(n, name)
    BY <1>8, <1>9, <1>10 DEF PastLeads, FrameOK
  <2>2. ASSUME NEW j \in 1..(g.at - 1)
        PROVE  Leads(n, FieldsOf(n)[j].name) \subseteq come \cup todo
    <3>1. CASE j = top.at
      BY <1>9, <1>11, <3>1
    <3>2. CASE j # top.at
      <4>1. j \in 1..(top.at - 1)
        BY <1>3, <1>9, <1>10, <3>2, FieldsAre
      <4>2. QED
        BY <1>3, <1>4, <1>8, <1>9, <4>1 DEF PastLeads
    <3>3. QED
      BY <3>1, <3>2
  <2>3. QED
    BY <1>10, <2>1, <2>2 DEF PastLeads
<1>14. ToSet(stack') = ToSet(rest) \cup {g} /\ stack' \in Seq(S \cup {g})
  BY <1>6, <1>7, StackPut
<1>15. StructsInv(come)'
  <2>1. come \subseteq come /\ errs \subseteq errs' /\ Final(heap')
    BY <1>1, <1>3 DEF StructsInv
  <2>2. /\ errs' \subseteq errs \cup UNION {StructErrors(m) : m \in DOMAIN origin}
        /\ \A m \in come \ come : StructErrors(m) \subseteq errs'
    BY <1>3
  <2>3. \A frame \in ToSet(stack') :
            frame \in ToSet(stack) \/ (FrameOK(frame, come) /\ PastLeads(frame, come))
    BY <1>7, <1>12, <1>13, <1>14
  <2>4. \A m \in come : \/ \E frame \in ToSet(stack') : frame.node = m
                        \/ NodeLeads(m, come)
                        \/ m \in come /\ ~\E frame \in ToSet(stack) : frame.node = m
    BY <1>7, <1>9, <1>10, <1>14
  <2>5. StructsMove(come, come)
    BY <2>1, <2>2, <2>3, <2>4 DEF StructsMove
  <2>6. QED
    BY <1>1, <1>3, <2>5, StructsStep
<1>16. QED
  BY <1>3, <1>14, <1>15 DEF SchemaInv

LEMMA StructsInto ==
    ASSUME SchemaInv, WalkInto, pass = "structs"
    PROVE  SchemaInv'
<1>1. PICK come \in SUBSET DOMAIN origin : StructsInv(come)
  BY DEF SchemaInv
<1>2. PICK S : stack \in Seq(S)
  BY DEF SchemaInv
<1>3. /\ origin \in Documents /\ LikeIt(heap, origin) /\ UNCHANGED <<pass, origin, heap>>
      /\ stack # <<>>
  BY DEF SchemaInv, WalkInto, Walking
<1>4. PICK c \in Top.todo :
        /\ stack' = Front(stack) \o <<[Top EXCEPT !.todo = @ \ {c}], Frame(c)>>
        /\ errs' = errs \cup StructErrors(c)
  BY DEF WalkInto
<1>5. PICK top, rest, g, new : /\ top = Top /\ rest = Front(stack) /\ new = Frame(c)
                               /\ g = [Top EXCEPT !.todo = @ \ {c}]
  OBVIOUS
<1>6. rest \in Seq(S) /\ top \in ToSet(stack) /\ ToSet(stack) = ToSet(rest) \cup {top}
  BY <1>2, <1>3, <1>5, StackTop DEF Top
<1>7. FrameOK(top, come) /\ PastLeads(top, come)
  BY <1>1, <1>6 DEF StructsInv
<1>8. PICK more : more = come \cup {c}
  OBVIOUS
<1>9. /\ g.node = top.node /\ g.at = top.at /\ g.val = top.val /\ g.todo = top.todo \ {c}
      /\ FrameOK(g, more) /\ more \in SUBSET DOMAIN origin
  <2>1. c \in top.todo /\ g = [top EXCEPT !.todo = @ \ {c}]
    BY <1>4, <1>5
  <2>2. /\ DOMAIN g = {"node", "val", "at", "todo"} /\ g.node = top.node /\ g.at = top.at
        /\ g.val = top.val /\ g.todo = top.todo \ {c}
    BY <1>7, <2>1 DEF FrameOK
  <2>3. FrameOK(g, more)
    BY <1>7, <1>8, <2>2 DEF FrameOK
  <2>4. more \in SUBSET DOMAIN origin
    BY <1>7, <1>8, <2>1 DEF FrameOK
  <2>5. QED
    BY <2>2, <2>3, <2>4
<1>10. PastLeads(g, more)
  <2>1. come \cup top.todo \subseteq more \cup g.todo
    BY <1>8, <1>9
  <2>2. QED
    BY <1>7, <1>9, <2>1 DEF PastLeads
<1>11. c \in DOMAIN origin /\ c \in more
  BY <1>8, <1>9
<1>12. FrameOK(new, more) /\ PastLeads(new, more) /\ new.node = c
  <2>1. FrameOK(new, more) /\ new.node = c
    BY <1>3, <1>5, <1>11, FrameStarts
  <2>2. new.val = heap[c].val /\ new.at = 1
    BY <1>5 DEF Frame
  <2>3. \A name \in NamesOf(origin, c) : new.val[name] = Val(c, name)
    BY <1>1, <1>11, <2>2 DEF StructsInv, Final
  <2>4. 1..(new.at - 1) = {}
    BY <2>2
  <2>5. QED
    BY <2>1, <2>3, <2>4 DEF PastLeads
<1>13. ToSet(stack') = ToSet(rest) \cup {g, new} /\ stack' \in Seq(S \cup {g, new})
  <2>1. stack' = rest \o <<g, new>>
    BY <1>4, <1>5
  <2>2. ToSet(rest \o <<g, new>>) = ToSet(rest) \cup {g} \cup {new}
    BY <1>6, StackPutTwo
  <2>3. rest \o <<g, new>> \in Seq(S \cup {g, new})
    BY <1>6
  <2>4. QED
    BY <2>1, <2>2, <2>3
<1>14. StructsInv(more)'
  <2>1. come \subseteq more /\ errs \subseteq errs' /\ Final(heap')
    BY <1>1, <1>3, <1>4, <1>8 DEF StructsInv
  <2>2. /\ errs' \subseteq errs \cup UNION {StructErrors(m) : m \in DOMAIN origin}
        /\ \A m \in more \ come : StructErrors(m) \subseteq errs'
    BY <1>4, <1>8, <1>11
  <2>3. \A frame \in ToSet(stack') :
            frame \in ToSet(stack) \/ (FrameOK(frame, more) /\ PastLeads(frame, more))
    BY <1>6, <1>9, <1>10, <1>12, <1>13
  <2>4. \A m \in more : \/ \E frame \in ToSet(stack') : frame.node = m
                        \/ NodeLeads(m, more)
                        \/ m \in come /\ ~\E frame \in ToSet(stack) : frame.node = m
    BY <1>6, <1>8, <1>9, <1>12, <1>13
  <2>5. StructsMove(come, more)
    BY <2>1, <2>2, <2>3, <2>4 DEF StructsMove
  <2>6. QED
    BY <1>1, <1>3, <1>9, <2>5, StructsStep
<1>15. QED
  BY <1>3, <1>9, <1>13, <1>14 DEF SchemaInv

LEMMA StructsOut ==
    ASSUME SchemaInv, WalkOut, pass = "structs"
    PROVE  SchemaInv'
<1>1. PICK come \in SUBSET DOMAIN origin : StructsInv(come)
  BY DEF SchemaInv
<1>2. PICK S : stack \in Seq(S)
  BY DEF SchemaInv
<1>3. /\ origin \in Documents /\ LikeIt(heap, origin) /\ UNCHANGED <<pass, origin, errs>>
      /\ stack # <<>> /\ Top.todo = {} /\ Top.at > Len(Fields)
  BY DEF SchemaInv, WalkOut, Walking
<1>4. PICK top, rest, n : top = Top /\ rest = Front(stack) /\ n = Top.node
  OBVIOUS
<1>5. stack' = rest /\ heap' = [heap EXCEPT ![top.node].val = top.val]
  BY <1>4 DEF WalkOut
<1>6. rest \in Seq(S) /\ top \in ToSet(stack) /\ ToSet(stack) = ToSet(rest) \cup {top}
  BY <1>2, <1>3, <1>4, StackTop DEF Top
<1>7. FrameOK(top, come) /\ PastLeads(top, come)
  BY <1>1, <1>6 DEF StructsInv
<1>8. /\ LikeIt(heap', origin) /\ heap'[n].val = top.val /\ n \in DOMAIN origin
      /\ \A m \in DOMAIN origin : m # n => heap'[m] = heap[m]
  <2>1. PICK h : h = [heap EXCEPT ![top.node].val = top.val]
    OBVIOUS
  <2>2. /\ LikeIt(h, origin) /\ h[top.node].val = top.val
        /\ \A m \in DOMAIN origin : m # top.node => h[m] = heap[m]
    BY <1>3, <1>7, <2>1, OutDocument
  <2>3. heap' = h /\ top.node = n /\ n \in DOMAIN origin
    BY <1>4, <1>5, <1>7, <2>1 DEF FrameOK
  <2>4. QED
    BY <2>2, <2>3
<1>9. Final(heap')
  <2>1. \A m \in DOMAIN origin : m # n => \A name \in NamesOf(origin, m) :
            heap'[m].val[name] = Val(m, name)
    BY <1>1, <1>8 DEF StructsInv, Final
  <2>2. \A name \in NamesOf(origin, n) : heap'[n].val[name] = Val(n, name)
    BY <1>4, <1>7, <1>8 DEF PastLeads
  <2>3. QED
    BY <2>1, <2>2 DEF Final
<1>10. NodeLeads(n, come)
  <2>1. ASSUME NEW name \in NamesOf(origin, n) PROVE Leads(n, name) \subseteq come
    <3>1. PICK j \in 1..Len(FieldsOf(n)) : FieldsOf(n)[j].name = name
      BY <1>3, <1>8, FieldsAre
    <3>2. top.at = Len(FieldsOf(n)) + 1 /\ Len(FieldsOf(n)) \in Nat
      <4>1. Fields = FieldsOf(n)
        BY <1>3, <1>4, <1>8 DEF Fields, FieldsOf, LikeIt
      <4>2. Len(FieldsOf(n)) \in Nat
        BY <1>3, <1>8, FieldsAre
      <4>3. top.at \in 1..(Len(FieldsOf(n)) + 1) /\ top.at > Len(FieldsOf(n))
        BY <1>3, <1>4, <1>7, <4>1 DEF FrameOK
      <4>4. QED
        BY <4>2, <4>3
    <3>3. j \in 1..(top.at - 1)
      BY <3>1, <3>2
    <3>4. QED
      BY <1>3, <1>4, <1>7, <3>1, <3>3 DEF PastLeads
  <2>2. QED
    BY <2>1 DEF NodeLeads
<1>11. StructsInv(come)'
  <2>1. come \subseteq come /\ errs \subseteq errs' /\ Final(heap')
    BY <1>1, <1>3, <1>9 DEF StructsInv
  <2>2. /\ errs' \subseteq errs \cup UNION {StructErrors(m) : m \in DOMAIN origin}
        /\ \A m \in come \ come : StructErrors(m) \subseteq errs'
    BY <1>3
  <2>3. \A frame \in ToSet(stack') :
            frame \in ToSet(stack) \/ (FrameOK(frame, come) /\ PastLeads(frame, come))
    BY <1>5, <1>6
  <2>4. \A m \in come : \/ \E frame \in ToSet(stack') : frame.node = m
                        \/ NodeLeads(m, come)
                        \/ m \in come /\ ~\E frame \in ToSet(stack) : frame.node = m
    BY <1>4, <1>5, <1>6, <1>10
  <2>5. StructsMove(come, come)
    BY <2>1, <2>2, <2>3, <2>4 DEF StructsMove
  <2>6. QED
    BY <1>1, <1>3, <1>8, <2>5, StructsStep
<1>12. QED
  BY <1>3, <1>5, <1>6, <1>8, <1>11 DEF SchemaInv

LEMMA StructsEnd ==
    ASSUME SchemaInv, EndWalk, pass = "structs"
    PROVE  SchemaInv'
<1>1. PICK come \in SUBSET DOMAIN origin : StructsInv(come)
  BY DEF SchemaInv
<1>2. /\ origin \in Documents /\ LikeIt(heap, origin) /\ UNCHANGED <<origin, heap, stack, errs>>
      /\ stack = <<>> /\ pass' = "done"
  BY DEF SchemaInv, EndWalk
<1>3. ToSet(stack) = {}
  BY <1>2 DEF ToSet
<1>4. come = DOMAIN origin
  BY <1>1, <1>2, <1>3, AllReached DEF StructsInv
<1>5. Exact
  BY <1>1, <1>4 DEF StructsInv, Exact
<1>6. Exact'
  <2>1. \A n \in DOMAIN origin : Wrong(n)' = Wrong(n)
    BY <1>2, WrongStays
  <2>2. \A n \in DOMAIN origin : StructErrors(n)' = StructErrors(n)
    BY <1>2 DEF StructErrors
  <2>3. Final(heap)'
    BY <1>2, <1>5 DEF Exact, Final, Val
  <2>4. errs' = UNION {Wrong(n)' \cup StructErrors(n)' : n \in DOMAIN origin}
    BY <1>2, <1>5, <2>1, <2>2 DEF Exact
  <2>5. QED
    BY <1>2, <2>3, <2>4 DEF Exact
<1>7. QED
  BY <1>2, <1>6 DEF SchemaInv

LEMMA SchemaAlways == SchemaSpec => []SchemaInv
<1>1. SchemaInv /\ [SchemaNext]_schemaVars => SchemaInv'
  <2> SUFFICES ASSUME SchemaInv, [SchemaNext]_schemaVars PROVE SchemaInv'
    OBVIOUS
  <2>1. CASE Version
    BY <2>1, VersionKeeps
  <2>2. ASSUME Walking PROVE pass \in {"leaves", "structs"}
    BY <2>2 DEF SchemaInv, Walking
  <2>3. CASE WalkField
    <3>1. CASE pass = "leaves"
      BY <2>3, <3>1, LeavesField
    <3>2. CASE pass = "structs"
      BY <2>3, <3>2, StructsWalkField
    <3>3. QED
      BY <2>2, <2>3, <3>1, <3>2 DEF WalkField
  <2>4. CASE WalkInto
    BY <2>2, <2>4, LeavesInto, StructsInto DEF WalkInto
  <2>5. CASE WalkOut
    BY <2>2, <2>5, LeavesOut, StructsOut DEF WalkOut
  <2>6. CASE EndWalk
    BY <2>6, LeavesEnd, StructsEnd DEF EndWalk
  <2>7. CASE UNCHANGED schemaVars
    <3>1. UNCHANGED <<pass, origin, heap, stack, errs>>
      BY <2>7 DEF schemaVars
    <3>2. \A n, f, v : FieldErrors(n, f, v)' = FieldErrors(n, f, v)
      BY <3>1 DEF FieldErrors, DeclaredKeys, KeysAt
    <3>3. \A n : StructErrors(n)' = StructErrors(n) /\ Wrong(n)' = Wrong(n)
      BY <3>1, <3>2 DEF StructErrors, Wrong, Val
    <3>4. ASSUME NEW come, LeavesInv(come) PROVE LeavesInv(come)'
      <4>1. \A n, name, v, more : Settled(n, name, v, more)' = Settled(n, name, v, more)
        BY <3>1, <3>2 DEF Settled, Val, Leads
      <4>2. \A frame, more : /\ FrameOK(frame, more)' = FrameOK(frame, more)
                             /\ PastSettled(frame, more)' = PastSettled(frame, more)
        BY <3>1, <4>1 DEF FrameOK, PastSettled, FieldsOf, Val
      <4>3. \A n, more : NodeSettled(n, more)' = NodeSettled(n, more)
        BY <3>1, <4>1 DEF NodeSettled
      <4>4. QED
        BY <3>1, <3>3, <3>4, <4>2, <4>3 DEF LeavesInv
    <3>5. \A come : StructsInv(come) => StructsInv(come)'
      BY <3>1, <3>3 DEF StructsInv, FrameOK, PastLeads, NodeLeads, Final, FieldsOf, Val, Leads
    <3>6. Exact => Exact'
      BY <3>1, <3>3 DEF Exact, Final, Val
    <3>7. QED
      BY <3>1, <3>4, <3>5, <3>6 DEF SchemaInv
  <2>8. QED
    BY <2>1, <2>3, <2>4, <2>5, <2>6, <2>7 DEF SchemaNext
<1>2. QED
  BY <1>1, SchemaStarts, PTL DEF SchemaSpec

-----------------------------------------------------------------------------
(* What schema.Process reports, and what it leaves, for every document and *)
(* whatever the order in which it walks the structs of a field.            *)
THEOREM ReportsExactly == SchemaSpec => []ReportIsExact
<1>1. SchemaInv => ReportIsExact
  <2> SUFFICES ASSUME SchemaInv, pass = "done"
               PROVE  /\ \A n \in DOMAIN origin : \A name \in NamesOf(origin, n) :
                            heap[n].val[name] = Val(n, name)
                      /\ errs = UNION {Wrong(n) \cup StructErrors(n) : n \in DOMAIN origin}
    BY DEF ReportIsExact, Val, Value, Wrong
  <2>1. QED
    BY DEF SchemaInv, Exact, Final
<1>2. QED
  BY <1>1, SchemaAlways, PTL

-----------------------------------------------------------------------------
(* What an accepted configuration is.  A field without errors:             *)
Right(f, v, keys) ==
    /\ f.required => v # f.zero /\ (f.kind = "list" => "" \notin v)
    /\ v # f.zero /\ f.allowed # {} => v \in f.allowed
    /\ v # f.zero => \A m \in f.min : ~(v < m)
    /\ f.notreserved => v # ReservedName
    /\ v # f.zero /\ keys # {} => v \in keys

LEMMA NoErrors ==
    ASSUME NEW n, NEW f, NEW v, FieldErrors(n, f, v) = {}
    PROVE  Right(f, v, DeclaredKeys(f))
<1> DEFINE keys == DeclaredKeys(f)
           Bad(w) ==
             CASE w = "required" -> f.required /\ (v = f.zero \/ (f.kind = "list" /\ "" \in v))
               [] w = "values" -> v # f.zero /\ f.allowed # {} /\ v \notin f.allowed
               [] w = "min" -> v # f.zero /\ \E m \in f.min : v < m
               [] w = "notreserved" -> f.notreserved /\ v = ReservedName
               [] w = "ref" -> v # f.zero /\ keys # {} /\ v \notin keys
<1>1. FieldErrors(n, f, v) = {<<n, f.name, w>> : w \in {w \in Checks : Bad(w)}}
  BY DEF FieldErrors
<1> HIDE DEF Bad
<1>2. \A w \in Checks : ~Bad(w)
  BY <1>1
<1>3. ~Bad("required") /\ ~Bad("values") /\ ~Bad("min") /\ ~Bad("notreserved") /\ ~Bad("ref")
  BY <1>2 DEF Checks
<1> HIDE DEF keys
<1>4. f.required => v # f.zero /\ (f.kind = "list" => "" \notin v)
  BY <1>3 DEF Bad
<1>5. v # f.zero /\ f.allowed # {} => v \in f.allowed
  BY <1>3 DEF Bad
<1>6. v # f.zero => \A m \in f.min : ~(v < m)
  BY <1>3 DEF Bad
<1>7. f.notreserved => v # ReservedName
  BY <1>3 DEF Bad
<1>8. v # f.zero /\ keys # {} => v \in keys
  BY <1>3 DEF Bad
<1>9. QED
  BY <1>4, <1>5, <1>6, <1>7, <1>8 DEF Right, keys

LEMMA FieldRight ==
    ASSUME SchemaInv, pass = "done", errs = {}, NEW n \in DOMAIN origin,
           NEW i \in DOMAIN Types[origin[n].type]
    PROVE  LET f == Types[origin[n].type][i]
           IN  /\ Right(f, heap[n].val[f.name], DeclaredKeys(f))
               /\ heap[n].val[f.name] = WithDefault(f, origin[n].val[f.name])
               /\ f.min # {} => origin[n].val[f.name] \in Int
<1> DEFINE f == Types[origin[n].type][i]
<1>1. origin \in Documents /\ Exact
  BY DEF SchemaInv
<1>2. f.name \in NamesOf(origin, n) /\ Tag(origin, n, f.name) = f
  BY <1>1, DocumentIs, TagOf
<1>3. heap[n].val[f.name] = Val(n, f.name) /\ Val(n, f.name) = WithDefault(f, origin[n].val[f.name])
  BY <1>1, <1>2 DEF Exact, Final, Val, Value
<1>4. f.min # {} => origin[n].val[f.name] \in Int
  BY <1>1, <1>2, DocumentIs
<1>5. FieldErrors(n, f, heap[n].val[f.name]) = {}
  <2>1. Wrong(n) = {}
    BY <1>1 DEF Exact
  <2>2. FieldErrors(n, Tag(origin, n, f.name), Val(n, f.name)) \subseteq Wrong(n)
    BY <1>2 DEF Wrong
  <2>3. QED
    BY <1>2, <1>3, <2>1, <2>2
<1> HIDE DEF f
<1>6. Right(f, heap[n].val[f.name], DeclaredKeys(f))
  BY <1>5, NoErrors
<1>7. QED
  BY <1>3, <1>4, <1>6 DEF f

(* Where the structs of a type are: the keys that references are checked   *)
(* against are those of all of them.                                       *)
LEMMA HeldBy ==
    ASSUME NEW d \in Documents, NEW m \in DOMAIN d, m # Root
    PROVE  \E p \in DOMAIN d : \E name \in NamesOf(d, p) :
              <<d[p].type, name, d[m].type>> \in Places /\ m \in d[p].val[name]
<1>1. PICK p \in DOMAIN d \ {m} : Held(d, p) \cap {m} # {}
  <2>1. {m} \in SUBSET (DOMAIN d \ {Root}) /\ {m} # {}
    OBVIOUS
  <2>2. QED
    BY <2>1, DocumentAssumption
<1>2. PICK name \in NamesOf(d, p) : Tag(d, p, name).kind \in Holders /\ m \in d[p].val[name]
  BY <1>1 DEF Held
<1>3. d[m].type = Tag(d, p, name).elem /\ d[p].type \in DOMAIN Types
  BY <1>1, <1>2, DocumentIs
<1>4. <<d[p].type, name, d[m].type>> \in Places
  <2>1. FieldOK(d[p].type, Tag(d, p, name)) /\ Tag(d, p, name).name = name
    BY <1>2, <1>3, NameOf
  <2>2. QED
    BY <1>2, <1>3, <2>1 DEF FieldOK
<1>5. QED
  BY <1>1, <1>2, <1>4

LEMMA OnePlace ==
    ASSUME NEW type, NEW name, NEW elem, <<type, name, elem>> \in Places
    PROVE  /\ elem # "Config"
           /\ elem = "Convention" => type = "Config" /\ name = "conventions"
           /\ elem = "ConventionRelations" => type = "Convention"
           /\ elem = "Project" => type = "Config" /\ name = "project"
           /\ elem = "ProjectSources" => type = "Project" /\ name = "sources"
           /\ elem = "LocalSource" => type = "ProjectSources" /\ name = "local"
           /\ elem = "ScrapeSource" => type = "ProjectSources" /\ name = "scrape"
           /\ elem = "GitSource" => type = "ProjectSources" /\ name = "git"
           /\ elem = "HTTPSource" => type = "ProjectSources" /\ name = "http"
BY DEF Places

OfType(d, type) == {m \in DOMAIN d : d[m].type = type}

LEMMA AllOfType ==
    ASSUME NEW d \in Documents
    PROVE  /\ OfType(d, "Config") = {Root}
           /\ Under(d, {Root}, "conventions") = OfType(d, "Convention")
           /\ Under(d, {Root}, "project") = OfType(d, "Project")
           /\ Under(d, OfType(d, "Project"), "sources") = OfType(d, "ProjectSources")
           /\ Under(d, OfType(d, "ProjectSources"), "local") = OfType(d, "LocalSource")
           /\ Under(d, OfType(d, "ProjectSources"), "scrape") = OfType(d, "ScrapeSource")
           /\ Under(d, OfType(d, "ProjectSources"), "git") = OfType(d, "GitSource")
           /\ Under(d, OfType(d, "ProjectSources"), "http") = OfType(d, "HTTPSource")
<1>1. OfType(d, "Config") = {Root}
  <2>1. Root \in OfType(d, "Config")
    BY DocumentAssumption DEF OfType
  <2>2. ASSUME NEW m \in OfType(d, "Config"), m # Root PROVE FALSE
    BY <2>2, HeldBy, OnePlace DEF OfType
  <2>3. QED
    BY <2>1, <2>2
<1>2. LikeIt(d, d)
  BY DocumentIs DEF LikeIt
<1>3. ASSUME NEW type, NEW name, NEW elem, IsPlace(type, name, elem), elem # "Config",
             \A t, nm : <<t, nm, elem>> \in Places => t = type /\ nm = name
      PROVE  Under(d, OfType(d, type), name) = OfType(d, elem)
  <2>1. AllOf(d, OfType(d, type), type)
    BY DEF AllOf, OfType
  <2>2. Under(d, OfType(d, type), name) \subseteq OfType(d, elem)
    BY <1>2, <1>3, <2>1, UnderKept DEF AllOf, OfType
  <2>3. ASSUME NEW m \in OfType(d, elem) PROVE m \in Under(d, OfType(d, type), name)
    <3>1. m \in DOMAIN d /\ d[m].type = elem /\ m # Root
      BY <1>3, DocumentAssumption DEF OfType
    <3>2. PICK p \in DOMAIN d : \E nm \in NamesOf(d, p) :
              <<d[p].type, nm, elem>> \in Places /\ m \in d[p].val[nm]
      BY <3>1, HeldBy
    <3>3. d[p].type = type /\ m \in d[p].val[name]
      BY <1>3, <3>2
    <3>4. QED
      BY <3>3 DEF Under, OfType
  <2>4. QED
    BY <2>2, <2>3
<1>4. QED
  BY <1>1, <1>3, PlacesOnPaths, OnePlace

LEMMA DeclaredAre ==
    ASSUME origin \in Documents, LikeIt(heap, origin), NEW f
    PROVE  /\ f.refs = ToConventions =>
                DeclaredKeys(f) = {heap[m].key : m \in OfType(heap, "Convention")}
           /\ f.refs = ToSources =>
                DeclaredKeys(f) = UNION {{heap[m].key : m \in OfType(heap, type)} :
                    type \in {"LocalSource", "ScrapeSource", "GitSource", "HTTPSource"}}
<1>1. \A type : /\ OfType(heap, type) = OfType(origin, type)
                /\ {heap[m].key : m \in OfType(heap, type)} = {origin[m].key : m \in OfType(origin, type)}
  <2>1. ASSUME NEW type PROVE OfType(heap, type) = OfType(origin, type)
    BY DEF LikeIt, OfType
  <2>2. ASSUME NEW type
        PROVE  {heap[m].key : m \in OfType(heap, type)} = {origin[m].key : m \in OfType(origin, type)}
    <3>1. \A m \in OfType(origin, type) : heap[m].key = origin[m].key
      BY DEF LikeIt, OfType
    <3>2. QED
      BY <2>1, <3>1
  <2>3. QED
    BY <2>1, <2>2
<1>2. CASE f.refs = ToConventions
  <2>1. DeclaredKeys(f) = KeysIn(heap, <<"conventions">>)
    BY <1>2, KeysAtIs DEF DeclaredKeys, ToConventions
  <2>2. <<"conventions">> \in ToConventions
    BY DEF ToConventions
  <2>3. KeysIn(heap, <<"conventions">>) = {origin[m].key : m \in OfType(origin, "Convention")}
    BY <2>2, KeysKept, AllOfType
  <2>4. ToConventions # ToSources
    <3>1. <<"conventions">> \notin ToSources
      BY DEF ToSources
    <3>2. QED
      BY <2>2, <3>1
  <2>5. QED
    BY <1>1, <1>2, <2>1, <2>3, <2>4
<1>3. CASE f.refs = ToSources
  <2> DEFINE K(kind) == KeysIn(heap, <<"project", "sources", kind>>)
             O(type) == {origin[m].key : m \in OfType(origin, type)}
  <2>1. ASSUME NEW kind \in SourceKinds
        PROVE  K(kind) = {origin[m].key : m \in Under(origin, OfType(origin, "ProjectSources"), kind)}
    <3>1. <<"project", "sources", kind>> \in ToSources
      BY DEF ToSources
    <3>2. K(kind) = KeysIn(origin, <<"project", "sources", kind>>)
      BY <3>1, KeysKept
    <3>3. KeysIn(origin, <<"project", "sources", kind>>) = {origin[m].key : m \in
              Under(origin, Under(origin, Under(origin, {Root}, "project"), "sources"), kind)}
      BY KeysOfThree
    <3>4. QED
      BY <3>2, <3>3, AllOfType
  <2>2. /\ K("local") = O("LocalSource") /\ K("scrape") = O("ScrapeSource")
        /\ K("git") = O("GitSource") /\ K("http") = O("HTTPSource")
    BY <2>1, AllOfType DEF SourceKinds
  <2>3. DeclaredKeys(f) = UNION {K(kind) : kind \in SourceKinds}
    <3>1. DeclaredKeys(f) = UNION {KeysIn(heap, path) : path \in ToSources}
      BY <1>3, KeysAtIs DEF DeclaredKeys
    <3>2. QED
      BY <3>1 DEF ToSources
  <2> HIDE DEF K, O
  <2>4. DeclaredKeys(f) = UNION {O(type) : type \in {"LocalSource", "ScrapeSource", "GitSource", "HTTPSource"}}
    BY <2>2, <2>3 DEF SourceKinds
  <2>5. f.refs # ToConventions
    <3>1. <<"conventions">> \in ToConventions /\ <<"conventions">> \notin ToSources
      BY DEF ToConventions, ToSources
    <3>2. QED
      BY <1>3, <3>1
  <2>6. \A type : O(type) = {heap[m].key : m \in OfType(heap, type)}
    BY <1>1 DEF O
  <2>7. QED
    BY <2>4, <2>5, <2>6
<1>4. QED
  BY <1>2, <1>3

(* A field of a document without errors, and what its tag then means.      *)
Fine(n, f) ==
    /\ Right(f, heap[n].val[f.name], DeclaredKeys(f))
    /\ heap[n].val[f.name] = WithDefault(f, origin[n].val[f.name])
    /\ f.min # {} => origin[n].val[f.name] \in Int

LEMMA ListFine ==
    ASSUME NEW n, NEW f, NEW name, Is(f, name, "list", "", {}, {}), f.required, Fine(n, f)
    PROVE  heap[n].val[name] # {} /\ "" \notin heap[n].val[name]
BY DEF Fine, Is, Right

LEMMA TextFine ==
    ASSUME NEW n, NEW f, NEW name, Is(f, name, "leaf", "", "", {}), f.required, Fine(n, f)
    PROVE  heap[n].val[name] # ""
BY DEF Fine, Is, Right

LEMMA PolicyFine ==
    ASSUME NEW n, NEW f, NEW name, NEW default, Is(f, name, "leaf", "", "", default),
           Has(f, {}, Policies, {}, {}), Fine(n, f)
    PROVE  heap[n].val[name] \in Policies \cup {""}
<1>1. Policies # {}
  BY DEF Policies
<1>2. QED
  BY <1>1 DEF Fine, Is, Has, Right

(* A number is as large as its tag says, when it is set or has a default.  *)
IsNumber(f, name, default, min) ==
    /\ f.name = name /\ f.zero = 0 /\ default \in Int /\ min \in Int
    /\ f.default = {default} /\ min \in f.min

LEMMA NumberFine ==
    ASSUME NEW n, NEW f, NEW name, NEW default, NEW min, IsNumber(f, name, default, min), Fine(n, f)
    PROVE  /\ heap[n].val[name] \in Int
           /\ heap[n].val[name] = 0 \/ heap[n].val[name] >= min
           /\ default # 0 => heap[n].val[name] # 0
<1>1. PICK v, o, keys : v = heap[n].val[name] /\ o = origin[n].val[name] /\ keys = DeclaredKeys(f)
  OBVIOUS
<1>2. o \in Int /\ v = WithDefault(f, o) /\ Right(f, v, keys)
  BY <1>1 DEF Fine, IsNumber
<1>3. v = (IF o = 0 THEN default ELSE o) /\ default \in Int /\ min \in Int
  BY <1>2 DEF IsNumber, WithDefault
<1>4. v # 0 => ~(v < min)
  BY <1>2 DEF Right, IsNumber
<1>5. v \in Int /\ (v = 0 \/ v >= min) /\ (default # 0 => v # 0)
  BY <1>2, <1>3, <1>4
<1>6. QED
  BY <1>1, <1>5

LEMMA SourcesSound ==
    ASSUME SchemaInv, pass = "done", errs = {}, NEW n \in DOMAIN origin,
           heap[n].type = origin[n].type,
           heap[n].type \in {"LocalSource", "HTTPSource", "GitSource", "ScrapeSource"}
    PROVE  Sound(n)
<1> DEFINE v == heap[n].val
<1>1. \A i \in DOMAIN Types[origin[n].type] : Fine(n, Types[origin[n].type][i])
  BY FieldRight DEF Fine
<1>2. CASE heap[n].type = "LocalSource"
  <2>1. DOMAIN Types["LocalSource"] = 1..3
    BY LocalSourceRows
  <2>2. Fine(n, Types["LocalSource"][1]) /\ Fine(n, Types["LocalSource"][3])
    BY <1>1, <1>2, <2>1
  <2>3. v.paths # {} /\ "" \notin v.paths
    BY <2>2, ListFine, LocalSourceRows
  <2>4. v.pullPolicy \in Policies \cup {""}
    BY <2>2, PolicyFine, LocalSourceRows
  <2>5. QED
    BY <1>2, <2>3, <2>4 DEF Sound
<1>3. CASE heap[n].type = "HTTPSource"
  <2>1. DOMAIN Types["HTTPSource"] = 1..4
    BY HTTPSourceRows
  <2>2. Fine(n, Types["HTTPSource"][2]) /\ Fine(n, Types["HTTPSource"][4])
    BY <1>1, <1>3, <2>1
  <2>3. v.paths # {} /\ "" \notin v.paths
    BY <2>2, ListFine, HTTPSourceRows
  <2>4. v.pullPolicy \in Policies \cup {""}
    BY <2>2, PolicyFine, HTTPSourceRows
  <2>5. QED
    BY <1>3, <2>3, <2>4 DEF Sound
<1>4. CASE heap[n].type = "GitSource"
  <2>1. DOMAIN Types["GitSource"] = 1..5
    BY GitSourceRows
  <2>2. /\ Fine(n, Types["GitSource"][1]) /\ Fine(n, Types["GitSource"][2])
        /\ Fine(n, Types["GitSource"][3])
    BY <1>1, <1>4, <2>1
  <2>3. v.repo # ""
    BY <2>2, TextFine, GitSourceRows
  <2>4. v.paths # {}
    BY <2>2, ListFine, GitSourceRows
  <2>5. v.depth \in Int /\ (v.depth = 0 \/ v.depth >= 1) /\ v.depth # 0
    <3>1. Types["GitSource"][3].name = "depth" /\ Types["GitSource"][3].zero = 0 /\ Types["GitSource"][3].default = {1}
      BY GitSourceRows DEF Is
    <3>2. 1 \in Types["GitSource"][3].min
      BY GitSourceRows DEF Has
    <3>3. 1 \in Int /\ 1 \in Int
      OBVIOUS
    <3>4. IsNumber(Types["GitSource"][3], "depth", 1, 1)
      BY <3>1, <3>2, <3>3 DEF IsNumber
    <3>5. QED
      BY <2>2, <3>4, NumberFine
  <2>6. QED
    BY <1>4, <2>3, <2>4, <2>5 DEF Sound
<1>5. CASE heap[n].type = "ScrapeSource"
  <2>1. DOMAIN Types["ScrapeSource"] = 1..6
    BY ScrapeSourceRows
  <2>2. /\ Fine(n, Types["ScrapeSource"][1]) /\ Fine(n, Types["ScrapeSource"][3])
        /\ Fine(n, Types["ScrapeSource"][5])
    BY <1>1, <1>5, <2>1
  <2>3. v.urls # {}
    BY <2>2, ListFine, ScrapeSourceRows
  <2>4. v.maxDepth \in Int /\ (v.maxDepth = 0 \/ v.maxDepth >= 0)
    <3>1. Types["ScrapeSource"][3].name = "maxDepth" /\ Types["ScrapeSource"][3].zero = 0 /\ Types["ScrapeSource"][3].default = {0}
      BY ScrapeSourceRows DEF Is
    <3>2. 0 \in Types["ScrapeSource"][3].min
      BY ScrapeSourceRows DEF Has
    <3>3. 0 \in Int /\ 0 \in Int
      OBVIOUS
    <3>4. IsNumber(Types["ScrapeSource"][3], "maxDepth", 0, 0)
      BY <3>1, <3>2, <3>3 DEF IsNumber
    <3>5. QED
      BY <2>2, <3>4, NumberFine
  <2>5. v.maxPages \in Int /\ (v.maxPages = 0 \/ v.maxPages >= 0) /\ v.maxPages # 0
    <3>1. Types["ScrapeSource"][5].name = "maxPages" /\ Types["ScrapeSource"][5].zero = 0 /\ Types["ScrapeSource"][5].default = {20}
      BY ScrapeSourceRows DEF Is
    <3>2. 0 \in Types["ScrapeSource"][5].min
      BY ScrapeSourceRows DEF Has
    <3>3. 20 \in Int /\ 0 \in Int
      OBVIOUS
    <3>4. IsNumber(Types["ScrapeSource"][5], "maxPages", 20, 0)
      BY <3>1, <3>2, <3>3 DEF IsNumber
    <3>5. QED
      BY <2>2, <3>4, NumberFine
  <2>6. v.maxDepth >= 0 /\ v.maxPages >= 1
    BY <2>4, <2>5
  <2>7. QED
    BY <1>5, <2>3, <2>6 DEF Sound
<1>6. QED
  BY <1>2, <1>3, <1>4, <1>5

LEMMA ReferencesSound ==
    ASSUME SchemaInv, pass = "done", errs = {}, NEW n \in DOMAIN origin,
           heap[n].type = origin[n].type,
           heap[n].type \in {"DocRef", "ConventionRelations"}
    PROVE  Sound(n)
<1> DEFINE v == heap[n].val
           Keys(type) == {heap[m].key : m \in OfType(heap, type)}
           Sources == UNION {Keys(type) :
                         type \in {"LocalSource", "ScrapeSource", "GitSource", "HTTPSource"}}
<1>1. \A i \in DOMAIN Types[origin[n].type] : Fine(n, Types[origin[n].type][i])
  BY FieldRight DEF Fine
<1>2. origin \in Documents /\ LikeIt(heap, origin)
  BY DEF SchemaInv
<1>3. CASE heap[n].type = "DocRef"
  <2> DEFINE f == Types["DocRef"][1]
  <2>1. Fine(n, f)
    <3>1. DOMAIN Types["DocRef"] = 1..1
      BY DocRefRows
    <3>2. QED
      BY <1>1, <1>3, <3>1
  <2>2. /\ Is(f, "source", "leaf", "", "", {}) /\ Has(f, {}, {}, ToSources, {}) /\ f.required
    BY DocRefRows
  <2>3. DeclaredKeys(f) = Sources
    BY <1>2, <2>2, DeclaredAre DEF Has
  <2> HIDE DEF Sources, f
  <2>4. v.source # ""
    BY <2>1, <2>2, TextFine
  <2>5. v.source \in Sources \/ Sources = {}
    BY <2>1, <2>2, <2>3, <2>4 DEF Fine, Right, Is
  <2>6. QED
    BY <1>3, <2>4, <2>5 DEF Sound, Sources, OfType
<1>4. CASE heap[n].type = "ConventionRelations"
  <2> DEFINE f == Types["ConventionRelations"][1]
  <2>1. Fine(n, f)
    <3>1. DOMAIN Types["ConventionRelations"] = 1..1
      BY ConventionRelationsRows
    <3>2. QED
      BY <1>1, <1>4, <3>1
  <2>2. /\ Is(f, "target", "leaf", "", "", {}) /\ Has(f, {}, {}, ToConventions, {}) /\ f.required
    BY ConventionRelationsRows
  <2>3. DeclaredKeys(f) = Keys("Convention")
    BY <1>2, <2>2, DeclaredAre DEF Has
  <2>4. Keys("Convention") # {}
    <3>1. n # Root
      BY <1>2, <1>4, DocumentAssumption
    <3>2. PICK p \in DOMAIN origin : \E name \in NamesOf(origin, p) :
              <<origin[p].type, name, "ConventionRelations">> \in Places
      BY <1>2, <1>4, <3>1, HeldBy
    <3>3. origin[p].type = "Convention"
      BY <3>2, OnePlace
    <3>4. p \in OfType(heap, "Convention")
      BY <1>2, <3>3 DEF LikeIt, OfType
    <3>5. QED
      BY <3>4
  <2> HIDE DEF f, Keys
  <2>5. v.target # ""
    BY <2>1, <2>2, TextFine
  <2>6. v.target \in Keys("Convention")
    BY <2>1, <2>2, <2>3, <2>4, <2>5 DEF Fine, Right, Is
  <2>7. QED
    BY <1>4, <2>6 DEF Sound, Keys, OfType
<1>5. QED
  BY <1>3, <1>4

LEMMA TwoAreMore == \A a, b : a # b => Cardinality({a, b}) > 1
<1> SUFFICES ASSUME NEW a, NEW b, a # b PROVE Cardinality({a, b}) > 1
  OBVIOUS
<1>1. {a, b} = {a} \cup {b} /\ b \notin {a}
  OBVIOUS
<1>2. IsFiniteSet({a}) /\ Cardinality({a}) = 1
  BY FS_Singleton
<1>3. QED
  BY <1>1, <1>2, FS_AddElement

LEMMA GroupsSound ==
    ASSUME SchemaInv, pass = "done", errs = {}, NEW n \in DOMAIN origin,
           heap[n].type = origin[n].type, heap[n].type = "ParamConstraints"
    PROVE  Sound(n)
<1> DEFINE v == heap[n].val
           t == Types["ParamConstraints"]
           T(name) == Tag(heap, n, name)
           Names == NamesOf(heap, n)
           Set(g) == {name \in Names : g \in T(name).groups /\ v[name] # T(name).zero}
           G == UNION {T(name).groups : name \in Names}
<1>1. StructErrors(n) = {}
  BY DEF SchemaInv, Exact
<1>2. "ParamConstraints" \in DOMAIN Types /\ DOMAIN t = 1..3
  <2>1. "ParamConstraints" \in DOMAIN Types
    BY DEF Types
  <2>2. QED
    BY <2>1, ParamConstraintsRows
<1>3. /\ t[1].name = "enum" /\ t[1].zero = {} /\ t[1].groups = {"no_enum_with_min", "no_enum_with_max"}
      /\ t[2].name = "min" /\ t[2].zero = "" /\ t[2].groups = {"no_enum_with_min"}
      /\ t[3].name = "max" /\ t[3].zero = "" /\ t[3].groups = {"no_enum_with_max"}
  BY ParamConstraintsRows DEF Is, Has
<1>4. /\ "enum" \in Names /\ T("enum") = t[1] /\ "min" \in Names /\ T("min") = t[2]
      /\ "max" \in Names /\ T("max") = t[3]
  <2>1. \A i \in 1..3 : t[i].name \in NamesOf(heap, n) /\ Tag(heap, n, t[i].name) = t[i]
    BY <1>2, TagOf
  <2>2. 1 \in 1..3 /\ 2 \in 1..3 /\ 3 \in 1..3
    OBVIOUS
  <2> HIDE DEF t
  <2>3. QED
    BY <1>3, <2>1, <2>2
<1>5. \A name \in Names : name = "enum" \/ name = "min" \/ name = "max"
  <2>1. \A i \in 1..3 : i = 1 \/ i = 2 \/ i = 3
    OBVIOUS
  <2>2. Names = {t[i].name : i \in 1..3}
    BY <1>2 DEF NamesOf
  <2> HIDE DEF t, Names
  <2>3. QED
    BY <1>3, <2>1, <2>2
<1>6. \A g \in G : ~(Cardinality(Set(g)) > 1)
  <2>1. {<<n, g, "oneof">> : g \in {g \in G : Cardinality(Set(g)) > 1}} \subseteq StructErrors(n)
    BY DEF StructErrors
  <2> HIDE DEF G, Set
  <2>2. QED
    BY <1>1, <2>1
<1> HIDE DEF t, T, Names
<1>7. "no_enum_with_min" \in G /\ "no_enum_with_max" \in G
  BY <1>3, <1>4
<1> HIDE DEF G
<1>8. ASSUME v["enum"] # {} PROVE v["min"] = "" /\ v["max"] = ""
  <2>1. ASSUME v["min"] # "" PROVE FALSE
    <3>1. Set("no_enum_with_min") = {"enum", "min"}
      <4>1. "enum" \in Set("no_enum_with_min") /\ "min" \in Set("no_enum_with_min")
        BY <1>3, <1>4, <1>8, <2>1
      <4>2. "max" \notin Set("no_enum_with_min")
        BY <1>3, <1>4
      <4>3. Set("no_enum_with_min") \subseteq Names
        OBVIOUS
      <4> HIDE DEF Set
      <4>4. QED
        BY <1>5, <4>1, <4>2, <4>3
    <3> HIDE DEF Set
    <3>2. QED
      BY <1>6, <1>7, <3>1, TwoAreMore
  <2>2. ASSUME v["max"] # "" PROVE FALSE
    <3>1. Set("no_enum_with_max") = {"enum", "max"}
      <4>1. "enum" \in Set("no_enum_with_max") /\ "max" \in Set("no_enum_with_max")
        BY <1>3, <1>4, <1>8, <2>2
      <4>2. "min" \notin Set("no_enum_with_max")
        BY <1>3, <1>4
      <4>3. Set("no_enum_with_max") \subseteq Names
        OBVIOUS
      <4> HIDE DEF Set
      <4>4. QED
        BY <1>5, <4>1, <4>2, <4>3
    <3> HIDE DEF Set
    <3>2. QED
      BY <1>6, <1>7, <3>1, TwoAreMore
  <2>3. QED
    BY <2>1, <2>2
<1>9. QED
  BY <1>8 DEF Sound

LEMMA ToolsSound ==
    ASSUME SchemaInv, pass = "done", errs = {}, NEW n \in DOMAIN origin,
           heap[n].type = origin[n].type,
           heap[n].type \in {"ProjectSources", "Tool", "ToolParam"}
    PROVE  Sound(n)
<1> DEFINE v == heap[n].val
<1>1. \A i \in DOMAIN Types[origin[n].type] : Fine(n, Types[origin[n].type][i])
  BY FieldRight DEF Fine
<1>2. CASE heap[n].type = "ProjectSources"
  <2> DEFINE f == Types["ProjectSources"][1]
             g == Types["ProjectSources"][2]
  <2>1. DOMAIN Types["ProjectSources"] = 1..6
    BY ProjectSourcesRows
  <2>2. Fine(n, f) /\ Fine(n, g)
    BY <1>1, <1>2, <2>1
  <2>3. /\ Is(f, "pullPolicy", "leaf", "", "", {"ifNotPresent"}) /\ Has(f, {}, Policies, {}, {})
        /\ Is(g, "syncInterval", "leaf", "", 0, {0}) /\ Has(g, {0}, {}, {}, {})
    BY ProjectSourcesRows
  <2> HIDE DEF f, g
  <2>4. v.pullPolicy \in Policies \cup {""}
    BY <2>2, <2>3, PolicyFine
  <2>5. v.pullPolicy # ""
    BY <2>2, <2>3 DEF Fine, Is, WithDefault
  <2>6. v.syncInterval \in Int /\ (v.syncInterval = 0 \/ v.syncInterval >= 0)
    <3>1. g.name = "syncInterval" /\ g.zero = 0 /\ g.default = {0}
      BY <2>3 DEF Is
    <3>2. 0 \in g.min
      BY <2>3 DEF Has
    <3>3. 0 \in Int /\ 0 \in Int
      OBVIOUS
    <3>4. IsNumber(g, "syncInterval", 0, 0)
      BY <3>1, <3>2, <3>3 DEF IsNumber
    <3>5. QED
      BY <2>2, <3>4, NumberFine
  <2>7. v.syncInterval >= 0
    BY <2>6
  <2>8. QED
    BY <1>2, <2>4, <2>5, <2>7 DEF Sound
<1>3. CASE heap[n].type = "Tool"
  <2> DEFINE f == Types["Tool"][2]
             g == Types["Tool"][4]
  <2>1. DOMAIN Types["Tool"] = 1..4
    BY ToolRows
  <2>2. Fine(n, f) /\ Fine(n, g)
    BY <1>1, <1>3, <2>1
  <2>3. /\ Is(f, "template", "leaf", "", "", {}) /\ f.required
        /\ Is(g, "maxOutputKB", "leaf", "", 0, {OutputDefault}) /\ Has(g, {1}, {}, {}, {})
    BY ToolRows
  <2>4. OutputDefault \in Int /\ OutputDefault # 0
    BY DEF OutputDefault
  <2> HIDE DEF f, g
  <2>5. v.template # ""
    BY <2>2, <2>3, TextFine
  <2>6. v.maxOutputKB \in Int /\ (v.maxOutputKB = 0 \/ v.maxOutputKB >= 1) /\ v.maxOutputKB # 0
    <3>1. g.name = "maxOutputKB" /\ g.zero = 0 /\ g.default = {OutputDefault}
      BY <2>3 DEF Is
    <3>2. 1 \in g.min
      BY <2>3 DEF Has
    <3>3. OutputDefault \in Int /\ 1 \in Int
      BY <2>4
    <3>4. IsNumber(g, "maxOutputKB", OutputDefault, 1)
      BY <3>1, <3>2, <3>3 DEF IsNumber
    <3>5. QED
      BY <2>2, <2>4, <3>4, NumberFine
  <2>7. ~heap[n].unsound
    <3>1. StructErrors(n) = {} /\ n \in DOMAIN heap
      BY DEF SchemaInv, Exact, LikeIt
    <3>2. {<<n, "", "unsound">> : m \in {n} \cap {k \in DOMAIN heap : heap[k].unsound}}
              \subseteq StructErrors(n)
      BY DEF StructErrors
    <3>3. QED
      BY <3>1, <3>2
  <2>8. QED
    BY <1>3, <2>5, <2>6, <2>7 DEF Sound
<1>4. CASE heap[n].type = "ToolParam"
  <2> DEFINE f == Types["ToolParam"][1]
             g == Types["ToolParam"][2]
  <2>1. DOMAIN Types["ToolParam"] = 1..3
    BY ToolParamRows
  <2>2. Fine(n, f) /\ Fine(n, g)
    BY <1>1, <1>4, <2>1
  <2>3. /\ Is(f, "name", "leaf", "", "", {}) /\ f.required /\ f.notreserved
        /\ Is(g, "type", "leaf", "", "", {}) /\ g.required
    BY ToolParamRows
  <2> HIDE DEF f, g
  <2>4. v.name # "" /\ v.type # ""
    BY <2>2, <2>3, TextFine
  <2>5. v.name # ReservedName
    BY <2>2, <2>3 DEF Fine, Right, Is
  <2>6. QED
    BY <1>4, <2>4, <2>5 DEF Sound
<1>5. QED
  BY <1>2, <1>3, <1>4

(* What the rest of the program relies on, for every document that is      *)
(* accepted: what is required is there, numbers are in their bounds, at    *)
(* most one member of a group is set, a relation leads to a convention of  *)
(* the document, and a docs entry to one of its sources, unless the        *)
(* document declares none: then the code accepts any name.                 *)
THEOREM AcceptedAlwaysSound == SchemaSpec => []AcceptedIsSound
<1>1. SchemaInv => AcceptedIsSound
  <2> SUFFICES ASSUME SchemaInv, pass = "done", errs = {}, NEW n \in DOMAIN heap PROVE Sound(n)
    BY DEF AcceptedIsSound
  <2>1. n \in DOMAIN origin /\ heap[n].type = origin[n].type
    BY DEF SchemaInv, LikeIt
  <2>2. CASE heap[n].type \in {"LocalSource", "HTTPSource", "GitSource", "ScrapeSource"}
    BY <2>1, <2>2, SourcesSound
  <2>3. CASE heap[n].type \in {"DocRef", "ConventionRelations"}
    BY <2>1, <2>3, ReferencesSound
  <2>4. CASE heap[n].type = "ParamConstraints"
    BY <2>1, <2>4, GroupsSound
  <2>5. CASE heap[n].type \in {"ProjectSources", "Tool", "ToolParam"}
    BY <2>1, <2>5, ToolsSound
  <2>6. CASE heap[n].type \notin {"LocalSource", "HTTPSource", "GitSource", "ScrapeSource", "DocRef",
                 "ConventionRelations", "ParamConstraints", "ProjectSources", "Tool", "ToolParam"}
    BY <2>6 DEF Sound
  <2>7. QED
    BY <2>2, <2>3, <2>4, <2>5, <2>6
<1>2. QED
  BY <1>1, SchemaAlways, PTL
=============================================================================
