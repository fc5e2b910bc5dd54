--------------------------- MODULE ToolCallProofs ---------------------------
(***************************************************************************)
(* What a template is executed on, for every definition of a tool, every   *)
(* argument and any number of parameters: the options and the engine's key *)
(* are the author's, and the parameters meet their constraints.  Both are  *)
(* facts about `seen`; the induction needs what the loop over parameters   *)
(* has established of those it is past.                                    *)
(***************************************************************************)
EXTENDS ToolCall, DataLemmas

(* What validateConstraint lets pass of a parameter that was accepted.     *)
Meets(p, x) ==
    /\ p.enum # {} => x.text \in {e.text : e \in p.enum}
    /\ p.min \cup p.max # {} => x.go \in {"int", "float64"}
    /\ \A lo \in p.min : lo <= x.num
    /\ \A hi \in p.max : x.num <= hi

(* The definition is one of those given, with a default filled in.         *)
OfTools ==
    \E t \in Tools : tool = t \/ tool = Defaulted(t)

ChecksPassed == pc \notin {"load", "refused"} => Accepted(tool)

(* The loop over the parameters: those it is past have a value that meets  *)
(* their constraints.                                                      *)
PastMeets ==
    pc = "params" =>
        \A j \in 1..(at - 1) :
            /\ tool.params[j].name \in DOMAIN params
            /\ Meets(tool.params[j], params[tool.params[j].name])

CallInv ==
    /\ OfTools /\ ChecksPassed /\ at \in Nat
    /\ pc = "load" => seen = Empty
    /\ PastMeets
    /\ AuthorDecides /\ ConstraintsHold

(* Filling in a default changes nothing else of a definition.              *)
LEMMA DefaultedAlone ==
    ASSUME NEW t \in Tools
    PROVE  /\ Defaulted(t).params = t.params /\ Defaulted(t).options = t.options
           /\ Defaulted(t).uses = t.uses
<1>1. DOMAIN t = {"params", "options", "uses", "json", "maxOutputKB"}
  BY ToolAssumption
<1>2. QED
  BY <1>1 DEF Defaulted

(* The parameters of a definition are a sequence.                          *)
LEMMA ParamsAreSeq ==
    ASSUME OfTools
    PROVE  Len(tool.params) \in Nat /\ DOMAIN tool.params = 1..Len(tool.params)
<1>1. PICK t \in Tools : tool = t \/ tool = Defaulted(t)
  BY DEF OfTools
<1>2. tool.params = t.params
  BY <1>1, DefaultedAlone
<1>3. t.params \in Seq({t.params[i] : i \in DOMAIN t.params})
  BY ToolAssumption
<1>4. QED
  BY <1>2, <1>3

(* The options take precedence over the parameters, the engine's own key   *)
(* over both; what has neither name is what the parameter is.              *)
LEMMA ContextIs ==
    /\ Reserved \in DOMAIN Context /\ Context[Reserved] = Engine
    /\ \A k \in DOMAIN tool.options \ {Reserved} : Context[k] = tool.options[k]
    /\ \A k \in DOMAIN params : k \notin DOMAIN tool.options /\ k # Reserved => Context[k] = params[k]
BY DEF Context, Over

(* A value that is within an accepted parameter's bounds meets every       *)
(* constraint, because an enumeration excludes the others.                 *)
LEMMA WithinMeets ==
    ASSUME NEW p, NEW x, GroupsOK(p), Within(p, x)
    PROVE  Meets(p, x)
<1>1. CASE p.enum # {}
  BY <1>1 DEF GroupsOK, Within, Meets
<1>2. CASE p.enum = {}
  BY <1>2 DEF Within, Meets
<1>3. QED
  BY <1>1, <1>2

(* A turn of the loop keeps what has a value and gives the parameter one.  *)
LEMMA FilledIs ==
    ASSUME NEW p
    PROVE  /\ p.name \in DOMAIN Filled(p)
           /\ \A k \in DOMAIN params : k \in DOMAIN Filled(p) /\ Filled(p)[k] = params[k]
BY DEF Filled, Over

LEMMA CallStarts == Init => CallInv
BY DEF Init, CallInv, OfTools, ChecksPassed, PastMeets, AuthorDecides, ConstraintsHold

(* Load runs before any call.                                              *)
LEMMA LoadKeeps == CallInv /\ Load => CallInv'
<1> SUFFICES ASSUME CallInv, Load PROVE CallInv'
  OBVIOUS
<1>1. pc = "load" /\ seen = Empty /\ seen' = Empty /\ pc' # "params" /\ pc' # "load" /\ at' = at
  BY DEF CallInv, Load
<1>2. OfTools'
  <2>1. PICK t \in Tools : tool = t \/ tool = Defaulted(t)
    BY DEF CallInv, OfTools
  <2>2. DOMAIN t = {"params", "options", "uses", "json", "maxOutputKB"}
    BY ToolAssumption
  <2>3. Defaulted(Defaulted(t)) = Defaulted(t)
    BY <2>2 DEF Defaulted, DefaultKB
  <2>4. tool' = Defaulted(t)
    BY <2>1, <2>3 DEF Load
  <2>5. QED
    BY <2>4 DEF OfTools
<1>3. ChecksPassed'
  <2>1. tool' = Defaulted(tool)
    BY DEF Load
  <2>2. pc' \in {"ready", "refused"} /\ (pc' = "ready" => Accepted(Defaulted(tool)))
    BY DEF Load
  <2>3. pc' = "ready" => Accepted(tool)'
    BY <2>1, <2>2
  <2>4. QED
    BY <2>2, <2>3 DEF ChecksPassed
<1>4. QED
  BY <1>1, <1>2, <1>3 DEF CallInv, PastMeets, AuthorDecides, ConstraintsHold

(* Every other step leaves the definition alone.                           *)
LEMMA ToolKept ==
    ASSUME OfTools, ChecksPassed, UNCHANGED tool, pc \notin {"load", "refused"}
    PROVE  OfTools' /\ ChecksPassed'
<1>1. Accepted(tool)
  BY DEF ChecksPassed
<1>2. Accepted(tool)'
  BY <1>1
<1>3. QED
  BY <1>2 DEF OfTools, ChecksPassed

(* A call begins with nothing seen and the loop before all parameters.     *)
LEMMA CallKeeps == CallInv /\ Call => CallInv'
<1> SUFFICES ASSUME CallInv, Call PROVE CallInv'
  OBVIOUS
<1>1. OfTools' /\ ChecksPassed'
  BY ToolKept DEF CallInv, Call
<1>2. QED
  BY <1>1 DEF CallInv, Call, PastMeets, AuthorDecides, ConstraintsHold

(* The parameter the loop is at is checked, and those it is past keep      *)
(* their values.                                                           *)
LEMMA ParamKeeps == CallInv /\ Param => CallInv'
<1> SUFFICES ASSUME CallInv, Param PROVE CallInv'
  OBVIOUS
<1> DEFINE p == tool.params[at]
<1>1. OfTools' /\ ChecksPassed' /\ tool' = tool /\ seen' = seen
  BY ToolKept DEF CallInv, Param
<1>2. Len(tool.params) \in Nat /\ DOMAIN tool.params = 1..Len(tool.params) /\ at \in Nat
  BY ParamsAreSeq DEF CallInv
<1>3. AuthorDecides' /\ ConstraintsHold'
  BY <1>1 DEF CallInv, AuthorDecides, ConstraintsHold, Declared
<1>4. CASE pc' = "ready" /\ at' = at
  BY <1>1, <1>2, <1>3, <1>4 DEF CallInv, PastMeets
<1>5. CASE pc' = pc /\ at' = at + 1 /\ params' = Filled(p) /\ Within(p, Filled(p)[p.name])
  <2>1. pc = "params" /\ at <= Len(tool.params)
    BY DEF Param
  <2>2. ASSUME NEW j \in 1..at
        PROVE  /\ tool.params[j].name \in DOMAIN Filled(p)
               /\ Meets(tool.params[j], Filled(p)[tool.params[j].name])
    <3>1. CASE j \in 1..(at - 1)
      BY <2>1, <3>1, FilledIs DEF CallInv, PastMeets
    <3>2. CASE j = at
      <4>1. GroupsOK(p)
        BY <1>2, <2>1, <2>2, <3>2 DEF CallInv, ChecksPassed, Accepted
      <4>2. QED
        BY <1>5, <3>2, <4>1, WithinMeets, FilledIs
    <3>3. QED
      BY <1>2, <3>1, <3>2
  <2>3. PastMeets'
    BY <1>1, <1>2, <1>5, <2>2 DEF PastMeets
  <2>4. QED
    BY <1>1, <1>2, <1>3, <1>5, <2>1, <2>3 DEF CallInv
<1>6. QED
  BY <1>4, <1>5, FilledIs DEF Param

(* The template is executed when the loop is past every parameter.         *)
LEMMA RenderKeeps == CallInv /\ Render => CallInv'
<1> SUFFICES ASSUME CallInv, Render PROVE CallInv'
  OBVIOUS
<1>1. OfTools' /\ ChecksPassed' /\ tool' = tool /\ seen' = Context
  BY ToolKept DEF CallInv, Render
<1>2. Len(tool.params) \in Nat /\ DOMAIN tool.params = 1..Len(tool.params) /\ at \in Nat
  BY ParamsAreSeq DEF CallInv
<1>3. AuthorDecides'
  BY <1>1, ContextIs DEF AuthorDecides
<1>4. ConstraintsHold'
  <2>1. ASSUME NEW i \in DOMAIN tool.params, tool.params[i].name \notin DOMAIN tool.options
        PROVE  Meets(tool.params[i], Context[tool.params[i].name])
    <3>1. i \in 1..(at - 1) /\ pc = "params"
      BY <1>2 DEF Render
    <3>2. tool.params[i].name \in DOMAIN params /\ Meets(tool.params[i], params[tool.params[i].name])
      BY <3>1 DEF CallInv, PastMeets
    <3>3. tool.params[i].name # Reserved
      BY <3>1 DEF CallInv, ChecksPassed, Accepted, NameOK
    <3>4. QED
      BY <2>1, <3>2, <3>3, ContextIs
  <2>2. QED
    BY <1>1, <2>1 DEF ConstraintsHold, Declared, Meets
<1>5. pc' # "params" /\ pc' # "load" /\ at' = at
  BY DEF Render
<1>6. QED
  BY <1>1, <1>3, <1>4, <1>5 DEF CallInv, PastMeets

LEMMA AnswerKeeps == CallInv /\ Answer => CallInv'
<1> SUFFICES ASSUME CallInv, Answer PROVE CallInv'
  OBVIOUS
<1>1. OfTools' /\ ChecksPassed'
  BY ToolKept DEF CallInv, Answer
<1>2. QED
  BY <1>1 DEF CallInv, Answer, PastMeets, AuthorDecides, ConstraintsHold, Declared

LEMMA CallInvHolds == Spec => []CallInv
<1>1. CallInv /\ [Next]_vars => CallInv'
  <2>1. CallInv /\ UNCHANGED vars => CallInv'
    BY DEF vars, CallInv, OfTools, ChecksPassed, PastMeets, AuthorDecides, ConstraintsHold,
           Declared
  <2>2. QED
    BY <2>1, LoadKeeps, CallKeeps, ParamKeeps, RenderKeeps, AnswerKeeps DEF Next
<1>2. QED
  BY <1>1, CallStarts, PTL DEF Spec

(* Execute: no argument of any call changes an option or the engine's key. *)
THEOREM AuthorAlwaysDecides == Spec => []AuthorDecides
<1>1. CallInv => AuthorDecides
  BY DEF CallInv
<1>2. QED
  BY <1>1, CallInvHolds, PTL

(* Execute: what a template is executed on meets the constraints of every  *)
(* parameter that no option replaces, whether the client gave it or not.   *)
THEOREM ConstraintsAlwaysHold == Spec => []ConstraintsHold
<1>1. CallInv => ConstraintsHold
  BY DEF CallInv
<1>2. QED
  BY <1>1, CallInvHolds, PTL

-----------------------------------------------------------------------------
(* Types.  The loop stays within the declared parameters, and a value that *)
(* a client sent is never dropped.                                         *)
LEMMA TypesStart == Init => TypeOK
<1> SUFFICES ASSUME Init PROVE TypeOK
  OBVIOUS
<1>1. OfTools
  BY DEF Init, OfTools
<1>2. Len(tool.params) \in Nat
  BY <1>1, ParamsAreSeq
<1>3. QED
  BY <1>2 DEF Init, TypeOK

LEMMA LoadTyped == CallInv /\ TypeOK /\ Load => TypeOK'
<1> SUFFICES ASSUME CallInv, TypeOK, Load PROVE TypeOK'
  OBVIOUS
<1>1. tool'.params = tool.params
  <2>1. PICK t \in Tools : tool = t \/ tool = Defaulted(t)
    BY DEF CallInv, OfTools
  <2>2. DOMAIN t = {"params", "options", "uses", "json", "maxOutputKB"}
    BY ToolAssumption
  <2>3. QED
    BY <2>1, <2>2 DEF Load, Defaulted
<1>2. pc' \in {"ready", "refused"} /\ (pc' = "ready" => Accepted(Defaulted(tool)))
  BY DEF Load
<1>3. tool' = Defaulted(tool)
  BY DEF Load
<1>4. pc' = "ready" => Accepted(tool)'
  BY <1>2, <1>3
<1>5. UNCHANGED <<sent, params, at, answer>>
  BY DEF Load
<1>6. QED
  BY <1>1, <1>2, <1>4, <1>5 DEF TypeOK

LEMMA StepsTyped == CallInv /\ TypeOK /\ (Call \/ Param \/ Render \/ Answer) => TypeOK'
<1> SUFFICES ASSUME CallInv, TypeOK, Call \/ Param \/ Render \/ Answer PROVE TypeOK'
  OBVIOUS
<1>1. tool' = tool /\ pc \notin {"load", "refused"} /\ pc' \in {"ready", "params", "cut"}
  BY DEF Call, Param, Render, Answer
<1>2. Accepted(tool)'
  BY <1>1 DEF TypeOK
<1>3. Len(tool.params) \in Nat
  BY ParamsAreSeq DEF CallInv
<1>4. at' \in 1..(Len(tool'.params) + 1)
  BY <1>1, <1>3 DEF TypeOK, Call, Param, Render, Answer
<1>5. sent' \in Arguments \cup {Empty} /\ DOMAIN sent' \subseteq DOMAIN params'
  <2>1. CASE Call
    BY <2>1 DEF Call
  <2>2. CASE Param
    BY <2>2, FilledIs DEF TypeOK, Param
  <2>3. CASE Render \/ Answer
    BY <2>3 DEF TypeOK, Render, Answer
  <2>4. QED
    BY <2>1, <2>2, <2>3
<1>6. answer' \in {"none", "missing", "path", "constraint", "nokey", "kind", "whole", "cut"}
  <2>1. Executed(tool, Context) \in {"none", "nokey", "kind"}
    BY DEF Executed
  <2>2. QED
    BY <2>1 DEF TypeOK, Call, Param, Render, Answer
<1>7. QED
  BY <1>1, <1>2, <1>4, <1>5, <1>6 DEF TypeOK

(* Every variable has its type, and a tool that takes calls was accepted.  *)
THEOREM CallTypeCorrect == Spec => []TypeOK
<1>1. CallInv /\ TypeOK /\ [Next]_vars => TypeOK'
  <2>1. TypeOK /\ UNCHANGED vars => TypeOK'
    BY DEF vars, TypeOK
  <2>2. QED
    BY <2>1, LoadTyped, StepsTyped DEF Next
<1>2. QED
  BY <1>1, TypesStart, CallInvHolds, PTL DEF Spec

-----------------------------------------------------------------------------
(* The dry run.  A value the template meets is one the client sent, or the *)
(* default or the zero value of a parameter of that name.                  *)
Filling(p) == IF p.default # NoValue THEN p.default ELSE Zero(p.type)

ValuesFrom ==
    pc = "params" =>
        \A k \in DOMAIN params :
            IF k \in DOMAIN sent THEN params[k] = sent[k]
            ELSE \E p \in Declared : p.name = k /\ params[k] = Filling(p)

DryInv == ValuesFrom /\ (pc \in {"load", "params"} => answer = "none") /\ DryRunPredicts

(* A name of several parameters has the zero value of the last of them.    *)
Names(t) == {t.params[i].name : i \in DOMAIN t.params}

LastOf(t, k) == Max({i \in DOMAIN t.params : t.params[i].name = k})

LEMMA MaxIsIn ==
    ASSUME NEW n \in Nat, NEW S \in SUBSET (0..n), S # {}
    PROVE  Max(S) \in S /\ \A x \in S : Max(S) >= x
<1>0. \A y \in 0..n : y \in Int
  OBVIOUS
<1>1. \E x \in S : \A y \in S : x >= y
  <2> DEFINE R == {n - x : x \in S}
  <2>1. R \in SUBSET Nat /\ R # {}
    <3>1. \A x \in S : n - x \in Nat
      OBVIOUS
    <3>2. QED
      BY <3>1
  <2>2. PICK r \in R : \A m \in R : r <= m
    BY <2>1, LeastNat
  <2>3. PICK x \in S : r = n - x
    BY <2>2
  <2>4. \A y \in S : n - x <= n - y
    BY <2>2, <2>3
  <2> HIDE DEF R
  <2>5. x \in Int /\ n \in Int /\ \A y \in S : y \in Int
    <3>1. \A y \in S : y \in Int
      BY <1>0, Zenon
    <3>2. n \in Int
      OBVIOUS
    <3>3. QED
      BY <3>1, <3>2, Zenon
  <2>6. \A y \in S : x >= y
    BY <2>4, <2>5
  <2>7. QED
    BY <2>6
<1>2. QED
  BY <1>0, <1>1 DEF Max

LEMMA DryContextIs ==
    ASSUME OfTools, NEW k
    PROVE  /\ k \in DOMAIN DryContext(tool) <=>
                  k = Reserved \/ k \in Names(tool) \/ k \in DOMAIN tool.options
           /\ k \in DOMAIN tool.options => DryContext(tool)[k] = tool.options[k]
           /\ k \in Names(tool) \ DOMAIN tool.options =>
                  \E p \in Declared : p.name = k /\ DryContext(tool)[k] = Zero(p.type)
           /\ k = Reserved /\ k \notin Names(tool) \cup DOMAIN tool.options =>
                  DryContext(tool)[k] = NoEngine
<1> DEFINE zeros == [j \in Names(tool) |-> Zero(tool.params[LastOf(tool, j)].type)]
           base == Over([j \in {Reserved} |-> NoEngine], zeros)
<1>1. DryContext(tool) = Over(base, tool.options)
  BY DEF DryContext, Names, LastOf
<1>2. DOMAIN base = {Reserved} \cup Names(tool)
  BY DEF Over
<1>3. \A j \in Names(tool) : base[j] = Zero(tool.params[LastOf(tool, j)].type)
  BY DEF Over
<1>4. Reserved \notin Names(tool) => base[Reserved] = NoEngine
  BY DEF Over
<1> HIDE DEF base
<1>5. DOMAIN DryContext(tool) = DOMAIN base \cup DOMAIN tool.options
  BY <1>1 DEF Over
<1>6. \A j \in DOMAIN base \ DOMAIN tool.options : DryContext(tool)[j] = base[j]
  BY <1>1 DEF Over
<1>7. \A j \in DOMAIN tool.options : DryContext(tool)[j] = tool.options[j]
  BY <1>1 DEF Over
<1>8. ASSUME k \in Names(tool)
      PROVE  \E p \in Declared : p.name = k /\ base[k] = Zero(p.type)
  <2>1. {i \in DOMAIN tool.params : tool.params[i].name = k} # {}
    BY <1>8 DEF Names
  <2>2. LastOf(tool, k) \in {i \in DOMAIN tool.params : tool.params[i].name = k}
    <3>1. {i \in DOMAIN tool.params : tool.params[i].name = k} \in SUBSET (0..Len(tool.params))
      BY ParamsAreSeq
    <3>2. QED
      BY <2>1, <3>1, ParamsAreSeq, MaxIsIn DEF LastOf
  <2>3. QED
    BY <1>3, <1>8, <2>2 DEF Declared
<1>9. QED
  BY <1>2, <1>4, <1>5, <1>6, <1>7, <1>8

(* What the template of a call that fails on a type met: a value that a    *)
(* client or a default gives in another type, or one that the dry run did  *)
(* not know from another of the same name.                                 *)
Excused ==
    \/ \E p \in Declared : p.name \in DOMAIN sent /\ Misfit(p, sent[p.name])
    \/ \E p \in Declared : p.default # NoValue /\ Misfit(p, p.default)
    \/ Reserved \in DOMAIN tool.options
    \/ \E p, q \in Declared : p # q /\ p.name = q.name

(* The context of a call has every key the dry run had.                    *)
LEMMA ContextHasKeys ==
    ASSUME OfTools, Names(tool) \subseteq DOMAIN params
    PROVE  DOMAIN DryContext(tool) \subseteq DOMAIN Context
<1>1. DOMAIN Context = DOMAIN params \cup DOMAIN tool.options \cup {Reserved}
  BY DEF Context, Over
<1>2. QED
  BY <1>1, DryContextIs

(* A key of the dry run that has a value of another type in the call.      *)
LEMMA OtherTypeIsExcused ==
    ASSUME OfTools, Accepted(tool), ValuesFrom, pc = "params",
           Names(tool) \subseteq DOMAIN params,
           NEW k \in DOMAIN DryContext(tool), Context[k].go # DryContext(tool)[k].go
    PROVE  Excused
<1>1. Reserved \notin Names(tool)
  BY DEF Accepted, NameOK, Names
<1>2. CASE k \in DOMAIN tool.options /\ k # Reserved
  BY <1>2, ContextIs, DryContextIs
<1>3. CASE k = Reserved
  <2>1. Context[k] = Engine /\ Engine.go = NoEngine.go
    BY <1>3, ContextIs DEF NoEngine, Engine
  <2>2. k \in DOMAIN tool.options
    BY <1>1, <1>3, <2>1, DryContextIs
  <2>3. QED
    BY <1>3, <2>2 DEF Excused
<1>4. CASE k \notin DOMAIN tool.options /\ k # Reserved
  <2>1. k \in Names(tool)
    BY <1>4, DryContextIs
  <2>2. PICK p \in Declared : p.name = k /\ DryContext(tool)[k] = Zero(p.type)
    BY <1>4, <2>1, DryContextIs
  <2>3. k \in DOMAIN params /\ Context[k] = params[k]
    BY <1>4, <2>1, ContextIs
  <2>4. CASE k \in DOMAIN sent
    <3>1. params[k] = sent[k]
      BY <2>3, <2>4 DEF ValuesFrom
    <3>2. Misfit(p, sent[p.name])
      BY <2>2, <2>3, <3>1 DEF Misfit
    <3>3. QED
      BY <2>2, <2>4, <3>2 DEF Excused
  <2>5. CASE k \notin DOMAIN sent
    <3>1. PICK q \in Declared : q.name = k /\ params[k] = Filling(q)
      BY <2>3, <2>5 DEF ValuesFrom
    <3>2. CASE p # q
      BY <2>2, <3>1, <3>2 DEF Excused
    <3>3. CASE p = q
      <4>1. Filling(p).go # Zero(p.type).go
        BY <2>2, <2>3, <3>1, <3>3
      <4>2. p.default # NoValue /\ Misfit(p, p.default)
        BY <4>1 DEF Filling, Misfit
      <4>3. QED
        BY <4>2 DEF Excused
    <3>4. QED
      BY <3>2, <3>3
  <2>6. QED
    BY <2>4, <2>5
<1>5. QED
  BY <1>2, <1>3, <1>4

(* The uses of a template are a sequence; of those that fail the first     *)
(* decides.                                                                *)
LEMMA FirstFails ==
    ASSUME OfTools, NEW context, Executed(tool, context) # "none"
    PROVE  \E i \in DOMAIN tool.uses :
             \/ Executed(tool, context) = "nokey" /\ Lacks(tool.uses[i], context)
             \/ Executed(tool, context) = "kind" /\ WrongKind(tool.uses[i], context)
<1>1. PICK t \in Tools : tool = t \/ tool = Defaulted(t)
  BY DEF OfTools
<1>2. tool.uses = t.uses
  BY <1>1, DefaultedAlone
<1>3. DOMAIN tool.uses \in SUBSET Nat
  <2>1. t.uses \in Seq({t.uses[i] : i \in DOMAIN t.uses})
    BY ToolAssumption
  <2>2. DOMAIN t.uses \in SUBSET Nat
    BY <2>1
  <2>3. QED
    BY <1>2, <2>2
<1> DEFINE F == Failing(tool, context)
<1>4. F \in SUBSET Nat /\ F # {}
  BY <1>3 DEF Failing, Executed
<1>5. PICK m \in F : \A i \in F : m <= i
  BY <1>4, LeastNat
<1>6. Min(F) \in F
  BY <1>5 DEF Min
<1>7. PICK i \in DOMAIN tool.uses :
        /\ i = Min(F)
        /\ Lacks(tool.uses[i], context) \/ WrongKind(tool.uses[i], context)
  BY <1>6 DEF Failing
<1>8. Executed(tool, context) = IF Lacks(tool.uses[i], context) THEN "nokey" ELSE "kind"
  BY <1>4, <1>7 DEF Executed
<1>9. QED
  BY <1>7, <1>8

(* Of an accepted tool no use fails that the dry run reached.              *)
LEMMA DryRunPassed ==
    ASSUME Accepted(tool), ~tool.json, NEW i \in DOMAIN tool.uses
    PROVE  ~Lacks(tool.uses[i], DryContext(tool)) /\ ~WrongKind(tool.uses[i], DryContext(tool))
<1>1. Executed(tool, DryContext(tool)) = "none"
  BY DEF Accepted, DryRunOK
<1>2. Failing(tool, DryContext(tool)) = {}
  BY <1>1 DEF Executed
<1>3. QED
  BY <1>2 DEF Failing

(* A use that fails in a call is one that the dry run did not come to, or  *)
(* it fails for a type that is excused.                                    *)
UntriedIn(t, u, context) == Reached(u, context) /\ ~Reached(u, DryContext(t))

LEMMA RenderAsPredicted ==
    ASSUME CallInv, ValuesFrom, pc = "params", at > Len(tool.params), ~tool.json,
           Executed(tool, Context) # "none"
    PROVE  \/ /\ Executed(tool, Context) = "nokey"
              /\ \E i \in DOMAIN tool.uses :
                    UntriedIn(tool, tool.uses[i], Context) /\ Lacks(tool.uses[i], Context)
           \/ /\ Executed(tool, Context) = "kind"
              /\ \/ Excused
                 \/ \E i \in DOMAIN tool.uses :
                       UntriedIn(tool, tool.uses[i], Context) /\ WrongKind(tool.uses[i], Context)
<1>1. OfTools /\ Accepted(tool)
  BY DEF CallInv, ChecksPassed
<1>2. Names(tool) \subseteq DOMAIN params
  <2>1. ASSUME NEW i \in DOMAIN tool.params PROVE tool.params[i].name \in DOMAIN params
    <3>1. i \in 1..(at - 1)
      BY <1>1, ParamsAreSeq DEF CallInv
    <3>2. QED
      BY <3>1 DEF CallInv, PastMeets
  <2>2. QED
    BY <2>1 DEF Names
<1>3. DOMAIN DryContext(tool) \subseteq DOMAIN Context
  BY <1>1, <1>2, ContextHasKeys
<1>4. PICK i \in DOMAIN tool.uses :
        \/ Executed(tool, Context) = "nokey" /\ Lacks(tool.uses[i], Context)
        \/ Executed(tool, Context) = "kind" /\ WrongKind(tool.uses[i], Context)
  BY <1>1, FirstFails
<1> DEFINE u == tool.uses[i]
<1>5. ~Lacks(u, DryContext(tool)) /\ ~WrongKind(u, DryContext(tool))
  BY <1>1, DryRunPassed
<1>6. Reached(u, Context)
  BY <1>4 DEF Lacks, WrongKind
<1>7. CASE ~Reached(u, DryContext(tool))
  BY <1>4, <1>6, <1>7 DEF UntriedIn
<1>8. CASE Reached(u, DryContext(tool))
  <2>1. u.key \in DOMAIN DryContext(tool)
    BY <1>5, <1>8 DEF Lacks
  <2>2. u.want \in {"any", DryContext(tool)[u.key].go}
    BY <1>5, <1>8, <2>1 DEF WrongKind
  <2>3. Executed(tool, Context) = "kind" /\ WrongKind(u, Context)
    BY <1>3, <1>4, <2>1 DEF Lacks
  <2>4. Context[u.key].go # DryContext(tool)[u.key].go
    BY <2>2, <2>3 DEF WrongKind
  <2>5. Excused
    BY <1>1, <1>2, <2>1, <2>4, OtherTypeIsExcused
  <2>6. QED
    BY <2>3, <2>5
<1>9. QED
  BY <1>7, <1>8

LEMMA ParamFrom == CallInv /\ TypeOK /\ DryInv /\ Param => ValuesFrom'
<1> SUFFICES ASSUME CallInv, TypeOK, DryInv, Param, pc' = "params" PROVE ValuesFrom'
  BY DEF ValuesFrom
<1> DEFINE p == tool.params[at]
<1>1. pc = "params" /\ tool' = tool /\ sent' = sent /\ params' = Filled(p)
  BY DEF Param
<1>2. p \in Declared
  <2>1. at \in DOMAIN tool.params
    BY ParamsAreSeq DEF CallInv, Param, TypeOK
  <2>2. QED
    BY <2>1 DEF Declared
<1>3. ASSUME NEW k \in DOMAIN Filled(p)
      PROVE  IF k \in DOMAIN sent THEN Filled(p)[k] = sent[k]
             ELSE \E q \in Declared : q.name = k /\ Filled(p)[k] = Filling(q)
  <2>1. CASE k \in DOMAIN params
    BY <1>1, <2>1, FilledIs DEF DryInv, ValuesFrom
  <2>2. CASE k \notin DOMAIN params
    <3>1. k = p.name /\ Filled(p)[k] = Filling(p)
      BY <1>3, <2>2 DEF Filled, Filling, Over
    <3>2. k \notin DOMAIN sent
      BY <2>2 DEF TypeOK
    <3>3. QED
      BY <1>2, <3>1, <3>2
  <2>3. QED
    BY <2>1, <2>2
<1>4. QED
  BY <1>1, <1>3 DEF ValuesFrom, Declared

(* DryRunPredicts, of any tool, answer and context, excused or not.        *)
Predicted(t, a, context, excused) ==
    ~t.json =>
        /\ a = "nokey" =>
            \E i \in DOMAIN t.uses : UntriedIn(t, t.uses[i], context) /\ Lacks(t.uses[i], context)
        /\ a = "kind" =>
            \/ excused
            \/ \E i \in DOMAIN t.uses :
                    UntriedIn(t, t.uses[i], context) /\ WrongKind(t.uses[i], context)

LEMMA DryRunPredictsIs ==
    /\ DryRunPredicts <=> Predicted(tool, answer, seen, Excused)
    /\ DryRunPredicts' <=> Predicted(tool', answer', seen', Excused')
BY DEF DryRunPredicts, Predicted, Excused, Untried, UntriedIn

LEMMA NoneIsPredicted ==
    ASSUME NEW t, NEW a \in {"none", "missing", "path", "constraint", "whole", "cut"}, NEW c, NEW e
    PROVE  Predicted(t, a, c, e)
BY DEF Predicted

LEMMA DryStarts == Init => DryInv
<1> SUFFICES ASSUME Init PROVE DryInv
  OBVIOUS
<1>1. pc = "load" /\ answer = "none"
  BY DEF Init
<1>2. QED
  BY <1>1, NoneIsPredicted, DryRunPredictsIs DEF DryInv, ValuesFrom

LEMMA DryKept == CallInv /\ TypeOK /\ DryInv /\ Next => DryInv'
<1> SUFFICES ASSUME CallInv, TypeOK, DryInv, Next PROVE DryInv'
  OBVIOUS
<1>1. CASE Load
  <2>1. answer' = "none" /\ pc' \notin {"load", "params"}
    BY <1>1 DEF Load, DryInv
  <2>2. DryRunPredicts'
    BY <2>1, NoneIsPredicted, DryRunPredictsIs
  <2>3. QED
    BY <2>1, <2>2 DEF DryInv, ValuesFrom
<1>2. CASE Call
  <2>1. answer' = "none" /\ params' = sent' /\ pc' = "params"
    BY <1>2 DEF Call
  <2>2. DryRunPredicts'
    BY <2>1, NoneIsPredicted, DryRunPredictsIs
  <2>3. QED
    BY <2>1, <2>2 DEF DryInv, ValuesFrom
<1>3. CASE Param
  <2>1. /\ answer' \in {"missing", "path", "constraint", "none"}
        /\ pc' # "load" /\ (pc' = "params" => answer' = "none")
    BY <1>3 DEF Param
  <2>2. DryRunPredicts'
    BY <2>1, NoneIsPredicted, DryRunPredictsIs
  <2>3. ValuesFrom'
    BY <1>3, ParamFrom
  <2>4. QED
    BY <2>1, <2>2, <2>3 DEF DryInv
<1>4. CASE Render
  <2>1. /\ pc = "params" /\ at > Len(tool.params) /\ pc' \in {"ready", "cut"}
        /\ UNCHANGED <<tool, sent>> /\ seen' = Context
        /\ IF Executed(tool, Context) = "none" THEN answer' = answer
           ELSE answer' = Executed(tool, Context)
    BY <1>4 DEF Render
  <2>2. answer = "none"
    BY <2>1 DEF DryInv
  <2>3. DryRunPredicts'
    <3>1. CASE Executed(tool, Context) = "none"
      BY <2>1, <2>2, <3>1, NoneIsPredicted, DryRunPredictsIs
    <3>2. CASE Executed(tool, Context) # "none"
      <4>1. ~tool.json => Predicted(tool, Executed(tool, Context), Context, Excused)
        BY <2>1, <3>2, RenderAsPredicted DEF DryInv, Predicted
      <4>2. Predicted(tool, Executed(tool, Context), Context, Excused)
        BY <4>1 DEF Predicted
      <4>3. Excused' <=> Excused
        BY <2>1 DEF Excused, Declared
      <4>4. QED
        BY <2>1, <3>2, <4>2, <4>3, DryRunPredictsIs
    <3>3. QED
      BY <3>1, <3>2
  <2>4. QED
    BY <2>1, <2>3 DEF DryInv, ValuesFrom
<1>5. CASE Answer
  <2>1. answer' \in {"whole", "cut"} /\ pc' = "ready"
    BY <1>5 DEF Answer
  <2>2. DryRunPredicts'
    BY <2>1, NoneIsPredicted, DryRunPredictsIs
  <2>3. QED
    BY <2>1, <2>2 DEF DryInv, ValuesFrom
<1>6. QED
  BY <1>1, <1>2, <1>3, <1>4, <1>5 DEF Next

(* Tool.Validate: for every definition and every call, a template misses   *)
(* no key in the branches that its dry run took, and meets a value of      *)
(* another type there only where a client or the definition gives one; it  *)
(* fails for another reason only in a branch that the dry run did not take *)
(* and the call does.                                                      *)
THEOREM DryRunAlwaysPredicts == Spec => []DryRunPredicts
<1>1. DryInv /\ UNCHANGED vars => DryInv'
  <2> SUFFICES ASSUME DryInv, UNCHANGED vars PROVE DryInv'
    OBVIOUS
  <2>1. UNCHANGED <<pc, tool, sent, params, seen, answer>>
    BY DEF vars
  <2>2. Excused' <=> Excused
    BY <2>1 DEF Excused, Declared
  <2>3. DryRunPredicts'
    BY <2>1, <2>2, DryRunPredictsIs DEF DryInv
  <2>4. QED
    BY <2>1, <2>3 DEF DryInv, ValuesFrom, Declared
<1>2. CallInv /\ TypeOK /\ DryInv /\ [Next]_vars => DryInv'
  BY <1>1, DryKept
<1>3. DryInv => DryRunPredicts
  BY DEF DryInv
<1>4. QED
  BY <1>2, <1>3, DryStarts, CallInvHolds, CallTypeCorrect, PTL DEF Spec

-----------------------------------------------------------------------------
(* truncateOutput.  The bytes of a text are the sum of its widths, and one *)
(* character more is at most four bytes more.                              *)
Widths(text) == [i \in DOMAIN text |-> Width(text[i])]

LEMMA BytesAreSum ==
    ASSUME NEW n \in Nat, NEW text, DOMAIN text = 1..n
    PROVE  Bytes(text) = SumFunctionOnSet(Widths(text), 1..n)
<1> DEFINE D == 1..n
           W == Widths(text)
           g == CHOOSE h : h = [s \in SUBSET D |->
                    IF s = {} THEN 0 ELSE Width(text[AnyOf(s)]) + h[s \ {AnyOf(s)}]]
<1>1. Bytes(text) = g[D]
  BY DEF Bytes, MapThenSumSet, MapThenFoldSet, AnyOf
<1>2. IsFiniteSet(D)
  BY UpToIsFinite
<1>3. PICK k : Sums(W, D, k) /\ SumFunctionOnSet(W, D) = k[D]
  BY <1>2, SumIsSums
<1>4. \A s \in SUBSET D : s # {} => W[AnyOf(s)] = Width(text[AnyOf(s)])
  BY AnyOfIsIn DEF Widths
<1>5. ASSUME NEW h
      PROVE  Sums(W, D, h) <=> h = [s \in SUBSET D |->
                  IF s = {} THEN 0 ELSE Width(text[AnyOf(s)]) + h[s \ {AnyOf(s)}]]
  <2> DEFINE A(s) == Adds(W, h, s)
             B(s) == IF s = {} THEN 0 ELSE Width(text[AnyOf(s)]) + h[s \ {AnyOf(s)}]
  <2>1. \A s \in SUBSET D : A(s) = B(s)
    BY <1>4 DEF Adds
  <2> HIDE DEF A, B
  <2>2. [s \in SUBSET D |-> A(s)] = [s \in SUBSET D |-> B(s)]
    BY <2>1
  <2>3. QED
    BY <2>2 DEF Sums, A, B
<1>6. Sums(W, D, g)
  BY <1>3, <1>5
<1>7. g[D] = k[D]
  <2>1. D \in SUBSET (D \cap D)
    OBVIOUS
  <2> HIDE DEF D, W, g
  <2>2. QED
    BY <1>2, <1>3, <1>6, <2>1, SumsAgree
<1>8. QED
  BY <1>1, <1>3, <1>7

LEMMA BytesOfPrefix ==
    ASSUME NEW text \in Seq(Broken..4)
    PROVE  /\ Bytes(SubSeq(text, 1, 0)) = 0
           /\ \A k \in 0..Len(text) : Bytes(SubSeq(text, 1, k)) \in Nat
           /\ \A k \in 0..(Len(text) - 1) :
                Bytes(SubSeq(text, 1, k + 1)) <= Bytes(SubSeq(text, 1, k)) + 4
<1> DEFINE S(k) == SumFunctionOnSet(Widths(text), 1..k)
           B(k) == Bytes(SubSeq(text, 1, k))
<1>1. Len(text) \in Nat /\ DOMAIN text = 1..Len(text)
  OBVIOUS
<1>2. \A i \in 1..Len(text) : Widths(text)[i] \in 1..4
  BY DEF Widths, Width, Broken
<1>3. ASSUME NEW k \in 0..Len(text) PROVE B(k) = S(k)
  <2> DEFINE part == SubSeq(text, 1, k)
  <2>1. DOMAIN part = 1..k /\ \A i \in 1..k : part[i] = text[i]
    BY <1>1
  <2>2. \A i \in 1..k : Widths(part)[i] = Widths(text)[i]
    BY <2>1, <1>1 DEF Widths
  <2> HIDE DEF part
  <2>3. IsFiniteSet(1..k) /\ k \in Nat
    BY UpToIsFinite
  <2>4. Bytes(part) = SumFunctionOnSet(Widths(part), 1..k)
    BY <2>1, <2>3, BytesAreSum
  <2>5. Bytes(part) = S(k)
    BY <2>2, <2>3, <2>4, SumAgrees
  <2>6. QED
    BY <2>5 DEF part
<1>4. ASSUME NEW k \in 0..(Len(text) - 1) PROVE S(k + 1) = S(k) + Widths(text)[k + 1]
  <2>1. k \in Nat /\ \A i \in 1..(k + 1) : Widths(text)[i] \in Int
    BY <1>1, <1>2
  <2>2. QED
    BY <2>1, SumOfNext
<1>5. \A k \in 0..Len(text) : S(k) \in Nat
  BY <1>1, <1>2, SumIsNat
<1>6. S(0) = 0
  <2>1. 1..0 = {}
    OBVIOUS
  <2>2. QED
    BY <2>1, SumOfNone
<1>7. ASSUME NEW k \in 0..(Len(text) - 1) PROVE B(k + 1) <= B(k) + 4
  <2>1. B(k + 1) = S(k + 1) /\ B(k) = S(k)
    BY <1>3
  <2>2. S(k) \in Nat /\ Widths(text)[k + 1] \in 1..4
    BY <1>2, <1>5
  <2> HIDE DEF S, B
  <2>3. QED
    BY <1>4, <2>1, <2>2
<1>8. B(0) = 0
  <2>1. 0 \in 0..Len(text)
    BY <1>1
  <2> HIDE DEF S, B
  <2>2. QED
    BY <1>3, <1>6, <2>1
<1>9. \A k \in 0..Len(text) : B(k) \in Nat
  <2> HIDE DEF S, B
  <2>1. QED
    BY <1>3, <1>5
<1>10. QED
  BY <1>7, <1>8, <1>9

LEMMA CutOfWhole ==
    ASSUME NEW text \in Seq(Broken..4), \A i \in DOMAIN text : text[i] # Broken,
           NEW limit \in Nat
    PROVE  /\ \E n \in 0..Len(text) : Cut(text, limit) = SubSeq(text, 1, n)
           /\ Bytes(Cut(text, limit)) <= limit
           /\ Cut(text, limit) # text => Bytes(Cut(text, limit)) > limit - 4
<1> DEFINE B(k) == Bytes(SubSeq(text, 1, k))
           K == {k \in 0..Len(text) : B(k) <= limit}
<1>1. Len(text) \in Nat /\ SubSeq(text, 1, Len(text)) = text
  OBVIOUS
<1>2. {k \in 0..Len(text) : \A i \in 1..k : text[i] # Broken} = 0..Len(text)
  OBVIOUS
<1>3. CASE Bytes(text) <= limit
  <2>1. Cut(text, limit) = text
    BY <1>3 DEF Cut
  <2>2. \E n \in 0..Len(text) : Cut(text, limit) = SubSeq(text, 1, n)
    <3>1. Len(text) \in 0..Len(text)
      BY <1>1
    <3>2. QED
      BY <1>1, <2>1, <3>1
  <2>3. QED
    BY <1>3, <2>1, <2>2
<1>4. CASE ~(Bytes(text) <= limit)
  <2>1. Cut(text, limit) = SubSeq(text, 1, Max(K))
    BY <1>2, <1>4 DEF Cut
  <2>2. B(Len(text)) = Bytes(text)
    BY <1>1
  <2>3. \A k \in 0..Len(text) : B(k) \in Nat
    BY BytesOfPrefix
  <2>4. B(0) = 0 /\ \A k \in 0..(Len(text) - 1) : B(k + 1) <= B(k) + 4
    BY BytesOfPrefix
  <2> DEFINE n == Max(K)
  <2> HIDE DEF B
  <2>5. K \in SUBSET (0..Len(text)) /\ K # {}
    BY <1>1, <2>4
  <2>6. n \in K /\ \A k \in K : n >= k
    BY <1>1, <2>5, MaxIsIn
  <2> HIDE DEF n
  <2>7. n \in 0..(Len(text) - 1)
    BY <1>1, <1>4, <2>2, <2>3, <2>6
  <2>8. n + 1 \notin K /\ n + 1 \in 0..Len(text)
    BY <1>1, <2>6, <2>7
  <2>9. B(n + 1) > limit /\ B(n) <= limit
    BY <2>3, <2>6, <2>8
  <2>10. B(n) > limit - 4
    <3>1. B(n + 1) <= B(n) + 4
      BY <2>4, <2>7
    <3>2. B(n) \in Nat /\ B(n + 1) \in Nat
      BY <2>3, <2>6, <2>8
    <3>3. QED
      BY <2>9, <3>1, <3>2
  <2>11. Cut(text, limit) = SubSeq(text, 1, n) /\ Bytes(Cut(text, limit)) = B(n)
    BY <2>1 DEF n, B
  <2>12. \E m \in 0..Len(text) : Cut(text, limit) = SubSeq(text, 1, m)
    BY <1>1, <2>7, <2>11
  <2>13. QED
    BY <2>9, <2>10, <2>11, <2>12
<1>5. QED
  BY <1>3, <1>4

(* What the template wrote is one of the texts until it is cut.            *)
OutIsText == pc = "cut" => out \in Seq(Broken..4)

LEMMA LimitIsNat ==
    ASSUME OfTools
    PROVE  Limit \in Nat
<1>1. PICK t \in Tools : tool = t \/ tool = Defaulted(t)
  BY DEF OfTools
<1>2. DOMAIN t = {"params", "options", "uses", "json", "maxOutputKB"} /\ t.maxOutputKB \in Int
  BY ToolAssumption
<1>3. tool.maxOutputKB \in Int
  BY <1>1, <1>2 DEF Defaulted, DefaultKB
<1>4. KB \in Nat /\ KB > 0
  BY ToolAssumption
<1> DEFINE b == tool.maxOutputKB * KB
<1>5. b \in Int
  BY <1>3, <1>4
<1>6. Limit = IF b <= 0 THEN 2 * KB ELSE b
  BY DEF Limit, DefaultKB
<1> HIDE DEF b
<1>7. QED
  BY <1>4, <1>5, <1>6

LEMMA OutTyped == Spec => []OutIsText
<1>1. Init => OutIsText
  BY DEF Init, OutIsText
<1>2. OutIsText /\ [Next]_vars => OutIsText'
  BY ToolAssumption DEF OutIsText, Next, vars, Load, Call, Param, Render, Answer
<1>3. QED
  BY <1>1, <1>2, PTL DEF Spec

(* truncateOutput: for every limit and every text without a broken byte    *)
(* what is left is whole characters from its start, within the limit and   *)
(* short of it by less than one character.                                 *)
THEOREM CutAlwaysTight == Spec => CutIsTight
<1> DEFINE Tight ==
        LET whole == \A i \in DOMAIN out : out[i] # Broken
        IN  pc = "cut" /\ whole =>
            /\ \E n \in 0..Len(out) : out' = SubSeq(out, 1, n)
            /\ Bytes(out') <= Limit
            /\ out' # out => Bytes(out') > Limit - 4
<1>1. CallInv /\ OutIsText /\ [Next]_vars => [Tight]_vars
  <2> SUFFICES ASSUME CallInv, OutIsText, Next, pc = "cut",
                      \A i \in DOMAIN out : out[i] # Broken
               PROVE  Tight
    OBVIOUS
  <2>1. out' = Cut(out, Limit)
    BY DEF Next, Load, Call, Param, Render, Answer
  <2>2. out \in Seq(Broken..4) /\ Limit \in Nat
    BY LimitIsNat DEF CallInv, OutIsText
  <2>3. QED
    BY <2>1, <2>2, CutOfWhole
<1>2. QED
  BY <1>1, CallInvHolds, OutTyped, PTL DEF Spec, CutIsTight
=============================================================================
