----------------------------- MODULE ToolServer -----------------------------
(***************************************************************************)
(* internal/server/server.go: one MCP server whose engine can be replaced  *)
(* while it runs.  SwapEngine takes the server's mutex, takes the old      *)
(* tools out of the MCP SDK and adds the new ones one by one; a tool call  *)
(* first finds its handler in the SDK and then, under the mutex, the       *)
(* engine to run on.  The SDK keeps its table of tools with a lock of its  *)
(* own, so each of its calls is one step.                                  *)
(*                                                                         *)
(* An engine is known by the goroutine that swaps it in, or First.         *)
(***************************************************************************)
EXTENDS FiniteSets

CONSTANTS
    Tool,        \* tool names
    Swapper,     \* goroutines that call SwapEngine, each with its own engine
    Caller,      \* tool calls that can be in progress at once
    First,       \* the engine the server is made with
    FirstTools,  \* its tools
    NoOne        \* the mutex is free; the SDK has no such tool

ASSUME ServerAssumption ==
    /\ First \notin Swapper /\ FirstTools \subseteq Tool
    /\ NoOne \notin Swapper \cup {First}

Engine == Swapper \cup {First}

VARIABLES
    mu,          \* the swapper that holds Server.mu
    engine,      \* Server.engine
    registered,  \* Server.registered
    offered,     \* offered[n]: the engine whose handler for n the SDK has
    toolsOf,     \* toolsOf[e]: the tools of engine e
    swap,        \* swap[r]: where the swapper is in SwapEngine
    call         \* call[c]: where a tool call is, its tool, handler, engine

serverVars == <<mu, engine, registered, offered, toolsOf, swap, call>>

Idle == [at |-> "idle"]

(* New registers the tools of the first engine. *)
ServerInit ==
    /\ mu = NoOne
    /\ engine = First
    /\ registered = FirstTools
    /\ offered = [n \in Tool |-> IF n \in FirstTools THEN First ELSE NoOne]
    /\ toolsOf = [e \in Engine |-> IF e = First THEN FirstTools ELSE {}]
    /\ swap = [r \in Swapper |-> "out"]
    /\ call = [c \in Caller |-> Idle]

-----------------------------------------------------------------------------
(* SwapEngine. *)
SwapCall(r, tools) ==
    /\ swap[r] = "out"
    /\ swap' = [swap EXCEPT ![r] = "lock"]
    /\ toolsOf' = [toolsOf EXCEPT ![r] = tools]
    /\ UNCHANGED <<mu, engine, registered, offered, call>>

(* Mutant: the mutex is not taken. *)
SwapLockMissing(r) ==
    /\ swap[r] = "lock"
    /\ swap' = [swap EXCEPT ![r] = "remove"]
    /\ UNCHANGED <<mu, engine, registered, offered, toolsOf, call>>

SwapLock(r) ==
    /\ swap[r] = "lock"
    /\ mu = NoOne
    /\ mu' = r
    /\ swap' = [swap EXCEPT ![r] = "remove"]
    /\ UNCHANGED <<engine, registered, offered, toolsOf, call>>

(* RemoveTools of all that is registered; the new engine takes its place. *)
SwapRemove(r) ==
    /\ swap[r] = "remove"
    /\ offered' = [n \in Tool |-> IF n \in registered THEN NoOne ELSE offered[n]]
    /\ registered' = {}
    /\ engine' = r
    /\ swap' = [swap EXCEPT ![r] = "register"]
    /\ UNCHANGED <<mu, toolsOf, call>>

(* Mutant: the tools of the server's first engine are registered too. *)
SwapAddAny(r, n) ==
    /\ swap[r] = "register"
    /\ n \in (toolsOf[r] \cup toolsOf[First]) \ registered
    /\ offered' = [offered EXCEPT ![n] = r]
    /\ registered' = registered \cup {n}
    /\ UNCHANGED <<mu, engine, toolsOf, swap, call>>

(* registerToolsLocked adds the tools in the order a Go map gives them. *)
SwapAdd(r, n) ==
    /\ swap[r] = "register"
    /\ n \in toolsOf[r] \ registered
    /\ offered' = [offered EXCEPT ![n] = r]
    /\ registered' = registered \cup {n}
    /\ UNCHANGED <<mu, engine, toolsOf, swap, call>>

(* Mutant: the mutex is kept. *)
SwapReturnLocked(r) ==
    /\ swap[r] = "register"
    /\ toolsOf[r] \subseteq registered
    /\ swap' = [swap EXCEPT ![r] = "done"]
    /\ UNCHANGED <<mu, engine, registered, offered, toolsOf, call>>

SwapReturn(r) ==
    /\ swap[r] = "register"
    /\ toolsOf[r] \subseteq registered
    /\ mu' = NoOne
    /\ swap' = [swap EXCEPT ![r] = "done"]
    /\ UNCHANGED <<engine, registered, offered, toolsOf, call>>

-----------------------------------------------------------------------------
(* A client calls a tool that the SDK has: its handler runs.  (One it has  *)
(* not is refused by the SDK and changes nothing.)                         *)
Call(c, n) ==
    /\ call[c].at = "idle"
    /\ offered[n] # NoOne
    /\ call' = [call EXCEPT ![c] = [at |-> "load", tool |-> n, by |-> offered[n]]]
    /\ UNCHANGED <<mu, engine, registered, offered, toolsOf, swap>>

(* handlerFor loads the engine between Lock and Unlock. *)
CallLoad(c) ==
    /\ call[c].at = "load"
    /\ mu = NoOne
    /\ call' = [call EXCEPT ![c] =
          [at |-> "run", tool |-> call[c].tool, by |-> call[c].by, on |-> engine]]
    /\ UNCHANGED <<mu, engine, registered, offered, toolsOf, swap>>

(* Mutant: the call's locals outlive it. *)
CallReturnKeeps(c) ==
    /\ call[c].at = "run"
    /\ call' = [call EXCEPT ![c].at = "idle"]
    /\ UNCHANGED <<mu, engine, registered, offered, toolsOf, swap>>

(* Engine.Execute, which answers "unknown tool" when its engine has no     *)
(* such tool, and the answer.                                              *)
CallReturn(c) ==
    /\ call[c].at = "run"
    /\ call' = [call EXCEPT ![c] = Idle]
    /\ UNCHANGED <<mu, engine, registered, offered, toolsOf, swap>>

-----------------------------------------------------------------------------
SwapStep(r) == SwapLock(r) \/ SwapRemove(r) \/ SwapReturn(r) \/ \E n \in Tool : SwapAdd(r, n)
CallStep(c) == CallLoad(c) \/ CallReturn(c)

ServerNext ==
    \/ \E r \in Swapper, tools \in SUBSET Tool : SwapCall(r, tools)
    \/ \E r \in Swapper : SwapStep(r)
    \/ \E c \in Caller, n \in Tool : Call(c, n)
    \/ \E c \in Caller : CallStep(c)

ServerSpec == ServerInit /\ [][ServerNext]_serverVars

-----------------------------------------------------------------------------
(* Every variable of the server has its type. *)
ServerTypeOK ==
    /\ mu \in Swapper \cup {NoOne}
    /\ engine \in Engine
    /\ registered \in SUBSET Tool
    /\ offered \in [Tool -> Engine \cup {NoOne}]
    /\ toolsOf \in [Engine -> SUBSET Tool]
    /\ swap \in [Swapper -> {"out", "lock", "remove", "register", "done"}]
    /\ call \in [Caller ->
          {Idle} \cup [at : {"load"}, tool : Tool, by : Engine]
                 \cup [at : {"run"}, tool : Tool, by : Engine, on : Engine]]

(* Between swaps the SDK offers exactly the tools of the engine that runs, *)
(* each with that engine's handler, however many reloads came at once.     *)
OfferedIsEngine ==
    mu = NoOne => \A n \in Tool :
        offered[n] = IF n \in toolsOf[engine] THEN engine ELSE NoOne

(* A call whose handler was found gets "unknown tool" only when the engine *)
(* was replaced while it was on its way.                                   *)
UnknownOnlyAcrossSwap ==
    \A c \in Caller :
        call[c].at = "run" /\ call[c].on = call[c].by
            => call[c].tool \in toolsOf[call[c].on]

(* A call that found its handler is answered: no reload blocks it for ever. *)
CallReturns == \A c \in Caller : call[c].at # "idle" ~> call[c].at = "idle"
=============================================================================
