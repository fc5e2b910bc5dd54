-------------------------- MODULE ToolServerProofs ---------------------------
(***************************************************************************)
(* Theorems about HotReload and the ToolServer it uses, for any number of  *)
(* writes, reloads and calls: reloads use the server as it says, and what  *)
(* is served in the end is the last configuration that could be built; and *)
(* about ReloadPipelines, for any configurations and any number of engines *)
(* that one process makes.                                                 *)
(***************************************************************************)
EXTENDS HotReload, ReloadPipelines, SequenceTheorems, TLAPS

-----------------------------------------------------------------------------
(* The mutex belongs to the swapper that is inside; only one is. *)
Inside(r) == swap[r] \in {"remove", "register"}
MutexInv == \A r \in Swapper : Inside(r) <=> mu = r

(* The engine that runs is First or one that has got past SwapRemove, so   *)
(* its tools no longer change.                                             *)
Placed(e) == e \in Swapper => swap[e] \in {"register", "done"}

(* What the SDK offers is what is registered, and is of the engine that    *)
(* runs; outside of the registering loop it is all of that engine's tools. *)
OffersInv ==
    /\ Placed(engine)
    /\ \A n \in Tool :
          /\ n \in registered => offered[n] = engine /\ n \in toolsOf[engine]
          /\ n \notin registered => offered[n] = NoOne
    /\ (\E r \in Swapper : swap[r] = "register" /\ engine = r)
          \/ toolsOf[engine] \subseteq registered
    /\ \A r \in Swapper : swap[r] = "register" => engine = r

(* A call's handler is one of an engine that had the tool. *)
CallInv ==
    \A c \in Caller : call[c].at # "idle" =>
        Placed(call[c].by) /\ call[c].tool \in toolsOf[call[c].by]

ServerInv == ServerTypeOK /\ MutexInv /\ OffersInv /\ CallInv

LEMMA InitServer == ServerInit => ServerInv
<1> SUFFICES ASSUME ServerInit PROVE ServerInv
    OBVIOUS
<1> USE ServerAssumption
<1>1. ServerTypeOK
    BY DEF ServerInit, ServerTypeOK, Engine
<1>2. MutexInv
    BY DEF ServerInit, MutexInv, Inside
<1>3. OffersInv
    BY DEF ServerInit, OffersInv, Placed, Engine
<1>4. CallInv
    BY DEF ServerInit, CallInv, Idle
<1> QED BY <1>1, <1>2, <1>3, <1>4 DEF ServerInv

(* A swapper's own engine is not in use, nor offered, before it is placed. *)
LEMMA StepServer == ServerInv /\ [ServerNext]_serverVars => ServerInv'
<1> SUFFICES ASSUME ServerInv, [ServerNext]_serverVars PROVE ServerInv'
    OBVIOUS
<1> USE ServerAssumption DEF ServerInv
<1>1. CASE UNCHANGED serverVars
    BY <1>1 DEF serverVars, ServerTypeOK, MutexInv, Inside, OffersInv, CallInv, Placed
<1>2. ASSUME NEW r \in Swapper, NEW tools \in SUBSET Tool, SwapCall(r, tools) PROVE ServerInv'
    <2>1. ServerTypeOK' /\ MutexInv'
        BY <1>2 DEF SwapCall, ServerTypeOK, MutexInv, Inside, Engine
    <2>2. \A e \in Engine : Placed(e) => e # r /\ Placed(e)' /\ toolsOf'[e] = toolsOf[e]
        BY <1>2 DEF SwapCall, Placed, ServerTypeOK, Engine
    <2>3. \A q \in Swapper : swap'[q] = "register" <=> swap[q] = "register"
        BY <1>2 DEF SwapCall, ServerTypeOK
    <2>4. OffersInv'
        BY <1>2, <2>2, <2>3 DEF SwapCall, OffersInv, ServerTypeOK
    <2>5. CallInv'
        BY <1>2, <2>2 DEF SwapCall, CallInv, ServerTypeOK, Idle
    <2> QED BY <2>1, <2>4, <2>5
<1>3. ASSUME NEW r \in Swapper, SwapLock(r) PROVE ServerInv'
    <2>1. ServerTypeOK' /\ MutexInv'
        BY <1>3 DEF SwapLock, ServerTypeOK, MutexInv, Inside
    <2>2. \A e \in Engine : Placed(e) => Placed(e)'
        BY <1>3 DEF SwapLock, Placed, ServerTypeOK, Engine
    <2>3. \A q \in Swapper : swap'[q] = "register" <=> swap[q] = "register"
        BY <1>3 DEF SwapLock, ServerTypeOK
    <2>4. OffersInv'
        BY <1>3, <2>2, <2>3 DEF SwapLock, OffersInv, ServerTypeOK
    <2>5. CallInv'
        BY <1>3, <2>2 DEF SwapLock, CallInv, ServerTypeOK, Idle
    <2> QED BY <2>1, <2>4, <2>5
<1>4. ASSUME NEW r \in Swapper, SwapRemove(r) PROVE ServerInv'
    <2>1. ServerTypeOK' /\ MutexInv'
        BY <1>4 DEF SwapRemove, ServerTypeOK, MutexInv, Inside, Engine
    <2>2. \A e \in Engine : Placed(e) => Placed(e)'
        BY <1>4 DEF SwapRemove, Placed, ServerTypeOK, Engine
    <2>3. \A q \in Swapper : swap'[q] = "register" => q = r
        BY <1>4 DEF SwapRemove, ServerTypeOK, MutexInv, Inside
    <2>4. swap'[r] = "register" /\ engine' = r /\ registered' = {}
        BY <1>4 DEF SwapRemove, ServerTypeOK
    <2>5. \A n \in Tool : offered'[n] = NoOne
        BY <1>4 DEF SwapRemove, OffersInv
    <2>6. OffersInv'
        BY <2>3, <2>4, <2>5 DEF OffersInv, Placed
    <2>7. CallInv'
        BY <1>4, <2>2 DEF SwapRemove, CallInv, ServerTypeOK, Idle
    <2> QED BY <2>1, <2>6, <2>7
<1>5. ASSUME NEW r \in Swapper, NEW n \in Tool, SwapAdd(r, n) PROVE ServerInv'
    <2>1. ServerTypeOK' /\ MutexInv'
        BY <1>5 DEF SwapAdd, ServerTypeOK, MutexInv, Inside, Engine
    <2>2. engine = r /\ n \in toolsOf[engine]
        BY <1>5 DEF SwapAdd, OffersInv
    <2>3. OffersInv'
        BY <1>5, <2>2 DEF SwapAdd, OffersInv, ServerTypeOK, Placed
    <2>4. CallInv'
        BY <1>5 DEF SwapAdd, CallInv, Placed
    <2> QED BY <2>1, <2>3, <2>4
<1>6. ASSUME NEW r \in Swapper, SwapReturn(r) PROVE ServerInv'
    <2>1. ServerTypeOK' /\ MutexInv'
        BY <1>6 DEF SwapReturn, ServerTypeOK, MutexInv, Inside
    <2>2. \A e \in Engine : Placed(e) => Placed(e)'
        BY <1>6 DEF SwapReturn, Placed, ServerTypeOK, Engine
    <2>3. engine = r /\ toolsOf[engine] \subseteq registered
        BY <1>6 DEF SwapReturn, OffersInv
    <2>4. \A q \in Swapper : swap'[q] # "register"
        BY <1>6 DEF SwapReturn, ServerTypeOK, MutexInv, Inside
    <2>5. OffersInv'
        BY <1>6, <2>2, <2>3, <2>4 DEF SwapReturn, OffersInv, ServerTypeOK
    <2>6. CallInv'
        BY <1>6, <2>2 DEF SwapReturn, CallInv, ServerTypeOK, Idle
    <2> QED BY <2>1, <2>5, <2>6
<1>7. ASSUME NEW c \in Caller, NEW n \in Tool, Call(c, n) PROVE ServerInv'
    <2>1. offered[n] = engine /\ engine \in Engine /\ n \in toolsOf[engine] /\ Placed(engine)
        BY <1>7 DEF Call, OffersInv, ServerTypeOK
    <2>2. call' = [call EXCEPT ![c] = [at |-> "load", tool |-> n, by |-> engine]]
        BY <1>7, <2>1 DEF Call
    <2>3. ServerTypeOK'
        BY <1>7, <2>1, <2>2 DEF Call, ServerTypeOK
    <2>4. CallInv'
        BY <1>7, <2>1, <2>2 DEF Call, CallInv, ServerTypeOK, Placed
    <2>5. MutexInv' /\ OffersInv'
        BY <1>7 DEF Call, MutexInv, Inside, OffersInv, Placed
    <2> QED BY <2>3, <2>4, <2>5
<1>8. ASSUME NEW c \in Caller, CallLoad(c) PROVE ServerInv'
    <2>1. call[c].tool \in Tool /\ call[c].by \in Engine /\ engine \in Engine
        BY <1>8 DEF CallLoad, ServerTypeOK, Idle
    <2>2. ServerTypeOK'
        BY <1>8, <2>1 DEF CallLoad, ServerTypeOK
    <2>3. CallInv'
        BY <1>8 DEF CallLoad, CallInv, ServerTypeOK, Placed
    <2>4. MutexInv' /\ OffersInv'
        BY <1>8 DEF CallLoad, MutexInv, Inside, OffersInv, Placed
    <2> QED BY <2>2, <2>3, <2>4
<1>9. ASSUME NEW c \in Caller, CallReturn(c) PROVE ServerInv'
    <2>1. ServerTypeOK' /\ CallInv'
        BY <1>9 DEF CallReturn, ServerTypeOK, CallInv, Placed, Idle
    <2>2. MutexInv' /\ OffersInv'
        BY <1>9 DEF CallReturn, MutexInv, Inside, OffersInv, Placed
    <2> QED BY <2>1, <2>2
<1> QED BY <1>1, <1>2, <1>3, <1>4, <1>5, <1>6, <1>7, <1>8, <1>9
        DEF ServerNext, SwapStep, CallStep

LEMMA ServerInvariant == ServerSpec => []ServerInv
<1>1. ServerInit => ServerInv
    BY InitServer
<1>2. ServerInv /\ [ServerNext]_serverVars => ServerInv'
    BY StepServer
<1> QED BY <1>1, <1>2, PTL DEF ServerSpec

-----------------------------------------------------------------------------
(* A step of the watcher or of a reload is none of the server's, or one    *)
(* that swappers may take.                                                 *)
LEMMA ReloadStepsServer == [Next]_vars => [ServerNext]_serverVars
<1> SUFFICES ASSUME [Next]_vars PROVE [ServerNext]_serverVars
    OBVIOUS
<1>1. CASE UNCHANGED vars
    BY <1>1 DEF vars
<1>2. ASSUME NEW there \in BOOLEAN, Change(there) PROVE UNCHANGED serverVars
    BY <1>2 DEF Change
<1>3. CASE FirstStat \/ Poll
    BY <1>3 DEF FirstStat, Poll
<1>4. ASSUME NEW r \in Swapper, Fire(r) \/ Load(r) \/ Swapped(r) PROVE UNCHANGED serverVars
    BY <1>4 DEF Fire, Load, Swapped
<1>5. ASSUME NEW r \in Swapper, Build(r) PROVE [ServerNext]_serverVars
    <2>1. CASE reload[r].version \in Builds
        <3>1. ToolsIn[reload[r].version] \in SUBSET Tool
            BY <2>1, ReloadAssumption
        <3> QED BY <1>5, <2>1, <3>1 DEF Build, ServerNext
    <2>2. CASE reload[r].version \notin Builds
        BY <1>5, <2>2 DEF Build
    <2> QED BY <2>1, <2>2
<1>6. CASE ServerStep
    BY <1>6 DEF ServerStep, ServerNext
<1> QED BY <1>1, <1>2, <1>3, <1>4, <1>5, <1>6 DEF Next, ReloadStep

(* The watcher and its reloads use the server only as it may be used.      *)
THEOREM ReloadUsesServer == Spec => ServerSpec
<1>1. Init => ServerInit
    BY DEF Init
<1> QED BY <1>1, ReloadStepsServer, PTL DEF Spec, ServerSpec

(* Whenever no swap is under way, the tools the SDK offers are the running *)
(* engine's, with its handlers: concurrent reloads never mix two engines.  *)
THEOREM OffersOneEngine == Spec => []OfferedIsEngine
<1>1. ServerInv => OfferedIsEngine
    <2> SUFFICES ASSUME ServerInv, mu = NoOne, NEW n \in Tool
                 PROVE  offered[n] = IF n \in toolsOf[engine] THEN engine ELSE NoOne
        BY DEF OfferedIsEngine
    <2>1. \A r \in Swapper : swap[r] # "register"
        BY ServerAssumption DEF ServerInv, MutexInv, Inside
    <2> QED BY <2>1 DEF ServerInv, OffersInv
<1> QED BY <1>1, ServerInvariant, ReloadUsesServer, PTL

(* A call is told "unknown tool" only if its engine was replaced meanwhile. *)
THEOREM UnknownIsStale == Spec => []UnknownOnlyAcrossSwap
<1>1. ServerInv => UnknownOnlyAcrossSwap
    BY DEF ServerInv, CallInv, UnknownOnlyAcrossSwap
<1> QED BY <1>1, ServerInvariant, ReloadUsesServer, PTL

(* The time of the file is no later than the writes count. *)
ReloadTypes ==
    /\ file \in [version : Version, there : BOOLEAN, mtime : Version]
    /\ writes \in Version /\ file.mtime <= writes
    /\ watcher \in {"start", "poll", "gone"}
    /\ lastMod \in Version /\ timer \in BOOLEAN
    /\ reload \in [Swapper ->
          [at : {"idle", "load", "build", "swap", "end"}, version : Version]]
    /\ overlap \in BOOLEAN /\ unseen \in BOOLEAN

LEMMA InitTypes == Init => ReloadTypes
<1> SUFFICES ASSUME Init PROVE ReloadTypes
    OBVIOUS
<1>1. 0 \in Version
    BY ReloadAssumption
<1>2. file \in [version : Version, there : BOOLEAN, mtime : Version] /\ file.mtime <= writes
    BY <1>1 DEF Init
<1>3. reload \in [Swapper ->
          [at : {"idle", "load", "build", "swap", "end"}, version : Version]]
    BY <1>1 DEF Init
<1> QED BY <1>1, <1>2, <1>3 DEF Init, ReloadTypes

LEMMA StepTypes == ReloadTypes /\ [Next]_vars => ReloadTypes'
<1> SUFFICES ASSUME ReloadTypes, [Next]_vars PROVE ReloadTypes'
    OBVIOUS
<1> USE ReloadAssumption DEF ReloadTypes
<1>1. CASE UNCHANGED reloadVars
    BY <1>1 DEF reloadVars
<1>2. ASSUME NEW there \in BOOLEAN, Change(there) PROVE ReloadTypes'
    <2>1. writes' = writes + 1 /\ writes' \in Version
        BY <1>2 DEF Change
    <2>2. PICK t \in {file.mtime, file.mtime + 1} :
             /\ file' = [version |-> writes', there |-> there, mtime |-> t]
             /\ unseen' = (unseen \/ watcher # "poll" \/ t = file.mtime)
        BY <1>2 DEF Change
    <2>3. t \in Version /\ t <= writes'
        BY <2>1, <2>2
    <2>4. file' \in [version : Version, there : BOOLEAN, mtime : Version] /\ file'.mtime <= writes'
        BY <2>1, <2>2, <2>3
    <2>5. unseen' \in BOOLEAN
        BY <2>2
    <2> QED BY <1>2, <2>1, <2>4, <2>5 DEF Change
<1>3. CASE FirstStat
    BY <1>3 DEF FirstStat
<1>4. CASE Poll
    BY <1>4 DEF Poll
<1>5. ASSUME NEW r \in Swapper, ReloadStep(r) PROVE ReloadTypes'
    <2>1. CASE Fire(r)
        BY <2>1 DEF Fire
    <2>2. CASE Load(r)
        BY <2>2 DEF Load
    <2>3. CASE Build(r)
        <3>1. \E at \in {"swap", "end"} : reload' = [reload EXCEPT ![r].at = at]
            BY <2>3 DEF Build
        <3>2. reload' \in [Swapper ->
                  [at : {"idle", "load", "build", "swap", "end"}, version : Version]]
            BY <3>1
        <3> QED BY <2>3, <3>2 DEF Build
    <2>4. CASE Swapped(r)
        BY <2>4 DEF Swapped
    <2> QED BY <1>5, <2>1, <2>2, <2>3, <2>4 DEF ReloadStep
<1> QED BY <1>1, <1>2, <1>3, <1>4, <1>5 DEF Next, ServerStep, vars

(* Every variable of the server and of the watcher has its type, whatever  *)
(* the number of writes, reloads and calls.                                *)
THEOREM ReloadTyped == Spec => []TypeOK
<1>1. Init => ReloadTypes
    BY InitTypes
<1>2. ReloadTypes /\ [Next]_vars => ReloadTypes'
    BY StepTypes
<1>3. ServerInv /\ ReloadTypes => TypeOK
    BY DEF ServerInv, ReloadTypes, TypeOK
<1> QED BY <1>1, <1>2, <1>3, ServerInvariant, ReloadUsesServer, PTL DEF Spec

-----------------------------------------------------------------------------
(* What is served in the end. *)

(* A reload is in SwapEngine exactly while it swaps, with a version of     *)
(* which there is an engine.                                               *)
SwapsBuilt ==
    \A r \in Swapper :
        /\ swap[r] # "out" => reload[r].at \in {"swap", "end"} /\ reload[r].version \in Builds
        /\ swap[r] \in {"lock", "remove", "register"} => reload[r].at = "swap"
        /\ reload[r].at = "swap" => swap[r] # "out"

(* Reloads come one after the other, and one that is past the removal of   *)
(* the old tools is served.                                                *)
OneByOne ==
    /\ \A r, q \in Swapper : Active(r) /\ Active(q) => r = q
    /\ \A r \in Swapper : reload[r].at = "swap" /\ swap[r] \in {"register", "done"} => engine = r

(* Before the first Stat nothing has happened. *)
Fresh ==
    watcher = "start" => /\ file.version = 0 /\ engine = First
                         /\ ~timer /\ \A r \in Swapper : ~Active(r)

(* Once the watcher has seen the last write and its timer has fired, what  *)
(* the file says is served or will be: by the one reload there is.         *)
Coming ==
    watcher = "poll" =>
        /\ lastMod <= file.mtime
        /\ lastMod = file.mtime /\ ~timer /\ file.there /\ file.version \in Builds =>
              /\ (\A r \in Swapper : ~Active(r)) => Served = file.version
              /\ \A r \in Swapper : reload[r].at \in {"build", "swap"} =>
                    reload[r].version = file.version

Calm == ~overlap /\ ~unseen
HotFacts == OneByOne /\ Fresh /\ Coming
HotInv == ServerInv /\ ReloadTypes /\ SwapsBuilt /\ (Calm => HotFacts)

LEMMA HotStart == Init => HotInv
<1> SUFFICES ASSUME Init PROVE HotInv
    OBVIOUS
<1>1. ServerInv /\ ReloadTypes
    BY InitServer, InitTypes DEF Init
<1>2. \A r \in Swapper : reload[r] = [at |-> "idle", version |-> 0] /\ swap[r] = "out"
    BY DEF Init, ServerInit
<1>3. \A r \in Swapper : reload[r].at = "idle"
    BY <1>2
<1>4. engine = First /\ file.version = 0 /\ watcher = "start" /\ ~timer
    BY DEF Init, ServerInit
<1> QED BY <1>1, <1>2, <1>3, <1>4
        DEF HotInv, SwapsBuilt, HotFacts, OneByOne, Fresh, Coming, Active

(* A reload that has not swapped is not served. *)
LEMMA ServedIsPlaced ==
    ASSUME ServerInv, NEW r \in Swapper, swap[r] \in {"out", "lock", "remove"}
    PROVE  engine # r
    BY DEF ServerInv, OffersInv, Placed

LEMMA HotServerSteps ==
    ASSUME HotInv, UNCHANGED reloadVars, ServerInv',
           \/ \E r \in Swapper : SwapStep(r)
           \/ UNCHANGED <<swap, engine>>
    PROVE  SwapsBuilt' /\ (Calm' => HotFacts')
<1> USE DEF HotInv, reloadVars
<1>0. swap \in [Swapper -> {"out", "lock", "remove", "register", "done"}]
    BY DEF ServerInv, ServerTypeOK
<1>1. CASE UNCHANGED <<swap, engine>>
    BY <1>1 DEF SwapsBuilt, Calm, HotFacts, OneByOne, Fresh, Coming, Active, Served
<1>2. ASSUME NEW r \in Swapper, SwapStep(r) PROVE SwapsBuilt' /\ (Calm' => HotFacts')
    <2>1. /\ swap[r] \in {"lock", "remove", "register"}
          /\ swap'[r] # "out" /\ \A q \in Swapper \ {r} : swap'[q] = swap[q]
          /\ swap'[r] \in {"register", "done"} => engine' = r
          /\ engine' = engine \/ (engine' = r /\ swap[r] = "remove")
        <3>1. CASE SwapLock(r)
            BY <1>0, <3>1 DEF SwapLock
        <3>2. CASE SwapRemove(r)
            BY <1>0, <3>2 DEF SwapRemove
        <3>3. CASE SwapReturn(r)
            BY <1>0, <3>3 DEF SwapReturn, ServerInv, OffersInv
        <3>4. ASSUME NEW n \in Tool, SwapAdd(r, n)
              PROVE  swap[r] = "register" /\ engine = r /\ swap' = swap /\ engine' = engine
            BY <3>4 DEF SwapAdd, ServerInv, OffersInv
        <3> QED BY <1>2, <3>1, <3>2, <3>3, <3>4 DEF SwapStep
    <2>2. reload[r].at = "swap" /\ reload[r].version \in Builds
        BY <2>1 DEF SwapsBuilt
    <2>3. SwapsBuilt'
        BY <2>1, <2>2 DEF SwapsBuilt
    <2>4. ASSUME Calm PROVE HotFacts'
        <3>1. HotFacts /\ Active(r)
            BY <2>2, <2>4 DEF Active
        <3>2. \A q \in Swapper : Active(q) => q = r
            BY <3>1 DEF HotFacts, OneByOne
        <3>3. OneByOne'
            BY <2>1, <3>1, <3>2 DEF HotFacts, OneByOne, Active
        <3>4. Fresh'
            BY <3>1 DEF HotFacts, Fresh, Active
        <3>5. Coming'
            BY <3>1 DEF HotFacts, Coming, Active
        <3> QED BY <3>3, <3>4, <3>5 DEF HotFacts
    <2> QED BY <2>3, <2>4 DEF Calm
<1> QED BY <1>1, <1>2

(* A reload goes on; the others stay where they are.                       *)
LEMMA MoveAt ==
    ASSUME ReloadTypes, NEW r \in Swapper, NEW at, reload' = [reload EXCEPT ![r].at = at]
    PROVE  /\ reload'[r].at = at /\ reload'[r].version = reload[r].version
           /\ \A q \in Swapper \ {r} : reload'[q] = reload[q]
    BY DEF ReloadTypes

LEMMA HotReloadSteps ==
    ASSUME HotInv, NEW r \in Swapper, ReloadStep(r), ServerInv', ReloadTypes'
    PROVE  SwapsBuilt' /\ (Calm' => HotFacts')
<1> USE DEF HotInv
<1>1. /\ reload[r].version \in Version /\ engine \in Engine
      /\ swap \in [Swapper -> {"out", "lock", "remove", "register", "done"}]
    BY DEF ReloadTypes, ServerInv, ServerTypeOK
<1>2. CASE Fire(r)
    <2>1. /\ timer /\ ~timer' /\ reload[r].at = "idle"
          /\ overlap' = (overlap \/ \E o \in Swapper : Active(o))
          /\ UNCHANGED <<serverVars, file, watcher, lastMod, unseen>>
        BY <1>2 DEF Fire
    <2>2. /\ reload'[r].at = "load" /\ reload'[r].version = reload[r].version
          /\ \A q \in Swapper \ {r} : reload'[q] = reload[q]
        BY <1>2, MoveAt DEF Fire
    <2>3. SwapsBuilt'
        BY <2>1, <2>2 DEF SwapsBuilt, serverVars
    <2>4. ASSUME Calm' PROVE HotFacts'
        <3>1. Calm /\ HotFacts /\ \A q \in Swapper : ~Active(q)
            BY <2>1, <2>4 DEF Calm, ReloadTypes
        <3>2. OneByOne'
            BY <2>1, <2>2, <3>1 DEF HotFacts, OneByOne, Active, serverVars
        <3>3. Fresh'
            BY <2>1, <2>2, <3>1 DEF HotFacts, Fresh
        <3>4. Coming'
            <4>1. Active(r)' /\ \A q \in Swapper : reload'[q].at \notin {"build", "swap"}
                BY <2>2, <3>1 DEF Active
            <4> QED BY <2>1, <3>1, <4>1 DEF HotFacts, Coming
        <3> QED BY <3>2, <3>3, <3>4 DEF HotFacts
    <2> QED BY <2>3, <2>4
<1>3. CASE Load(r)
    <2>1. /\ reload[r].at = "load" /\ Active(r)
          /\ UNCHANGED <<serverVars, file, watcher, lastMod, timer, overlap, unseen>>
        BY <1>3 DEF Load, Active
    <2>2. /\ \A q \in Swapper \ {r} : reload'[q] = reload[q]
          /\ \/ reload'[r].at = "build" /\ reload'[r].version = file.version
             \/ reload'[r].at = "end" /\ (~file.there \/ file.version \notin Builds)
        <3>1. CASE /\ file.there /\ file.version \in Loads
                   /\ reload' = [reload EXCEPT ![r] = [at |-> "build", version |-> file.version]]
            <4>1. reload' = [reload EXCEPT ![r] = [at |-> "build", version |-> file.version]]
                BY <3>1
            <4>2. /\ reload'[r].at = "build" /\ reload'[r].version = file.version
                  /\ \A q \in Swapper \ {r} : reload'[q] = reload[q]
                BY <4>1 DEF ReloadTypes
            <4> QED BY <4>2
        <3>2. CASE /\ ~file.there \/ file.version \notin Loads
                   /\ reload' = [reload EXCEPT ![r].at = "end"]
            <4>1. file.version \notin Builds \/ ~file.there
                BY <3>2, ReloadAssumption
            <4>2. reload' = [reload EXCEPT ![r].at = "end"]
                BY <3>2
            <4> QED BY <4>1, <4>2, MoveAt
        <3> QED BY <1>3, <3>1, <3>2 DEF Load
    <2>3. swap[r] = "out" /\ engine # r
        BY <1>1, <2>1, ServedIsPlaced DEF SwapsBuilt
    <2>4. SwapsBuilt'
        BY <2>1, <2>2, <2>3 DEF SwapsBuilt, serverVars
    <2>5. ASSUME Calm' PROVE HotFacts'
        <3>1. HotFacts /\ \A q \in Swapper : Active(q) => q = r
            BY <2>1, <2>5 DEF Calm, HotFacts, OneByOne
        <3>2. OneByOne'
            BY <2>1, <2>2, <3>1 DEF HotFacts, OneByOne, Active, serverVars
        <3>3. watcher # "start"
            BY <2>1, <3>1 DEF HotFacts, Fresh
        <3>4. Coming'
            <4>1. \A q \in Swapper \ {r} : reload'[q].at \notin {"build", "swap"}
                BY <2>2, <3>1 DEF Active
            <4>2. reload'[r].at = "build" => Active(r)'
                BY DEF Active
            <4> QED BY <2>1, <2>2, <3>1, <4>1, <4>2 DEF HotFacts, Coming
        <3> QED BY <2>1, <3>2, <3>3, <3>4 DEF HotFacts, Fresh
    <2> QED BY <2>4, <2>5
<1>4. CASE Build(r)
    <2>1. /\ reload[r].at = "build" /\ Active(r)
          /\ UNCHANGED <<file, watcher, lastMod, timer, overlap, unseen, engine>>
        BY <1>4 DEF Build, SwapCall, Active, serverVars
    <2>2. /\ \A q \in Swapper \ {r} : reload'[q] = reload[q] /\ swap'[q] = swap[q]
          /\ reload'[r].version = reload[r].version
          /\ \/ /\ reload'[r].at = "swap" /\ reload[r].version \in Builds
                /\ swap'[r] = "lock"
             \/ /\ reload'[r].at = "end" /\ reload[r].version \notin Builds
                /\ swap' = swap
        <3>1. CASE reload[r].version \in Builds
            <4>1. reload' = [reload EXCEPT ![r].at = "swap"] /\ swap' = [swap EXCEPT ![r] = "lock"]
                BY <1>4, <3>1 DEF Build, SwapCall
            <4> QED BY <1>1, <3>1, <4>1, MoveAt
        <3>2. CASE reload[r].version \notin Builds
            <4>1. reload' = [reload EXCEPT ![r].at = "end"] /\ swap' = swap
                BY <1>4, <3>2 DEF Build, serverVars
            <4> QED BY <3>2, <4>1, MoveAt
        <3> QED BY <3>1, <3>2
    <2>3. swap[r] = "out"
        BY <1>1, <2>1 DEF SwapsBuilt
    <2>4. SwapsBuilt'
        BY <2>1, <2>2, <2>3 DEF SwapsBuilt
    <2>5. ASSUME Calm' PROVE HotFacts'
        <3>1. HotFacts /\ \A q \in Swapper : Active(q) => q = r
            BY <2>1, <2>5 DEF Calm, HotFacts, OneByOne
        <3>2. OneByOne'
            BY <2>1, <2>2, <3>1 DEF HotFacts, OneByOne, Active
        <3>3. watcher # "start"
            BY <2>1, <3>1 DEF HotFacts, Fresh
        <3>4. Coming'
            <4>1. \A q \in Swapper \ {r} : reload'[q].at \notin {"build", "swap"}
                BY <2>2, <3>1 DEF Active
            <4>2. reload'[r].at = "swap" => Active(r)'
                BY DEF Active
            <4> QED BY <2>1, <2>2, <3>1, <4>1, <4>2 DEF HotFacts, Coming
        <3> QED BY <2>1, <3>2, <3>3, <3>4 DEF HotFacts, Fresh
    <2> QED BY <2>4, <2>5
<1>5. CASE Swapped(r)
    <2>1. /\ reload[r].at = "swap" /\ swap[r] = "done" /\ Active(r)
          /\ UNCHANGED <<serverVars, file, watcher, lastMod, timer, overlap, unseen>>
        BY <1>5 DEF Swapped, Active
    <2>2. /\ reload'[r].at = "end" /\ reload'[r].version = reload[r].version
          /\ \A q \in Swapper \ {r} : reload'[q] = reload[q]
        BY <1>5, MoveAt DEF Swapped
    <2>3. SwapsBuilt'
        BY <2>1, <2>2 DEF SwapsBuilt, serverVars
    <2>4. ASSUME Calm' PROVE HotFacts'
        <3>1. /\ HotFacts /\ \A q \in Swapper : Active(q) => q = r
              /\ engine = r
            BY <2>1, <2>4 DEF Calm, HotFacts, OneByOne
        <3>2. OneByOne'
            BY <2>1, <2>2, <3>1 DEF HotFacts, OneByOne, Active, serverVars
        <3>3. watcher # "start"
            BY <2>1, <3>1 DEF HotFacts, Fresh
        <3>4. Served' = reload[r].version
            BY <2>1, <2>2, <3>1, ServerAssumption DEF Served, serverVars
        <3>5. \A q \in Swapper : reload'[q].at \notin {"build", "swap"}
            BY <2>2, <3>1 DEF Active
        <3>6. Coming'
            BY <2>1, <3>1, <3>4, <3>5 DEF HotFacts, Coming
        <3> QED BY <2>1, <3>2, <3>3, <3>6 DEF HotFacts, Fresh
    <2> QED BY <2>3, <2>4
<1> QED BY <1>2, <1>3, <1>4, <1>5 DEF ReloadStep

LEMMA HotStep == HotInv /\ [Next]_vars => HotInv'
<1> SUFFICES ASSUME HotInv, [Next]_vars PROVE HotInv'
    OBVIOUS
<1>1. ServerInv' /\ ReloadTypes'
    BY StepServer, StepTypes, ReloadStepsServer DEF HotInv
<1>2. SUFFICES SwapsBuilt' /\ (Calm' => HotFacts')
    BY <1>1 DEF HotInv
<1>3. CASE UNCHANGED vars
    BY <1>1, <1>3, HotServerSteps DEF vars, serverVars
<1>4. ASSUME NEW there \in BOOLEAN, Change(there) PROVE SwapsBuilt' /\ (Calm' => HotFacts')
    <2>1. UNCHANGED <<serverVars, watcher, lastMod, timer, reload, overlap>>
        BY <1>4 DEF Change
    <2>2. SwapsBuilt'
        BY <2>1 DEF HotInv, SwapsBuilt, serverVars
    <2>3. ASSUME Calm' PROVE HotFacts'
        <3>1. PICK t \in {file.mtime, file.mtime + 1} :
                /\ file' = [version |-> writes', there |-> there, mtime |-> t]
                /\ unseen' = (unseen \/ watcher # "poll" \/ t = file.mtime)
            BY <1>4 DEF Change
        <3>2. /\ Calm /\ HotFacts /\ watcher = "poll" /\ t # file.mtime
            BY <2>1, <2>3, <3>1 DEF Calm, HotInv, ReloadTypes
        <3>3. /\ file.mtime \in Int /\ lastMod \in Int /\ file'.mtime = file.mtime + 1
            BY <3>1, <3>2, ReloadAssumption DEF HotInv, ReloadTypes
        <3>4. OneByOne' /\ Fresh'
            BY <2>1, <3>2 DEF HotFacts, OneByOne, Fresh, Active, serverVars
        <3>5. Coming'
            BY <2>1, <3>2, <3>3 DEF HotFacts, Coming
        <3> QED BY <3>4, <3>5 DEF HotFacts
    <2> QED BY <2>2, <2>3
<1>5. CASE FirstStat
    <2>1. /\ watcher = "start" /\ watcher' # "start"
          /\ watcher' = "poll" => lastMod' = file.mtime
          /\ UNCHANGED <<serverVars, file, timer, reload, overlap, unseen>>
        BY <1>5 DEF FirstStat
    <2>2. SwapsBuilt'
        BY <2>1 DEF HotInv, SwapsBuilt, serverVars
    <2>3. ASSUME Calm' PROVE HotFacts'
        <3>1. /\ HotFacts /\ file.version = 0 /\ engine = First
              /\ \A r \in Swapper : ~Active(r)
            BY <2>1, <2>3 DEF Calm, HotInv, HotFacts, Fresh
        <3>2. file.mtime \in Int
            BY ReloadAssumption DEF HotInv, ReloadTypes
        <3>3. OneByOne' /\ Fresh'
            BY <2>1, <3>1 DEF HotFacts, OneByOne, Fresh, Active, serverVars
        <3>4. Served' = file.version /\ \A r \in Swapper : reload'[r].at \notin {"build", "swap"}
            BY <2>1, <3>1 DEF Served, Active, serverVars
        <3>5. Coming'
            BY <2>1, <3>2, <3>4 DEF Coming
        <3> QED BY <3>3, <3>5 DEF HotFacts
    <2> QED BY <2>2, <2>3
<1>6. CASE Poll
    <2>1. /\ watcher = "poll" /\ lastMod' = file.mtime /\ timer'
          /\ UNCHANGED <<serverVars, file, watcher, reload, overlap, unseen>>
        BY <1>6 DEF Poll
    <2>2. SwapsBuilt'
        BY <2>1 DEF HotInv, SwapsBuilt, serverVars
    <2>3. file.mtime \in Int
        BY ReloadAssumption DEF HotInv, ReloadTypes
    <2>4. ASSUME Calm' PROVE HotFacts'
        BY <2>1, <2>3, <2>4 DEF Calm, HotInv, HotFacts, OneByOne, Fresh, Coming, Active, serverVars
    <2> QED BY <2>2, <2>4
<1>7. ASSUME NEW r \in Swapper, ReloadStep(r) PROVE SwapsBuilt' /\ (Calm' => HotFacts')
    BY <1>1, <1>7, HotReloadSteps
<1>8. CASE ServerStep
    <2>1. UNCHANGED reloadVars /\ ((\E r \in Swapper : SwapStep(r)) \/ UNCHANGED <<swap, engine>>)
        BY <1>8 DEF ServerStep, Call, CallStep, CallLoad, CallReturn
    <2> QED BY <1>1, <2>1, HotServerSteps
<1> QED BY <1>3, <1>4, <1>5, <1>6, <1>7, <1>8 DEF Next

LEMMA HotInvariant == Spec => []HotInv
<1>1. Init => HotInv
    BY HotStart
<1>2. HotInv /\ [Next]_vars => HotInv'
    BY HotStep
<1> QED BY <1>1, <1>2, PTL DEF Spec

-----------------------------------------------------------------------------
(* A configuration that does not load, or that makes no engine, is never   *)
(* served, however many reloads run at once.                               *)
THEOREM OnlyBuiltIsServed == Spec => []ServedBuilds
<1>1. HotInv => ServedBuilds
    <2> SUFFICES ASSUME HotInv PROVE Served \in Builds
        BY DEF ServedBuilds
    <2>1. engine \in Engine /\ Placed(engine)
        BY DEF HotInv, ServerInv, ServerTypeOK, OffersInv
    <2>2. CASE engine = First
        BY <2>2, ReloadAssumption DEF Served
    <2>3. CASE engine # First
        BY <2>1, <2>3 DEF Engine, Placed, HotInv, SwapsBuilt, Served
    <2> QED BY <2>2, <2>3
<1> QED BY <1>1, HotInvariant, PTL

(* Unless reloads overlapped or a write could not be seen, what is served  *)
(* once everything is quiet is what the file says.                         *)
THEOREM QuietServesFile == Spec => []QuietIsCurrent
<1>1. HotInv => QuietIsCurrent
    BY DEF HotInv, Calm, HotFacts, Coming, QuietIsCurrent
<1> QED BY <1>1, HotInvariant, PTL

-----------------------------------------------------------------------------
(* The pipelines that reloads leave behind.                                *)
WholeOf(p) == [urls |-> {Url[p.config]}, whole |-> TRUE]
PartOf(p) == [urls |-> {Url[p.config]}, whole |-> FALSE]

(* A pipeline that cleared the directory, and was not disturbed since,     *)
(* finds in it what it wrote and no more.                                  *)
Good(p, content) ==
    /\ p.pc = "clear" => p.way = "fetched"
    /\ p.pc \in {"open", "write"} => p.way \in {"fetched", "disturbed"}
    /\ p.way = "fetched" =>
          /\ p.pc = "open" => content = Nothing
          /\ p.pc = "write" => content = PartOf(p)
          /\ p.pc = "read" => content = WholeOf(p)
    /\ p.served = "fetched" => p.index = WholeOf(p)

PipesInv == PipesTypeOK /\ \A p \in DOMAIN pipe : Good(pipe[p], dir)

Disturbed(p) == IF p.pc \in {"open", "write", "read"} THEN [p EXCEPT !.way = "disturbed"] ELSE p

LEMMA MapSeq ==
    ASSUME NEW S, NEW n \in Nat, NEW f \in [1..n -> S]
    PROVE  f \in Seq(S) /\ Len(f) = n
    OBVIOUS

LEMMA UrlTypes ==
    ASSUME NEW c \in Config
    PROVE  Url[c] \in Urls /\ {Url[c]} \in SUBSET Urls
    BY DEF Urls

(* A step that changes one pipeline and leaves the directory.              *)
LEMMA AloneKeeps ==
    ASSUME PipesInv, NEW p \in DOMAIN pipe, NEW moved \in Pipe, Good(moved, dir),
           pipe' = Alone(p, moved), UNCHANGED <<dir, git>>
    PROVE  PipesInv'
<1>1. pipe \in Seq(Pipe) /\ p \in 1..Len(pipe)
    BY DEF PipesInv, PipesTypeOK
<1>2. /\ pipe' \in Seq(Pipe) /\ Len(pipe') = Len(pipe)
      /\ \A q \in 1..Len(pipe) : pipe'[q] = IF q = p THEN moved ELSE pipe[q]
    <2>1. pipe' = [pipe EXCEPT ![p] = moved]
        BY DEF Alone
    <2> HIDE DEF Pipe
    <2> QED BY <1>1, <2>1, ExceptSeq
<1>3. DOMAIN pipe' = 1..Len(pipe)
    BY <1>2
<1>4. PipesTypeOK'
    BY <1>2 DEF PipesInv, PipesTypeOK
<1>5. \A q \in DOMAIN pipe' : Good(pipe'[q], dir)
    BY <1>1, <1>2, <1>3 DEF PipesInv
<1>6. \A q \in DOMAIN pipe' : Good(pipe'[q], dir')
    BY <1>5, Zenon
<1> QED BY <1>4, <1>6, Zenon DEF PipesInv, Good, WholeOf, PartOf, Nothing

(* A step that changes the directory too.                                  *)
LEMMA DisturbingKeeps ==
    ASSUME PipesInv, NEW p \in DOMAIN pipe, NEW moved \in Pipe, NEW content \in Content,
           Sane(content), Good(moved, content),
           pipe' = Disturbing(p, moved), dir' = content, UNCHANGED git
    PROVE  PipesInv'
<1>1. pipe \in [1..Len(pipe) -> Pipe] /\ Len(pipe) \in Nat /\ p \in 1..Len(pipe)
    BY DEF PipesInv, PipesTypeOK
<1>2. pipe' = [q \in 1..Len(pipe) |-> IF q = p THEN moved ELSE Disturbed(pipe[q])]
    BY <1>1, Zenon DEF Disturbing, Disturbed
<1>3. ASSUME NEW q \in 1..Len(pipe) PROVE Disturbed(pipe[q]) \in Pipe
    BY <1>1, <1>3 DEF Disturbed, Pipe, Ways
<1>4. pipe' \in [1..Len(pipe) -> Pipe]
    BY <1>2, <1>3
<1>5. pipe' \in Seq(Pipe) /\ Len(pipe') = Len(pipe) /\ DOMAIN pipe' = 1..Len(pipe)
    BY <1>1, <1>4, MapSeq
<1>6. ASSUME NEW q \in 1..Len(pipe) PROVE Good(pipe'[q], content)
    <2>1. CASE q = p
        BY <1>2, <2>1
    <2>2. CASE q # p
        <3>1. pipe'[q] = Disturbed(pipe[q]) /\ pipe[q] \in Pipe
            BY <1>1, <1>2, <2>2
        <3>2. Good(pipe[q], dir)
            BY <1>1 DEF PipesInv
        <3> QED BY <3>1, <3>2 DEF Disturbed, Good, Pipe, WholeOf, PartOf
    <2> QED BY <2>1, <2>2
<1>7. PipesTypeOK'
    BY <1>5 DEF PipesInv, PipesTypeOK
<1>8. \A q \in DOMAIN pipe' : Good(pipe'[q], dir')
    BY <1>5, <1>6, Zenon
<1> QED BY <1>7, <1>8, Zenon DEF PipesInv, Good, WholeOf, PartOf, Nothing

(* What a round has become is a pipeline.                                  *)
LEMMA MovedType ==
    ASSUME PipesInv, NEW p \in DOMAIN pipe
    PROVE  /\ pipe[p] \in Pipe /\ Own(p) = Url[pipe[p].config] /\ Own(p) \in Urls
           /\ \A where \in {"look", "clear", "open", "write", "read", "idle"}, way \in Ways :
                  Moved(p, where, way) \in Pipe
           /\ \A docs \in Content, how \in Ways : Over(p, docs, how) \in Pipe
<1>1. pipe[p] \in Pipe
    BY DEF PipesInv, PipesTypeOK
<1>2. Own(p) = Url[pipe[p].config] /\ Own(p) \in Urls
    BY <1>1, UrlTypes DEF Own, Pipe
<1>3. ASSUME NEW where \in {"look", "clear", "open", "write", "read", "idle"}, NEW way \in Ways
      PROVE  Moved(p, where, way) \in Pipe
    BY <1>1 DEF Moved, Pipe
<1>4. ASSUME NEW docs \in Content, NEW how \in Ways PROVE Over(p, docs, how) \in Pipe
    BY <1>1 DEF Over, Moved, Pipe, Ways
<1> QED BY <1>1, <1>2, <1>3, <1>4

LEMMA NothingIs == Nothing \in Content /\ Sane(Nothing)
    BY DEF Nothing, Content, Sane

(* A round that is over is good if what it read is its own.                *)
LEMMA OverGood ==
    ASSUME PipesInv, NEW p \in DOMAIN pipe, NEW docs, NEW how, NEW content,
           how = "fetched" => docs = WholeOf(pipe[p])
    PROVE  Good(Over(p, docs, how), content)
<1>1. pipe[p] \in Pipe /\ Good(pipe[p], dir)
    BY DEF PipesInv, PipesTypeOK
<1> QED BY <1>1 DEF Over, Moved, Good, Pipe, WholeOf, PartOf

LEMMA NewKeeps ==
    ASSUME PipesInv, NEW c \in Config, New(c), UNCHANGED git
    PROVE  PipesInv'
<1>1. pipe \in [1..Len(pipe) -> Pipe] /\ Len(pipe) \in Nat
    BY DEF PipesInv, PipesTypeOK
<1> DEFINE fresh == Unserved([config |-> c, pc |-> "look", way |-> "none"])
           stale == [q \in 1..Len(pipe) |-> Unserved(pipe[q])]
<1>2. fresh \in Pipe
    BY NothingIs DEF Unserved, Pipe, Ways
<1>3. stale \in [1..Len(pipe) -> Pipe]
    BY <1>1, NothingIs DEF Unserved, Pipe, Ways
<1>4. stale \in Seq(Pipe) /\ Len(stale) = Len(pipe)
    BY <1>1, <1>3, MapSeq
<1>5. pipe' = Append(stale, fresh)
    BY <1>1 DEF New
<1>6. /\ pipe' \in Seq(Pipe) /\ Len(pipe') = Len(pipe) + 1
      /\ \A q \in 1..Len(pipe) : pipe'[q] = stale[q]
      /\ pipe'[Len(pipe) + 1] = fresh
    <2> HIDE DEF fresh, stale, Pipe
    <2> QED BY <1>2, <1>4, <1>5, AppendProperties
<1>7. ASSUME NEW q \in 1..Len(pipe) PROVE Good(stale[q], dir)
    <2>1. pipe[q] \in Pipe /\ Good(pipe[q], dir) /\ stale[q] = Unserved(pipe[q])
        BY <1>1 DEF PipesInv
    <2> QED BY <2>1 DEF Unserved, Good, WholeOf, PartOf, Pipe
<1>8. Good(fresh, dir)
    BY DEF Unserved, Good
<1>9. \A q \in DOMAIN pipe' : Good(pipe'[q], dir)
    <2> HIDE DEF fresh, stale, Pipe, Good
    <2>1. \A q \in DOMAIN pipe' : q \in 1..Len(pipe) \/ q = Len(pipe) + 1
        BY <1>1, <1>6
    <2> QED BY <2>1, <1>6, <1>7, <1>8
<1>10. \A q \in DOMAIN pipe' : Good(pipe'[q], dir')
    BY <1>9, Zenon DEF New
<1>11. PipesTypeOK'
    BY <1>1, <1>6, ReloadPipelinesAssumption DEF PipesInv, PipesTypeOK, New
<1> QED BY <1>10, <1>11, Zenon DEF PipesInv, Good, WholeOf, PartOf, Nothing

LEMMA StepKeeps ==
    ASSUME PipesInv, NEW p \in DOMAIN pipe, Step(p), UNCHANGED git
    PROVE  PipesInv'
<1> DEFINE own == [urls |-> dir.urls \cup {Own(p)}, whole |-> FALSE]
<1>1. /\ pipe[p] \in Pipe /\ Good(pipe[p], dir) /\ dir \in Content /\ Sane(dir)
      /\ Own(p) = Url[pipe[p].config] /\ Own(p) \in Urls
    BY MovedType DEF PipesInv, PipesTypeOK
<1>2. own \in Content /\ Sane(own)
    BY <1>1 DEF Content, Sane
<1>3. \A content : Good(Failed(p), content)
    BY OverGood DEF Failed
<1>4. Failed(p) \in Pipe
    BY MovedType, NothingIs DEF Failed, Ways
<1>5. CASE Look(p)
    <2> DEFINE moved == IF Keeps(p) THEN Moved(p, "read", "kept") ELSE Moved(p, "clear", "fetched")
    <2>1. moved \in Pipe
        BY MovedType DEF Ways
    <2>2. Good(moved, dir)
        BY <1>1 DEF Good, Moved, WholeOf, PartOf, Pipe
    <2> QED BY <1>5, <2>1, <2>2, AloneKeeps DEF Look
<1>6. CASE Clear(p)
    <2>1. Moved(p, "open", "fetched") \in Pipe
        BY MovedType DEF Ways
    <2>2. Good(Moved(p, "open", "fetched"), Nothing)
        BY <1>1 DEF Good, Moved, WholeOf, PartOf, Pipe
    <2> QED BY <1>6, <2>1, <2>2, NothingIs, DisturbingKeeps DEF Clear
<1>7. CASE Open(p)
    <2>1. CASE git /\ dir # Nothing
        BY <1>3, <1>4, <1>7, <2>1, AloneKeeps DEF Open
    <2>2. CASE ~(git /\ dir # Nothing)
        <3>1. pipe[p].way \in {"fetched", "disturbed"} /\ pipe[p].pc = "open"
            BY <1>1, <1>7 DEF Open, At, Good
        <3>2. Moved(p, "write", pipe[p].way) \in Pipe
            BY <3>1, MovedType DEF Ways
        <3>3. Good(Moved(p, "write", pipe[p].way), own)
            <4>1. CASE pipe[p].way = "fetched"
                <5>1. dir = Nothing
                    BY <1>1, <3>1, <4>1 DEF Good
                <5>2. dir.urls \cup {Own(p)} = {Own(p)}
                    BY <5>1 DEF Nothing
                <5>3. own = PartOf(pipe[p])
                    BY <1>1, <5>2 DEF PartOf
                <5> DEFINE moved == Moved(p, "write", pipe[p].way)
                <5>4. /\ moved.pc = "write" /\ moved.config = pipe[p].config
                      /\ moved.served = pipe[p].served /\ moved.index = pipe[p].index
                    BY <1>1 DEF Moved, Pipe
                <5>5. own = PartOf(moved) /\ WholeOf(moved) = WholeOf(pipe[p])
                    BY <5>3, <5>4 DEF PartOf, WholeOf
                <5>6. moved.way = "fetched"
                    BY <1>1, <4>1 DEF Moved, Pipe
                <5> HIDE DEF own, moved
                <5>7. Good(moved, own)
                    BY <1>1, <5>4, <5>5, <5>6 DEF Good
                <5> QED BY <5>7 DEF moved
            <4>2. CASE pipe[p].way = "disturbed"
                <5> HIDE DEF own
                <5> QED BY <1>1, <4>2 DEF Good, Moved, WholeOf, PartOf, Pipe
            <4> QED BY <3>1, <4>1, <4>2
        <3>4. dir' = own /\ pipe' = Disturbing(p, Moved(p, "write", pipe[p].way))
            BY <1>7, <2>2 DEF Open
        <3> QED BY <1>2, <3>2, <3>3, <3>4, DisturbingKeeps
    <2> QED BY <2>1, <2>2
<1>8. CASE NoAnswer(p)
    BY <1>3, <1>4, <1>8, AloneKeeps DEF NoAnswer
<1>9. CASE Finish(p)
    <2>1. pipe[p].way \in {"fetched", "disturbed"} /\ pipe[p].pc = "write"
        BY <1>1, <1>9 DEF Finish, At, Good
    <2>2. Moved(p, "read", pipe[p].way) \in Pipe
        BY <2>1, MovedType DEF Ways
    <2>3. pipe' = Disturbing(p, Moved(p, "read", pipe[p].way))
        BY <1>9 DEF Finish
    <2>4. dir' \in Content /\ Sane(dir') /\ Good(Moved(p, "read", pipe[p].way), dir')
        <3>1. CASE pipe[p].way = "disturbed"
            <4>1. dir' \in {Nothing, own}
                BY <1>9, <3>1 DEF Finish
            <4>2. \A content : Good(Moved(p, "read", pipe[p].way), content)
                BY <1>1, <3>1 DEF Good, Moved, WholeOf, PartOf, Pipe
            <4> QED BY <1>2, <4>1, <4>2, NothingIs
        <3>2. CASE pipe[p].way = "fetched"
            <4>1. dir = PartOf(pipe[p])
                BY <1>1, <2>1, <3>2 DEF Good
            <4>2. dir' = WholeOf(pipe[p])
                BY <1>9, <3>2, <4>1 DEF Finish, PartOf, WholeOf
            <4>3. WholeOf(pipe[p]) \in Content /\ Sane(WholeOf(pipe[p]))
                BY <1>1 DEF WholeOf, Content, Sane
            <4>4. Good(Moved(p, "read", pipe[p].way), WholeOf(pipe[p]))
                BY <1>1 DEF Good, Moved, WholeOf, PartOf, Pipe
            <4> QED BY <4>2, <4>3, <4>4
        <3> QED BY <2>1, <3>1, <3>2
    <2> QED BY <2>2, <2>3, <2>4, DisturbingKeeps
<1>10. CASE BreakOff(p)
    <2>1. dir' \in Content /\ Sane(dir')
        BY <1>1, <1>10, NothingIs DEF BreakOff
    <2> QED BY <1>3, <1>4, <1>10, <2>1, DisturbingKeeps DEF BreakOff
<1>11. CASE Read(p)
    <2>1. pipe[p].way = "fetched" => dir = WholeOf(pipe[p])
        BY <1>1, <1>11 DEF Read, At, Good
    <2>2. Over(p, dir, pipe[p].way) \in Pipe
        BY <1>1, MovedType DEF Pipe
    <2>3. Good(Over(p, dir, pipe[p].way), dir)
        BY <2>1, OverGood
    <2> QED BY <1>11, <2>2, <2>3, AloneKeeps DEF Read
<1>12. CASE ClearFails(p)
    <2> DEFINE part == [dir EXCEPT !.whole = FALSE]
    <2>1. part \in Content /\ Sane(part)
        BY <1>1 DEF Content, Sane
    <2>2. CASE pipe' = Alone(p, Failed(p)) /\ UNCHANGED dir
        BY <1>3, <1>4, <2>2, AloneKeeps
    <2>3. CASE pipe' = Disturbing(p, Failed(p)) /\ dir' = part
        <3> HIDE DEF part
        <3> QED BY <1>3, <1>4, <2>1, <2>3, DisturbingKeeps
    <2> QED BY <1>12, <2>2, <2>3, Zenon DEF ClearFails
<1>13. CASE Tick(p)
    <2>1. Moved(p, "look", "none") \in Pipe
        BY MovedType DEF Ways
    <2>2. Good(Moved(p, "look", "none"), dir)
        BY <1>1 DEF Good, Moved, WholeOf, PartOf, Pipe
    <2> QED BY <1>13, <2>1, <2>2, AloneKeeps DEF Tick
<1> QED BY <1>5, <1>6, <1>7, <1>8, <1>9, <1>10, <1>11, <1>12, <1>13 DEF Step

LEMMA PipesInvariant == PipesSpec => []PipesInv
<1>1. PipesInit => PipesInv
    <2> SUFFICES ASSUME PipesInit PROVE PipesInv
        OBVIOUS
    <2>1. dir \in Content /\ Sane(dir)
        <3>1. dir \in Left
            BY DEF PipesInit
        <3>2. dir \in [urls : SUBSET {Url[c] : c \in Config}, whole : BOOLEAN]
            BY <3>1, ReloadPipelinesAssumption
        <3>3. ASSUME dir.whole PROVE \E u \in Urls : dir.urls = {u}
            BY <3>1, <3>3, ReloadPipelinesAssumption DEF Urls
        <3> QED BY <3>2, <3>3 DEF Content, Sane, Urls
    <2>2. pipe = <<>> /\ pipe \in Seq(Pipe) /\ Len(pipe) = 0 /\ DOMAIN pipe = {}
        BY DEF PipesInit
    <2> QED BY <2>1, <2>2, ReloadPipelinesAssumption DEF PipesInit, PipesInv, PipesTypeOK
<1>2. PipesInv /\ [PipesNext]_pipeVars => PipesInv'
    <2> SUFFICES ASSUME PipesInv, [PipesNext]_pipeVars PROVE PipesInv'
        OBVIOUS
    <2>1. CASE UNCHANGED pipeVars
        BY <2>1 DEF pipeVars, PipesInv, PipesTypeOK, Sane, Good, WholeOf, PartOf
    <2>2. CASE PipesNext
        BY <2>2, NewKeeps, StepKeeps DEF PipesNext
    <2> QED BY <2>1, <2>2
<1> QED BY <1>1, <1>2, PTL DEF PipesSpec

-----------------------------------------------------------------------------
(* Every variable has its type, and a directory that is whole comes from   *)
(* one URL.                                                                *)
THEOREM PipesTyped == PipesSpec => []PipesTypeOK
<1>1. PipesInv => PipesTypeOK
    BY DEF PipesInv
<1> QED BY <1>1, PipesInvariant, PTL

(* However many engines were made and go on refreshing, an index filled by *)
(* a round that fetched, undisturbed, holds all of the source that its own *)
(* configuration names, and nothing of another.                            *)
THEOREM FetchedIsOwn == PipesSpec => []ServesOwn
<1>1. PipesInv => ServesOwn
    <2> SUFFICES ASSUME PipesInv, NEW p \in {Len(pipe)} \ {0}, pipe[p].served = "fetched"
                 PROVE  pipe[p].index = [urls |-> {Own(p)}, whole |-> TRUE]
        BY DEF ServesOwn
    <2>1. p \in DOMAIN pipe
        BY DEF PipesInv, PipesTypeOK
    <2> QED BY <2>1 DEF PipesInv, Good, WholeOf, Own
<1> QED BY <1>1, PipesInvariant, PTL
=============================================================================
