------------------------------ MODULE HotReload ------------------------------
(***************************************************************************)
(* pkg/cmd/serve.go with --watch: Run loads the configuration, builds an   *)
(* engine, makes a server of it and starts watchConfig, which polls the    *)
(* modification time of the file; a change sets a debounce timer whose     *)
(* function, reload, loads the file, builds an engine and swaps it into    *)
(* the ToolServer.  Each reload is a goroutine of its own: stopping the    *)
(* timer does not stop a reload that has begun.                            *)
(*                                                                         *)
(* The n-th write of the file gives it version n.                          *)
(***************************************************************************)
EXTENDS ToolServer, Integers

CONSTANTS
    Version,     \* 0..MaxWrites
    CoarseClock, \* whether two writes may get the same modification time
    MaxWrites,   \* bound: times the file is written or removed
    Loads,       \* versions that parse and validate
    Builds,      \* those of which tools.New makes an engine
    ToolsIn      \* ToolsIn[v]: the tools version v configures

ASSUME ReloadAssumption ==
    /\ CoarseClock \in BOOLEAN /\ MaxWrites \in Nat /\ Version = 0..MaxWrites
    /\ Builds \subseteq Loads /\ Loads \subseteq Version
    /\ 0 \in Builds /\ ToolsIn \in [Version -> SUBSET Tool]
    /\ FirstTools = ToolsIn[0]

VARIABLES
    file,      \* its version, whether it is there, its modification time
    writes,    \* how often it was written or removed
    watcher,   \* "start" until its first Stat, then "poll", or "gone"
    lastMod,   \* the modification time the watcher knows
    timer,     \* whether the debounce timer is set
    reload,    \* reload[r]: where reload r is and the version it has loaded
    overlap,   \* two reloads have run at the same time
    unseen     \* a write did not advance the time, or came before "poll"

reloadVars == <<file, writes, watcher, lastMod, timer, reload, overlap, unseen>>
vars == <<serverVars, reloadVars>>

(* Run has loaded version 0, built its engine and made the server. *)
Init ==
    /\ ServerInit
    /\ file = [version |-> 0, there |-> TRUE, mtime |-> 0]
    /\ writes = 0
    /\ watcher = "start" /\ lastMod = 0 /\ timer = FALSE
    /\ reload = [r \in Swapper |-> [at |-> "idle", version |-> 0]]
    /\ overlap = FALSE /\ unseen = FALSE

-----------------------------------------------------------------------------
(* Someone writes or removes the file. *)
Change(there) ==
    /\ writes < MaxWrites
    /\ writes' = writes + 1
    /\ \E t \in {file.mtime, file.mtime + 1} :
          /\ CoarseClock \/ t > file.mtime
          /\ file' = [version |-> writes', there |-> there, mtime |-> t]
          /\ unseen' = (unseen \/ watcher # "poll" \/ t = file.mtime)
    /\ UNCHANGED <<serverVars, watcher, lastMod, timer, reload, overlap>>

(* Mutant: the error of the first Stat is ignored, the time stays unset. *)
FirstStatIgnored ==
    /\ watcher = "start"
    /\ watcher' = "poll"
    /\ lastMod' = IF file.there THEN file.mtime ELSE -1
    /\ UNCHANGED <<serverVars, file, writes, timer, reload, overlap, unseen>>

(* watchConfig. *)
FirstStat ==
    /\ watcher = "start"
    /\ IF file.there
         THEN watcher' = "poll" /\ lastMod' = file.mtime
         ELSE watcher' = "gone" /\ UNCHANGED lastMod
    /\ UNCHANGED <<serverVars, file, writes, timer, reload, overlap, unseen>>

(* Mutant: the timer is set for the first change only. *)
PollOnce ==
    /\ watcher = "poll"
    /\ file.there /\ file.mtime > lastMod
    /\ lastMod' = file.mtime
    /\ timer' = (timer \/ \A r \in Swapper : reload[r].at = "idle")
    /\ UNCHANGED <<serverVars, file, writes, watcher, reload, overlap, unseen>>

(* A poll that sees a newer time; any other changes nothing. *)
Poll ==
    /\ watcher = "poll"
    /\ file.there /\ file.mtime > lastMod
    /\ lastMod' = file.mtime
    /\ timer' = TRUE
    /\ UNCHANGED <<serverVars, file, writes, watcher, reload, overlap, unseen>>

(* The timer fires: its function runs in a goroutine of its own. *)
Active(r) == reload[r].at \notin {"idle", "end"}

Fire(r) ==
    /\ timer
    /\ reload[r].at = "idle"
    /\ timer' = FALSE
    /\ reload' = [reload EXCEPT ![r].at = "load"]
    /\ overlap' = (overlap \/ \E o \in Swapper : Active(o))
    /\ UNCHANGED <<serverVars, file, writes, watcher, lastMod, unseen>>

(* LoadConfig and LoadCredentials. *)
Load(r) ==
    /\ reload[r].at = "load"
    /\ \/ /\ file.there /\ file.version \in Loads
          /\ reload' = [reload EXCEPT ![r] = [at |-> "build", version |-> file.version]]
       \/ /\ ~file.there \/ file.version \notin Loads
          /\ reload' = [reload EXCEPT ![r].at = "end"]
    /\ UNCHANGED <<serverVars, file, writes, watcher, lastMod, timer, overlap, unseen>>

(* Mutant: the error of tools.New is ignored. *)
BuildUnchecked(r) ==
    /\ reload[r].at = "build"
    /\ SwapCall(r, ToolsIn[reload[r].version])
    /\ reload' = [reload EXCEPT ![r].at = "swap"]
    /\ UNCHANGED <<file, writes, watcher, lastMod, timer, overlap, unseen>>

(* tools.New, and the call of SwapEngine. *)
Build(r) ==
    /\ reload[r].at = "build"
    /\ IF reload[r].version \in Builds
         THEN /\ SwapCall(r, ToolsIn[reload[r].version])
              /\ reload' = [reload EXCEPT ![r].at = "swap"]
         ELSE /\ reload' = [reload EXCEPT ![r].at = "end"]
              /\ UNCHANGED serverVars
    /\ UNCHANGED <<file, writes, watcher, lastMod, timer, overlap, unseen>>

Swapped(r) ==
    /\ reload[r].at = "swap" /\ swap[r] = "done"
    /\ reload' = [reload EXCEPT ![r].at = "end"]
    /\ UNCHANGED <<serverVars, file, writes, watcher, lastMod, timer, overlap, unseen>>

-----------------------------------------------------------------------------
ReloadStep(r) == Fire(r) \/ Load(r) \/ Build(r) \/ Swapped(r)

ServerStep ==
    /\ \/ \E r \in Swapper : SwapStep(r)
       \/ \E c \in Caller, n \in Tool : Call(c, n)
       \/ \E c \in Caller : CallStep(c)
    /\ UNCHANGED reloadVars

Next ==
    \/ \E there \in BOOLEAN : Change(there)
    \/ FirstStat \/ Poll
    \/ \E r \in Swapper : ReloadStep(r)
    \/ ServerStep

(* The ticker ticks, timers fire and goroutines run on; nobody has to edit *)
(* the file or to call a tool.                                             *)
Fairness ==
    /\ WF_vars(FirstStat) /\ WF_vars(Poll)
    /\ \A r \in Swapper : WF_vars(ReloadStep(r)) /\ WF_vars(SwapStep(r) /\ UNCHANGED reloadVars)
    /\ \A c \in Caller : WF_vars(CallStep(c) /\ UNCHANGED reloadVars)

Spec == Init /\ [][Next]_vars
FairSpec == Spec /\ Fairness

-----------------------------------------------------------------------------
(* Every variable of the server and of the watcher has its type. *)
TypeOK ==
    /\ ServerTypeOK
    /\ file \in [version : Version, there : BOOLEAN, mtime : Version]
    /\ writes \in Version
    /\ watcher \in {"start", "poll", "gone"}
    /\ lastMod \in Version /\ timer \in BOOLEAN
    /\ reload \in [Swapper ->
          [at : {"idle", "load", "build", "swap", "end"}, version : Version]]
    /\ overlap \in BOOLEAN /\ unseen \in BOOLEAN

Served == IF engine = First THEN 0 ELSE reload[engine].version

(* A configuration that does not load, or of which no engine can be built, *)
(* is never served: the previous engine is kept.                           *)
ServedBuilds == Served \in Builds

(* When the watcher is up to date and no reload is left, what is served is *)
(* what the file says, if that is usable: unless reloads overlapped, a     *)
(* write did not advance the modification time or came before the first    *)
(* Stat.                                                                   *)
QuietIsCurrent ==
    /\ watcher = "poll" /\ lastMod = file.mtime /\ ~timer
    /\ \A r \in Swapper : ~Active(r)
    /\ ~overlap /\ ~unseen
    /\ file.there /\ file.version \in Builds
    => Served = file.version

(* A change the watcher can see ends in a reload that is over: nothing     *)
(* keeps the new configuration waiting for ever.                           *)
Settles ==
    watcher = "poll" /\ file.there /\ file.mtime > lastMod ~>
        \/ ~file.there
        \/ lastMod = file.mtime /\ ~timer /\ \A r \in Swapper : ~Active(r)

(* What the flag promises: "Watch config file and hot-reload on change." A *)
(* configuration that stays in the file and makes an engine gets served.   *)
HotReloads ==
    \A v \in Builds :
        file.there /\ file.version = v ~> Served = v \/ ~file.there \/ file.version # v
=============================================================================
