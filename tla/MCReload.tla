------------------------------ MODULE MCReload ------------------------------
(* What a reload does to the server and what it leaves running: in each    *)
(* behaviour either the configuration is edited, watched and reloaded      *)
(* while a client calls tools, or pipelines of several engines share the   *)
(* directory of a source.                                                  *)
(* The pipelines have three configurations of one source, which the file   *)
(* holds in any order and any number of times: one with a URL that may not *)
(* answer, which keeps what is there; one with another URL, which fetches  *)
(* always and refreshes; one that never fetches, but refreshes.            *)
EXTENDS MCHotReload, ReloadPipelines

MCConfig == {"first", "synced", "frozen"}
MCUrl == [c \in MCConfig |-> IF c = "synced" THEN "b" ELSE "a"]
MCPolicy == [c \in MCConfig |->
    CASE c = "first" -> "ifNotPresent" [] c = "synced" -> "always" [] OTHER -> "never"]
MCSync == {"synced", "frozen"}
MCFlaky == {"a"}
MCLeft == {[urls |-> {}, whole |-> FALSE], [urls |-> {"a"}, whole |-> TRUE],
           [urls |-> {"a", "b"}, whole |-> FALSE]}

-----------------------------------------------------------------------------
WatchIdle ==
    /\ mu = NoOne /\ engine = First /\ registered = {}
    /\ offered = [n \in Tool |-> NoOne] /\ toolsOf = [e \in Engine |-> {}]
    /\ swap = [r \in Swapper |-> "out"] /\ call = [c \in Caller |-> Idle]
    /\ file = [version |-> 0, there |-> FALSE, mtime |-> 0] /\ writes = MaxWrites
    /\ watcher = "gone" /\ lastMod = 0 /\ timer = FALSE
    /\ reload = [r \in Swapper |-> [at |-> "idle", version |-> 0]]
    /\ overlap = FALSE /\ unseen = FALSE
PipesIdle ==
    /\ git = FALSE /\ dir = Nothing
    /\ pipe = [p \in 1..MaxEngines |->
          Unserved([config |-> "first", pc |-> "idle", way |-> "none"])]

ReloadInit == (Init /\ PipesIdle) \/ (WatchIdle /\ PipesInit)
ReloadNext ==
    \/ Next /\ UNCHANGED pipeVars
    \/ PipesNext /\ UNCHANGED vars

ReloadSpec ==
    ReloadInit /\ [][ReloadNext]_<<vars, pipeVars>> /\ Fairness /\ PipesFairness
=============================================================================
