--------------------------- MODULE ReloadPipelines ---------------------------
(***************************************************************************)
(* The pipelines that reloads leave behind.  Every tools.New starts one on *)
(* the context of the process, and its refresh loop never ends, although   *)
(* only the newest engine is served.  All of them keep a source of one     *)
(* name in one directory, whatever its URL is in their configuration.      *)
(*                                                                         *)
(* One remote source is followed, whose directory is seen as the URLs its  *)
(* files come from.  The two rounds of one pipeline do not overlap here:   *)
(* what comes of that is in SourcePipeline, and which of the reloads that  *)
(* race serves in the end is in HotReload.                                 *)
(***************************************************************************)
EXTENDS Integers, Sequences

CONSTANTS
    Config,     \* the configurations that the file holds one after the other
    Url,        \* Url[c]: of the source in configuration c
    Policy,     \* Policy[c]: its pull policy
    Sync,       \* configurations with a syncInterval
    Flaky,      \* URLs whose origin may not answer or break off, or whose
                \* pipelines' disk may refuse to remove the directory
    Left,       \* what earlier processes may have left in the directory
    MaxEngines  \* bound: engines made by one process

ASSUME ReloadPipelinesAssumption ==
    /\ DOMAIN Url = Config
    /\ Policy \in [Config -> {"always", "ifNotPresent", "never"}]
    /\ Sync \subseteq Config
    /\ Left \subseteq [urls : SUBSET {Url[c] : c \in Config}, whole : BOOLEAN]
    /\ \A left \in Left : left.whole => \E c \in Config : left.urls = {Url[c]}
    /\ MaxEngines \in Nat \ {0}

VARIABLES
    git,   \* whether the source is a git repository; if not, an archive
    dir,   \* the URLs its files may come from, and whether it is all of one
    pipe   \* pipe[p]: the p-th pipeline started; the engine of the last is served

pipeVars == <<git, dir, pipe>>

Urls == {Url[c] : c \in Config}
Content == [urls : SUBSET Urls, whole : BOOLEAN]
Sane(content) == content.whole => \E u \in Urls : content.urls = {u}
Nothing == [urls |-> {}, whole |-> FALSE]

(* A pipeline: where its round is; how the round came by what it reads,    *)
(* with "disturbed" when another pipeline has changed the directory since  *)
(* this one cleared it; the index it serves and how the round that filled  *)
(* it came by that.  Both rounds end with an index of what was read: the   *)
(* initial one merges into an empty index, a refresh swaps in a fresh one. *)
(* The index of an engine that was replaced is of no interest.             *)
Ways == {"none", "kept", "fetched", "disturbed"}
Pipe == [config : Config, pc : {"look", "clear", "open", "write", "read", "idle"},
         way : Ways, index : Content, served : Ways]

Unserved(p) ==
    [config |-> p.config, pc |-> p.pc, way |-> p.way, index |-> Nothing, served |-> "none"]

Own(p) == Url[pipe[p].config]
At(p, where) == p \in DOMAIN pipe /\ pipe[p].pc = where

PipesInit ==
    /\ git \in BOOLEAN
    /\ dir \in Left
    /\ pipe = <<>>

(* serve, and then each reload, makes an engine, which calls Build. *)
New(c) ==
    /\ Len(pipe) < MaxEngines
    /\ pipe' = Append([q \in DOMAIN pipe |-> Unserved(pipe[q])],
                      Unserved([config |-> c, pc |-> "look", way |-> "none"]))
    /\ UNCHANGED dir

-----------------------------------------------------------------------------
(* processEntry.  A step that changes the directory disturbs the others    *)
(* that are between clearing and reading it.  A round that is over has an  *)
(* index of what it read, which is nothing if the fetch failed.            *)
Moved(p, where, way) == [pipe[p] EXCEPT !.pc = where, !.way = way]
Over(p, docs, how) ==
    IF p < Len(pipe) THEN Moved(p, "idle", "none")
    ELSE [Moved(p, "idle", "none") EXCEPT !.index = docs, !.served = how]
Failed(p) == Over(p, Nothing, "none")
Alone(p, moved) == [pipe EXCEPT ![p] = moved]
Disturbing(p, moved) ==
    [q \in DOMAIN pipe |->
        IF q = p THEN moved
        ELSE IF pipe[q].pc \in {"open", "write", "read"}
             THEN [pipe[q] EXCEPT !.way = "disturbed"] ELSE pipe[q]]

(* skipFetch *)
Keeps(p) ==
    \/ Policy[pipe[p].config] = "never"
    \/ Policy[pipe[p].config] = "ifNotPresent" /\ dir # Nothing

Look(p) ==
    /\ At(p, "look")
    /\ pipe' = Alone(p, IF Keeps(p) THEN Moved(p, "read", "kept") ELSE Moved(p, "clear", "fetched"))
    /\ UNCHANGED dir

(* Mutant: the new content is written over what there is. *)
ClearNot(p) ==
    /\ At(p, "clear")
    /\ pipe' = Disturbing(p, Moved(p, "open", "fetched"))
    /\ UNCHANGED dir

(* RemoveAll *)
Clear(p) ==
    /\ At(p, "clear")
    /\ dir' = Nothing
    /\ pipe' = Disturbing(p, Moved(p, "open", "fetched"))

(* It fails, with nothing or part of the directory gone: the disk refuses, *)
(* or another pipeline adds to the directory meanwhile.                    *)
ClearFails(p) ==
    /\ At(p, "clear") /\ dir # Nothing
    /\ Own(p) \in Flaky \/ \E q \in DOMAIN pipe : At(q, "write")
    /\ \/ pipe' = Alone(p, Failed(p)) /\ UNCHANGED dir
       \/ /\ pipe' = Disturbing(p, Failed(p))
          /\ dir' = [dir EXCEPT !.whole = FALSE]

(* The origin answers and the directory is made; git refuses one that has  *)
(* something in it.                                                        *)
Open(p) ==
    /\ At(p, "open")
    /\ IF git /\ dir # Nothing
       THEN pipe' = Alone(p, Failed(p)) /\ UNCHANGED dir
       ELSE /\ dir' = [urls |-> dir.urls \cup {Own(p)}, whole |-> FALSE]
            /\ pipe' = Disturbing(p, Moved(p, "write", pipe[p].way))

NoAnswer(p) ==
    /\ At(p, "open") /\ Own(p) \in Flaky
    /\ pipe' = Alone(p, Failed(p))
    /\ UNCHANGED dir

(* Everything is written: a directory that was disturbed may be gone, or   *)
(* hold parts of all that was written to it.                               *)
Finish(p) ==
    /\ At(p, "write")
    /\ IF pipe[p].way = "disturbed"
       THEN dir' \in {Nothing, [urls |-> dir.urls \cup {Own(p)}, whole |-> FALSE]}
       ELSE dir' = [dir EXCEPT !.whole = TRUE]
    /\ pipe' = Disturbing(p, Moved(p, "read", pipe[p].way))

(* The transfer breaks off, or what was written is gone: git removes its   *)
(* clone.                                                                  *)
BreakOff(p) ==
    /\ At(p, "write") /\ (Own(p) \in Flaky \/ pipe[p].way = "disturbed")
    /\ dir' = IF git THEN Nothing ELSE dir
    /\ pipe' = Disturbing(p, Failed(p))

(* Mutant: what is read is merged into the index that is served. *)
ReadMerging(p) ==
    /\ At(p, "read")
    /\ pipe' = Alone(p, Over(p, [dir EXCEPT !.urls = @ \cup pipe[p].index.urls], pipe[p].way))
    /\ UNCHANGED dir

Read(p) ==
    /\ At(p, "read")
    /\ pipe' = Alone(p, Over(p, dir, pipe[p].way))
    /\ UNCHANGED dir

(* refreshLoop: nothing ends it before the process does. *)
Tick(p) ==
    /\ At(p, "idle") /\ pipe[p].config \in Sync
    /\ pipe' = Alone(p, Moved(p, "look", "none"))
    /\ UNCHANGED dir

Step(p) ==
    \/ Look(p) \/ Clear(p) \/ ClearFails(p) \/ Open(p) \/ NoAnswer(p) \/ Finish(p)
    \/ BreakOff(p) \/ Read(p) \/ Tick(p)

PipesNext ==
    /\ (\E c \in Config : New(c)) \/ (\E p \in DOMAIN pipe : Step(p))
    /\ UNCHANGED git

(* Goroutines run on, requests end and intervals elapse; nothing makes the *)
(* user edit the configuration.                                            *)
PipesFairness == \A p \in 1..MaxEngines : WF_pipeVars(Step(p) /\ UNCHANGED git)

PipesSpec == PipesInit /\ [][PipesNext]_pipeVars /\ PipesFairness

-----------------------------------------------------------------------------
(* Every variable has its type, and what is whole comes from one URL. *)
PipesTypeOK ==
    /\ git \in BOOLEAN /\ dir \in Content /\ Sane(dir)
    /\ pipe \in Seq(Pipe) /\ Len(pipe) <= MaxEngines

(* processEntry and GitSource.Fetch, HTTPSource.Fetch: an index holds      *)
(* content of another URL than its configuration's, or only part of it,    *)
(* only if the round that filled it kept what it found, or another         *)
(* pipeline changed the directory while it was being written.              *)
ServesOwn ==
    \A p \in {Len(pipe)} \ {0} : pipe[p].served = "fetched" =>
        pipe[p].index = [urls |-> {Own(p)}, whole |-> TRUE]

(* No pipeline but the served one still writes the directory. *)
Undisputed ==
    /\ pipe # <<>>
    /\ \A p \in 1..(Len(pipe) - 1) : pipe[p].config \in Sync => Policy[pipe[p].config] = "never"

(* refreshLoop, Build: when the source of the newest configuration is      *)
(* always fetched and its origin answers, what is served in the end is     *)
(* that configuration's content and stays so, whatever directory or rounds *)
(* were left by the configurations before, unless one of those refreshes.  *)
SettlesOnOwn ==
    <>[](LET p == Len(pipe)
             c == pipe[p].config
         IN  Undisputed /\ c \in Sync /\ Policy[c] = "always" /\ Own(p) \notin Flaky =>
                pipe[p].index = [urls |-> {Own(p)}, whole |-> TRUE])
=============================================================================
