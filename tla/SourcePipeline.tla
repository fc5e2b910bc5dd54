--------------------------- MODULE SourcePipeline ---------------------------
(***************************************************************************)
(* internal/project/project.go and the Fetch and Read of the source kinds: *)
(* what a mcpsmithy process does with its configured sources.  "serve"     *)
(* fetches and indexes every source in one initial round and, with a sync  *)
(* interval, in refresh rounds that each build a fresh index and swap it   *)
(* in; "sources pull" only fetches.  Fetched content is kept in            *)
(* directories that outlive the process.                                   *)
(*                                                                         *)
(* A directory is seen as absent, partial (some of the content, or a mix)  *)
(* or whole.  Index.Merge and Index.Search are atomic here: that is what   *)
(* module SearchIndex shows.                                               *)
(***************************************************************************)
EXTENDS Integers, FiniteSets

CONSTANTS
    Source,       \* the entries sourceEntries makes of the configuration
    Kind,         \* Kind[s] \in {"local", "git", "http", "scrape"}
    Policy,       \* Policy[s]: the pull policy, resolved
    NoIndex,      \* sources with index: false
    SemSize,      \* workers of a round that may run at once (4)
    SyncInterval, \* whether syncInterval > 0
    CwdIsRoot,    \* whether the process runs in the directory of its config
    Hang,         \* sources whose fetch may never return: git has no timeout
    MaxStarts,    \* bound: times the program is started
    MaxRefresh    \* bound: refresh rounds of one process

ASSUME PipelineAssumption ==
    /\ IsFiniteSet(Source)
    /\ Kind \in [Source -> {"local", "git", "http", "scrape"}]
    /\ Policy \in [Source -> {"always", "ifNotPresent", "never"}]
    /\ NoIndex \subseteq Source /\ Hang \subseteq Source
    /\ SemSize \in Nat \ {0}
    /\ SyncInterval \in BOOLEAN /\ CwdIsRoot \in BOOLEAN
    /\ MaxStarts \in Nat /\ MaxRefresh \in Nat

VARIABLES
    mode,       \* "down", or the command that runs: "serve" or "pull"
    starts,     \* processes started so far
    disk,       \* disk[d][s]: what directory d holds of s
    pc,         \* pc[l][s]: where the worker of s in round l is
    work,       \* work[l][s]: its locals
    index,      \* index[g]: the entries merged into the g-th index made
    live,       \* the index that searches read (LiveIndex.ptr)
    fresh,      \* the index the refresh round builds
    done,       \* the channel Build returned is closed
    overlapped  \* a refresh has begun while the initial round still ran

vars == <<mode, starts, disk, pc, work, index, live, fresh, done, overlapped>>

Lane == {"initial", "refresh"}
Remote == {s \in Source : Kind[s] # "local"}

(* Build's base is ".mcpsmithy" in the working directory; refreshLoop's is *)
(* the same name under the project root.                                   *)
Place == {"cwd", "root"}
Base(l) == IF l = "refresh" \/ CwdIsRoot THEN "root" ELSE "cwd"

(* The prefix every path read from a fetched source gets: its directory as *)
(* the base spells it, so relative only in the initial round.              *)
Prefix(l, s) == IF s \in Remote /\ l = "refresh" THEN "absolute" ELSE "relative"

Dir == {"absent", "partial", "whole"}
Entry == [source : Source, round : Lane, docs : Dir, path : {"relative", "absolute"}]

(* The locals of a worker: whether the other round has meddled with the    *)
(* directory it is writing, what it has read, where to it will merge.      *)
Work == [torn : BOOLEAN, docs : Dir, into : 0..MaxRefresh]
NoWork == [torn |-> FALSE, docs |-> "absent", into |-> 0]

(* Where a worker can be while it holds a slot, and its possible ends: a   *)
(* source that is not read was fetched or was kept as it is; "nothing" is  *)
(* also that its directory could not be read.                              *)
Running == {"clear", "open", "write", "read", "merge"}
Ended == {"indexed", "nothing", "fetched", "kept", "fetchError"}

AllIdle == [l \in Lane |-> [s \in Source |-> "idle"]]
NoWorks == [l \in Lane |-> [s \in Source |-> NoWork]]
NoIndexes == [g \in 0..MaxRefresh |-> {}]

Init ==
    /\ mode = "down" /\ starts = 0
    /\ disk = [d \in Place |-> [s \in Source |-> "absent"]]
    /\ pc = AllIdle /\ work = NoWorks
    /\ index = NoIndexes /\ live = 0 /\ fresh = 0
    /\ done = FALSE /\ overlapped = FALSE

-----------------------------------------------------------------------------
(* ServeCmd.Run and SourcesPullCmd.Run call Build, which spawns a worker   *)
(* for every source.                                                       *)
Build(m) ==
    /\ mode = "down"
    /\ starts < MaxStarts
    /\ mode' = m
    /\ starts' = starts + 1
    /\ pc' = [pc EXCEPT !["initial"] = [s \in Source |-> "wait"]]
    /\ UNCHANGED <<disk, work, index, live, fresh, done, overlapped>>

(* The process ends, in the middle of anything: every round and index is   *)
(* gone, the directories stay as they are.                                 *)
Exit ==
    /\ mode # "down"
    /\ mode' = "down"
    /\ pc' = AllIdle /\ work' = NoWorks
    /\ index' = NoIndexes /\ live' = 0 /\ fresh' = 0
    /\ done' = FALSE /\ overlapped' = FALSE
    /\ UNCHANGED <<starts, disk>>

-----------------------------------------------------------------------------
(* processEntry, for source s in round l. *)
At(l, s, where) == mode # "down" /\ pc[l][s] = where
Goto(l, s, where) == pc' = [pc EXCEPT ![l][s] = where]
Found(l, s) == disk[Base(l)][s]
Store(l, s, content) == disk' = [disk EXCEPT ![Base(l)][s] = content]

(* Mutants: the directory is not looked at; the policy is not looked at. *)
SkipFetchBlind(l, s) == Kind[s] = "local" \/ Policy[s] = "never"
SkipFetchPresent(l, s) == Kind[s] = "local" \/ Found(l, s) # "absent"

(* skipFetch; a local source's Fetch does nothing. *)
SkipFetch(l, s) ==
    \/ Kind[s] = "local"
    \/ Policy[s] = "never"
    \/ Policy[s] = "ifNotPresent" /\ Found(l, s) # "absent"

(* After Fetch: nothing is read for a pull or a source with index: false.  *)
Fetched(s, end) == IF mode = "pull" \/ s \in NoIndex THEN end ELSE "read"

(* Mutant: a worker whose fetch failed keeps its slot. *)
BusyLeaked(l) == {s \in Source : pc[l][s] \in Running \cup {"fetchError"}}

Busy(l) == {s \in Source : pc[l][s] \in Running}

(* The worker gets a slot of the semaphore and looks at the directory. *)
Begin(l, s) ==
    /\ At(l, s, "wait")
    /\ Cardinality(Busy(l)) < SemSize
    /\ Goto(l, s, IF SkipFetch(l, s) THEN Fetched(s, "kept") ELSE "clear")
    /\ UNCHANGED <<mode, starts, disk, work, index, live, fresh, done, overlapped>>

(* The other round's worker of s may be writing the same directory;        *)
(* whatever this one does there tears what that one is writing.            *)
Other(l) == IF l = "initial" THEN "refresh" ELSE "initial"
Contended(l, s) == Base(Other(l)) = Base(l) /\ pc[Other(l)][s] = "write"
Tear(l, s, w) == [w EXCEPT ![Other(l)][s].torn = @ \/ Contended(l, s)]

Writing(l, s) == [torn |-> Contended(l, s), docs |-> "absent", into |-> 0]

(* RemoveAll of the directory; it may fail with part of it gone. *)
Clear(l, s) ==
    /\ At(l, s, "clear")
    /\ \/ Store(l, s, "absent") /\ Goto(l, s, "open")
       \/ /\ Found(l, s) # "absent"
          /\ \E left \in {"partial", Found(l, s)} : Store(l, s, left)
          /\ Goto(l, s, "fetchError")
    /\ work' = Tear(l, s, work)
    /\ UNCHANGED <<mode, starts, index, live, fresh, done, overlapped>>

(* The origin answers and the directory is made, or it does not answer;    *)
(* git refuses a directory that has something in it.                       *)
Open(l, s) ==
    /\ At(l, s, "open")
    /\ \/ /\ Kind[s] = "git" => Found(l, s) = "absent"
          /\ Store(l, s, "partial")
          /\ work' = Tear(l, s, [work EXCEPT ![l][s] = Writing(l, s)])
          /\ Goto(l, s, "write")
       \/ Goto(l, s, "fetchError") /\ UNCHANGED <<disk, work>>
    /\ UNCHANGED <<mode, starts, index, live, fresh, done, overlapped>>

(* Everything is written.  A scrape skips the pages it cannot fetch and    *)
(* still succeeds; a torn directory holds whatever the two rounds left.    *)
Finish(l, s) ==
    /\ At(l, s, "write")
    /\ \/ ~work[l][s].torn /\ Store(l, s, "whole")
       \/ work[l][s].torn /\ Store(l, s, "partial")
       \/ (work[l][s].torn \/ Kind[s] = "scrape") /\ UNCHANGED disk
    /\ Goto(l, s, Fetched(s, "fetched"))
    /\ work' = [work EXCEPT ![l][s] = NoWork]
    /\ UNCHANGED <<mode, starts, index, live, fresh, done, overlapped>>

(* The transfer breaks off: git removes its clone, the others leave what   *)
(* they have written.                                                      *)
Fail(l, s) ==
    /\ At(l, s, "write")
    /\ IF Kind[s] = "git" THEN Store(l, s, "absent") ELSE UNCHANGED disk
    /\ Goto(l, s, "fetchError")
    /\ work' = Tear(l, s, [work EXCEPT ![l][s] = NoWork])
    /\ UNCHANGED <<mode, starts, index, live, fresh, done, overlapped>>

(* Mutants: a refresh works on the live index; or on one never swapped in. *)
TargetLive(l) == live
TargetNext(l) == IF l = "initial" THEN live ELSE fresh + 1

(* Read the files that match, and, unless there are none, load the index   *)
(* pointer of the round's manager: the live one or the fresh one.  docs is *)
(* what the directory was; a file of it that cannot be read is skipped.    *)
(* The code chunks the documents before it loads the pointer.  That is one *)
(* step here, taken when the pointer is loaded: what happens in between    *)
(* can make a difference to docs only if the other round has the directory *)
(* too, and no property speaks of docs once rounds have overlapped.        *)
Target(l) == IF l = "initial" THEN live ELSE fresh
HasRead(l, docs) == [torn |-> FALSE, docs |-> docs, into |-> Target(l)]

Read(l, s) ==
    /\ At(l, s, "read")
    /\ LET docs == IF s \in Remote THEN Found(l, s) ELSE "whole"
       IN  \/ /\ docs # "absent"
              /\ work' = [work EXCEPT ![l][s] = HasRead(l, docs)]
              /\ Goto(l, s, "merge")
           \/ Goto(l, s, "nothing") /\ UNCHANGED work
    /\ UNCHANGED <<mode, starts, disk, index, live, fresh, done, overlapped>>

Merge(l, s) ==
    /\ At(l, s, "merge")
    /\ index' = [index EXCEPT ![work[l][s].into] = @ \cup
          {[source |-> s, round |-> l, docs |-> work[l][s].docs, path |-> Prefix(l, s)]}]
    /\ Goto(l, s, "indexed")
    /\ work' = [work EXCEPT ![l][s] = NoWork]
    /\ UNCHANGED <<mode, starts, disk, live, fresh, done, overlapped>>

-----------------------------------------------------------------------------
(* processSources waits for the workers of a round. *)
AllEnded(l) == \A s \in Source : pc[l][s] \in Ended

(* Mutant: the workers are not waited for. *)
CloseEarly ==
    /\ mode # "down" /\ ~done
    /\ done' = TRUE
    /\ UNCHANGED <<mode, starts, disk, pc, work, index, live, fresh, overlapped>>

Close ==
    /\ mode # "down" /\ ~done
    /\ AllEnded("initial")
    /\ done' = TRUE
    /\ UNCHANGED <<mode, starts, disk, pc, work, index, live, fresh, overlapped>>

(* The ticker of refreshLoop fires; it is read only between rounds. *)
Tick ==
    /\ mode = "serve" /\ SyncInterval /\ Source # {}
    /\ fresh = live /\ fresh < MaxRefresh
    /\ fresh' = fresh + 1
    /\ pc' = [pc EXCEPT !["refresh"] = [s \in Source |-> "wait"]]
    /\ overlapped' = (overlapped \/ ~done)
    /\ UNCHANGED <<mode, starts, disk, work, index, live, done>>

Swap ==
    /\ mode = "serve" /\ fresh # live
    /\ AllEnded("refresh")
    /\ live' = fresh
    /\ pc' = [pc EXCEPT !["refresh"] = [s \in Source |-> "idle"]]
    /\ UNCHANGED <<mode, starts, disk, work, index, fresh, done, overlapped>>

-----------------------------------------------------------------------------
Transfer(l, s) == Open(l, s) \/ Finish(l, s) \/ Fail(l, s)
Step(l, s) == Begin(l, s) \/ Clear(l, s) \/ Read(l, s) \/ Merge(l, s)

Next ==
    \/ \E m \in {"serve", "pull"} : Build(m)
    \/ Exit
    \/ \E l \in Lane, s \in Source : Step(l, s) \/ Transfer(l, s)
    \/ Close \/ Tick \/ Swap

(* Nothing makes the user start a command, a process exit or the interval  *)
(* elapse.  Goroutines run on, and a transfer ends, well or badly, unless  *)
(* its source may hang: HTTP requests time out.                            *)
Fairness ==
    /\ \A l \in Lane, s \in Source : WF_vars(Step(l, s))
    /\ \A l \in Lane, s \in Source \ Hang : WF_vars(Transfer(l, s))
    /\ WF_vars(Close) /\ WF_vars(Swap)

Spec == Init /\ [][Next]_vars
FairSpec == Spec /\ Fairness

-----------------------------------------------------------------------------
(* Every variable has its type. *)
TypeOK ==
    /\ mode \in {"down", "serve", "pull"} /\ starts \in 0..MaxStarts
    /\ disk \in [Place -> [Source -> Dir]]
    /\ pc \in [Lane -> [Source -> {"idle", "wait"} \cup Running \cup Ended]]
    /\ work \in [Lane -> [Source -> Work]]
    /\ index \in [0..MaxRefresh -> SUBSET Entry]
    /\ live \in 0..MaxRefresh /\ fresh \in 0..MaxRefresh
    /\ done \in BOOLEAN /\ overlapped \in BOOLEAN

(* The index searches read is final: once the initial round is over, what  *)
(* is served changes only by the swap of a refresh round, never by a       *)
(* worker of one, and a swap brings in everything that round's workers     *)
(* read, with nothing left to merge.                                       *)
ServedChangesBySwap ==
    [][mode # "down" /\ mode' = mode /\ done =>
          \/ live' = live /\ index'[live] = index[live]
          \/ /\ live' = fresh
             /\ \A s \in Source : pc["refresh"][s] = "indexed" =>
                   \E e \in index'[live'] : e.source = s /\ e.round = "refresh"
             /\ \A s \in Source : pc["refresh"][s] # "merge"
      ]_vars

(* When the channel Build returned closes and no refresh has replaced the  *)
(* index yet, a search can find every source whose worker read something.  *)
DoneMeansServed ==
    done /\ live = 0 => \A s \in Source :
        /\ pc["initial"][s] # "merge"
        /\ pc["initial"][s] = "indexed" => \E e \in index[0] : e.source = s

(* Rounds that do not overlap merge a source at most once into an index,   *)
(* and only into the index they build.                                     *)
OncePerIndex ==
    ~overlapped => \A g \in 0..MaxRefresh : \A e, f \in index[g] :
        /\ e.source = f.source => e = f
        /\ e.round = IF g = 0 THEN "initial" ELSE "refresh"

(* Whole content on disk is never removed or overwritten for a source      *)
(* whose policy is not always, as long as rounds do not overlap.           *)
CachedContentKept ==
    [][\A d \in Place, s \in Source :
          ~overlapped /\ Policy[s] # "always" /\ disk[d][s] = "whole"
              => disk'[d][s] = disk[d][s]]_vars

(* A source that is always fetched heals: whatever an earlier process that *)
(* was killed, or an earlier round that failed, left on disk, what gets    *)
(* indexed is read from a whole directory.                                 *)
AlwaysIndexesWhole ==
    ~overlapped => \A g \in 0..MaxRefresh : \A e \in index[g] :
        Policy[e.source] = "always" /\ Kind[e.source] # "scrape" => e.docs = "whole"

(* A fetch that hangs holds only its own slot: with fewer of them than     *)
(* slots every other source's worker ends.                                 *)
OthersEnd ==
    \A s \in Source \ Hang :
        mode # "down" ~> mode = "down" \/ pc["initial"][s] \in Ended

(* Every refresh round ends in a swap, unless one of its fetches hangs. *)
RefreshEnds ==
    mode # "down" /\ fresh # live ~>
        \/ mode = "down" \/ fresh = live
        \/ \E s \in Hang : pc["refresh"][s] \in {"open", "write"}

-----------------------------------------------------------------------------
(* What the documentation says and the code does not do. *)

(* docs/development/architecture.md:85, "sources pull always re-fetches    *)
(* all sources regardless of policy".                                      *)
PullRefetches ==
    mode = "pull" /\ done => \A s \in Remote : pc["initial"][s] # "kept"

(* internal/search/chunk.go:12, "Source is the file path relative to the   *)
(* project root", of every chunk a search can return.                      *)
PathsRelative == \A e \in index[live] : e.path = "relative"

(* docs/development/architecture.md:64, "Local sources and conventions are *)
(* available sub-10 ms; remote sources enrich the source index as they     *)
(* complete": a local source does not wait for remote ones.                *)
LocalsServed ==
    \A s \in Source \ Remote :
        mode = "serve" ~> mode = "down" \/ pc["initial"][s] \in Ended
=============================================================================
