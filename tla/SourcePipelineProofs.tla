------------------------ MODULE SourcePipelineProofs -------------------------
(***************************************************************************)
(* Theorems about SourcePipeline, for any set of sources, kinds, policies, *)
(* number of slots and number of rounds.  First what each single step      *)
(* keeps: the types, and what is served; then what rounds that do not      *)
(* overlap do for each other.                                              *)
(***************************************************************************)
EXTENDS SourcePipeline, TLAPS

-----------------------------------------------------------------------------
(* Every step is one of these, with its process, source and round named. *)
LEMMA NextCases ==
    ASSUME Next
    PROVE  \/ \E m \in {"serve", "pull"} : Build(m)
           \/ Exit \/ Close \/ Tick \/ Swap
           \/ \E l \in Lane, s \in Source :
                 \/ Begin(l, s) \/ Clear(l, s) \/ Read(l, s) \/ Merge(l, s)
                 \/ Open(l, s) \/ Finish(l, s) \/ Fail(l, s)
BY DEF Next, Step, Transfer

LEMMA InitTypeOK == Init => TypeOK
<1> SUFFICES ASSUME Init PROVE TypeOK
    OBVIOUS
<1> USE PipelineAssumption
<1>1. NoWork \in Work
    BY DEF NoWork, Work, Dir
<1>2. work \in [Lane -> [Source -> Work]]
    BY <1>1 DEF Init, NoWorks
<1>3. pc \in [Lane -> [Source -> {"idle", "wait"} \cup Running \cup Ended]]
    BY DEF Init, AllIdle
<1>4. index \in [0..MaxRefresh -> SUBSET Entry]
    BY DEF Init, NoIndexes
<1>5. disk \in [Place -> [Source -> Dir]]
    BY DEF Init, Dir
<1>6. 0 \in 0..MaxStarts /\ 0 \in 0..MaxRefresh
    OBVIOUS
<1> QED BY <1>2, <1>3, <1>4, <1>5, <1>6, Zenon DEF Init, TypeOK

(* What a worker does to its directory and to the locals of workers. *)
LEMMA StoreType ==
    ASSUME TypeOK, NEW l \in Lane, NEW s \in Source, NEW c \in Dir, Store(l, s, c)
    PROVE  disk' \in [Place -> [Source -> Dir]]
<1>1. Base(l) \in Place
    BY DEF Base, Place
<1>2. disk[Base(l)] \in [Source -> Dir]
    BY <1>1 DEF TypeOK
<1> QED BY <1>1, <1>2 DEF TypeOK, Store

LEMMA FoundType ==
    ASSUME TypeOK, NEW l \in Lane, NEW s \in Source
    PROVE  Found(l, s) \in Dir
<1>1. Base(l) \in Place
    BY DEF Base, Place
<1> QED BY <1>1 DEF TypeOK, Found

LEMMA TearType ==
    ASSUME NEW l \in Lane, NEW s \in Source, NEW w \in [Lane -> [Source -> Work]]
    PROVE  Tear(l, s, w) \in [Lane -> [Source -> Work]]
<1>1. Other(l) \in Lane
    BY DEF Other, Lane
<1>2. w[Other(l)] \in [Source -> Work] /\ w[Other(l)][s] \in Work
    BY <1>1
<1> DEFINE torn == w[Other(l)][s].torn \/ Contended(l, s)
<1>3. torn \in BOOLEAN
    OBVIOUS
<1>4. [w[Other(l)][s] EXCEPT !.torn = torn] \in Work
    BY <1>2, <1>3 DEF Work
<1>5. Tear(l, s, w) = [w EXCEPT ![Other(l)][s].torn = torn]
    BY DEF Tear
<1> HIDE DEF torn
<1> QED BY <1>1, <1>2, <1>3, <1>4, <1>5 DEF Work

LEMMA NoWorkType == NoWork \in Work
BY PipelineAssumption DEF NoWork, Work, Dir

LEMMA WritingType ==
    ASSUME NEW l \in Lane, NEW s \in Source
    PROVE  Writing(l, s) \in Work
<1>1. Contended(l, s) \in BOOLEAN
    BY DEF Contended
<1> QED BY <1>1, PipelineAssumption DEF Writing, Work, Dir

LEMMA HasReadType ==
    ASSUME TypeOK, NEW l \in Lane, NEW docs \in Dir
    PROVE  HasRead(l, docs) \in Work
BY DEF HasRead, Target, TypeOK, Work

(* The worker of s in round l goes on, and no other worker does. *)
Where == {"idle", "wait"} \cup Running \cup Ended

LEMMA GotoType ==
    ASSUME TypeOK, NEW l \in Lane, NEW s \in Source, NEW w \in Where, Goto(l, s, w)
    PROVE  pc' \in [Lane -> [Source -> Where]]
BY DEF TypeOK, Goto, Where

LEMMA WorkType ==
    ASSUME TypeOK, NEW l \in Lane, NEW s \in Source, NEW w \in Work
    PROVE  [work EXCEPT ![l][s] = w] \in [Lane -> [Source -> Work]]
BY DEF TypeOK

-----------------------------------------------------------------------------
(* A step keeps the type of every variable. *)
LEMMA StepTypeOK == TypeOK /\ [Next]_vars => TypeOK'
<1> SUFFICES ASSUME TypeOK, [Next]_vars PROVE TypeOK'
    OBVIOUS
<1> USE PipelineAssumption
<1>1. CASE UNCHANGED vars
    BY <1>1 DEF TypeOK, vars
<1>2. ASSUME NEW m \in {"serve", "pull"}, Build(m) PROVE TypeOK'
    BY <1>2 DEF Build, TypeOK, Lane
<1>3. CASE Exit
    <2>1. work' \in [Lane -> [Source -> Work]]
        BY <1>3, NoWorkType DEF Exit, NoWorks
    <2>2. pc' \in [Lane -> [Source -> {"idle", "wait"} \cup Running \cup Ended]]
        BY <1>3 DEF Exit, AllIdle
    <2>3. index' \in [0..MaxRefresh -> SUBSET Entry]
        BY <1>3 DEF Exit, NoIndexes
    <2>4. 0 \in 0..MaxRefresh
        OBVIOUS
    <2> QED BY <1>3, <2>1, <2>2, <2>3, <2>4, Zenon DEF Exit, TypeOK
<1>4. CASE Close
    BY <1>4 DEF Close, TypeOK
<1>5. CASE Tick
    BY <1>5 DEF Tick, TypeOK, Lane
<1>6. CASE Swap
    BY <1>6 DEF Swap, TypeOK, Lane
<1>7. ASSUME NEW l \in Lane, NEW s \in Source, Begin(l, s) PROVE TypeOK'
    <2>1. pc' \in [Lane -> [Source -> Where]]
        BY <1>7, GotoType DEF Begin, Fetched, Where, Running, Ended
    <2> QED BY <1>7, <2>1 DEF Begin, TypeOK, Where
<1>8. ASSUME NEW l \in Lane, NEW s \in Source, Clear(l, s) PROVE TypeOK'
    <2>1. pc' \in [Lane -> [Source -> Where]]
        BY <1>8, GotoType DEF Clear, Where, Running, Ended
    <2>2. disk' \in [Place -> [Source -> Dir]]
        BY <1>8, StoreType, FoundType DEF Clear, Dir
    <2>3. work' \in [Lane -> [Source -> Work]]
        BY <1>8, TearType DEF Clear, TypeOK
    <2> QED BY <1>8, <2>1, <2>2, <2>3 DEF Clear, TypeOK, Where
<1>9. ASSUME NEW l \in Lane, NEW s \in Source, Open(l, s) PROVE TypeOK'
    <2>1. pc' \in [Lane -> [Source -> Where]]
        BY <1>9, GotoType DEF Open, Where, Running, Ended
    <2>2. disk' \in [Place -> [Source -> Dir]]
        BY <1>9, StoreType DEF Open, TypeOK, Dir
    <2>3. work' \in [Lane -> [Source -> Work]]
        <3>1. [work EXCEPT ![l][s] = Writing(l, s)] \in [Lane -> [Source -> Work]]
            BY WritingType, WorkType
        <3>2. \/ work' = Tear(l, s, [work EXCEPT ![l][s] = Writing(l, s)])
              \/ work' = work
            BY <1>9 DEF Open
        <3>3. CASE work' = Tear(l, s, [work EXCEPT ![l][s] = Writing(l, s)])
            BY <3>1, <3>3, TearType
        <3>4. CASE work' = work
            BY <3>4 DEF TypeOK
        <3> QED BY <3>2, <3>3, <3>4
    <2> QED BY <1>9, <2>1, <2>2, <2>3 DEF Open, TypeOK, Where
<1>10. ASSUME NEW l \in Lane, NEW s \in Source, Finish(l, s) PROVE TypeOK'
    <2>1. pc' \in [Lane -> [Source -> Where]]
        BY <1>10, GotoType DEF Finish, Fetched, Where, Running, Ended
    <2>2. disk' \in [Place -> [Source -> Dir]]
        BY <1>10, StoreType DEF Finish, TypeOK, Dir
    <2>3. work' \in [Lane -> [Source -> Work]]
        BY <1>10, NoWorkType, WorkType DEF Finish
    <2> QED BY <1>10, <2>1, <2>2, <2>3 DEF Finish, TypeOK, Where
<1>11. ASSUME NEW l \in Lane, NEW s \in Source, Fail(l, s) PROVE TypeOK'
    <2>1. pc' \in [Lane -> [Source -> Where]]
        BY <1>11, GotoType DEF Fail, Where, Running, Ended
    <2>2. disk' \in [Place -> [Source -> Dir]]
        BY <1>11, StoreType DEF Fail, TypeOK, Dir
    <2>3. work' \in [Lane -> [Source -> Work]]
        <3>1. [work EXCEPT ![l][s] = NoWork] \in [Lane -> [Source -> Work]]
            BY NoWorkType, WorkType
        <3> QED BY <1>11, <3>1, TearType DEF Fail
    <2> QED BY <1>11, <2>1, <2>2, <2>3 DEF Fail, TypeOK, Where
<1>12. ASSUME NEW l \in Lane, NEW s \in Source, Read(l, s) PROVE TypeOK'
    <2>1. pc' \in [Lane -> [Source -> Where]]
        BY <1>12, GotoType DEF Read, Where, Running, Ended
    <2>2. work' \in [Lane -> [Source -> Work]]
        <3>1. \A docs \in Dir : [work EXCEPT ![l][s] = HasRead(l, docs)]
                                  \in [Lane -> [Source -> Work]]
            BY HasReadType, WorkType
        <3> QED BY <1>12, <3>1, FoundType DEF Read, TypeOK, Dir
    <2> QED BY <1>12, <2>1, <2>2 DEF Read, TypeOK, Where
<1>13. ASSUME NEW l \in Lane, NEW s \in Source, Merge(l, s) PROVE TypeOK'
    <2>1. pc' \in [Lane -> [Source -> Where]]
        BY <1>13, GotoType DEF Merge, Where, Running, Ended
    <2>2. work' \in [Lane -> [Source -> Work]]
        BY <1>13, NoWorkType, WorkType DEF Merge
    <2>3. work[l][s] \in Work
        BY DEF TypeOK
    <2>4. [source |-> s, round |-> l, docs |-> work[l][s].docs, path |-> Prefix(l, s)] \in Entry
        BY <2>3 DEF Entry, Work, Prefix
    <2>5. index' \in [0..MaxRefresh -> SUBSET Entry]
        BY <1>13, <2>4 DEF Merge, TypeOK
    <2> QED BY <1>13, <2>1, <2>2, <2>5 DEF Merge, TypeOK, Where
<1> QED BY <1>1, <1>2, <1>3, <1>4, <1>5, <1>6, <1>7, <1>8, <1>9, <1>10, <1>11, <1>12,
           <1>13, NextCases

(* TypeOK holds in every reachable state. *)
THEOREM TypeCorrect == Spec => []TypeOK
<1>1. Init => TypeOK
    BY InitTypeOK
<1>2. TypeOK /\ [Next]_vars => TypeOK'
    BY StepTypeOK
<1> QED BY <1>1, <1>2, PTL DEF Spec
-----------------------------------------------------------------------------
(* Why what is served is final.  A process that is down has no rounds; a   *)
(* round between two refreshes has no workers; a worker merges into the    *)
(* index of its round, and has merged when it says so.                     *)
DownIsClean ==
    mode = "down" => /\ pc = AllIdle /\ index = NoIndexes
                     /\ live = 0 /\ fresh = 0 /\ ~done /\ ~overlapped

RoundsInOrder ==
    /\ live <= fresh
    /\ done => AllEnded("initial")
    /\ fresh = live => \A s \in Source : pc["refresh"][s] = "idle"

MergesHome ==
    \A s \in Source :
        /\ pc["refresh"][s] = "merge" => work["refresh"][s].into = fresh
        /\ pc["initial"][s] = "merge" => work["initial"][s].into <= live

HasMerged ==
    \A s \in Source :
        /\ pc["refresh"][s] = "indexed" =>
              \E e \in index[fresh] : e.source = s /\ e.round = "refresh"
        /\ live = 0 /\ pc["initial"][s] = "indexed" =>
              \E e \in index[0] : e.source = s

ServedInv == TypeOK /\ DownIsClean /\ RoundsInOrder /\ MergesHome /\ HasMerged

LEMMA InitServed == Init => ServedInv
<1> SUFFICES ASSUME Init PROVE ServedInv
    OBVIOUS
<1>1. TypeOK
    BY InitTypeOK
<1>2. \A l \in Lane, s \in Source : pc[l][s] = "idle"
    BY DEF Init, AllIdle
<1> QED BY <1>1, <1>2 DEF Init, ServedInv, DownIsClean, RoundsInOrder, MergesHome, HasMerged, Lane

(* What every step of a worker has in common: it moves that worker, leaves *)
(* the rounds alone, and of the other workers' locals changes torn at most. *)
Worker(l, s) ==
    \/ Begin(l, s) \/ Clear(l, s) \/ Read(l, s) \/ Merge(l, s)
    \/ Open(l, s) \/ Finish(l, s) \/ Fail(l, s)

LEMMA TearKeeps ==
    ASSUME NEW l \in Lane, NEW s \in Source, NEW w \in [Lane -> [Source -> Work]],
           NEW k \in Lane, NEW t \in Source
    PROVE  /\ Tear(l, s, w)[k][t].into = w[k][t].into
           /\ Tear(l, s, w)[k][t].docs = w[k][t].docs
<1>1. w[k] \in [Source -> Work] /\ w[k][t] \in Work
    OBVIOUS
<1> DEFINE torn == w[Other(l)][s].torn \/ Contended(l, s)
<1>2. Tear(l, s, w) = [w EXCEPT ![Other(l)][s].torn = torn]
    BY DEF Tear
<1> HIDE DEF torn
<1>3. Other(l) \in Lane
    BY DEF Other, Lane
<1> QED BY <1>1, <1>2, <1>3 DEF Work

(* The locals of the other workers are kept, but for torn. *)
Keeps(l, s) ==
    \A k \in Lane, t \in Source : <<k, t>> # <<l, s>> =>
        /\ work'[k][t].into = work[k][t].into
        /\ work'[k][t].docs = work[k][t].docs

LEMMA SetKeeps ==
    ASSUME TypeOK, NEW l \in Lane, NEW s \in Source, NEW w \in Work,
           \/ work' = [work EXCEPT ![l][s] = w]
           \/ work' = Tear(l, s, [work EXCEPT ![l][s] = w])
    PROVE  Keeps(l, s)
<1> SUFFICES ASSUME NEW k \in Lane, NEW t \in Source, <<k, t>> # <<l, s>>
             PROVE  /\ work'[k][t].into = work[k][t].into
                    /\ work'[k][t].docs = work[k][t].docs
    BY DEF Keeps
<1> DEFINE set == [work EXCEPT ![l][s] = w]
<1>1. set \in [Lane -> [Source -> Work]]
    BY WorkType
<1>2. set[k][t] = work[k][t]
    BY DEF TypeOK
<1>3. CASE work' = set
    BY <1>2, <1>3
<1>4. CASE work' = Tear(l, s, set)
    <2> HIDE DEF set
    <2> QED BY <1>1, <1>2, <1>4, TearKeeps
<1> QED BY <1>3, <1>4

LEMMA TornKeeps ==
    ASSUME TypeOK, NEW l \in Lane, NEW s \in Source, work' = Tear(l, s, work)
    PROVE  Keeps(l, s)
BY TearKeeps DEF TypeOK, Keeps

(* Where the step leaves its worker, and what that worker then knows. *)
Lands(l, s) ==
    \E w \in Running \cup Ended :
        /\ Goto(l, s, w)
        /\ w = "merge" => work'[l][s].into = Target(l)
        /\ w = "indexed" => Merge(l, s)

LEMMA WorkerStep ==
    ASSUME TypeOK, NEW l \in Lane, NEW s \in Source, Worker(l, s)
    PROVE  /\ mode # "down"
           /\ UNCHANGED <<mode, starts, live, fresh, done, overlapped>>
           /\ pc[l][s] \in {"wait"} \cup Running
           /\ Lands(l, s) /\ Keeps(l, s)
           /\ Merge(l, s) \/ index' = index
<1>1. CASE Begin(l, s)
    <2>1. Lands(l, s)
        <3>1. CASE SkipFetch(l, s)
            BY <1>1, <3>1 DEF Begin, Lands, Fetched, Running, Ended
        <3>2. CASE ~SkipFetch(l, s)
            BY <1>1, <3>2 DEF Begin, Lands, Running
        <3> QED BY <3>1, <3>2
    <2> QED BY <1>1, <2>1 DEF Begin, At, Keeps
<1>2. CASE Clear(l, s)
    <2>1. Keeps(l, s)
        BY <1>2, TornKeeps DEF Clear
    <2> QED BY <1>2, <2>1 DEF Clear, At, Lands, Running, Ended
<1>3. CASE Open(l, s)
    <2>1. Keeps(l, s)
        BY <1>3, WritingType, SetKeeps DEF Open, Keeps
    <2> QED BY <1>3, <2>1 DEF Open, At, Lands, Running, Ended
<1>4. CASE Finish(l, s)
    <2>1. Keeps(l, s)
        BY <1>4, NoWorkType, SetKeeps DEF Finish
    <2> QED BY <1>4, <2>1 DEF Finish, At, Fetched, Lands, Running, Ended
<1>5. CASE Fail(l, s)
    <2>1. Keeps(l, s)
        BY <1>5, NoWorkType, SetKeeps DEF Fail
    <2> QED BY <1>5, <2>1 DEF Fail, At, Lands, Running, Ended
<1>6. CASE Read(l, s)
    <2>1. ASSUME NEW docs \in Dir, work' = [work EXCEPT ![l][s] = HasRead(l, docs)]
          PROVE  work'[l][s].into = Target(l) /\ Keeps(l, s)
        <3>1. work'[l][s] = HasRead(l, docs)
            BY <2>1 DEF TypeOK
        <3>2. HasRead(l, docs).into = Target(l)
            BY DEF HasRead
        <3> QED BY <2>1, <3>1, <3>2, HasReadType, SetKeeps
    <2>2. Found(l, s) \in Dir /\ "whole" \in Dir
        BY FoundType DEF Dir
    <2>3. Lands(l, s) /\ Keeps(l, s)
        <3>1. CASE Goto(l, s, "merge")
                /\ \E docs \in Dir : work' = [work EXCEPT ![l][s] = HasRead(l, docs)]
            <4>1. PICK docs \in Dir : work' = [work EXCEPT ![l][s] = HasRead(l, docs)]
                BY <3>1
            <4>2. work'[l][s].into = Target(l) /\ Keeps(l, s)
                BY <2>1, <4>1
            <4>3. "merge" \in Running /\ "merge" # "indexed"
                BY DEF Running
            <4> QED BY <3>1, <4>2, <4>3, Zenon DEF Lands
        <3>2. CASE work' = work /\ Goto(l, s, "nothing")
            BY <3>2 DEF Lands, Keeps, Ended
        <3>3. \E docs \in Dir :
                \/ work' = [work EXCEPT ![l][s] = HasRead(l, docs)] /\ Goto(l, s, "merge")
                \/ work' = work /\ Goto(l, s, "nothing")
            <4> DEFINE docs == IF s \in Remote THEN Found(l, s) ELSE "whole"
            <4>1. docs \in Dir
                BY <2>2
            <4>2. \/ work' = [work EXCEPT ![l][s] = HasRead(l, docs)] /\ Goto(l, s, "merge")
                  \/ work' = work /\ Goto(l, s, "nothing")
                BY <1>6 DEF Read
            <4> QED BY <4>1, <4>2
        <3> QED BY <3>1, <3>2, <3>3
    <2> QED BY <1>6, <2>3 DEF Read, At, Running
<1>7. CASE Merge(l, s)
    <2>1. Keeps(l, s)
        BY <1>7, NoWorkType, SetKeeps DEF Merge
    <2> QED BY <1>7, <2>1 DEF Merge, At, Lands, Running, Ended
<1> QED BY <1>1, <1>2, <1>3, <1>4, <1>5, <1>6, <1>7 DEF Worker

LEMMA StepServed == ServedInv /\ [Next]_vars => ServedInv'
<1> SUFFICES ASSUME ServedInv, [Next]_vars PROVE ServedInv'
    OBVIOUS
<1> USE PipelineAssumption
<1>0. TypeOK /\ TypeOK'
    BY StepTypeOK DEF ServedInv
<1>1. CASE UNCHANGED vars
    BY <1>1, <1>0 DEF ServedInv, DownIsClean, RoundsInOrder, MergesHome, HasMerged, AllEnded, vars
<1>2. ASSUME NEW m \in {"serve", "pull"}, Build(m) PROVE ServedInv'
    BY <1>2, <1>0 DEF Build, ServedInv, DownIsClean, RoundsInOrder, MergesHome, HasMerged,
        AllEnded, AllIdle, TypeOK, Lane
<1>3. CASE Exit
    BY <1>3, <1>0 DEF Exit, ServedInv, DownIsClean, RoundsInOrder, MergesHome, HasMerged,
        AllEnded, AllIdle, Lane
<1>4. CASE Close
    BY <1>4, <1>0 DEF Close, ServedInv, DownIsClean, RoundsInOrder, MergesHome, HasMerged, AllEnded
<1>5. CASE Tick
    <2>1. \A s \in Source : /\ pc'["refresh"][s] = "wait"
                              /\ pc'["initial"][s] = pc["initial"][s]
        BY <1>5, <1>0 DEF Tick, TypeOK, Lane
    <2>2. live \in Nat /\ fresh \in Nat /\ fresh' = live + 1
        BY <1>5, <1>0 DEF Tick, TypeOK
    <2> QED BY <1>5, <1>0, <2>1, <2>2 DEF Tick, ServedInv, DownIsClean, RoundsInOrder,
            MergesHome, HasMerged, AllEnded
<1>6. CASE Swap
    <2>1. \A s \in Source : /\ pc'["refresh"][s] = "idle"
                              /\ pc'["initial"][s] = pc["initial"][s]
                              /\ work["initial"][s].into \in 0..MaxRefresh
        BY <1>6, <1>0 DEF Swap, TypeOK, Lane, Work
    <2>2. live \in Nat /\ live' \in Nat /\ live < live' /\ live' = fresh'
        BY <1>6, <1>0 DEF Swap, TypeOK, ServedInv, RoundsInOrder
    <2>3. MergesHome' /\ HasMerged'
        BY <1>6, <1>0, <2>1, <2>2 DEF Swap, ServedInv, MergesHome, HasMerged
    <2> QED BY <1>6, <1>0, <2>1, <2>2, <2>3 DEF Swap, ServedInv, DownIsClean, RoundsInOrder,
            AllEnded
<1>7. ASSUME NEW l \in Lane, NEW s \in Source, Worker(l, s) PROVE ServedInv'
    <2>1. PICK w \in Running \cup Ended :
            /\ Goto(l, s, w)
            /\ w = "merge" => work'[l][s].into = Target(l)
            /\ w = "indexed" => Merge(l, s)
        BY <1>0, <1>7, WorkerStep DEF Lands
    <2>2. \A k \in Lane, t \in Source :
            pc'[k][t] = IF k = l /\ t = s THEN w ELSE pc[k][t]
        BY <1>0, <2>1 DEF Goto, TypeOK
    <2>3. /\ mode # "down" /\ UNCHANGED <<mode, live, fresh, done>>
          /\ pc[l][s] \in {"wait"} \cup Running
          /\ \A k \in Lane, t \in Source : <<k, t>> # <<l, s>> =>
                work'[k][t].into = work[k][t].into
          /\ Merge(l, s) \/ index' = index
        BY <1>0, <1>7, WorkerStep DEF Keeps
    <2>4. DownIsClean'
        BY <2>3 DEF DownIsClean
    <2>5. RoundsInOrder'
        <3>1. done => l # "initial"
            BY <2>3 DEF ServedInv, RoundsInOrder, AllEnded, Running, Ended
        <3>2. fresh = live => l # "refresh"
            BY <2>3 DEF ServedInv, RoundsInOrder, Running
        <3> QED BY <2>2, <2>3, <3>1, <3>2 DEF ServedInv, RoundsInOrder, AllEnded, Lane
    <2>6. MergesHome'
        BY <2>1, <2>2, <2>3, <1>0 DEF ServedInv, MergesHome, Target, Lane, TypeOK
    <2>7. HasMerged'
        <3>1. \A g \in 0..MaxRefresh : index[g] \subseteq index'[g]
            <4>1. CASE index' = index
                BY <4>1
            <4>2. CASE Merge(l, s)
                BY <1>0, <4>2 DEF Merge, TypeOK
            <4> QED BY <2>3, <4>1, <4>2
        <3>2. fresh \in 0..MaxRefresh /\ 0 \in 0..MaxRefresh /\ live \in 0..MaxRefresh
            BY <1>0 DEF TypeOK
        <3>3. ASSUME w = "indexed"
              PROVE  \E e \in index'[work[l][s].into] : e.source = s /\ e.round = l
            <4>1. work[l][s].into \in 0..MaxRefresh
                BY <1>0 DEF TypeOK, Work
            <4> DEFINE entry == [source |-> s, round |-> l, docs |-> work[l][s].docs,
                                 path |-> Prefix(l, s)]
            <4>2. entry \in index'[work[l][s].into]
                BY <1>0, <2>1, <3>3, <4>1 DEF Merge, TypeOK
            <4>3. entry.source = s /\ entry.round = l
                OBVIOUS
            <4> QED BY <4>2, <4>3
        <3>4. w = "indexed" => pc[l][s] = "merge"
            BY <2>1 DEF Merge, At
        <3>5. l = "refresh" /\ w = "indexed" => work[l][s].into = fresh
            BY <3>4 DEF ServedInv, MergesHome
        <3>6. l = "initial" /\ w = "indexed" /\ live = 0 => work[l][s].into = 0
            BY <1>0, <3>4 DEF ServedInv, MergesHome, TypeOK, Work
        <3> QED BY <2>2, <2>3, <3>1, <3>2, <3>3, <3>5, <3>6 DEF ServedInv, HasMerged, Lane
    <2> QED BY <1>0, <2>4, <2>5, <2>6, <2>7 DEF ServedInv
<1> QED BY <1>1, <1>2, <1>3, <1>4, <1>5, <1>6, <1>7, NextCases DEF Worker

LEMMA ServedInvariant == Spec => []ServedInv
<1>1. Init => ServedInv
    BY InitServed
<1>2. ServedInv /\ [Next]_vars => ServedInv'
    BY StepServed
<1> QED BY <1>1, <1>2, PTL DEF Spec

(* When the initial round is over and nothing has replaced its index, a    *)
(* search can find every source whose worker read something.               *)
THEOREM DoneIsServed == Spec => []DoneMeansServed
<1>1. ServedInv => DoneMeansServed
    BY DEF ServedInv, RoundsInOrder, HasMerged, AllEnded, Ended, DoneMeansServed
<1> QED BY <1>1, ServedInvariant, PTL

(* What is served changes only by the swap of a whole refresh round.  The  *)
(* initial round cannot do it, because it is over; a refresh worker cannot *)
(* either, because it merges into the fresh index and, when it does, that  *)
(* is not the live one.                                                    *)
THEOREM ServedIsFinal == Spec => ServedChangesBySwap
<1> DEFINE Served ==
        \/ live' = live /\ index'[live] = index[live]
        \/ /\ live' = fresh
           /\ \A s \in Source : pc["refresh"][s] = "indexed" =>
                 \E e \in index'[live'] : e.source = s /\ e.round = "refresh"
           /\ \A s \in Source : pc["refresh"][s] # "merge"
<1>1. ServedInv /\ [Next]_vars
        => (mode # "down" /\ mode' = mode /\ done => Served)
    <2> SUFFICES ASSUME ServedInv, [Next]_vars, mode # "down", mode' = mode, done
                 PROVE  Served
        OBVIOUS
    <2>1. CASE UNCHANGED vars
        BY <2>1 DEF vars
    <2>2. ASSUME NEW m \in {"serve", "pull"}, Build(m) PROVE Served
        BY <2>2 DEF Build
    <2>3. CASE Exit
        BY <2>3 DEF Exit
    <2>4. CASE Close \/ Tick
        BY <2>4 DEF Close, Tick
    <2>5. CASE Swap
        BY <2>5 DEF Swap, AllEnded, Ended, ServedInv, HasMerged
    <2>6. ASSUME NEW l \in Lane, NEW s \in Source, Worker(l, s) PROVE Served
        <3>1. live' = live /\ (Merge(l, s) \/ index' = index) /\ TypeOK
            BY <2>6, WorkerStep DEF ServedInv
        <3>2. CASE Merge(l, s)
            <4>1. pc[l][s] = "merge"
                BY <3>2 DEF Merge, At
            <4>2. l = "refresh"
                BY <4>1 DEF ServedInv, RoundsInOrder, AllEnded, Ended, Lane
            <4>3. work[l][s].into # live
                BY <4>1, <4>2 DEF ServedInv, RoundsInOrder, MergesHome
            <4>4. index'[live] = index[live]
                BY <3>1, <3>2, <4>3 DEF Merge, TypeOK
            <4> QED BY <3>1, <4>4
        <3> QED BY <3>1, <3>2
    <2> HIDE DEF Served
    <2> QED BY <2>1, <2>2, <2>3, <2>4, <2>5, <2>6, NextCases DEF Worker
<1> QED BY <1>1, ServedInvariant, PTL DEF Spec, ServedChangesBySwap

-----------------------------------------------------------------------------
(* Rounds. *)

Busies == {"wait"} \cup Running

(* A refresh comes after the initial round. *)
Apart == ~done => fresh = 0

(* Nobody meddles with what a worker writes. *)
Untorn == \A l \in Lane, s \in Source : pc[l][s] = "write" => ~work[l][s].torn

(* What is fetched again is whole when it is read and when it is merged. *)
Renewed(s) == Policy[s] = "always" /\ Kind[s] # "scrape"
Healed ==
    \A l \in Lane, s \in Source : Renewed(s) =>
        /\ pc[l][s] = "read" /\ s \in Remote => Found(l, s) = "whole"
        /\ pc[l][s] = "merge" => work[l][s].docs = "whole"

(* What is not always fetched is only written where nothing whole is. *)
Spared ==
    \A l \in Lane, s \in Source :
        Policy[s] # "always" /\ pc[l][s] \in {"clear", "open", "write"} => Found(l, s) # "whole"

(* An index has entries of its own round only, each of a worker that has   *)
(* merged, and there is nothing yet in the indexes to come.                *)
Sourced ==
    \A g \in 0..MaxRefresh : \A e \in index[g] :
        /\ e.round = IF g = 0 THEN "initial" ELSE "refresh"
        /\ g = 0 => pc["initial"][e.source] = "indexed"
        /\ g # 0 => g <= fresh /\ (g = fresh /\ fresh # live => pc["refresh"][e.source] = "indexed")
        /\ Renewed(e.source) => e.docs = "whole"
        /\ \A f \in index[g] : e.source = f.source => e = f

RoundFacts == Apart /\ Untorn /\ Healed /\ Spared /\ Sourced
RoundInv == ServedInv /\ (~overlapped => RoundFacts)

-----------------------------------------------------------------------------
(* While a worker of one round is busy, no worker of the other is.         *)
LEMMA OneRound ==
    ASSUME ServedInv, Apart, NEW l \in Lane, NEW s \in Source, pc[l][s] \in Busies
    PROVE  /\ \A t \in Source : pc[Other(l)][t] \notin Busies
           /\ l = "initial" => live = 0 /\ fresh = 0
           /\ l = "refresh" => fresh # live /\ fresh # 0
<1>1. live \in Nat /\ fresh \in Nat /\ live <= fresh
    BY PipelineAssumption DEF ServedInv, RoundsInOrder, TypeOK
<1>2. \A t \in Source : /\ pc[l][s] # "idle" /\ pc[l][s] \notin Ended
                        /\ pc["refresh"][t] = "idle" => pc["refresh"][t] \notin Busies
                        /\ pc["initial"][t] \in Ended => pc["initial"][t] \notin Busies
    BY DEF Busies, Running, Ended
<1>3. CASE l = "initial"
    <2>1. ~done
        BY <1>2, <1>3 DEF ServedInv, RoundsInOrder, AllEnded
    <2>2. fresh = 0 /\ live = 0
        BY <1>1, <2>1 DEF Apart
    <2>3. \A t \in Source : pc["refresh"][t] = "idle"
        BY <2>2 DEF ServedInv, RoundsInOrder
    <2> QED BY <1>2, <1>3, <2>2, <2>3 DEF Other
<1>4. CASE l = "refresh"
    <2>1. fresh # live
        BY <1>2, <1>4 DEF ServedInv, RoundsInOrder
    <2>2. fresh # 0
        BY <1>1, <2>1
    <2>3. done
        BY <2>2 DEF Apart
    <2>4. \A t \in Source : pc["initial"][t] \in Ended
        BY <2>3 DEF ServedInv, RoundsInOrder, AllEnded
    <2> QED BY <1>2, <1>4, <2>1, <2>2, <2>4 DEF Other
<1> QED BY <1>3, <1>4 DEF Lane

(* What a worker's step does to its own directory and locals.              *)
Moves(l, s, from, to) == pc[l][s] = from /\ pc'[l][s] = to
Left(l, s) == disk'[Base(l)][s]

Effect(l, s) ==
    \/ /\ Left(l, s) = Found(l, s)
       /\ \/ /\ SkipFetch(l, s)
             /\ Moves(l, s, "wait", "read") \/ Moves(l, s, "wait", "kept")
          \/ ~SkipFetch(l, s) /\ Moves(l, s, "wait", "clear")
    \/ Moves(l, s, "clear", "open") /\ Left(l, s) = "absent"
    \/ Moves(l, s, "clear", "fetchError") /\ Found(l, s) # "absent"
    \/ Moves(l, s, "open", "write") /\ Left(l, s) = "partial" /\ ~work'[l][s].torn
    \/ Moves(l, s, "open", "fetchError") /\ Left(l, s) = Found(l, s)
    \/ /\ Moves(l, s, "write", "read") \/ Moves(l, s, "write", "fetched")
       /\ ~work[l][s].torn /\ Kind[s] # "scrape" => Left(l, s) = "whole"
    \/ Moves(l, s, "write", "fetchError")
    \/ /\ Moves(l, s, "read", "merge") /\ Left(l, s) = Found(l, s)
       /\ work'[l][s].docs = IF s \in Remote THEN Found(l, s) ELSE "whole"
    \/ Moves(l, s, "read", "nothing") /\ Left(l, s) = Found(l, s)
    \/ Moves(l, s, "merge", "indexed") /\ Left(l, s) = Found(l, s)

(* What it does to the rest, when the other round is not at work.          *)
Elsewhere(l, s) ==
    /\ \A d \in Place, t \in Source : <<d, t>> # <<Base(l), s>> => disk'[d][t] = disk[d][t]
    /\ \A k \in Lane, t \in Source : <<k, t>> # <<l, s>> =>
          pc'[k][t] = pc[k][t] /\ work'[k][t] = work[k][t]

LEMMA StoreLeaves ==
    ASSUME TypeOK, NEW l \in Lane, NEW s \in Source, NEW c, Store(l, s, c)
    PROVE  /\ Left(l, s) = c
           /\ \A d \in Place, t \in Source : <<d, t>> # <<Base(l), s>> => disk'[d][t] = disk[d][t]
<1>1. Base(l) \in Place /\ DOMAIN disk = Place /\ \A d \in Place : DOMAIN disk[d] = Source
    BY DEF Base, Place, TypeOK
<1> QED BY <1>1 DEF Store, Left

LEMMA GotoMoves ==
    ASSUME TypeOK, NEW l \in Lane, NEW s \in Source, NEW w, Goto(l, s, w)
    PROVE  /\ pc'[l][s] = w
           /\ \A k \in Lane, t \in Source : <<k, t>> # <<l, s>> => pc'[k][t] = pc[k][t]
    BY DEF Goto, TypeOK

LEMMA WorkSet ==
    ASSUME TypeOK, NEW l \in Lane, NEW s \in Source, NEW w, work' = [work EXCEPT ![l][s] = w]
    PROVE  /\ work'[l][s] = w
           /\ \A k \in Lane, t \in Source : <<k, t>> # <<l, s>> => work'[k][t] = work[k][t]
    BY DEF TypeOK

(* A round that is alone tears nothing. *)
LEMMA NothingTorn ==
    ASSUME NEW l \in Lane, NEW s \in Source, NEW w \in [Lane -> [Source -> Work]], ~Contended(l, s)
    PROVE  Tear(l, s, w) = w
<1> DEFINE torn == w[Other(l)][s].torn \/ Contended(l, s)
<1>1. Other(l) \in Lane
    BY DEF Other, Lane
<1>2. w[Other(l)] \in [Source -> Work] /\ w[Other(l)][s] \in Work
    BY <1>1
<1>3. torn = w[Other(l)][s].torn
    BY <1>2 DEF Work
<1>4. Tear(l, s, w) = [w EXCEPT ![Other(l)][s].torn = torn]
    BY DEF Tear
<1> HIDE DEF torn
<1>5. [w[Other(l)][s] EXCEPT !.torn = torn] = w[Other(l)][s]
    BY <1>2, <1>3 DEF Work
<1>6. [w[Other(l)] EXCEPT ![s] = w[Other(l)][s]] = w[Other(l)]
    BY <1>2
<1>7. [w EXCEPT ![Other(l)] = w[Other(l)]] = w
    BY <1>1
<1> QED BY <1>4, <1>5, <1>6, <1>7

LEMMA WorkerEffect ==
    ASSUME TypeOK, NEW l \in Lane, NEW s \in Source, Worker(l, s), ~Contended(l, s)
    PROVE  Effect(l, s) /\ Elsewhere(l, s)
<1>1. CASE Begin(l, s)
    <2>1. /\ pc[l][s] = "wait" /\ disk' = disk /\ work' = work
          /\ Goto(l, s, IF SkipFetch(l, s) THEN Fetched(s, "kept") ELSE "clear")
        BY <1>1 DEF Begin, At
    <2>2. Left(l, s) = Found(l, s)
        BY <2>1 DEF Left, Found
    <2>3. pc'[l][s] = IF SkipFetch(l, s) THEN Fetched(s, "kept") ELSE "clear"
        BY <2>1, GotoMoves
    <2>4. Fetched(s, "kept") \in {"kept", "read"}
        BY DEF Fetched
    <2>5. Effect(l, s)
        BY <2>1, <2>2, <2>3, <2>4, Zenon DEF Effect, Moves
    <2> QED BY <2>1, <2>5, GotoMoves DEF Elsewhere
<1>2. CASE Clear(l, s)
    <2>1. pc[l][s] = "clear" /\ work' = work
        BY <1>2, NothingTorn DEF Clear, At, TypeOK
    <2>2. CASE Store(l, s, "absent") /\ Goto(l, s, "open")
        <3>1. Effect(l, s)
            BY <2>1, <2>2, StoreLeaves, GotoMoves DEF Effect, Moves
        <3> QED BY <2>1, <2>2, <3>1, StoreLeaves, GotoMoves DEF Elsewhere
    <2>3. CASE /\ Found(l, s) # "absent" /\ Goto(l, s, "fetchError")
               /\ \E left \in {"partial", Found(l, s)} : Store(l, s, left)
        <3>1. Effect(l, s)
            BY <2>1, <2>3, GotoMoves DEF Effect, Moves
        <3> QED BY <2>1, <2>3, <3>1, StoreLeaves, GotoMoves DEF Elsewhere
    <2> QED BY <1>2, <2>2, <2>3 DEF Clear
<1>3. CASE Open(l, s)
    <2>1. pc[l][s] = "open"
        BY <1>3 DEF Open, At
    <2>2. CASE /\ Store(l, s, "partial") /\ Goto(l, s, "write")
               /\ work' = Tear(l, s, [work EXCEPT ![l][s] = Writing(l, s)])
        <3>1. work' = [work EXCEPT ![l][s] = Writing(l, s)]
            BY <2>2, NothingTorn, WritingType, WorkType
        <3>2. ~work'[l][s].torn
            <4>1. Writing(l, s).torn = Contended(l, s)
                BY DEF Writing
            <4> QED BY <3>1, <4>1, WorkSet
        <3>3. Effect(l, s)
            BY <2>1, <2>2, <3>2, StoreLeaves, GotoMoves DEF Effect, Moves
        <3>4. \A k \in Lane, t \in Source : <<k, t>> # <<l, s>> => work'[k][t] = work[k][t]
            BY <3>1, WorkSet
        <3>5. \A d \in Place, t \in Source : <<d, t>> # <<Base(l), s>> => disk'[d][t] = disk[d][t]
            BY <2>2, StoreLeaves
        <3>6. \A k \in Lane, t \in Source : <<k, t>> # <<l, s>> => pc'[k][t] = pc[k][t]
            BY <2>2, GotoMoves
        <3> QED BY <3>3, <3>4, <3>5, <3>6 DEF Elsewhere
    <2>3. CASE Goto(l, s, "fetchError") /\ UNCHANGED <<disk, work>>
        <3>1. Left(l, s) = Found(l, s)
            BY <2>3 DEF Left, Found
        <3>2. Effect(l, s)
            BY <2>1, <2>3, <3>1, GotoMoves DEF Effect, Moves
        <3> QED BY <2>3, <3>2, GotoMoves DEF Elsewhere
    <2> QED BY <1>3, <2>2, <2>3 DEF Open
<1>4. CASE Finish(l, s)
    <2>1. /\ pc[l][s] = "write" /\ work' = [work EXCEPT ![l][s] = NoWork]
          /\ Goto(l, s, Fetched(s, "fetched"))
        BY <1>4 DEF Finish, At
    <2>2. pc'[l][s] \in {"read", "fetched"}
        <3>1. Fetched(s, "fetched") \in {"read", "fetched"}
            BY DEF Fetched
        <3> QED BY <2>1, <3>1, GotoMoves
    <2>3. /\ ~work[l][s].torn /\ Kind[s] # "scrape" => Left(l, s) = "whole"
          /\ \A d \in Place, t \in Source : <<d, t>> # <<Base(l), s>> => disk'[d][t] = disk[d][t]
        BY <1>4, StoreLeaves DEF Finish
    <2>4. Effect(l, s)
        BY <2>1, <2>2, <2>3, Zenon DEF Effect, Moves
    <2> QED BY <2>1, <2>3, <2>4, GotoMoves, WorkSet DEF Elsewhere
<1>5. CASE Fail(l, s)
    <2>1. /\ pc[l][s] = "write" /\ work' = [work EXCEPT ![l][s] = NoWork]
          /\ Goto(l, s, "fetchError")
        BY <1>5, NothingTorn, NoWorkType, WorkType DEF Fail, At
    <2>2. \A d \in Place, t \in Source : <<d, t>> # <<Base(l), s>> => disk'[d][t] = disk[d][t]
        BY <1>5, StoreLeaves DEF Fail
    <2>3. Effect(l, s)
        BY <2>1, GotoMoves DEF Effect, Moves
    <2> QED BY <2>1, <2>2, <2>3, GotoMoves, WorkSet DEF Elsewhere
<1>6. CASE Read(l, s)
    <2> DEFINE docs == IF s \in Remote THEN Found(l, s) ELSE "whole"
    <2>1. pc[l][s] = "read" /\ disk' = disk
        BY <1>6 DEF Read, At
    <2>2. Left(l, s) = Found(l, s)
        BY <2>1 DEF Left, Found
    <2>3. CASE work' = [work EXCEPT ![l][s] = HasRead(l, docs)] /\ Goto(l, s, "merge")
        <3>1. HasRead(l, docs).docs = docs
            BY DEF HasRead
        <3> HIDE DEF docs
        <3>2. work'[l][s].docs = docs
            <4>1. work'[l][s] = HasRead(l, docs)
                BY <2>3 DEF TypeOK
            <4> QED BY <3>1, <4>1
        <3>3. pc'[l][s] = "merge"
            BY <2>3, GotoMoves
        <3>4. Effect(l, s)
            BY <2>1, <2>2, <3>2, <3>3, Zenon DEF Effect, Moves, docs
        <3> QED BY <2>1, <2>3, <3>4, GotoMoves, WorkSet DEF Elsewhere
    <2>4. CASE work' = work /\ Goto(l, s, "nothing")
        <3>1. Effect(l, s)
            BY <2>1, <2>2, <2>4, GotoMoves DEF Effect, Moves
        <3> QED BY <2>1, <2>4, <3>1, GotoMoves DEF Elsewhere
    <2> QED BY <1>6, <2>3, <2>4 DEF Read
<1>7. CASE Merge(l, s)
    <2>1. /\ pc[l][s] = "merge" /\ disk' = disk /\ Goto(l, s, "indexed")
          /\ work' = [work EXCEPT ![l][s] = NoWork]
        BY <1>7 DEF Merge, At
    <2>2. Left(l, s) = Found(l, s)
        BY <2>1 DEF Left, Found
    <2>3. Effect(l, s)
        BY <2>1, <2>2, GotoMoves DEF Effect, Moves
    <2> QED BY <2>1, <2>3, GotoMoves, WorkSet DEF Elsewhere
<1> QED BY <1>1, <1>2, <1>3, <1>4, <1>5, <1>6, <1>7 DEF Worker

-----------------------------------------------------------------------------
LEMMA RoundsStart == Init => RoundInv
<1> SUFFICES ASSUME Init PROVE RoundInv
    OBVIOUS
<1>1. ServedInv
    BY InitServed
<1>2. \A l \in Lane, s \in Source : pc[l][s] = "idle"
    BY DEF Init, AllIdle
<1>3. \A g \in 0..MaxRefresh : index[g] = {}
    BY DEF Init, NoIndexes
<1> QED BY <1>1, <1>2, <1>3 DEF Init, RoundInv, RoundFacts, Apart, Untorn, Healed, Spared, Sourced

(* A process that is down has nothing.                                     *)
LEMMA DownFacts ==
    ASSUME DownIsClean, mode = "down"
    PROVE  RoundFacts
<1>1. \A l \in Lane, s \in Source : pc[l][s] = "idle"
    BY DEF DownIsClean, AllIdle
<1>2. \A g \in 0..MaxRefresh : index[g] = {}
    BY DEF DownIsClean, NoIndexes
<1>3. fresh = 0
    BY DEF DownIsClean
<1> QED BY <1>1, <1>2, <1>3 DEF RoundFacts, Apart, Untorn, Healed, Spared, Sourced

LEMMA WorkerKeepsRounds ==
    ASSUME ServedInv, RoundFacts, NEW l \in Lane, NEW s \in Source, Worker(l, s)
    PROVE  RoundFacts'
<1>1. TypeOK /\ TypeOK'
    <2>1. Next
        BY DEF Worker, Next, Step, Transfer
    <2> QED BY <2>1, StepTypeOK DEF ServedInv
<1>2. /\ pc[l][s] \in Busies /\ UNCHANGED <<live, fresh, done>>
      /\ Merge(l, s) \/ index' = index
    BY <1>1, WorkerStep DEF Busies
<1>3. /\ \A t \in Source : pc[Other(l)][t] \notin Busies
      /\ l = "initial" => live = 0 /\ fresh = 0
      /\ l = "refresh" => fresh # live /\ fresh # 0
    BY <1>2, OneRound DEF RoundFacts
<1>4. ~Contended(l, s)
    <2>1. "write" \in Busies
        BY DEF Busies, Running
    <2> QED BY <1>3, <2>1 DEF Contended
<1>5. Effect(l, s) /\ Elsewhere(l, s)
    BY <1>1, <1>4, WorkerEffect
<1>6. Apart'
    BY <1>2 DEF RoundFacts, Apart
<1>7. ASSUME NEW k \in Lane, NEW t \in Source, <<k, t>> # <<l, s>>
      PROVE  /\ pc'[k][t] = pc[k][t] /\ work'[k][t] = work[k][t]
             /\ pc[k][t] \in Busies => Found(k, t)' = Found(k, t)
    <2>1. pc'[k][t] = pc[k][t] /\ work'[k][t] = work[k][t]
        BY <1>5, <1>7 DEF Elsewhere
    <2>2. ASSUME pc[k][t] \in Busies PROVE <<Base(k), t>> # <<Base(l), s>>
        <3>1. k = l \/ k = Other(l)
            BY DEF Lane, Other
        <3> QED BY <1>3, <1>7, <2>2, <3>1
    <2>3. Base(k) \in Place
        BY DEF Base, Place
    <2> QED BY <1>5, <2>1, <2>2, <2>3 DEF Elsewhere, Found
<1>8. Found(l, s)' = Left(l, s)
    BY DEF Found, Left
<1>9. {"clear", "open", "write", "read", "merge", "wait"} \subseteq Busies
    BY DEF Busies, Running
<1>10. Untorn'
    <2>1. pc'[l][s] = "write" => ~work'[l][s].torn
        BY <1>5 DEF Effect, Moves
    <2> QED BY <1>7, <2>1 DEF RoundFacts, Untorn
<1>11. Healed'
    <2>1. ASSUME NEW k \in Lane, NEW t \in Source, Renewed(t), <<k, t>> # <<l, s>>
          PROVE  /\ pc'[k][t] = "read" /\ t \in Remote => Found(k, t)' = "whole"
                 /\ pc'[k][t] = "merge" => work'[k][t].docs = "whole"
        BY <1>7, <1>9, <2>1 DEF RoundFacts, Healed
    <2>2. ASSUME Renewed(s), pc'[l][s] = "read", s \in Remote PROVE Left(l, s) = "whole"
        <3>1. ~SkipFetch(l, s) /\ Kind[s] # "scrape"
            BY <2>2 DEF Renewed, SkipFetch, Remote
        <3>2. Moves(l, s, "write", "read") /\ (~work[l][s].torn /\ Kind[s] # "scrape" => Left(l, s) = "whole")
            BY <1>5, <2>2, <3>1 DEF Effect, Moves
        <3> QED BY <3>1, <3>2 DEF RoundFacts, Untorn, Moves
    <2>3. ASSUME Renewed(s), pc'[l][s] = "merge" PROVE work'[l][s].docs = "whole"
        <3>1. /\ pc[l][s] = "read"
              /\ work'[l][s].docs = IF s \in Remote THEN Found(l, s) ELSE "whole"
            BY <1>5, <2>3 DEF Effect, Moves
        <3> QED BY <2>3, <3>1 DEF RoundFacts, Healed
    <2> QED BY <1>8, <2>1, <2>2, <2>3 DEF Healed, Renewed
<1>12. Spared'
    <2>1. ASSUME NEW k \in Lane, NEW t \in Source, Policy[t] # "always", <<k, t>> # <<l, s>>,
                 pc'[k][t] \in {"clear", "open", "write"}
          PROVE  Found(k, t)' # "whole"
        BY <1>7, <1>9, <2>1 DEF RoundFacts, Spared
    <2>2. ASSUME Policy[s] # "always", pc'[l][s] \in {"clear", "open", "write"}
          PROVE  Left(l, s) # "whole"
        <3>1. CASE pc'[l][s] = "clear"
            <4>1. ~SkipFetch(l, s) /\ Left(l, s) = Found(l, s)
                BY <1>5, <3>1 DEF Effect, Moves
            <4>2. Policy[s] \in {"ifNotPresent", "never"}
                BY <2>2, PipelineAssumption
            <4> QED BY <4>1, <4>2 DEF SkipFetch
        <3>2. CASE pc'[l][s] \in {"open", "write"}
            BY <1>5, <3>2 DEF Effect, Moves
        <3> QED BY <2>2, <3>1, <3>2
    <2> QED BY <1>8, <2>1, <2>2 DEF Spared
<1>13. Sourced'
    <2>1. \A k \in Lane, t \in Source : pc[k][t] = "indexed" => pc'[k][t] = "indexed"
        <3>1. pc[l][s] # "indexed"
            BY <1>2 DEF Busies, Running
        <3> QED BY <1>7, <3>1
    <2>2. ASSUME NEW g \in 0..MaxRefresh, NEW e \in index[g] PROVE e.source \in Source
        <3>1. e \in Entry
            BY <1>1 DEF TypeOK
        <3> QED BY <3>1 DEF Entry
    <2>3. CASE index' = index
        BY <1>2, <2>1, <2>2, <2>3 DEF RoundFacts, Sourced, Lane, Renewed
    <2>4. CASE Merge(l, s)
        <3> DEFINE into == work[l][s].into
                   entry == [source |-> s, round |-> l, docs |-> work[l][s].docs,
                             path |-> Prefix(l, s)]
        <3>1. pc[l][s] = "merge" /\ pc'[l][s] = "indexed"
            BY <1>1, <2>4, GotoMoves DEF Merge, At
        <3>2. into \in 0..MaxRefresh
            BY <1>1 DEF TypeOK, Work
        <3>3. into = IF l = "initial" THEN 0 ELSE fresh
            BY <1>3, <3>1, <3>2 DEF ServedInv, MergesHome, Lane
        <3>4. Renewed(s) => entry.docs = "whole"
            BY <3>1 DEF RoundFacts, Healed
        <3>5. entry.source = s /\ entry.round = l
            OBVIOUS
        <3>6. index' = [index EXCEPT ![into] = @ \cup {entry}]
            BY <2>4 DEF Merge
        <3> HIDE DEF entry, into
        <3>7. \A g \in 0..MaxRefresh : index'[g] = IF g = into THEN index[g] \cup {entry} ELSE index[g]
            BY <1>1, <3>2, <3>6 DEF TypeOK
        <3>8. ASSUME NEW e \in index[into] PROVE e.source # s
            BY <1>3, <3>1, <3>2, <3>3 DEF RoundFacts, Sourced, Lane
        <3>9. ASSUME NEW g \in 0..MaxRefresh, NEW e \in index'[g]
              PROVE  /\ e.round = IF g = 0 THEN "initial" ELSE "refresh"
                     /\ g = 0 => pc'["initial"][e.source] = "indexed"
                     /\ g # 0 => g <= fresh /\ (g = fresh /\ fresh # live => pc'["refresh"][e.source] = "indexed")
                     /\ Renewed(e.source) => e.docs = "whole"
            <4>1. CASE e \in index[g]
                BY <2>1, <2>2, <4>1 DEF RoundFacts, Sourced, Lane
            <4>2. CASE g = into /\ e = entry
                BY <1>1, <1>3, <3>1, <3>3, <3>4, <3>5, <4>2 DEF TypeOK, Lane
            <4> QED BY <3>7, <4>1, <4>2
        <3>10. ASSUME NEW g \in 0..MaxRefresh, NEW e \in index'[g], NEW f \in index'[g],
                      e.source = f.source
               PROVE  e = f
            <4>1. CASE e \in index[g] /\ f \in index[g]
                BY <3>10, <4>1 DEF RoundFacts, Sourced
            <4>2. ASSUME g = into, NEW h \in index'[g], h.source = s PROVE h = entry
                BY <3>7, <3>8, <4>2
            <4>3. CASE g = into /\ (e = entry \/ f = entry)
                <5>1. e.source = s /\ f.source = s
                    BY <3>5, <3>10, <4>3
                <5> QED BY <4>2, <4>3, <5>1
            <4> QED BY <3>7, <4>1, <4>3
        <3> QED BY <1>2, <3>9, <3>10 DEF Sourced, Renewed
    <2> QED BY <1>2, <2>3, <2>4
<1> QED BY <1>6, <1>10, <1>11, <1>12, <1>13 DEF RoundFacts

LEMMA RoundsStep == RoundInv /\ [Next]_vars => RoundInv'
<1> SUFFICES ASSUME RoundInv, [Next]_vars PROVE RoundInv'
    OBVIOUS
<1>1. ServedInv /\ ServedInv' /\ TypeOK /\ TypeOK'
    BY StepServed DEF RoundInv, ServedInv
<1>2. SUFFICES ASSUME ~overlapped' PROVE RoundFacts'
    BY <1>1 DEF RoundInv
<1>3. mode = "down" => RoundFacts
    BY <1>1, DownFacts DEF ServedInv
<1>4. live \in Nat /\ fresh \in Nat /\ live <= fresh
    BY <1>1, PipelineAssumption DEF ServedInv, RoundsInOrder, TypeOK
<1>5. CASE UNCHANGED vars
    BY <1>2, <1>5 DEF vars, RoundInv, RoundFacts, Apart, Untorn, Healed, Spared, Sourced, Found
<1>6. ASSUME NEW m \in {"serve", "pull"}, Build(m) PROVE RoundFacts'
    <2>1. \A s \in Source : pc'["initial"][s] = "wait" /\ pc'["refresh"][s] = pc["refresh"][s]
        BY <1>1, <1>6 DEF Build, TypeOK, Lane
    <2>2. \A s \in Source : pc["refresh"][s] = "idle"
        BY <1>1, <1>6 DEF Build, ServedInv, DownIsClean, AllIdle, Lane
    <2>3. \A g \in 0..MaxRefresh : index'[g] = {}
        BY <1>1, <1>6 DEF Build, ServedInv, DownIsClean, NoIndexes
    <2>4. fresh' = 0
        BY <1>1, <1>6 DEF Build, ServedInv, DownIsClean
    <2> QED BY <2>1, <2>2, <2>3, <2>4
            DEF RoundFacts, Apart, Untorn, Healed, Spared, Sourced, Lane
<1>7. CASE Exit
    <2>1. \A l \in Lane, s \in Source : pc'[l][s] = "idle"
        BY <1>7 DEF Exit, AllIdle
    <2>2. \A g \in 0..MaxRefresh : index'[g] = {}
        BY <1>7 DEF Exit, NoIndexes
    <2> QED BY <1>7, <2>1, <2>2 DEF Exit, RoundFacts, Apart, Untorn, Healed, Spared, Sourced
<1>8. CASE Close
    BY <1>2, <1>8 DEF Close, RoundInv, RoundFacts, Apart, Untorn, Healed, Spared, Sourced, Found
<1>9. CASE Tick
    <2>1. done /\ RoundFacts
        BY <1>1, <1>2, <1>9 DEF Tick, RoundInv, TypeOK
    <2>2. \A s \in Source : pc'["refresh"][s] = "wait" /\ pc'["initial"][s] = pc["initial"][s]
        BY <1>1, <1>9 DEF Tick, TypeOK, Lane
    <2>3. fresh' = fresh + 1 /\ UNCHANGED <<index, work, disk, live, done>>
        BY <1>9 DEF Tick
    <2>4. Apart' /\ Untorn' /\ Healed' /\ Spared'
        BY <2>1, <2>2, <2>3 DEF RoundFacts, Apart, Untorn, Healed, Spared, Found, Lane, Renewed
    <2>5. Sourced'
        <3>1. ASSUME NEW g \in 0..MaxRefresh, NEW e \in index[g] PROVE e.source \in Source
            <4>1. e \in Entry
                BY <1>1 DEF TypeOK
            <4> QED BY <4>1 DEF Entry
        <3> QED BY <1>4, <2>1, <2>2, <2>3, <3>1 DEF RoundFacts, Sourced, Renewed
    <2> QED BY <2>4, <2>5 DEF RoundFacts
<1>10. CASE Swap
    <2>1. RoundFacts
        BY <1>2, <1>10 DEF Swap, RoundInv
    <2>2. \A s \in Source : pc'["refresh"][s] = "idle" /\ pc'["initial"][s] = pc["initial"][s]
        BY <1>1, <1>10 DEF Swap, TypeOK, Lane
    <2>3. live' = fresh /\ UNCHANGED <<index, work, disk, fresh, done>>
        BY <1>10 DEF Swap
    <2>4. Apart' /\ Untorn' /\ Healed' /\ Spared'
        BY <2>1, <2>2, <2>3 DEF RoundFacts, Apart, Untorn, Healed, Spared, Found, Lane, Renewed
    <2>5. Sourced'
        <3>1. ASSUME NEW g \in 0..MaxRefresh, NEW e \in index[g] PROVE e.source \in Source
            <4>1. e \in Entry
                BY <1>1 DEF TypeOK
            <4> QED BY <4>1 DEF Entry
        <3> QED BY <1>4, <2>1, <2>2, <2>3, <3>1 DEF RoundFacts, Sourced, Renewed
    <2> QED BY <2>4, <2>5 DEF RoundFacts
<1>11. ASSUME NEW l \in Lane, NEW s \in Source, Worker(l, s) PROVE RoundFacts'
    <2>1. RoundFacts
        BY <1>1, <1>2, <1>11, WorkerStep DEF RoundInv
    <2> QED BY <1>1, <1>11, <2>1, WorkerKeepsRounds
<1> QED BY <1>5, <1>6, <1>7, <1>8, <1>9, <1>10, <1>11, NextCases DEF Worker

LEMMA RoundsInvariant == Spec => []RoundInv
<1>1. Init => RoundInv
    BY RoundsStart
<1>2. RoundInv /\ [Next]_vars => RoundInv'
    BY RoundsStep
<1> QED BY <1>1, <1>2, PTL DEF Spec

(* Rounds that do not overlap put a source at most once into an index, and *)
(* each into its own.                                                      *)
THEOREM MergesOnce == Spec => []OncePerIndex
<1>1. RoundInv => OncePerIndex
    BY DEF RoundInv, RoundFacts, Sourced, OncePerIndex
<1> QED BY <1>1, RoundsInvariant, PTL

(* Whatever earlier processes and rounds left on disk, what is indexed of  *)
(* a source that is always fetched is whole.                               *)
THEOREM AlwaysHeals == Spec => []AlwaysIndexesWhole
<1>1. RoundInv => AlwaysIndexesWhole
    BY DEF RoundInv, RoundFacts, Sourced, Renewed, AlwaysIndexesWhole
<1> QED BY <1>1, RoundsInvariant, PTL

(* A source that is not always fetched is fetched at most once, for good.  *)
THEOREM CacheIsKept == Spec => CachedContentKept
<1> DEFINE Kept == \A d \in Place, s \in Source :
            ~overlapped /\ Policy[s] # "always" /\ disk[d][s] = "whole"
                => disk'[d][s] = disk[d][s]
<1>1. RoundInv /\ [Next]_vars => Kept
    <2> SUFFICES ASSUME RoundInv, [Next]_vars, ~overlapped PROVE Kept
        OBVIOUS
    <2>1. RoundFacts /\ ServedInv /\ TypeOK
        BY DEF RoundInv, ServedInv
    <2>2. CASE disk' = disk
        BY <2>2
    <2>3. ASSUME NEW l \in Lane, NEW s \in Source, Worker(l, s) PROVE Kept
        <3>1. pc[l][s] \in Busies
            BY <2>1, <2>3, WorkerStep DEF Busies
        <3>2. ~Contended(l, s)
            <4>1. pc[Other(l)][s] \notin Busies
                BY <2>1, <3>1, OneRound DEF RoundFacts
            <4> QED BY <4>1 DEF Contended, Busies, Running
        <3>3. Effect(l, s) /\ Elsewhere(l, s)
            BY <2>1, <2>3, <3>2, WorkerEffect
        <3>4. ASSUME Policy[s] # "always", Found(l, s) = "whole" PROVE Left(l, s) = Found(l, s)
            <4>1. pc[l][s] \notin {"clear", "open", "write"}
                BY <2>1, <3>4 DEF RoundFacts, Spared
            <4> QED BY <3>3, <4>1 DEF Effect, Moves
        <3> QED BY <3>3, <3>4 DEF Elsewhere, Found, Left
    <2>4. \/ disk' = disk
          \/ \E l \in Lane, s \in Source : Worker(l, s)
        BY NextCases DEF vars, Build, Exit, Close, Tick, Swap, Worker
    <2> QED BY <2>2, <2>3, <2>4
<1> QED BY <1>1, RoundsInvariant, PTL DEF Spec, CachedContentKept
=============================================================================
