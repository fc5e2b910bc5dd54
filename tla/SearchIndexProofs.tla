--------------------------- MODULE SearchIndexProofs ---------------------------
(***************************************************************************)
(* Theorems about SearchIndex, for any chunks, terms and queries and any   *)
(* number of goroutines that merge and search: the index that grows by     *)
(* merges is the one built from all chunks at once, and a search sees it   *)
(* as it is between two merges.  The induction follows the lock: who holds *)
(* it, how far the batch of a merge is posted, and what a search that      *)
(* holds it for reading has added up.                                      *)
(***************************************************************************)
EXTENDS SearchIndex, DataLemmas, SequenceTheorems

(* A merger has announced itself or holds mu exactly while it is appending *)
(* or indexing, and indexes alone; a searcher is in or parked while it     *)
(* searches, and only one that is in has gone on to the scores.            *)
LockHeld ==
    /\ \A m \in Merger : mpc[m] \in {"append", "index"} <=> writer = m
    /\ \A m \in Merger : mpc[m] = "index" => reading = {}
    /\ reading \cap parked = {}
    /\ writer = NoOne => parked = {}
    /\ \A s \in Searcher :
        /\ s \in reading \cup parked <=> spc[s] \in {"count", "score"}
        /\ spc[s] = "score" => s \in reading

(* The merger whose chunks are in the index while their lengths are not.   *)
Indexing == writer # NoOne /\ mpc[writer] = "index"

(* How many chunks are posted. *)
Posted_ == Len(docLen) + IF Indexing THEN Len(job[writer].newDocLen) ELSE 0

(* A batch is one Merge was called with; while it is indexed it is at the  *)
(* end of the chunks, behind those that have a length.                     *)
JobKept(m) ==
    /\ mpc[m] # "idle" => job[m].batch \in Batch /\ Len(job[m].batch) > 0
    /\ mpc[m] \in {"lock", "append"} => job[m].newDocLen = <<>> /\ job[m].addedLen = 0
    /\ mpc[m] = "index" =>
        /\ job[m].base = Len(docLen)
        /\ chunks = SubSeq(chunks, 1, Len(docLen)) \o job[m].batch
        /\ Len(chunks) = Len(docLen) + Len(job[m].batch)
        /\ Len(job[m].newDocLen) <= Len(job[m].batch)
        /\ \A i \in 1..Len(job[m].newDocLen) : job[m].newDocLen[i] = BodyLen[job[m].batch[i]]

JobsKept == \A m \in Merger : JobKept(m)

Lens == [d \in 1..Len(chunks) |-> BodyLen[chunks[d]]]

(* What the lists of a field are when n chunks are posted. *)
Listed(cs, count, n, t) ==
    [d \in {e \in 1..n : count[cs[e]][t] > 0} |-> count[cs[d]][t]]

LengthsKept ==
    /\ Len(docLen) <= Len(chunks)
    /\ ~Indexing => Len(docLen) = Len(chunks)
    /\ \A d \in 1..Len(docLen) : docLen[d] = BodyLen[chunks[d]]
    /\ totalBodyLen = SumFunctionOnSet(Lens, 1..Len(docLen))
    /\ Indexing => totalBodyLen + job[writer].addedLen = SumFunctionOnSet(Lens, 1..Posted_)
    /\ avgLen = <<totalBodyLen, Len(docLen)>>

PostingsKept ==
    /\ termFreq = [t \in Term |-> Listed(chunks, Body, Posted_, t)]
    /\ titleInv = [t \in Term |-> Listed(chunks, Title, Posted_, t)]
    /\ tagInv = [t \in Term |-> Listed(chunks, Tag, Posted_, t)]
    /\ inverted = [t \in Term |-> DOMAIN Listed(chunks, Body, Posted_, t)]

CallKept(s) ==
    /\ DOMAIN call[s] = DOMAIN NoCall
    /\ spc[s] # "idle" =>
        /\ call[s].query \in Query /\ Len(call[s].query) > 0
        /\ \E k \in MaxResults : call[s].cap = Cap(k)
        /\ call[s].next \in 1..(Len(call[s].query) + 1)
    /\ spc[s] \in {"rlock", "count"} => call[s].next = 1 /\ call[s].score = <<>>
    /\ spc[s] = "score" => call[s].n = Len(chunks)

CallsKept == \A s \in Searcher : CallKept(s)

IndexInv == TypeOK /\ LockHeld /\ JobsKept /\ LengthsKept /\ PostingsKept /\ CallsKept

(* What the first k terms of query q add up to, for each chunk that one of *)
(* them scores, and that a search past those terms has computed this.      *)
Addends(ix, n, q, d) == [i \in 1..Len(q) |-> TermScore(ix, n, q[i], d)]

RunningScore(ix, n, q, k) ==
    [d \in UNION {Scored(ix, q[i]) : i \in 1..k} |->
        SumFunctionOnSet(Addends(ix, n, q, d), 1..k)]

ScoreInv ==
    \A s \in Searcher : spc[s] = "score" =>
        call[s].score =
            RunningScore(NewIndex(chunks), Len(chunks), call[s].query, call[s].next - 1)

(* BM25's score is a number, whatever it is: the theorem about answers     *)
(* needs no more of it.  Whole numbers stand for the code's floats.        *)
ScoreIsNumber ==
    \A n, df, tf, len \in Nat, avg \in Nat \X Nat : BodyScore(n, df, tf, len, avg) \in Int

-----------------------------------------------------------------------------
(* Every step is one of these, with its goroutine named. *)
LEMMA NextCases ==
    ASSUME Next
    PROVE  \/ \E m \in Merger :
                MergeCall(m) \/ MergeLock(m) \/ MergeAppend(m) \/ MergeIndex(m) \/ MergeFinish(m)
           \/ \E s \in Searcher :
                SearchCall(s) \/ SearchRLock(s) \/ SearchCount(s) \/ SearchScore1(s) \/ SearchReturn(s)
BY DEF Next, Merge, Search

LEMMA LockInit == Init => LockHeld
BY ProcessAssumption DEF Init, LockHeld

LEMMA LockStep ==
    ASSUME TypeOK, LockHeld, [Next]_vars
    PROVE  LockHeld'
<1> USE ProcessAssumption DEF TypeOK, LockHeld
<1>1. CASE UNCHANGED vars
    BY <1>1 DEF vars, mu
<1>2. ASSUME NEW m \in Merger, MergeCall(m) PROVE LockHeld'
    BY <1>2 DEF MergeCall, mu
<1>3. ASSUME NEW m \in Merger, MergeLock(m) PROVE LockHeld'
    BY <1>3 DEF MergeLock, Lock
<1>4. ASSUME NEW m \in Merger, MergeAppend(m) PROVE LockHeld'
    BY <1>4 DEF MergeAppend, Locked, mu
<1>5. ASSUME NEW m \in Merger, MergeIndex(m) PROVE LockHeld'
    BY <1>5 DEF MergeIndex, mu
<1>6. ASSUME NEW m \in Merger, MergeFinish(m) PROVE LockHeld'
    BY <1>6 DEF MergeFinish, Unlock
<1>7. ASSUME NEW s \in Searcher, SearchCall(s) PROVE LockHeld'
    BY <1>7 DEF SearchCall, mu
<1>8. ASSUME NEW s \in Searcher, SearchRLock(s) PROVE LockHeld'
    BY <1>8 DEF SearchRLock, RLock
<1>9. ASSUME NEW s \in Searcher, SearchCount(s) PROVE LockHeld'
    BY <1>9 DEF SearchCount, mu
<1>10. ASSUME NEW s \in Searcher, SearchScore1(s) PROVE LockHeld'
    BY <1>10 DEF SearchScore1, mu
<1>11. ASSUME NEW s \in Searcher, SearchReturn(s) PROVE LockHeld'
    BY <1>11 DEF SearchReturn, RUnlock
<1>12. QED
    BY <1>1, <1>2, <1>3, <1>4, <1>5, <1>6, <1>7, <1>8, <1>9, <1>10, <1>11, NextCases

-----------------------------------------------------------------------------
(* Lists of postings and lengths. *)
LEMMA PostedNext ==
    ASSUME NEW cs \in Seq(Chunk), NEW count \in [Chunk -> [Term -> Nat]], NEW t \in Term,
           NEW n \in Nat, n + 1 <= Len(cs)
    PROVE  /\ Posted(Listed(cs, count, n, t), n + 1, count[cs[n + 1]][t])
                  = Listed(cs, count, n + 1, t)
           /\ DOMAIN Listed(cs, count, n, t)
                  \cup (IF count[cs[n + 1]][t] > 0 THEN {n + 1} ELSE {})
                  = DOMAIN Listed(cs, count, n + 1, t)
<1> DEFINE m == count[cs[n + 1]][t]
           On(k) == {e \in 1..k : count[cs[e]][t] > 0}
<1>1. \A e \in 1..(n + 1) : count[cs[e]][t] \in Nat
    OBVIOUS
<1>2. CASE m = 0
    <2>1. On(n + 1) = On(n)
        BY <1>1, <1>2
    <2>2. QED
        BY <1>2, <2>1 DEF Posted, Listed
<1>3. CASE m > 0
    <2>1. On(n + 1) = On(n) \cup {n + 1} /\ n + 1 \notin On(n)
        BY <1>1, <1>3
    <2> DEFINE old == Listed(cs, count, n, t)
               new == [e \in On(n) \cup {n + 1} |->
                    (IF e \in On(n) THEN old[e] ELSE 0) + (IF e = n + 1 THEN m ELSE 0)]
    <2>2. DOMAIN old = On(n) /\ \A e \in On(n) : old[e] = count[cs[e]][t] /\ old[e] \in Nat
        BY <1>1 DEF Listed
    <2>3. Posted(old, n + 1, m) = new
        BY <1>3, <2>2 DEF Posted
    <2>4. \A e \in On(n + 1) : new[e] = count[cs[e]][t]
        <3> HIDE DEF old, On
        <3>1. new[n + 1] = m
            BY <1>3, <2>1
        <3>2. \A e \in On(n) : new[e] = count[cs[e]][t]
            BY <2>1, <2>2
        <3>3. QED
            BY <2>1, <3>1, <3>2
    <2>5. new = Listed(cs, count, n + 1, t)
        BY <2>1, <2>4 DEF Listed
    <2>6. QED
        BY <1>3, <2>1, <2>3, <2>5 DEF Listed
<1>4. QED
    BY <1>1, <1>2, <1>3

LEMMA ListedAlike ==
    ASSUME NEW cs, NEW ds, NEW count, NEW t, NEW n \in Nat, \A d \in 1..n : cs[d] = ds[d]
    PROVE  Listed(cs, count, n, t) = Listed(ds, count, n, t)
BY DEF Listed

(* The merger that has mu is the only one that is past its lock. *)
LEMMA OneWriter ==
    ASSUME TypeOK, LockHeld, NEW m \in Merger, mpc[m] \in {"append", "index"}
    PROVE  /\ writer = m /\ m # NoOne
           /\ Indexing <=> mpc[m] = "index"
           /\ \A k \in Merger : k # m => mpc[k] \in {"idle", "lock"}
BY ProcessAssumption DEF TypeOK, LockHeld, Indexing

LEMMA NoReaders ==
    ASSUME TypeOK, LockHeld, NEW s \in Searcher, s \in reading
    PROVE  ~Indexing
BY ProcessAssumption DEF TypeOK, LockHeld, Indexing

LEMMA DataInit == Init => IndexInv
<1> SUFFICES ASSUME Init PROVE IndexInv
    OBVIOUS
<1> USE ProcessAssumption DEF Init
<1>1. TypeOK
    BY DEF TypeOK, NoJob
<1>2. ~Indexing /\ Posted_ = 0
    BY DEF Indexing, Posted_
<1>3. 1..0 = {}
    OBVIOUS
<1>4. LengthsKept
    BY <1>2, <1>3, SumOfNone DEF LengthsKept
<1>5. PostingsKept
    BY <1>2, <1>3 DEF PostingsKept, Listed
<1>6. JobsKept
    BY DEF JobsKept, JobKept
<1>7. CallsKept
    BY DEF CallsKept, CallKept
<1>8. QED
    BY <1>1, <1>4, <1>5, <1>6, <1>7, LockInit DEF IndexInv

-----------------------------------------------------------------------------
(* The steps that leave the index alone. *)
Elsewhere ==
    \/ UNCHANGED vars
    \/ \E m \in Merger : MergeCall(m) \/ MergeLock(m)
    \/ \E s \in Searcher :
         SearchCall(s) \/ SearchRLock(s) \/ SearchCount(s) \/ SearchScore1(s) \/ SearchReturn(s)

LEMMA ElsewhereKeeps ==
    ASSUME TypeOK, LockHeld, Elsewhere
    PROVE  /\ UNCHANGED <<chunks, inverted, termFreq, titleInv, tagInv, docLen, totalBodyLen, avgLen>>
           /\ Indexing' <=> Indexing
           /\ Indexing => job'[writer'] = job[writer]
           /\ Posted_' = Posted_
<1> USE ProcessAssumption DEF TypeOK, LockHeld
<1> DEFINE Alone ==
        /\ UNCHANGED <<chunks, inverted, termFreq, titleInv, tagInv, docLen, totalBodyLen, avgLen>>
        /\ Indexing' <=> Indexing
        /\ Indexing => job'[writer'] = job[writer]
<1>1. Alone
    <2>1. CASE UNCHANGED vars
        BY <2>1 DEF vars, mu, postings, lengths, Indexing
    <2>2. ASSUME NEW m \in Merger, MergeCall(m) PROVE Alone
        BY <2>2 DEF MergeCall, mu, postings, lengths, Indexing
    <2>3. ASSUME NEW m \in Merger, MergeLock(m) PROVE Alone
        BY <2>3 DEF MergeLock, Lock, postings, lengths, Indexing
    <2>4. ASSUME NEW s \in Searcher, SearchCall(s) PROVE Alone
        BY <2>4 DEF SearchCall, mu, postings, lengths, Indexing
    <2>5. ASSUME NEW s \in Searcher, SearchRLock(s) PROVE Alone
        BY <2>5 DEF SearchRLock, RLock, postings, lengths, Indexing
    <2>6. ASSUME NEW s \in Searcher, SearchCount(s) PROVE Alone
        BY <2>6 DEF SearchCount, mu, postings, lengths, Indexing
    <2>7. ASSUME NEW s \in Searcher, SearchScore1(s) PROVE Alone
        BY <2>7 DEF SearchScore1, mu, postings, lengths, Indexing
    <2>8. ASSUME NEW s \in Searcher, SearchReturn(s) PROVE Alone
        BY <2>8 DEF SearchReturn, RUnlock, postings, lengths, Indexing
    <2>9. QED
        BY <2>1, <2>2, <2>3, <2>4, <2>5, <2>6, <2>7, <2>8 DEF Elsewhere
<1>2. QED
    BY <1>1 DEF Posted_

(* A merger's batch, the chunks it is at and the counts they bring. *)
LEMMA BatchTyped ==
    ASSUME TypeOK, NEW m \in Merger
    PROVE  /\ job[m] \in [batch : Seq(Chunk), base : Nat, newDocLen : Seq(Nat), addedLen : Nat]
           /\ Len(job[m].batch) \in Nat /\ Len(job[m].newDocLen) \in Nat
           /\ \A i \in 1..Len(job[m].batch) : job[m].batch[i] \in Chunk
           /\ \A c \in Chunk : BodyLen[c] \in Nat
BY ChunkAssumption DEF TypeOK

LEMMA TypeStep ==
    ASSUME IndexInv, [Next]_vars
    PROVE  TypeOK'
<1> USE ProcessAssumption, ChunkAssumption DEF IndexInv
<1>1. CASE UNCHANGED vars
    BY <1>1 DEF TypeOK, vars, mu, postings, lengths
<1>2. ASSUME NEW m \in Merger, MergeCall(m) PROVE TypeOK'
    <2>1. PICK b \in Batch : job' = [job EXCEPT ![m] = [NoJob EXCEPT !.batch = b]]
        BY <1>2 DEF MergeCall
    <2>2. NoJob \in [batch : Seq(Chunk), base : Nat, newDocLen : Seq(Nat), addedLen : Nat]
        BY DEF NoJob
    <2>3. b \in Seq(Chunk)
        OBVIOUS
    <2>4. [NoJob EXCEPT !.batch = b]
             \in [batch : Seq(Chunk), base : Nat, newDocLen : Seq(Nat), addedLen : Nat]
        BY <2>2, <2>3
    <2>5. job' \in [Merger -> [batch : Seq(Chunk), base : Nat, newDocLen : Seq(Nat), addedLen : Nat]]
        BY <2>1, <2>4 DEF TypeOK
    <2>6. QED
        BY <1>2, <2>5 DEF TypeOK, MergeCall, mu, postings, lengths
<1>3. ASSUME NEW m \in Merger, MergeLock(m) PROVE TypeOK'
    BY <1>3 DEF TypeOK, MergeLock, Lock, postings, lengths
<1>4. ASSUME NEW m \in Merger, MergeAppend(m) PROVE TypeOK'
    <2>1. chunks' \in Seq(Chunk)
        BY <1>4, BatchTyped DEF TypeOK, MergeAppend
    <2>2. Len(chunks) \in Nat
        BY DEF TypeOK
    <2>3. [job[m] EXCEPT !.base = Len(chunks)]
             \in [batch : Seq(Chunk), base : Nat, newDocLen : Seq(Nat), addedLen : Nat]
        BY <2>2, BatchTyped
    <2>4. QED
        BY <1>4, <2>1, <2>3 DEF TypeOK, MergeAppend, mu, postings, lengths
<1>5. ASSUME NEW m \in Merger, MergeIndex(m) PROVE TypeOK'
    <2> DEFINE i == Len(job[m].newDocLen) + 1
               c == job[m].batch[i]
               d == job[m].base + i
    <2>1. c \in Chunk /\ d \in Nat \ {0} /\ BodyLen[c] \in Nat
        <3>1. i \in 1..Len(job[m].batch) /\ job[m].base \in Nat
            BY <1>5, BatchTyped DEF MergeIndex
        <3> HIDE DEF i
        <3>2. QED
            BY <3>1, BatchTyped
    <2>2. Append(job[m].newDocLen, BodyLen[c]) \in Seq(Nat)
        BY <2>1, BatchTyped
    <2>3. job[m].addedLen + BodyLen[c] \in Nat
        BY <2>1, BatchTyped
    <2>4. job' = [job EXCEPT ![m].newDocLen = Append(@, BodyLen[c]), ![m].addedLen = @ + BodyLen[c]]
        BY <1>5 DEF MergeIndex
    <2>5. inverted' = [t \in Term |-> inverted[t] \cup (IF Body[c][t] > 0 THEN {d} ELSE {})]
        BY <1>5 DEF MergeIndex
    <2> HIDE DEF i, c, d
    <2>6. job' \in [Merger -> [batch : Seq(Chunk), base : Nat, newDocLen : Seq(Nat), addedLen : Nat]]
        BY <2>2, <2>3, <2>4, BatchTyped DEF TypeOK
    <2>7. inverted' \in [Term -> SUBSET (Nat \ {0})]
        BY <2>1, <2>5 DEF TypeOK
    <2>8. QED
        BY <1>5, <2>6, <2>7 DEF TypeOK, MergeIndex, mu, lengths
<1>6. ASSUME NEW m \in Merger, MergeFinish(m) PROVE TypeOK'
    <2>1. NoJob \in [batch : Seq(Chunk), base : Nat, newDocLen : Seq(Nat), addedLen : Nat]
        BY DEF NoJob
    <2>2. docLen' \in Seq(Nat) /\ totalBodyLen' \in Nat
        BY <1>6, BatchTyped DEF TypeOK, MergeFinish
    <2>3. avgLen' \in Nat \X Nat
        BY <1>6, <2>2 DEF TypeOK, MergeFinish
    <2>4. QED
        BY <1>6, <2>1, <2>2, <2>3 DEF TypeOK, MergeFinish, Unlock, postings
<1>7. ASSUME NEW s \in Searcher, SearchCall(s) PROVE TypeOK'
    <2>1. spc' \in [Searcher -> {"idle", "rlock", "count", "score"}]
        BY <1>7 DEF TypeOK, SearchCall
    <2>2. DOMAIN call' = Searcher /\ DOMAIN answer' = Searcher
        BY <1>7 DEF TypeOK, SearchCall
    <2>3. QED
        BY <1>7, <2>1, <2>2 DEF TypeOK, SearchCall, mu, postings, lengths
<1>8. ASSUME NEW s \in Searcher, SearchRLock(s) PROVE TypeOK'
    BY <1>8 DEF TypeOK, SearchRLock, RLock, postings, lengths
<1>9. ASSUME NEW s \in Searcher, SearchCount(s) PROVE TypeOK'
    BY <1>9 DEF TypeOK, SearchCount, mu, postings, lengths
<1>10. ASSUME NEW s \in Searcher, SearchScore1(s) PROVE TypeOK'
    BY <1>10 DEF TypeOK, SearchScore1, mu, postings, lengths
<1>11. ASSUME NEW s \in Searcher, SearchReturn(s) PROVE TypeOK'
    BY <1>11 DEF TypeOK, SearchReturn, RUnlock, postings, lengths
<1>12. QED
    BY <1>1, <1>2, <1>3, <1>4, <1>5, <1>6, <1>7, <1>8, <1>9, <1>10, <1>11, NextCases

(* The batches follow the chunks and lengths. *)
LEMMA PrefixOfConcat ==
    ASSUME NEW S, NEW a \in Seq(S), NEW b \in Seq(S)
    PROVE  /\ a \o b \in Seq(S) /\ Len(a \o b) = Len(a) + Len(b)
           /\ SubSeq(a \o b, 1, Len(a)) = a
           /\ \A i \in 1..Len(a) : (a \o b)[i] = a[i]
           /\ \A i \in 1..Len(b) : (a \o b)[Len(a) + i] = b[i]
<1>1. a \o b \in Seq(S) /\ Len(a \o b) = Len(a) + Len(b) /\ Len(a) \in Nat /\ Len(b) \in Nat
    OBVIOUS
<1>2. \A i \in 1..Len(a) : (a \o b)[i] = a[i]
    OBVIOUS
<1>3. \A i \in 1..Len(b) : (a \o b)[Len(a) + i] = b[i]
    OBVIOUS
<1>4. SubSeq(a \o b, 1, Len(a)) = a
    <2> DEFINE p == SubSeq(a \o b, 1, Len(a))
    <2>1. p \in Seq(S) /\ Len(p) = Len(a) /\ \A i \in 1..Len(a) : p[i] = (a \o b)[i]
        BY <1>1, SubSeqProperties
    <2> HIDE DEF p
    <2>2. QED
        BY <1>2, <2>1, SeqEqual
<1>5. QED
    BY <1>1, <1>2, <1>3, <1>4

LEMMA JobsStep ==
    ASSUME IndexInv, [Next]_vars
    PROVE  JobsKept'
<1> USE DEF IndexInv
<1>1. SUFFICES ASSUME NEW k \in Merger PROVE JobKept(k)'
    BY DEF JobsKept
<1>2. JobKept(k) /\ DOMAIN job = Merger /\ DOMAIN mpc = Merger
    BY DEF JobsKept, TypeOK
<1>3. CASE Elsewhere
    <2>1. UNCHANGED <<chunks, docLen>>
        BY <1>3, ElsewhereKeeps
    <2>2. CASE UNCHANGED <<mpc, job>>
        BY <1>2, <2>1, <2>2 DEF JobKept
    <2>3. ASSUME NEW m \in Merger, MergeCall(m) PROVE JobKept(k)'
        <3>1. CASE k = m
            BY <1>2, <2>1, <2>3, <3>1 DEF JobKept, MergeCall, NoJob
        <3>2. CASE k # m
            BY <1>2, <2>1, <2>3, <3>2 DEF JobKept, MergeCall
        <3>3. QED
            BY <3>1, <3>2
    <2>4. ASSUME NEW m \in Merger, MergeLock(m) PROVE JobKept(k)'
        BY <1>2, <2>1, <2>4 DEF JobKept, MergeLock
    <2>5. QED
        BY <1>3, <2>2, <2>3, <2>4
        DEF Elsewhere, vars, SearchCall, SearchRLock, SearchCount, SearchScore1, SearchReturn
<1>4. ASSUME NEW m \in Merger, MergeAppend(m) PROVE JobKept(k)'
    <2>1. mpc[m] = "append" /\ UNCHANGED docLen
        BY <1>4 DEF MergeAppend, lengths
    <2>2. CASE k # m
        BY <1>2, <1>4, <2>1, <2>2, OneWriter DEF JobKept, MergeAppend
    <2>3. CASE k = m
        <3>1. Len(docLen) = Len(chunks)
            BY <2>1, OneWriter DEF LengthsKept
        <3>2. job[m].batch \in Seq(Chunk) /\ chunks \in Seq(Chunk) /\ Len(job[m].batch) > 0
            BY <1>2, <2>1, <2>3, BatchTyped DEF TypeOK, JobKept
        <3>3. /\ job'[m].base = Len(chunks) /\ job'[m].batch = job[m].batch
              /\ job'[m].newDocLen = <<>> /\ mpc'[m] = "index"
              /\ chunks' = chunks \o job[m].batch
            BY <1>2, <1>4, <2>1, <2>3, BatchTyped DEF JobKept, MergeAppend
        <3>4. SubSeq(chunks', 1, Len(docLen)) = chunks /\ Len(chunks') = Len(chunks) + Len(job[m].batch)
            BY <3>1, <3>2, <3>3, PrefixOfConcat
        <3>5. job[m].batch \in Batch /\ Len(docLen') = Len(chunks)
            BY <1>2, <2>1, <2>3, <3>1 DEF JobKept
        <3>6. \A i \in 1..Len(job'[m].newDocLen) : FALSE
            BY <3>3
        <3>7. chunks' = SubSeq(chunks', 1, Len(docLen')) \o job'[m].batch
            <4>1. SubSeq(chunks', 1, Len(docLen')) = chunks
                BY <2>1, <3>1, <3>4
            <4>2. chunks' = chunks \o job'[m].batch
                BY <3>3
            <4>3. QED
                BY <4>1, <4>2, Zenon
        <3>8. Len(job'[m].newDocLen) <= Len(job'[m].batch) /\ Len(job'[m].batch) > 0
            BY <3>2, <3>3
        <3>9. Len(chunks') = Len(docLen') + Len(job'[m].batch) /\ job'[m].base = Len(docLen')
            BY <3>3, <3>4, <3>5
        <3>10. QED
            BY <2>3, <3>3, <3>5, <3>6, <3>7, <3>8, <3>9 DEF JobKept
    <2>4. QED
        BY <2>2, <2>3
<1>5. ASSUME NEW m \in Merger, MergeIndex(m) PROVE JobKept(k)'
    <2>1. mpc[m] = "index" /\ UNCHANGED <<docLen, chunks, mpc>>
        BY <1>5 DEF MergeIndex, lengths
    <2>2. CASE k # m
        BY <1>2, <1>5, <2>1, <2>2, OneWriter DEF JobKept, MergeIndex
    <2>3. CASE k = m
        <3> DEFINE old == job[m].newDocLen
                   i == Len(old) + 1
                   c == job[m].batch[i]
        <3>1. /\ job'[m].base = job[m].base /\ job'[m].batch = job[m].batch
              /\ job'[m].newDocLen = Append(old, BodyLen[c])
              /\ i <= Len(job[m].batch)
            BY <1>2, <1>5, BatchTyped DEF MergeIndex
        <3>2. old \in Seq(Nat) /\ c \in Chunk /\ BodyLen[c] \in Nat /\ Len(old) \in Nat
            BY <3>1, BatchTyped
        <3>3. /\ Len(Append(old, BodyLen[c])) = Len(old) + 1
              /\ \A j \in 1..Len(old) : Append(old, BodyLen[c])[j] = old[j]
              /\ Append(old, BodyLen[c])[Len(old) + 1] = BodyLen[c]
            BY <3>2
        <3>4. \A j \in 1..Len(old) : old[j] = BodyLen[job[m].batch[j]]
            BY <1>2, <2>1, <2>3 DEF JobKept
        <3>5. \A j \in 1..(Len(old) + 1) : Append(old, BodyLen[c])[j] = BodyLen[job[m].batch[j]]
            BY <3>2, <3>3, <3>4
        <3>6. /\ Len(job'[m].newDocLen) <= Len(job'[m].batch)
              /\ \A j \in 1..Len(job'[m].newDocLen) :
                    job'[m].newDocLen[j] = BodyLen[job'[m].batch[j]]
            BY <3>1, <3>3, <3>5
        <3> HIDE DEF old, i, c
        <3>7. QED
            BY <1>2, <2>1, <2>3, <3>1, <3>6 DEF JobKept
    <2>4. QED
        BY <2>2, <2>3
<1>6. ASSUME NEW m \in Merger, MergeFinish(m) PROVE JobKept(k)'
    <2>1. CASE k = m
        BY <1>2, <1>6, <2>1 DEF JobKept, MergeFinish
    <2>2. CASE k # m
        BY <1>2, <1>6, <2>2, OneWriter DEF JobKept, MergeFinish
    <2>3. QED
        BY <2>1, <2>2
<1>7. QED
    BY <1>3, <1>4, <1>5, <1>6, NextCases DEF Elsewhere

(* Where the batch of a merge is among the chunks, and what its chunks add. *)
LEMMA PrefixIs ==
    ASSUME NEW S, NEW a \in Seq(S), NEW n \in Nat, n <= Len(a)
    PROVE  /\ SubSeq(a, 1, n) \in Seq(S) /\ Len(SubSeq(a, 1, n)) = n
           /\ \A i \in 1..n : SubSeq(a, 1, n)[i] = a[i]
OBVIOUS

LEMMA BatchInPlace ==
    ASSUME IndexInv, NEW m \in Merger, mpc[m] = "index"
    PROVE  /\ Posted_ = Len(docLen) + Len(job[m].newDocLen) /\ Posted_ \in Nat
           /\ Posted_ <= Len(chunks) /\ Len(chunks) = Len(docLen) + Len(job[m].batch)
           /\ writer = m /\ Indexing
           /\ \A j \in 1..Len(job[m].batch) :
                /\ chunks[Len(docLen) + j] = job[m].batch[j]
                /\ job[m].batch[j] \in Chunk
           /\ \A j \in 1..Len(job[m].newDocLen) :
                /\ job[m].newDocLen[j] = BodyLen[job[m].batch[j]]
                /\ j \in 1..Len(job[m].batch)
<1> USE DEF IndexInv
<1>1. writer = m /\ Indexing
    BY OneWriter
<1>2. Len(docLen) \in Nat /\ Len(chunks) \in Nat /\ chunks \in Seq(Chunk)
    BY DEF TypeOK
<1>3. JobKept(m)
    BY DEF JobsKept
<1>4. Posted_ = Len(docLen) + Len(job[m].newDocLen) /\ Posted_ \in Nat
    BY <1>1, <1>2, BatchTyped DEF Posted_
<1> DEFINE p == SubSeq(chunks, 1, Len(docLen))
<1>5. chunks = p \o job[m].batch /\ Len(docLen) <= Len(chunks)
    BY <1>3 DEF JobKept, LengthsKept
<1>6. p \in Seq(Chunk) /\ Len(p) = Len(docLen)
    <2>1. Len(docLen) <= Len(chunks)
        BY <1>5
    <2>2. QED
        BY <1>2, <2>1, PrefixIs
<1> HIDE DEF p
<1>7. \A j \in 1..Len(job[m].batch) : chunks[Len(docLen) + j] = job[m].batch[j]
    BY <1>5, <1>6, PrefixOfConcat, BatchTyped
<1>8. QED
    <2>1. /\ Len(chunks) = Len(docLen) + Len(job[m].batch)
          /\ Len(job[m].newDocLen) <= Len(job[m].batch)
          /\ \A i \in 1..Len(job[m].newDocLen) : job[m].newDocLen[i] = BodyLen[job[m].batch[i]]
        BY <1>3 DEF JobKept
    <2>2. \A j \in 1..Len(job[m].newDocLen) : j \in 1..Len(job[m].batch)
        BY <2>1, BatchTyped
    <2>3. Posted_ <= Len(chunks)
        BY <1>2, <1>4, <2>1, BatchTyped
    <2>4. QED
        BY <1>1, <1>4, <1>7, <2>1, <2>2, <2>3, BatchTyped

LEMMA LensTyped ==
    ASSUME TypeOK
    PROVE  /\ Len(chunks) \in Nat /\ Len(docLen) \in Nat
           /\ \A d \in 1..Len(chunks) : Lens[d] = BodyLen[chunks[d]] /\ Lens[d] \in Nat
BY ChunkAssumption DEF TypeOK, Lens

(* What the writes of a merge leave and change of the chunks and of how     *)
(* many are posted.                                                        *)
LEMMA AppendKeeps ==
    ASSUME IndexInv, NEW m \in Merger, MergeAppend(m)
    PROVE  /\ ~Indexing /\ Indexing' /\ writer' = m
           /\ job'[m].newDocLen = <<>> /\ job'[m].addedLen = 0
           /\ Posted_ = Len(docLen) /\ Posted_' = Len(docLen) /\ Len(docLen) = Len(chunks)
           /\ Len(chunks') = Len(chunks) + Len(job[m].batch)
           /\ \A d \in 1..Len(chunks) : chunks'[d] = chunks[d]
<1> USE DEF IndexInv
<1>1. /\ mpc[m] = "append" /\ UNCHANGED <<docLen, totalBodyLen, avgLen>>
      /\ chunks' = chunks \o job[m].batch
    BY DEF MergeAppend, lengths
<1>2. writer = m /\ m # NoOne /\ ~Indexing
    BY <1>1, OneWriter
<1>3. writer' = m /\ mpc'[m] = "index"
    BY <1>2 DEF MergeAppend, mu, TypeOK
<1>4. job'[m].newDocLen = <<>> /\ job'[m].addedLen = 0
    <2>1. job[m].newDocLen = <<>> /\ job[m].addedLen = 0
        BY <1>1 DEF JobsKept, JobKept
    <2>2. job' = [job EXCEPT ![m].base = Len(chunks)]
        BY DEF MergeAppend
    <2>3. QED
        BY <2>1, <2>2, BatchTyped DEF TypeOK
<1>5. Posted_ = Len(docLen) /\ Indexing' /\ Posted_' = Len(docLen)
    BY <1>1, <1>2, <1>3, <1>4, LensTyped DEF Indexing, Posted_
<1>6. Len(chunks') = Len(chunks) + Len(job[m].batch) /\ \A d \in 1..Len(chunks) : chunks'[d] = chunks[d]
    BY <1>1, PrefixOfConcat, BatchTyped DEF TypeOK
<1>7. QED
    BY <1>2, <1>3, <1>4, <1>5, <1>6 DEF LengthsKept

LEMMA IndexAdds ==
    ASSUME IndexInv, NEW m \in Merger, MergeIndex(m)
    PROVE  LET c == job[m].batch[Len(job[m].newDocLen) + 1]
           IN  /\ writer = m /\ Indexing /\ Posted_ \in Nat
               /\ c \in Chunk /\ chunks[Posted_ + 1] = c /\ BodyLen[c] \in Nat
               /\ Posted_ + 1 = job[m].base + Len(job[m].newDocLen) + 1
               /\ Posted_ + 1 \in 1..Len(chunks) /\ Posted_' = Posted_ + 1
               /\ job'[m].addedLen = job[m].addedLen + BodyLen[c]
<1> USE DEF IndexInv
<1> DEFINE i == Len(job[m].newDocLen) + 1
           c == job[m].batch[i]
<1>1. /\ mpc[m] = "index" /\ UNCHANGED <<docLen, writer, mpc>>
      /\ i <= Len(job[m].batch)
      /\ job' = [job EXCEPT ![m].newDocLen = Append(@, BodyLen[c]), ![m].addedLen = @ + BodyLen[c]]
    BY DEF MergeIndex, lengths, mu
<1>2. Len(job[m].newDocLen) \in Nat /\ job[m].newDocLen \in Seq(Nat) /\ i \in 1..Len(job[m].batch)
    BY <1>1, BatchTyped
<1>3. /\ Posted_ = Len(docLen) + Len(job[m].newDocLen) /\ Posted_ \in Nat
      /\ writer = m /\ Indexing /\ Len(chunks) = Len(docLen) + Len(job[m].batch)
      /\ chunks[Len(docLen) + i] = c /\ c \in Chunk
    BY <1>1, <1>2, BatchInPlace
<1>4. BodyLen[c] \in Nat /\ job[m].base = Len(docLen)
    BY <1>1, <1>3, BatchTyped DEF JobsKept, JobKept
<1>5. job'[m].newDocLen = Append(job[m].newDocLen, BodyLen[c])
      /\ job'[m].addedLen = job[m].addedLen + BodyLen[c]
    BY <1>1, BatchTyped DEF TypeOK
<1>6. Len(job'[m].newDocLen) = Len(job[m].newDocLen) + 1
    BY <1>2, <1>4, <1>5
<1>7. Posted_' = Len(docLen) + Len(job'[m].newDocLen)
    BY <1>1, <1>3 DEF Posted_, Indexing
<1>8. Posted_' = Posted_ + 1
    BY <1>2, <1>3, <1>6, <1>7, LensTyped
<1>9. Posted_ + 1 = Len(docLen) + i /\ Posted_ + 1 \in 1..Len(chunks)
    BY <1>2, <1>3, LensTyped
<1>10. chunks[Posted_ + 1] = c
    BY <1>3, <1>9
<1>11. QED
    BY <1>3, <1>4, <1>5, <1>8, <1>9, <1>10

LEMMA FinishKeeps ==
    ASSUME IndexInv, NEW m \in Merger, MergeFinish(m)
    PROVE  /\ Indexing /\ ~Indexing' /\ Posted_' = Posted_ /\ Posted_ = Len(chunks)
           /\ Len(docLen') = Len(chunks)
           /\ \A d \in 1..Len(docLen) : docLen'[d] = docLen[d]
           /\ \A j \in 1..Len(job[m].newDocLen) : docLen'[Len(docLen) + j] = job[m].newDocLen[j]
<1> USE DEF IndexInv
<1>1. /\ mpc[m] = "index" /\ writer' = NoOne
      /\ Len(job[m].newDocLen) = Len(job[m].batch)
      /\ docLen' = docLen \o job[m].newDocLen
    BY DEF MergeFinish, Unlock
<1>2. /\ Posted_ = Len(docLen) + Len(job[m].newDocLen)
      /\ Len(chunks) = Len(docLen) + Len(job[m].newDocLen)
      /\ Indexing
    BY <1>1, BatchInPlace
<1>3. docLen \in Seq(Nat) /\ job[m].newDocLen \in Seq(Nat)
    BY BatchTyped DEF TypeOK
<1> DEFINE a == docLen
           b == job[m].newDocLen
<1>4. /\ Len(a \o b) = Len(a) + Len(b)
      /\ \A d \in 1..Len(a) : (a \o b)[d] = a[d]
      /\ \A j \in 1..Len(b) : (a \o b)[Len(a) + j] = b[j]
    <2> HIDE DEF a, b
    <2>1. a \in Seq(Nat) /\ b \in Seq(Nat)
        BY <1>3 DEF a, b
    <2>2. QED
        BY <2>1, PrefixOfConcat
<1>5. Len(docLen') = Len(chunks) /\ Len(chunks) \in Nat
    BY <1>1, <1>2, <1>4, LensTyped
<1>6. ~Indexing' /\ Posted_' = Posted_
    BY <1>1, <1>2, <1>5 DEF Indexing, Posted_
<1>7. QED
    BY <1>1, <1>2, <1>4, <1>5, <1>6

LEMMA LengthsStep ==
    ASSUME IndexInv, [Next]_vars
    PROVE  LengthsKept'
<1> USE DEF IndexInv
<1>1. LengthsKept
    OBVIOUS
<1>2. CASE Elsewhere
    <2>1. /\ UNCHANGED <<chunks, docLen, totalBodyLen, avgLen>>
          /\ Indexing' <=> Indexing
          /\ Indexing => job'[writer'] = job[writer]
          /\ Posted_' = Posted_
        BY <1>2, ElsewhereKeeps
    <2>2. Lens' = Lens
        BY <2>1 DEF Lens
    <2>3. QED
        BY <1>1, <2>1, <2>2 DEF LengthsKept
<1>3. ASSUME NEW m \in Merger, MergeAppend(m) PROVE LengthsKept'
    <2>1. /\ mpc[m] = "append" /\ UNCHANGED <<docLen, totalBodyLen, avgLen>>
          /\ chunks' = chunks \o job[m].batch
        BY <1>3 DEF MergeAppend, lengths
    <2>2. /\ ~Indexing /\ Indexing' /\ writer' = m
          /\ job'[m].newDocLen = <<>> /\ job'[m].addedLen = 0
          /\ Posted_' = Len(docLen) /\ Len(docLen) = Len(chunks)
          /\ Len(chunks') = Len(chunks) + Len(job[m].batch)
          /\ \A d \in 1..Len(chunks) : chunks'[d] = chunks[d]
          /\ Len(chunks) \in Nat /\ Len(job[m].batch) \in Nat
        BY <1>3, AppendKeeps, LensTyped, BatchTyped
    <2>3. SumFunctionOnSet(Lens', 1..Len(docLen)) = SumFunctionOnSet(Lens, 1..Len(docLen))
        <3>1. \A d \in 1..Len(docLen) : Lens'[d] = Lens[d]
            BY <2>2 DEF Lens
        <3>2. QED
            BY <2>2, <3>1, SumAgrees, UpToIsFinite
    <2>4. totalBodyLen' + job'[writer'].addedLen = SumFunctionOnSet(Lens', 1..Posted_')
        BY <1>1, <2>1, <2>2, <2>3 DEF LengthsKept, TypeOK
    <2>5. QED
        BY <1>1, <2>1, <2>2, <2>3, <2>4 DEF LengthsKept
<1>4. ASSUME NEW m \in Merger, MergeIndex(m) PROVE LengthsKept'
    <2> DEFINE c == job[m].batch[Len(job[m].newDocLen) + 1]
    <2>1. UNCHANGED <<chunks, docLen, totalBodyLen, avgLen, writer, mpc>>
        BY <1>4 DEF MergeIndex, lengths, mu
    <2>2. Lens' = Lens /\ (Indexing' <=> Indexing)
        BY <2>1 DEF Lens, Indexing
    <2>3. /\ writer = m /\ Indexing /\ Posted_ \in Nat
          /\ c \in Chunk /\ chunks[Posted_ + 1] = c /\ BodyLen[c] \in Nat
          /\ Posted_ + 1 \in 1..Len(chunks) /\ Posted_' = Posted_ + 1
          /\ job'[m].addedLen = job[m].addedLen + BodyLen[c]
        BY <1>4, IndexAdds
    <2> HIDE DEF c
    <2>4. SumFunctionOnSet(Lens, 1..(Posted_ + 1)) = SumFunctionOnSet(Lens, 1..Posted_) + BodyLen[c]
        <3>1. Lens[Posted_ + 1] = BodyLen[c]
            BY <2>3, LensTyped
        <3>2. \A d \in 1..(Posted_ + 1) : Lens[d] \in Int
            BY <2>3, LensTyped
        <3>3. QED
            BY <2>3, <3>1, <3>2, SumOfNext
    <2>5. totalBodyLen + job[m].addedLen = SumFunctionOnSet(Lens, 1..Posted_)
        BY <1>1, <2>3 DEF LengthsKept
    <2>6. totalBodyLen \in Nat /\ job[m].addedLen \in Nat
        BY BatchTyped DEF TypeOK
    <2>7. totalBodyLen' + job'[writer'].addedLen = SumFunctionOnSet(Lens', 1..Posted_')
        <3>1. SumFunctionOnSet(Lens', 1..Posted_') = SumFunctionOnSet(Lens, 1..Posted_) + BodyLen[c]
            BY <2>2, <2>3, <2>4
        <3>2. job'[writer'].addedLen = job[m].addedLen + BodyLen[c]
            BY <2>1, <2>3
        <3>3. QED
            BY <2>1, <2>3, <2>5, <2>6, <3>1, <3>2
    <2>8. QED
        BY <1>1, <2>1, <2>2, <2>3, <2>7 DEF LengthsKept
<1>5. ASSUME NEW m \in Merger, MergeFinish(m) PROVE LengthsKept'
    <2>1. /\ mpc[m] = "index" /\ UNCHANGED chunks /\ writer' = NoOne
          /\ Len(job[m].newDocLen) = Len(job[m].batch)
          /\ docLen' = docLen \o job[m].newDocLen
          /\ totalBodyLen' = totalBodyLen + job[m].addedLen
          /\ avgLen' = <<totalBodyLen', Len(chunks)>>
        BY <1>5 DEF MergeFinish, Unlock
    <2>2. Lens' = Lens
        BY <2>1 DEF Lens
    <2>3. /\ Posted_ = Len(docLen) + Len(job[m].newDocLen)
          /\ Len(chunks) = Len(docLen) + Len(job[m].newDocLen)
          /\ writer = m
        BY <2>1, BatchInPlace
    <2>4. /\ Indexing /\ ~Indexing' /\ Posted_ = Len(chunks) /\ Len(docLen') = Len(chunks)
          /\ \A d \in 1..Len(docLen) : docLen'[d] = docLen[d]
          /\ \A j \in 1..Len(job[m].newDocLen) : docLen'[Len(docLen) + j] = job[m].newDocLen[j]
        BY <1>5, FinishKeeps
    <2>5. totalBodyLen' = SumFunctionOnSet(Lens', 1..Len(docLen'))
        BY <1>1, <2>1, <2>2, <2>3, <2>4 DEF LengthsKept
    <2>6. ASSUME NEW d \in 1..Len(docLen') PROVE docLen'[d] = BodyLen[chunks[d]]
        <3>1. CASE d \in 1..Len(docLen)
            BY <1>1, <2>4, <3>1 DEF LengthsKept
        <3>2. CASE d \notin 1..Len(docLen)
            <4>1. PICK j \in 1..Len(job[m].newDocLen) : d = Len(docLen) + j
                <5>1. d - Len(docLen) \in 1..Len(job[m].newDocLen) /\ d = Len(docLen) + (d - Len(docLen))
                    BY <2>3, <2>4, <3>2, LensTyped, BatchTyped
                <5>2. QED
                    BY <5>1
            <4>2. docLen'[d] = job[m].newDocLen[j] /\ chunks[d] = job[m].batch[j]
                BY <2>1, <2>4, <4>1, BatchInPlace
            <4>3. QED
                BY <2>1, <4>1, <4>2, BatchInPlace
        <3>3. QED
            BY <3>1, <3>2
    <2>7. QED
        BY <2>1, <2>2, <2>4, <2>5, <2>6, LensTyped DEF LengthsKept
<1>6. QED
    BY <1>2, <1>3, <1>4, <1>5, NextCases DEF Elsewhere

LEMMA PostingsStep ==
    ASSUME IndexInv, [Next]_vars
    PROVE  PostingsKept'
<1> USE DEF IndexInv
<1>1. PostingsKept
    OBVIOUS
<1>2. CASE Elsewhere
    BY <1>1, <1>2, ElsewhereKeeps DEF PostingsKept
<1>3. ASSUME NEW m \in Merger, MergeAppend(m) PROVE PostingsKept'
    <2>1. Posted_' = Posted_ /\ Posted_ \in Nat /\ \A d \in 1..Posted_ : chunks'[d] = chunks[d]
        BY <1>3, AppendKeeps, LensTyped
    <2>2. \A count, t : Listed(chunks', count, Posted_, t) = Listed(chunks, count, Posted_, t)
        BY <2>1, ListedAlike
    <2>3. UNCHANGED <<inverted, termFreq, titleInv, tagInv>>
        BY <1>3 DEF MergeAppend, postings
    <2>4. QED
        BY <1>1, <2>1, <2>2, <2>3 DEF PostingsKept
<1>4. ASSUME NEW m \in Merger, MergeIndex(m) PROVE PostingsKept'
    <2> DEFINE c == job[m].batch[Len(job[m].newDocLen) + 1]
               d == job[m].base + (Len(job[m].newDocLen) + 1)
    <2>1. /\ Posted_ \in Nat /\ chunks[Posted_ + 1] = c /\ c \in Chunk
          /\ Posted_ + 1 \in 1..Len(chunks) /\ Posted_' = Posted_ + 1
          /\ Posted_ + 1 = job[m].base + Len(job[m].newDocLen) + 1
        BY <1>4, IndexAdds
    <2>2. d = Posted_ + 1 /\ chunks \in Seq(Chunk) /\ Posted_ + 1 <= Len(chunks)
        BY <2>1, BatchTyped, LensTyped DEF TypeOK
    <2>3. /\ inverted' = [t \in Term |-> inverted[t] \cup (IF Body[c][t] > 0 THEN {d} ELSE {})]
          /\ termFreq' = [t \in Term |-> Posted(termFreq[t], d, Body[c][t])]
          /\ titleInv' = [t \in Term |-> Posted(titleInv[t], d, Title[c][t])]
          /\ tagInv' = [t \in Term |-> Posted(tagInv[t], d, Tag[c][t])]
          /\ UNCHANGED chunks
        BY <1>4 DEF MergeIndex
    <2> HIDE DEF c, d
    <2>4. ASSUME NEW count \in [Chunk -> [Term -> Nat]], NEW t \in Term
          PROVE  /\ Posted(Listed(chunks, count, Posted_, t), d, count[c][t])
                        = Listed(chunks, count, Posted_ + 1, t)
                 /\ DOMAIN Listed(chunks, count, Posted_, t) \cup (IF count[c][t] > 0 THEN {d} ELSE {})
                        = DOMAIN Listed(chunks, count, Posted_ + 1, t)
        <3> DEFINE n == Posted_
        <3>1. n \in Nat /\ n + 1 <= Len(chunks) /\ d = n + 1 /\ c = chunks[n + 1]
            BY <2>1, <2>2
        <3> HIDE DEF n
        <3>2. /\ Posted(Listed(chunks, count, n, t), n + 1, count[chunks[n + 1]][t])
                    = Listed(chunks, count, n + 1, t)
              /\ DOMAIN Listed(chunks, count, n, t)
                    \cup (IF count[chunks[n + 1]][t] > 0 THEN {n + 1} ELSE {})
                    = DOMAIN Listed(chunks, count, n + 1, t)
            <4> DEFINE cs == chunks
            <4>1. cs \in Seq(Chunk) /\ n \in Nat /\ n + 1 <= Len(cs)
                BY <2>2, <3>1
            <4> HIDE DEF cs
            <4>2. QED
                BY <4>1, PostedNext DEF cs
        <3>3. QED
            BY <3>1, <3>2 DEF n
    <2>5. termFreq' = [t \in Term |-> Listed(chunks, Body, Posted_ + 1, t)]
        <3>1. termFreq' = [t \in Term |-> Posted(Listed(chunks, Body, Posted_, t), d, Body[c][t])]
            BY <1>1, <2>3 DEF PostingsKept
        <3>2. QED
            BY <2>4, <3>1, ChunkAssumption
    <2>6. titleInv' = [t \in Term |-> Listed(chunks, Title, Posted_ + 1, t)]
        BY <1>1, <2>3, <2>4, ChunkAssumption DEF PostingsKept
    <2>7. tagInv' = [t \in Term |-> Listed(chunks, Tag, Posted_ + 1, t)]
        BY <1>1, <2>3, <2>4, ChunkAssumption DEF PostingsKept
    <2>8. inverted' = [t \in Term |-> DOMAIN Listed(chunks, Body, Posted_ + 1, t)]
        BY <1>1, <2>3, <2>4, ChunkAssumption DEF PostingsKept
    <2>9. QED
        BY <2>1, <2>3, <2>5, <2>6, <2>7, <2>8 DEF PostingsKept
<1>5. ASSUME NEW m \in Merger, MergeFinish(m) PROVE PostingsKept'
    <2>1. Posted_' = Posted_ /\ UNCHANGED <<chunks, inverted, termFreq, titleInv, tagInv>>
        BY <1>5, FinishKeeps DEF MergeFinish, postings
    <2>2. QED
        BY <1>1, <2>1 DEF PostingsKept
<1>6. QED
    BY <1>2, <1>3, <1>4, <1>5, NextCases DEF Elsewhere

(* Chunks are appended only while nobody reads, so the number a search has *)
(* read stays the number of chunks.                                        *)
LEMMA CallsStep ==
    ASSUME IndexInv, [Next]_vars
    PROVE  CallsKept'
<1> USE DEF IndexInv
<1>1. SUFFICES ASSUME NEW k \in Searcher PROVE CallKept(k)'
    BY DEF CallsKept
<1>2. CallKept(k) /\ DOMAIN call = Searcher /\ DOMAIN spc = Searcher
    BY DEF CallsKept, TypeOK
<1>3. CASE UNCHANGED <<chunks, call, spc>>
    BY <1>2, <1>3 DEF CallKept
<1>4. ASSUME NEW m \in Merger, MergeAppend(m) PROVE CallKept(k)'
    <2>1. UNCHANGED <<call, spc>> /\ reading = {}
        BY <1>4 DEF MergeAppend, Locked
    <2>2. spc[k] # "score"
        BY <2>1 DEF LockHeld
    <2>3. QED
        BY <1>2, <2>1, <2>2 DEF CallKept
<1>5. ASSUME NEW s \in Searcher, SearchCall(s) PROVE CallKept(k)'
    <2>1. UNCHANGED chunks
        BY <1>5 DEF SearchCall
    <2>2. CASE UNCHANGED <<spc, call>>
        BY <1>2, <2>1, <2>2 DEF CallKept
    <2>3. ASSUME NEW q \in Query, NEW n \in MaxResults, Len(q) > 0,
                 call' = [call EXCEPT ![s] = [NoCall EXCEPT !.query = q, !.cap = Cap(n)]],
                 spc' = [spc EXCEPT ![s] = "rlock"]
          PROVE  CallKept(k)'
        <3>1. CASE k # s
            BY <1>2, <2>1, <2>3, <3>1 DEF CallKept
        <3>2. CASE k = s
            <4>1. spc'[k] = "rlock" /\ call'[k] = [NoCall EXCEPT !.query = q, !.cap = Cap(n)]
                BY <1>2, <2>3, <3>2
            <4>2. /\ DOMAIN call'[k] = DOMAIN NoCall
                  /\ call'[k].query = q /\ call'[k].cap = Cap(n)
                  /\ call'[k].next = 1 /\ call'[k].score = <<>>
                BY <4>1 DEF NoCall
            <4>3. Len(q) \in Nat
                BY ProcessAssumption
            <4>4. QED
                BY <2>3, <4>1, <4>2, <4>3 DEF CallKept
        <3>3. QED
            BY <3>1, <3>2
    <2>4. QED
        BY <1>5, <2>2, <2>3 DEF SearchCall
<1>6. ASSUME NEW s \in Searcher, SearchRLock(s) PROVE CallKept(k)'
    BY <1>2, <1>6 DEF CallKept, SearchRLock
<1>7. ASSUME NEW s \in Searcher, SearchCount(s) PROVE CallKept(k)'
    <2>1. CASE k # s
        BY <1>2, <1>7, <2>1 DEF CallKept, SearchCount
    <2>2. CASE k = s
        <3>1. spc[k] = "count" /\ spc'[k] = "score" /\ UNCHANGED chunks
              /\ call'[k] = [call[k] EXCEPT !.n = Len(chunks)]
            BY <1>2, <1>7, <2>2 DEF SearchCount
        <3>2. /\ DOMAIN call'[k] = DOMAIN call[k] /\ call'[k].n = Len(chunks)
              /\ call'[k].query = call[k].query /\ call'[k].cap = call[k].cap
              /\ call'[k].next = call[k].next
            BY <1>2, <3>1 DEF CallKept, NoCall
        <3>3. QED
            BY <1>2, <3>1, <3>2 DEF CallKept
    <2>3. QED
        BY <2>1, <2>2
<1>8. ASSUME NEW s \in Searcher, SearchScore1(s) PROVE CallKept(k)'
    <2>1. CASE k # s
        BY <1>2, <1>8, <2>1 DEF CallKept, SearchScore1
    <2>2. CASE k = s
        <3>1. /\ spc[k] = "score" /\ UNCHANGED <<chunks, spc>>
              /\ call[k].next <= Len(call[k].query)
            BY <1>2, <1>8, <2>2 DEF SearchScore1
        <3>2. PICK new : call'[k] = [call[k] EXCEPT !.score = new, !.next = @ + 1]
            BY <1>2, <1>8, <2>2 DEF SearchScore1
        <3>3. /\ DOMAIN call'[k] = DOMAIN call[k] /\ call'[k].n = call[k].n
              /\ call'[k].query = call[k].query /\ call'[k].cap = call[k].cap
              /\ call'[k].next = call[k].next + 1
            BY <1>2, <3>2 DEF CallKept, NoCall
        <3>4. /\ call[k].query \in Query /\ Len(call[k].query) \in Nat
              /\ call[k].next \in 1..(Len(call[k].query) + 1)
            BY <1>2, <3>1, ProcessAssumption DEF CallKept
        <3>5. call[k].next + 1 \in 1..(Len(call[k].query) + 1)
            BY <3>1, <3>4
        <3>6. QED
            BY <1>2, <3>1, <3>3, <3>5 DEF CallKept
    <2>3. QED
        BY <2>1, <2>2
<1>9. ASSUME NEW s \in Searcher, SearchReturn(s) PROVE CallKept(k)'
    BY <1>2, <1>9 DEF CallKept, SearchReturn
<1>10. QED
    BY <1>3, <1>4, <1>5, <1>6, <1>7, <1>8, <1>9, NextCases
    DEF vars, MergeCall, MergeLock, MergeIndex, MergeFinish

-----------------------------------------------------------------------------
THEOREM IndexAlways == Spec => []IndexInv
<1>1. IndexInv /\ [Next]_vars => IndexInv'
    BY TypeStep, LockStep, JobsStep, LengthsStep, PostingsStep, CallsStep DEF IndexInv
<1>2. QED
    BY <1>1, DataInit, PTL DEF Spec

(* Every variable of the index keeps its type, for any chunks and any      *)
(* number of goroutines.                                                   *)
THEOREM IndexTypeCorrect == Spec => []TypeOK
BY IndexAlways, PTL DEF IndexInv

(* What merges build in place is what NewIndex builds from all the chunks, *)
(* whenever no merge is under way.                                         *)
LEMMA RebuiltBetweenMerges ==
    ASSUME IndexInv, ~Indexing
    PROVE  Index = NewIndex(chunks) /\ Len(docLen) = Len(chunks)
<1>1. Len(docLen) = Len(chunks) /\ Posted_ = Len(chunks) /\ docLen \in Seq(Nat)
    BY LensTyped DEF IndexInv, LengthsKept, Posted_, TypeOK
<1>2. \A count, t : Listed(chunks, count, Len(chunks), t) = Occurrences(chunks, count, t)
    BY DEF Listed, Occurrences
<1>3. docLen = Lens
    BY <1>1 DEF IndexInv, LengthsKept, Lens
<1>4. totalBodyLen = TotalLen(chunks)
    <2>1. SumFunction(Lens) = SumFunctionOnSet(Lens, DOMAIN Lens)
        BY DEF SumFunction
    <2>2. DOMAIN Lens = 1..Len(docLen)
        BY <1>1 DEF Lens
    <2>3. QED
        BY <2>1, <2>2 DEF IndexInv, LengthsKept, TotalLen, Lens
<1>5. avgLen = <<TotalLen(chunks), Len(chunks)>>
    BY <1>1, <1>4 DEF IndexInv, LengthsKept
<1>6. /\ termFreq = [t \in Term |-> Occurrences(chunks, Body, t)]
      /\ titleInv = [t \in Term |-> Occurrences(chunks, Title, t)]
      /\ tagInv = [t \in Term |-> Occurrences(chunks, Tag, t)]
      /\ inverted = [t \in Term |-> DOMAIN Occurrences(chunks, Body, t)]
    BY <1>1, <1>2 DEF IndexInv, PostingsKept
<1>7. QED
    BY <1>1, <1>3, <1>4, <1>5, <1>6 DEF Index, NewIndex, Lens

THEOREM MergesRebuild == Spec => []MergedIsRebuilt
<1>1. IndexInv => MergedIsRebuilt
    BY RebuiltBetweenMerges DEF MergedIsRebuilt, Indexing, IndexInv, TypeOK
<1>2. QED
    BY <1>1, IndexAlways, PTL

(* A search that has the number of chunks meets no posting and no chunk    *)
(* past it, and has a length for each: docLen[docIdx] is always there.     *)
THEOREM SearchesStayInRange == Spec => []ScoresInRange
<1>1. IndexInv => ScoresInRange
    <2>1. SUFFICES ASSUME IndexInv, NEW s \in Searcher, spc[s] = "score"
                   PROVE  /\ call[s].n = Len(chunks)
                          /\ Len(docLen) = call[s].n
                          /\ \A t \in Term : Scored(Index, t) \subseteq 1..call[s].n
        BY DEF ScoresInRange
    <2>2. ~Indexing
        BY <2>1, NoReaders DEF IndexInv, LockHeld
    <2>3. call[s].n = Len(chunks) /\ Len(docLen) = Len(chunks) /\ Posted_ = Len(docLen)
        BY <2>1, <2>2, LensTyped DEF IndexInv, LengthsKept, CallsKept, CallKept, Posted_
    <2>4. \A count, t : DOMAIN Listed(chunks, count, Len(chunks), t) \subseteq 1..Len(chunks)
        BY DEF Listed
    <2>5. QED
        BY <2>1, <2>3, <2>4 DEF IndexInv, PostingsKept, Scored, Index
<1>2. QED
    BY <1>1, IndexAlways, PTL

-----------------------------------------------------------------------------
(* Scores.  An index built from cs gives every chunk a number for a term,  *)
(* and zero unless the term scores it.                                     *)
LEMMA TermScoreTyped ==
    ASSUME ScoreIsNumber, NEW cs \in Seq(Chunk), NEW t \in Term, NEW d
    PROVE  /\ TermScore(NewIndex(cs), Len(cs), t, d) \in Int
           /\ d \notin Scored(NewIndex(cs), t) => TermScore(NewIndex(cs), Len(cs), t, d) = 0
<1> DEFINE ix == NewIndex(cs)
<1>1. \A count \in [Chunk -> [Term -> Nat]] :
          /\ DOMAIN Occurrences(cs, count, t) \in SUBSET (1..Len(cs))
          /\ \A e \in DOMAIN Occurrences(cs, count, t) : Occurrences(cs, count, t)[e] \in Nat
    BY DEF Occurrences
<1>2. /\ ix.inverted[t] = DOMAIN Occurrences(cs, Body, t)
      /\ ix.termFreq[t] = Occurrences(cs, Body, t)
      /\ ix.titleInv[t] = Occurrences(cs, Title, t)
      /\ ix.tagInv[t] = Occurrences(cs, Tag, t)
      /\ ix.docLen = [e \in 1..Len(cs) |-> BodyLen[cs[e]]]
      /\ ix.avgLen = <<TotalLen(cs), Len(cs)>>
    BY DEF NewIndex
<1>3. TotalLen(cs) \in Nat /\ Len(cs) \in Nat
    <2> DEFINE f == [e \in 1..Len(cs) |-> BodyLen[cs[e]]]
    <2>1. \A e \in 1..Len(cs) : f[e] \in Nat
        BY ChunkAssumption
    <2>2. DOMAIN f = 1..Len(cs) /\ Len(cs) \in Nat
        OBVIOUS
    <2> HIDE DEF f
    <2>3. SumFunctionOnSet(f, 1..Len(cs)) \in Nat
        BY <2>1, <2>2, SumIsNat
    <2>4. TotalLen(cs) = SumFunctionOnSet(f, 1..Len(cs))
        BY <2>2 DEF TotalLen, SumFunction, f
    <2>5. QED
        BY <2>2, <2>3, <2>4
<1>4. Cardinality(ix.inverted[t]) \in Nat
    BY <1>1, <1>2, <1>3, UpToIsFinite, FS_Subset, FS_CardinalityType, ChunkAssumption
<1> DEFINE b == IF d \in ix.inverted[t]
                THEN BodyScore(Len(cs), Cardinality(ix.inverted[t]), ix.termFreq[t][d],
                               ix.docLen[d], ix.avgLen)
                ELSE 0
           h == IF d \in DOMAIN ix.titleInv[t] THEN 3 * ix.titleInv[t][d] ELSE 0
           g == IF d \in DOMAIN ix.tagInv[t] THEN 5 * ix.tagInv[t][d] ELSE 0
<1>5. b \in Int
    <2>1. CASE d \in ix.inverted[t]
        <3>1. ix.termFreq[t][d] \in Nat /\ ix.docLen[d] \in Nat /\ ix.avgLen \in Nat \X Nat
            <4>1. d \in 1..Len(cs) /\ ix.termFreq[t][d] \in Nat
                BY <1>1, <1>2, <2>1, ChunkAssumption
            <4>2. cs[d] \in Chunk
                BY <4>1
            <4>3. BodyLen[cs[d]] \in Nat
                BY <4>2, ChunkAssumption
            <4>4. ix.docLen[d] = BodyLen[cs[d]]
                BY <1>2, <4>1
            <4>5. ix.avgLen \in Nat \X Nat
                BY <1>2, <1>3
            <4>6. QED
                BY <4>1, <4>3, <4>4, <4>5
        <3> HIDE DEF ix
        <3>2. QED
            BY <1>3, <1>4, <2>1, <3>1 DEF ScoreIsNumber
    <2>2. QED
        BY <2>1
<1>6. h \in Int /\ g \in Int
    BY <1>1, <1>2, ChunkAssumption
<1>7. TermScore(ix, Len(cs), t, d) = b + h + g
    BY DEF TermScore
<1>8. d \notin Scored(ix, t) => b = 0 /\ h = 0 /\ g = 0
    BY DEF Scored
<1> HIDE DEF ix, b, h, g
<1>9. b + h + g \in Int /\ (d \notin Scored(ix, t) => b + h + g = 0)
    BY <1>5, <1>6, <1>8
<1>10. QED
    BY <1>7, <1>9 DEF ix

(* One step of a search adds the next term.                                *)
LEMMA ScoreNext ==
    ASSUME ScoreIsNumber, NEW cs \in Seq(Chunk), NEW q \in Seq(Term), NEW k \in Nat, k + 1 <= Len(q)
    PROVE  LET ix == NewIndex(cs)
               old == RunningScore(ix, Len(cs), q, k)
           IN  [d \in DOMAIN old \cup Scored(ix, q[k + 1]) |->
                    (IF d \in DOMAIN old THEN old[d] ELSE 0)
                    + TermScore(ix, Len(cs), q[k + 1], d)]
               = RunningScore(ix, Len(cs), q, k + 1)
<1> DEFINE ix == NewIndex(cs)
           Hit(j) == UNION {Scored(ix, q[i]) : i \in 1..j}
           old == RunningScore(ix, Len(cs), q, k)
           A(d) == Addends(ix, Len(cs), q, d)
           T(d) == TermScore(ix, Len(cs), q[k + 1], d)
<1>1. \A i \in 1..Len(q) : q[i] \in Term
    OBVIOUS
<1>2. \A d, i : i \in 1..Len(q) => 
          /\ A(d)[i] = TermScore(ix, Len(cs), q[i], d) /\ A(d)[i] \in Int
          /\ d \notin Scored(ix, q[i]) => A(d)[i] = 0
    BY <1>1, TermScoreTyped DEF Addends
<1>3. DOMAIN old = Hit(k) /\ \A d \in Hit(k) : old[d] = SumFunctionOnSet(A(d), 1..k)
    BY DEF RunningScore
<1>4. Hit(k + 1) = Hit(k) \cup Scored(ix, q[k + 1])
    <2>1. 1..(k + 1) = 1..k \cup {k + 1}
        OBVIOUS
    <2>2. QED
        BY <2>1
<1>5. k + 1 \in 1..Len(q) /\ 1..k \subseteq 1..Len(q) /\ 1..(k + 1) \subseteq 1..Len(q)
    OBVIOUS
<1>6. ASSUME NEW d \in Hit(k + 1)
      PROVE  (IF d \in Hit(k) THEN old[d] ELSE 0) + T(d) = SumFunctionOnSet(A(d), 1..(k + 1))
    <2> HIDE DEF A, Hit, ix, old
    <2>1. SumFunctionOnSet(A(d), 1..(k + 1)) = SumFunctionOnSet(A(d), 1..k) + A(d)[k + 1]
        BY <1>2, <1>5, SumOfNext
    <2>2. A(d)[k + 1] = T(d)
        BY <1>2, <1>5
    <2>3. (IF d \in Hit(k) THEN old[d] ELSE 0) = SumFunctionOnSet(A(d), 1..k)
        <3>1. CASE d \in Hit(k)
            BY <1>3, <3>1
        <3>2. CASE d \notin Hit(k)
            <4>1. \A i \in 1..k : A(d)[i] = 0
                BY <1>2, <1>5, <3>2 DEF Hit
            <4>2. QED
                BY <3>2, <4>1, SumOfZeros
        <3>3. QED
            BY <3>1, <3>2
    <2>4. QED
        BY <2>1, <2>2, <2>3
<1>7. RunningScore(ix, Len(cs), q, k + 1) = [d \in Hit(k + 1) |-> SumFunctionOnSet(A(d), 1..(k + 1))]
    BY DEF RunningScore
<1>8. [d \in DOMAIN old \cup Scored(ix, q[k + 1]) |->
          (IF d \in DOMAIN old THEN old[d] ELSE 0) + T(d)]
      = [d \in Hit(k + 1) |-> SumFunctionOnSet(A(d), 1..(k + 1))]
    <2> HIDE DEF A, Hit, ix, old, T
    <2>1. DOMAIN old \cup Scored(ix, q[k + 1]) = Hit(k + 1)
        BY <1>3, <1>4
    <2>2. QED
        BY <1>3, <1>6, <2>1
<1>9. QED
    BY <1>7, <1>8

(* While a search is in, nobody writes. *)
LEMMA ReadersKeepIndex ==
    ASSUME IndexInv, [Next]_vars, NEW s \in Searcher, s \in reading
    PROVE  UNCHANGED <<chunks, postings, lengths>>
<1>1. \A m \in Merger : mpc[m] # "index"
    BY DEF IndexInv, LockHeld
<1>2. \A m \in Merger : ~MergeAppend(m) /\ ~MergeIndex(m) /\ ~MergeFinish(m)
    BY <1>1 DEF MergeAppend, MergeIndex, MergeFinish, Locked
<1>3. Elsewhere
    BY <1>2, NextCases DEF Elsewhere
<1>4. QED
    BY <1>3, ElsewhereKeeps DEF IndexInv, postings, lengths

LEMMA ScoreStep ==
    ASSUME ScoreIsNumber, IndexInv, ScoreInv, [Next]_vars
    PROVE  ScoreInv'
<1> DEFINE Done(k) == spc[k] = "score" => call[k].score =
            RunningScore(NewIndex(chunks), Len(chunks), call[k].query, call[k].next - 1)
<1>1. SUFFICES ASSUME NEW k \in Searcher PROVE Done(k)'
    BY DEF ScoreInv
<1>2. Done(k) /\ CallKept(k)
    BY DEF ScoreInv, IndexInv, CallsKept
<1>3. DOMAIN call = Searcher /\ DOMAIN spc = Searcher /\ chunks \in Seq(Chunk)
    BY DEF IndexInv, TypeOK
<1>4. spc[k] \in {"count", "score"} /\ k \in reading => UNCHANGED chunks
    BY ReadersKeepIndex
<1>5. spc[k] = "score" => k \in reading
    BY DEF IndexInv, LockHeld
<1>6. CASE spc'[k] # "score"
    BY <1>6
<1>7. CASE spc[k] = "score" /\ call'[k] = call[k]
    BY <1>2, <1>4, <1>5, <1>7
<1>8. ASSUME SearchCount(k) PROVE Done(k)'
    <2>1. /\ UNCHANGED chunks /\ spc[k] = "count"
          /\ call'[k] = [call[k] EXCEPT !.n = Len(chunks)]
        BY <1>3, <1>8 DEF SearchCount
    <2>2. call'[k].score = <<>> /\ call'[k].next = 1
        BY <1>2, <2>1 DEF CallKept, NoCall
    <2>3. RunningScore(NewIndex(chunks), Len(chunks), call'[k].query, 0) = <<>>
        <3>1. 1..0 = {}
            OBVIOUS
        <3>2. QED
            BY <3>1 DEF RunningScore
    <2>4. QED
        BY <2>1, <2>2, <2>3
<1>9. ASSUME SearchScore1(k) PROVE Done(k)'
    <2> DEFINE q == call[k].query
               i == call[k].next
               old == call[k].score
               ix == NewIndex(chunks)
    <2>1. spc[k] = "score" /\ i <= Len(q) /\ UNCHANGED chunks
        BY <1>9 DEF SearchScore1
    <2>2. q \in Seq(Term) /\ i - 1 \in Nat /\ (i - 1) + 1 = i /\ call[k].n = Len(chunks)
        BY <1>2, <2>1, ProcessAssumption DEF CallKept
    <2>3. Index = ix
        BY <1>5, <2>1, NoReaders, RebuiltBetweenMerges DEF IndexInv
    <2> DEFINE new == [d \in DOMAIN old \cup Scored(ix, q[i]) |->
                          (IF d \in DOMAIN old THEN old[d] ELSE 0)
                          + TermScore(ix, Len(chunks), q[i], d)]
    <2>4. call' = [call EXCEPT ![k].score = new, ![k].next = @ + 1]
        BY <1>9, <2>2, <2>3 DEF SearchScore1
    <2>5. old = RunningScore(ix, Len(chunks), q, i - 1)
        BY <1>2, <2>1
    <2>6. new = RunningScore(ix, Len(chunks), q, i)
        <3> DEFINE j == i - 1
        <3>1. j \in Nat /\ j + 1 <= Len(q) /\ i = j + 1
            BY <2>1, <2>2
        <3> DEFINE run == RunningScore(ix, Len(chunks), q, j)
        <3>2. [d \in DOMAIN run \cup Scored(ix, q[j + 1]) |->
                  (IF d \in DOMAIN run THEN run[d] ELSE 0)
                  + TermScore(ix, Len(chunks), q[j + 1], d)]
              = RunningScore(ix, Len(chunks), q, j + 1)
            <4> HIDE DEF j, i, q
            <4>1. QED
                BY <1>3, <2>2, <3>1, ScoreNext
        <3>3. old = run
            BY <2>5
        <3> HIDE DEF run, j, i, q, ix, old
        <3>4. QED
            BY <3>1, <3>2, <3>3
    <2> HIDE DEF new
    <2>7. call'[k].score = new /\ call'[k].query = q /\ call'[k].next = i + 1
        BY <1>2, <1>3, <2>4 DEF CallKept, NoCall
    <2>8. call'[k].next - 1 = i
        BY <2>2, <2>7
    <2>9. QED
        BY <2>1, <2>6, <2>7, <2>8
<1>10. QED
    <2>1. ASSUME NEW s \in Searcher, SearchCall(s) \/ SearchRLock(s) \/ SearchReturn(s) PROVE Done(k)'
        <3>1. CASE s = k
            BY <1>3, <1>6, <2>1, <3>1 DEF SearchCall, SearchRLock, SearchReturn
        <3>2. CASE s # k
            BY <1>3, <1>6, <1>7, <2>1, <3>2 DEF SearchCall, SearchRLock, SearchReturn
        <3>3. QED
            BY <3>1, <3>2
    <2>2. ASSUME NEW s \in Searcher, s # k, SearchCount(s) \/ SearchScore1(s) PROVE Done(k)'
        BY <1>3, <1>6, <1>7, <2>2 DEF SearchCount, SearchScore1
    <2>3. CASE UNCHANGED <<call, spc>>
        BY <1>6, <1>7, <2>3
    <2>4. QED
        BY <1>8, <1>9, <2>1, <2>2, <2>3, NextCases
        DEF vars, MergeCall, MergeLock, MergeAppend, MergeIndex, MergeFinish

-----------------------------------------------------------------------------
(* The abstract index ranks with the same operators.                       *)
LEMMA ContractOperators ==
    /\ \A f, n : Contract!TopChoices(f, n) = TopChoices(f, n)
    /\ \A n : Contract!Cap(n) = Cap(n)
    /\ \A cs, q : Contract!FullScore(cs, q) = RunningScore(NewIndex(cs), Len(cs), q, Len(q))
<1>1. \A f : Contract!Cardinality(f) = Cardinality(f)
    BY DEF Contract!Cardinality, Cardinality
<1>2. \A f, D : Contract!SumFunctionOnSet(f, D) = SumFunctionOnSet(f, D)
    BY DEF Contract!SumFunctionOnSet, Contract!FoldFunctionOnSet, Contract!MapThenFoldSet,
           SumFunctionOnSet, FoldFunctionOnSet, MapThenFoldSet
<1>3. \A f : Contract!SumFunction(f) = SumFunctionOnSet(f, DOMAIN f)
    BY <1>2 DEF Contract!SumFunction
<1>4. \A ix, n, t, d : Contract!TermScore(ix, n, t, d) = TermScore(ix, n, t, d)
    BY <1>1 DEF Contract!TermScore, TermScore
<1>5. \A ix, t : Contract!Scored(ix, t) = Scored(ix, t)
    BY DEF Contract!Scored, Scored
<1>6. \A cs : Contract!NewIndex(cs) = NewIndex(cs)
    BY <1>3 DEF Contract!NewIndex, NewIndex, Contract!TotalLen, TotalLen, SumFunction,
                Contract!Occurrences, Occurrences
<1>7. ASSUME NEW cs, NEW q
      PROVE  Contract!FullScore(cs, q) = RunningScore(NewIndex(cs), Len(cs), q, Len(q))
    <2> DEFINE ix == NewIndex(cs)
    <2>1. \A d : Contract!SumFunction([i \in 1..Len(q) |-> Contract!TermScore(ix, Len(cs), q[i], d)])
                     = SumFunctionOnSet(Addends(ix, Len(cs), q, d), 1..Len(q))
        BY <1>3, <1>4 DEF Addends
    <2>2. UNION {Contract!Scored(ix, q[i]) : i \in 1..Len(q)} = UNION {Scored(ix, q[i]) : i \in 1..Len(q)}
        BY <1>5
    <2> HIDE DEF ix
    <2>3. QED
        BY <1>6, <2>1, <2>2 DEF Contract!FullScore, RunningScore, ix
<1>8. QED
    BY <1>1, <1>7 DEF Contract!TopChoices, TopChoices, Contract!Cap, Cap,
                      Contract!DefaultMaxResults, DefaultMaxResults

docs == SubSeq(chunks, 1, Len(docLen))

(* Every Merge takes effect when it releases the lock, and every Search    *)
(* when it does; all other steps change nothing that the contract shows.   *)
LEMMA ContractStep ==
    ASSUME ScoreIsNumber, IndexInv, ScoreInv, [Next]_vars
    PROVE  [Contract!Next]_<<docs, answer>>
<1> USE DEF IndexInv
<1>1. chunks \in Seq(Chunk) /\ Len(chunks) \in Nat /\ Len(docLen) \in Nat
    BY LensTyped DEF TypeOK
<1>2. ~Indexing => docs = chunks
    BY <1>1 DEF LengthsKept, docs
<1>3. CASE UNCHANGED <<chunks, docLen, answer>>
    BY <1>3 DEF docs
<1>4. ASSUME NEW m \in Merger, MergeAppend(m) PROVE UNCHANGED <<docs, answer>>
    <2>1. chunks' = chunks \o job[m].batch /\ UNCHANGED <<docLen, answer>>
        BY <1>4 DEF MergeAppend, lengths
    <2>2. ~Indexing /\ Len(docLen) = Len(chunks)
        BY <1>4, AppendKeeps
    <2>3. SubSeq(chunks \o job[m].batch, 1, Len(chunks)) = chunks
        BY <1>1, PrefixOfConcat, BatchTyped
    <2>4. QED
        BY <1>2, <2>1, <2>2, <2>3 DEF docs
<1>5. ASSUME NEW m \in Merger, MergeFinish(m)
      PROVE  job[m].batch \in Batch /\ Contract!Add(job[m].batch)
    <2>1. mpc[m] = "index" /\ UNCHANGED <<chunks, answer>>
        BY <1>5 DEF MergeFinish
    <2>2. job[m].batch \in Batch /\ chunks = docs \o job[m].batch
        BY <2>1 DEF JobsKept, JobKept, docs
    <2>3. docs' = chunks
        <3>1. Len(docLen') = Len(chunks)
            BY <1>5, FinishKeeps
        <3>2. docs' = SubSeq(chunks, 1, Len(chunks))
            BY <2>1, <3>1 DEF docs
        <3>3. QED
            BY <1>1, <3>2
    <2>4. QED
        BY <2>1, <2>2, <2>3 DEF Contract!Add, docs
<1>6. ASSUME NEW s \in Searcher, SearchCall(s)
      PROVE  \/ UNCHANGED <<docs, answer>>
             \/ \E q \in Query, k \in MaxResults : Contract!Answer(s, q, k)
    <2>1. UNCHANGED docs
        BY <1>6 DEF SearchCall, lengths, docs
    <2>2. ASSUME NEW q \in Query, NEW k \in MaxResults, Len(q) = 0,
                 answer' = [answer EXCEPT ![s] = {}]
          PROVE  Contract!Answer(s, q, k)
        <3> DEFINE score == Contract!FullScore(docs, q)
        <3>1. DOMAIN score = {}
            <4>1. 1..0 = {}
                OBVIOUS
            <4>2. QED
                BY <2>2, <4>1, ContractOperators DEF RunningScore
        <3>2. Contract!Cap(k) \in Nat
            BY ProcessAssumption, ContractOperators DEF Cap, DefaultMaxResults
        <3> HIDE DEF score
        <3>3. {} \in Contract!TopChoices(score, Contract!Cap(k))
            BY <3>1, <3>2, ContractOperators, FS_EmptySet DEF TopChoices
        <3>4. Contract!Results(docs, score, {}) = {}
            BY DEF Contract!Results
        <3>5. QED
            BY <2>1, <2>2, <3>3, <3>4 DEF Contract!Answer, score, docs
    <2>3. QED
        BY <1>6, <2>1, <2>2 DEF SearchCall
<1>7. ASSUME NEW s \in Searcher, SearchReturn(s)
      PROVE  \E q \in Query, k \in MaxResults : Contract!Answer(s, q, k)
    <2> DEFINE q == call[s].query
               score == Contract!FullScore(docs, q)
    <2>1. spc[s] = "score" /\ call[s].next > Len(q) /\ UNCHANGED <<chunks, docLen>>
        BY <1>7 DEF SearchReturn, lengths
    <2>2. docs = chunks /\ UNCHANGED docs
        BY <1>2, <2>1, NoReaders DEF LockHeld, docs
    <2>3. PICK k \in MaxResults : call[s].cap = Cap(k)
        BY <2>1 DEF CallsKept, CallKept
    <2>4. q \in Query /\ call[s].next - 1 = Len(q)
        BY <2>1, ProcessAssumption DEF CallsKept, CallKept
    <2>5. call[s].score = score
        BY <2>1, <2>2, <2>4, ContractOperators DEF ScoreInv
    <2>6. PICK top \in TopChoices(call[s].score, call[s].cap) :
             answer' = [answer EXCEPT ![s] =
                {[chunk |-> chunks[d], at |-> d, score |-> call[s].score[d]] : d \in top}]
        BY <1>7 DEF SearchReturn
    <2>7. top \in Contract!TopChoices(score, Contract!Cap(k))
        BY <2>3, <2>5, <2>6, ContractOperators
    <2>8. answer' = [answer EXCEPT ![s] = Contract!Results(docs, score, top)]
        BY <2>2, <2>5, <2>6 DEF Contract!Results
    <2>9. Contract!Answer(s, q, k)
        BY <2>2, <2>7, <2>8 DEF Contract!Answer, docs
    <2>10. QED
        BY <2>4, <2>9
<1>8. QED
    BY <1>3, <1>4, <1>5, <1>6, <1>7, NextCases
    DEF Contract!Next, docs, vars, lengths, MergeCall, MergeLock, MergeIndex,
        SearchRLock, SearchCount, SearchScore1

(* Every Merge and every Search takes effect at one instant between its    *)
(* call and its return, whatever the interleaving: a search is answered    *)
(* as an index built at that instant from all merged chunks would.         *)
THEOREM IndexIsLinearizable ==
    ASSUME ScoreIsNumber
    PROVE  Spec => Linearizable
<1>1. Init => ScoreInv
    BY DEF Init, ScoreInv
<1>2. IndexInv /\ ScoreInv /\ [Next]_vars => ScoreInv'
    BY ScoreStep
<1>3. Init => Contract!Init
    BY DEF Init, Contract!Init
<1>4. IndexInv /\ ScoreInv /\ [Next]_vars => [Contract!Next]_<<docs, answer>>
    BY ContractStep
<1>5. QED
    BY <1>1, <1>2, <1>3, <1>4, IndexAlways, PTL DEF Spec, Linearizable, Contract!Spec, docs
=============================================================================
