----------------------------- MODULE SearchIndex -----------------------------
(***************************************************************************)
(* internal/search/index.go, type Index: an in-memory inverted index that  *)
(* source workers Merge chunks into while tool calls Search it.  Merge     *)
(* takes the write lock of mu, Search the read lock.  Every step between   *)
(* two points where another goroutine can run is an action.                *)
(***************************************************************************)
EXTENDS SearchScore

CONSTANTS
    Merger,     \* goroutines that merge
    Searcher,   \* goroutines that search
    NoOne,      \* nobody has announced a write
    Batch,      \* the chunk lists Merge is called with
    Query,      \* token lists of queries
    MaxResults, \* result limits of searches
    MaxChunks   \* bound: no Merge is called that would pass it

ASSUME ProcessAssumption ==
    /\ NoOne \notin Merger
    /\ Batch \subseteq Seq(Chunk)
    /\ Query \subseteq Seq(Term)
    /\ MaxResults \subseteq Int
    /\ MaxChunks \in Nat

VARIABLES
    chunks, inverted, termFreq, titleInv, tagInv, docLen, totalBodyLen, avgLen,
    writer,     \* the merger that holds mu, or waits in it for readers to leave
    reading,    \* searchers that hold mu for reading
    parked,     \* searchers blocked in RLock behind an announced writer
    mpc, job,   \* per merger: where it is; its batch and the locals of Merge
    spc, call,  \* per searcher: where it is; its query and the locals of Search
    answer      \* per searcher: the results it was last given

postings == <<inverted, termFreq, titleInv, tagInv>>
lengths == <<docLen, totalBodyLen, avgLen>>
mu == <<writer, reading, parked>>
vars == <<chunks, postings, lengths, mu, mpc, job, spc, call, answer>>

Index == [inverted |-> inverted, termFreq |-> termFreq, titleInv |-> titleInv,
          tagInv |-> tagInv, docLen |-> docLen, totalBodyLen |-> totalBodyLen,
          avgLen |-> avgLen]

NoJob == [batch |-> <<>>, base |-> 0, newDocLen |-> <<>>, addedLen |-> 0]
NoCall == [query |-> <<>>, cap |-> 0, n |-> 0, next |-> 1, score |-> <<>>]

(* NewLiveIndex: an empty index, nobody using it. *)
Init ==
    /\ chunks = <<>>
    /\ inverted = [t \in Term |-> {}]
    /\ termFreq = [t \in Term |-> <<>>]
    /\ titleInv = [t \in Term |-> <<>>]
    /\ tagInv = [t \in Term |-> <<>>]
    /\ docLen = <<>> /\ totalBodyLen = 0 /\ avgLen = <<0, 0>>
    /\ writer = NoOne /\ reading = {} /\ parked = {}
    /\ mpc = [m \in Merger |-> "idle"] /\ job = [m \in Merger |-> NoJob]
    /\ spc = [s \in Searcher |-> "idle"] /\ call = [s \in Searcher |-> NoCall]
    /\ answer = [s \in Searcher |-> {}]

-----------------------------------------------------------------------------
(* sync.RWMutex.  A writer announces itself, which parks every later       *)
(* reader, and waits for the readers that are in; its Unlock lets all the  *)
(* parked readers in before another writer can announce itself.            *)

Lock(m) == writer = NoOne /\ writer' = m /\ UNCHANGED <<reading, parked>>

Locked(m) == writer = m /\ reading = {}

Unlock ==
    /\ writer' = NoOne
    /\ reading' = reading \cup parked
    /\ parked' = {}

RLock(s) ==
    /\ IF writer = NoOne
       THEN reading' = reading \cup {s} /\ UNCHANGED parked
       ELSE parked' = parked \cup {s} /\ UNCHANGED reading
    /\ UNCHANGED writer

RUnlock(s) == reading' = reading \ {s} /\ UNCHANGED <<writer, parked>>

-----------------------------------------------------------------------------
(* Merge.  A posting list, as how often each chunk occurs in it, after m   *)
(* more postings of chunk d.                                               *)
Posted(list, d, m) ==
    IF m = 0 THEN list
    ELSE [e \in DOMAIN list \cup {d} |->
            (IF e \in DOMAIN list THEN list[e] ELSE 0) + (IF e = d THEN m ELSE 0)]

(* Merge of no chunks returns at once and changes nothing. *)
MergeCall(m) ==
    /\ mpc[m] = "idle"
    /\ \E batch \in Batch :
          /\ Len(batch) > 0
          /\ Len(chunks) + Len(batch) <= MaxChunks
          /\ job' = [job EXCEPT ![m] = [NoJob EXCEPT !.batch = batch]]
    /\ mpc' = [mpc EXCEPT ![m] = "lock"]
    /\ UNCHANGED <<chunks, postings, lengths, mu, spc, call, answer>>

MergeLock(m) ==
    /\ mpc[m] = "lock"
    /\ Lock(m)
    /\ mpc' = [mpc EXCEPT ![m] = "append"]
    /\ UNCHANGED <<chunks, postings, lengths, job, spc, call, answer>>

(* Mutant: the chunks are appended without waiting for the readers. *)
MergeAppendUnlocked(m) ==
    /\ mpc[m] = "append"
    /\ job' = [job EXCEPT ![m].base = Len(chunks)]
    /\ chunks' = chunks \o job[m].batch
    /\ mpc' = [mpc EXCEPT ![m] = "index"]
    /\ UNCHANGED <<postings, lengths, mu, spc, call, answer>>

MergeAppend(m) ==
    /\ mpc[m] = "append"
    /\ Locked(m)
    /\ job' = [job EXCEPT ![m].base = Len(chunks)]
    /\ chunks' = chunks \o job[m].batch
    /\ mpc' = [mpc EXCEPT ![m] = "index"]
    /\ UNCHANGED <<postings, lengths, mu, spc, call, answer>>

(* Mutant: positions counted from before the chunks that are there. *)
MergeIndexOffByOne(m) ==
    LET i == Len(job[m].newDocLen) + 1
        c == job[m].batch[i]
        d == job[m].base + i - 1
    IN  /\ mpc[m] = "index"
        /\ i <= Len(job[m].batch)
        /\ inverted' = [t \in Term |->
              inverted[t] \cup (IF Body[c][t] > 0 THEN {d} ELSE {})]
        /\ termFreq' = [t \in Term |-> Posted(termFreq[t], d, Body[c][t])]
        /\ titleInv' = [t \in Term |-> Posted(titleInv[t], d, Title[c][t])]
        /\ tagInv' = [t \in Term |-> Posted(tagInv[t], d, Tag[c][t])]
        /\ job' = [job EXCEPT ![m].newDocLen = Append(@, BodyLen[c]),
                              ![m].addedLen = @ + BodyLen[c]]
        /\ UNCHANGED <<chunks, lengths, mu, mpc, spc, call, answer>>

(* Mutant: the tags of merged chunks are not posted. *)
MergeIndexUntagged(m) ==
    LET i == Len(job[m].newDocLen) + 1
        c == job[m].batch[i]
        d == job[m].base + i
    IN  /\ mpc[m] = "index"
        /\ i <= Len(job[m].batch)
        /\ inverted' = [t \in Term |->
              inverted[t] \cup (IF Body[c][t] > 0 THEN {d} ELSE {})]
        /\ termFreq' = [t \in Term |-> Posted(termFreq[t], d, Body[c][t])]
        /\ titleInv' = [t \in Term |-> Posted(titleInv[t], d, Title[c][t])]
        /\ job' = [job EXCEPT ![m].newDocLen = Append(@, BodyLen[c]),
                              ![m].addedLen = @ + BodyLen[c]]
        /\ UNCHANGED <<chunks, tagInv, lengths, mu, mpc, spc, call, answer>>

(* indexChunk for the next chunk of the batch. *)
MergeIndex(m) ==
    LET i == Len(job[m].newDocLen) + 1
        c == job[m].batch[i]
        d == job[m].base + i
    IN  /\ mpc[m] = "index"
        /\ i <= Len(job[m].batch)
        /\ inverted' = [t \in Term |->
              inverted[t] \cup (IF Body[c][t] > 0 THEN {d} ELSE {})]
        /\ termFreq' = [t \in Term |-> Posted(termFreq[t], d, Body[c][t])]
        /\ titleInv' = [t \in Term |-> Posted(titleInv[t], d, Title[c][t])]
        /\ tagInv' = [t \in Term |-> Posted(tagInv[t], d, Tag[c][t])]
        /\ job' = [job EXCEPT ![m].newDocLen = Append(@, BodyLen[c]),
                              ![m].addedLen = @ + BodyLen[c]]
        /\ UNCHANGED <<chunks, lengths, mu, mpc, spc, call, answer>>

(* Mutant: the lengths of earlier merges are forgotten. *)
MergeFinishReset(m) ==
    /\ mpc[m] = "index"
    /\ Len(job[m].newDocLen) = Len(job[m].batch)
    /\ docLen' = docLen \o job[m].newDocLen
    /\ totalBodyLen' = job[m].addedLen
    /\ avgLen' = <<totalBodyLen', Len(chunks)>>
    /\ Unlock
    /\ mpc' = [mpc EXCEPT ![m] = "idle"]
    /\ job' = [job EXCEPT ![m] = NoJob]
    /\ UNCHANGED <<chunks, postings, spc, call, answer>>

MergeFinish(m) ==
    /\ mpc[m] = "index"
    /\ Len(job[m].newDocLen) = Len(job[m].batch)
    /\ docLen' = docLen \o job[m].newDocLen
    /\ totalBodyLen' = totalBodyLen + job[m].addedLen
    /\ avgLen' = <<totalBodyLen', Len(chunks)>>
    /\ Unlock
    /\ mpc' = [mpc EXCEPT ![m] = "idle"]
    /\ job' = [job EXCEPT ![m] = NoJob]
    /\ UNCHANGED <<chunks, postings, spc, call, answer>>

-----------------------------------------------------------------------------
(* Search.  A query without terms returns nothing and takes no lock. *)
SearchCall(s) ==
    /\ spc[s] = "idle"
    /\ \E q \in Query, k \in MaxResults :
          \/ /\ Len(q) = 0
             /\ answer' = [answer EXCEPT ![s] = {}]
             /\ UNCHANGED <<spc, call>>
          \/ /\ Len(q) > 0
             /\ call' = [call EXCEPT ![s] = [NoCall EXCEPT !.query = q, !.cap = Cap(k)]]
             /\ spc' = [spc EXCEPT ![s] = "rlock"]
             /\ UNCHANGED answer
    /\ UNCHANGED <<chunks, postings, lengths, mu, mpc, job>>

SearchRLock(s) ==
    /\ spc[s] = "rlock"
    /\ RLock(s)
    /\ spc' = [spc EXCEPT ![s] = "count"]
    /\ UNCHANGED <<chunks, postings, lengths, mpc, job, call, answer>>

(* n is read once, right after RLock returns. *)
SearchCount(s) ==
    /\ spc[s] = "count"
    /\ s \in reading
    /\ call' = [call EXCEPT ![s].n = Len(chunks)]
    /\ spc' = [spc EXCEPT ![s] = "score"]
    /\ UNCHANGED <<chunks, postings, lengths, mu, mpc, job, answer>>

(* The next term of the query adds to the scores. *)
SearchScore1(s) ==
    LET t == call[s].query[call[s].next]
        old == call[s].score
    IN  /\ spc[s] = "score"
        /\ call[s].next <= Len(call[s].query)
        /\ call' = [call EXCEPT
              ![s].score = [d \in DOMAIN old \cup Scored(Index, t) |->
                  (IF d \in DOMAIN old THEN old[d] ELSE 0)
                  + TermScore(Index, call[s].n, t, d)],
              ![s].next = @ + 1]
        /\ UNCHANGED <<chunks, postings, lengths, mu, mpc, job, spc, answer>>

(* Mutant: the early return leaves the read lock held. *)
SearchReturnHolding(s) ==
    /\ spc[s] = "score"
    /\ call[s].next > Len(call[s].query)
    /\ \E top \in TopChoices(call[s].score, call[s].cap) :
          answer' = [answer EXCEPT ![s] =
              {[chunk |-> chunks[d], at |-> d, score |-> call[s].score[d]] : d \in top}]
    /\ spc' = [spc EXCEPT ![s] = "idle"]
    /\ call' = [call EXCEPT ![s] = NoCall]
    /\ UNCHANGED <<chunks, postings, lengths, mu, mpc, job>>

(* Rank, truncate, look the chunks up and release the lock. *)
SearchReturn(s) ==
    /\ spc[s] = "score"
    /\ call[s].next > Len(call[s].query)
    /\ \E top \in TopChoices(call[s].score, call[s].cap) :
          answer' = [answer EXCEPT ![s] =
              {[chunk |-> chunks[d], at |-> d, score |-> call[s].score[d]] : d \in top}]
    /\ RUnlock(s)
    /\ spc' = [spc EXCEPT ![s] = "idle"]
    /\ call' = [call EXCEPT ![s] = NoCall]
    /\ UNCHANGED <<chunks, postings, lengths, mpc, job>>

-----------------------------------------------------------------------------
Merge(m) == MergeLock(m) \/ MergeAppend(m) \/ MergeIndex(m) \/ MergeFinish(m)
Search(s) == SearchRLock(s) \/ SearchCount(s) \/ SearchScore1(s) \/ SearchReturn(s)

Next ==
    \/ \E m \in Merger : MergeCall(m) \/ Merge(m)
    \/ \E s \in Searcher : SearchCall(s) \/ Search(s)

(* Callers may stop calling; a call that was made runs on whenever it can: *)
(* goroutines are scheduled and neither operation waits for anything but mu. *)
Fairness ==
    /\ \A m \in Merger : WF_vars(Merge(m))
    /\ \A s \in Searcher : WF_vars(Search(s))

Spec == Init /\ [][Next]_vars
FairSpec == Spec /\ Fairness

-----------------------------------------------------------------------------
(* Every variable has its type. *)
TypeOK ==
    /\ chunks \in Seq(Chunk)
    /\ inverted \in [Term -> SUBSET (Nat \ {0})]
    /\ DOMAIN termFreq = Term /\ DOMAIN titleInv = Term /\ DOMAIN tagInv = Term
    /\ docLen \in Seq(Nat) /\ totalBodyLen \in Nat /\ avgLen \in Nat \X Nat
    /\ writer \in Merger \cup {NoOne}
    /\ reading \in SUBSET Searcher /\ parked \in SUBSET Searcher
    /\ mpc \in [Merger -> {"idle", "lock", "append", "index"}]
    /\ job \in [Merger -> [batch : Seq(Chunk), base : Nat, newDocLen : Seq(Nat), addedLen : Nat]]
    /\ spc \in [Searcher -> {"idle", "rlock", "count", "score"}]
    /\ DOMAIN call = Searcher /\ DOMAIN answer = Searcher

(* Whenever no Merge is between its first and last write, the index that   *)
(* grew by merges is the index NewIndex would build from all the chunks:   *)
(* same postings, frequencies, lengths and average.                        *)
MergedIsRebuilt ==
    (\A m \in Merger : mpc[m] # "index") => Index = NewIndex(chunks)

(* A search that has read the number of chunks never meets a posting of a  *)
(* chunk it has no length for, nor a chunk past that number, until it      *)
(* returns; otherwise docLen[docIdx] would panic or idf turn negative.     *)
ScoresInRange ==
    \A s \in Searcher : spc[s] = "score" =>
        /\ call[s].n = Len(chunks)
        /\ Len(docLen) = call[s].n
        /\ \A t \in Term : Scored(Index, t) \subseteq 1..call[s].n

(* Merges and searches take effect at one instant each. *)
Contract == INSTANCE IndexContract WITH docs <- SubSeq(chunks, 1, Len(docLen))
Linearizable == Contract!Spec

(* A Merge ends however many searches keep coming, and a search ends       *)
(* however many merges keep coming.                                        *)
CallsReturn ==
    /\ \A m \in Merger : mpc[m] = "lock" ~> mpc[m] = "idle"
    /\ \A s \in Searcher : spc[s] = "rlock" ~> spc[s] = "idle"
=============================================================================
